------------------------ MODULE BadgeIssuanceProofs ------------------------
(***************************************************************************)
(* Theorems of BadgeIssuance, for every number of students, workers and    *)
(* badges, and any mixture of faults.  The steps of the requests are those *)
(* of CourseProgress, and its lemmas are used for them; what is proved     *)
(* here is what the workers, the maintenance jobs and the faults add.      *)
(***************************************************************************)
EXTENDS BadgeIssuance, CourseProgressProofs

(* The rows, records and workers that BadgeIssuance adds.                  *)
BadgeTypeOK ==
    /\ badge \in [Enrollments -> [Codes -> BadgeRow]]
    /\ announced \in [Enrollments -> Nat]
    /\ processed \in [Enrollments -> Results \cup {"no"}]
    /\ exec \in [Workers -> Exec]
    /\ missing \in [Reapers -> SUBSET Enrollments]
    /\ faults \in 0 .. MaxFaults

(* What follows from approved_at: a worker about to insert a badge, an     *)
(* enrolment a maintenance job selected and a row of badges all belong     *)
(* to somebody who was approved once.                                      *)
IssuanceHolds(e) ==
    /\ \A w \in Workers : Running(w, e, "insert") => approvedAt[e]
    /\ \A r \in Reapers : e \in missing[r] => approvedAt[e]
    /\ Issued(e) # {} => approvedAt[e]
    /\ \A m, n \in Alive(e) : m = n

BadgeInv ==
    /\ ApprovalInv
    /\ BadgeTypeOK
    /\ \A e \in Enrollments : IssuanceHolds(e)

-----------------------------------------------------------------------------
(* The asynq record stays one, and comes into being only by publication.   *)
LEMMA DeliverTyped == ASSUME NEW t \in Task, Deliverable(t)
                      PROVE  Deliver(t) \in Task /\ t # NoTask
  BY MaxRetriesAssumption DEF Deliver, Deliverable, Task, TaskStates, NoTask

LEMMA FailedTyped == ASSUME NEW t \in Task PROVE Failed(t) \in Task
  BY MaxRetriesAssumption DEF Failed, Task, TaskStates

LEMMA ReportTyped ==
    ASSUME NEW t \in Task, NEW o \in {"ok", "err"}
    PROVE  Report(t, o) \in Task /\ (t = NoTask => Report(t, o) = NoTask)
  <1>1. CASE t.st # "active"
    BY <1>1 DEF Report
  <1>2. CASE t.st = "active" /\ o = "ok"
    BY <1>2 DEF Report, Task, TaskStates, NoTask
  <1>3. CASE t.st = "active" /\ o = "err"
    BY <1>3, FailedTyped DEF Report, NoTask
  <1> QED BY <1>1, <1>2, <1>3

LEMMA RetentionTyped == ASSUME NEW t \in Task
                        PROVE  /\ RetentionOver(t) \in Task
                               /\ t = NoTask => RetentionOver(t) = NoTask
  BY NoTaskTyped DEF RetentionOver

LEMMA NoExecTyped == NoExec \in Exec /\ \A e \in Enrollments : NoExec.of # e
  BY BadgeAssumption, ProgressAssumption DEF NoExec, Exec, ExecPcs, Results

LEMMA FaultTyped == ASSUME NEW kind, Fault(kind), faults \in 0 .. MaxFaults
                    PROVE  faults' \in 0 .. MaxFaults
  BY BadgeAssumption DEF Fault

-----------------------------------------------------------------------------
(* The job, the maintenance job and the faults touch nothing of the        *)
(* student's progress but the asynq record, which they give only to        *)
(* somebody who was approved once.                                         *)
LEMMA OnlyTaskApproval ==
    ASSUME ApprovalInv, NoProgress, badgeTask' \in [Enrollments -> Task],
           \A e \in Enrollments : badgeTask'[e] # NoTask => approvedAt[e]
    PROVE  ApprovalInv'
  <1> USE DEF NoProgress, courseVars, evidenceVars
  <1>1. TypeInv'
    BY DEF ApprovalInv, TypeInv, ProgressTypeOK, RequestsOK, VersionFirst
  <1>2. \A c \in Requests : ReadsPublished(c)'
    BY DEF ApprovalInv, ReadsPublished
  <1>3. \A c \in Requests, e \in Enrollments, v \in Versions : CountsHold(c, e, v)'
    <2> TAKE c \in Requests, e \in Enrollments, v \in Versions
    <2>1. CountsHold(c, e, v)
      BY DEF ApprovalInv
    <2>2. Enough(e, v)' = Enough(e, v) /\ Earned(e, v)' = Earned(e, v)
      BY DEF Earned, Enough, PassedAll
    <2> QED BY <2>1, <2>2 DEF CountsHold
  <1>4. ASSUME NEW e \in Enrollments PROVE ApprovalHolds(e)'
    <2>1. ApprovalHolds(e)
      BY DEF ApprovalInv
    <2>2. /\ state'[e] = "approved" => approvedAt'[e]
          /\ \A c \in Requests : At(c, e, "enqueue")' => approvedAt'[e]
      BY <2>1 DEF ApprovalHolds, At
    <2>3. approvedAt'[e] => (\E v \in Versions : v <= current /\ Earned(e, v))'
      BY <2>1 DEF ApprovalHolds, Earned, Enough, PassedAll
    <2> QED BY <2>2, <2>3 DEF ApprovalHolds
  <1> QED BY <1>1, <1>2, <1>3, <1>4 DEF ApprovalInv

LEMMA SameProgress ==
    ASSUME ApprovalInv, UNCHANGED progressVars
    PROVE  ApprovalInv' /\ NoProgress
  BY NextApproval DEF progressVars, NoProgress

-----------------------------------------------------------------------------
(* A step of a worker that writes no badge and no asynq record.            *)
LEMMA WorkerMoves ==
    ASSUME BadgeInv, UNCHANGED <<progressVars, badge, missing>>,
           NEW w \in Workers, NEW x \in Exec, exec' = [exec EXCEPT ![w] = x],
           \A e \in Enrollments : x.pc = "insert" /\ x.of = e => approvedAt[e],
           announced' \in [Enrollments -> Nat],
           processed' \in [Enrollments -> Results \cup {"no"}],
           faults' \in 0 .. MaxFaults
    PROVE  BadgeInv'
  <1>1. ApprovalInv' /\ NoProgress
    BY SameProgress DEF BadgeInv
  <1>2. BadgeTypeOK'
    BY DEF BadgeInv, BadgeTypeOK
  <1>3. ASSUME NEW e \in Enrollments PROVE IssuanceHolds(e)'
    <2>1. IssuanceHolds(e) /\ exec \in [Workers -> Exec]
      BY DEF BadgeInv, BadgeTypeOK
    <2>2. Alive(e)' = Alive(e) /\ Issued(e)' = Issued(e)
      BY DEF Alive, Issued
    <2>3. \A v \in Workers : Running(v, e, "insert")' => approvedAt[e]
      BY <2>1 DEF Running, IssuanceHolds
    <2> QED BY <1>1, <2>1, <2>2, <2>3 DEF IssuanceHolds, NoProgress
  <1> QED BY <1>1, <1>2, <1>3 DEF BadgeInv

(* How a worker's record changes.                                          *)
LEMMA StepTyped ==
    ASSUME exec \in [Workers -> Exec], NEW w \in Workers, NEW pc \in ExecPcs, Step(w, pc)
    PROVE  \E x \in Exec : /\ exec' = [exec EXCEPT ![w] = x]
                           /\ x.pc = pc /\ x.of = exec[w].of /\ x.code = exec[w].code
                           /\ x.result = exec[w].result
  <1>1. [exec[w] EXCEPT !.pc = pc] \in Exec
    BY DEF Exec
  <1>2. exec' = [exec EXCEPT ![w] = [exec[w] EXCEPT !.pc = pc]]
    BY DEF Step, Exec
  <1> QED BY <1>1, <1>2 DEF Exec

LEMMA FinishTyped ==
    ASSUME exec \in [Workers -> Exec], NEW w \in Workers, NEW r \in Results, Finish(w, r)
    PROVE  \E x \in Exec : /\ exec' = [exec EXCEPT ![w] = x]
                           /\ x.pc = "mark" /\ x.of = exec[w].of /\ x.code = exec[w].code
                           /\ x.result = r
  <1>1. [exec[w] EXCEPT !.pc = "mark", !.result = r] \in Exec
    BY DEF Exec, ExecPcs
  <1>2. exec' = [exec EXCEPT ![w] = [exec[w] EXCEPT !.pc = "mark", !.result = r]]
    BY DEF Finish, Exec
  <1> QED BY <1>1, <1>2 DEF Exec

LEMMA StartIssueInv ==
    ASSUME BadgeInv, NEW w \in Workers, NEW e \in Enrollments,
           StartIssue(w, e) \/ JobReturn(w, e)
    PROVE  BadgeInv'
  <1>t. /\ badgeTask \in [Enrollments -> Task] /\ exec \in [Workers -> Exec]
        /\ \A f \in Enrollments : IssuanceHolds(f) /\ ApprovalHolds(f)
    BY DEF BadgeInv, BadgeTypeOK, ApprovalInv, TypeInv, ProgressTypeOK
  <1>1. PICK x \in Exec : /\ exec' = [exec EXCEPT ![w] = x]
                          /\ x.pc # "insert"
    <2>1. CASE StartIssue(w, e)
      <3> DEFINE x == [NoExec EXCEPT !.pc = "check", !.of = e]
      <3>1. x \in Exec /\ x.pc # "insert"
        BY NoExecTyped DEF Exec, ExecPcs, NoExec
      <3> QED BY <2>1, <3>1 DEF StartIssue
    <2>2. CASE JobReturn(w, e)
      BY <2>2, NoExecTyped DEF JobReturn, NoExec
    <2> QED BY <2>1, <2>2
  <1>2. PICK t \in Task : /\ badgeTask' = [badgeTask EXCEPT ![e] = t]
                          /\ t # NoTask => badgeTask[e] # NoTask
    <2>1. CASE StartIssue(w, e)
      BY <1>t, <2>1, DeliverTyped DEF StartIssue
    <2>2. CASE JobReturn(w, e)
      BY <1>t, <2>2, ReportTyped DEF JobReturn
    <2> QED BY <2>1, <2>2
  <1>3. NoProgress /\ UNCHANGED <<badge, announced, processed, missing, faults>>
    BY DEF StartIssue, JobReturn
  <1>4. ApprovalInv'
    <2>1. \A f \in Enrollments : badgeTask'[f] # NoTask => badgeTask[f] # NoTask
      BY <1>t, <1>2
    <2>2. \A f \in Enrollments : badgeTask'[f] # NoTask => approvedAt[f]
      BY <1>t, <2>1 DEF ApprovalHolds
    <2>3. badgeTask' \in [Enrollments -> Task] /\ ApprovalInv
      BY <1>t, <1>2 DEF BadgeInv
    <2> QED BY <1>3, <2>2, <2>3, OnlyTaskApproval
  <1>5. BadgeTypeOK'
    BY <1>1, <1>3 DEF BadgeInv, BadgeTypeOK
  <1>6. ASSUME NEW f \in Enrollments PROVE IssuanceHolds(f)'
    <2>1. Alive(f)' = Alive(f) /\ Issued(f)' = Issued(f)
      BY <1>3 DEF Alive, Issued
    <2>2. \A v \in Workers : Running(v, f, "insert")' => Running(v, f, "insert")
      BY <1>t, <1>1 DEF Running
    <2> QED BY <1>t, <1>3, <2>1, <2>2 DEF IssuanceHolds, NoProgress
  <1> QED BY <1>4, <1>5, <1>6 DEF BadgeInv

LEMMA JobStepInv ==
    ASSUME BadgeInv, NEW w \in Workers, NEW e \in Enrollments,
           Check(w, e) \/ LoadState(w, e) \/ PutImage(w, e) \/ Announce(w, e)
               \/ MarkProcessed(w, e)
    PROVE  BadgeInv'
  <1>t. /\ exec \in [Workers -> Exec] /\ exec[w] \in Exec
        /\ announced \in [Enrollments -> Nat]
        /\ processed \in [Enrollments -> Results \cup {"no"}]
        /\ faults \in 0 .. MaxFaults
    BY DEF BadgeInv, BadgeTypeOK
  <1>p. {"load", "ok", "insert", "setKey"} \subseteq ExecPcs
        /\ {"skipped", "issued"} \subseteq Results
    BY DEF ExecPcs, Results
  <1>1. PICK x \in Exec : /\ exec' = [exec EXCEPT ![w] = x]
                          /\ x.of = exec[w].of
                          /\ x.pc = "insert" => LoadState(w, e) /\ state[e] = "approved"
    BY <1>t, <1>p, StepTyped, FinishTyped
       DEF Check, LoadState, PutImage, Announce, MarkProcessed
  <1>2. \A f \in Enrollments : x.pc = "insert" /\ x.of = f => approvedAt[f]
    <2>1. LoadState(w, e) => x.of = e
      BY <1>1 DEF LoadState, Running
    <2>2. ApprovalHolds(e)
      BY DEF BadgeInv, ApprovalInv
    <2>3. state[e] = "approved" => approvedAt[e]
      BY <2>2 DEF ApprovalHolds
    <2> QED BY <1>1, <2>1, <2>3
  <1>3. UNCHANGED <<progressVars, badge, missing>>
    BY DEF Check, LoadState, PutImage, Announce, MarkProcessed
  <1>4. announced' \in [Enrollments -> Nat]
    BY <1>t DEF Check, LoadState, PutImage, Announce, MarkProcessed
  <1>5. processed' \in [Enrollments -> Results \cup {"no"}]
    BY <1>t DEF Check, LoadState, PutImage, Announce, MarkProcessed, Exec
  <1>6. faults' \in 0 .. MaxFaults
    <2>1. faults' = faults \/ Fault("error")
      BY DEF Check, LoadState, PutImage, Announce, MarkProcessed
    <2> QED BY <1>t, <2>1, FaultTyped
  <1> QED BY <1>1, <1>2, <1>3, <1>4, <1>5, <1>6, WorkerMoves
(* A step that writes a row of badges and, perhaps, moves a worker.        *)
LEMMA RowWritten ==
    ASSUME BadgeInv, UNCHANGED <<progressVars, announced, processed, missing, faults>>,
           exec' \in [Workers -> Exec],
           \A w \in Workers, f \in Enrollments :
               Running(w, f, "insert")' => Running(w, f, "insert"),
           NEW e \in Enrollments, NEW n, NEW r \in BadgeRow,
           badge' = [badge EXCEPT ![e][n] = r],
           n \in Codes /\ r.st # "none" => approvedAt[e],
           n \in Codes /\ r.st = "alive" => Alive(e) \subseteq {n}
    PROVE  BadgeInv'
  <1>t. /\ badge \in [Enrollments -> [Codes -> BadgeRow]]
        /\ \A f \in Enrollments : IssuanceHolds(f)
    BY DEF BadgeInv, BadgeTypeOK
  <1>1. ApprovalInv' /\ NoProgress
    BY SameProgress DEF BadgeInv
  <1>2. /\ badge' \in [Enrollments -> [Codes -> BadgeRow]]
        /\ \A f \in Enrollments, m \in Codes :
               badge'[f][m] = IF f = e /\ m = n THEN r ELSE badge[f][m]
    BY <1>t
  <1>3. BadgeTypeOK'
    BY <1>2 DEF BadgeInv, BadgeTypeOK
  <1>4. ASSUME NEW f \in Enrollments PROVE IssuanceHolds(f)'
    <2>1. Issued(f)' # {} => Issued(f) # {} \/ (f = e /\ n \in Codes /\ r.st # "none")
      BY <1>2 DEF Issued
    <2>2. \A m \in Alive(f)' : m \in Alive(f) \/ (f = e /\ m = n /\ n \in Codes /\ r.st = "alive")
      BY <1>2 DEF Alive
    <2>3. \A m, k \in Alive(f)' : m = k
      BY <1>t, <2>2 DEF IssuanceHolds
    <2>4. Issued(f)' # {} => approvedAt[f]
      BY <1>t, <2>1 DEF IssuanceHolds
    <2> QED BY <1>t, <1>1, <2>3, <2>4 DEF IssuanceHolds, NoProgress
  <1> QED BY <1>1, <1>3, <1>4 DEF BadgeInv

LEMMA InsertBadgeInv ==
    ASSUME BadgeInv, NEW w \in Workers, NEW e \in Enrollments, InsertBadge(w, e)
    PROVE  BadgeInv'
  <1>t. /\ badge \in [Enrollments -> [Codes -> BadgeRow]]
        /\ exec \in [Workers -> Exec]
        /\ IssuanceHolds(e)
    BY DEF BadgeInv, BadgeTypeOK
  <1>p. UNCHANGED <<progressVars, announced, processed, missing, faults>>
    BY DEF InsertBadge
  <1>1. CASE Alive(e) # {}
    <2>1. Step(w, "err") /\ UNCHANGED badge
      BY <1>1 DEF InsertBadge
    <2>2. PICK x \in Exec : exec' = [exec EXCEPT ![w] = x] /\ x.pc = "err"
      BY <1>t, <2>1, StepTyped DEF ExecPcs
    <2> QED BY <1>p, <2>1, <2>2, WorkerMoves DEF BadgeInv, BadgeTypeOK
  <1>2. CASE Alive(e) = {}
    <2> PICK n \in Codes \ Issued(e) :
             /\ badge' = [badge EXCEPT ![e][n].st = "alive"]
             /\ exec' = [exec EXCEPT ![w].pc = "putImage", ![w].code = n]
      BY <1>2 DEF InsertBadge
    <2> DEFINE r == [badge[e][n] EXCEPT !.st = "alive"]
               x == [exec[w] EXCEPT !.pc = "putImage", !.code = n]
    <2>1. r \in BadgeRow /\ badge' = [badge EXCEPT ![e][n] = r]
      BY <1>t DEF BadgeRow
    <2>2. x \in Exec /\ x.pc = "putImage" /\ exec' = [exec EXCEPT ![w] = x]
      <3>1. n \in 0 .. MaxBadges /\ "putImage" \in ExecPcs
        BY BadgeAssumption DEF Codes, ExecPcs
      <3>2. exec[w] \in Exec
        BY <1>t
      <3>3. x \in Exec /\ x.pc = "putImage"
        BY <3>1, <3>2 DEF Exec
      <3>4. exec' = [exec EXCEPT ![w] = x]
        BY <1>t
      <3> QED BY <3>3, <3>4
    <2>3. Running(w, e, "insert") => approvedAt[e]
      BY <1>t DEF IssuanceHolds
    <2>4. approvedAt[e]
      BY <2>3 DEF InsertBadge
    <2> HIDE DEF r, x
    <2>5. exec' \in [Workers -> Exec]
      BY <1>t, <2>2
    <2>6. \A v \in Workers, f \in Enrollments :
             Running(v, f, "insert")' => Running(v, f, "insert")
      BY <1>t, <2>2 DEF Running
    <2> QED BY <1>2, <1>p, <2>1, <2>4, <2>5, <2>6, RowWritten
  <1> QED BY <1>1, <1>2

LEMMA SetImageKeyInv ==
    ASSUME BadgeInv, NEW w \in Workers, NEW e \in Enrollments, SetImageKey(w, e)
    PROVE  BadgeInv'
  <1>t. /\ badge \in [Enrollments -> [Codes -> BadgeRow]]
        /\ exec \in [Workers -> Exec]
        /\ IssuanceHolds(e)
    BY DEF BadgeInv, BadgeTypeOK
  <1>1. PICK x \in Exec : exec' = [exec EXCEPT ![w] = x] /\ x.pc = "announce"
    BY <1>t, StepTyped DEF SetImageKey, ExecPcs
  <1>2. \A v \in Workers, f \in Enrollments :
           Running(v, f, "insert")' => Running(v, f, "insert")
    BY <1>t, <1>1 DEF Running
  <1>3. UNCHANGED <<progressVars, announced, processed, missing, faults>>
    BY DEF SetImageKey
  <1> DEFINE n == exec[w].code
  <1>4. badge' = [badge EXCEPT ![e][n].image = TRUE]
    BY DEF SetImageKey
  <1> HIDE DEF n
  <1>5. CASE n \in Codes
    <2> DEFINE r == [badge[e][n] EXCEPT !.image = TRUE]
    <2>1. /\ r \in BadgeRow /\ r.st = badge[e][n].st
          /\ badge' = [badge EXCEPT ![e][n] = r]
      <3>1. badge[e][n] \in BadgeRow
        BY <1>t, <1>5
      <3>2. r \in BadgeRow /\ r.st = badge[e][n].st
        BY <3>1 DEF BadgeRow
      <3>3. badge' = [badge EXCEPT ![e][n] = r]
        BY <1>4, <3>1
      <3> QED BY <3>2, <3>3
    <2>2. r.st # "none" => Issued(e) # {}
      BY <1>5, <2>1 DEF Issued
    <2>3. r.st # "none" => approvedAt[e]
      BY <1>t, <2>2 DEF IssuanceHolds
    <2>4. r.st = "alive" => Alive(e) \subseteq {n}
      BY <1>t, <1>5, <2>1 DEF IssuanceHolds, Alive
    <2> HIDE DEF r
    <2> QED BY <1>t, <1>1, <1>2, <1>3, <2>1, <2>3, <2>4, RowWritten
  <1>6. CASE n \notin Codes
    <2>1. badge' = badge
      BY <1>t, <1>4, <1>6
    <2> QED BY <1>1, <1>3, <2>1, WorkerMoves DEF BadgeInv, BadgeTypeOK
  <1> QED BY <1>5, <1>6

LEMMA RevokeInv ==
    ASSUME BadgeInv, NEW e \in Enrollments, NEW n \in Codes, Revoke(e, n)
    PROVE  BadgeInv'
  <1>t. /\ badge \in [Enrollments -> [Codes -> BadgeRow]]
        /\ exec \in [Workers -> Exec]
        /\ IssuanceHolds(e)
    BY DEF BadgeInv, BadgeTypeOK
  <1> DEFINE r == [badge[e][n] EXCEPT !.st = "revoked"]
  <1>1. r \in BadgeRow /\ r.st = "revoked" /\ badge' = [badge EXCEPT ![e][n] = r]
    BY <1>t DEF Revoke, BadgeRow
  <1>2. Issued(e) # {}
    BY DEF Revoke, Issued
  <1>3. approvedAt[e]
    BY <1>t, <1>2 DEF IssuanceHolds
  <1>4. UNCHANGED <<progressVars, announced, processed, exec, missing, faults>>
    BY DEF Revoke
  <1>5. /\ exec' \in [Workers -> Exec]
        /\ \A w \in Workers, f \in Enrollments :
               Running(w, f, "insert")' => Running(w, f, "insert")
    BY <1>t, <1>4 DEF Running
  <1> HIDE DEF r
  <1> QED BY <1>1, <1>3, <1>4, <1>5, RowWritten
(* The queue and the maintenance job.                                      *)
LEMMA QueueStepInv ==
    ASSUME BadgeInv, NoProgress, UNCHANGED <<badge, announced, processed, exec>>,
           badgeTask' \in [Enrollments -> Task],
           \A e \in Enrollments :
               badgeTask'[e] # NoTask => badgeTask[e] # NoTask \/ approvedAt[e],
           missing' \in [Reapers -> SUBSET Enrollments],
           \A r \in Reapers : missing'[r] \subseteq missing[r],
           faults' \in 0 .. MaxFaults
    PROVE  BadgeInv'
  <1>t. \A e \in Enrollments : IssuanceHolds(e) /\ ApprovalHolds(e)
    BY DEF BadgeInv, ApprovalInv
  <1>1. ApprovalInv'
    <2>1. \A e \in Enrollments : badgeTask'[e] # NoTask => approvedAt[e]
      BY <1>t DEF ApprovalHolds, IssuanceHolds
    <2> QED BY <2>1, OnlyTaskApproval DEF BadgeInv
  <1>2. BadgeTypeOK'
    BY DEF BadgeInv, BadgeTypeOK
  <1>3. ASSUME NEW e \in Enrollments PROVE IssuanceHolds(e)'
    <2>1. Alive(e)' = Alive(e) /\ Issued(e)' = Issued(e)
      BY DEF Alive, Issued
    <2>2. \A w \in Workers : Running(w, e, "insert")' = Running(w, e, "insert")
      BY DEF Running
    <2> QED BY <1>t, <2>1, <2>2 DEF IssuanceHolds, NoProgress
  <1> QED BY <1>1, <1>2, <1>3 DEF BadgeInv

LEMMA QueueInv ==
    ASSUME BadgeInv, NEW e \in Enrollments,
           \/ Recover(e) \/ Retention(e)
           \/ \E r \in Reapers : ReapEnqueueBadge(r, e)
    PROVE  BadgeInv'
  <1>t. /\ badgeTask \in [Enrollments -> Task] /\ faults \in 0 .. MaxFaults
        /\ missing \in [Reapers -> SUBSET Enrollments] /\ IssuanceHolds(e)
    BY DEF BadgeInv, BadgeTypeOK, ApprovalInv, TypeInv, ProgressTypeOK
  <1>1. NoProgress /\ UNCHANGED <<badge, announced, processed, exec>>
    BY DEF Recover, Retention, ReapEnqueueBadge, badgeVars
  <1>m. /\ missing' \in [Reapers -> SUBSET Enrollments]
        /\ \A r \in Reapers : missing'[r] \subseteq missing[r]
    <2>1. CASE Recover(e) \/ Retention(e)
      BY <1>t, <2>1 DEF Recover, Retention, badgeVars
    <2>2. CASE \E r \in Reapers : ReapEnqueueBadge(r, e)
      BY <1>t, <2>2 DEF ReapEnqueueBadge
    <2> QED BY <2>1, <2>2
  <1>2. faults' \in 0 .. MaxFaults
    <2>1. faults' = faults \/ Fault("error")
      BY DEF Recover, Retention, ReapEnqueueBadge, badgeVars
    <2> QED BY <1>t, <2>1, FaultTyped
  <1>3. PICK t \in Task : /\ badgeTask' = [badgeTask EXCEPT ![e] = t]
                          /\ t # NoTask => badgeTask[e] # NoTask \/ approvedAt[e]
    <2>1. CASE Recover(e)
      <3>1. badgeTask[e] # NoTask /\ Failed(badgeTask[e]) \in Task
        BY <1>t, <2>1, FailedTyped DEF Recover, NoTask
      <3> QED BY <2>1, <3>1 DEF Recover
    <2>2. CASE Retention(e)
      BY <1>t, <2>2, RetentionTyped DEF Retention
    <2>3. CASE \E r \in Reapers : ReapEnqueueBadge(r, e)
      <3>0. approvedAt[e]
        BY <1>t, <2>3 DEF ReapEnqueueBadge, IssuanceHolds
      <3>1. CASE badgeTask' = [badgeTask EXCEPT ![e] = Enqueue(@)]
        BY <1>t, <3>0, <3>1, EnqueueTyped
      <3>2. CASE UNCHANGED badgeTask
        BY <1>t, <3>2
      <3> QED BY <2>3, <3>1, <3>2 DEF ReapEnqueueBadge
    <2> QED BY <2>1, <2>2, <2>3
  <1>4. /\ badgeTask' \in [Enrollments -> Task]
        /\ \A f \in Enrollments : badgeTask'[f] = IF f = e THEN t ELSE badgeTask[f]
    BY <1>t, <1>3
  <1>5. \A f \in Enrollments :
           badgeTask'[f] # NoTask => badgeTask[f] # NoTask \/ approvedAt[f]
    BY <1>3, <1>4
  <1> QED BY <1>1, <1>m, <1>2, <1>4, <1>5, QueueStepInv

LEMMA FaultInv ==
    ASSUME BadgeInv,
           \/ \E r \in Reapers : ReapCrash(r)
           \/ RedisLoss
           \/ \E w \in Workers : JobError(w) \/ WorkerCrash(w)
    PROVE  BadgeInv'
  <1>t. /\ badgeTask \in [Enrollments -> Task] /\ exec \in [Workers -> Exec]
        /\ announced \in [Enrollments -> Nat]
        /\ processed \in [Enrollments -> Results \cup {"no"}]
        /\ missing \in [Reapers -> SUBSET Enrollments]
        /\ faults \in 0 .. MaxFaults
    BY DEF BadgeInv, BadgeTypeOK, ApprovalInv, TypeInv, ProgressTypeOK
  <1>f. faults' \in 0 .. MaxFaults
    BY <1>t, FaultTyped DEF ReapCrash, RedisLoss, JobError, WorkerCrash
  <1>1. CASE \E r \in Reapers : ReapCrash(r)
    <2>1. /\ UNCHANGED <<progressVars, badge, announced, processed, exec>>
          /\ missing' \in [Reapers -> SUBSET Enrollments]
          /\ \A r \in Reapers : missing'[r] \subseteq missing[r]
      BY <1>t, <1>1 DEF ReapCrash
    <2>2. NoProgress /\ badgeTask' = badgeTask
      BY <2>1 DEF NoProgress, progressVars
    <2> QED BY <1>t, <1>f, <2>1, <2>2, QueueStepInv
  <1>2. CASE RedisLoss
    <2>1. /\ badgeTask' \in [Enrollments -> Task]
          /\ \A e \in Enrollments : badgeTask'[e] = NoTask
      BY <1>2, NoTaskTyped DEF RedisLoss
    <2>2. NoProgress /\ UNCHANGED <<badge, announced, processed, exec, missing>>
      BY <1>2 DEF RedisLoss
    <2> QED BY <1>t, <1>f, <2>1, <2>2, QueueStepInv
  <1>3. CASE \E w \in Workers : JobError(w) \/ WorkerCrash(w)
    <2> PICK w \in Workers : JobError(w) \/ WorkerCrash(w)
      BY <1>3
    <2>1. UNCHANGED <<progressVars, badge, announced, processed, missing>>
      BY DEF JobError, WorkerCrash
    <2>2. PICK x \in Exec : exec' = [exec EXCEPT ![w] = x] /\ x.pc # "insert"
      <3>1. CASE JobError(w)
        BY <1>t, <3>1, StepTyped DEF JobError, ExecPcs
      <3>2. CASE WorkerCrash(w)
        BY <3>2, NoExecTyped DEF WorkerCrash, NoExec
      <3> QED BY <3>1, <3>2
    <2> QED BY <1>t, <1>f, <2>1, <2>2, WorkerMoves
  <1> QED BY <1>1, <1>2, <1>3

LEMMA ReapSelectInv ==
    ASSUME BadgeInv, NEW r \in Reapers, ReapSelectMissing(r)
    PROVE  BadgeInv'
  <1>t. /\ missing \in [Reapers -> SUBSET Enrollments]
        /\ \A e \in Enrollments : IssuanceHolds(e) /\ ApprovalHolds(e)
    BY DEF BadgeInv, BadgeTypeOK, ApprovalInv
  <1>1. ApprovalInv' /\ NoProgress
    BY SameProgress DEF BadgeInv, ReapSelectMissing
  <1>2. Missing \subseteq Enrollments
    BY DEF Missing
  <1>3. /\ missing' \in [Reapers -> SUBSET Enrollments]
        /\ \A s \in Reapers : missing'[s] = IF s = r THEN Missing ELSE missing[s]
    BY <1>t, <1>2 DEF ReapSelectMissing
  <1>4. BadgeTypeOK'
    BY <1>3 DEF ReapSelectMissing, BadgeInv, BadgeTypeOK
  <1>5. ASSUME NEW e \in Enrollments PROVE IssuanceHolds(e)'
    <2>1. Alive(e)' = Alive(e) /\ Issued(e)' = Issued(e)
      BY DEF ReapSelectMissing, Alive, Issued
    <2>2. \A w \in Workers : Running(w, e, "insert")' = Running(w, e, "insert")
      BY DEF ReapSelectMissing, Running
    <2>3. e \in Missing => approvedAt[e]
      BY <1>t DEF Missing, ApprovalHolds
    <2>4. \A s \in Reapers : e \in missing'[s] => approvedAt[e]
      BY <1>t, <1>3, <2>3 DEF IssuanceHolds
    <2> QED BY <1>t, <1>1, <2>1, <2>2, <2>4 DEF IssuanceHolds, NoProgress
  <1> QED BY <1>1, <1>4, <1>5 DEF BadgeInv

(* The students' and the teacher's requests.                               *)
LEMMA RequestsInv ==
    ASSUME BadgeInv, [ProgressNext]_progressVars, UNCHANGED badgeVars
    PROVE  BadgeInv'
  <1>1. ApprovalInv' /\ EvidenceGrows
    BY NextApproval, NextGrows DEF BadgeInv, ApprovalInv, TypeInv
  <1>2. BadgeTypeOK'
    BY DEF badgeVars, BadgeInv, BadgeTypeOK
  <1>3. ASSUME NEW e \in Enrollments PROVE IssuanceHolds(e)'
    <2>1. IssuanceHolds(e) /\ (approvedAt[e] => approvedAt'[e])
      BY <1>1 DEF BadgeInv, EvidenceGrows
    <2>2. Alive(e)' = Alive(e) /\ Issued(e)' = Issued(e)
      BY DEF badgeVars, Alive, Issued
    <2>3. \A w \in Workers : Running(w, e, "insert")' = Running(w, e, "insert")
      BY DEF badgeVars, Running
    <2> QED BY <2>1, <2>2, <2>3 DEF badgeVars, IssuanceHolds
  <1> QED BY <1>1, <1>2, <1>3 DEF BadgeInv

LEMMA BadgeInvInit == Init => BadgeInv
  <1> SUFFICES ASSUME Init PROVE BadgeInv
    OBVIOUS
  <1>1. ApprovalInv
    BY ApprovalInit DEF Init
  <1>2. BadgeTypeOK
    BY NoExecTyped, BadgeAssumption
       DEF Init, BadgeInit, BadgeTypeOK, NoBadge, BadgeRow
  <1>3. ASSUME NEW e \in Enrollments PROVE IssuanceHolds(e)
    BY DEF Init, BadgeInit, IssuanceHolds, Running, Alive, Issued, NoBadge, NoExec
  <1> QED BY <1>1, <1>2, <1>3 DEF BadgeInv

LEMMA BadgeNext == ASSUME BadgeInv, [Next]_vars PROVE BadgeInv'
  <1>1. CASE ProgressNext /\ UNCHANGED badgeVars
    BY <1>1, RequestsInv
  <1>2. CASE \E w \in Workers, e \in Enrollments : StartIssue(w, e) \/ IssueStep(w, e)
    BY <1>2, StartIssueInv, JobStepInv, InsertBadgeInv, SetImageKeyInv DEF IssueStep
  <1>3. CASE \E e \in Enrollments : \/ Recover(e) \/ Retention(e)
                                    \/ \E r \in Reapers : ReapEnqueueBadge(r, e)
                                    \/ \E n \in Codes : Revoke(e, n)
    BY <1>3, QueueInv, RevokeInv
  <1>4. CASE \E r \in Reapers : ReapSelectMissing(r)
    BY <1>4, ReapSelectInv
  <1>5. CASE \/ \E r \in Reapers : ReapCrash(r)
             \/ RedisLoss
             \/ \E w \in Workers : JobError(w) \/ WorkerCrash(w)
    BY <1>5, FaultInv
  <1>6. CASE UNCHANGED vars
    BY <1>6, RequestsInv DEF vars
  <1> QED BY <1>1, <1>2, <1>3, <1>4, <1>5, <1>6 DEF Next

LEMMA BadgeInvCorrect == Spec => []BadgeInv
  <1> QED BY BadgeInvInit, BadgeNext, PTL DEF Spec

(* Every row of badges, asynq record, worker and counter keeps its type    *)
(* through jobs, retries, losses, revocations and the maintenance job.     *)
THEOREM BadgeTypeCorrect == Spec => []TypeOK
  <1>1. BadgeInv => TypeOK
    BY DEF BadgeInv, BadgeTypeOK, ApprovalInv, TypeInv, TypeOK
  <1> QED BY <1>1, BadgeInvCorrect, PTL

(* The public page vouches for at most one code of a student, and only for *)
(* somebody who earned a whole version: for any number of workers, however *)
(* jobs are redelivered, lost and published again.                         *)
THEOREM BadgesAreEarned == Spec => []BadgeIsEarned
  <1>1. BadgeInv => BadgeIsEarned
    <2> SUFFICES ASSUME BadgeInv, NEW e \in Enrollments, Issued(e) # {}
                 PROVE  /\ Cardinality(Alive(e)) <= 1
                        /\ \E v \in Versions : v <= current /\ Earned(e, v)
      BY DEF BadgeIsEarned
    <2>t. IssuanceHolds(e) /\ ApprovalHolds(e)
      BY DEF BadgeInv, ApprovalInv
    <2>1. CASE Alive(e) = {}
      BY <2>1, <2>t, FS_EmptySet DEF IssuanceHolds, ApprovalHolds
    <2>2. CASE Alive(e) # {}
      <3>1. PICK n : Alive(e) = {n}
        BY <2>2, <2>t DEF IssuanceHolds
      <3>2. Cardinality(Alive(e)) = 1
        BY <3>1, FS_Singleton
      <3> QED BY <2>t, <3>2 DEF IssuanceHolds, ApprovalHolds
    <2> QED BY <2>1, <2>2
  <1> QED BY <1>1, BadgeInvCorrect, PTL
-----------------------------------------------------------------------------
(* Messages are counted against the images that no worker is still about   *)
(* to announce.  A worker that has inserted a row is the only one at work  *)
(* on its code, and the row has an image exactly once it may announce it.  *)
HoldingPcs == {"putImage", "setKey", "announce"}
Holds(w, e, n) == exec[w].pc \in HoldingPcs /\ exec[w].of = e /\ exec[w].code = n

Settled(e) == {n \in Codes : /\ badge[e][n].image
                             /\ \A w \in Workers : Running(w, e, "announce")
                                                        => exec[w].code # n}

AnnounceHolds(e) ==
    /\ announced[e] <= Cardinality(Settled(e))
    /\ \A n \in Codes : badge[e][n].image => n \in Issued(e)
    /\ \A w \in Workers, n \in 0 .. MaxBadges : Holds(w, e, n) =>
           /\ n \in Issued(e)
           /\ badge[e][n].image = (exec[w].pc = "announce")
           /\ \A v \in Workers : Holds(v, e, n) => v = w

LEMMA SettledFinite ==
    ASSUME NEW e \in Enrollments
    PROVE  IsFiniteSet(Settled(e)) /\ Cardinality(Settled(e)) \in Nat
  <1>1. IsFiniteSet(Codes)
    BY BadgeAssumption, FS_Interval DEF Codes
  <1>2. Settled(e) \subseteq Codes
    BY DEF Settled
  <1> QED BY <1>1, <1>2, FS_Subset, FS_CardinalityType

LEMMA SettledFiniteNext ==
    ASSUME NEW e \in Enrollments
    PROVE  IsFiniteSet(Settled(e)') /\ Cardinality(Settled(e)') \in Nat
  <1>1. IsFiniteSet(Codes)
    BY BadgeAssumption, FS_Interval DEF Codes
  <1>2. Settled(e)' \subseteq Codes
    BY DEF Settled
  <1> QED BY <1>1, <1>2, FS_Subset, FS_CardinalityType

LEMMA SettledGrows ==
    ASSUME NEW e \in Enrollments, Settled(e) \subseteq Settled(e)'
    PROVE  Cardinality(Settled(e)) <= Cardinality(Settled(e)')
  BY SettledFiniteNext, FS_Subset

(* Steps that write no badge and no message, after which a worker holds    *)
(* only what it held before.                                               *)
LEMMA QuietAnnounce ==
    ASSUME BadgeTypeOK, NEW e \in Enrollments, AnnounceHolds(e),
           \A n \in Codes : /\ badge'[e][n].image = badge[e][n].image
                            /\ badge[e][n].st # "none" => badge'[e][n].st # "none",
           announced'[e] = announced[e],
           \A w \in Workers, n \in 0 .. MaxBadges :
               Holds(w, e, n)' =>
                   /\ Holds(w, e, n)
                   /\ exec'[w].pc = "announce" <=> exec[w].pc = "announce",
           BadgeTypeOK'
    PROVE  AnnounceHolds(e)'
  <1>1. Settled(e) \subseteq Settled(e)'
    BY DEF Settled, Running, Holds, HoldingPcs, BadgeTypeOK, Exec
  <1>2. /\ Cardinality(Settled(e)) <= Cardinality(Settled(e)')
        /\ Cardinality(Settled(e)) \in Nat /\ Cardinality(Settled(e)') \in Nat
    BY <1>1, SettledGrows, SettledFinite, SettledFiniteNext
  <1>3. announced'[e] <= Cardinality(Settled(e)')
    BY <1>2 DEF AnnounceHolds, BadgeTypeOK
  <1>4. \A n \in Codes : n \in Issued(e) => n \in Issued(e)'
    BY DEF Issued
  <1>5. \A n \in Codes : badge'[e][n].image => n \in Issued(e)'
    BY <1>4 DEF AnnounceHolds
  <1>6. ASSUME NEW w \in Workers, NEW n \in 0 .. MaxBadges, Holds(w, e, n)'
        PROVE  /\ n \in Issued(e)'
               /\ badge'[e][n].image = (exec'[w].pc = "announce")
               /\ \A v \in Workers : Holds(v, e, n)' => v = w
    <2>1. /\ n \in Issued(e) /\ n \in Codes
          /\ badge[e][n].image = (exec[w].pc = "announce")
          /\ \A v \in Workers : Holds(v, e, n) => v = w
          /\ exec'[w].pc = "announce" <=> exec[w].pc = "announce"
      BY <1>6 DEF AnnounceHolds, Issued
    <2> QED BY <1>4, <2>1
  <1> QED BY <1>3, <1>5, <1>6 DEF AnnounceHolds

AnnounceInv == \A e \in Enrollments : AnnounceHolds(e)

LEMMA WorkerQuiet ==
    ASSUME BadgeTypeOK, BadgeTypeOK', AnnounceInv, UNCHANGED <<badge, announced>>,
           NEW w \in Workers, NEW x \in Exec, exec' = [exec EXCEPT ![w] = x],
           x.pc \in HoldingPcs =>
               /\ exec[w].pc \in HoldingPcs /\ x.of = exec[w].of /\ x.code = exec[w].code
               /\ x.pc = "announce" <=> exec[w].pc = "announce"
    PROVE  AnnounceInv'
  <1> SUFFICES ASSUME NEW e \in Enrollments PROVE AnnounceHolds(e)'
    BY DEF AnnounceInv
  <1>1. \A v \in Workers : exec'[v] = IF v = w THEN x ELSE exec[v]
    BY DEF BadgeTypeOK
  <1>2. \A v \in Workers, n \in 0 .. MaxBadges :
           Holds(v, e, n)' =>
               /\ Holds(v, e, n)
               /\ exec'[v].pc = "announce" <=> exec[v].pc = "announce"
    BY <1>1 DEF Holds
  <1> QED BY <1>2, QuietAnnounce DEF AnnounceInv

LEMMA OthersAnnounce ==
    ASSUME BadgeTypeOK, BadgeTypeOK', AnnounceInv, UNCHANGED <<announced, exec>>,
           \A e \in Enrollments, n \in Codes :
               /\ badge'[e][n].image = badge[e][n].image
               /\ badge[e][n].st # "none" => badge'[e][n].st # "none"
    PROVE  AnnounceInv'
  <1> SUFFICES ASSUME NEW e \in Enrollments PROVE AnnounceHolds(e)'
    BY DEF AnnounceInv
  <1> QED BY QuietAnnounce DEF AnnounceInv, Holds

LEMMA JobAnnounce ==
    ASSUME BadgeTypeOK, BadgeTypeOK', AnnounceInv, NEW w \in Workers, NEW e \in Enrollments,
           \/ StartIssue(w, e) \/ Check(w, e) \/ LoadState(w, e) \/ PutImage(w, e)
           \/ MarkProcessed(w, e) \/ JobReturn(w, e) \/ JobError(w) \/ WorkerCrash(w)
    PROVE  AnnounceInv'
  <1>t. exec \in [Workers -> Exec] /\ exec[w] \in Exec
    BY DEF BadgeTypeOK
  <1>p. {"load", "ok", "insert", "setKey", "err"} \subseteq ExecPcs /\ "skipped" \in Results
    BY DEF ExecPcs, Results
  <1>1. UNCHANGED <<badge, announced>>
    BY DEF StartIssue, Check, LoadState, PutImage, MarkProcessed, JobReturn, JobError,
           WorkerCrash
  <1>2. CASE PutImage(w, e)
    <2>1. PICK x \in Exec : /\ exec' = [exec EXCEPT ![w] = x]
                            /\ x.pc = "setKey" /\ x.of = exec[w].of /\ x.code = exec[w].code
      BY <1>2, <1>t, <1>p, StepTyped DEF PutImage
    <2>2. exec[w].pc = "putImage"
      BY <1>2 DEF PutImage, Running
    <2> QED BY <1>1, <2>1, <2>2, WorkerQuiet DEF HoldingPcs
  <1>3. CASE ~PutImage(w, e)
    <2>1. PICK x \in Exec : exec' = [exec EXCEPT ![w] = x] /\ x.pc \notin HoldingPcs
      <3>1. CASE StartIssue(w, e)
        <4> DEFINE x == [NoExec EXCEPT !.pc = "check", !.of = e]
        <4>1. x \in Exec /\ x.pc \notin HoldingPcs
          BY NoExecTyped DEF Exec, ExecPcs, NoExec, HoldingPcs
        <4> QED BY <3>1, <4>1 DEF StartIssue
      <3>2. CASE Check(w, e) \/ LoadState(w, e)
        BY <3>2, <1>t, <1>p, StepTyped, FinishTyped DEF Check, LoadState, HoldingPcs
      <3>3. CASE MarkProcessed(w, e) \/ JobError(w)
        BY <3>3, <1>t, <1>p, StepTyped DEF MarkProcessed, JobError, HoldingPcs
      <3>4. CASE JobReturn(w, e) \/ WorkerCrash(w)
        BY <3>4, NoExecTyped DEF JobReturn, WorkerCrash, NoExec, HoldingPcs
      <3> QED BY <1>3, <3>1, <3>2, <3>3, <3>4
    <2> QED BY <1>1, <2>1, WorkerQuiet
  <1> QED BY <1>2, <1>3

(* A new row's code is held by nobody else, for codes that are held exist. *)
LEMMA InsertAnnounce ==
    ASSUME BadgeTypeOK, BadgeTypeOK', AnnounceInv, NEW w \in Workers, NEW e \in Enrollments,
           InsertBadge(w, e)
    PROVE  AnnounceInv'
  <1>t. /\ exec \in [Workers -> Exec] /\ exec[w] \in Exec
        /\ badge \in [Enrollments -> [Codes -> BadgeRow]]
    BY DEF BadgeTypeOK
  <1>1. CASE Alive(e) # {}
    <2>1. PICK x \in Exec : exec' = [exec EXCEPT ![w] = x] /\ x.pc = "err"
      BY <1>1, <1>t, StepTyped DEF InsertBadge, ExecPcs
    <2> QED BY <1>1, <2>1, WorkerQuiet DEF InsertBadge, HoldingPcs
  <1>2. CASE Alive(e) = {}
    <2> PICK n \in Codes \ Issued(e) :
             /\ badge' = [badge EXCEPT ![e][n].st = "alive"]
             /\ exec' = [exec EXCEPT ![w].pc = "putImage", ![w].code = n]
      BY <1>2 DEF InsertBadge
    <2>1. /\ exec'[w].pc = "putImage" /\ exec'[w].code = n /\ exec'[w].of = e
          /\ \A v \in Workers \ {w} : exec'[v] = exec[v]
          /\ exec[w].pc = "insert"
      BY <1>t DEF InsertBadge, Running, Exec
    <2>2. \A f \in Enrollments, m \in Codes :
             /\ badge'[f][m].image = badge[f][m].image
             /\ badge'[f][m].st = IF f = e /\ m = n THEN "alive" ELSE badge[f][m].st
      BY <1>t DEF BadgeRow
    <2>3. announced' = announced
      BY DEF InsertBadge
    <2>4. ASSUME NEW f \in Enrollments, f # e PROVE AnnounceHolds(f)'
      <3>1. \A v \in Workers, m \in 0 .. MaxBadges :
               Holds(v, f, m)' =>
                   /\ Holds(v, f, m)
                   /\ exec'[v].pc = "announce" <=> exec[v].pc = "announce"
        BY <2>1, <2>4 DEF Holds
      <3>2. AnnounceHolds(f)
        BY DEF AnnounceInv
      <3>3. \A m \in Codes : /\ badge'[f][m].image = badge[f][m].image
                             /\ badge[f][m].st # "none" => badge'[f][m].st # "none"
        BY <2>2, <2>4
      <3> QED BY <2>3, <3>1, <3>2, <3>3, QuietAnnounce
    <2>5. AnnounceHolds(e)'
      <3>a. AnnounceHolds(e)
        BY DEF AnnounceInv
      <3>1. Issued(e)' = Issued(e) \cup {n}
        BY <2>2 DEF Issued
      <3>2. Settled(e)' = Settled(e)
        <4>1. \A v \in Workers, m \in Codes :
                 (Running(v, e, "announce")' => exec'[v].code # m)
                     <=> (Running(v, e, "announce") => exec[v].code # m)
          BY <2>1 DEF Running
        <4>2. \A m \in Codes : badge'[e][m].image = badge[e][m].image
          BY <2>2
        <4> QED BY <4>1, <4>2 DEF Settled
      <3>3. ~badge[e][n].image
        BY <3>a DEF AnnounceHolds
      <3>4. \A v \in Workers, m \in 0 .. MaxBadges :
               Holds(v, e, m)' <=> Holds(v, e, m) \/ (v = w /\ m = n)
        BY <2>1, BadgeAssumption DEF Holds, HoldingPcs, Codes
      <3>5. \A v \in Workers : ~Holds(v, e, n)
        BY <3>a, BadgeAssumption DEF AnnounceHolds, Codes
      <3>6. \A m \in 0 .. MaxBadges : ~Holds(w, e, m)
        BY <2>1 DEF Holds, HoldingPcs
      <3>7. ASSUME NEW v \in Workers, NEW m \in 0 .. MaxBadges, Holds(v, e, m)'
            PROVE  /\ m \in Issued(e)'
                   /\ badge'[e][m].image = (exec'[v].pc = "announce")
                   /\ \A u \in Workers : Holds(u, e, m)' => u = v
        <4>1. CASE v = w
          <5>1. m = n
            BY <3>4, <3>6, <3>7, <4>1
          <5>2. \A u \in Workers : Holds(u, e, n)' => u = w
            BY <3>4, <3>5, BadgeAssumption DEF Codes
          <5>3. badge'[e][n].image = FALSE /\ (exec'[w].pc = "announce") = FALSE
            BY <1>t, <2>1, <2>2, <3>3 DEF BadgeRow
          <5> QED BY <3>1, <4>1, <5>1, <5>2, <5>3
        <4>2. CASE v # w
          <5>1. Holds(v, e, m) /\ m # n
            BY <3>4, <3>5, <3>7, <4>2
          <5>2. /\ m \in Issued(e) /\ m \in Codes
                /\ badge[e][m].image = (exec[v].pc = "announce")
                /\ \A u \in Workers : Holds(u, e, m) => u = v
            BY <3>a, <5>1 DEF AnnounceHolds, Issued
          <5> QED BY <2>1, <2>2, <3>1, <3>4, <4>2, <5>1, <5>2
        <4> QED BY <4>1, <4>2
      <3>8. \A m \in Codes : badge'[e][m].image => m \in Issued(e)'
        BY <2>2, <3>1, <3>a DEF AnnounceHolds
      <3> QED BY <2>3, <3>2, <3>7, <3>8, <3>a DEF AnnounceHolds
    <2> QED BY <2>4, <2>5 DEF AnnounceInv
  <1> QED BY <1>1, <1>2
(* The key of the image: its worker may announce it now.                   *)
LEMMA SetKeyAnnounce ==
    ASSUME BadgeTypeOK, BadgeTypeOK', AnnounceInv, NEW w \in Workers, NEW e \in Enrollments,
           SetImageKey(w, e)
    PROVE  AnnounceInv'
  <1>t. /\ exec \in [Workers -> Exec] /\ exec[w] \in Exec
        /\ badge \in [Enrollments -> [Codes -> BadgeRow]]
    BY DEF BadgeTypeOK
  <1>1. PICK x \in Exec : /\ exec' = [exec EXCEPT ![w] = x]
                          /\ x.pc = "announce" /\ x.of = exec[w].of /\ x.code = exec[w].code
    BY <1>t, StepTyped DEF SetImageKey, ExecPcs
  <1>2. exec[w].pc = "setKey" /\ exec[w].of = e /\ announced' = announced
    BY DEF SetImageKey, Running
  <1>3. PICK n \in 0 .. MaxBadges : exec[w].code = n
    BY <1>t DEF Exec
  <1>4. Holds(w, e, n)
    BY <1>2, <1>3 DEF Holds, HoldingPcs
  <1>5. AnnounceHolds(e)
    BY DEF AnnounceInv
  <1>6. /\ n \in Issued(e) /\ n \in Codes /\ badge[e][n].image = FALSE
        /\ \A v \in Workers : Holds(v, e, n) => v = w
    BY <1>2, <1>4, <1>5 DEF AnnounceHolds, Issued
  <1>7. \A f \in Enrollments, m \in Codes :
           /\ badge'[f][m].image = IF f = e /\ m = n THEN TRUE ELSE badge[f][m].image
           /\ badge'[f][m].st = badge[f][m].st
    <2>1. badge' = [badge EXCEPT ![e][n].image = TRUE]
      BY <1>3 DEF SetImageKey
    <2> DEFINE r == [badge[e][n] EXCEPT !.image = TRUE]
    <2>2. badge[e][n] \in BadgeRow
      BY <1>t, <1>6
    <2>3. r.image = TRUE /\ r.st = badge[e][n].st
      BY <2>2 DEF BadgeRow
    <2>4. badge' = [badge EXCEPT ![e][n] = r]
      BY <2>1, <2>2
    <2> HIDE DEF r
    <2>5. \A f \in Enrollments, m \in Codes :
             badge'[f][m] = IF f = e /\ m = n THEN r ELSE badge[f][m]
      BY <1>t, <1>6, <2>4
    <2> QED BY <2>3, <2>5
  <1>8. /\ exec'[w].pc = "announce" /\ exec'[w].of = e /\ exec'[w].code = n
        /\ \A v \in Workers \ {w} : exec'[v] = exec[v]
    BY <1>t, <1>1, <1>2, <1>3
  <1>9. \A v \in Workers, f \in Enrollments, m \in 0 .. MaxBadges :
           Holds(v, f, m)' <=> Holds(v, f, m)
    BY <1>2, <1>3, <1>8 DEF Holds, HoldingPcs
  <1>10. ASSUME NEW f \in Enrollments, f # e PROVE AnnounceHolds(f)'
    <2>1. \A v \in Workers, m \in 0 .. MaxBadges :
             Holds(v, f, m)' =>
                 /\ Holds(v, f, m)
                 /\ exec'[v].pc = "announce" <=> exec[v].pc = "announce"
      BY <1>8, <1>10 DEF Holds
    <2>2. AnnounceHolds(f)
      BY DEF AnnounceInv
    <2>3. \A m \in Codes : /\ badge'[f][m].image = badge[f][m].image
                           /\ badge[f][m].st # "none" => badge'[f][m].st # "none"
      BY <1>7, <1>10
    <2> QED BY <1>2, <2>1, <2>2, <2>3, QuietAnnounce
  <1>11. AnnounceHolds(e)'
    <2>1. Issued(e)' = Issued(e)
      BY <1>7 DEF Issued
    <2>2. Settled(e)' = Settled(e)
      <3>1. \A m \in Codes : m # n =>
               /\ badge'[e][m].image = badge[e][m].image
               /\ \A v \in Workers : (Running(v, e, "announce")' => exec'[v].code # m)
                                         <=> (Running(v, e, "announce") => exec[v].code # m)
        BY <1>2, <1>7, <1>8 DEF Running
      <3>2. n \notin Settled(e) /\ n \notin Settled(e)'
        BY <1>6, <1>8 DEF Settled, Running
      <3> QED BY <3>1, <3>2 DEF Settled
    <2>3. ASSUME NEW v \in Workers, NEW m \in 0 .. MaxBadges, Holds(v, e, m)'
          PROVE  /\ m \in Issued(e)
                 /\ badge'[e][m].image = (exec'[v].pc = "announce")
                 /\ \A u \in Workers : Holds(u, e, m)' => u = v
      <3>1. /\ m \in Issued(e) /\ m \in Codes
            /\ badge[e][m].image = (exec[v].pc = "announce")
            /\ \A u \in Workers : Holds(u, e, m) => u = v
        BY <1>5, <1>9, <2>3 DEF AnnounceHolds, Issued
      <3>2. CASE v = w
        <4>1. m = n
          BY <1>8, <2>3, <3>2 DEF Holds
        <4>2. badge'[e][m].image = TRUE /\ (exec'[v].pc = "announce") = TRUE
          BY <1>6, <1>7, <1>8, <3>2, <4>1
        <4> QED BY <1>9, <3>1, <4>2
      <3>3. CASE v # w
        <4>1. m # n
          BY <1>4, <1>9, <2>3, <3>1, <3>3
        <4> QED BY <1>7, <1>8, <1>9, <3>1, <3>3, <4>1
      <3> QED BY <3>2, <3>3
    <2>4. \A m \in Codes : badge'[e][m].image => m \in Issued(e)
      BY <1>5, <1>6, <1>7 DEF AnnounceHolds
    <2> QED BY <1>2, <1>5, <2>1, <2>2, <2>3, <2>4 DEF AnnounceHolds
  <1> QED BY <1>10, <1>11 DEF AnnounceInv

(* A message, or its failure, and the image is settled.                    *)
LEMMA AnnounceAnnounce ==
    ASSUME BadgeTypeOK, BadgeTypeOK', AnnounceInv, NEW w \in Workers, NEW e \in Enrollments,
           Announce(w, e)
    PROVE  AnnounceInv'
  <1>t. /\ exec \in [Workers -> Exec] /\ exec[w] \in Exec
        /\ announced \in [Enrollments -> Nat]
    BY DEF BadgeTypeOK
  <1>1. PICK x \in Exec : exec' = [exec EXCEPT ![w] = x] /\ x.pc = "mark"
    BY <1>t, FinishTyped DEF Announce, Results
  <1>2. /\ exec[w].pc = "announce" /\ exec[w].of = e /\ badge' = badge
        /\ announced' = announced \/ announced' = [announced EXCEPT ![e] = @ + 1]
    BY DEF Announce, Running
  <1>3. PICK n \in 0 .. MaxBadges : exec[w].code = n
    BY <1>t DEF Exec
  <1>4. exec'[w].pc = "mark" /\ \A v \in Workers \ {w} : exec'[v] = exec[v]
    BY <1>t, <1>1
  <1>5. \A v \in Workers, f \in Enrollments, m \in 0 .. MaxBadges :
           Holds(v, f, m)' => Holds(v, f, m) /\ v # w
    BY <1>4 DEF Holds, HoldingPcs
  <1>6. ASSUME NEW f \in Enrollments, f # e PROVE AnnounceHolds(f)'
    <2>1. \A v \in Workers, m \in 0 .. MaxBadges :
             Holds(v, f, m)' =>
                 /\ Holds(v, f, m)
                 /\ exec'[v].pc = "announce" <=> exec[v].pc = "announce"
      BY <1>4, <1>5
    <2>2. AnnounceHolds(f) /\ announced'[f] = announced[f]
      BY <1>t, <1>2, <1>6 DEF AnnounceInv
    <2> QED BY <1>2, <2>1, <2>2, QuietAnnounce
  <1>7. AnnounceHolds(e)'
    <2>0. AnnounceHolds(e)
      BY DEF AnnounceInv
    <2>1. Holds(w, e, n)
      BY <1>2, <1>3 DEF Holds, HoldingPcs
    <2>2. /\ n \in Codes /\ badge[e][n].image
          /\ \A v \in Workers : Holds(v, e, n) => v = w
      BY <1>2, <2>0, <2>1 DEF AnnounceHolds, Issued
    <2>3. n \notin Settled(e)
      BY <1>2, <1>3 DEF Settled, Running
    <2>4. Settled(e) \cup {n} \subseteq Settled(e)'
      <3>1. n \in Settled(e)'
        <4>1. \A v \in Workers : Running(v, e, "announce")' /\ exec'[v].code = n => Holds(v, e, n)'
          BY DEF Running, Holds, HoldingPcs
        <4>2. \A v \in Workers : ~Holds(v, e, n)'
          BY <1>5, <2>2
        <4> QED BY <1>2, <2>2, <4>1, <4>2 DEF Settled
      <3>2. Settled(e) \subseteq Settled(e)'
        BY <1>2, <1>4 DEF Settled, Running
      <3> QED BY <3>1, <3>2
    <2>5. Cardinality(Settled(e)) + 1 <= Cardinality(Settled(e)')
      <3>1. Cardinality(Settled(e) \cup {n}) = Cardinality(Settled(e)) + 1
        BY <2>3, SettledFinite, FS_AddElement
      <3>2. Cardinality(Settled(e) \cup {n}) <= Cardinality(Settled(e)')
        BY <2>4, SettledFiniteNext, FS_Subset
      <3> QED BY <3>1, <3>2
    <2>6. announced'[e] <= announced[e] + 1 /\ announced[e] \in Nat /\ announced'[e] \in Nat
      BY <1>t, <1>2
    <2>7. announced'[e] <= Cardinality(Settled(e)')
      <3>1. Cardinality(Settled(e)) \in Nat /\ Cardinality(Settled(e)') \in Nat
        BY SettledFinite, SettledFiniteNext
      <3> QED BY <2>0, <2>5, <2>6, <3>1 DEF AnnounceHolds
    <2>8. Issued(e)' = Issued(e)
      BY <1>2 DEF Issued
    <2>9. ASSUME NEW v \in Workers, NEW m \in 0 .. MaxBadges, Holds(v, e, m)'
          PROVE  /\ m \in Issued(e)
                 /\ badge[e][m].image = (exec'[v].pc = "announce")
                 /\ \A u \in Workers : Holds(u, e, m)' => u = v
      BY <1>4, <1>5, <2>0, <2>9 DEF AnnounceHolds
    <2> QED BY <1>2, <2>0, <2>7, <2>8, <2>9 DEF AnnounceHolds
  <1> QED BY <1>6, <1>7 DEF AnnounceInv

LEMMA AnnounceInit == Init => AnnounceInv
  <1> SUFFICES ASSUME Init, NEW e \in Enrollments PROVE AnnounceHolds(e)
    BY DEF AnnounceInv
  <1>1. Settled(e) = {} /\ announced[e] = 0
    BY DEF Init, BadgeInit, Settled, NoBadge
  <1>2. \A w \in Workers, n \in 0 .. MaxBadges : ~Holds(w, e, n)
    BY DEF Init, BadgeInit, Holds, HoldingPcs, NoExec
  <1>3. \A n \in Codes : ~badge[e][n].image
    BY DEF Init, BadgeInit, NoBadge
  <1> QED BY <1>1, <1>2, <1>3, FS_EmptySet DEF AnnounceHolds

LEMMA AnnounceNext ==
    ASSUME BadgeInv, BadgeInv', AnnounceInv, [Next]_vars
    PROVE  AnnounceInv'
  <1>t. BadgeTypeOK /\ BadgeTypeOK' /\ badge \in [Enrollments -> [Codes -> BadgeRow]]
    BY DEF BadgeInv, BadgeTypeOK
  <1>1. CASE UNCHANGED <<badge, announced, exec>>
    BY <1>1, <1>t, OthersAnnounce
  <1>2. CASE \E w \in Workers, e \in Enrollments : StartIssue(w, e) \/ IssueStep(w, e)
    BY <1>2, <1>t, JobAnnounce, InsertAnnounce, SetKeyAnnounce, AnnounceAnnounce DEF IssueStep
  <1>3. CASE \E e \in Enrollments, n \in Codes : Revoke(e, n)
    <2>1. UNCHANGED <<announced, exec>>
      BY <1>3 DEF Revoke
    <2>2. \A e \in Enrollments, n \in Codes :
             /\ badge'[e][n].image = badge[e][n].image
             /\ badge[e][n].st # "none" => badge'[e][n].st # "none"
      BY <1>3, <1>t DEF Revoke, BadgeRow
    <2> QED BY <1>t, <2>1, <2>2, OthersAnnounce
  <1>4. CASE \E w \in Workers : JobError(w) \/ WorkerCrash(w)
    <2>1. PICK w \in Workers : JobError(w) \/ WorkerCrash(w)
      BY <1>4
    <2>2. CASE Enrollments = {}
      BY <2>2 DEF AnnounceInv
    <2>3. CASE Enrollments # {}
      BY <1>t, <2>1, <2>3, JobAnnounce
    <2> QED BY <2>2, <2>3
  <1> QED BY <1>1, <1>2, <1>3, <1>4 DEF Next, Recover, Retention, ReapEnqueueBadge,
         ReapSelectMissing, ReapCrash, RedisLoss, badgeVars, vars

(* A student gets at most one message for each badge with an image, with   *)
(* any number of workers and faults, although the e-mail carries no job    *)
(* key: whoever announces a code inserted its row.                         *)
THEOREM AnnouncementsAreSingle == Spec => []AnnouncedOnce
  <1>1. BadgeInv /\ AnnounceInv => AnnouncedOnce
    <2> SUFFICES ASSUME BadgeInv, AnnounceInv, NEW e \in Enrollments
                 PROVE  announced[e] <= Cardinality({n \in Codes : badge[e][n].image})
      BY DEF AnnouncedOnce
    <2> DEFINE images == {n \in Codes : badge[e][n].image}
    <2>1. IsFiniteSet(images)
      <3>1. IsFiniteSet(Codes)
        BY BadgeAssumption, FS_Interval DEF Codes
      <3> QED BY <3>1, FS_Subset
    <2>2. Settled(e) \subseteq images
      BY DEF Settled
    <2>3. Cardinality(Settled(e)) <= Cardinality(images)
      BY <2>1, <2>2, FS_Subset
    <2>4. Cardinality(Settled(e)) \in Nat /\ Cardinality(images) \in Nat
      BY <2>1, SettledFinite, FS_CardinalityType
    <2>5. announced[e] <= Cardinality(Settled(e)) /\ announced[e] \in Nat
      BY DEF AnnounceInv, AnnounceHolds, BadgeInv, BadgeTypeOK
    <2> HIDE DEF images
    <2>6. announced[e] <= Cardinality(images)
      BY <2>3, <2>4, <2>5
    <2> QED BY <2>6 DEF images
  <1> QED BY <1>1, BadgeInvCorrect, AnnounceInit, AnnounceNext, PTL DEF Spec
-----------------------------------------------------------------------------
(* The refinement.  approved_at is never cleared, an approval is a Deserve *)
(* of the registry, a row inserted an Issue, a revocation a Revoke; all    *)
(* other steps leave what the registry sees as it is.                      *)
registryView == <<{e \in Enrollments : approvedAt[e]},
                  [e \in Enrollments |-> Issued(e)],
                  [e \in Enrollments |-> Alive(e)]>>

LEMMA RegistryInitial == Init => Registry!RegistryInit
  BY DEF Init, ProgressInit, BadgeInit, Registry!RegistryInit, Issued, Alive, NoBadge

LEMMA SameView ==
    ASSUME UNCHANGED <<approvedAt, badge>>
    PROVE  UNCHANGED registryView
  BY DEF registryView, Issued, Alive

LEMMA DeserveMaps ==
    ASSUME BadgeInv, NEW c \in Requests, NEW e \in Enrollments, RecomputeWrite(c, e),
           badge' = badge
    PROVE  Registry!Deserve(e) \/ UNCHANGED registryView
  <1>t. approvedAt \in [Enrollments -> BOOLEAN]
    BY DEF BadgeInv, ApprovalInv, TypeInv, ProgressTypeOK
  <1>1. approvedAt' = [approvedAt EXCEPT ![e] = @ \/ req[c].result = "approved"]
    BY DEF RecomputeWrite
  <1>2. UNCHANGED <<[f \in Enrollments |-> Issued(f)], [f \in Enrollments |-> Alive(f)]>>
    BY DEF Issued, Alive
  <1>3. CASE req[c].result = "approved"
    <2>1. {f \in Enrollments : approvedAt'[f]} = {f \in Enrollments : approvedAt[f]} \cup {e}
      BY <1>t, <1>1, <1>3
    <2> QED BY <1>2, <2>1 DEF Registry!Deserve
  <1>4. CASE req[c].result # "approved"
    <2>1. {f \in Enrollments : approvedAt'[f]} = {f \in Enrollments : approvedAt[f]}
      BY <1>t, <1>1, <1>4
    <2> QED BY <1>2, <2>1 DEF registryView
  <1> QED BY <1>3, <1>4

LEMMA IssueMaps ==
    ASSUME BadgeInv, NEW w \in Workers, NEW e \in Enrollments, InsertBadge(w, e)
    PROVE  (\E n \in Codes : Registry!Issue(e, n)) \/ UNCHANGED registryView
  <1>t. /\ badge \in [Enrollments -> [Codes -> BadgeRow]]
        /\ IssuanceHolds(e)
    BY DEF BadgeInv, BadgeTypeOK
  <1>p. approvedAt' = approvedAt
    BY DEF InsertBadge, progressVars
  <1>1. CASE Alive(e) # {}
    BY <1>1, <1>p, SameView DEF InsertBadge
  <1>2. CASE Alive(e) = {}
    <2>1. PICK n \in Codes \ Issued(e) : badge' = [badge EXCEPT ![e][n].st = "alive"]
      BY <1>2 DEF InsertBadge
    <2>2. \A f \in Enrollments, m \in Codes :
             badge'[f][m].st = IF f = e /\ m = n THEN "alive" ELSE badge[f][m].st
      BY <1>t, <2>1 DEF BadgeRow
    <2>3. /\ Issued(e)' = Issued(e) \cup {n}
          /\ \A f \in Enrollments : f # e => Issued(f)' = Issued(f)
      BY <2>2 DEF Issued
    <2>4. /\ Alive(e)' = {n}
          /\ \A f \in Enrollments : f # e => Alive(f)' = Alive(f)
      BY <1>2, <2>2 DEF Alive
    <2> DEFINE issued == [f \in Enrollments |-> Issued(f)]
               valid == [f \in Enrollments |-> Alive(f)]
    <2>5. issued' = [issued EXCEPT ![e] = @ \cup {n}]
      BY <2>3
    <2>6. valid' = [valid EXCEPT ![e] = {n}]
      BY <2>4
    <2>7. e \in {f \in Enrollments : approvedAt[f]}
      BY <1>t DEF InsertBadge, IssuanceHolds
    <2>8. valid[e] = {} /\ n \notin issued[e]
      BY <1>2
    <2>9. Registry!Issue(e, n)
      BY <1>p, <2>5, <2>6, <2>7, <2>8 DEF Registry!Issue
    <2> QED BY <2>9
  <1> QED BY <1>1, <1>2

LEMMA RevokeMaps ==
    ASSUME BadgeInv, NEW e \in Enrollments, NEW n \in Codes, Revoke(e, n)
    PROVE  Registry!Revoke(e, n)
  <1>t. badge \in [Enrollments -> [Codes -> BadgeRow]]
    BY DEF BadgeInv, BadgeTypeOK
  <1>p. approvedAt' = approvedAt
    BY DEF Revoke, progressVars
  <1>1. /\ badge[e][n].st = "alive"
        /\ \A f \in Enrollments, m \in Codes :
               badge'[f][m].st = IF f = e /\ m = n THEN "revoked" ELSE badge[f][m].st
    BY <1>t DEF Revoke, BadgeRow
  <1>2. \A f \in Enrollments : Issued(f)' = Issued(f)
    BY <1>1 DEF Issued
  <1>3. \A f \in Enrollments : Alive(f)' = IF f = e THEN Alive(f) \ {n} ELSE Alive(f)
    BY <1>1 DEF Alive
  <1> DEFINE issued == [f \in Enrollments |-> Issued(f)]
             valid == [f \in Enrollments |-> Alive(f)]
  <1>4. issued' = issued
    BY <1>2
  <1>5. valid' = [valid EXCEPT ![e] = @ \ {n}]
    BY <1>3
  <1>6. n \in valid[e]
    BY <1>1 DEF Alive
  <1> QED BY <1>p, <1>4, <1>5, <1>6 DEF Registry!Revoke

LEMMA KeepsView ==
    ASSUME BadgeInv, NEW w \in Workers, NEW e \in Enrollments, SetImageKey(w, e)
    PROVE  UNCHANGED registryView
  <1>1. /\ badge \in [Enrollments -> [Codes -> BadgeRow]]
        /\ badge' = [badge EXCEPT ![e][exec[w].code].image = TRUE]
        /\ approvedAt' = approvedAt
    BY DEF BadgeInv, BadgeTypeOK, SetImageKey, progressVars
  <1>2. \A f \in Enrollments, m \in Codes : badge'[f][m].st = badge[f][m].st
    BY <1>1 DEF BadgeRow
  <1> QED BY <1>1, <1>2 DEF registryView, Issued, Alive

LEMMA RegistryStep ==
    ASSUME BadgeInv, [Next]_vars
    PROVE  [Registry!RegistryNext]_registryView
  <1>1. CASE ProgressNext /\ UNCHANGED badgeVars
    <2>1. CASE \E c \in Requests, e \in Enrollments : RecomputeWrite(c, e)
      BY <1>1, <2>1, DeserveMaps DEF badgeVars, Registry!RegistryNext
    <2>2. CASE ~\E c \in Requests, e \in Enrollments : RecomputeWrite(c, e)
      <3>1. ASSUME NEW c \in Requests, NEW e \in Enrollments, RequestStep(c, e)
            PROVE  approvedAt' = approvedAt
        <4>1. ~RecomputeWrite(c, e)
          BY <2>2
        <4>2. Recompute(c, e) => approvedAt' = approvedAt
          BY <4>1 DEF Recompute, RecomputeRead, RecomputeResources, RecomputeQuizzes
        <4>3. (\E v \in Versions, q \in Quizzes : SubmitGrade(c, e, v, q))
                 => approvedAt' = approvedAt
          BY DEF SubmitGrade
        <4> QED BY <3>1, <4>2, <4>3 DEF RequestStep, EnrollCheck, EnrollUpsert, View,
            EventEnrollment, EventResource, EventRecord, EventComplete, SubmitEligible,
            SubmitCompleteQuiz, EnqueueBadge
      <3>2. approvedAt' = approvedAt
        BY <1>1, <3>1 DEF ProgressNext, Publish, Unpublish, Withdraw, StartAttempt, Drop
      <3> QED BY <1>1, <3>2, SameView DEF badgeVars
    <2> QED BY <2>1, <2>2
  <1>2. CASE \E w \in Workers, e \in Enrollments : InsertBadge(w, e)
    BY <1>2, IssueMaps DEF Registry!RegistryNext
  <1>3. CASE \E w \in Workers, e \in Enrollments : SetImageKey(w, e)
    BY <1>3, KeepsView
  <1>4. CASE \E e \in Enrollments, n \in Codes : Revoke(e, n)
    BY <1>4, RevokeMaps DEF Registry!RegistryNext
  <1>5. CASE UNCHANGED <<approvedAt, badge>>
    BY <1>5, SameView
  <1> QED BY <1>1, <1>2, <1>3, <1>4, <1>5 DEF Next, IssueStep, StartIssue, JobReturn, Check,
         LoadState, PutImage, Announce, MarkProcessed, Recover, Retention, ReapEnqueueBadge,
         ReapSelectMissing, JobError, WorkerCrash, ReapCrash, RedisLoss, NoProgress,
         progressVars, badgeVars, vars

(* The platform keeps the registry's promise: queues, workers, retries and *)
(* losses show on the public page as nothing but codes issued to those who *)
(* deserve one and have no valid one, and revoked for good.                *)
THEOREM BadgesImplementRegistry == Spec => ImplementsRegistry
  <1>1. [Registry!RegistryNext]_registryView <=> [Registry!RegistryNext]_(Registry!registryVars)
    BY DEF registryView, Registry!registryVars
  <1> QED BY <1>1, BadgeInvCorrect, RegistryInitial, RegistryStep, PTL
         DEF Spec, ImplementsRegistry, Registry!RegistrySpec
=============================================================================
