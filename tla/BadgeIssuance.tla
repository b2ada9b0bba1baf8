--------------------------- MODULE BadgeIssuance ---------------------------
(***************************************************************************)
(* The badge of an approved student: the worker's job                      *)
(* (internal/tasks/badge.go), the step of the maintenance job that asks    *)
(* for missing ones (reap.go, step 5), revocation and public verification  *)
(* (internal/api/handlers_badges.go), composed with the requests of        *)
(* CourseProgress that approve the student and publish the job.            *)
(*                                                                         *)
(* A job is a sequence of statements, one action each.  Faults come from   *)
(* the kinds in FaultKinds, at most MaxFaults of them:                     *)
(*   "crash" a worker dies in the middle of a job;                         *)
(*   "error" a statement or a storage call of a job fails;                 *)
(*   "loss"  Redis restarts and loses the queue.                           *)
(***************************************************************************)
EXTENDS CourseProgress

CONSTANTS
    Workers,      \* concurrent executions of the worker processes
    Reapers,      \* maintenance jobs in progress, one scheduler per replica
    MaxBadges,    \* bound on the badge rows of an enrolment
    FaultKinds,
    MaxFaults     \* bound on the faults of a behaviour

ASSUME BadgeAssumption ==
    /\ MaxBadges \in Nat
    /\ FaultKinds \subseteq {"crash", "error", "loss"}
    /\ MaxFaults \in Nat

VARIABLES
    badge,       \* rows of badges of each enrolment, by public_code
    announced,   \* emails published for badges of each enrolment
    processed,   \* result of "badge:<enrollment>" in processed_jobs
    exec,        \* what each worker is executing
    missing,     \* enrolments each maintenance job has selected
    faults       \* faults so far

badgeVars == <<badge, announced, processed, exec, missing, faults>>
vars == <<progressVars, badgeVars>>

Codes == 1 .. MaxBadges
BadgeRow == [st : {"none", "alive", "revoked"}, image : BOOLEAN]
NoBadge == [st |-> "none", image |-> FALSE]

Results == {"skipped", "issued"}
ExecPcs == {"idle", "check", "load", "insert", "putImage", "setKey", "announce",
            "mark", "ok", "err"}
Exec == [pc : ExecPcs, of : Enrollments \cup {Nobody}, code : 0 .. MaxBadges,
         result : Results]
NoExec == [pc |-> "idle", of |-> Nobody, code |-> 0, result |-> "skipped"]

Running(w, e, pc) == exec[w].pc = pc /\ exec[w].of = e
Step(w, pc) == exec' = [exec EXCEPT ![w].pc = pc]
Finish(w, result) == exec' = [exec EXCEPT ![w].pc = "mark", ![w].result = result]

Fault(kind) == /\ kind \in FaultKinds
               /\ faults < MaxFaults
               /\ faults' = faults + 1

(* The statements of courses, enrolments and requests.                     *)
NoProgress == UNCHANGED <<courseVars, enrolled, state, approvedAt, evidenceVars, req>>

BadgeInit ==
    /\ badge = [e \in Enrollments |-> [n \in Codes |-> NoBadge]]
    /\ announced = [e \in Enrollments |-> 0]
    /\ processed = [e \in Enrollments |-> "no"]
    /\ exec = [w \in Workers |-> NoExec]
    /\ missing = [r \in Reapers |-> {}]
    /\ faults = 0

Init == ProgressInit /\ BadgeInit

Alive(e) == {n \in Codes : badge[e][n].st = "alive"}
Issued(e) == {n \in Codes : badge[e][n].st # "none"}

-----------------------------------------------------------------------------
(* Delivery by asynq.                                                      *)

StartIssue(w, e) ==
    /\ exec[w] = NoExec
    /\ Deliverable(badgeTask[e])
    /\ badgeTask' = [badgeTask EXCEPT ![e] = Deliver(@)]
    /\ exec' = [exec EXCEPT ![w] = [NoExec EXCEPT !.pc = "check", !.of = e]]
    /\ NoProgress
    /\ UNCHANGED <<badge, announced, processed, missing, faults>>

JobReturn(w, e) ==
    /\ exec[w].of = e
    /\ exec[w].pc \in {"ok", "err"}
    /\ badgeTask' = [badgeTask EXCEPT ![e] = Report(@, exec[w].pc)]
    /\ exec' = [exec EXCEPT ![w] = NoExec]
    /\ NoProgress
    /\ UNCHANGED <<badge, announced, processed, missing, faults>>

(* A record that is active while no live worker extends its lease is       *)
(* retried.                                                                *)
Recover(e) ==
    /\ badgeTask[e].st = "active"
    /\ \A w \in Workers : exec[w].of # e
    /\ badgeTask' = [badgeTask EXCEPT ![e] = Failed(@)]
    /\ NoProgress
    /\ UNCHANGED badgeVars

Retention(e) ==
    /\ badgeTask[e].st = "completed"
    /\ badgeTask' = [badgeTask EXCEPT ![e] = RetentionOver(@)]
    /\ NoProgress
    /\ UNCHANGED badgeVars

-----------------------------------------------------------------------------
(* HandleIssueBadge.                                                       *)

(* alreadyProcessed.                                                       *)
Check(w, e) ==
    /\ Running(w, e, "check")
    /\ Step(w, IF processed[e] = "no" THEN "load" ELSE "ok")
    /\ UNCHANGED <<progressVars, badge, announced, processed, missing, faults>>

(* A student who is no longer approved is skipped, and the skip recorded   *)
(* like any other result.                                                  *)
LoadState(w, e) ==
    /\ Running(w, e, "load")
    /\ IF state[e] = "approved" THEN Step(w, "insert") ELSE Finish(w, "skipped")
    /\ UNCHANGED <<progressVars, badge, announced, processed, missing, faults>>

(* Mutated forms of InsertBadge: without the partial unique index; a       *)
(* violation of it goes on with the row that exists.                       *)
InsertBadgeTwice(w, e) ==
    /\ Running(w, e, "insert")
    /\ \E n \in Codes \ Issued(e) :
           /\ \A m \in Codes \ Issued(e) : n <= m
           /\ badge' = [badge EXCEPT ![e][n].st = "alive"]
           /\ exec' = [exec EXCEPT ![w].pc = "putImage", ![w].code = n]
    /\ UNCHANGED <<progressVars, announced, processed, missing, faults>>
InsertBadgeGoOn(w, e) ==
    /\ Running(w, e, "insert")
    /\ \E n \in Codes :
           /\ IF Alive(e) = {} THEN n \notin Issued(e) ELSE n \in Alive(e)
           /\ badge' = [badge EXCEPT ![e][n].st = "alive"]
           /\ exec' = [exec EXCEPT ![w].pc = "putImage", ![w].code = n]
    /\ UNCHANGED <<progressVars, announced, processed, missing, faults>>

(* uniq_badge_alive refuses a second live row of the same course and user; *)
(* a row with a new code is inserted otherwise.  isUniqueViolation looks   *)
(* for "23505" in the error's text, and that of the driver (lib/pq 1.10.9) *)
(* is the message without the code: the refusal is returned as an error,   *)
(* and the branch that would record "already_issued" is never taken.       *)
InsertBadge(w, e) ==
    /\ Running(w, e, "insert")
    /\ \/ /\ Alive(e) # {}
          /\ Step(w, "err")
          /\ UNCHANGED badge
       \/ /\ Alive(e) = {}
          /\ \E n \in Codes \ Issued(e) :
                 /\ \A m \in Codes \ Issued(e) : n <= m
                 /\ badge' = [badge EXCEPT ![e][n].st = "alive"]
                 /\ exec' = [exec EXCEPT ![w].pc = "putImage", ![w].code = n]
    /\ UNCHANGED <<progressVars, announced, processed, missing, faults>>

(* PutBytes: the image is in the bucket, its key not yet in the row.       *)
PutImage(w, e) ==
    /\ Running(w, e, "putImage")
    /\ Step(w, "setKey")
    /\ UNCHANGED <<progressVars, badge, announced, processed, missing, faults>>

SetImageKey(w, e) ==
    /\ Running(w, e, "setKey")
    /\ badge' = [badge EXCEPT ![e][exec[w].code].image = TRUE]
    /\ Step(w, "announce")
    /\ UNCHANGED <<progressVars, announced, processed, missing, faults>>

(* EnqueueEmail carries no job key, and its error is discarded.            *)
Announce(w, e) ==
    /\ Running(w, e, "announce")
    /\ \/ /\ announced' = [announced EXCEPT ![e] = @ + 1]
          /\ UNCHANGED faults
       \/ /\ Fault("error")
          /\ UNCHANGED announced
    /\ Finish(w, "issued")
    /\ UNCHANGED <<progressVars, badge, processed, missing>>

(* Mutated form of MarkProcessed: the type of the job for its result.      *)
MarkProcessedType(w, e) ==
    /\ Running(w, e, "mark")
    /\ processed' = [processed EXCEPT ![e] = "badge"]
    /\ Step(w, "ok")
    /\ UNCHANGED <<progressVars, badge, announced, missing, faults>>

(* markProcessed: ON CONFLICT DO NOTHING, and its error is only logged.    *)
MarkProcessed(w, e) ==
    /\ Running(w, e, "mark")
    /\ \/ /\ processed' = [processed EXCEPT
                               ![e] = IF @ = "no" THEN exec[w].result ELSE @]
          /\ UNCHANGED faults
       \/ /\ Fault("error")
          /\ UNCHANGED processed
    /\ Step(w, "ok")
    /\ UNCHANGED <<progressVars, badge, announced, missing>>

IssueStep(w, e) ==
    \/ Check(w, e) \/ LoadState(w, e) \/ InsertBadge(w, e) \/ PutImage(w, e)
    \/ SetImageKey(w, e) \/ Announce(w, e) \/ MarkProcessed(w, e) \/ JobReturn(w, e)

-----------------------------------------------------------------------------
(* Mutated form of Revoke: the row is deleted.                             *)
RevokeDelete(e, n) ==
    /\ badge[e][n].st = "alive"
    /\ badge' = [badge EXCEPT ![e][n] = NoBadge]
    /\ UNCHANGED <<progressVars, announced, processed, exec, missing, faults>>

(* handleRevokeBadge: the row stays, marked.                               *)
Revoke(e, n) ==
    /\ badge[e][n].st = "alive"
    /\ badge' = [badge EXCEPT ![e][n].st = "revoked"]
    /\ UNCHANGED <<progressVars, announced, processed, exec, missing, faults>>

(* HandleReapStale, step 5: the approved without a live badge, and the     *)
(* publication of their jobs.                                              *)
Missing == {e \in Enrollments : state[e] = "approved" /\ Alive(e) = {}}

(* Mutated form of ReapSelectMissing: step 5 finds nobody.                 *)
ReapSelectNobody(r) ==
    /\ missing[r] = {}
    /\ UNCHANGED vars

ReapSelectMissing(r) ==
    /\ missing[r] = {}
    /\ missing' = [missing EXCEPT ![r] = Missing]
    /\ UNCHANGED <<progressVars, badge, announced, processed, exec, faults>>

(* An Enqueue that fails is only logged.                                   *)
ReapEnqueueBadge(r, e) ==
    /\ e \in missing[r]
    /\ \/ /\ badgeTask' = [badgeTask EXCEPT ![e] = Enqueue(@)]
          /\ UNCHANGED faults
       \/ /\ Fault("error")
          /\ UNCHANGED badgeTask
    /\ missing' = [missing EXCEPT ![r] = @ \ {e}]
    /\ NoProgress
    /\ UNCHANGED <<badge, announced, processed, exec>>

-----------------------------------------------------------------------------
(* Faults.  A statement or a storage call that fails ends the job with its *)
(* error; Announce and MarkProcessed have their own.                       *)
JobError(w) ==
    /\ exec[w].pc \in {"check", "load", "insert", "putImage", "setKey"}
    /\ Fault("error")
    /\ Step(w, "err")
    /\ UNCHANGED <<progressVars, badge, announced, processed, missing>>

WorkerCrash(w) ==
    /\ exec[w] # NoExec
    /\ Fault("crash")
    /\ exec' = [exec EXCEPT ![w] = NoExec]
    /\ UNCHANGED <<progressVars, badge, announced, processed, missing>>

(* A maintenance job dies before it published every missing badge.         *)
ReapCrash(r) ==
    /\ missing[r] # {}
    /\ Fault("crash")
    /\ missing' = [missing EXCEPT ![r] = {}]
    /\ UNCHANGED <<progressVars, badge, announced, processed, exec>>

(* Redis loses the queue; a job being executed goes on.                    *)
RedisLoss ==
    /\ Fault("loss")
    /\ badgeTask' = [e \in Enrollments |-> NoTask]
    /\ NoProgress
    /\ UNCHANGED <<badge, announced, processed, exec, missing>>

-----------------------------------------------------------------------------
Next ==
    \/ ProgressNext /\ UNCHANGED badgeVars
    \/ \E w \in Workers, e \in Enrollments : StartIssue(w, e) \/ IssueStep(w, e)
    \/ \E e \in Enrollments : \/ Recover(e) \/ Retention(e)
                              \/ \E n \in Codes : Revoke(e, n)
    \/ \E r \in Reapers : \/ ReapSelectMissing(r) \/ ReapCrash(r)
                          \/ \E e \in Enrollments : ReapEnqueueBadge(r, e)
    \/ \E w \in Workers : JobError(w) \/ WorkerCrash(w)
    \/ RedisLoss

Spec == Init /\ [][Next]_vars

(* asynq keeps delivering, recovering and forgetting, a running job goes   *)
(* on, and the schedulers keep starting maintenance jobs.  Nothing is      *)
(* assumed of the students, the administrators or the faults.              *)
FairSpec ==
    /\ Spec
    /\ \A e \in Enrollments : /\ WF_vars(\E w \in Workers : StartIssue(w, e))
                              /\ WF_vars(Recover(e))
                              /\ WF_vars(Retention(e))
    /\ \A w \in Workers : WF_vars(\E e \in Enrollments : IssueStep(w, e))
    /\ \A r \in Reapers :
          /\ WF_vars(ReapSelectMissing(r))
          /\ \A e \in Enrollments : WF_vars(ReapEnqueueBadge(r, e))

-----------------------------------------------------------------------------
TypeOK ==
    /\ ProgressTypeOK
    /\ badge \in [Enrollments -> [Codes -> BadgeRow]]
    /\ announced \in [Enrollments -> Nat]
    /\ processed \in [Enrollments -> Results \cup {"no"}]
    /\ exec \in [Workers -> Exec]
    /\ missing \in [Reapers -> SUBSET Enrollments]
    /\ faults \in 0 .. MaxFaults

(* The public page never vouches for two codes of one student and course,  *)
(* and every code it vouches for, or did, was issued to a student who      *)
(* earned a whole version: however jobs are redelivered, lost and          *)
(* republished, or workers overlap.                                        *)
BadgeIsEarned ==
    \A e \in Enrollments : Issued(e) # {} =>
        /\ Cardinality(Alive(e)) <= 1
        /\ \E v \in Versions : v <= current /\ Earned(e, v)

(* A student gets at most one message per badge, about a badge whose image *)
(* exists, although the email's own job carries no key.                    *)
AnnouncedOnce ==
    \A e \in Enrollments : announced[e] <= Cardinality({n \in Codes : badge[e][n].image})

(* What the platform promises: this is BadgeRegistry.                      *)
Registry == INSTANCE BadgeRegistry WITH
    deserved <- {e \in Enrollments : approvedAt[e]},
    issued <- [e \in Enrollments |-> Issued(e)],
    valid <- [e \in Enrollments |-> Alive(e)]

ImplementsRegistry == Registry!RegistrySpec

(* A student who stays approved is not forgotten: in the end a badge was   *)
(* issued, or a job found the student not approved any more and closed the *)
(* matter; or the job used up its retries and stays in the archive, whose  *)
(* record keeps the TaskID, so that publishing it again does nothing       *)
(* (queue.go, Enqueue) until somebody takes it out or Redis is lost.       *)
NotForgotten ==
    \A e \in Enrollments :
        <>[](state[e] = "approved") =>
            \/ <>(Issued(e) # {} \/ processed[e] = "skipped")
            \/ <>[](badgeTask[e].st = "archived")

(* What handlers_badges.go says (reaching 'approved' creates the badge):   *)
(* a student who stays approved is awarded one.                            *)
ApprovedIsAwarded ==
    \A e \in Enrollments : <>[](state[e] = "approved") => <>(Issued(e) # {})
=============================================================================
