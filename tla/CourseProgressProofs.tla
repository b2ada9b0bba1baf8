------------------------ MODULE CourseProgressProofs ------------------------
(***************************************************************************)
(* Theorems of CourseProgress, for every number of students, requests and  *)
(* versions, and whatever each version requires.                           *)
(***************************************************************************)
EXTENDS CourseProgress, FiniteSetTheorems, TLAPS

LEMMA EnqueueTyped == ASSUME NEW t \in Task PROVE Enqueue(t) \in Task
  BY MaxRetriesAssumption DEF Enqueue, Task, TaskStates

LEMMA NoTaskTyped == NoTask \in Task
  BY MaxRetriesAssumption DEF NoTask, Task, TaskStates

LEMMA LastVersionType == LastVersion \in Nat
  BY ProgressAssumption

LEMMA NoRequestTyped == NoRequest \in Request
  BY ProgressAssumption
     DEF NoRequest, Request, RequestPcs, RecomputePcs, Handlers, LearningState

(* The ways a request's record changes keep it one, and keep the item of a *)
(* request that is past looking it up.                                     *)
ItemPcs == {"record", "complete", "eligible", "completeQuiz"}
RequestsOK ==
    /\ req \in [Requests -> Request]
    /\ \A c \in Requests : req[c].pc \in ItemPcs => req[c].item \in Resources

LEMMA UpdateTyped ==
    ASSUME RequestsOK, NEW c \in Requests, NEW r \in Request,
           req' = [req EXCEPT ![c] = r], r.pc \in ItemPcs => r.item \in Resources
    PROVE  RequestsOK'
  BY DEF RequestsOK

LEMMA AnswerTyped ==
    ASSUME RequestsOK, NEW c \in Requests, Answer(c)
    PROVE  RequestsOK'
  BY NoRequestTyped DEF Answer, RequestsOK, ItemPcs, NoRequest

LEMMA GotoTyped ==
    ASSUME RequestsOK, NEW c \in Requests, NEW pc \in RequestPcs, Goto(c, pc),
           pc \in ItemPcs => req[c].pc \in ItemPcs
    PROVE  RequestsOK'
  BY DEF Goto, Request, RequestsOK

LEMMA BeginTyped ==
    ASSUME RequestsOK, NEW c \in Requests, NEW h \in Handlers, NEW e \in Enrollments,
           NEW pc \in RequestPcs \ ItemPcs, Begin(c, h, e, pc)
    PROVE  RequestsOK'
  <1>1. [NoRequest EXCEPT !.pc = pc, !.handler = h, !.of = e] \in Request
    BY NoRequestTyped DEF Request
  <1> QED BY <1>1, NoRequestTyped DEF Begin, RequestsOK

-----------------------------------------------------------------------------
(* Students and requests exist only once a version is published, so        *)
(* current_version_id is never read before it is set.                      *)
VersionFirst ==
    /\ \A e \in Enrollments : enrolled[e] # "none" \/ attempts[e] # {} => current # 0
    /\ \A c \in Requests : req[c].pc # "idle" => current # 0

TypeInv == ProgressTypeOK /\ RequestsOK /\ VersionFirst

LEMMA TypeInit == ProgressInit => TypeInv
  <1> SUFFICES ASSUME ProgressInit PROVE TypeInv
    OBVIOUS
  <1>1. RequestsOK /\ badgeTask \in [Enrollments -> Task]
    BY NoTaskTyped, NoRequestTyped DEF ProgressInit, RequestsOK, ItemPcs, NoRequest
  <1>2. current \in 0 .. LastVersion
    BY LastVersionType DEF ProgressInit
  <1>p. published \in BOOLEAN
    BY DEF ProgressInit
  <1>3. /\ enrolled \in [Enrollments -> {"none", "active", "withdrawn"}]
        /\ state \in [Enrollments -> LearningState]
        /\ approvedAt \in [Enrollments -> BOOLEAN]
    BY DEF ProgressInit, LearningState
  <1>4. /\ dwelt \in [Enrollments -> SUBSET Resources]
        /\ completed \in [Enrollments -> SUBSET Resources]
        /\ attempts \in [Enrollments -> SUBSET (Versions \X Quizzes)]
        /\ passed \in [Enrollments -> SUBSET (Versions \X Quizzes)]
    BY DEF ProgressInit
  <1>5. VersionFirst
    BY DEF ProgressInit, VersionFirst, NoRequest
  <1> QED BY <1>1, <1>2, <1>p, <1>3, <1>4, <1>5 DEF TypeInv, RequestsOK, ProgressTypeOK

(* Most statements only change what their request remembers.               *)
LEMMA OnlyRequestType ==
    ASSUME TypeInv, current # 0, RequestsOK',
           UNCHANGED <<courseVars, enrolled, state, approvedAt, evidenceVars, badgeTask>>
    PROVE  TypeInv'
  BY DEF TypeInv, RequestsOK, ProgressTypeOK, VersionFirst, courseVars, evidenceVars

LEMMA RecomputeType ==
    ASSUME TypeInv, NEW c \in Requests, NEW e \in Enrollments, Recompute(c, e)
    PROVE  TypeInv'
  <1>t. RequestsOK /\ current \in 0 .. LastVersion
    BY DEF TypeInv, ProgressTypeOK
  <1>v. current # 0
    BY DEF Recompute, RecomputeRead, RecomputeResources, RecomputeQuizzes, RecomputeWrite,
           At, TypeInv, VersionFirst
  <1>1. CASE RecomputeRead(c, e)
    <2>1. state[e] \in LearningState
      BY DEF TypeInv, ProgressTypeOK
    <2>2. RequestsOK'
      <3> DEFINE r == [req[c] EXCEPT !.pc = "resources", !.ver = current, !.was = state[e]]
      <3>1. r \in Request /\ r.pc \notin ItemPcs
        BY <1>t, <2>1 DEF RequestsOK, ItemPcs, Request, RequestPcs, RecomputePcs
      <3>2. req' = [req EXCEPT ![c] = r]
        BY <1>1, <1>t DEF RecomputeRead, RequestsOK, Request
      <3> HIDE DEF r
      <3> QED BY <1>t, <3>1, <3>2, UpdateTyped
    <2> QED BY <1>1, <1>v, <2>2, OnlyRequestType DEF RecomputeRead
  <1>2. CASE RecomputeResources(c, e)
    <2>1. Enough(e, req[c].ver) \in BOOLEAN
      BY DEF Enough
    <2>2. RequestsOK'
      <3> DEFINE r == [req[c] EXCEPT !.pc = "quizzes", !.enough = Enough(e, req[c].ver)]
      <3>1. r \in Request /\ r.pc \notin ItemPcs
        BY <1>t, <2>1 DEF RequestsOK, ItemPcs, Request, RequestPcs, RecomputePcs
      <3>2. req' = [req EXCEPT ![c] = r]
        BY <1>2, <1>t DEF RecomputeResources, RequestsOK, Request
      <3> HIDE DEF r
      <3> QED BY <1>t, <3>1, <3>2, UpdateTyped
    <2> QED BY <1>2, <1>v, <2>2, OnlyRequestType DEF RecomputeResources
  <1>3. CASE RecomputeQuizzes(c, e)
    <2>1. Decision(req[c].enough, PassedAll(e, req[c].ver)) \in LearningState
      BY DEF Decision, LearningState
    <2>2. RequestsOK'
      <3> DEFINE r == [req[c] EXCEPT !.pc = "write",
             !.result = Decision(req[c].enough, PassedAll(e, req[c].ver))]
      <3>1. r \in Request /\ r.pc \notin ItemPcs
        BY <1>t, <2>1 DEF RequestsOK, ItemPcs, Request, RequestPcs, RecomputePcs
      <3>2. req' = [req EXCEPT ![c] = r]
        BY <1>3, <1>t DEF RecomputeQuizzes, RequestsOK, Request
      <3> HIDE DEF r
      <3> QED BY <1>t, <3>1, <3>2, UpdateTyped
    <2> QED BY <1>3, <1>v, <2>2, OnlyRequestType DEF RecomputeQuizzes
  <1>4. CASE RecomputeWrite(c, e)
    <2>1. "enqueue" \in RequestPcs \ ItemPcs
      BY DEF RequestPcs, ItemPcs
    <2>2. RequestsOK'
      BY <1>4, <1>t, <2>1, AnswerTyped, GotoTyped DEF RecomputeWrite
    <2>3. req[c].result \in LearningState
      BY <1>t DEF RequestsOK, Request
    <2>4. /\ state' \in [Enrollments -> LearningState]
          /\ approvedAt' \in [Enrollments -> BOOLEAN]
      BY <1>4, <2>3 DEF RecomputeWrite, TypeInv, ProgressTypeOK
    <2> QED BY <1>4, <1>v, <2>2, <2>4 DEF RecomputeWrite, TypeInv, RequestsOK, ProgressTypeOK,
               VersionFirst, courseVars, evidenceVars
  <1> QED BY <1>1, <1>2, <1>3, <1>4 DEF Recompute

LEMMA RequestStepType ==
    ASSUME TypeInv, NEW c \in Requests, NEW e \in Enrollments, RequestStep(c, e)
    PROVE  TypeInv'
  <1>t. RequestsOK /\ current \in 0 .. LastVersion
    BY DEF TypeInv, ProgressTypeOK
  <1>p. {"upsert", "read", "resource", "record", "complete", "completeQuiz",
         "eligible"} \subseteq RequestPcs
    BY DEF RequestPcs, RecomputePcs
  <1>i. ItemPcs = {"record", "complete", "eligible", "completeQuiz"}
    BY DEF ItemPcs
  <1>h. Handlers = {"enroll", "view", "event", "submit"}
    BY DEF Handlers
  <1>1. CASE EnrollCheck(c, e)
    <2>1. current # 0 /\ RequestsOK'
      BY <1>1, <1>t, <1>p, <1>i, <1>h, BeginTyped DEF EnrollCheck
    <2> QED BY <1>1, <2>1, OnlyRequestType DEF EnrollCheck
  <1>2. CASE EnrollUpsert(c, e)
    <2>1. current # 0
      BY <1>2 DEF EnrollUpsert, At, TypeInv, VersionFirst
    <2>2. RequestsOK'
      BY <1>2, <1>t, <1>p, <1>i, GotoTyped DEF EnrollUpsert
    <2> QED BY <1>2, <2>1, <2>2 DEF EnrollUpsert, TypeInv, RequestsOK, ProgressTypeOK, VersionFirst,
               courseVars, evidenceVars
  <1>3. CASE View(c, e)
    <2>1. current # 0 /\ RequestsOK'
      BY <1>3, <1>t, <1>p, <1>i, <1>h, BeginTyped DEF View, TypeInv, VersionFirst
    <2> QED BY <1>3, <2>1, OnlyRequestType DEF View
  <1>4. CASE EventEnrollment(c, e)
    <2>1. current # 0 /\ RequestsOK'
      BY <1>4, <1>t, <1>p, <1>i, <1>h, BeginTyped DEF EventEnrollment, TypeInv, VersionFirst
    <2> QED BY <1>4, <2>1, OnlyRequestType DEF EventEnrollment
  <1>5. CASE EventResource(c, e)
    <2>1. current # 0
      BY <1>5 DEF EventResource, At, TypeInv, VersionFirst
    <2>2. Visible[current] \subseteq Resources
      BY <1>t, <2>1, ProgressAssumption DEF Versions
    <2>3. RequestsOK'
      <3>1. CASE \E r \in Visible[current] \ Quizzes :
                    req' = [req EXCEPT ![c].pc = "record", ![c].item = r]
        <4> PICK r \in Visible[current] \ Quizzes :
                    req' = [req EXCEPT ![c].pc = "record", ![c].item = r]
          BY <3>1
        <4> DEFINE new == [req[c] EXCEPT !.pc = "record", !.item = r]
        <4>1. new \in Request /\ new.item \in Resources
          BY <1>t, <1>p, <2>2 DEF RequestsOK, Request
        <4>2. req' = [req EXCEPT ![c] = new]
          BY <1>t DEF RequestsOK, Request
        <4> HIDE DEF new
        <4> QED BY <1>t, <4>1, <4>2, UpdateTyped
      <3>2. CASE Answer(c)
        BY <3>2, <1>t, AnswerTyped
      <3> QED BY <1>5, <3>1, <3>2 DEF EventResource
    <2> QED BY <1>5, <2>1, <2>3, OnlyRequestType DEF EventResource
  <1>6. CASE EventRecord(c, e)
    <2>1. current # 0
      BY <1>6 DEF EventRecord, At, TypeInv, VersionFirst
    <2>2. PICK reached \in SUBSET {req[c].item} :
              /\ dwelt' = [dwelt EXCEPT ![e] = dwelt[e] \cup reached]
              /\ Goto(c, "read") \/ Goto(c, "complete") \/ Answer(c)
      BY <1>6 DEF EventRecord
    <2>3. RequestsOK'
      BY <1>6, <1>t, <1>p, <1>i, <2>2, GotoTyped, AnswerTyped DEF EventRecord, At
    <2>4. req[c].item \in Resources
      BY <1>6, <1>t, <1>i DEF EventRecord, At, RequestsOK
    <2>5. dwelt' \in [Enrollments -> SUBSET Resources]
      BY <2>2, <2>4 DEF TypeInv, ProgressTypeOK
    <2> QED BY <1>6, <2>1, <2>3, <2>5 DEF EventRecord, TypeInv, RequestsOK, ProgressTypeOK,
               VersionFirst, courseVars
  <1>7. CASE EventComplete(c, e)
    <2>1. current # 0 /\ req[c].item \in Resources
      BY <1>7, <1>t, <1>i DEF EventComplete, At, RequestsOK, TypeInv, VersionFirst
    <2>2. RequestsOK'
      BY <1>7, <1>t, <1>p, <1>i, GotoTyped DEF EventComplete
    <2>3. completed' \in [Enrollments -> SUBSET Resources]
      BY <1>7, <2>1 DEF EventComplete, TypeInv, ProgressTypeOK
    <2> QED BY <1>7, <2>1, <2>2, <2>3 DEF EventComplete, TypeInv, RequestsOK, ProgressTypeOK,
               VersionFirst, courseVars
  <1>8. CASE \E v \in Versions, q \in Quizzes : SubmitGrade(c, e, v, q)
    <2> PICK v \in Versions, q \in Quizzes : SubmitGrade(c, e, v, q)
      BY <1>8
    <2>1. current # 0
      BY DEF SubmitGrade, TypeInv, VersionFirst
    <2>2. q \in Resources /\ v \in 0 .. LastVersion
      BY ProgressAssumption DEF Versions
    <2>3. RequestsOK'
      <3> PICK right \in BOOLEAN :
              req' = [req EXCEPT ![c] = [NoRequest EXCEPT
                         !.pc = "eligible", !.handler = "submit", !.of = e, !.item = q,
                         !.ver = v, !.won = right]]
        BY DEF SubmitGrade
      <3> DEFINE new == [NoRequest EXCEPT
                         !.pc = "eligible", !.handler = "submit", !.of = e, !.item = q,
                         !.ver = v, !.won = right]
      <3>1. new \in Request /\ new.item \in Resources
        BY <1>p, <1>h, <2>2, NoRequestTyped DEF Request, NoRequest
      <3> HIDE DEF new
      <3> QED BY <1>t, <3>1, UpdateTyped DEF new
    <2>4. passed' \in [Enrollments -> SUBSET (Versions \X Quizzes)]
      <3>1. <<v, q>> \in Versions \X Quizzes
        OBVIOUS
      <3>2. passed \in [Enrollments -> SUBSET (Versions \X Quizzes)]
        BY DEF TypeInv, ProgressTypeOK
      <3>3. PICK right \in BOOLEAN :
                passed' = [passed EXCEPT ![e] = IF right THEN @ \cup {<<v, q>>} ELSE @]
        BY DEF SubmitGrade
      <3> QED BY <3>1, <3>2, <3>3
    <2>5. attempts' \in [Enrollments -> SUBSET (Versions \X Quizzes)]
      BY DEF SubmitGrade, TypeInv, ProgressTypeOK
    <2> QED BY <2>1, <2>3, <2>4, <2>5 DEF SubmitGrade, TypeInv, RequestsOK, ProgressTypeOK,
               VersionFirst, courseVars
  <1>9. CASE SubmitEligible(c, e)
    <2>1. current # 0
      BY <1>9 DEF SubmitEligible, At, TypeInv, VersionFirst
    <2>2. RequestsOK'
      BY <1>9, <1>t, <1>p, <1>i, AnswerTyped, GotoTyped DEF SubmitEligible, At
    <2> QED BY <1>9, <2>1, <2>2, OnlyRequestType DEF SubmitEligible
  <1>10. CASE SubmitCompleteQuiz(c, e)
    <2>1. current # 0 /\ req[c].item \in Resources
      BY <1>10, <1>t, <1>i DEF SubmitCompleteQuiz, At, RequestsOK, TypeInv, VersionFirst
    <2>2. RequestsOK'
      BY <1>10, <1>t, <1>p, <1>i, GotoTyped DEF SubmitCompleteQuiz
    <2>3. completed' \in [Enrollments -> SUBSET Resources]
      BY <1>10, <2>1 DEF SubmitCompleteQuiz, TypeInv, ProgressTypeOK
    <2> QED BY <1>10, <2>1, <2>2, <2>3 DEF SubmitCompleteQuiz, TypeInv, RequestsOK, ProgressTypeOK,
               VersionFirst, courseVars
  <1>11. CASE Recompute(c, e)
    BY <1>11, RecomputeType
  <1>12. CASE EnqueueBadge(c, e)
    <2>1. current # 0
      BY <1>12 DEF EnqueueBadge, At, TypeInv, VersionFirst
    <2>2. RequestsOK'
      BY <1>12, <1>t, AnswerTyped DEF EnqueueBadge
    <2>3. badgeTask' \in [Enrollments -> Task]
      BY <1>12, EnqueueTyped DEF EnqueueBadge, TypeInv, ProgressTypeOK
    <2> QED BY <1>12, <2>1, <2>2, <2>3 DEF EnqueueBadge, TypeInv, RequestsOK, ProgressTypeOK,
               VersionFirst, courseVars, evidenceVars
  <1> QED BY <1>1, <1>2, <1>3, <1>4, <1>5, <1>6, <1>7, <1>8, <1>9, <1>10, <1>11,
             <1>12 DEF RequestStep

LEMMA NextType == ASSUME TypeInv, [ProgressNext]_progressVars PROVE TypeInv'
  <1> USE DEF TypeInv
  <1>1. CASE Publish
    BY <1>1, ProgressAssumption DEF Publish, ProgressTypeOK, RequestsOK, VersionFirst, evidenceVars
  <1>2. CASE Unpublish
    BY <1>2 DEF Unpublish, ProgressTypeOK, RequestsOK, VersionFirst, evidenceVars
  <1>3. CASE \E e \in Enrollments : Withdraw(e)
    BY <1>3 DEF Withdraw, ProgressTypeOK, RequestsOK, VersionFirst, courseVars, evidenceVars
  <1>4. CASE \E e \in Enrollments : \E q \in Quizzes : StartAttempt(e, q)
    BY <1>4 DEF StartAttempt, ProgressTypeOK, RequestsOK, VersionFirst, courseVars, Versions
  <1>5. CASE \E c \in Requests, e \in Enrollments : RequestStep(c, e)
    BY <1>5, RequestStepType
  <1>6. CASE \E c \in Requests : Drop(c)
    <2> PICK c \in Requests : Drop(c)
      BY <1>6
    <2>1. RequestsOK'
      BY AnswerTyped DEF Drop
    <2>2. VersionFirst'
      BY DEF Drop, Answer, NoRequest, VersionFirst, RequestsOK, courseVars, evidenceVars
    <2> QED BY <2>1, <2>2 DEF Drop, ProgressTypeOK, RequestsOK, courseVars, evidenceVars
  <1>7. CASE UNCHANGED progressVars
    BY <1>7 DEF progressVars, courseVars, evidenceVars, ProgressTypeOK, RequestsOK, VersionFirst
  <1> QED BY <1>1, <1>2, <1>3, <1>4, <1>5, <1>6, <1>7 DEF ProgressNext

LEMMA TypeInvCorrect == ProgressSpec => []TypeInv
  <1> QED BY TypeInit, NextType, PTL DEF ProgressSpec

(* Every column, asynq record and request keeps its type; in particular no *)
(* request looks for material in a version that does not exist.            *)
THEOREM ProgressTypeCorrect == ProgressSpec => []ProgressTypeOK
  <1> QED BY TypeInvCorrect, PTL DEF TypeInv

-----------------------------------------------------------------------------
(* Evidence is never taken back, and versions only follow one another.     *)
EvidenceGrows ==
    /\ current <= current'
    /\ \A e \in Enrollments : /\ completed[e] \subseteq completed'[e]
                              /\ passed[e] \subseteq passed'[e]
                              /\ approvedAt[e] => approvedAt'[e]

LEMMA RequestStepGrows ==
    ASSUME ProgressTypeOK, NEW c \in Requests, NEW e \in Enrollments, RequestStep(c, e)
    PROVE  EvidenceGrows
  <1>1. current \in Int
    BY LastVersionType DEF ProgressTypeOK
  <1>2. CASE EventComplete(c, e) \/ SubmitCompleteQuiz(c, e)
    BY <1>1, <1>2 DEF EventComplete, SubmitCompleteQuiz, EvidenceGrows, ProgressTypeOK, courseVars
  <1>3. CASE \E v \in Versions, q \in Quizzes : SubmitGrade(c, e, v, q)
    BY <1>1, <1>3 DEF SubmitGrade, EvidenceGrows, ProgressTypeOK, courseVars
  <1>4. CASE RecomputeWrite(c, e)
    BY <1>1, <1>4 DEF RecomputeWrite, EvidenceGrows, ProgressTypeOK, courseVars, evidenceVars
  <1>5. CASE UNCHANGED <<current, completed, passed, approvedAt>>
    BY <1>1, <1>5 DEF EvidenceGrows
  <1> QED BY <1>2, <1>3, <1>4, <1>5 DEF RequestStep, Recompute, EnrollCheck, EnrollUpsert,
      View, EventEnrollment, EventResource, EventRecord, SubmitEligible, RecomputeRead,
      RecomputeResources, RecomputeQuizzes, EnqueueBadge, courseVars, evidenceVars

LEMMA NextGrows ==
    ASSUME ProgressTypeOK, [ProgressNext]_progressVars
    PROVE  EvidenceGrows
  <1>1. current \in Int
    BY LastVersionType DEF ProgressTypeOK
  <1>2. CASE Publish
    BY <1>1, <1>2 DEF Publish, EvidenceGrows, evidenceVars
  <1>3. CASE \E c \in Requests, e \in Enrollments : RequestStep(c, e)
    BY <1>3, RequestStepGrows
  <1>4. CASE UNCHANGED <<current, completed, passed, approvedAt>>
    BY <1>1, <1>4 DEF EvidenceGrows
  <1> QED BY <1>2, <1>3, <1>4 DEF ProgressNext, Unpublish, Withdraw, StartAttempt, Drop,
      progressVars, courseVars, evidenceVars

(* So what was enough, or earned, stays so.                                *)
LEMMA EnoughStays ==
    ASSUME ProgressTypeOK, ProgressTypeOK', EvidenceGrows,
           NEW e \in Enrollments, NEW v \in Versions, Enough(e, v)
    PROVE  Enough(e, v)'
  <1> DEFINE old == completed[e] \cap Required[v]
             new == completed'[e] \cap Required[v]
  <1>1. IsFiniteSet(Required[v])
    BY ProgressAssumption, FS_Subset
  <1>2. new \in SUBSET Required[v] /\ IsFiniteSet(new)
    BY <1>1, FS_Subset
  <1>3. old \in SUBSET new
    BY DEF EvidenceGrows
  <1>4. /\ Cardinality(old) \in Nat /\ Cardinality(new) \in Nat
        /\ Cardinality(Required[v]) \in Nat
        /\ Cardinality(old) <= Cardinality(new)
    BY <1>1, <1>2, <1>3, FS_Subset, FS_CardinalityType
  <1>5. RequiredPct[v] \in Int
    BY ProgressAssumption
  <1>6. RequiredPct[v] * Cardinality(Required[v]) \in Int
    BY <1>4, <1>5
  <1>7. /\ Required[v] # {}
        /\ 100 * Cardinality(old) >= RequiredPct[v] * Cardinality(Required[v])
    BY DEF Enough
  <1>8. 100 * Cardinality(new) >= RequiredPct[v] * Cardinality(Required[v])
    <2> DEFINE asked == RequiredPct[v] * Cardinality(Required[v])
               had == Cardinality(old)
               has == Cardinality(new)
    <2>1. had \in Nat /\ has \in Nat /\ had <= has /\ asked \in Int /\ 100 * had >= asked
      BY <1>4, <1>6, <1>7
    <2> HIDE DEF asked, had, has
    <2>2. 100 * has >= asked
      BY <2>1
    <2> QED BY <2>2 DEF asked, has
  <1> QED BY <1>7, <1>8 DEF Enough

LEMMA EarnedStays ==
    ASSUME ProgressTypeOK, ProgressTypeOK', EvidenceGrows,
           NEW e \in Enrollments, NEW v \in Versions, Earned(e, v)
    PROVE  Earned(e, v)'
  <1>1. Enough(e, v)'
    BY EnoughStays DEF Earned
  <1>2. PassedAll(e, v)'
    BY DEF Earned, PassedAll, EvidenceGrows
  <1> QED BY <1>1, <1>2 DEF Earned

-----------------------------------------------------------------------------
(* The inductive invariant.  A request that goes through Recompute holds   *)
(* what it has counted in the version it read, and what is in the rows     *)
(* follows from approved_at, which is never cleared.                       *)
DecidingPcs == {"resources", "quizzes", "write", "enqueue"}

ReadsPublished(c) ==
    req[c].pc \in {"resources", "quizzes", "write"}
        => req[c].ver \in Versions /\ req[c].ver <= current

CountsHold(c, e, v) ==
    req[c].of = e /\ req[c].ver = v =>
        /\ req[c].pc = "quizzes" /\ req[c].enough => Enough(e, v)
        /\ req[c].pc = "write" /\ req[c].result = "approved" => Earned(e, v)

ApprovalHolds(e) ==
    /\ state[e] = "approved" \/ badgeTask[e] # NoTask => approvedAt[e]
    /\ \A c \in Requests : At(c, e, "enqueue") => approvedAt[e]
    /\ approvedAt[e] => \E v \in Versions : v <= current /\ Earned(e, v)

ApprovalInv ==
    /\ TypeInv
    /\ \A c \in Requests : ReadsPublished(c)
    /\ \A c \in Requests, e \in Enrollments, v \in Versions : CountsHold(c, e, v)
    /\ \A e \in Enrollments : ApprovalHolds(e)

LEMMA ApprovalInit == ProgressInit => ApprovalInv
  <1> SUFFICES ASSUME ProgressInit PROVE ApprovalInv
    OBVIOUS
  <1>1. TypeInv
    BY TypeInit
  <1>2. \A c \in Requests : req[c].pc = "idle"
    BY DEF ProgressInit, NoRequest
  <1>3. \A e \in Enrollments : ApprovalHolds(e)
    BY <1>2 DEF ProgressInit, ApprovalHolds, At
  <1> QED BY <1>1, <1>2, <1>3 DEF ApprovalInv, ReadsPublished, CountsHold

(* Statements that neither decide nor write a state keep the invariant,    *)
(* whatever evidence or version they add.                                  *)
LEMMA ApprovedStays ==
    ASSUME ProgressTypeOK, ProgressTypeOK', EvidenceGrows, NEW e \in Enrollments,
           \E v \in Versions : v <= current /\ Earned(e, v)
    PROVE  (\E v \in Versions : v <= current /\ Earned(e, v))'
  <1> PICK v \in Versions : v <= current /\ Earned(e, v)
    OBVIOUS
  <1>1. Earned(e, v)'
    BY EarnedStays
  <1>2. v <= current'
    BY LastVersionType DEF EvidenceGrows, ProgressTypeOK, Versions
  <1> QED BY <1>1, <1>2

LEMMA CountsStay ==
    ASSUME ProgressTypeOK, ProgressTypeOK', EvidenceGrows,
           NEW c \in Requests, ReadsPublished(c),
           \A e \in Enrollments, v \in Versions : CountsHold(c, e, v),
           req'[c] = req[c] \/ req'[c].pc \notin DecidingPcs
    PROVE  /\ ReadsPublished(c)'
           /\ \A e \in Enrollments, v \in Versions : CountsHold(c, e, v)'
  <1>1. ReadsPublished(c)'
    BY LastVersionType
       DEF ReadsPublished, DecidingPcs, EvidenceGrows, ProgressTypeOK, Versions
  <1>2. ASSUME NEW e \in Enrollments, NEW v \in Versions PROVE CountsHold(c, e, v)'
    <2>1. Enough(e, v) => Enough(e, v)'
      BY EnoughStays
    <2>2. Earned(e, v) => Earned(e, v)'
      BY EarnedStays
    <2> QED BY <2>1, <2>2 DEF CountsHold, DecidingPcs
  <1> QED BY <1>1, <1>2

LEMMA QuietStep ==
    ASSUME ApprovalInv, TypeInv', EvidenceGrows, UNCHANGED <<state, approvedAt, badgeTask>>,
           \A c \in Requests : req'[c] = req[c] \/ req'[c].pc \notin DecidingPcs
    PROVE  ApprovalInv'
  <1>1. ProgressTypeOK /\ ProgressTypeOK'
    BY DEF ApprovalInv, TypeInv
  <1>2. ASSUME NEW c \in Requests
        PROVE  /\ ReadsPublished(c)'
               /\ \A e \in Enrollments, v \in Versions : CountsHold(c, e, v)'
    BY <1>1, CountsStay DEF ApprovalInv
  <1>3. ASSUME NEW e \in Enrollments PROVE ApprovalHolds(e)'
    <2>1. ApprovalHolds(e)
      BY DEF ApprovalInv
    <2>2. \A c \in Requests : At(c, e, "enqueue")' => At(c, e, "enqueue")
      BY DEF At, DecidingPcs
    <2> QED BY <1>1, <2>1, <2>2, ApprovedStays DEF ApprovalHolds
  <1> QED BY <1>2, <1>3 DEF ApprovalInv

(* The four statements of Recompute, and the publication that follows.     *)
LEMMA RecomputeApproval ==
    ASSUME ApprovalInv, TypeInv', EvidenceGrows, NEW c \in Requests, NEW e \in Enrollments,
           Recompute(c, e) \/ EnqueueBadge(c, e)
    PROVE  ApprovalInv'
  <1>t. ProgressTypeOK /\ ProgressTypeOK'
    BY DEF ApprovalInv, TypeInv
  <1>r. req \in [Requests -> Request]
    BY <1>t DEF ProgressTypeOK
  <1>f. DOMAIN req[c] = {"pc", "handler", "of", "item", "ver", "won", "was", "enough", "result"}
    BY <1>r DEF Request
  <1>c. current # 0 => current \in Versions
    BY <1>t, LastVersionType DEF ProgressTypeOK, Versions
  <1>o. ASSUME \A d \in Requests \ {c} : req'[d] = req[d]
        PROVE  \A d \in Requests \ {c} :
                  /\ ReadsPublished(d)'
                  /\ \A f \in Enrollments, v \in Versions : CountsHold(d, f, v)'
    BY <1>o, <1>t, CountsStay DEF ApprovalInv
  <1>1. CASE RecomputeRead(c, e)
    <2>1. /\ req'[c].pc = "resources" /\ req'[c].ver = current /\ req'[c].of = e
          /\ \A d \in Requests \ {c} : req'[d] = req[d]
      BY <1>1, <1>r DEF RecomputeRead, At, Request
    <2>2. current # 0
      BY <1>1 DEF RecomputeRead, At, ApprovalInv, TypeInv, VersionFirst
    <2>3. ReadsPublished(c)' /\ \A f \in Enrollments, v \in Versions : CountsHold(c, f, v)'
      BY <1>1, <1>c, <1>t, <2>1, <2>2 DEF RecomputeRead, ReadsPublished, CountsHold,
         courseVars, ProgressTypeOK
    <2>4. UNCHANGED <<state, approvedAt, badgeTask>>
      BY <1>1 DEF RecomputeRead
    <2>5. ASSUME NEW f \in Enrollments PROVE ApprovalHolds(f)'
      <3>1. ApprovalHolds(f)
        BY DEF ApprovalInv
      <3> QED BY <1>t, <2>1, <2>4, <3>1, ApprovedStays DEF ApprovalHolds, At
    <2> QED BY <1>o, <2>1, <2>3, <2>5 DEF ApprovalInv
  <1>2. CASE RecomputeResources(c, e)
    <2>1. /\ req'[c].pc = "quizzes" /\ req'[c].ver = req[c].ver /\ req'[c].of = e
          /\ req'[c].enough = Enough(e, req[c].ver)
          /\ \A d \in Requests \ {c} : req'[d] = req[d]
      BY <1>2, <1>r DEF RecomputeResources, At, Request
    <2>2. ReadsPublished(c) /\ req[c].pc = "resources"
      BY <1>2 DEF RecomputeResources, At, ApprovalInv
    <2>3. ReadsPublished(c)'
      BY <1>2, <2>1, <2>2 DEF RecomputeResources, ReadsPublished, courseVars
    <2>4. ASSUME NEW f \in Enrollments, NEW v \in Versions PROVE CountsHold(c, f, v)'
      <3>1. Enough(f, v) => Enough(f, v)'
        BY <1>t, EnoughStays
      <3> QED BY <2>1, <3>1 DEF CountsHold
    <2>5. UNCHANGED <<state, approvedAt, badgeTask>>
      BY <1>2 DEF RecomputeResources
    <2>6. ASSUME NEW f \in Enrollments PROVE ApprovalHolds(f)'
      <3>1. ApprovalHolds(f)
        BY DEF ApprovalInv
      <3> QED BY <1>t, <2>1, <2>5, <3>1, ApprovedStays DEF ApprovalHolds, At
    <2> QED BY <1>o, <2>1, <2>3, <2>4, <2>6 DEF ApprovalInv
  <1>3. CASE RecomputeQuizzes(c, e)
    <2>1. /\ req'[c].pc = "write" /\ req'[c].ver = req[c].ver /\ req'[c].of = e
          /\ req'[c].result = Decision(req[c].enough, PassedAll(e, req[c].ver))
          /\ \A d \in Requests \ {c} : req'[d] = req[d]
      BY <1>3, <1>r DEF RecomputeQuizzes, At, Request
    <2>2. ReadsPublished(c) /\ req[c].pc = "quizzes" /\ req[c].of = e
      BY <1>3 DEF RecomputeQuizzes, At, ApprovalInv
    <2>3. ReadsPublished(c)'
      BY <1>3, <2>1, <2>2 DEF RecomputeQuizzes, ReadsPublished, courseVars
    <2>4. ASSUME NEW f \in Enrollments, NEW v \in Versions PROVE CountsHold(c, f, v)'
      <3>1. CountsHold(c, f, v)
        BY DEF ApprovalInv
      <3>2. Earned(f, v) => Earned(f, v)'
        BY <1>t, EarnedStays
      <3>3. ASSUME f = e, req[c].ver = v, req'[c].result = "approved" PROVE Earned(f, v)
        <4>1. req[c].enough /\ PassedAll(e, v)
          BY <2>1, <3>3 DEF Decision
        <4>2. Enough(e, v)
          BY <2>2, <3>1, <3>3, <4>1 DEF CountsHold
        <4> QED BY <3>3, <4>1, <4>2 DEF Earned
      <3> QED BY <2>1, <3>2, <3>3 DEF CountsHold
    <2>5. UNCHANGED <<state, approvedAt, badgeTask>>
      BY <1>3 DEF RecomputeQuizzes
    <2>6. ASSUME NEW f \in Enrollments PROVE ApprovalHolds(f)'
      <3>1. ApprovalHolds(f)
        BY DEF ApprovalInv
      <3> QED BY <1>t, <2>1, <2>5, <3>1, ApprovedStays DEF ApprovalHolds, At
    <2> QED BY <1>o, <2>1, <2>3, <2>4, <2>6 DEF ApprovalInv
  <1>4. CASE RecomputeWrite(c, e)
    <2>1. /\ req'[c].pc \in {"enqueue", "idle"}
          /\ req'[c].pc = "enqueue" => req[c].result = "approved" /\ req'[c].of = e
          /\ \A d \in Requests \ {c} : req'[d] = req[d]
      BY <1>4, <1>r DEF RecomputeWrite, At, Goto, Answer, NoRequest, NewlyApproved, Request
    <2>2. ReadsPublished(c)' /\ \A f \in Enrollments, v \in Versions : CountsHold(c, f, v)'
      BY <2>1 DEF ReadsPublished, CountsHold
    <2>3. /\ state' = [state EXCEPT ![e] = req[c].result]
          /\ approvedAt' = [approvedAt EXCEPT ![e] = @ \/ req[c].result = "approved"]
          /\ badgeTask' = badgeTask
      BY <1>4 DEF RecomputeWrite
    <2>4. req[c].result = "approved" => \E v \in Versions : v <= current /\ Earned(e, v)
      <3>1. /\ req[c].pc = "write" /\ req[c].of = e
            /\ ReadsPublished(c)
            /\ \A v \in Versions : CountsHold(c, e, v)
        BY <1>4 DEF RecomputeWrite, At, ApprovalInv
      <3> QED BY <3>1 DEF ReadsPublished, CountsHold
    <2>5. ASSUME NEW f \in Enrollments PROVE ApprovalHolds(f)'
      <3>1. ApprovalHolds(f)
        BY DEF ApprovalInv
      <3>2. approvedAt'[f] = (approvedAt[f] \/ (f = e /\ req[c].result = "approved"))
        BY <1>t, <2>3 DEF ProgressTypeOK
      <3>3. state'[f] = IF f = e THEN req[c].result ELSE state[f]
        BY <1>t, <2>3 DEF ProgressTypeOK
      <3>4. approvedAt'[f] => \E v \in Versions : v <= current /\ Earned(f, v)
        BY <2>4, <3>1, <3>2 DEF ApprovalHolds
      <3>5. approvedAt'[f] => (\E v \in Versions : v <= current /\ Earned(f, v))'
        BY <1>t, <3>4, ApprovedStays
      <3>6. state'[f] = "approved" \/ badgeTask'[f] # NoTask => approvedAt'[f]
        BY <2>3, <3>1, <3>2, <3>3 DEF ApprovalHolds
      <3>7. \A d \in Requests : At(d, f, "enqueue")' => approvedAt'[f]
        BY <2>1, <3>1, <3>2 DEF ApprovalHolds, At
      <3> QED BY <3>5, <3>6, <3>7 DEF ApprovalHolds
    <2> QED BY <1>o, <2>1, <2>2, <2>5 DEF ApprovalInv
  <1>5. CASE EnqueueBadge(c, e)
    <2>1. req'[c].pc = "idle" /\ \A d \in Requests \ {c} : req'[d] = req[d]
      BY <1>5, <1>r DEF EnqueueBadge, Answer, NoRequest
    <2>2. ReadsPublished(c)' /\ \A f \in Enrollments, v \in Versions : CountsHold(c, f, v)'
      BY <2>1 DEF ReadsPublished, CountsHold
    <2>3. UNCHANGED <<state, approvedAt>> /\ badgeTask' = [badgeTask EXCEPT ![e] = Enqueue(@)]
      BY <1>5 DEF EnqueueBadge
    <2>4. ASSUME NEW f \in Enrollments PROVE ApprovalHolds(f)'
      <3>1. ApprovalHolds(f)
        BY DEF ApprovalInv
      <3>2. f = e => approvedAt[f]
        BY <1>5, <3>1 DEF EnqueueBadge, ApprovalHolds
      <3>3. f # e => badgeTask'[f] = badgeTask[f]
        BY <1>t, <2>3 DEF ProgressTypeOK
      <3> QED BY <1>t, <2>1, <2>3, <3>1, <3>2, <3>3, ApprovedStays DEF ApprovalHolds, At
    <2> QED BY <1>o, <2>1, <2>2, <2>4 DEF ApprovalInv
  <1> QED BY <1>1, <1>2, <1>3, <1>4, <1>5 DEF Recompute

LEMMA RequestStepApproval ==
    ASSUME ApprovalInv, NEW c \in Requests, NEW e \in Enrollments, RequestStep(c, e)
    PROVE  ApprovalInv'
  <1>1. TypeInv' /\ EvidenceGrows
    BY RequestStepType, RequestStepGrows DEF ApprovalInv, TypeInv
  <1>2. req \in [Requests -> Request]
    BY DEF ApprovalInv, TypeInv, RequestsOK
  <1>3. CASE Recompute(c, e) \/ EnqueueBadge(c, e)
    BY <1>1, <1>3, RecomputeApproval
  <1>4. CASE ~(Recompute(c, e) \/ EnqueueBadge(c, e))
    <2>1. UNCHANGED <<state, approvedAt, badgeTask>>
      BY <1>4 DEF RequestStep, EnrollCheck, EnrollUpsert, View, EventEnrollment, EventResource,
         EventRecord, EventComplete, SubmitGrade, SubmitEligible, SubmitCompleteQuiz
    <2>2. \A d \in Requests \ {c} : req'[d] = req[d]
      BY <1>2, <1>4 DEF RequestStep, EnrollCheck, EnrollUpsert, View, EventEnrollment,
         EventResource, EventRecord, EventComplete, SubmitGrade, SubmitEligible,
         SubmitCompleteQuiz, Begin, Goto, Answer
    <2>3. req'[c].pc \notin DecidingPcs
      <3>1. \A pc : Goto(c, pc) => req'[c].pc = pc
        BY <1>2 DEF Goto, Request
      <3>2. Answer(c) => req'[c].pc = "idle"
        BY <1>2 DEF Answer, NoRequest
      <3>3. \A h, f, pc : Begin(c, h, f, pc) => req'[c].pc = pc
        BY <1>2 DEF Begin, NoRequest
      <3>4. CASE EventResource(c, e)
        BY <1>2, <3>2, <3>4 DEF EventResource, DecidingPcs, Request
      <3>5. CASE \E v \in Versions, q \in Quizzes : SubmitGrade(c, e, v, q)
        BY <1>2, <3>5 DEF SubmitGrade, NoRequest, DecidingPcs
      <3>6. CASE EventRecord(c, e)
        BY <3>1, <3>2, <3>6 DEF EventRecord, DecidingPcs
      <3> QED BY <1>4, <3>1, <3>2, <3>3, <3>4, <3>5, <3>6 DEF RequestStep, EnrollCheck,
          EnrollUpsert, View, EventEnrollment, EventComplete, SubmitEligible,
          SubmitCompleteQuiz, DecidingPcs
    <2> QED BY <1>1, <2>1, <2>2, <2>3, QuietStep
  <1> QED BY <1>3, <1>4

LEMMA NextApproval ==
    ASSUME ApprovalInv, [ProgressNext]_progressVars
    PROVE  ApprovalInv'
  <1>1. TypeInv' /\ EvidenceGrows
    BY NextType, NextGrows DEF ApprovalInv, TypeInv
  <1>2. CASE \E c \in Requests, e \in Enrollments : RequestStep(c, e)
    BY <1>2, RequestStepApproval
  <1>3. CASE \E c \in Requests : Drop(c)
    <2>1. /\ UNCHANGED <<state, approvedAt, badgeTask>>
          /\ \A c \in Requests : req'[c] = req[c] \/ req'[c].pc \notin DecidingPcs
      BY <1>3 DEF Drop, Answer, NoRequest, DecidingPcs, ApprovalInv, TypeInv, RequestsOK
    <2> QED BY <1>1, <2>1, QuietStep
  <1>4. CASE UNCHANGED <<state, approvedAt, badgeTask, req>>
    BY <1>1, <1>4, QuietStep
  <1> QED BY <1>2, <1>3, <1>4 DEF ProgressNext, Publish, Unpublish, Withdraw, StartAttempt,
      progressVars

(* However the statements of any number of requests interleave with one    *)
(* another and with publications, whoever is approved, or has a badge      *)
(* asked for, has met everything one published version requires.           *)
THEOREM ApprovalsAreEarned == ProgressSpec => []ApprovalIsEarned
  <1>1. ApprovalInv => ApprovalIsEarned
    BY DEF ApprovalInv, ApprovalHolds, ApprovalIsEarned
  <1> QED BY <1>1, ApprovalInit, NextApproval, PTL DEF ProgressSpec

-----------------------------------------------------------------------------
(* What a request that is about to complete a resource knows of it.        *)
PassedSome(e, q) == \E v \in Versions : <<v, q>> \in passed[e]

ItemBacked(c, e) ==
    req[c].of = e =>
        /\ req[c].pc \in {"record", "complete"} => req[c].item \notin Quizzes
        /\ req[c].pc = "complete" => req[c].item \in dwelt[e]
        /\ req[c].pc \in {"eligible", "completeQuiz"} => req[c].item \in Quizzes
        /\ req[c].pc = "completeQuiz" \/ (req[c].pc = "eligible" /\ req[c].won)
              => PassedSome(e, req[c].item)

ConsumedInv ==
    /\ TypeInv
    /\ ConsumedIsBacked
    /\ \A c \in Requests, e \in Enrollments : ItemBacked(c, e)

BackingGrows ==
    \A e \in Enrollments : dwelt[e] \subseteq dwelt'[e] /\ passed[e] \subseteq passed'[e]

LEMMA ItemStays ==
    ASSUME BackingGrows, NEW c \in Requests,
           \A e \in Enrollments : ItemBacked(c, e),
           req'[c] = req[c] \/ req'[c].pc \notin ItemPcs
    PROVE  \A e \in Enrollments : ItemBacked(c, e)'
  BY DEF BackingGrows, ItemBacked, PassedSome, ItemPcs

LEMMA ConsumedStays ==
    ASSUME BackingGrows, ConsumedIsBacked, UNCHANGED completed
    PROVE  ConsumedIsBacked'
  BY DEF BackingGrows, ConsumedIsBacked

LEMMA CompleteOne ==
    ASSUME BackingGrows, ConsumedIsBacked, NEW e \in Enrollments, NEW r \in Resources,
           completed \in [Enrollments -> SUBSET Resources],
           completed' = [completed EXCEPT ![e] = @ \cup {r}],
           IF r \in Quizzes THEN PassedSome(e, r) ELSE r \in dwelt[e]
    PROVE  ConsumedIsBacked'
  BY DEF BackingGrows, ConsumedIsBacked, PassedSome

LEMMA QuietConsumption ==
    ASSUME ConsumedInv, TypeInv', BackingGrows, UNCHANGED completed,
           \A c \in Requests : req'[c] = req[c] \/ req'[c].pc \notin ItemPcs
    PROVE  ConsumedInv'
  BY ItemStays, ConsumedStays DEF ConsumedInv

LEMMA RequestStepConsumed ==
    ASSUME ConsumedInv, NEW c \in Requests, NEW e \in Enrollments, RequestStep(c, e)
    PROVE  ConsumedInv'
  <1>t. TypeInv /\ TypeInv'
    BY RequestStepType DEF ConsumedInv
  <1>r. req \in [Requests -> Request]
    BY <1>t DEF TypeInv, RequestsOK
  <1>d. /\ dwelt \in [Enrollments -> SUBSET Resources]
        /\ completed \in [Enrollments -> SUBSET Resources]
        /\ passed \in [Enrollments -> SUBSET (Versions \X Quizzes)]
    BY <1>t DEF TypeInv, ProgressTypeOK
  <1>b. ItemBacked(c, e)
    BY DEF ConsumedInv
  <1>o. ASSUME BackingGrows, \A d \in Requests \ {c} : req'[d] = req[d],
               \A f \in Enrollments : ItemBacked(c, f)', ConsumedIsBacked'
        PROVE  ConsumedInv'
    BY <1>t, <1>o, ItemStays DEF ConsumedInv
  <1>g. ASSUME NEW pc, Goto(c, pc)
        PROVE  /\ req'[c].pc = pc /\ req'[c].of = req[c].of
               /\ req'[c].item = req[c].item /\ req'[c].won = req[c].won
               /\ \A d \in Requests \ {c} : req'[d] = req[d]
    <2>1. req' = [req EXCEPT ![c].pc = pc] /\ req[c] \in Request
      BY <1>g, <1>r DEF Goto
    <2> QED BY <1>r, <2>1 DEF Request
  <1>a. Answer(c) => /\ req'[c].pc = "idle"
                     /\ \A d \in Requests \ {c} : req'[d] = req[d]
    BY <1>r DEF Answer, NoRequest
  <1>q. ASSUME BackingGrows, ConsumedIsBacked', Goto(c, "read") \/ Answer(c)
        PROVE  ConsumedInv'
    <2>1. req'[c].pc \notin ItemPcs /\ \A d \in Requests \ {c} : req'[d] = req[d]
      BY <1>a, <1>g, <1>q DEF ItemPcs
    <2>2. \A f \in Enrollments : ItemBacked(c, f)'
      BY <1>q, <2>1, ItemStays DEF ConsumedInv
    <2> QED BY <1>o, <1>q, <2>1, <2>2
  <1>1. CASE EventResource(c, e)
    <2>1. BackingGrows /\ ConsumedIsBacked'
      BY <1>1, ConsumedStays DEF EventResource, BackingGrows, ConsumedInv, evidenceVars
    <2>2. CASE Answer(c)
      BY <1>q, <2>1, <2>2
    <2>3. CASE \E r \in Visible[current] \ Quizzes :
                  req' = [req EXCEPT ![c].pc = "record", ![c].item = r]
      <3> PICK r \in Visible[current] \ Quizzes :
                  req' = [req EXCEPT ![c].pc = "record", ![c].item = r]
        BY <2>3
      <3>1. /\ req'[c].pc = "record" /\ req'[c].item = r
            /\ \A d \in Requests \ {c} : req'[d] = req[d]
        BY <1>r DEF Request
      <3> QED BY <1>o, <2>1, <3>1 DEF ItemBacked
    <2> QED BY <1>1, <2>2, <2>3 DEF EventResource
  <1>2. CASE EventRecord(c, e)
    <2>1. PICK reached \in SUBSET {req[c].item} :
              /\ dwelt' = [dwelt EXCEPT ![e] = dwelt[e] \cup reached]
              /\ \/ Goto(c, "read")
                 \/ Goto(c, "complete") /\ req[c].item \in dwelt[e] \cup reached
                 \/ Answer(c)
      BY <1>2 DEF EventRecord
    <2>2. BackingGrows /\ ConsumedIsBacked'
      BY <1>2, <1>d, <2>1, ConsumedStays DEF EventRecord, BackingGrows, ConsumedInv
    <2>3. CASE Goto(c, "read") \/ Answer(c)
      BY <1>q, <2>2, <2>3
    <2>4. CASE Goto(c, "complete") /\ req[c].item \in dwelt[e] \cup reached
      <3>1. /\ req'[c].pc = "complete" /\ req'[c].item = req[c].item /\ req'[c].of = e
            /\ req[c].pc = "record" /\ req[c].of = e
            /\ \A d \in Requests \ {c} : req'[d] = req[d]
        BY <1>2, <1>g, <2>4 DEF EventRecord, At
      <3>2. req[c].item \in dwelt'[e]
        BY <1>d, <2>1, <2>4
      <3> QED BY <1>b, <1>o, <2>2, <3>1, <3>2 DEF ItemBacked
    <2> QED BY <2>1, <2>3, <2>4
  <1>3. CASE EventComplete(c, e)
    <2>1. /\ req[c].item \in Resources \ Quizzes /\ req[c].item \in dwelt[e]
          /\ BackingGrows
      BY <1>3, <1>b, <1>t DEF EventComplete, At, ItemBacked, TypeInv, RequestsOK, ItemPcs,
         BackingGrows
    <2>2. ConsumedIsBacked'
      BY <1>3, <1>d, <2>1, CompleteOne DEF EventComplete, ConsumedInv
    <2>3. Goto(c, "read")
      BY <1>3 DEF EventComplete
    <2> QED BY <1>q, <2>1, <2>2, <2>3
  <1>4. CASE \E v \in Versions, q \in Quizzes : SubmitGrade(c, e, v, q)
    <2> PICK v \in Versions, q \in Quizzes : SubmitGrade(c, e, v, q)
      BY <1>4
    <2>1. PICK right \in BOOLEAN :
              /\ passed' = [passed EXCEPT ![e] = IF right THEN @ \cup {<<v, q>>} ELSE @]
              /\ req' = [req EXCEPT ![c] = [NoRequest EXCEPT
                            !.pc = "eligible", !.handler = "submit", !.of = e, !.item = q,
                            !.ver = v, !.won = right]]
      BY DEF SubmitGrade
    <2>2. BackingGrows /\ ConsumedIsBacked'
      BY <1>d, <2>1, ConsumedStays DEF SubmitGrade, BackingGrows, ConsumedInv
    <2>3. /\ req'[c].pc = "eligible" /\ req'[c].item = q /\ req'[c].of = e
          /\ req'[c].won = right /\ \A d \in Requests \ {c} : req'[d] = req[d]
      BY <1>r, <2>1 DEF NoRequest
    <2>4. right => PassedSome(e, q)'
      BY <1>d, <2>1 DEF PassedSome
    <2>5. ASSUME NEW f \in Enrollments PROVE ItemBacked(c, f)'
      BY <2>3, <2>4 DEF ItemBacked, PassedSome
    <2> QED BY <1>o, <2>2, <2>3, <2>5
  <1>5. CASE SubmitEligible(c, e)
    <2>1. BackingGrows /\ ConsumedIsBacked'
      BY <1>5, ConsumedStays DEF SubmitEligible, BackingGrows, ConsumedInv, evidenceVars
    <2>2. CASE Answer(c) \/ Goto(c, "read")
      BY <1>q, <2>1, <2>2
    <2>3. CASE Goto(c, "completeQuiz") /\ req[c].won
      <3>1. /\ req'[c].pc = "completeQuiz" /\ req'[c].item = req[c].item /\ req'[c].of = e
            /\ req[c].pc = "eligible" /\ req[c].of = e
            /\ \A d \in Requests \ {c} : req'[d] = req[d]
        BY <1>5, <1>g, <2>3 DEF SubmitEligible, At
      <3>2. req[c].item \in Quizzes /\ PassedSome(e, req[c].item)
        BY <1>b, <2>3, <3>1 DEF ItemBacked
      <3>3. ASSUME NEW f \in Enrollments PROVE ItemBacked(c, f)'
        BY <2>1, <3>1, <3>2 DEF ItemBacked, PassedSome, BackingGrows
      <3> QED BY <1>o, <2>1, <3>1, <3>3
    <2> QED BY <1>5, <2>2, <2>3 DEF SubmitEligible
  <1>6. CASE SubmitCompleteQuiz(c, e)
    <2>1. /\ req[c].item \in Resources /\ req[c].item \in Quizzes
          /\ PassedSome(e, req[c].item) /\ BackingGrows
      BY <1>6, <1>b, <1>t DEF SubmitCompleteQuiz, At, ItemBacked, TypeInv, RequestsOK, ItemPcs,
         BackingGrows
    <2>2. ConsumedIsBacked'
      BY <1>6, <1>d, <2>1, CompleteOne DEF SubmitCompleteQuiz, ConsumedInv
    <2>3. Goto(c, "read")
      BY <1>6 DEF SubmitCompleteQuiz
    <2> QED BY <1>q, <2>1, <2>2, <2>3
  <1>7. CASE Recompute(c, e) \/ EnqueueBadge(c, e)
    <2>1. BackingGrows /\ UNCHANGED completed
      BY <1>7 DEF Recompute, RecomputeRead, RecomputeResources, RecomputeQuizzes,
         RecomputeWrite, EnqueueBadge, BackingGrows, evidenceVars
    <2>2. req'[c].pc \notin ItemPcs /\ \A d \in Requests \ {c} : req'[d] = req[d]
      <3>1. CASE RecomputeRead(c, e) \/ RecomputeResources(c, e) \/ RecomputeQuizzes(c, e)
        BY <1>r, <3>1 DEF RecomputeRead, RecomputeResources, RecomputeQuizzes, ItemPcs, Request
      <3>2. CASE RecomputeWrite(c, e) \/ EnqueueBadge(c, e)
        BY <1>a, <1>g, <3>2 DEF RecomputeWrite, EnqueueBadge, ItemPcs
      <3> QED BY <1>7, <3>1, <3>2 DEF Recompute
    <2> QED BY <1>t, <2>1, <2>2, QuietConsumption
  <1>8. CASE EnrollCheck(c, e) \/ EnrollUpsert(c, e) \/ View(c, e) \/ EventEnrollment(c, e)
    <2>1. BackingGrows /\ UNCHANGED completed
      BY <1>8 DEF EnrollCheck, EnrollUpsert, View, EventEnrollment, BackingGrows, evidenceVars
    <2>2. req'[c].pc \notin ItemPcs /\ \A d \in Requests \ {c} : req'[d] = req[d]
      <3>1. \A h, f, pc : Begin(c, h, f, pc) => /\ req'[c].pc = pc
                                               /\ \A d \in Requests \ {c} : req'[d] = req[d]
        BY <1>r DEF Begin, NoRequest
      <3> QED BY <1>8, <1>g, <3>1 DEF EnrollCheck, EnrollUpsert, View, EventEnrollment, ItemPcs
    <2> QED BY <1>t, <2>1, <2>2, QuietConsumption
  <1> QED BY <1>1, <1>2, <1>3, <1>4, <1>5, <1>6, <1>7, <1>8 DEF RequestStep

LEMMA NextConsumed ==
    ASSUME ConsumedInv, [ProgressNext]_progressVars
    PROVE  ConsumedInv'
  <1>t. TypeInv'
    BY NextType DEF ConsumedInv
  <1>1. CASE \E c \in Requests, e \in Enrollments : RequestStep(c, e)
    BY <1>1, RequestStepConsumed
  <1>2. CASE \E c \in Requests : Drop(c)
    <2>1. /\ BackingGrows /\ UNCHANGED completed
          /\ \A c \in Requests : req'[c] = req[c] \/ req'[c].pc \notin ItemPcs
      BY <1>2 DEF Drop, Answer, NoRequest, ItemPcs, ConsumedInv, TypeInv, RequestsOK,
         BackingGrows, evidenceVars
    <2> QED BY <1>t, <2>1, QuietConsumption
  <1>3. CASE UNCHANGED <<dwelt, completed, passed, req>>
    BY <1>t, <1>3, QuietConsumption DEF BackingGrows
  <1> QED BY <1>1, <1>2, <1>3 DEF ProgressNext, Publish, Unpublish, Withdraw, StartAttempt,
      progressVars, evidenceVars

LEMMA ConsumedInit == ProgressInit => ConsumedInv
  <1> SUFFICES ASSUME ProgressInit PROVE ConsumedInv
    OBVIOUS
  <1>1. TypeInv
    BY TypeInit
  <1> QED BY <1>1 DEF ProgressInit, ConsumedInv, ConsumedIsBacked, ItemBacked, NoRequest

(* Events never complete a quiz and submissions never complete anything    *)
(* else, with any number of requests at every point of their handlers.     *)
THEOREM ConsumptionIsBacked == ProgressSpec => []ConsumedIsBacked
  <1>1. ConsumedInv => ConsumedIsBacked
    BY DEF ConsumedInv
  <1> QED BY <1>1, ConsumedInit, NextConsumed, PTL DEF ProgressSpec
=============================================================================
