--------------------------- MODULE CourseProgress ---------------------------
(***************************************************************************)
(* Progress and approval of the students of one course: enrolment          *)
(* (internal/api/handlers_learning.go), the end of a quiz submission       *)
(* (handlers_quiz_attempts.go), the versions the teacher publishes         *)
(* (handlers_courses.go) and progress.Recompute, which all of them call.   *)
(*                                                                         *)
(* Recompute reads the enrolment, counts resources, counts quizzes and     *)
(* writes the state in four statements outside any transaction, so         *)
(* requests of one student, and a publication, interleave between them.    *)
(*                                                                         *)
(* A course has one enrolment per student (UNIQUE (course_id, user_id)),   *)
(* so an enrolment also stands for its student.  Published versions are    *)
(* numbered in the order they are published.                               *)
(***************************************************************************)
EXTENDS Integers, FiniteSets, TaskQueue

CONSTANTS
    Enrollments,    \* students of the course
    Requests,       \* requests in progress at the API
    LastVersion,    \* bound on the versions the teacher publishes
    Resources,      \* stable ids, the same in every version
    Quizzes,        \* resources of type quiz
    Visible,        \* visible resources of each version
    Required,       \* visible resources of each version that are required
    RequiredPct,    \* required_completion of each version
    Nobody          \* value of an idle request's enrolment and resource

Versions == 1 .. LastVersion

ASSUME ProgressAssumption ==
    /\ IsFiniteSet(Resources)
    /\ Quizzes \subseteq Resources
    /\ LastVersion \in Nat
    /\ Visible \in [Versions -> SUBSET Resources]
    /\ Required \in [Versions -> SUBSET Resources]
    /\ \A v \in Versions : Required[v] \subseteq Visible[v]
    /\ RequiredPct \in [Versions -> 1 .. 100]
    /\ Nobody \notin Enrollments \cup Resources

VARIABLES
    current,      \* courses.current_version_id, 0 before the first publication
    published,    \* courses.status = 'published'
    enrolled,     \* enrollments.status, "none" before the row exists
    state,        \* enrollments.state
    approvedAt,   \* is enrollments.approved_at set
    dwelt,        \* resources whose dwell_secs reached MinDwellSeconds
    completed,    \* resources completed in resource_progress
    attempts,     \* quizzes, each of a version, with an attempt in progress
    passed,       \* quizzes, each of a version, with a passed attempt
    badgeTask,    \* asynq record of "badge:<enrollment>"
    req           \* what each request is doing

courseVars == <<current, published>>
evidenceVars == <<dwelt, completed, attempts, passed>>
progressVars == <<courseVars, enrolled, state, approvedAt, evidenceVars,
                  badgeTask, req>>

LearningState == {"in_progress", "completed", "approved"}
RecomputePcs == {"read", "resources", "quizzes", "write"}
RequestPcs == {"idle", "upsert", "resource", "record", "complete", "eligible",
               "completeQuiz", "enqueue"} \cup RecomputePcs
Handlers == {"enroll", "view", "event", "submit"}

(* item: the resource of an event or a submission; ver: the version read   *)
(* by Recompute, or of the quiz being submitted; was, enough and result:   *)
(* currentState and what Recompute has decided.                            *)
Request == [pc : RequestPcs, handler : Handlers, of : Enrollments \cup {Nobody},
            item : Resources \cup {Nobody}, ver : 0 .. LastVersion,
            won : BOOLEAN, was : LearningState, enough : BOOLEAN,
            result : LearningState]
NoRequest == [pc |-> "idle", handler |-> "view", of |-> Nobody, item |-> Nobody,
              ver |-> 0, won |-> FALSE, was |-> "in_progress", enough |-> FALSE,
              result |-> "in_progress"]

At(c, e, pc) == req[c].pc = pc /\ req[c].of = e
Answer(c) == req' = [req EXCEPT ![c] = NoRequest]
Goto(c, pc) == req' = [req EXCEPT ![c].pc = pc]
Begin(c, h, e, pc) ==
    /\ req[c] = NoRequest
    /\ req' = [req EXCEPT ![c] = [NoRequest EXCEPT !.pc = pc, !.handler = h, !.of = e]]

ProgressInit ==
    /\ current = 0
    /\ published = FALSE
    /\ enrolled = [e \in Enrollments |-> "none"]
    /\ state = [e \in Enrollments |-> "in_progress"]
    /\ approvedAt = [e \in Enrollments |-> FALSE]
    /\ dwelt = [e \in Enrollments |-> {}]
    /\ completed = [e \in Enrollments |-> {}]
    /\ attempts = [e \in Enrollments |-> {}]
    /\ passed = [e \in Enrollments |-> {}]
    /\ badgeTask = [e \in Enrollments |-> NoTask]
    /\ req = [c \in Requests |-> NoRequest]

-----------------------------------------------------------------------------
(* handlePublishVersion's transaction; the validation before it and the    *)
(* drafts are not part of this module.                                     *)
Publish ==
    /\ current < LastVersion
    /\ current' = current + 1
    /\ published' = TRUE
    /\ UNCHANGED <<enrolled, state, approvedAt, evidenceVars, badgeTask, req>>

(* handleUnpublishCourse keeps current_version_id.                         *)
Unpublish ==
    /\ published
    /\ published' = FALSE
    /\ UNCHANGED <<current, enrolled, state, approvedAt, evidenceVars, badgeTask, req>>

-----------------------------------------------------------------------------
(* progress.Recompute, from req[c].pc = "read".  The enrolment's version   *)
(* is set: only a published course is enrolled in, and no statement clears *)
(* current_version_id.                                                     *)

Enough(e, v) == /\ Required[v] # {}
                /\ 100 * Cardinality(completed[e] \cap Required[v])
                       >= RequiredPct[v] * Cardinality(Required[v])

(* Attempts belong to the quiz of one version: the count is of this        *)
(* version's required quizzes with a passed attempt.                       *)
PassedAll(e, v) == \A q \in Required[v] \cap Quizzes : <<v, q>> \in passed[e]

RecomputeRead(c, e) ==
    /\ At(c, e, "read")
    /\ req' = [req EXCEPT ![c].pc = "resources", ![c].ver = current,
                          ![c].was = state[e]]
    /\ UNCHANGED <<courseVars, enrolled, state, approvedAt, evidenceVars, badgeTask>>

RecomputeResources(c, e) ==
    /\ At(c, e, "resources")
    /\ req' = [req EXCEPT ![c].pc = "quizzes", ![c].enough = Enough(e, req[c].ver)]
    /\ UNCHANGED <<courseVars, enrolled, state, approvedAt, evidenceVars, badgeTask>>

(* Mutated form of Decision: consuming the material is enough.             *)
DecisionWithoutQuizzes(enough, all) == IF enough THEN "approved" ELSE "in_progress"

Decision(enough, all) == IF ~enough THEN "in_progress"
                         ELSE IF all THEN "approved" ELSE "completed"

RecomputeQuizzes(c, e) ==
    /\ At(c, e, "quizzes")
    /\ req' = [req EXCEPT ![c].pc = "write",
                          ![c].result = Decision(req[c].enough,
                                                 PassedAll(e, req[c].ver))]
    /\ UNCHANGED <<courseVars, enrolled, state, approvedAt, evidenceVars, badgeTask>>

NewlyApproved(r) == r.result = "approved" /\ r.was # "approved"

(* Only the event and submission handlers look at NewlyApproved.           *)
RecomputeWrite(c, e) ==
    /\ At(c, e, "write")
    /\ state' = [state EXCEPT ![e] = req[c].result]
    /\ approvedAt' = [approvedAt EXCEPT ![e] = @ \/ req[c].result = "approved"]
    /\ IF NewlyApproved(req[c]) /\ req[c].handler \in {"event", "submit"}
       THEN Goto(c, "enqueue") ELSE Answer(c)
    /\ UNCHANGED <<courseVars, enrolled, evidenceVars, badgeTask>>

EnqueueBadge(c, e) ==
    /\ At(c, e, "enqueue")
    /\ badgeTask' = [badgeTask EXCEPT ![e] = Enqueue(@)]
    /\ Answer(c)
    /\ UNCHANGED <<courseVars, enrolled, state, approvedAt, evidenceVars>>

Recompute(c, e) ==
    \/ RecomputeRead(c, e) \/ RecomputeResources(c, e)
    \/ RecomputeQuizzes(c, e) \/ RecomputeWrite(c, e)

-----------------------------------------------------------------------------
(* handleEnroll, handleWithdraw and the readers that recompute             *)
(* (handleGetEnrollment, handleEnrollmentOutline).                         *)

EnrollCheck(c, e) ==
    /\ published /\ current # 0
    /\ Begin(c, "enroll", e, "upsert")
    /\ UNCHANGED <<courseVars, enrolled, state, approvedAt, evidenceVars, badgeTask>>

EnrollUpsert(c, e) ==
    /\ At(c, e, "upsert")
    /\ enrolled' = [enrolled EXCEPT ![e] = "active"]
    /\ Goto(c, "read")
    /\ UNCHANGED <<courseVars, state, approvedAt, evidenceVars, badgeTask>>

(* Mutated form of Withdraw: writes the wrong column.                      *)
WithdrawState(e) ==
    /\ enrolled[e] # "none"
    /\ state' = [state EXCEPT ![e] = "withdrawn"]
    /\ UNCHANGED <<courseVars, enrolled, approvedAt, evidenceVars, badgeTask, req>>

Withdraw(e) ==
    /\ enrolled[e] # "none"
    /\ enrolled' = [enrolled EXCEPT ![e] = "withdrawn"]
    /\ UNCHANGED <<courseVars, state, approvedAt, evidenceVars, badgeTask, req>>

View(c, e) ==
    /\ enrolled[e] # "none"
    /\ Begin(c, "view", e, "read")
    /\ UNCHANGED <<courseVars, enrolled, state, approvedAt, evidenceVars, badgeTask>>

-----------------------------------------------------------------------------
(* handleProgressEvent.                                                    *)

EventEnrollment(c, e) ==
    /\ enrolled[e] = "active"
    /\ Begin(c, "event", e, "resource")
    /\ UNCHANGED <<courseVars, enrolled, state, approvedAt, evidenceVars, badgeTask>>

(* Mutated form of EventResource: events complete quizzes too.             *)
EventResourceAnyType(c, e) ==
    /\ At(c, e, "resource")
    /\ \/ \E r \in Visible[current] :
              req' = [req EXCEPT ![c].pc = "record", ![c].item = r]
       \/ Answer(c)
    /\ UNCHANGED <<courseVars, enrolled, state, approvedAt, evidenceVars, badgeTask>>

(* Only a visible resource of the current version, other than a quiz; any  *)
(* other is answered 404 or 422.                                           *)
EventResource(c, e) ==
    /\ At(c, e, "resource")
    /\ \/ \E r \in Visible[current] \ Quizzes :
              req' = [req EXCEPT ![c].pc = "record", ![c].item = r]
       \/ Answer(c)
    /\ UNCHANGED <<courseVars, enrolled, state, approvedAt, evidenceVars, badgeTask>>

(* The event's seconds, clamped to a minute, are added to dwell_secs and   *)
(* may or may not reach the threshold.  "open" and "heartbeat" go on to    *)
(* Recompute, and so does a "complete" already recorded; another           *)
(* "complete" is recorded first, or rejected below the threshold.          *)
EventRecord(c, e) ==
    /\ At(c, e, "record")
    /\ \E reached \in SUBSET {req[c].item}, complete \in BOOLEAN :
           LET dwelling == dwelt[e] \cup reached
               done == req[c].item \in completed[e] IN
           /\ dwelt' = [dwelt EXCEPT ![e] = dwelling]
           /\ \/ (done \/ ~complete) /\ Goto(c, "read")
              \/ complete /\ ~done /\ req[c].item \in dwelling /\ Goto(c, "complete")
              \/ complete /\ ~done /\ req[c].item \notin dwelling /\ Answer(c)
    /\ UNCHANGED <<courseVars, enrolled, state, approvedAt, completed, attempts,
                   passed, badgeTask>>

EventComplete(c, e) ==
    /\ At(c, e, "complete")
    /\ completed' = [completed EXCEPT ![e] = @ \cup {req[c].item}]
    /\ Goto(c, "read")
    /\ UNCHANGED <<courseVars, enrolled, state, approvedAt, dwelt, attempts, passed,
                   badgeTask>>

-----------------------------------------------------------------------------
(* Quizzes without limits of time or attempts.  enrollmentForQuiz:         *)
MayTake(e, v, q) == published /\ current = v /\ q \in Visible[v]
                    /\ enrolled[e] = "active"

(* handleStartAttempt.                                                     *)
StartAttempt(e, q) ==
    /\ current # 0
    /\ MayTake(e, current, q)
    /\ attempts' = [attempts EXCEPT ![e] = @ \cup {<<current, q>>}]
    /\ UNCHANGED <<courseVars, enrolled, state, approvedAt, dwelt, completed, passed,
                   badgeTask, req>>

(* handleSubmitAttempt up to the UPDATE that closes the attempt, which one *)
(* request wins.  Nothing asks whether the student may still take the quiz.*)
SubmitGrade(c, e, v, q) ==
    /\ <<v, q>> \in attempts[e]
    /\ req[c] = NoRequest
    /\ attempts' = [attempts EXCEPT ![e] = @ \ {<<v, q>>}]
    /\ \E right \in BOOLEAN :
           /\ passed' = [passed EXCEPT ![e] = IF right THEN @ \cup {<<v, q>>} ELSE @]
           /\ req' = [req EXCEPT ![c] = [NoRequest EXCEPT !.pc = "eligible",
                                         !.handler = "submit", !.of = e, !.item = q,
                                         !.ver = v, !.won = right]]
    /\ UNCHANGED <<courseVars, enrolled, state, approvedAt, dwelt, completed, badgeTask>>

(* Without an active enrolment in the quiz's version, the attempt counts   *)
(* but nothing is completed or recomputed.                                 *)
SubmitEligible(c, e) ==
    /\ At(c, e, "eligible")
    /\ IF MayTake(e, req[c].ver, req[c].item)
       THEN Goto(c, IF req[c].won THEN "completeQuiz" ELSE "read")
       ELSE Answer(c)
    /\ UNCHANGED <<courseVars, enrolled, state, approvedAt, evidenceVars, badgeTask>>

SubmitCompleteQuiz(c, e) ==
    /\ At(c, e, "completeQuiz")
    /\ completed' = [completed EXCEPT ![e] = @ \cup {req[c].item}]
    /\ Goto(c, "read")
    /\ UNCHANGED <<courseVars, enrolled, state, approvedAt, dwelt, attempts, passed,
                   badgeTask>>

(* The client disconnects or a statement fails: what was written stays.    *)
Drop(c) ==
    /\ req[c] # NoRequest
    /\ Answer(c)
    /\ UNCHANGED <<courseVars, enrolled, state, approvedAt, evidenceVars, badgeTask>>

-----------------------------------------------------------------------------
RequestStep(c, e) ==
    \/ EnrollCheck(c, e) \/ EnrollUpsert(c, e) \/ View(c, e)
    \/ EventEnrollment(c, e) \/ EventResource(c, e)
    \/ EventRecord(c, e) \/ EventComplete(c, e)
    \/ \E v \in Versions, q \in Quizzes : SubmitGrade(c, e, v, q)
    \/ SubmitEligible(c, e) \/ SubmitCompleteQuiz(c, e)
    \/ Recompute(c, e) \/ EnqueueBadge(c, e)

ProgressNext ==
    \/ Publish \/ Unpublish
    \/ \E e \in Enrollments : Withdraw(e) \/ \E q \in Quizzes : StartAttempt(e, q)
    \/ \E c \in Requests, e \in Enrollments : RequestStep(c, e)
    \/ \E c \in Requests : Drop(c)

ProgressSpec == ProgressInit /\ [][ProgressNext]_progressVars

-----------------------------------------------------------------------------
(* Every column, asynq record and request holds a value of its type.       *)
ProgressTypeOK ==
    /\ current \in 0 .. LastVersion
    /\ published \in BOOLEAN
    /\ enrolled \in [Enrollments -> {"none", "active", "withdrawn"}]
    /\ state \in [Enrollments -> LearningState]
    /\ approvedAt \in [Enrollments -> BOOLEAN]
    /\ dwelt \in [Enrollments -> SUBSET Resources]
    /\ completed \in [Enrollments -> SUBSET Resources]
    /\ attempts \in [Enrollments -> SUBSET (Versions \X Quizzes)]
    /\ passed \in [Enrollments -> SUBSET (Versions \X Quizzes)]
    /\ badgeTask \in [Enrollments -> Task]
    /\ req \in [Requests -> Request]

(* Everything one version asks for approval.                               *)
Earned(e, v) == Enough(e, v) /\ PassedAll(e, v)

(* A student is approved, and a badge asked for, only on the evidence of   *)
(* one version as a whole, however Recompute's separate reads interleave   *)
(* with publications and with the student's other requests; nobody is      *)
(* approved on the material of one version and the quizzes of another.     *)
ApprovalIsEarned ==
    \A e \in Enrollments :
        state[e] = "approved" \/ approvedAt[e] \/ badgeTask[e] # NoTask
            => \E v \in Versions : v <= current /\ Earned(e, v)

(* What counts as consumed is backed by evidence of its own kind: material *)
(* by the time spent in it, a quiz by a passed attempt at it, in whichever *)
(* version, and never by events.                                           *)
ConsumedIsBacked ==
    \A e \in Enrollments : \A r \in completed[e] :
        IF r \in Quizzes THEN \E v \in Versions : <<v, r>> \in passed[e]
                         ELSE r \in dwelt[e]
=============================================================================
