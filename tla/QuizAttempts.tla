---------------------------- MODULE QuizAttempts ----------------------------
(***************************************************************************)
(* The attempts of one student at one quiz: start, read, save and submit   *)
(* (internal/api/handlers_quiz_attempts.go), the Idempotency-Key of a      *)
(* submission (idempotency.go) and step 6 of the maintenance job           *)
(* (internal/tasks/reap.go).                                               *)
(*                                                                         *)
(* One action is one statement that reaches PostgreSQL or Redis; req[c]    *)
(* is what a request remembers between two of them.  The page makes a key  *)
(* when it is mounted, and another one for another attempt                 *)
(* (quiz-runner.tsx): a key has one attempt, an attempt as many keys as    *)
(* pages that show it, and the header is optional (idempotency.go).        *)
(* What follows a graded submission (the resource completed, Recompute,    *)
(* the badge) is CourseProgress's; here it is one step that may fail.      *)
(***************************************************************************)
EXTENDS Integers, FiniteSets, FiniteSetsExt

CONSTANTS
    Requests,       \* requests in progress at the API
    Questions,      \* of the quiz
    Options,        \* of each question
    Multiple,       \* questions that accept several options
    Points,         \* points of each question
    Keys,           \* right options of each question, before and after an edit
    Bodies,         \* answers a client sends: question -> options, in a sequence
    PassingScore,   \* quizzes.passing_score
    MaxAttempts,    \* quizzes.max_attempts, 0 for no limit
    ClientKeys,     \* Idempotency-Keys that clients make
    KeyAttempt,     \* the attempt each of them is made for
    NoKey,          \* a submission without one
    Timed,          \* quizzes.time_limit_secs > 0
    Feedback,       \* quizzes.feedback
    LastNumber      \* bound on the attempts of the student

Numbers == 1 .. LastNumber
AnswerSheet == [Questions -> SUBSET Options]
Unanswered == [q \in Questions |-> {}]
NoBody == [q \in {} |-> <<>>]

ASSUME QuizAssumption ==
    /\ Questions # {} /\ IsFiniteSet(Questions)
    /\ Multiple \subseteq Questions
    /\ Points \in [Questions -> Nat]
    /\ Keys # {} /\ Keys \subseteq AnswerSheet
    /\ PassingScore \in 0 .. 100
    /\ MaxAttempts \in Nat
    /\ KeyAttempt \in [ClientKeys -> Numbers]
    /\ NoKey \notin ClientKeys
    /\ Timed \in BOOLEAN
    /\ Feedback \in {"none", "on_submit", "after_passing"}
    /\ LastNumber \in Nat

VARIABLES
    quizKey,   \* the quiz's right options now
    editing,   \* is an edit of the quiz still to land (see EditQuiz)
    attempt,   \* rows of quiz_attempts by attempt_number
    idem,      \* Redis, what is stored under each client key
    req,       \* what each request is doing
    shown      \* attempts whose feedback the student has been sent

vars == <<quizKey, editing, attempt, idem, req, shown>>
quizVars == <<quizKey, editing>>

Status == {"none", "in_progress", "submitted", "expired"}
Clock == {"on_time", "late", "overdue"}    \* past expires_at; five minutes past it
Row == [status : Status, key : AnswerSheet, answers : AnswerSheet,
        earned : Nat, passed : BOOLEAN, clock : Clock]
NoRow == [status |-> "none", key |-> Unanswered, answers |-> Unanswered,
          earned |-> 0, passed |-> FALSE, clock |-> "on_time"]

(* "result": 200 with the outcome of an attempt; "refused": 4xx.           *)
Response == [kind : {"none", "result", "refused", "error"}, status : Status,
             earned : Nat, passed : BOOLEAN]
NoResponse == [kind |-> "none", status |-> "none", earned |-> 0, passed |-> FALSE]
Reply(kind) == [NoResponse EXCEPT !.kind = kind]
Result(status, earned, passed) ==
    [kind |-> "result", status |-> status, earned |-> earned, passed |-> passed]

IdemKey == [st : {"free", "processing", "stored"}, reply : Response]
FreeKey == [st |-> "free", reply |-> NoResponse]

StartPcs == {"open", "count", "snapshot", "insert"}
SubmitPcs == {"load", "grade", "close", "reload", "effects"}
KeyedPcs == SubmitPcs \cup {"store"}     \* after the key is reserved
RequestPcs == {"idle", "view", "respond", "loadSave", "save", "reserve", "lookup",
               "store"} \cup StartPcs \cup SubmitPcs

(* sheet: the answers read and merged, or the snapshot's key; late: the    *)
(* clock when it was read; used: the attempts counted.                     *)
Request == [pc : RequestPcs, n : 0 .. LastNumber, idemKey : ClientKeys \cup {NoKey},
            body : Bodies \cup {NoBody}, sheet : AnswerSheet, late : BOOLEAN, used : Nat,
            reply : Response]
NoRequest == [pc |-> "idle", n |-> 0, idemKey |-> NoKey, body |-> NoBody,
              sheet |-> Unanswered, late |-> FALSE, used |-> 0, reply |-> NoResponse]

Init ==
    /\ quizKey \in Keys
    /\ editing = TRUE
    /\ attempt = [n \in Numbers |-> NoRow]
    /\ idem = [k \in ClientKeys |-> FreeKey]
    /\ req = [c \in Requests |-> NoRequest]
    /\ shown = {}

Taken == {n \in Numbers : attempt[n].status # "none"}
Open == {n \in Numbers : attempt[n].status = "in_progress"}
Closed == Taken \ Open

Goto(c, pc) == req' = [req EXCEPT ![c].pc = pc]
Answer(c) == req' = [req EXCEPT ![c] = NoRequest]
Begin(c, pc, n) == /\ req[c] = NoRequest
                   /\ req' = [req EXCEPT ![c] = [NoRequest EXCEPT !.pc = pc, !.n = n]]

(* A submission's answer goes through the middleware that reserved its key.*)
Respond(c, reply) ==
    IF req[c].idemKey = NoKey THEN Answer(c)
    ELSE req' = [req EXCEPT ![c] = [NoRequest EXCEPT !.pc = "store", !.n = req[c].n,
                                                     !.idemKey = req[c].idemKey,
                                                     !.reply = reply]]

-----------------------------------------------------------------------------
(* validateAnswers, gradeAttempt and the feedback rule.                    *)

Selected(seq) == {seq[i] : i \in DOMAIN seq}

ValidAnswers(body) ==
    \A q \in DOMAIN body : /\ q \in Questions
                           /\ q \notin Multiple => Cardinality(DOMAIN body[q]) <= 1
                           /\ Selected(body[q]) \subseteq Options

Merge(sheet, body) ==
    [q \in Questions |-> IF q \in DOMAIN body THEN Selected(body[q]) ELSE sheet[q]]

(* A question counts when exactly its right options are marked, and it has *)
(* some; there is no partial credit.                                       *)
Right(key, sheet) == {q \in Questions : key[q] # {} /\ sheet[q] = key[q]}
PointsOf(qs) == MapThenSumSet(LAMBDA q : Points[q], qs)

Earned(key, sheet) == PointsOf(Right(key, sheet))
Passes(earned) ==
    LET total == PointsOf(Questions) IN
    IF total = 0 THEN PassingScore = 0 ELSE 100 * earned >= PassingScore * total

FeedbackFor(passed) == Feedback = "on_submit" \/ (Feedback = "after_passing" /\ passed)

-----------------------------------------------------------------------------
(* handleStartAttempt, once the student may take the quiz.                 *)
StartBegin(c) ==
    /\ Begin(c, "open", 0)
    /\ UNCHANGED <<quizVars, attempt, idem, shown>>

(* An open attempt is returned, and no other one created.                  *)
StartOpen(c) ==
    /\ req[c].pc = "open"
    /\ IF Open # {} THEN Answer(c) ELSE Goto(c, "count")
    /\ UNCHANGED <<quizVars, attempt, idem, shown>>

(* Mutated form of StartCount: the limit compared with >.                  *)
StartCountOneMore(c) ==
    /\ req[c].pc = "count"
    /\ IF MaxAttempts > 0 /\ Cardinality(Taken) > MaxAttempts
       THEN Answer(c)
       ELSE req' = [req EXCEPT ![c].pc = "snapshot", ![c].used = Cardinality(Taken)]
    /\ UNCHANGED <<quizVars, attempt, idem, shown>>

StartCount(c) ==
    /\ req[c].pc = "count"
    /\ IF MaxAttempts > 0 /\ Cardinality(Taken) >= MaxAttempts
       THEN Answer(c)
       ELSE req' = [req EXCEPT ![c].pc = "snapshot", ![c].used = Cardinality(Taken)]
    /\ UNCHANGED <<quizVars, attempt, idem, shown>>

(* buildSnapshot: the order of the questions is left out.                  *)
StartSnapshot(c) ==
    /\ req[c].pc = "snapshot"
    /\ req' = [req EXCEPT ![c].pc = "insert", ![c].sheet = quizKey]
    /\ UNCHANGED <<quizVars, attempt, idem, shown>>

(* UNIQUE (quiz_id, user_id, attempt_number) refuses a number taken since. *)
StartInsert(c) ==
    LET n == req[c].used + 1 IN
    /\ req[c].pc = "insert"
    /\ n \in Numbers
    /\ attempt' = IF n \in Taken THEN attempt
                  ELSE [attempt EXCEPT ![n] = [NoRow EXCEPT !.status = "in_progress",
                                                            !.key = req[c].sheet]]
    /\ Answer(c)
    /\ UNCHANGED <<quizVars, idem, shown>>

Start(c) == StartBegin(c) \/ StartOpen(c) \/ StartCount(c) \/ StartSnapshot(c)
            \/ StartInsert(c)

-----------------------------------------------------------------------------
(* handleGetAttempt: the first read decides whether the result is shown,   *)
(* respondAttempt reads the row again.                                     *)
ViewBegin(c, n) ==
    /\ n \in Taken
    /\ Begin(c, "view", n)
    /\ UNCHANGED <<quizVars, attempt, idem, shown>>

ViewLoad(c) ==
    /\ req[c].pc = "view"
    /\ IF req[c].n \in Closed THEN Goto(c, "respond") ELSE Answer(c)
    /\ UNCHANGED <<quizVars, attempt, idem, shown>>

(* Mutated form of Showing: feedback whatever the policy.                  *)
ShowingAlways(n, passed) == shown' = shown \cup {n}

(* The questions are sent with their feedback when the policy allows it.   *)
Showing(n, passed) == shown' = IF FeedbackFor(passed) THEN shown \cup {n} ELSE shown

ViewRespond(c) ==
    /\ req[c].pc = "respond"
    /\ Showing(req[c].n, attempt[req[c].n].passed)
    /\ Answer(c)
    /\ UNCHANGED <<quizVars, attempt, idem>>

View(c) == (\E n \in Numbers : ViewBegin(c, n)) \/ ViewLoad(c) \/ ViewRespond(c)

-----------------------------------------------------------------------------
(* handleSaveAttempt: the answers sent are merged with those read, and     *)
(* written whole.                                                          *)
SaveBegin(c, n, body) ==
    /\ n \in Taken
    /\ req[c] = NoRequest
    /\ req' = [req EXCEPT ![c] = [NoRequest EXCEPT !.pc = "loadSave", !.n = n,
                                                   !.body = body]]
    /\ UNCHANGED <<quizVars, attempt, idem, shown>>

SaveLoad(c) ==
    LET row == attempt[req[c].n] IN
    /\ req[c].pc = "loadSave"
    /\ IF /\ row.status = "in_progress" /\ row.clock = "on_time"
          /\ ValidAnswers(req[c].body)
       THEN req' = [req EXCEPT ![c].pc = "save", ![c].body = NoBody,
                               ![c].sheet = Merge(row.answers, req[c].body)]
       ELSE Answer(c)
    /\ UNCHANGED <<quizVars, attempt, idem, shown>>

(* An attempt closed in between is left alone, and the save answered all   *)
(* the same.                                                               *)
SaveUpdate(c) ==
    /\ req[c].pc = "save"
    /\ attempt' = IF req[c].n \in Open
                  THEN [attempt EXCEPT ![req[c].n].answers = req[c].sheet] ELSE attempt
    /\ Answer(c)
    /\ UNCHANGED <<quizVars, idem, shown>>

Save(c) == (\E n \in Numbers, b \in Bodies : SaveBegin(c, n, b)) \/ SaveLoad(c)
           \/ SaveUpdate(c)

-----------------------------------------------------------------------------
(* The idempotency middleware, and handleSubmitAttempt behind it.          *)
SubmitBegin(c, n, k, body) ==
    /\ n \in Taken
    /\ k # NoKey => KeyAttempt[k] = n
    /\ req[c] = NoRequest
    /\ req' = [req EXCEPT ![c] = [NoRequest EXCEPT
                   !.pc = IF k = NoKey THEN "load" ELSE "reserve",
                   !.n = n, !.idemKey = k, !.body = body]]
    /\ UNCHANGED <<quizVars, attempt, idem, shown>>

(* SETNX.                                                                  *)
Reserve(c) ==
    LET k == req[c].idemKey IN
    /\ req[c].pc = "reserve"
    /\ \/ /\ idem[k].st = "free"
          /\ idem' = [idem EXCEPT ![k] = [FreeKey EXCEPT !.st = "processing"]]
          /\ Goto(c, "load")
       \/ /\ idem[k].st # "free"
          /\ Goto(c, "lookup")
          /\ UNCHANGED idem
    /\ UNCHANGED <<quizVars, attempt, shown>>

(* A key that was taken: gone (500), of another body (422), in process     *)
(* (409) or replayed.  None changes anything, so the hash of the body,     *)
(* which only tells them apart, is left out.                               *)
Lookup(c) ==
    /\ req[c].pc = "lookup"
    /\ Answer(c)
    /\ UNCHANGED <<quizVars, attempt, idem, shown>>

(* A closed attempt answers with its own outcome; an answer outside the    *)
(* exam is refused.                                                        *)
SubmitLoad(c) ==
    LET row == attempt[req[c].n] IN
    /\ req[c].pc = "load"
    /\ IF row.status # "in_progress"
       THEN Respond(c, Result(row.status, row.earned, row.passed))
       ELSE IF ~ValidAnswers(req[c].body) THEN Respond(c, Reply("refused"))
       ELSE req' = [req EXCEPT ![c].pc = "grade",
                               ![c].body = NoBody,
                               ![c].sheet = Merge(row.answers, req[c].body)]
    /\ UNCHANGED <<quizVars, attempt, idem, shown>>

(* The clock is read against the expiry in the row, and what was merged is *)
(* graded against the snapshot; neither can change any more.               *)
SubmitGrade(c) ==
    /\ req[c].pc = "grade"
    /\ req' = [req EXCEPT ![c].pc = "close",
                          ![c].late = attempt[req[c].n].clock # "on_time"]
    /\ UNCHANGED <<quizVars, attempt, idem, shown>>

(* Mutated form of Outcome: graded with the quiz as it is now.             *)
OutcomeOfQuiz(c) ==
    LET earned == Earned(quizKey, req[c].sheet) IN
    Result(IF req[c].late THEN "expired" ELSE "submitted", earned, Passes(earned))

(* What an attempt is closed with.                                         *)
Outcome(c) ==
    LET earned == Earned(attempt[req[c].n].key, req[c].sheet) IN
    Result(IF req[c].late THEN "expired" ELSE "submitted", earned, Passes(earned))

(* Mutated form of SubmitClose: WHERE id alone.                            *)
SubmitCloseAny(c) ==
    LET n == req[c].n
        out == Outcome(c) IN
    /\ req[c].pc = "close"
    /\ attempt' = [attempt EXCEPT ![n].status = out.status, ![n].answers = req[c].sheet,
                                  ![n].earned = out.earned, ![n].passed = out.passed]
    /\ req' = [req EXCEPT ![c].pc = "effects", ![c].reply = out]
    /\ UNCHANGED <<quizVars, idem, shown>>

(* UPDATE ... WHERE status = 'in_progress': one request or the maintenance *)
(* job closes the attempt; the others answer with what that one wrote.     *)
SubmitClose(c) ==
    LET n == req[c].n
        out == Outcome(c) IN
    /\ req[c].pc = "close"
    /\ IF n \in Open
       THEN /\ attempt' = [attempt EXCEPT ![n].status = out.status,
                                          ![n].answers = req[c].sheet,
                                          ![n].earned = out.earned,
                                          ![n].passed = out.passed]
            /\ req' = [req EXCEPT ![c].pc = "effects", ![c].sheet = Unanswered,
                                  ![c].late = FALSE, ![c].reply = out]
       ELSE Goto(c, "reload") /\ UNCHANGED attempt
    /\ UNCHANGED <<quizVars, idem, shown>>

(* Mutated form of SubmitReload: the loser answers with its own grade.     *)
SubmitReloadOwn(c) ==
    LET row == attempt[req[c].n] IN
    /\ req[c].pc = "reload"
    /\ Showing(req[c].n, row.passed)
    /\ Respond(c, Outcome(c))
    /\ UNCHANGED <<quizVars, attempt, idem>>

SubmitReload(c) ==
    LET row == attempt[req[c].n] IN
    /\ req[c].pc = "reload"
    /\ Showing(req[c].n, row.passed)
    /\ Respond(c, Result(row.status, row.earned, row.passed))
    /\ UNCHANGED <<quizVars, attempt, idem>>

(* Progress and badge (CourseProgress); an error of theirs is a 500.       *)
SubmitEffects(c) ==
    /\ req[c].pc = "effects"
    /\ \/ /\ Respond(c, req[c].reply)
          /\ Showing(req[c].n, req[c].reply.passed)
       \/ Respond(c, Reply("error")) /\ UNCHANGED shown
    /\ UNCHANGED <<quizVars, attempt, idem>>

(* A statement of the handler fails: 500.                                  *)
SubmitError(c) ==
    /\ req[c].pc \in SubmitPcs
    /\ Respond(c, Reply("error"))
    /\ UNCHANGED <<quizVars, attempt, idem, shown>>

(* Definite answers are stored with their body, a 500 frees the key.       *)
Store(c) ==
    /\ req[c].pc = "store"
    /\ idem' = [idem EXCEPT ![req[c].idemKey] =
                    IF req[c].reply.kind = "error" THEN FreeKey
                    ELSE [st |-> "stored", reply |-> req[c].reply]]
    /\ Answer(c)
    /\ UNCHANGED <<quizVars, attempt, shown>>

Submit(c) ==
    \/ \E n \in Numbers, k \in ClientKeys \cup {NoKey}, b \in Bodies :
           SubmitBegin(c, n, k, b)
    \/ Reserve(c) \/ Lookup(c)
    \/ SubmitLoad(c) \/ SubmitGrade(c) \/ SubmitClose(c)
    \/ SubmitReload(c) \/ SubmitEffects(c) \/ SubmitError(c) \/ Store(c)

-----------------------------------------------------------------------------
(* The client goes away: the request's context is cancelled, and every     *)
(* further statement fails, those of the middleware too.                   *)
Disconnect(c) ==
    /\ req[c] # NoRequest
    /\ Answer(c)
    /\ UNCHANGED <<quizVars, attempt, idem, shown>>

(* A day after it was reserved; no request lasts that long.                *)
KeyExpires(k) ==
    /\ idem[k].st # "free"
    /\ \A c \in Requests : ~(req[c].idemKey = k /\ req[c].pc \in KeyedPcs)
    /\ idem' = [idem EXCEPT ![k] = FreeKey]
    /\ UNCHANGED <<quizVars, attempt, req, shown>>

(* An edit of the quiz whose guard was passed while its version was a      *)
(* draft lands after the publication (CourseVersions).                     *)
EditQuiz ==
    /\ editing
    /\ editing' = FALSE
    /\ quizKey' \in Keys
    /\ UNCHANGED <<attempt, idem, req, shown>>

(* Time passes for an open attempt; the clock of a closed one is idle.     *)
Tick(n) ==
    /\ Timed /\ n \in Open
    /\ attempt[n].clock # "overdue"
    /\ attempt' = [attempt EXCEPT ![n].clock = IF @ = "on_time" THEN "late" ELSE "overdue"]
    /\ UNCHANGED <<quizVars, idem, req, shown>>

(* Mutated form of ReapExpired: a status the enum does not have.           *)
ReapTimedOut ==
    LET due == {n \in Open : attempt[n].clock = "overdue"} IN
    /\ due # {}
    /\ attempt' = [n \in Numbers |-> IF n \in due
                      THEN [attempt[n] EXCEPT !.status = "timed_out"] ELSE attempt[n]]
    /\ UNCHANGED <<quizVars, idem, req, shown>>

(* HandleReapStale, step 6: closed with score 0, whatever was saved.       *)
ReapExpired ==
    LET due == {n \in Open : attempt[n].clock = "overdue"} IN
    /\ due # {}
    /\ attempt' = [n \in Numbers |-> IF n \in due
                      THEN [attempt[n] EXCEPT !.status = "expired", !.earned = 0,
                                              !.passed = FALSE]
                      ELSE attempt[n]]
    /\ UNCHANGED <<quizVars, idem, req, shown>>

Next ==
    \/ \E c \in Requests : Start(c) \/ View(c) \/ Save(c) \/ Submit(c) \/ Disconnect(c)
    \/ \E n \in Numbers : Tick(n)
    \/ \E k \in ClientKeys : KeyExpires(k)
    \/ EditQuiz
    \/ ReapExpired

Spec == Init /\ [][Next]_vars

-----------------------------------------------------------------------------
(* Every column, key and request's memory is of its type.                   *)
TypeOK ==
    /\ quizKey \in Keys /\ editing \in BOOLEAN
    /\ attempt \in [Numbers -> Row]
    /\ idem \in [ClientKeys -> IdemKey]
    /\ req \in [Requests -> Request]
    /\ shown \subseteq Numbers

(* Numbers are used without gaps and never beyond the quiz's limit,        *)
(* however starts interleave between the look for an open attempt, the     *)
(* count and the insertion.                                                *)
AttemptsBounded ==
    /\ Taken = 1 .. Cardinality(Taken)
    /\ MaxAttempts > 0 => Cardinality(Taken) <= MaxAttempts

(* Submitting again, saving late or expiring late never changes an attempt *)
(* that was closed: what the header of the file calls not grading twice,   *)
(* with or without a key.                                                  *)
ClosedIsFinal ==
    [][\A n \in Numbers : n \in Closed => attempt'[n] = attempt[n]]_vars

(* A submitted attempt has the score that the exam the student saw gives   *)
(* to the answers in the row, although saves, an edit of the quiz and      *)
(* other submissions fall between the reading and the closing.             *)
GradedAsSeen ==
    \A n \in Numbers : attempt[n].status = "submitted" =>
        /\ attempt[n].earned = Earned(attempt[n].key, attempt[n].answers)
        /\ attempt[n].passed = Passes(attempt[n].earned)

(* What a retry with a key is answered is what the attempt's row says,     *)
(* whoever closed it: another submission, under the same key, another one  *)
(* or none, or the maintenance job.                                        *)
ReplayAgrees ==
    \A k \in ClientKeys :
        LET n == KeyAttempt[k] IN
        idem[k].reply.kind = "result" =>
            /\ n \in Closed
            /\ idem[k].reply = Result(attempt[n].status, attempt[n].earned,
                                      attempt[n].passed)

(* No feedback is sent before the attempt is closed, nor, under            *)
(* after_passing, for one that did not pass, although the row is read      *)
(* twice for one answer.                                                   *)
FeedbackIsDue ==
    \A n \in shown : n \in Closed /\ FeedbackFor(attempt[n].passed)
=============================================================================
