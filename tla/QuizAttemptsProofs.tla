-------------------------- MODULE QuizAttemptsProofs --------------------------
(***************************************************************************)
(* Theorems of QuizAttempts, for every quiz, set of requests and bound.    *)
(* What a set of answers earns is a number that is never looked into.      *)
(***************************************************************************)
EXTENDS QuizAttempts, FiniteSetTheorems, TLAPS

RowFields == {"status", "key", "answers", "earned", "passed", "clock"}
ReqFields == {"pc", "n", "idemKey", "body", "sheet", "late", "used", "reply"}
Memory(r) == r = [x \in ReqFields |-> r[x]]

Shape ==
    /\ attempt = [n \in Numbers |-> attempt[n]]
    /\ \A n \in Numbers : attempt[n] = [x \in RowFields |-> attempt[n][x]]
    /\ idem = [k \in ClientKeys |-> idem[k]]
    /\ req = [c \in Requests |-> req[c]]
    /\ \A c \in Requests : Memory(req[c])

(* Requests that name an attempt, and those that found it closed.          *)
OnRow == RequestPcs \ ({"idle"} \cup StartPcs)
Outcomes(n) == Result(attempt[n].status, attempt[n].earned, attempt[n].passed)

(* The key of a submission was made for its attempt.                       *)
KeyKnown(r) ==
    /\ r.pc \in {"reserve", "store"} => r.idemKey # NoKey
    /\ r.pc \in KeyedPcs \cup {"reserve"} /\ r.idemKey # NoKey =>
           r.idemKey \in ClientKeys /\ KeyAttempt[r.idemKey] = r.n

(* What a request remembers of its attempt is true of it.                  *)
Knows(r) ==
    /\ r.pc \in OnRow => r.n \in Taken
    /\ r.pc \in {"respond", "reload", "effects"} => r.n \in Closed
    /\ r.pc = "effects" => r.reply = Outcomes(r.n)
    /\ r.pc = "store" /\ r.reply.kind = "result" =>
           r.n \in Closed /\ r.reply = Outcomes(r.n)
    /\ KeyKnown(r)

(* A request that runs under a key holds it, alone.                        *)
Holds(r) == r.pc \in KeyedPcs /\ r.idemKey # NoKey
KeysHeld ==
    /\ \A c \in Requests : Holds(req[c]) => idem[req[c].idemKey].st = "processing"
    /\ \A c, d \in Requests :
           Holds(req[c]) /\ Holds(req[d]) /\ req[c].idemKey = req[d].idemKey => c = d

Settled ==
    /\ \A c \in Requests : Knows(req[c])
    /\ KeysHeld
    /\ GradedAsSeen /\ ReplayAgrees /\ FeedbackIsDue

LEMMA NoRequestIdle ==
    /\ Memory(NoRequest) /\ NoRequest.pc = "idle" /\ Knows(NoRequest) /\ ~Holds(NoRequest)
  <1>1. NoRequest = [x \in ReqFields |-> NoRequest[x]] /\ NoRequest.pc = "idle"
    BY DEF NoRequest, ReqFields
  <1> QED BY <1>1 DEF Memory, Knows, KeyKnown, Holds, OnRow, KeyedPcs, SubmitPcs

LEMMA InitSettled == Init => Shape /\ Settled
  <1> SUFFICES ASSUME Init PROVE Shape /\ Settled
    OBVIOUS
  <1>1. \A c \in Requests : req[c] = NoRequest
    BY DEF Init
  <1>2. /\ \A n \in Numbers : attempt[n] = NoRow
        /\ \A k \in ClientKeys : idem[k] = FreeKey
    BY DEF Init
  <1>3. NoRow = [x \in RowFields |-> NoRow[x]] /\ NoRow.status = "none"
    BY DEF NoRow, RowFields
  <1>4. FreeKey.reply.kind = "none"
    BY DEF FreeKey, NoResponse
  <1>5. Shape
    <2>1. attempt = [n \in Numbers |-> attempt[n]] /\ idem = [k \in ClientKeys |-> idem[k]]
          /\ req = [c \in Requests |-> req[c]]
      BY DEF Init
    <2> QED BY <1>1, <1>2, <1>3, <2>1, NoRequestIdle DEF Shape
  <1>6. GradedAsSeen /\ ReplayAgrees /\ FeedbackIsDue
    BY <1>2, <1>3, <1>4 DEF GradedAsSeen, ReplayAgrees, FeedbackIsDue, Init
  <1> QED BY <1>1, <1>5, <1>6, NoRequestIdle DEF Settled, KeysHeld

-----------------------------------------------------------------------------
(* What any step does to the attempts: none is forgotten, and a closed one *)
(* stays as it is.                                                         *)
Final ==
    \A n \in Numbers : /\ n \in Taken => n \in Taken'
                       /\ n \in Closed => n \in Closed' /\ attempt'[n] = attempt[n]

LEMMA SameFinal == UNCHANGED attempt => Final
  BY DEF Final, Taken, Closed, Open

LEMMA KnowsStays == ASSUME Final, NEW r, Knows(r) PROVE Knows(r)'
  <1>1. \A n : n \in Taken => n \in Taken'
    BY DEF Final, Taken
  <1>2. \A n : n \in Closed => n \in Closed' /\ Outcomes(n)' = Outcomes(n)
    BY DEF Final, Closed, Taken, Outcomes
  <1> QED BY <1>1, <1>2 DEF Knows

(* A statement of a request that reads, with what it remembers then.       *)
Due(n) == n \in Closed /\ FeedbackFor(attempt[n].passed)

LEMMA ReadStep ==
    ASSUME Shape, Settled, NEW c \in Requests, NEW r, req' = [req EXCEPT ![c] = r],
           Memory(r), Knows(r), Holds(r) => Holds(req[c]) /\ r.idemKey = req[c].idemKey,
           UNCHANGED <<attempt, idem>>, \A n \in shown' : n \in shown \/ Due(n)
    PROVE  Shape' /\ Settled' /\ Final
  <1>1. req' = [d \in Requests |-> req'[d]] /\ req'[c] = r
        /\ \A d \in Requests \ {c} : req'[d] = req[d]
    BY DEF Shape
  <1>2. Final
    BY SameFinal
  <1>3. Shape'
    BY <1>1 DEF Shape
  <1>4. \A d \in Requests : Knows(req'[d])
    BY <1>1 DEF Settled
  <1>6. \A d \in Requests : Knows(req[d])'
    BY <1>4 DEF Knows, Taken, Closed, Open, Outcomes
  <1>7. KeysHeld'
    BY <1>1 DEF Settled, KeysHeld, Holds
  <1>8. GradedAsSeen' /\ ReplayAgrees' /\ FeedbackIsDue'
    BY DEF Settled, GradedAsSeen, ReplayAgrees, FeedbackIsDue, Due, Closed, Taken, Open
  <1> QED BY <1>2, <1>3, <1>6, <1>7, <1>8 DEF Settled

(* Its four forms: the request ends, goes on, begins, or is answered.      *)
LEMMA AnswerStep ==
    ASSUME Shape, Settled, NEW c \in Requests, Answer(c), UNCHANGED <<attempt, idem>>,
           \A n \in shown' : n \in shown \/ Due(n)
    PROVE  Shape' /\ Settled' /\ Final
  BY ReadStep, NoRequestIdle DEF Answer

LEMMA OtherAttempts ==
    ASSUME NEW r, r.pc \in {"open", "count", "snapshot", "insert"}
    PROVE  Knows(r) /\ ~Holds(r)
  BY DEF Knows, KeyKnown, Holds, KeyedPcs, SubmitPcs, OnRow, StartPcs

LEMMA BeginStep ==
    ASSUME Shape, Settled, NEW c \in Requests, NEW pc \in {"view", "loadSave"},
           NEW n \in Taken, NEW body,
           req' = [req EXCEPT ![c] = [NoRequest EXCEPT !.pc = pc, !.n = n, !.body = body]],
           UNCHANGED <<attempt, idem, shown>>
    PROVE  Shape' /\ Settled' /\ Final
  <1> DEFINE r == [NoRequest EXCEPT !.pc = pc, !.n = n, !.body = body]
  <1>1. Memory(r) /\ r.pc = pc /\ r.n = n
    BY NoRequestIdle DEF Memory, ReqFields
  <1>2. Knows(r) /\ ~Holds(r)
    BY <1>1 DEF Knows, KeyKnown, Holds, KeyedPcs, SubmitPcs
  <1> HIDE DEF r
  <1> QED BY <1>1, <1>2, ReadStep DEF r

LEMMA RespondStep ==
    ASSUME Shape, Settled, NEW c \in Requests, req[c].pc \in SubmitPcs, NEW reply,
           reply.kind = "result" => req[c].n \in Closed /\ reply = Outcomes(req[c].n),
           Respond(c, reply), UNCHANGED <<attempt, idem>>,
           \A n \in shown' : n \in shown \/ Due(n)
    PROVE  Shape' /\ Settled' /\ Final
  <1>1. CASE req[c].idemKey = NoKey
    BY <1>1, AnswerStep DEF Respond
  <1>2. CASE req[c].idemKey # NoKey
    <2> DEFINE m == req[c].n
               k == req[c].idemKey
               r == [NoRequest EXCEPT !.pc = "store", !.n = m, !.idemKey = k,
                                      !.reply = reply]
    <2>1. req' = [req EXCEPT ![c] = r]
      BY <1>2 DEF Respond
    <2>2. Memory(r) /\ r.pc = "store" /\ r.n = m /\ r.idemKey = k /\ r.reply = reply
      <3> HIDE DEF m, k
      <3> QED BY NoRequestIdle DEF Memory, ReqFields
    <2>3. m \in Taken /\ k \in ClientKeys /\ KeyAttempt[k] = m
      BY <1>2 DEF Settled, Knows, KeyKnown, KeyedPcs, OnRow, RequestPcs, SubmitPcs, StartPcs
    <2>4. Knows(r)
      BY <1>2, <2>2, <2>3 DEF Knows, KeyKnown
    <2>5. Holds(req[c])
      BY <1>2 DEF Holds, KeyedPcs
    <2> HIDE DEF r
    <2> QED BY <2>1, <2>2, <2>4, <2>5, ReadStep
  <1> QED BY <1>1, <1>2

-----------------------------------------------------------------------------
(* Starting, up to the insertion.                                          *)
LEMMA StartReads ==
    ASSUME Shape, Settled, NEW c \in Requests,
           StartBegin(c) \/ StartOpen(c) \/ StartCount(c) \/ StartSnapshot(c)
    PROVE  Shape' /\ Settled' /\ Final
  <1>r. ASSUME NEW r, Memory(r), r.pc \in {"open", "count", "snapshot", "insert"},
               req' = [req EXCEPT ![c] = r], UNCHANGED <<attempt, idem, shown>>
        PROVE  Shape' /\ Settled' /\ Final
    <2>1. Knows(r) /\ ~Holds(r)
      BY <1>r, OtherAttempts
    <2>2. UNCHANGED <<attempt, idem>> /\ \A n \in shown' : n \in shown
      BY <1>r
    <2> QED BY <1>r, <2>1, <2>2, ReadStep
  <1>m. Memory(req[c])
    BY DEF Shape
  <1>1. CASE StartBegin(c)
    <2> DEFINE r == [NoRequest EXCEPT !.pc = "open", !.n = 0]
    <2>1. Memory(r) /\ r.pc = "open"
      BY NoRequestIdle DEF Memory, ReqFields
    <2> QED BY <1>1, <1>r, <2>1 DEF StartBegin, Begin
  <1>2. CASE StartOpen(c)
    <2> DEFINE r == [req[c] EXCEPT !.pc = "count"]
    <2>1. Memory(r) /\ r.pc = "count"
      BY <1>m DEF Memory, ReqFields
    <2>2. Answer(c) \/ req' = [req EXCEPT ![c] = r]
      BY <1>2 DEF StartOpen, Goto
    <2> HIDE DEF r
    <2> QED BY <1>2, <1>r, <2>1, <2>2, AnswerStep DEF StartOpen
  <1>3. CASE StartCount(c)
    <2> DEFINE used == Cardinality(Taken)
               r == [req[c] EXCEPT !.pc = "snapshot", !.used = used]
    <2>1. Memory(r) /\ r.pc = "snapshot"
      <3> HIDE DEF used
      <3> QED BY <1>m DEF Memory, ReqFields
    <2>2. Answer(c) \/ req' = [req EXCEPT ![c] = r]
      BY <1>3 DEF StartCount
    <2> HIDE DEF r
    <2> QED BY <1>3, <1>r, <2>1, <2>2, AnswerStep DEF StartCount
  <1>4. CASE StartSnapshot(c)
    <2> DEFINE r == [req[c] EXCEPT !.pc = "insert", !.sheet = quizKey]
    <2>1. Memory(r) /\ r.pc = "insert"
      BY <1>m DEF Memory, ReqFields
    <2>2. req' = [req EXCEPT ![c] = r]
      BY <1>4 DEF StartSnapshot
    <2> HIDE DEF r
    <2> QED BY <1>4, <1>r, <2>1, <2>2 DEF StartSnapshot
  <1> QED BY <1>1, <1>2, <1>3, <1>4

(* Reading an attempt, and the first half of a save.                       *)
LEMMA ViewStep ==
    ASSUME Shape, Settled, NEW c \in Requests, View(c)
    PROVE  Shape' /\ Settled' /\ Final
  <1>1. ASSUME NEW n \in Numbers, ViewBegin(c, n) PROVE Shape' /\ Settled' /\ Final
    <2> DEFINE r == [NoRequest EXCEPT !.pc = "view", !.n = n]
    <2>1. Memory(r) /\ r.pc = "view" /\ r.n = n
      BY NoRequestIdle DEF Memory, ReqFields
    <2>2. Knows(r) /\ ~Holds(r)
      BY <1>1, <2>1 DEF Knows, KeyKnown, Holds, KeyedPcs, SubmitPcs, ViewBegin
    <2>3. req' = [req EXCEPT ![c] = r]
      BY <1>1 DEF ViewBegin, Begin
    <2> HIDE DEF r
    <2> QED BY <1>1, <2>1, <2>2, <2>3, ReadStep DEF ViewBegin
  <1>2. CASE ViewLoad(c)
    <2>1. CASE req[c].n \in Closed
      <3> DEFINE r == [req[c] EXCEPT !.pc = "respond"]
      <3>1. Memory(req[c])
        BY DEF Shape
      <3>2. Memory(r) /\ r.pc = "respond" /\ r.n = req[c].n
        BY <3>1 DEF Memory, ReqFields
      <3>3. Knows(r) /\ ~Holds(r)
        BY <2>1, <3>2 DEF Knows, KeyKnown, Closed, Holds, KeyedPcs, SubmitPcs
      <3>4. req' = [req EXCEPT ![c] = r]
        BY <1>2, <2>1 DEF ViewLoad, Goto
      <3> HIDE DEF r
      <3> QED BY <1>2, <3>2, <3>3, <3>4, ReadStep DEF ViewLoad
    <2>2. CASE req[c].n \notin Closed
      BY <1>2, <2>2, AnswerStep DEF ViewLoad
    <2> QED BY <2>1, <2>2
  <1>3. CASE ViewRespond(c)
    <2>1. req[c].n \in Closed
      BY <1>3 DEF ViewRespond, Settled, Knows
    <2>2. \A n \in shown' : n \in shown \/ Due(n)
      BY <1>3, <2>1 DEF ViewRespond, Showing, Due
    <2> QED BY <1>3, <2>2, AnswerStep DEF ViewRespond
  <1> QED BY <1>1, <1>2, <1>3 DEF View

LEMMA SaveReads ==
    ASSUME Shape, Settled, NEW c \in Requests,
           SaveLoad(c) \/ \E n \in Numbers, b \in Bodies : SaveBegin(c, n, b)
    PROVE  Shape' /\ Settled' /\ Final
  <1>1. ASSUME NEW n \in Numbers, NEW b \in Bodies, SaveBegin(c, n, b)
        PROVE  Shape' /\ Settled' /\ Final
    BY <1>1, BeginStep DEF SaveBegin
  <1>2. CASE SaveLoad(c)
    <2> DEFINE sheet == Merge(attempt[req[c].n].answers, req[c].body)
               r == [req[c] EXCEPT !.pc = "save", !.body = NoBody, !.sheet = sheet]
    <2>1. Memory(req[c]) /\ req[c].n \in Taken
      BY <1>2 DEF SaveLoad, Shape, Settled, Knows, OnRow, RequestPcs, StartPcs, SubmitPcs
    <2>2. Memory(r) /\ r.pc = "save" /\ r.n = req[c].n
      <3> HIDE DEF sheet
      <3> QED BY <2>1 DEF Memory, ReqFields
    <2>3. Knows(r) /\ ~Holds(r)
      BY <2>1, <2>2 DEF Knows, KeyKnown, Holds, KeyedPcs, SubmitPcs
    <2>4. Answer(c) \/ req' = [req EXCEPT ![c] = r]
      BY <1>2 DEF SaveLoad
    <2> HIDE DEF r
    <2> QED BY <1>2, <2>2, <2>3, <2>4, ReadStep, AnswerStep DEF SaveLoad
  <1> QED BY <1>1, <1>2

(* Submitting, the statements that only read.                              *)
LEMMA SubmitReads ==
    ASSUME Shape, Settled, NEW c \in Requests,
           \/ \E n \in Numbers, k \in ClientKeys \cup {NoKey}, b \in Bodies :
                  SubmitBegin(c, n, k, b)
           \/ Lookup(c) \/ SubmitLoad(c) \/ SubmitGrade(c)
           \/ SubmitReload(c) \/ SubmitEffects(c) \/ SubmitError(c)
    PROVE  Shape' /\ Settled' /\ Final
  <1>s. SubmitPcs \subseteq OnRow
    BY DEF SubmitPcs, OnRow, RequestPcs, StartPcs
  <1>n. req[c].pc \in OnRow => req[c].n \in Taken
    BY DEF Settled, Knows
  <1>m. Memory(req[c])
    BY DEF Shape
  <1>1. ASSUME NEW n \in Numbers, NEW k \in ClientKeys \cup {NoKey}, NEW b \in Bodies,
               SubmitBegin(c, n, k, b)
        PROVE  Shape' /\ Settled' /\ Final
    <2> DEFINE pc == IF k = NoKey THEN "load" ELSE "reserve"
               r == [NoRequest EXCEPT !.pc = pc, !.n = n, !.idemKey = k, !.body = b]
    <2>1. req' = [req EXCEPT ![c] = r] /\ n \in Taken /\ (k # NoKey => KeyAttempt[k] = n)
      BY <1>1 DEF SubmitBegin
    <2>2. Memory(r) /\ r.pc = pc /\ r.n = n /\ r.idemKey = k
      <3> HIDE DEF pc
      <3> QED BY NoRequestIdle DEF Memory, ReqFields
    <2>3. Knows(r) /\ ~Holds(r)
      <3> HIDE DEF r
      <3> QED BY <2>1, <2>2 DEF Knows, KeyKnown, Holds, KeyedPcs, SubmitPcs
    <2> HIDE DEF r, pc
    <2> QED BY <1>1, <2>1, <2>2, <2>3, ReadStep DEF SubmitBegin
  <1>2. CASE Lookup(c)
    BY <1>2, AnswerStep DEF Lookup
  <1>3. CASE SubmitLoad(c)
    <2> DEFINE row == attempt[req[c].n]
               sheet == Merge(row.answers, req[c].body)
               r == [req[c] EXCEPT !.pc = "grade", !.body = NoBody, !.sheet = sheet]
    <2>1. req[c].pc \in SubmitPcs /\ req[c].n \in Taken
      BY <1>3, <1>s, <1>n DEF SubmitLoad, SubmitPcs
    <2>2. CASE row.status # "in_progress"
      <3>1. req[c].n \in Closed
        BY <2>1, <2>2 DEF Closed, Open
      <3>2. Respond(c, Outcomes(req[c].n))
        BY <1>3, <2>2 DEF SubmitLoad, Outcomes
      <3> QED BY <1>3, <2>1, <3>1, <3>2, RespondStep DEF SubmitLoad
    <2>3. CASE Respond(c, Reply("refused"))
      <3>1. Reply("refused").kind # "result"
        BY DEF Reply, NoResponse
      <3> QED BY <1>3, <2>1, <2>3, <3>1, RespondStep DEF SubmitLoad
    <2>4. CASE req' = [req EXCEPT ![c] = r]
      <3>1. Memory(r) /\ r.pc = "grade" /\ r.n = req[c].n /\ r.idemKey = req[c].idemKey
        <4> HIDE DEF sheet
        <4> QED BY <1>m DEF Memory, ReqFields
      <3>2. Knows(r) /\ (Holds(r) => Holds(req[c]))
        <4> HIDE DEF r
        <4> QED BY <2>1, <3>1 DEF Settled, Knows, KeyKnown, Holds, KeyedPcs, SubmitPcs
      <3> HIDE DEF r
      <3> QED BY <1>3, <2>4, <3>1, <3>2, ReadStep DEF SubmitLoad
    <2> QED BY <1>3, <2>2, <2>3, <2>4 DEF SubmitLoad
  <1>4. CASE SubmitGrade(c)
    <2> DEFINE late == attempt[req[c].n].clock # "on_time"
               r == [req[c] EXCEPT !.pc = "close", !.late = late]
    <2>1. req[c].pc \in SubmitPcs /\ req[c].n \in Taken
      BY <1>4, <1>s, <1>n DEF SubmitGrade, SubmitPcs
    <2>2. Memory(r) /\ r.pc = "close" /\ r.n = req[c].n /\ r.idemKey = req[c].idemKey
      <3> HIDE DEF late
      <3> QED BY <1>m DEF Memory, ReqFields
    <2>3. Knows(r) /\ (Holds(r) => Holds(req[c]))
      <3> HIDE DEF r
      <3> QED BY <2>1, <2>2 DEF Settled, Knows, KeyKnown, Holds, KeyedPcs, SubmitPcs
    <2>4. req' = [req EXCEPT ![c] = r]
      BY <1>4 DEF SubmitGrade
    <2> HIDE DEF r
    <2> QED BY <1>4, <2>2, <2>3, <2>4, ReadStep DEF SubmitGrade
  <1>5. CASE SubmitReload(c)
    <2>1. req[c].pc \in SubmitPcs /\ req[c].n \in Closed
      BY <1>5 DEF SubmitReload, SubmitPcs, Settled, Knows
    <2>2. Respond(c, Outcomes(req[c].n)) /\ \A n \in shown' : n \in shown \/ Due(n)
      BY <1>5, <2>1 DEF SubmitReload, Outcomes, Showing, Due
    <2> QED BY <1>5, <2>1, <2>2, RespondStep DEF SubmitReload
  <1>6. CASE SubmitEffects(c)
    <2>1. req[c].pc \in SubmitPcs /\ req[c].n \in Closed /\ req[c].reply = Outcomes(req[c].n)
      BY <1>6 DEF SubmitEffects, SubmitPcs, Settled, Knows
    <2>2. CASE Respond(c, req[c].reply) /\ Showing(req[c].n, req[c].reply.passed)
      <3>1. req[c].reply.passed = attempt[req[c].n].passed
        BY <2>1 DEF Outcomes, Result
      <3>2. \A n \in shown' : n \in shown \/ Due(n)
        BY <2>1, <2>2, <3>1 DEF Showing, Due
      <3> QED BY <1>6, <2>1, <2>2, <3>2, RespondStep DEF SubmitEffects
    <2>3. CASE Respond(c, Reply("error")) /\ UNCHANGED shown
      <3>1. Reply("error").kind # "result"
        BY DEF Reply, NoResponse
      <3> QED BY <1>6, <2>1, <2>3, <3>1, RespondStep DEF SubmitEffects
    <2> QED BY <1>6, <2>2, <2>3 DEF SubmitEffects
  <1>7. CASE SubmitError(c)
    <2>1. Reply("error").kind # "result"
      BY DEF Reply, NoResponse
    <2> QED BY <1>7, <2>1, RespondStep DEF SubmitError
  <1> QED BY <1>1, <1>2, <1>3, <1>4, <1>5, <1>6, <1>7

-----------------------------------------------------------------------------
(* A step that writes the attempts.                                        *)
Rows == /\ attempt = [n \in Numbers |-> attempt[n]]
        /\ \A n \in Numbers : attempt[n] = [x \in RowFields |-> attempt[n][x]]
Memories == /\ req = [d \in Requests |-> req[d]]
            /\ \A d \in Requests : Memory(req[d]) /\ Knows(req[d])
            /\ KeysHeld

LEMMA AttemptStep ==
    ASSUME Shape, Settled, Final, Rows', Memories', GradedAsSeen', UNCHANGED <<idem, shown>>
    PROVE  Shape' /\ Settled' /\ Final
  <1>1. Shape'
    BY DEF Shape, Rows, Memories
  <1>2. \A n \in Numbers : n \in Closed => n \in Closed' /\ Outcomes(n)' = Outcomes(n)
    BY DEF Final, Outcomes
  <1>3. ReplayAgrees'
    BY <1>2, QuizAssumption DEF Settled, ReplayAgrees, Outcomes
  <1>4. \A n \in shown : n \in Numbers
    BY DEF Settled, FeedbackIsDue, Closed, Taken
  <1>5. FeedbackIsDue'
    BY <1>4 DEF Settled, FeedbackIsDue, Final
  <1> QED BY <1>1, <1>3, <1>5 DEF Settled, Memories

(* The requests after it, when it changes none or ends one.                *)
LEMMA SameMemories ==
    ASSUME Shape, Settled, Final, UNCHANGED <<idem, req>>
    PROVE  Memories'
  <1>1. \A d \in Requests : Knows(req[d])'
    <2>1. ASSUME NEW d \in Requests PROVE Knows(req[d])'
      <3>1. Knows(req[d])
        BY DEF Settled
      <3>2. \A n : n \in Taken => n \in Taken'
        BY DEF Final, Taken
      <3>3. \A n : n \in Closed => n \in Closed' /\ Outcomes(n)' = Outcomes(n)
        BY DEF Final, Closed, Taken, Outcomes
      <3> QED BY <3>1, <3>2, <3>3 DEF Knows
    <2> QED BY <2>1
  <1> QED BY <1>1 DEF Shape, Memories, Settled, KeysHeld, Holds

LEMMA AnswerMemories ==
    ASSUME Shape, Settled, Final, NEW c \in Requests, Answer(c), UNCHANGED idem
    PROVE  Memories'
  <1>1. /\ req' = [d \in Requests |-> req'[d]] /\ req'[c] = NoRequest
        /\ \A d \in Requests \ {c} : req'[d] = req[d]
    BY DEF Answer, Shape
  <1>2. \A n : n \in Taken => n \in Taken'
    BY DEF Final, Taken
  <1>3. \A n : n \in Closed => n \in Closed' /\ Outcomes(n)' = Outcomes(n)
    BY DEF Final, Closed, Taken, Outcomes
  <1>4. ASSUME NEW d \in Requests PROVE Knows(req[d])'
    <2>1. CASE d = c
      BY <1>1, <2>1, NoRequestIdle DEF Knows, OnRow
    <2>2. CASE d # c
      BY <1>1, <1>2, <1>3, <2>2 DEF Settled, Knows
    <2> QED BY <2>1, <2>2
  <1>5. KeysHeld'
    BY <1>1, NoRequestIdle DEF Settled, KeysHeld, Holds, KeyedPcs, SubmitPcs
  <1> QED BY <1>1, <1>4, <1>5, NoRequestIdle DEF Memories, Shape

LEMMA InsertStep ==
    ASSUME Shape, Settled, NEW c \in Requests, StartInsert(c)
    PROVE  Shape' /\ Settled' /\ Final
  <1> DEFINE n == req[c].used + 1
             row == [NoRow EXCEPT !.status = "in_progress", !.key = req[c].sheet]
  <1>1. CASE n \in Taken
    BY <1>1, AnswerStep DEF StartInsert
  <1>2. CASE n \notin Taken
    <2>1. row.status = "in_progress" /\ row = [x \in RowFields |-> row[x]]
      BY DEF NoRow, RowFields
    <2>2. attempt' = [attempt EXCEPT ![n] = row] /\ n \in Numbers
      BY <1>2 DEF StartInsert
    <2> HIDE DEF row, n
    <2>3. attempt'[n] = row /\ \A m \in Numbers \ {n} : attempt'[m] = attempt[m]
      BY <2>2 DEF Shape
    <2>4. Rows'
      BY <2>1, <2>2, <2>3 DEF Shape, Rows
    <2>5. Final
      BY <1>2, <2>1, <2>2, <2>3 DEF Final, Taken, Closed, Open
    <2>6. GradedAsSeen'
      BY <2>1, <2>3 DEF Settled, GradedAsSeen
    <2>7. Answer(c) /\ UNCHANGED <<idem, shown>>
      BY DEF StartInsert
    <2> QED BY <2>4, <2>5, <2>6, <2>7, AnswerMemories, AttemptStep
  <1> QED BY <1>1, <1>2

LEMMA SaveStep ==
    ASSUME Shape, Settled, NEW c \in Requests, SaveUpdate(c)
    PROVE  Shape' /\ Settled' /\ Final
  <1> DEFINE n == req[c].n
  <1>1. CASE n \notin Open
    BY <1>1, AnswerStep DEF SaveUpdate
  <1>2. CASE n \in Open
    <2>1. n \in Numbers /\ attempt[n].status = "in_progress"
      BY <1>2 DEF Open
    <2>2. attempt[n] = [x \in RowFields |-> attempt[n][x]]
      BY <2>1 DEF Shape
    <2>3. attempt' = [attempt EXCEPT ![n] = [attempt[n] EXCEPT !.answers = req[c].sheet]]
      BY <1>2 DEF SaveUpdate
    <2> HIDE DEF n
    <2>4. /\ attempt'[n] = [attempt[n] EXCEPT !.answers = req[c].sheet]
          /\ \A m \in Numbers \ {n} : attempt'[m] = attempt[m]
      BY <2>1, <2>3 DEF Shape
    <2>5. attempt'[n].status = "in_progress" /\ attempt'[n] = [x \in RowFields |-> attempt'[n][x]]
      BY <2>1, <2>2, <2>4 DEF RowFields
    <2>6. Rows'
      BY <2>3, <2>4, <2>5 DEF Shape, Rows
    <2>7. Final
      BY <2>1, <2>4, <2>5 DEF Final, Taken, Closed, Open
    <2>8. GradedAsSeen'
      BY <2>4, <2>5 DEF Settled, GradedAsSeen
    <2>9. Answer(c) /\ UNCHANGED <<idem, shown>>
      BY DEF SaveUpdate
    <2> QED BY <2>6, <2>7, <2>8, <2>9, AnswerMemories, AttemptStep
  <1> QED BY <1>1, <1>2

(* Time and the maintenance job, which write open attempts only.           *)
LEMMA TickStep ==
    ASSUME Shape, Settled, NEW n \in Numbers, Tick(n)
    PROVE  Shape' /\ Settled' /\ Final
  <1> DEFINE clock == IF attempt[n].clock = "on_time" THEN "late" ELSE "overdue"
  <1>1. attempt[n].status = "in_progress" /\ attempt[n] = [x \in RowFields |-> attempt[n][x]]
    BY DEF Tick, Open, Shape
  <1>2. attempt' = [attempt EXCEPT ![n] = [attempt[n] EXCEPT !.clock = clock]]
    BY DEF Tick
  <1> HIDE DEF clock
  <1>3. /\ attempt'[n] = [attempt[n] EXCEPT !.clock = clock]
        /\ \A m \in Numbers \ {n} : attempt'[m] = attempt[m]
    BY <1>2 DEF Shape
  <1>4. attempt'[n].status = "in_progress" /\ attempt'[n] = [x \in RowFields |-> attempt'[n][x]]
    BY <1>1, <1>3 DEF RowFields
  <1>5. Rows'
    BY <1>2, <1>3, <1>4 DEF Shape, Rows
  <1>6. Final
    BY <1>1, <1>3, <1>4 DEF Final, Taken, Closed, Open
  <1>7. GradedAsSeen'
    BY <1>3, <1>4 DEF Settled, GradedAsSeen
  <1>8. UNCHANGED <<idem, shown, req>>
    BY DEF Tick
  <1> QED BY <1>5, <1>6, <1>7, <1>8, SameMemories, AttemptStep

LEMMA ReapStep ==
    ASSUME Shape, Settled, ReapExpired
    PROVE  Shape' /\ Settled' /\ Final
  <1> DEFINE due == {n \in Open : attempt[n].clock = "overdue"}
  <1>1. ASSUME NEW n \in Numbers
        PROVE  attempt'[n] = IF n \in due
                 THEN [attempt[n] EXCEPT !.status = "expired", !.earned = 0, !.passed = FALSE]
                 ELSE attempt[n]
    BY DEF ReapExpired
  <1>2. ASSUME NEW n \in Numbers, n \in due
        PROVE  /\ attempt[n].status = "in_progress"
               /\ attempt'[n].status = "expired"
               /\ attempt'[n] = [x \in RowFields |-> attempt'[n][x]]
    <2>1. attempt[n].status = "in_progress" /\ attempt[n] = [x \in RowFields |-> attempt[n][x]]
      BY <1>2 DEF Open, Shape
    <2>2. attempt'[n] = [attempt[n] EXCEPT !.status = "expired", !.earned = 0, !.passed = FALSE]
      BY <1>1, <1>2
    <2> QED BY <2>1, <2>2 DEF RowFields
  <1> HIDE DEF due
  <1>3. Rows'
    <2>1. attempt' = [n \in Numbers |-> attempt'[n]]
      BY DEF ReapExpired
    <2>2. ASSUME NEW n \in Numbers, n \notin due
          PROVE  attempt'[n] = [x \in RowFields |-> attempt'[n][x]]
      <3>1. attempt'[n] = attempt[n]
        BY <1>1, <2>2
      <3> QED BY <3>1 DEF Shape
    <2> QED BY <1>2, <2>1, <2>2 DEF Rows
  <1>4. Final
    BY <1>1, <1>2 DEF Final, Taken, Closed, Open
  <1>5. GradedAsSeen'
    BY <1>1, <1>2 DEF Settled, GradedAsSeen
  <1>6. UNCHANGED <<idem, shown, req>>
    BY DEF ReapExpired
  <1> QED BY <1>3, <1>4, <1>5, <1>6, SameMemories, AttemptStep

(* The closing: what the request answers is what it wrote.                 *)
LEMMA CloseStep ==
    ASSUME Shape, Settled, NEW c \in Requests, SubmitClose(c)
    PROVE  Shape' /\ Settled' /\ Final
  <1> DEFINE n == req[c].n
             out == Outcome(c)
             row == [attempt[n] EXCEPT !.status = out.status, !.answers = req[c].sheet,
                                       !.earned = out.earned, !.passed = out.passed]
  <1>m. Memory(req[c]) /\ n \in Taken /\ n \in Numbers
    BY DEF Shape, SubmitClose, Settled, Knows, OnRow, RequestPcs, StartPcs, SubmitPcs, Taken
  <1>1. CASE n \notin Open
    <2> DEFINE r == [req[c] EXCEPT !.pc = "reload"]
    <2>1. Memory(r) /\ r.pc = "reload" /\ r.n = n /\ r.idemKey = req[c].idemKey
      BY <1>m DEF Memory, ReqFields
    <2>2. Knows(r) /\ (Holds(r) => Holds(req[c]))
      <3> HIDE DEF r
      <3> QED BY <1>1, <1>m, <2>1
                 DEF Settled, Knows, KeyKnown, Closed, Holds, KeyedPcs, SubmitPcs, SubmitClose
    <2>3. req' = [req EXCEPT ![c] = r] /\ UNCHANGED <<attempt, idem, shown>>
      BY <1>1 DEF SubmitClose, Goto
    <2> HIDE DEF r
    <2> QED BY <2>1, <2>2, <2>3, ReadStep
  <1>2. CASE n \in Open
    <2> DEFINE r == [req[c] EXCEPT !.pc = "effects", !.sheet = Unanswered,
                                   !.late = FALSE, !.reply = out]
    <2>1. attempt[n] = [x \in RowFields |-> attempt[n][x]] /\ attempt[n].status = "in_progress"
      BY <1>2 DEF Shape, Open
    <2>2. /\ attempt' = [attempt EXCEPT ![n] = row] /\ req' = [req EXCEPT ![c] = r]
          /\ UNCHANGED <<idem, shown>>
      BY <1>2 DEF SubmitClose
    <2>3. /\ out = Result(out.status, out.earned, out.passed)
          /\ out.status \in {"submitted", "expired"}
          /\ out.earned = Earned(attempt[n].key, req[c].sheet)
          /\ out.passed = Passes(out.earned)
      BY DEF Outcome, Result
    <2>4. /\ row = [x \in RowFields |-> row[x]]
          /\ row.status = out.status /\ row.answers = req[c].sheet /\ row.key = attempt[n].key
          /\ row.earned = out.earned /\ row.passed = out.passed
      <3> HIDE DEF out, n
      <3> QED BY <2>1 DEF RowFields
    <2>5. /\ Memory(r) /\ r.pc = "effects" /\ r.n = n /\ r.reply = out
          /\ r.idemKey = req[c].idemKey
      <3> HIDE DEF out, n
      <3>1. n = req[c].n
        BY DEF n
      <3> QED BY <1>m, <3>1 DEF Memory, ReqFields
    <2>k. req[c].pc = "close"
      BY DEF SubmitClose
    <2>n. req[c].n = n
      OBVIOUS
    <2> HIDE DEF out, row, r, n
    <2>6. attempt'[n] = row /\ \A m \in Numbers \ {n} : attempt'[m] = attempt[m]
      BY <1>m, <2>2 DEF Shape
    <2>7. Rows'
      <3>1. attempt' = [m \in Numbers |-> attempt'[m]]
        BY <2>2 DEF Shape
      <3> QED BY <2>4, <2>6, <3>1 DEF Shape, Rows
    <2>8. Final
      BY <2>1, <2>3, <2>4, <2>6 DEF Final, Taken, Closed, Open
    <2>9. GradedAsSeen'
      BY <2>3, <2>4, <2>6 DEF Settled, GradedAsSeen
    <2>10. /\ req' = [d \in Requests |-> req'[d]] /\ req'[c] = r
           /\ \A d \in Requests \ {c} : req'[d] = req[d]
      BY <2>2 DEF Shape
    <2>11. ASSUME NEW m, m = n
           PROVE  m \in Taken' /\ m \in Closed' /\ Outcomes(m)' = out
      <3>1. m \in Numbers /\ attempt'[m] = row
        BY <1>m, <2>6, <2>11
      <3>2. m \in Taken' /\ m \in Closed'
        BY <2>3, <2>4, <3>1 DEF Closed, Taken, Open
      <3>3. Outcomes(m)' = Result(row.status, row.earned, row.passed)
        BY <3>1 DEF Outcomes
      <3> QED BY <2>3, <2>4, <3>2, <3>3
    <2>12. ASSUME NEW d \in Requests PROVE Knows(req[d])'
      <3>1. CASE d = c
        <4>1. /\ req'[d].pc = "effects" /\ req'[d].n = n /\ req'[d].reply = out
              /\ req'[d].idemKey = req[c].idemKey
          BY <2>5, <2>10, <3>1
        <4>2. KeyKnown(req'[d])
          BY <2>k, <2>n, <4>1 DEF Settled, Knows, KeyKnown, KeyedPcs, SubmitPcs
        <4> QED BY <2>11, <4>1, <4>2 DEF Knows, KeyKnown
      <3>2. CASE d # c
        <4>1. \A m : m \in Taken => m \in Taken'
          BY <2>8 DEF Final, Taken
        <4>2. \A m : m \in Closed => m \in Closed' /\ Outcomes(m)' = Outcomes(m)
          BY <2>8 DEF Final, Closed, Taken, Outcomes
        <4> QED BY <2>10, <3>2, <4>1, <4>2 DEF Settled, Knows
      <3> QED BY <3>1, <3>2
    <2>13. KeysHeld'
      <3>1. \A d \in Requests : Holds(req'[d]) => Holds(req[d]) /\ req'[d].idemKey = req[d].idemKey
        BY <2>5, <2>10, <2>k, <2>n DEF Holds, KeyedPcs, SubmitPcs
      <3> QED BY <2>2, <3>1 DEF Settled, KeysHeld, Holds
    <2>14. Memories'
      BY <2>5, <2>10, <2>12, <2>13 DEF Memories, Shape
    <2> QED BY <2>2, <2>7, <2>8, <2>9, <2>14, AttemptStep
  <1> QED BY <1>1, <1>2

-----------------------------------------------------------------------------
(* A step that writes a key.                                               *)
LEMMA KeyStep ==
    ASSUME Shape, Settled, UNCHANGED <<attempt, shown>>,
           idem' = [k \in ClientKeys |-> idem'[k]],
           Memories', ReplayAgrees'
    PROVE  Shape' /\ Settled' /\ Final
  <1>1. Shape' /\ Final
    BY SameFinal DEF Shape, Memories
  <1>2. GradedAsSeen' /\ FeedbackIsDue'
    BY DEF Settled, GradedAsSeen, FeedbackIsDue, Closed, Taken, Open
  <1> QED BY <1>1, <1>2 DEF Settled, Memories

LEMMA ReserveStep ==
    ASSUME Shape, Settled, NEW c \in Requests, Reserve(c)
    PROVE  Shape' /\ Settled' /\ Final
  <1> DEFINE k == req[c].idemKey
             r(pc) == [req[c] EXCEPT !.pc = pc]
  <1>1. /\ Memory(req[c]) /\ req[c].n \in Taken
        /\ k # NoKey /\ k \in ClientKeys /\ KeyAttempt[k] = req[c].n
    BY DEF Shape, Reserve, Settled, Knows, KeyKnown, OnRow, RequestPcs, StartPcs, SubmitPcs
  <1>2. ASSUME NEW pc
        PROVE  Memory(r(pc)) /\ r(pc).pc = pc /\ r(pc).n = req[c].n /\ r(pc).idemKey = k
    BY <1>1 DEF Memory, ReqFields
  <1>3. CASE Goto(c, "lookup") /\ UNCHANGED idem
    <2>1. req' = [req EXCEPT ![c] = r("lookup")]
      BY <1>3 DEF Goto
    <2>2. Knows(r("lookup")) /\ ~Holds(r("lookup"))
      BY <1>1, <1>2 DEF Knows, KeyKnown, Holds, KeyedPcs, SubmitPcs
    <2>3. Memory(r("lookup"))
      BY <1>2
    <2> HIDE DEF r
    <2> QED BY <1>3, <2>1, <2>2, <2>3, ReadStep DEF Reserve
  <1>4. CASE /\ idem[k].st = "free" /\ Goto(c, "load")
             /\ idem' = [idem EXCEPT ![k] = [FreeKey EXCEPT !.st = "processing"]]
    <2>1. req' = [req EXCEPT ![c] = r("load")]
      BY <1>4 DEF Goto
    <2>2. /\ Memory(r("load")) /\ r("load").pc = "load"
          /\ r("load").n = req[c].n /\ r("load").idemKey = k
      BY <1>2
    <2>k. k = req[c].idemKey
      OBVIOUS
    <2> HIDE DEF r, k
    <2>3. /\ req' = [d \in Requests |-> req'[d]] /\ req'[c] = r("load")
          /\ \A d \in Requests \ {c} : req'[d] = req[d]
      BY <2>1 DEF Shape
    <2>4. /\ [FreeKey EXCEPT !.st = "processing"].st = "processing"
          /\ [FreeKey EXCEPT !.st = "processing"].reply.kind = "none"
      BY DEF FreeKey, NoResponse
    <2>5. /\ idem' = [j \in ClientKeys |-> idem'[j]]
          /\ idem'[k].st = "processing" /\ idem'[k].reply.kind = "none"
          /\ \A j \in ClientKeys \ {k} : idem'[j] = idem[j]
      BY <1>1, <1>4, <2>4 DEF Shape
    <2>6. UNCHANGED <<attempt, shown>>
      BY DEF Reserve
    <2>7. \A d \in Requests : Knows(req'[d])
      BY <1>1, <2>2, <2>3 DEF Settled, Knows, KeyKnown
    <2>8. \A d \in Requests : Knows(req[d])'
      BY <2>6, <2>7 DEF Knows, KeyKnown, Taken, Closed, Open, Outcomes
    <2>9. \A d \in Requests \ {c} :
             Holds(req[d]) => req[d].idemKey # k /\ req[d].idemKey \in ClientKeys
      BY <1>4 DEF Settled, KeysHeld, Knows, KeyKnown, Holds
    <2>10. KeysHeld'
      BY <2>2, <2>3, <2>5, <2>9 DEF Settled, KeysHeld, Holds
    <2>11. ReplayAgrees'
      BY <2>5, <2>6 DEF Settled, ReplayAgrees, Closed, Taken, Open
    <2>12. Memories'
      BY <2>2, <2>3, <2>8, <2>10 DEF Memories, Shape
    <2> QED BY <2>5, <2>6, <2>11, <2>12, KeyStep
  <1> QED BY <1>3, <1>4 DEF Reserve

LEMMA StoreStep ==
    ASSUME Shape, Settled, NEW c \in Requests, Store(c)
    PROVE  Shape' /\ Settled' /\ Final
  <1> DEFINE n == req[c].n
             k == req[c].idemKey
             stored == IF req[c].reply.kind = "error" THEN FreeKey
                       ELSE [st |-> "stored", reply |-> req[c].reply]
  <1>1. Holds(req[c]) /\ k \in ClientKeys /\ KeyAttempt[k] = n
    BY DEF Store, Settled, Knows, KeyKnown, Holds, KeyedPcs
  <1>2. stored.reply.kind = "result" => n \in Closed /\ stored.reply = Outcomes(n)
    BY DEF Store, Settled, Knows, FreeKey, NoResponse
  <1>3. idem' = [idem EXCEPT ![k] = stored] /\ UNCHANGED <<attempt, shown>> /\ Answer(c)
    BY DEF Store
  <1>n. req[c].idemKey = k
    OBVIOUS
  <1> HIDE DEF stored, n, k
  <1>4. /\ idem' = [j \in ClientKeys |-> idem'[j]] /\ idem'[k] = stored
        /\ \A j \in ClientKeys \ {k} : idem'[j] = idem[j]
    BY <1>1, <1>3 DEF Shape
  <1>5. /\ req' = [d \in Requests |-> req'[d]] /\ req'[c] = NoRequest
        /\ \A d \in Requests \ {c} : req'[d] = req[d]
    BY <1>3 DEF Answer, Shape
  <1>6. \A d \in Requests : Knows(req'[d])
    BY <1>5, NoRequestIdle DEF Settled
  <1>7. \A d \in Requests : Knows(req[d])'
    BY <1>3, <1>6 DEF Knows, KeyKnown, Taken, Closed, Open, Outcomes
  <1>8. \A d \in Requests \ {c} :
           Holds(req[d]) => req[d].idemKey # k /\ req[d].idemKey \in ClientKeys
    BY <1>1, <1>n DEF Settled, KeysHeld, Knows, KeyKnown, Holds
  <1>9. KeysHeld'
    BY <1>4, <1>5, <1>8, NoRequestIdle DEF Settled, KeysHeld, Holds, KeyedPcs, SubmitPcs
  <1>10. ReplayAgrees'
    <2>1. ASSUME NEW j \in ClientKeys, idem'[j].reply.kind = "result"
          PROVE  KeyAttempt[j] \in Closed /\ idem'[j].reply = Outcomes(KeyAttempt[j])
      BY <1>1, <1>2, <1>4, <2>1 DEF Settled, ReplayAgrees, Outcomes
    <2> QED BY <1>3, <2>1 DEF ReplayAgrees, Outcomes, Closed, Taken, Open
  <1>11. Memories'
    BY <1>5, <1>7, <1>9, NoRequestIdle DEF Memories, Shape
  <1> QED BY <1>3, <1>4, <1>10, <1>11, KeyStep

LEMMA ExpiryStep ==
    ASSUME Shape, Settled, NEW k \in ClientKeys, KeyExpires(k)
    PROVE  Shape' /\ Settled' /\ Final
  <1>1. UNCHANGED <<attempt, shown, req>> /\ FreeKey.reply.kind = "none"
    BY DEF KeyExpires, FreeKey, NoResponse
  <1>2. /\ idem' = [j \in ClientKeys |-> idem'[j]] /\ idem'[k] = FreeKey
        /\ \A j \in ClientKeys \ {k} : idem'[j] = idem[j]
    BY DEF KeyExpires, Shape
  <1>3. \A d \in Requests :
           Holds(req[d]) => req[d].idemKey # k /\ req[d].idemKey \in ClientKeys
    BY DEF KeyExpires, Settled, Knows, KeyKnown, Holds
  <1>4. KeysHeld'
    BY <1>1, <1>2, <1>3 DEF Settled, KeysHeld, Holds
  <1>5. \A d \in Requests : Knows(req[d])'
    BY <1>1 DEF Settled, Knows, KeyKnown, Taken, Closed, Open, Outcomes
  <1>6. ReplayAgrees'
    BY <1>1, <1>2 DEF Settled, ReplayAgrees, Closed, Taken, Open
  <1>7. Memories'
    BY <1>1, <1>4, <1>5 DEF Memories, Shape
  <1> QED BY <1>1, <1>2, <1>6, <1>7, KeyStep

-----------------------------------------------------------------------------
LEMMA AttemptsNext ==
    ASSUME Shape, Settled, [Next]_vars
    PROVE  Shape' /\ Settled' /\ Final
  <1>1. ASSUME NEW c \in Requests, Start(c) PROVE Shape' /\ Settled' /\ Final
    BY <1>1, StartReads, InsertStep DEF Start
  <1>2. ASSUME NEW c \in Requests, View(c) PROVE Shape' /\ Settled' /\ Final
    BY <1>2, ViewStep
  <1>3. ASSUME NEW c \in Requests, Save(c) PROVE Shape' /\ Settled' /\ Final
    BY <1>3, SaveReads, SaveStep DEF Save
  <1>4. ASSUME NEW c \in Requests, Submit(c) PROVE Shape' /\ Settled' /\ Final
    BY <1>4, SubmitReads, ReserveStep, CloseStep, StoreStep DEF Submit
  <1>5. ASSUME NEW c \in Requests, Disconnect(c) PROVE Shape' /\ Settled' /\ Final
    BY <1>5, AnswerStep DEF Disconnect
  <1>6. ASSUME \/ \E n \in Numbers : Tick(n)
               \/ \E k \in ClientKeys : KeyExpires(k)
        PROVE  Shape' /\ Settled' /\ Final
    BY <1>6, TickStep, ExpiryStep
  <1>7. CASE UNCHANGED <<attempt, idem, req, shown>>
    <2>1. Final
      BY <1>7, SameFinal
    <2>2. Memories'
      BY <1>7, <2>1, SameMemories
    <2>3. Rows' /\ GradedAsSeen'
      BY <1>7 DEF Shape, Rows, Settled, GradedAsSeen
    <2> QED BY <1>7, <2>1, <2>2, <2>3, AttemptStep
  <1>8. CASE EditQuiz
    BY <1>7, <1>8 DEF EditQuiz
  <1>9. CASE UNCHANGED vars
    BY <1>7, <1>9 DEF vars
  <1> QED BY <1>1, <1>2, <1>3, <1>4, <1>5, <1>6, <1>8, <1>9, ReapStep DEF Next

THEOREM AttemptsSettled == Spec => [](Shape /\ Settled)
  BY InitSettled, AttemptsNext, PTL DEF Spec

(* Whatever submissions, saves and expiries race, an attempt that is       *)
(* closed is never written again.                                          *)
THEOREM ClosedStays == Spec => ClosedIsFinal
  <1>1. Final => \A n \in Numbers : n \in Closed => attempt'[n] = attempt[n]
    BY DEF Final
  <1>2. Shape /\ Settled /\ [Next]_vars =>
            [\A n \in Numbers : n \in Closed => attempt'[n] = attempt[n]]_vars
    BY <1>1, AttemptsNext
  <1> QED BY <1>2, AttemptsSettled, PTL DEF Spec, ClosedIsFinal

(* A submitted attempt's score is that of the answers in its row, against  *)
(* the exam taken when it was started.                                     *)
THEOREM GradesHold == Spec => []GradedAsSeen
  <1>1. Settled => GradedAsSeen
    BY DEF Settled
  <1> QED BY <1>1, AttemptsSettled, PTL

(* While a submission that reserved its key runs, none other with that key *)
(* does.                                                                   *)
OneRunPerKey ==
    \A c, d \in Requests :
        /\ req[c].idemKey = req[d].idemKey /\ req[c].idemKey # NoKey
        /\ {req[c].pc, req[d].pc} \subseteq KeyedPcs
        => c = d

(* No two submissions run under one key, although requests are dropped and *)
(* keys expire.                                                            *)
THEOREM KeysExclude == Spec => []OneRunPerKey
  <1>1. Settled => OneRunPerKey
    BY DEF Settled, KeysHeld, Holds, OneRunPerKey
  <1> QED BY <1>1, AttemptsSettled, PTL

(* A retry under a stored key is answered what the attempt's row says.     *)
THEOREM ReplaysAgree == Spec => []ReplayAgrees
  <1>1. Settled => ReplayAgrees
    BY DEF Settled
  <1> QED BY <1>1, AttemptsSettled, PTL

(* Feedback reaches the student only after the attempt is closed and when  *)
(* the quiz's policy allows it.                                            *)
THEOREM FeedbackWaits == Spec => []FeedbackIsDue
  <1>1. Settled => FeedbackIsDue
    BY DEF Settled
  <1> QED BY <1>1, AttemptsSettled, PTL

-----------------------------------------------------------------------------
(* Starts: the numbers taken are the first k, and a start that has counted *)
(* saw no more than were taken, and fewer than the limit.  Whichever       *)
(* number it goes for is then taken, or the next one.                      *)
Counting == {"snapshot", "insert"}
CountedUpTo(k) ==
    /\ Taken = 1 .. k
    /\ MaxAttempts > 0 => k <= MaxAttempts
    /\ \A c \in Requests : req[c].pc \in Counting =>
          /\ req[c].used \in 0 .. k
          /\ MaxAttempts > 0 => req[c].used < MaxAttempts
Counted == \E k \in Nat : CountedUpTo(k)

LEMMA TakenCount == ASSUME NEW k \in Nat, CountedUpTo(k) PROVE Cardinality(Taken) = k
  <1>1. Cardinality(1 .. k) = IF 1 > k THEN 0 ELSE k - 1 + 1
    BY FS_Interval
  <1> QED BY <1>1 DEF CountedUpTo

(* Steps that take no number and count none.                               *)
LEMMA CountFrame ==
    ASSUME Counted, Taken' = Taken,
           \A d \in Requests : req'[d].pc \in Counting =>
               req[d].pc \in Counting /\ req'[d].used = req[d].used
    PROVE  Counted'
  <1> PICK k \in Nat : CountedUpTo(k)
    BY DEF Counted
  <1>1. CountedUpTo(k)'
    BY DEF CountedUpTo
  <1> QED BY <1>1 DEF Counted

Elsewhere(c) ==
    /\ req'[c].pc \notin Counting
    /\ \A d \in Requests \ {c} : req'[d] = req[d]

LEMMA ElsewhereCounted ==
    ASSUME Counted, Taken' = Taken, NEW c \in Requests, Elsewhere(c)
    PROVE  Counted'
  BY CountFrame DEF Elsewhere

LEMMA EndsElsewhere ==
    ASSUME Shape, NEW c \in Requests
    PROVE  /\ Answer(c) => Elsewhere(c)
           /\ \A reply : Respond(c, reply) => Elsewhere(c)
           /\ \A pc : pc \notin Counting /\ Goto(c, pc) => Elsewhere(c)
  <1>1. Answer(c) => Elsewhere(c)
    BY NoRequestIdle DEF Shape, Answer, Elsewhere, Counting
  <1>2. ASSUME NEW reply, Respond(c, reply) PROVE Elsewhere(c)
    <2>1. CASE req[c].idemKey = NoKey
      BY <1>1, <1>2, <2>1 DEF Respond
    <2>2. CASE req[c].idemKey # NoKey
      <3> DEFINE m == req[c].n
                 k == req[c].idemKey
                 r == [NoRequest EXCEPT !.pc = "store", !.n = m, !.idemKey = k,
                                        !.reply = reply]
      <3>1. req' = [req EXCEPT ![c] = r]
        BY <1>2, <2>2 DEF Respond
      <3>2. r.pc = "store"
        <4> HIDE DEF m, k
        <4> QED BY NoRequestIdle DEF Memory, ReqFields
      <3> HIDE DEF r
      <3> QED BY <3>1, <3>2 DEF Shape, Elsewhere, Counting
    <2> QED BY <2>1, <2>2
  <1>3. ASSUME NEW pc, pc \notin Counting, Goto(c, pc) PROVE Elsewhere(c)
    <2> DEFINE r == [req[c] EXCEPT !.pc = pc]
    <2>1. req' = [req EXCEPT ![c] = r]
      BY <1>3 DEF Goto
    <2>2. r.pc = pc
      BY DEF Shape, Memory, ReqFields
    <2> HIDE DEF r
    <2> QED BY <1>3, <2>1, <2>2 DEF Shape, Elsewhere
  <1> QED BY <1>1, <1>2, <1>3

(* A request begins, or goes on with something else than a start.          *)
LEMMA BeginElsewhere ==
    ASSUME Shape, NEW c \in Requests, NEW n, NEW body,
           req' = [req EXCEPT ![c] = [NoRequest EXCEPT !.pc = "loadSave", !.n = n,
                                                       !.body = body]]
    PROVE  Elsewhere(c)
  <1> DEFINE r == [NoRequest EXCEPT !.pc = "loadSave", !.n = n, !.body = body]
  <1>1. r.pc = "loadSave"
    BY NoRequestIdle DEF Memory, ReqFields
  <1> HIDE DEF r
  <1> QED BY <1>1 DEF r, Shape, Elsewhere, Counting

(* The statements that neither write an attempt nor count them.            *)
OnlyReads(c) ==
    \/ StartBegin(c) \/ StartOpen(c) \/ View(c) \/ Disconnect(c)
    \/ Save(c) /\ ~SaveUpdate(c)
    \/ Submit(c) /\ ~SubmitClose(c)

LEMMA ReadsElsewhere ==
    ASSUME Shape, NEW c \in Requests, OnlyReads(c)
    PROVE  Elsewhere(c) /\ UNCHANGED attempt
  <1> USE EndsElsewhere DEF Counting
  <1>m. Memory(req[c])
    BY DEF Shape
  <1>r. ASSUME NEW r, r.pc \notin Counting, req' = [req EXCEPT ![c] = r] PROVE Elsewhere(c)
    BY <1>r DEF Shape, Elsewhere
  <1>b. ASSUME NEW pc \in {"open", "view"}, NEW n,
               req' = [req EXCEPT ![c] = [NoRequest EXCEPT !.pc = pc, !.n = n]]
        PROVE  Elsewhere(c)
    <2> DEFINE r == [NoRequest EXCEPT !.pc = pc, !.n = n]
    <2>1. r.pc = pc
      BY NoRequestIdle DEF Memory, ReqFields
    <2> HIDE DEF r
    <2> QED BY <1>b, <1>r, <2>1 DEF r
  <1>1. CASE StartBegin(c)
    BY <1>1, <1>b DEF StartBegin, Begin
  <1>2. CASE StartOpen(c)
    BY <1>2 DEF StartOpen
  <1>3. ASSUME NEW n \in Numbers, ViewBegin(c, n) PROVE Elsewhere(c) /\ UNCHANGED attempt
    BY <1>3, <1>b DEF ViewBegin, Begin
  <1>4. CASE ViewLoad(c)
    BY <1>4 DEF ViewLoad
  <1>5. CASE ViewRespond(c)
    BY <1>5 DEF ViewRespond
  <1>6. ASSUME NEW n \in Numbers, NEW b \in Bodies, SaveBegin(c, n, b)
        PROVE  Elsewhere(c) /\ UNCHANGED attempt
    BY <1>6, BeginElsewhere DEF SaveBegin
  <1>7. CASE SaveLoad(c)
    <2> DEFINE sheet == Merge(attempt[req[c].n].answers, req[c].body)
               r == [req[c] EXCEPT !.pc = "save", !.body = NoBody, !.sheet = sheet]
    <2>1. r.pc = "save"
      <3> HIDE DEF sheet
      <3> QED BY <1>m DEF Memory, ReqFields
    <2>2. UNCHANGED attempt /\ (Answer(c) \/ req' = [req EXCEPT ![c] = r])
      BY <1>7 DEF SaveLoad
    <2> HIDE DEF r
    <2> QED BY <1>r, <2>1, <2>2
  <1>8. ASSUME NEW n \in Numbers, NEW k \in ClientKeys \cup {NoKey}, NEW b \in Bodies,
               SubmitBegin(c, n, k, b)
        PROVE  Elsewhere(c) /\ UNCHANGED attempt
    <2> DEFINE pc == IF k = NoKey THEN "load" ELSE "reserve"
               r == [NoRequest EXCEPT !.pc = pc, !.n = n, !.idemKey = k, !.body = b]
    <2>1. r.pc = pc
      <3> HIDE DEF pc
      <3> QED BY NoRequestIdle DEF Memory, ReqFields
    <2>2. UNCHANGED attempt /\ req' = [req EXCEPT ![c] = r]
      BY <1>8 DEF SubmitBegin
    <2> HIDE DEF r
    <2> QED BY <1>r, <2>1, <2>2
  <1>9. CASE Reserve(c) \/ Lookup(c)
    BY <1>9 DEF Reserve, Lookup
  <1>10. CASE SubmitLoad(c)
    <2> DEFINE sheet == Merge(attempt[req[c].n].answers, req[c].body)
               r == [req[c] EXCEPT !.pc = "grade", !.body = NoBody, !.sheet = sheet]
    <2>1. r.pc = "grade"
      <3> HIDE DEF sheet
      <3> QED BY <1>m DEF Memory, ReqFields
    <2>2. \/ \E reply : Respond(c, reply)
          \/ req' = [req EXCEPT ![c] = r]
      BY <1>10 DEF SubmitLoad
    <2> HIDE DEF r
    <2> QED BY <1>10, <1>r, <2>1, <2>2 DEF SubmitLoad
  <1>11. CASE SubmitGrade(c)
    <2> DEFINE late == attempt[req[c].n].clock # "on_time"
               r == [req[c] EXCEPT !.pc = "close", !.late = late]
    <2>1. r.pc = "close"
      <3> HIDE DEF late
      <3> QED BY <1>m DEF Memory, ReqFields
    <2>2. req' = [req EXCEPT ![c] = r]
      BY <1>11 DEF SubmitGrade
    <2> HIDE DEF r
    <2> QED BY <1>11, <1>r, <2>1, <2>2 DEF SubmitGrade
  <1>12. CASE SubmitReload(c)
    BY <1>12 DEF SubmitReload
  <1>13. CASE SubmitEffects(c)
    BY <1>13 DEF SubmitEffects
  <1>14. CASE SubmitError(c) \/ Store(c)
    BY <1>14 DEF SubmitError, Store
  <1>15. CASE Disconnect(c)
    BY <1>15 DEF Disconnect
  <1> QED BY <1>1, <1>2, <1>3, <1>4, <1>5, <1>6, <1>7, <1>8, <1>9, <1>10, <1>11, <1>12,
             <1>13, <1>14, <1>15 DEF OnlyReads, View, Save, Submit

(* Writers of an open attempt leave it taken.                              *)
LEMMA WritersTakeNothing ==
    ASSUME Shape, Settled,
           \/ \E c \in Requests : SaveUpdate(c) \/ SubmitClose(c)
           \/ ReapExpired \/ \E n \in Numbers : Tick(n)
    PROVE  Taken' = Taken
  <1>w. ASSUME NEW n, NEW row, n \in Open, row.status # "none",
               attempt' = [attempt EXCEPT ![n] = row]
        PROVE  Taken' = Taken
    BY <1>w DEF Shape, Taken, Open
  <1>m. \A n \in Open : /\ attempt[n] = [x \in RowFields |-> attempt[n][x]]
                        /\ attempt[n].status = "in_progress"
    BY DEF Open, Shape
  <1>1. ASSUME NEW c \in Requests, SaveUpdate(c) PROVE Taken' = Taken
    <2> DEFINE n == req[c].n
               sheet == req[c].sheet
    <2>1. \/ attempt' = attempt
          \/ n \in Open /\ attempt' = [attempt EXCEPT ![n] = [attempt[n] EXCEPT !.answers = sheet]]
      BY <1>1 DEF SaveUpdate
    <2> HIDE DEF n, sheet
    <2>2. n \in Open => [attempt[n] EXCEPT !.answers = sheet].status = "in_progress"
      BY <1>m DEF RowFields
    <2>3. CASE attempt' = attempt
      BY <2>3 DEF Taken
    <2> QED BY <1>w, <2>1, <2>2, <2>3
  <1>2. ASSUME NEW c \in Requests, SubmitClose(c) PROVE Taken' = Taken
    <2> DEFINE n == req[c].n
               out == Outcome(c)
               sheet == req[c].sheet
               row == [attempt[n] EXCEPT !.status = out.status, !.answers = sheet,
                                         !.earned = out.earned, !.passed = out.passed]
    <2>1. out.status \in {"submitted", "expired"}
      BY DEF Outcome, Result
    <2>2. attempt' = attempt \/ (n \in Open /\ attempt' = [attempt EXCEPT ![n] = row])
      BY <1>2 DEF SubmitClose
    <2>3. n \in Open => row.status = out.status
      <3> HIDE DEF out, n, sheet
      <3> QED BY <1>m DEF RowFields
    <2> HIDE DEF out, n, sheet, row
    <2>4. CASE attempt' = attempt
      BY <2>4 DEF Taken
    <2> QED BY <1>w, <2>1, <2>2, <2>3, <2>4
  <1>3. ASSUME NEW n \in Numbers, Tick(n) PROVE Taken' = Taken
    <2> DEFINE clock == IF attempt[n].clock = "on_time" THEN "late" ELSE "overdue"
    <2>1. n \in Open /\ attempt' = [attempt EXCEPT ![n] = [attempt[n] EXCEPT !.clock = clock]]
      BY <1>3 DEF Tick
    <2> HIDE DEF clock
    <2>2. [attempt[n] EXCEPT !.clock = clock].status = "in_progress"
      BY <1>m, <2>1 DEF RowFields
    <2> QED BY <1>w, <2>1, <2>2
  <1>4. ASSUME ReapExpired PROVE Taken' = Taken
    <2> DEFINE due == {n \in Open : attempt[n].clock = "overdue"}
    <2>1. ASSUME NEW n \in Numbers
          PROVE  attempt'[n] = IF n \in due
                   THEN [attempt[n] EXCEPT !.status = "expired", !.earned = 0, !.passed = FALSE]
                   ELSE attempt[n]
      BY <1>4 DEF ReapExpired
    <2>2. ASSUME NEW n \in Numbers, n \in due
          PROVE  attempt[n].status = "in_progress" /\ attempt'[n].status = "expired"
      <3>1. n \in Open
        BY <2>2
      <3>2. attempt[n] = [x \in RowFields |-> attempt[n][x]] /\ attempt[n].status = "in_progress"
        BY <1>m, <3>1
      <3>3. attempt'[n] = [attempt[n] EXCEPT !.status = "expired", !.earned = 0,
                                             !.passed = FALSE]
        BY <2>1, <2>2
      <3> QED BY <3>2, <3>3 DEF RowFields
    <2> HIDE DEF due
    <2>3. \A n \in Numbers : attempt'[n].status # "none" <=> attempt[n].status # "none"
      BY <2>1, <2>2
    <2> QED BY <2>3 DEF Taken
  <1> QED BY <1>1, <1>2, <1>3, <1>4

(* The count, the snapshot and the insertion of a start.                   *)
LEMMA StartCounted ==
    ASSUME Shape, Settled, Counted, NEW c \in Requests,
           StartCount(c) \/ StartSnapshot(c) \/ StartInsert(c)
    PROVE  Counted'
  <1> PICK k \in Nat : CountedUpTo(k)
    BY DEF Counted
  <1>m. Memory(req[c]) /\ MaxAttempts \in Nat
    BY QuizAssumption DEF Shape
  <1>s. UNCHANGED attempt => Taken' = Taken
    BY DEF Taken
  <1>1. CASE StartCount(c)
    <2>1. CASE Answer(c)
      BY <1>1, <1>s, <2>1, EndsElsewhere, ElsewhereCounted DEF StartCount
    <2>2. CASE ~Answer(c)
      <3> DEFINE used == Cardinality(Taken)
                 r == [req[c] EXCEPT !.pc = "snapshot", !.used = used]
      <3>1. used = k
        BY TakenCount
      <3>2. req' = [req EXCEPT ![c] = r] /\ ~(MaxAttempts > 0 /\ used >= MaxAttempts)
        BY <1>1, <2>2 DEF StartCount
      <3> HIDE DEF used
      <3>3. r.used = used
        BY <1>m DEF Memory, ReqFields
      <3> HIDE DEF r
      <3>4. req'[c].used = k /\ (MaxAttempts > 0 => k < MaxAttempts)
        BY <1>m, <3>1, <3>2, <3>3 DEF Shape
      <3>5. \A d \in Requests \ {c} : req'[d] = req[d]
        BY <3>2 DEF Shape
      <3>6. k \in 0 .. k
        OBVIOUS
      <3>7. CountedUpTo(k)'
        BY <1>1, <1>s, <3>4, <3>5, <3>6 DEF CountedUpTo, StartCount
      <3> QED BY <3>7 DEF Counted
    <2> QED BY <2>1, <2>2
  <1>2. CASE StartSnapshot(c)
    <2> DEFINE r == [req[c] EXCEPT !.pc = "insert", !.sheet = quizKey]
    <2>1. r.used = req[c].used
      BY <1>m DEF Memory, ReqFields
    <2>2. req' = [req EXCEPT ![c] = r] /\ req[c].pc = "snapshot" /\ UNCHANGED attempt
      BY <1>2 DEF StartSnapshot
    <2> HIDE DEF r
    <2>3. \A d \in Requests : req'[d].pc \in Counting =>
              req[d].pc \in Counting /\ req'[d].used = req[d].used
      BY <2>1, <2>2 DEF Shape, Counting
    <2> QED BY <1>s, <2>2, <2>3, CountFrame
  <1>3. CASE StartInsert(c)
    <2> DEFINE n == req[c].used + 1
               row == [NoRow EXCEPT !.status = "in_progress", !.key = req[c].sheet]
    <2>e. Elsewhere(c)
      BY <1>3, EndsElsewhere DEF StartInsert
    <2>1. CASE n \in Taken
      BY <1>3, <1>s, <2>e, <2>1, ElsewhereCounted DEF StartInsert
    <2>2. CASE n \notin Taken
      <3>1. req[c].used \in 0 .. k /\ (MaxAttempts > 0 => req[c].used < MaxAttempts)
        BY <1>3 DEF CountedUpTo, StartInsert, Counting
      <3>2. req[c].used = k
        BY <2>2, <3>1 DEF CountedUpTo
      <3>3. row.status = "in_progress"
        BY DEF NoRow, RowFields
      <3>4. attempt' = [attempt EXCEPT ![n] = row] /\ n \in Numbers /\ n = k + 1
        BY <1>3, <2>2, <3>2 DEF StartInsert
      <3> HIDE DEF row, n
      <3>5. Taken' = Taken \cup {n}
        BY <3>3, <3>4 DEF Shape, Taken
      <3>6. Taken' = 1 .. (k + 1)
        BY <3>4, <3>5 DEF CountedUpTo
      <3>7. MaxAttempts > 0 => k + 1 <= MaxAttempts
        BY <1>m, <3>1, <3>2
      <3>8. \A d \in Requests : req'[d].pc \in Counting => req'[d] = req[d]
        BY <2>e DEF Elsewhere
      <3>9. \A i \in 0 .. k : i \in 0 .. (k + 1)
        OBVIOUS
      <3>10. CountedUpTo(k + 1)'
        BY <3>6, <3>7, <3>8, <3>9 DEF CountedUpTo
      <3> QED BY <3>10 DEF Counted
    <2> QED BY <2>1, <2>2
  <1> QED BY <1>1, <1>2, <1>3

LEMMA AttemptsCounted ==
    ASSUME Shape, Settled, Counted, [Next]_vars
    PROVE  Counted'
  <1>s. UNCHANGED attempt => Taken' = Taken
    BY DEF Taken
  <1>r. UNCHANGED req /\ Taken' = Taken => Counted'
    BY CountFrame
  <1>e. \A c \in Requests : Answer(c) \/ Goto(c, "reload") => Elsewhere(c)
    BY EndsElsewhere DEF Counting
  <1>1. ASSUME NEW c \in Requests, OnlyReads(c) PROVE Counted'
    BY <1>1, <1>s, ReadsElsewhere, ElsewhereCounted
  <1>2. ASSUME NEW c \in Requests, Start(c) PROVE Counted'
    BY <1>1, <1>2, StartCounted DEF OnlyReads, Start
  <1>3. ASSUME NEW c \in Requests, Save(c) PROVE Counted'
    <2>1. CASE SaveUpdate(c)
      <3>1. Elsewhere(c)
        BY <1>e, <2>1 DEF SaveUpdate
      <3> QED BY <2>1, <3>1, WritersTakeNothing, ElsewhereCounted
    <2> QED BY <1>1, <1>3, <2>1 DEF OnlyReads
  <1>4. ASSUME NEW c \in Requests, Submit(c) PROVE Counted'
    <2>1. CASE SubmitClose(c)
      <3> DEFINE out == Outcome(c)
                 r == [req[c] EXCEPT !.pc = "effects", !.sheet = Unanswered, !.late = FALSE,
                                     !.reply = out]
      <3>1. r.pc = "effects"
        <4> HIDE DEF out
        <4> QED BY DEF Shape, Memory, ReqFields
      <3>2. req' = [req EXCEPT ![c] = r] \/ Goto(c, "reload")
        BY <2>1 DEF SubmitClose
      <3> HIDE DEF r
      <3>3. Elsewhere(c)
        BY <1>e, <3>1, <3>2 DEF Elsewhere, Shape, Counting
      <3> QED BY <2>1, <3>3, WritersTakeNothing, ElsewhereCounted
    <2> QED BY <1>1, <1>4, <2>1 DEF OnlyReads
  <1>5. ASSUME NEW c \in Requests, View(c) \/ Disconnect(c) PROVE Counted'
    BY <1>1, <1>5 DEF OnlyReads
  <1>6. CASE ReapExpired \/ \E n \in Numbers : Tick(n)
    <2>1. UNCHANGED req
      BY <1>6 DEF ReapExpired, Tick
    <2> QED BY <1>6, <1>r, <2>1, WritersTakeNothing
  <1>7. CASE UNCHANGED <<attempt, req>>
    BY <1>7, <1>r, <1>s
  <1> QED BY <1>2, <1>3, <1>4, <1>5, <1>6, <1>7 DEF Next, EditQuiz, KeyExpires, vars

(* However many starts look, count and insert at once, the attempts of a   *)
(* student are numbered without gaps and stay within the quiz's limit.     *)
THEOREM AttemptsStayBounded == Spec => []AttemptsBounded
  <1>1. Init => Counted
    <2> SUFFICES ASSUME Init PROVE Counted
      OBVIOUS
    <2>1. Taken = {}
      BY DEF Init, Taken, NoRow
    <2>2. CountedUpTo(0)
      BY <2>1, QuizAssumption, NoRequestIdle DEF CountedUpTo, Init, Counting
    <2> QED BY <2>2 DEF Counted
  <1>2. Shape /\ Settled /\ Counted /\ [Next]_vars => Counted'
    BY AttemptsCounted
  <1>3. Counted => AttemptsBounded
    <2> SUFFICES ASSUME NEW k \in Nat, CountedUpTo(k) PROVE AttemptsBounded
      BY DEF Counted
    <2> QED BY TakenCount DEF CountedUpTo, AttemptsBounded
  <1> QED BY <1>1, <1>2, <1>3, AttemptsSettled, PTL DEF Spec

-----------------------------------------------------------------------------
(* The points of a set of questions, a recursion over the set: a set of    *)
(* finite sets has a smallest one, which is what the induction is.         *)
Pick(s) == CHOOSE x \in s : TRUE
Rest(s) == s \ {Pick(s)}
SumsOf(qs, f) ==
    f = [s \in SUBSET qs |-> IF s = {} THEN 0 ELSE Points[Pick(s)] + f[Rest(s)]]

LEMMA PointsAreSums ==
    ASSUME NEW qs
    PROVE  PointsOf(qs) = (CHOOSE f : SumsOf(qs, f))[qs]
  BY DEF PointsOf, MapThenSumSet, MapThenFoldSet, Pick, Rest, SumsOf

LEMMA SmallestSet ==
    ASSUME NEW S \in SUBSET (SUBSET Questions), S # {}
    PROVE  \E s \in S : \A r \in SUBSET s : r # s => r \notin S
  <1>1. FiniteSubsetsOf(Questions) = SUBSET Questions
    BY QuizAssumption, FS_FiniteSubsetsOfFinite
  <1>2. IsWellFoundedOn(StrictSubsetOrdering(Questions), SUBSET Questions)
    BY <1>1, FS_StrictSubsetOrderingWellFounded
  <1>3. PICK s \in S : \A r \in S : ~(<<r, s>> \in StrictSubsetOrdering(Questions))
    BY <1>2, WFMin
  <1>4. ASSUME NEW r \in SUBSET s, r # s, r \in S PROVE FALSE
    <2>1. <<r, s>> \in (SUBSET Questions) \X (SUBSET Questions)
      BY <1>4
    <2>2. <<r, s>> \in StrictSubsetOrdering(Questions)
      BY <1>4, <2>1 DEF StrictSubsetOrdering
    <2> QED BY <1>3, <1>4, <2>2
  <1> QED BY <1>4

LEMMA RestIsSmaller ==
    ASSUME NEW s, s # {}
    PROVE  Pick(s) \in s /\ Rest(s) \in SUBSET s /\ Rest(s) # s
  <1>1. Pick(s) \in s
    BY DEF Pick
  <1> QED BY <1>1 DEF Rest

LEMMA SumsAt ==
    ASSUME NEW qs, NEW f, SumsOf(qs, f), NEW s \in SUBSET qs
    PROVE  f[s] = IF s = {} THEN 0 ELSE Points[Pick(s)] + f[Rest(s)]
  BY DEF SumsOf

LEMMA SumsAgree ==
    ASSUME NEW p \in SUBSET Questions, NEW q \in SUBSET Questions, NEW f, NEW g,
           SumsOf(p, f), SumsOf(q, g)
    PROVE  \A s \in SUBSET (p \cap q) : f[s] = g[s]
  <1> DEFINE S == {s \in SUBSET (p \cap q) : f[s] # g[s]}
  <1> SUFFICES ASSUME S # {} PROVE FALSE
    OBVIOUS
  <1>1. PICK s \in S : \A r \in SUBSET s : r # s => r \notin S
    BY SmallestSet
  <1>2. s \in SUBSET p /\ s \in SUBSET q /\ f[s] # g[s]
    OBVIOUS
  <1>3. CASE s = {}
    BY <1>2, <1>3, SumsAt
  <1>4. CASE s # {}
    <2>1. f[Rest(s)] = g[Rest(s)]
      BY <1>1, <1>4, RestIsSmaller
    <2> QED BY <1>2, <1>4, <2>1, SumsAt
  <1> QED BY <1>3, <1>4

LEMMA SumsExist == \A qs \in SUBSET Questions : \E f : SumsOf(qs, f)
  <1> DEFINE S == {qs \in SUBSET Questions : ~ \E f : SumsOf(qs, f)}
  <1> SUFFICES ASSUME S # {} PROVE FALSE
    OBVIOUS
  <1>1. PICK qs \in S : \A r \in SUBSET qs : r # qs => r \notin S
    BY SmallestSet
  <1> DEFINE Sum(r) == CHOOSE f : SumsOf(r, f)
             f == [s \in SUBSET qs |-> IF s = {} THEN 0
                                       ELSE Points[Pick(s)] + Sum(Rest(s))[Rest(s)]]
  <1>2. qs \in SUBSET Questions /\ ~ \E h : SumsOf(qs, h)
    OBVIOUS
  <1>3. ASSUME NEW r \in SUBSET qs, r # qs PROVE SumsOf(r, Sum(r))
    BY <1>1, <1>2, <1>3
  <1> HIDE DEF Sum, S
  <1>4. ASSUME NEW r \in SUBSET qs, r # qs PROVE f[r] = Sum(r)[r]
    <2>1. SumsOf(r, Sum(r))
      BY <1>3, <1>4
    <2>2. CASE r = {}
      BY <2>1, <2>2, SumsAt
    <2>3. CASE r # {}
      <3>1. Rest(r) \in SUBSET r /\ Rest(r) \in SUBSET qs /\ Rest(r) # qs
        BY <1>4, <2>3, RestIsSmaller
      <3>2. SumsOf(Rest(r), Sum(Rest(r)))
        BY <1>3, <3>1
      <3>3. Rest(r) \in SUBSET (r \cap Rest(r))
        BY <3>1
      <3>4. Sum(r)[Rest(r)] = Sum(Rest(r))[Rest(r)]
        BY <1>2, <1>4, <2>1, <3>1, <3>2, <3>3, SumsAgree
      <3>5. Sum(r)[r] = Points[Pick(r)] + Sum(r)[Rest(r)]
        BY <2>1, <2>3, SumsAt
      <3>6. f[r] = Points[Pick(r)] + Sum(Rest(r))[Rest(r)]
        BY <2>3
      <3> QED BY <3>4, <3>5, <3>6
    <2> QED BY <2>2, <2>3
  <1>5. ASSUME NEW s \in SUBSET qs, s # {}
        PROVE  Sum(Rest(s))[Rest(s)] = f[Rest(s)]
    <2>1. Rest(s) \in SUBSET qs /\ Rest(s) # qs
      BY <1>5, RestIsSmaller
    <2> QED BY <1>4, <2>1
  <1>6. SumsOf(qs, f)
    <2>1. ASSUME NEW s \in SUBSET qs
          PROVE  f[s] = IF s = {} THEN 0 ELSE Points[Pick(s)] + f[Rest(s)]
      BY <1>5
    <2>2. f = [s \in SUBSET qs |-> f[s]]
      OBVIOUS
    <2> HIDE DEF f
    <2> QED BY <2>1, <2>2 DEF SumsOf
  <1> QED BY <1>2, <1>6

(* What a set of answers earns is a number.                                *)
LEMMA PointsAreNatural == \A qs \in SUBSET Questions : PointsOf(qs) \in Nat
  <1> TAKE qs \in SUBSET Questions
  <1> DEFINE f == CHOOSE g : SumsOf(qs, g)
             S == {s \in SUBSET qs : f[s] \notin Nat}
  <1>1. SumsOf(qs, f) /\ PointsOf(qs) = f[qs]
    BY SumsExist, PointsAreSums
  <1> HIDE DEF f
  <1>2. ASSUME S # {} PROVE FALSE
    <2>1. PICK s \in S : \A r \in SUBSET s : r # s => r \notin S
      BY <1>2, SmallestSet
    <2>2. s \in SUBSET qs /\ f[s] \notin Nat
      OBVIOUS
    <2>3. s # {}
      <3>1. s = {} => f[s] = 0
        BY <1>1, SumsAt
      <3> QED BY <2>2, <3>1
    <2>4. f[Rest(s)] \in Nat
      BY <2>1, <2>2, <2>3, RestIsSmaller
    <2>5. Points[Pick(s)] \in Nat
      BY <2>2, <2>3, RestIsSmaller, QuizAssumption
    <2> QED BY <1>1, <2>2, <2>3, <2>4, <2>5, SumsAt
  <1> QED BY <1>1, <1>2

(* What each statement writes is of its type.                              *)
LEMMA TypedOutcome ==
    ASSUME NEW key \in AnswerSheet, NEW sheet
    PROVE  Earned(key, sheet) \in Nat /\ Passes(Earned(key, sheet)) \in BOOLEAN
  <1>1. Right(key, sheet) \in SUBSET Questions
    BY DEF Right
  <1>2. Earned(key, sheet) \in Nat
    BY <1>1, PointsAreNatural DEF Earned
  <1>3. ASSUME NEW earned \in Nat PROVE Passes(earned) \in BOOLEAN
    <2> DEFINE total == PointsOf(Questions)
               right == IF total = 0 THEN PassingScore = 0
                        ELSE 100 * earned >= PassingScore * total
    <2>1. Passes(earned) = right
      BY DEF Passes
    <2>2. (PassingScore = 0) \in BOOLEAN /\ (100 * earned >= PassingScore * total) \in BOOLEAN
      <3> HIDE DEF total
      <3> QED OBVIOUS
    <2> HIDE DEF total
    <2>3. right \in BOOLEAN
      BY <2>2, Zenon
    <2> QED BY <2>1, <2>3
  <1> QED BY <1>2, <1>3

LEMMA TypedMerge ==
    ASSUME NEW sheet \in AnswerSheet, NEW body, ValidAnswers(body)
    PROVE  Merge(sheet, body) \in AnswerSheet
  BY DEF Merge, AnswerSheet, ValidAnswers

LEMMA TypedConstants ==
    /\ Unanswered \in AnswerSheet /\ NoRow \in Row /\ NoResponse \in Response
    /\ FreeKey \in IdemKey /\ NoRequest \in Request
    /\ \A kind \in {"refused", "error"} : Reply(kind) \in Response
  <1>1. Unanswered \in AnswerSheet
    BY DEF Unanswered, AnswerSheet
  <1>2. NoRow \in Row
    BY <1>1 DEF NoRow, Row, Status, Clock
  <1>3. NoResponse \in Response
    BY DEF NoResponse, Response, Status
  <1>4. FreeKey \in IdemKey
    BY <1>3 DEF FreeKey, IdemKey
  <1>5. NoRequest \in Request
    <2>1. 0 \in 0 .. LastNumber
      BY QuizAssumption
    <2> QED BY <1>1, <1>3, <2>1 DEF NoRequest, Request, RequestPcs
  <1>6. \A kind \in {"refused", "error"} : Reply(kind) \in Response
    BY <1>3 DEF Reply, Response
  <1> QED BY <1>1, <1>2, <1>3, <1>4, <1>5, <1>6

(* The forms in which a request's memory changes.                          *)
LEMMA TypedAnswers ==
    ASSUME req \in [Requests -> Request], NEW c \in Requests
    PROVE  /\ Answer(c) => req' \in [Requests -> Request]
           /\ \A pc \in RequestPcs : Goto(c, pc) => req' \in [Requests -> Request]
           /\ \A reply \in Response : Respond(c, reply) => req' \in [Requests -> Request]
           /\ \A pc \in RequestPcs, n \in 0 .. LastNumber :
                 Begin(c, pc, n) => req' \in [Requests -> Request]
  <1>1. Answer(c) => req' \in [Requests -> Request]
    BY TypedConstants DEF Answer
  <1>2. ASSUME NEW pc \in RequestPcs, Goto(c, pc) PROVE req' \in [Requests -> Request]
    BY <1>2 DEF Goto, Request
  <1>3. ASSUME NEW reply \in Response, Respond(c, reply)
        PROVE  req' \in [Requests -> Request]
    <2>1. CASE req[c].idemKey = NoKey
      BY <1>1, <1>3, <2>1 DEF Respond
    <2>2. CASE req[c].idemKey # NoKey
      <3>1. req[c].n \in 0 .. LastNumber /\ req[c].idemKey \in ClientKeys \cup {NoKey}
        BY DEF Request
      <3> DEFINE m == req[c].n
                 k == req[c].idemKey
      <3>2. req' = [req EXCEPT ![c] = [NoRequest EXCEPT !.pc = "store", !.n = m,
                                                        !.idemKey = k, !.reply = reply]]
        BY <1>3, <2>2 DEF Respond
      <3> HIDE DEF m, k
      <3>3. m \in 0 .. LastNumber /\ k \in ClientKeys \cup {NoKey}
        BY <3>1 DEF m, k
      <3>4. [NoRequest EXCEPT !.pc = "store", !.n = m, !.idemKey = k, !.reply = reply]
                \in Request
        BY <3>3, TypedConstants DEF Request, RequestPcs
      <3> QED BY <3>2, <3>4
    <2> QED BY <2>1, <2>2
  <1>4. ASSUME NEW pc \in RequestPcs, NEW n \in 0 .. LastNumber, Begin(c, pc, n)
        PROVE  req' \in [Requests -> Request]
    BY <1>4, TypedConstants DEF Begin, Request
  <1> QED BY <1>1, <1>2, <1>3, <1>4

LEMMA StartTyped ==
    ASSUME TypeOK, NEW c \in Requests, Start(c)
    PROVE  TypeOK'
  <1> USE TypedConstants, TypedAnswers DEF TypeOK, quizVars
  <1>1. CASE StartBegin(c)
    <2>1. 0 \in 0 .. LastNumber /\ "open" \in RequestPcs
      BY QuizAssumption DEF RequestPcs, StartPcs
    <2> QED BY <1>1, <2>1 DEF StartBegin
  <1>2. CASE StartOpen(c)
    BY <1>2 DEF StartOpen, RequestPcs, StartPcs
  <1>3. CASE StartCount(c)
    <2>1. Cardinality(Taken) \in Nat
      <3>1. IsFiniteSet(Numbers) /\ Taken \in SUBSET Numbers
        BY FS_Interval, QuizAssumption DEF Numbers, Taken
      <3> QED BY <3>1, FS_Subset, FS_CardinalityType
    <2> DEFINE used == Cardinality(Taken)
    <2>2. Answer(c) \/ req' = [req EXCEPT ![c].pc = "snapshot", ![c].used = used]
      BY <1>3 DEF StartCount
    <2>3. UNCHANGED <<quizVars, attempt, idem, shown>>
      BY <1>3 DEF StartCount
    <2> HIDE DEF used
    <2>4. used \in Nat
      BY <2>1 DEF used
    <2>5. req' \in [Requests -> Request]
      BY <2>2, <2>4 DEF Request, RequestPcs, StartPcs
    <2> QED BY <2>3, <2>5
  <1>4. CASE StartSnapshot(c)
    <2>1. quizKey \in AnswerSheet
      BY QuizAssumption
    <2>2. req' \in [Requests -> Request]
      BY <1>4, <2>1 DEF StartSnapshot, Request, RequestPcs, StartPcs
    <2> QED BY <1>4, <2>2 DEF StartSnapshot
  <1>5. CASE StartInsert(c)
    <2>1. req[c].sheet \in AnswerSheet
      BY DEF Request
    <2>2. [NoRow EXCEPT !.status = "in_progress", !.key = req[c].sheet] \in Row
      BY <2>1 DEF Row, Status
    <2>3. attempt' \in [Numbers -> Row]
      BY <1>5, <2>2 DEF StartInsert
    <2> QED BY <1>5, <2>3 DEF StartInsert
  <1> QED BY <1>1, <1>2, <1>3, <1>4, <1>5 DEF Start

LEMMA ViewTyped ==
    ASSUME TypeOK, Settled, NEW c \in Requests, View(c)
    PROVE  TypeOK'
  <1> USE TypedAnswers DEF TypeOK, quizVars
  <1>1. ASSUME NEW n \in Numbers, ViewBegin(c, n) PROVE TypeOK'
    <2>1. n \in 0 .. LastNumber /\ "view" \in RequestPcs
      BY QuizAssumption DEF Numbers, RequestPcs
    <2> QED BY <1>1, <2>1 DEF ViewBegin
  <1>2. CASE ViewLoad(c)
    BY <1>2 DEF ViewLoad, RequestPcs
  <1>3. CASE ViewRespond(c)
    <2>1. req[c].n \in Numbers
      BY <1>3 DEF Settled, Knows, ViewRespond, Closed, Taken
    <2> QED BY <1>3, <2>1 DEF ViewRespond, Showing
  <1> QED BY <1>1, <1>2, <1>3 DEF View

LEMMA SaveTyped ==
    ASSUME TypeOK, Settled, NEW c \in Requests, Save(c)
    PROVE  TypeOK'
  <1> USE TypedConstants, TypedAnswers DEF TypeOK, quizVars
  <1>1. ASSUME NEW n \in Numbers, NEW b \in Bodies, SaveBegin(c, n, b) PROVE TypeOK'
    <2>1. n \in 0 .. LastNumber
      BY QuizAssumption DEF Numbers
    <2>2. req' \in [Requests -> Request]
      BY <1>1, <2>1 DEF SaveBegin, Request, RequestPcs
    <2> QED BY <1>1, <2>2 DEF SaveBegin
  <1>2. CASE SaveLoad(c)
    <2> DEFINE row == attempt[req[c].n]
               sheet == Merge(row.answers, req[c].body)
    <2>1. \/ Answer(c)
          \/ /\ ValidAnswers(req[c].body)
             /\ req' = [req EXCEPT ![c].pc = "save", ![c].body = NoBody, ![c].sheet = sheet]
      BY <1>2 DEF SaveLoad
    <2>2. req[c].n \in Numbers
      BY <1>2 DEF Settled, Knows, SaveLoad, Taken, OnRow, RequestPcs, StartPcs, SubmitPcs
    <2>3. ValidAnswers(req[c].body) => sheet \in AnswerSheet
      BY <2>2, TypedMerge DEF Row
    <2> HIDE DEF sheet
    <2>4. req' \in [Requests -> Request]
      BY <2>1, <2>3 DEF Request, RequestPcs
    <2> QED BY <1>2, <2>4 DEF SaveLoad
  <1>3. CASE SaveUpdate(c)
    <2>1. req[c].sheet \in AnswerSheet
      BY DEF Request
    <2>2. attempt' \in [Numbers -> Row]
      BY <1>3, <2>1 DEF SaveUpdate, Row
    <2> QED BY <1>3, <2>2 DEF SaveUpdate
  <1> QED BY <1>1, <1>2, <1>3 DEF Save

LEMMA SubmitTyped ==
    ASSUME TypeOK, Settled, NEW c \in Requests, Submit(c)
    PROVE  TypeOK'
  <1> USE TypedConstants, TypedAnswers DEF TypeOK, quizVars
  <1>o. ASSUME NEW n \in Numbers
        PROVE  /\ attempt[n] \in Row
               /\ Result(attempt[n].status, attempt[n].earned, attempt[n].passed) \in Response
    BY DEF Result, Response, Row
  <1>n. req[c] \in Request /\ (req[c].pc \in OnRow => req[c].n \in Numbers)
    BY DEF Settled, Knows, Taken
  <1>p. /\ SubmitPcs \cup {"reserve", "lookup", "store"} \subseteq OnRow
        /\ OnRow \subseteq RequestPcs
    BY DEF OnRow, RequestPcs, StartPcs, SubmitPcs
  <1>1. ASSUME NEW n \in Numbers, NEW k \in ClientKeys \cup {NoKey}, NEW b \in Bodies,
               SubmitBegin(c, n, k, b)
        PROVE  TypeOK'
    <2>1. n \in 0 .. LastNumber
      BY QuizAssumption DEF Numbers
    <2>2. req' \in [Requests -> Request]
      BY <1>1, <2>1 DEF SubmitBegin, Request, RequestPcs, SubmitPcs
    <2> QED BY <1>1, <2>2 DEF SubmitBegin
  <1>2. CASE Reserve(c)
    <2>1. [FreeKey EXCEPT !.st = "processing"] \in IdemKey
      BY DEF IdemKey
    <2>2. req' \in [Requests -> Request]
      BY <1>2 DEF Reserve, RequestPcs, SubmitPcs
    <2>3. idem' \in [ClientKeys -> IdemKey]
      BY <1>2, <2>1 DEF Reserve
    <2> QED BY <1>2, <2>2, <2>3 DEF Reserve
  <1>3. CASE Lookup(c)
    BY <1>3 DEF Lookup
  <1>4. CASE SubmitLoad(c)
    <2> DEFINE row == attempt[req[c].n]
               sheet == Merge(row.answers, req[c].body)
    <2>1. req[c].n \in Numbers
      BY <1>4, <1>n, <1>p DEF SubmitLoad, SubmitPcs
    <2>2. \/ \E reply \in Response : Respond(c, reply)
          \/ /\ ValidAnswers(req[c].body)
             /\ req' = [req EXCEPT ![c].pc = "grade", ![c].body = NoBody, ![c].sheet = sheet]
      BY <1>4, <1>o, <2>1 DEF SubmitLoad
    <2>3. ValidAnswers(req[c].body) => sheet \in AnswerSheet
      BY <2>1, TypedMerge DEF Row
    <2> HIDE DEF sheet
    <2>4. req' \in [Requests -> Request]
      BY <2>2, <2>3 DEF Request, RequestPcs, SubmitPcs
    <2> QED BY <1>4, <2>4 DEF SubmitLoad
  <1>5. CASE SubmitGrade(c)
    <2> DEFINE late == attempt[req[c].n].clock # "on_time"
    <2>1. late \in BOOLEAN /\ req' = [req EXCEPT ![c].pc = "close", ![c].late = late]
      BY <1>5 DEF SubmitGrade
    <2> HIDE DEF late
    <2>2. [req[c] EXCEPT !.pc = "close", !.late = late] \in Request
      BY <1>n, <2>1 DEF Request, RequestPcs, SubmitPcs
    <2>3. req' \in [Requests -> Request]
      BY <2>1, <2>2
    <2> QED BY <1>5, <2>3 DEF SubmitGrade
  <1>6. CASE SubmitClose(c)
    <2> DEFINE n == req[c].n
               out == Outcome(c)
               sheet == req[c].sheet
    <2>1. n \in Numbers /\ sheet \in AnswerSheet
      BY <1>6, <1>n, <1>p DEF SubmitClose, SubmitPcs, Request
    <2>2. out \in Response /\ out.status \in Status
      <3>1. attempt[n].key \in AnswerSheet
        BY <2>1 DEF Row
      <3> QED BY <3>1, TypedOutcome DEF Outcome, Result, Response, Status
    <2>3. \/ UNCHANGED attempt
          \/ attempt' = [attempt EXCEPT ![n].status = out.status, ![n].answers = sheet,
                                        ![n].earned = out.earned, ![n].passed = out.passed]
      BY <1>6 DEF SubmitClose
    <2>4. \/ Goto(c, "reload")
          \/ req' = [req EXCEPT ![c].pc = "effects", ![c].sheet = Unanswered,
                                ![c].late = FALSE, ![c].reply = out]
      BY <1>6 DEF SubmitClose
    <2> HIDE DEF n, out, sheet
    <2>5. attempt' \in [Numbers -> Row]
      <3>1. out.earned \in Nat /\ out.passed \in BOOLEAN
        BY <2>2 DEF Response
      <3> QED BY <2>1, <2>2, <2>3, <3>1 DEF Row
    <2>6. req' \in [Requests -> Request]
      <3>1. {"reload", "effects"} \subseteq RequestPcs
        BY DEF RequestPcs, SubmitPcs
      <3>2. CASE Goto(c, "reload")
        BY <3>1, <3>2
      <3>3. CASE req' = [req EXCEPT ![c].pc = "effects", ![c].sheet = Unanswered,
                                    ![c].late = FALSE, ![c].reply = out]
        <4> DEFINE r == [req[c] EXCEPT !.pc = "effects", !.sheet = Unanswered,
                                       !.late = FALSE, !.reply = out]
        <4>1. r \in Request
          BY <1>n, <2>2, <3>1 DEF Request
        <4>2. req' = [req EXCEPT ![c] = r]
          BY <3>3
        <4> HIDE DEF r
        <4> QED BY <4>1, <4>2
      <3> QED BY <2>4, <3>2, <3>3
    <2> QED BY <1>6, <2>5, <2>6 DEF SubmitClose
  <1>7. CASE SubmitReload(c)
    <2>1. req[c].n \in Numbers
      BY <1>7, <1>n, <1>p DEF SubmitReload, SubmitPcs
    <2> QED BY <1>7, <1>o, <2>1 DEF SubmitReload, Showing
  <1>8. CASE SubmitEffects(c)
    <2>1. req[c].n \in Numbers /\ req[c].reply \in Response
      BY <1>8, <1>n, <1>p DEF SubmitEffects, SubmitPcs, Request
    <2> QED BY <1>8, <2>1 DEF SubmitEffects, Showing
  <1>9. CASE SubmitError(c)
    BY <1>9 DEF SubmitError
  <1>10. CASE Store(c)
    <2>1. req[c].reply \in Response
      BY <1>n DEF Request
    <2>2. [st |-> "stored", reply |-> req[c].reply] \in IdemKey
      BY <2>1 DEF IdemKey
    <2>3. idem' \in [ClientKeys -> IdemKey]
      BY <1>10, <2>2 DEF Store
    <2> QED BY <1>10, <2>3 DEF Store
  <1> QED BY <1>1, <1>2, <1>3, <1>4, <1>5, <1>6, <1>7, <1>8, <1>9, <1>10 DEF Submit

LEMMA AttemptsTyped ==
    ASSUME TypeOK, Settled, [Next]_vars
    PROVE  TypeOK'
  <1>1. ASSUME NEW c \in Requests, Start(c) \/ View(c) \/ Save(c) \/ Submit(c) PROVE TypeOK'
    BY <1>1, StartTyped, ViewTyped, SaveTyped, SubmitTyped
  <1> USE TypedConstants DEF TypeOK, quizVars
  <1>2. ASSUME NEW c \in Requests, Disconnect(c) PROVE TypeOK'
    BY <1>2, TypedAnswers DEF Disconnect
  <1>3. ASSUME NEW n \in Numbers, Tick(n) PROVE TypeOK'
    <2>1. attempt' \in [Numbers -> Row]
      BY <1>3 DEF Tick, Row, Clock
    <2> QED BY <1>3, <2>1 DEF Tick
  <1>4. ASSUME NEW k \in ClientKeys, KeyExpires(k) PROVE TypeOK'
    BY <1>4 DEF KeyExpires
  <1>5. CASE EditQuiz
    BY <1>5 DEF EditQuiz
  <1>6. CASE ReapExpired
    <2>1. attempt' \in [Numbers -> Row]
      BY <1>6 DEF ReapExpired, Row, Status
    <2> QED BY <1>6, <2>1 DEF ReapExpired
  <1>7. CASE UNCHANGED vars
    BY <1>7 DEF vars
  <1> HIDE DEF TypeOK
  <1> QED BY <1>1, <1>2, <1>3, <1>4, <1>5, <1>6, <1>7 DEF Next

(* The rows, the keys and what the requests remember are always typed;     *)
(* the points earned are a number because a sum of points is.              *)
THEOREM AttemptsTypeCorrect == Spec => []TypeOK
  <1>1. Init => TypeOK
    BY TypedConstants, QuizAssumption DEF Init, TypeOK
  <1>2. TypeOK /\ Shape /\ Settled /\ [Next]_vars => TypeOK'
    BY AttemptsTyped
  <1> QED BY <1>1, <1>2, AttemptsSettled, PTL DEF Spec
=============================================================================
