------------------------- MODULE CourseVersionsProofs -------------------------
(***************************************************************************)
(* Theorems of CourseVersions, for every set of requests, of nodes and of  *)
(* bounds.  What a request remembers from choosing and sorting (a position, *)
(* a list of siblings) plays no part in them before the last section.      *)
(***************************************************************************)
EXTENDS CourseVersions, FiniteSetTheorems, TLAPS

(* A request's memory is a record with these fields, and its version is    *)
(* one of the course's or none.                                            *)
Fields == {"pc", "v", "s", "n", "body", "list", "rows", "from", "crossed", "late"}
Memory(r) ==
    /\ r = [x \in Fields |-> r[x]]
    /\ r.v \in 0 .. LastVersion

(* The statements that follow a guard, all of them of a version.           *)
Guarded == Pcs \ (Cloning \cup {"idle", "typing", "draft", "number", "version"})

Shape ==
    /\ status = [v \in Versions |-> status[v]]
    /\ sound = [v \in Versions |-> sound[v]]
    /\ tree = [v \in Versions |-> tree[v]]
    /\ copy = [e \in Editors |-> copy[e]]
    /\ ed = [e \in Editors |-> ed[e]]
    /\ \A e \in Editors : Memory(ed[e])
    /\ \A e \in Editors : ed[e].pc \in Guarded \cup {"typing"} => ed[e].v \in Versions

(* A request that goes on after its version was published is late, and the *)
(* versions a publication will supersede were published.  The number that  *)
(* a request has inserted is that of no version and of no other one.       *)
Frozen(v) == status[v] \in {"published", "superseded"}
Free(e, n) ==
    /\ n \in Versions => status[n] = "none"
    /\ \A f \in Editors \ {e} : ed[f].pc \in Cloning => ed[f].n # n
Late ==
    /\ \A e \in Editors : ed[e].pc \in Guarded => status[ed[e].v] # "none"
    /\ \A e \in Editors : ed[e].pc \in Cloning => Free(e, ed[e].n)
    /\ \A e \in Editors : ed[e].pc \in Guarded /\ Frozen(ed[e].v) => ed[e].late
    /\ \A e \in Editors : ed[e].pc \in {"wait", "mark", "publish"} =>
          \A v \in ed[e].rows : v \in Versions /\ Frozen(v)

LEMMA NoEditMemory == Memory(NoEdit)
  <1>1. NoEdit = [x \in Fields |-> NoEdit[x]]
    BY DEF NoEdit, Fields
  <1>2. NoEdit.v = 0
    BY DEF NoEdit
  <1> QED BY <1>1, <1>2, VersionsAssumption DEF Memory

LEMMA InitShape == Init => Shape /\ Late
  <1> SUFFICES ASSUME Init PROVE Shape /\ Late
    OBVIOUS
  <1>1. \A e \in Editors : ed[e] = NoEdit
    BY DEF Init
  <1>2. NoEdit.pc = "idle"
    BY DEF NoEdit
  <1>3. /\ status = [v \in Versions |-> status[v]] /\ sound = [v \in Versions |-> sound[v]]
        /\ tree = [v \in Versions |-> tree[v]] /\ ed = [e \in Editors |-> ed[e]]
        /\ copy = [e \in Editors |-> copy[e]]
    BY DEF Init
  <1>4. Shape
    BY <1>1, <1>2, <1>3, NoEditMemory DEF Shape, Guarded, Pcs, Cloning
  <1>5. Late
    BY <1>1, <1>2 DEF Late, Guarded, Cloning
  <1> QED BY <1>4, <1>5

(* A request that keeps its place, whatever else of its memory changes.    *)
Kept(f) ==
    /\ Memory(ed'[f])
    /\ ed'[f].pc = ed[f].pc /\ ed'[f].v = ed[f].v /\ ed'[f].rows = ed[f].rows
    /\ ed'[f].n = ed[f].n
    /\ ed[f].late => ed'[f].late
Others(e) ==
    /\ ed' = [f \in Editors |-> ed'[f]]
    /\ \A f \in Editors \ {e} : Kept(f)

(* The ways in which the memory of one request changes.                    *)
LEMMA OneChanges ==
    ASSUME Shape, NEW e \in Editors, NEW r, ed' = [ed EXCEPT ![e] = r]
    PROVE  Others(e) /\ ed'[e] = r
  BY DEF Shape, Others, Kept

LEMMA GotoMemory ==
    ASSUME Shape, NEW e \in Editors, NEW pc, Goto(e, pc)
    PROVE  /\ Others(e) /\ Memory(ed'[e])
           /\ ed'[e].pc = pc /\ ed'[e].v = ed[e].v
           /\ ed'[e].rows = ed[e].rows /\ ed'[e].late = ed[e].late /\ ed'[e].n = ed[e].n
  <1>1. Memory(ed[e])
    BY DEF Shape
  <1>2. Others(e) /\ ed'[e] = [ed[e] EXCEPT !.pc = pc]
    BY DEF Goto, Shape, Others, Kept
  <1> QED BY <1>1, <1>2 DEF Memory, Fields

LEMMA AnswerMemory ==
    ASSUME Shape, NEW e \in Editors, Answer(e)
    PROVE  Others(e) /\ ed'[e] = NoEdit
  BY OneChanges DEF Answer

LEMMA BeginMemory ==
    ASSUME Shape, NEW e \in Editors, NEW pc, NEW v \in 0 .. LastVersion, NEW s,
           Begin(e, pc, v, s)
    PROVE  Others(e) /\ Memory(ed'[e]) /\ ed'[e].pc = pc /\ ed'[e].v = v
  <1>1. ed'[e] = [NoEdit EXCEPT !.pc = pc, !.v = v, !.s = s] /\ Others(e)
    BY OneChanges DEF Begin
  <1> QED BY <1>1, NoEditMemory DEF Memory, Fields

LEMMA WriteMemory ==
    ASSUME Shape, NEW e \in Editors, NEW t, NEW next, Memory(next), Write(e, t, next)
    PROVE  /\ Others(e) /\ ed'[e] = next /\ UNCHANGED <<status, sound, copy>>
           /\ tree' = [tree EXCEPT ![ed[e].v] = t]
  <1>1. ASSUME NEW f \in Editors \ {e} PROVE Kept(f)
    <2>1. Memory(ed[f])
      BY DEF Shape
    <2>2. ed'[f] = ed[f] \/ ed'[f] = [ed[f] EXCEPT !.crossed = TRUE]
      BY DEF Write
    <2> QED BY <2>1, <2>2 DEF Kept, Memory, Fields
  <1> QED BY <1>1 DEF Write, Others

(* A step of e that changes no version's status.                           *)
Ready(r) ==
    /\ Memory(r)
    /\ r.pc \notin Cloning
    /\ r.pc \in Guarded \cup {"typing"} => r.v \in Versions
    /\ r.pc \in Guarded => status[r.v] # "none"
    /\ r.pc \in Guarded /\ Frozen(r.v) => r.late
    /\ r.pc \in {"wait", "mark", "publish"} => \A v \in r.rows : v \in Versions /\ Frozen(v)

LEMMA SameStatus ==
    ASSUME Shape, Late, NEW e \in Editors, Others(e), Ready(ed'[e]), status' = status,
           sound' = [v \in Versions |-> sound'[v]], tree' = [v \in Versions |-> tree'[v]],
           copy' = [f \in Editors |-> copy'[f]]
    PROVE  Shape' /\ Late'
  <1>1. \A f \in Editors : Memory(ed'[f])
    BY DEF Others, Kept, Ready
  <1>2. Shape'
    BY <1>1 DEF Shape, Others, Kept, Ready, Memory, Fields
  <1>3. Late'
    BY DEF Late, Others, Kept, Ready, Frozen, Free
  <1> QED BY <1>2, <1>3

LEMMA IdleReady == Ready(NoEdit)
  BY NoEditMemory DEF Ready, NoEdit, Guarded, Pcs, Cloning

(* A guarded request that goes on to another statement of its own.         *)
Publishing == {"wait", "mark", "publish"}
LEMMA OnReady ==
    ASSUME Shape, Late, NEW e \in Editors, ed[e].pc \in Guarded, NEW r, Memory(r),
           r.pc \in Guarded, r.v = ed[e].v, ed[e].late => r.late,
           r.pc \in Publishing => \A v \in r.rows : v \in Versions /\ Frozen(v)
    PROVE  Ready(r)
  BY DEF Ready, Shape, Late, Publishing, Guarded

(* The guard, or the read of a content.                                    *)
LEMMA RequestStep ==
    ASSUME Shape, Late, NEW e \in Editors, Request(e)
    PROVE  Shape' /\ Late' /\ UNCHANGED <<status, sound, tree>>
  <1>1. ASSUME NEW v \in Versions, NEW s, NEW pc, Guard(e, pc, v, s),
               pc \in Guarded \ Publishing
        PROVE  Shape' /\ Late' /\ UNCHANGED <<status, sound, tree>>
    <2>1. Others(e) /\ Memory(ed'[e]) /\ ed'[e].pc = pc /\ ed'[e].v = v
      BY <1>1, BeginMemory DEF Guard, Versions
    <2>2. UNCHANGED <<status, sound, tree, copy>> /\ status[v] = "draft"
      BY <1>1 DEF Guard, CanEdit, content
    <2>3. Ready(ed'[e])
      BY <1>1, <2>1, <2>2 DEF Ready, Frozen, Publishing, Guarded
    <2> QED BY <2>1, <2>2, <2>3, SameStatus DEF Shape
  <1>2. ASSUME NEW v \in Versions, NEW s, ReadContent(e, v, s)
        PROVE  Shape' /\ Late' /\ UNCHANGED <<status, sound, tree>>
    <2> DEFINE n == tree[v][s].revision
               body == tree[v][s].body
               r == [NoEdit EXCEPT !.pc = "typing", !.v = v, !.s = s, !.n = n, !.body = body]
    <2>1. Others(e) /\ ed'[e] = r
      BY <1>2, OneChanges DEF ReadContent
    <2>2. Memory(ed'[e]) /\ ed'[e].pc = "typing" /\ ed'[e].v = v
      <3>1. v \in 0 .. LastVersion
        BY VersionsAssumption DEF Versions
      <3> HIDE DEF n, body
      <3>2. Memory(r) /\ r.pc = "typing" /\ r.v = v
        BY <3>1, NoEditMemory DEF Memory, Fields
      <3> QED BY <2>1, <3>2
    <2>3. Ready(ed'[e])
      BY <2>2 DEF Ready, Guarded, Pcs, Cloning
    <2>4. UNCHANGED <<status, sound, tree, copy>>
      BY <1>2 DEF ReadContent, content
    <2> QED BY <2>1, <2>3, <2>4, SameStatus DEF Shape
  <1>3. ASSUME DraftBegin(e)
        PROVE  Shape' /\ Late' /\ UNCHANGED <<status, sound, tree>>
    <2>1. Others(e) /\ Memory(ed'[e]) /\ ed'[e].pc = "draft"
      BY <1>3, BeginMemory, VersionsAssumption DEF DraftBegin
    <2>2. UNCHANGED <<status, sound, tree, copy>>
      BY <1>3 DEF DraftBegin, content
    <2>3. Ready(ed'[e])
      BY <2>1 DEF Ready, Guarded, Pcs, Cloning
    <2> QED BY <2>1, <2>2, <2>3, SameStatus DEF Shape
  <1>4. {"max", "delete", "update", "question", "metadata", "store"}
            \subseteq Guarded \ Publishing
    BY DEF Guarded, Publishing, Pcs, Cloning
  <1>5. ASSUME NEW v \in Versions, NEW s,
               CreateGuard(e, v, s) \/ DeleteGuard(e, v, s) \/ UpdateGuard(e, v, s)
               \/ QuestionGuard(e, v, s)
        PROVE  Shape' /\ Late' /\ UNCHANGED <<status, sound, tree>>
    <2>1. PICK pc \in {"max", "delete", "update", "question"} : Guard(e, pc, v, s)
      BY <1>5 DEF CreateGuard, DeleteGuard, UpdateGuard, QuestionGuard
    <2> QED BY <1>1, <1>4, <2>1
  <1>6. ASSUME NEW v \in Versions, PublishGuard(e, v)
        PROVE  Shape' /\ Late' /\ UNCHANGED <<status, sound, tree>>
    <2>1. PICK pc \in {"metadata", "store"} : Guard(e, pc, v, Top)
      BY <1>6 DEF PublishGuard
    <2> QED BY <1>1, <1>4, <2>1
  <1> QED BY <1>2, <1>3, <1>5, <1>6 DEF Request

(* Statements that only read, or that end the request.                     *)
LEMMA AnswerStep ==
    ASSUME Shape, Late, NEW e \in Editors, Answer(e), Reads
    PROVE  Shape' /\ Late' /\ UNCHANGED <<status, sound, tree>>
  BY AnswerMemory, IdleReady, SameStatus DEF Reads, content, Shape

LEMMA ReadStep ==
    ASSUME Shape, Late, NEW e \in Editors, NEW r, ed' = [ed EXCEPT ![e] = r], Ready(r), Reads
    PROVE  Shape' /\ Late' /\ UNCHANGED <<status, sound, tree>>
  BY OneChanges, SameStatus DEF Reads, content, Shape

LEMMA WriteStep ==
    ASSUME Shape, Late, NEW e \in Editors, NEW t, NEW next, Write(e, t, next), Ready(next)
    PROVE  /\ Shape' /\ Late' /\ UNCHANGED <<status, sound>>
           /\ tree' = [tree EXCEPT ![ed[e].v] = t]
  <1>1. Memory(next)
    BY DEF Ready
  <1> QED BY <1>1, WriteMemory, SameStatus DEF Shape

(* A guarded request that reads and goes on, by the fields that change.    *)
LEMMA GoOn ==
    ASSUME Shape, Late, NEW e \in Editors, ed[e].pc \in Guarded, NEW pc \in Guarded,
           pc \notin Publishing, Goto(e, pc), Reads
    PROVE  Shape' /\ Late' /\ UNCHANGED <<status, sound, tree>>
  <1>1. Others(e) /\ Ready(ed'[e])
    BY GotoMemory, OnReady
  <1> QED BY <1>1, SameStatus DEF Reads, content, Shape

LEMMA CreateMaxStep ==
    ASSUME Shape, Late, NEW e \in Editors, CreateMax(e)
    PROVE  Shape' /\ Late' /\ UNCHANGED <<status, sound, tree>>
  <1> DEFINE n == NextPosition(This(e), ed[e].s)
             r == [ed[e] EXCEPT !.pc = "insert", !.n = n]
  <1>1. ed' = [ed EXCEPT ![e] = r] /\ Reads /\ ed[e].pc = "max"
    BY DEF CreateMax, At
  <1>2. Memory(r) /\ r.pc = "insert" /\ r.v = ed[e].v /\ r.late = ed[e].late
    <2> HIDE DEF n
    <2>1. Memory(ed[e])
      BY DEF Shape
    <2> QED BY <2>1 DEF Memory, Fields
  <1>3. Ready(r)
    BY <1>1, <1>2, OnReady DEF Guarded, Pcs, Cloning, Publishing
  <1> QED BY <1>1, <1>3, ReadStep

LEMMA ReorderListStep ==
    ASSUME Shape, Late, NEW e \in Editors, NEW n, ReorderList(e, n)
    PROVE  Shape' /\ Late' /\ UNCHANGED <<status, sound, tree>>
  <1> DEFINE t == This(e)
             p == IF Kind[ed[e].s] = "module" THEN Top ELSE t[ed[e].s].parent
             list == Moved(InOrder(t, Siblings(t, p) \ {ed[e].s}), ed[e].s, n)
             r == [ed[e] EXCEPT !.pc = "renumber", !.crossed = FALSE, !.n = n, !.list = list]
  <1>1. Reads /\ ed[e].pc = "list" /\ (Answer(e) \/ ed' = [ed EXCEPT ![e] = r])
    BY DEF ReorderList, At
  <1>2. Memory(r) /\ r.pc = "renumber" /\ r.v = ed[e].v /\ r.late = ed[e].late
    <2> HIDE DEF list
    <2>1. Memory(ed[e])
      BY DEF Shape
    <2> QED BY <2>1 DEF Memory, Fields
  <1>3. Ready(r)
    BY <1>1, <1>2, OnReady DEF Guarded, Pcs, Cloning, Publishing
  <1> QED BY <1>1, <1>3, ReadStep, AnswerStep

LEMMA SaveGuardStep ==
    ASSUME Shape, Late, NEW e \in Editors, SaveGuard(e)
    PROVE  Shape' /\ Late' /\ UNCHANGED <<status, sound, tree>>
  <1>1. CASE CanEdit(ed[e].v) /\ ed[e].s \in DOMAIN This(e)
    <2>1. PICK pc \in {"compare", "overwrite"} : ed' = [ed EXCEPT ![e].pc = pc, ![e].late = FALSE]
      BY <1>1 DEF SaveGuard
    <2> DEFINE r == [ed[e] EXCEPT !.pc = pc, !.late = FALSE]
    <2>2. ed' = [ed EXCEPT ![e] = r] /\ Reads /\ ed[e].pc = "typing"
      BY <2>1 DEF SaveGuard, At
    <2>3. Memory(r) /\ r.pc = pc /\ r.v = ed[e].v
      <3>1. Memory(ed[e])
        BY DEF Shape
      <3> QED BY <3>1 DEF Memory, Fields
    <2>4. ed[e].v \in Versions /\ ~Frozen(ed[e].v) /\ status[ed[e].v] # "none"
      BY <1>1, <2>2 DEF Shape, CanEdit, Frozen
    <2>5. Ready(r)
      BY <2>3, <2>4 DEF Ready, Cloning
    <2> QED BY <2>2, <2>5, ReadStep
  <1>2. CASE ~(CanEdit(ed[e].v) /\ ed[e].s \in DOMAIN This(e))
    BY <1>2, AnswerStep DEF SaveGuard
  <1> QED BY <1>1, <1>2

(* SaveCompare and CheckMetadata: another request is not crossed yet.      *)
LEMMA UncrossedStep ==
    ASSUME Shape, Late, NEW e \in Editors, ed[e].pc \in Guarded,
           NEW pc \in Guarded \ Publishing,
           ed' = [ed EXCEPT ![e].pc = pc, ![e].crossed = FALSE], Reads
    PROVE  Shape' /\ Late' /\ UNCHANGED <<status, sound, tree>>
  <1> DEFINE r == [ed[e] EXCEPT !.pc = pc, !.crossed = FALSE]
  <1>1. ed' = [ed EXCEPT ![e] = r]
    OBVIOUS
  <1>2. Memory(r) /\ r.pc = pc /\ r.v = ed[e].v /\ r.late = ed[e].late
    <2>1. Memory(ed[e])
      BY DEF Shape
    <2> QED BY <2>1 DEF Memory, Fields
  <1>3. Ready(r)
    BY <1>2, OnReady
  <1> QED BY <1>1, <1>3, ReadStep

(* The checks of a validation, in their order.                             *)
Checks == {"criteria", "counts", "empty", "available", "answers"}
LEMMA CheckGoesOn ==
    ASSUME NEW e \in Editors, CheckVersion(e)
    PROVE  /\ Reads /\ ed[e].pc \in Checks
           /\ Answer(e) \/ \E pc \in Checks \cup {"supersede"} : Goto(e, pc)
  BY DEF CheckVersion, Check, Checks, At

LEMMA CheckStep ==
    ASSUME Shape, Late, NEW e \in Editors,
           SaveCompare(e) \/ CheckMetadata(e) \/ CheckVersion(e)
    PROVE  Shape' /\ Late' /\ UNCHANGED <<status, sound, tree>>
  <1>1. Checks \cup {"compare", "save", "metadata", "supersede"} \subseteq Guarded \ Publishing
    BY DEF Guarded, Pcs, Cloning, Publishing, Checks
  <1>2. CASE SaveCompare(e)
    BY <1>1, <1>2, UncrossedStep, AnswerStep DEF SaveCompare, At
  <1>3. CASE CheckMetadata(e)
    BY <1>1, <1>3, UncrossedStep, AnswerStep DEF CheckMetadata, At, Checks
  <1>4. CASE CheckVersion(e)
    <2>1. Reads /\ ed[e].pc \in Guarded
      BY <1>1, <1>4, CheckGoesOn
    <2>2. Answer(e) \/ \E pc \in Guarded \ Publishing : Goto(e, pc)
      BY <1>1, <1>4, CheckGoesOn
    <2> QED BY <2>1, <2>2, GoOn, AnswerStep
  <1> QED BY <1>2, <1>3, <1>4

(* A publication before its commit.                                        *)
LEMMA SupersedeStep ==
    ASSUME Shape, Late, NEW e \in Editors,
           PublishSupersede(e) \/ PublishWait(e) \/ PublishMark(e)
    PROVE  Shape' /\ Late' /\ UNCHANGED <<status, sound, tree>>
  <1>1. ed[e].pc \in Guarded /\ Publishing \subseteq Guarded
    BY DEF PublishSupersede, PublishWait, PublishMark, At, Guarded, Publishing, Pcs, Cloning
  <1>2. ASSUME NEW pc \in Publishing, NEW rows,
               \A v \in rows : v \in Versions /\ Frozen(v)
        PROVE  Ready([ed[e] EXCEPT !.rows = rows, !.pc = pc])
    <2> DEFINE r == [ed[e] EXCEPT !.rows = rows, !.pc = pc]
    <2>1. Memory(r) /\ r.pc = pc /\ r.v = ed[e].v /\ r.late = ed[e].late /\ r.rows = rows
      <3>1. Memory(ed[e])
        BY DEF Shape
      <3> QED BY <3>1 DEF Memory, Fields
    <2> QED BY <1>1, <1>2, <2>1, OnReady
  <1>3. CASE PublishSupersede(e)
    <2> DEFINE pc == IF \E v \in PublishedNow : Locked(v) THEN "wait" ELSE "mark"
               r == [ed[e] EXCEPT !.rows = PublishedNow, !.pc = pc]
    <2>1. ed' = [ed EXCEPT ![e] = r] /\ Reads
      BY <1>3 DEF PublishSupersede
    <2>2. Ready(r)
      BY <1>2 DEF PublishedNow, Frozen, Publishing
    <2> QED BY <2>1, <2>2, ReadStep
  <1>4. CASE PublishWait(e)
    <2> DEFINE r == [ed[e] EXCEPT !.rows = ed[e].rows \cap PublishedNow, !.pc = "mark"]
    <2>1. ed' = [ed EXCEPT ![e] = r] /\ Reads
      BY <1>4 DEF PublishWait
    <2>2. Ready(r)
      BY <1>2 DEF PublishedNow, Frozen, Publishing
    <2> QED BY <2>1, <2>2, ReadStep
  <1>5. CASE PublishMark(e)
    <2>1. Goto(e, "publish") /\ Reads /\ ed[e].pc = "mark"
      BY <1>5 DEF PublishMark, At
    <2>2. Others(e) /\ Ready(ed'[e])
      BY <1>1, <2>1, GotoMemory, OnReady DEF Late, Publishing
    <2> QED BY <2>1, <2>2, SameStatus DEF Reads, content, Shape
  <1> QED BY <1>3, <1>4, <1>5

-----------------------------------------------------------------------------
(* What PublishedIsImmutable says of one step.                             *)
FrozenStep ==
    \A v \in Versions :
        (/\ status[v] \in {"published", "superseded"}
         /\ \/ tree'[v] # tree[v] \/ sound'[v] # sound[v]
            \/ status[v] = "superseded" /\ status'[v] # "superseded")
        => \E e \in Editors : ed[e].v = v /\ ed[e].late /\ ed'[e] # ed[e]

LEMMA Untouched == UNCHANGED <<status, sound, tree>> => FrozenStep
  BY DEF FrozenStep

(* A statement that writes a version's tree.                               *)
LEMMA WriterStep ==
    ASSUME Shape, Late, NEW e \in Editors, ed[e].pc \in Guarded, NEW t, NEW next,
           Write(e, t, next), Ready(next), next.pc # ed[e].pc
    PROVE  Shape' /\ Late' /\ FrozenStep
  <1>1. /\ Shape' /\ Late' /\ UNCHANGED <<status, sound>>
        /\ tree' = [tree EXCEPT ![ed[e].v] = t]
    BY WriteStep
  <1>2. ed'[e] # ed[e]
    <2>1. ed'[e] = next
      BY DEF Write
    <2> QED BY <2>1
  <1>3. ASSUME NEW v \in Versions, Frozen(v), tree'[v] # tree[v]
        PROVE  ed[e].v = v /\ ed[e].late
    <2>1. ed[e].v = v
      BY <1>1, <1>3 DEF Shape
    <2> QED BY <1>3, <2>1 DEF Late
  <1>4. FrozenStep
    BY <1>1, <1>2, <1>3 DEF FrozenStep, Frozen
  <1> QED BY <1>1, <1>4

LEMMA GuardedPcs ==
    {"insert", "delete", "update", "list", "renumber", "question", "save", "overwrite",
     "metadata", "store", "publish"} \subseteq Guarded /\ NoEdit.pc \notin Guarded
  BY DEF Guarded, Pcs, Cloning, NoEdit

LEMMA WritersStep ==
    ASSUME Shape, Late, NEW e \in Editors,
           \/ \E x \in Ids, body \in Bodies \cup {Blank, Written}, visible, required \in BOOLEAN :
                CreateInsert(e, x, body, visible, required)
           \/ Delete(e) \/ ReorderWrite(e) \/ Save(e)
           \/ \E visible, required \in BOOLEAN : Update(e, visible, required)
           \/ \E body \in Bodies : UpdateQuestion(e, body)
    PROVE  Shape' /\ Late' /\ FrozenStep
  <1>w. ASSUME NEW t, Write(e, t, NoEdit), ed[e].pc \in Guarded
        PROVE  Shape' /\ Late' /\ FrozenStep
    BY <1>w, WriterStep, IdleReady, GuardedPcs
  <1>a. ASSUME Answer(e), Reads PROVE Shape' /\ Late' /\ FrozenStep
    BY <1>a, AnswerStep, Untouched
  <1>1. ASSUME NEW x \in Ids, NEW body, NEW visible, NEW required,
               CreateInsert(e, x, body, visible, required)
        PROVE  Shape' /\ Late' /\ FrozenStep
    <2>1. ed[e].pc \in Guarded
      BY <1>1, GuardedPcs DEF CreateInsert, At
    <2>2. (Answer(e) /\ Reads) \/ \E t : Write(e, t, NoEdit)
      BY <1>1 DEF CreateInsert
    <2> QED BY <1>w, <1>a, <2>1, <2>2
  <1>2. CASE Delete(e)
    <2>1. ed[e].pc \in Guarded /\ \E t : Write(e, t, NoEdit)
      BY <1>2, GuardedPcs DEF Delete, At
    <2> QED BY <1>w, <2>1
  <1>3. CASE ReorderWrite(e)
    <2>1. ed[e].pc \in Guarded
      BY <1>3, GuardedPcs DEF ReorderWrite, At
    <2>2. (Answer(e) /\ Reads) \/ \E t : Write(e, t, NoEdit)
      BY <1>3 DEF ReorderWrite
    <2> QED BY <1>w, <1>a, <2>1, <2>2
  <1>4. CASE Save(e)
    <2>1. ed[e].pc \in Guarded
      BY <1>4, GuardedPcs DEF Save, At
    <2>2. (Answer(e) /\ Reads) \/ \E t : Write(e, t, NoEdit)
      BY <1>4 DEF Save
    <2> QED BY <1>w, <1>a, <2>1, <2>2
  <1>5. ASSUME NEW body, UpdateQuestion(e, body)
        PROVE  Shape' /\ Late' /\ FrozenStep
    <2>1. ed[e].pc \in Guarded
      BY <1>5, GuardedPcs DEF UpdateQuestion, At
    <2>2. (Answer(e) /\ Reads) \/ \E t : Write(e, t, NoEdit)
      BY <1>5 DEF UpdateQuestion
    <2> QED BY <1>w, <1>a, <2>1, <2>2
  <1>6. ASSUME NEW visible, NEW required, Update(e, visible, required)
        PROVE  Shape' /\ Late' /\ FrozenStep
    <2> DEFINE listing == [ed[e] EXCEPT !.pc = "list"]
    <2>1. ed[e].pc = "update"
      BY <1>6 DEF Update, At
    <2>2. PICK t : Write(e, t, NoEdit) \/ Write(e, t, listing)
      BY <1>6 DEF Update
    <2>3. listing.pc = "list" /\ Ready(listing)
      <3>1. Memory(ed[e])
        BY DEF Shape
      <3>2. Memory(listing) /\ listing.pc = "list" /\ listing.v = ed[e].v
            /\ listing.late = ed[e].late
        BY <3>1 DEF Memory, Fields
      <3> QED BY <2>1, <3>2, OnReady DEF Guarded, Pcs, Cloning, Publishing
    <2> QED BY <1>w, <2>1, <2>2, <2>3, WriterStep, GuardedPcs
  <1> QED BY <1>1, <1>2, <1>3, <1>4, <1>5, <1>6

(* Another request's memory with crossed or late set.                      *)
LEMMA MarkedKept ==
    ASSUME Shape, NEW f \in Editors, NEW x,
           \/ ed'[f] = ed[f] \/ ed'[f] = [ed[f] EXCEPT !.crossed = x]
           \/ ed'[f] = [ed[f] EXCEPT !.late = TRUE]
    PROVE  Kept(f)
  <1>1. Memory(ed[f])
    BY DEF Shape
  <1> QED BY <1>1 DEF Kept, Memory, Fields

LEMMA CriteriaStep ==
    ASSUME Shape, Late, NEW e \in Editors, NEW ok \in BOOLEAN, SetCriteria(e, ok)
    PROVE  Shape' /\ Late' /\ FrozenStep
  <1> DEFINE r == [ed[e] EXCEPT !.pc = "metadata"]
  <1>1. ed[e].pc = "store" /\ UNCHANGED <<status, tree, copy>> /\ ed'[e] = r
        /\ sound' = [sound EXCEPT ![ed[e].v] = ok]
    BY DEF SetCriteria, At
  <1>2. Ready(r) /\ r.pc = "metadata"
    <2>1. Memory(ed[e])
      BY DEF Shape
    <2>2. Memory(r) /\ r.pc = "metadata" /\ r.v = ed[e].v /\ r.late = ed[e].late
      BY <2>1 DEF Memory, Fields
    <2> QED BY <1>1, <2>2, OnReady DEF Guarded, Pcs, Cloning, Publishing
  <1>3. Others(e)
    <2>1. ASSUME NEW f \in Editors \ {e} PROVE Kept(f)
      BY MarkedKept DEF SetCriteria
    <2> QED BY <2>1 DEF Others, SetCriteria
  <1>4. Shape' /\ Late'
    <2> HIDE DEF r
    <2> QED BY <1>1, <1>2, <1>3, SameStatus DEF Shape
  <1>5. ASSUME NEW v \in Versions, Frozen(v), sound'[v] # sound[v]
        PROVE  ed[e].v = v /\ ed[e].late
    <2>1. ed[e].v = v
      BY <1>1, <1>5 DEF Shape
    <2> QED BY <1>1, <1>5, <2>1 DEF Late, Guarded, Pcs, Cloning
  <1>6. ed'[e] # ed[e]
    BY <1>1, <1>2
  <1> QED BY <1>1, <1>4, <1>5, <1>6 DEF FrozenStep, Frozen

LEMMA CommitStep ==
    ASSUME Shape, Late, NEW e \in Editors, PublishCommit(e)
    PROVE  Shape' /\ Late' /\ FrozenStep
  <1>1. ed[e].pc = "publish" /\ ed[e].pc \in Guarded /\ UNCHANGED <<sound, tree, copy>>
        /\ ed'[e] = NoEdit /\ NoEdit.pc = "idle"
    BY DEF PublishCommit, Committed, At, content, Guarded, Pcs, Cloning, NoEdit
  <1>2. /\ status' = [w \in Versions |-> status'[w]]
        /\ \A w \in Versions : status'[w] = IF w = ed[e].v THEN "published"
                               ELSE IF w \in ed[e].rows THEN "superseded" ELSE status[w]
    BY DEF PublishCommit
  <1>3. ed[e].v \in Versions
    BY <1>1 DEF Shape
  <1>4. \A w \in ed[e].rows : w \in Versions /\ Frozen(w)
    BY <1>1 DEF Late
  <1>5. \A f \in Editors \ {e} : Kept(f) /\ (ed[f].v = ed[e].v => ed'[f].late)
    <2>1. ASSUME NEW f \in Editors \ {e}
          PROVE  /\ ed'[f] = IF ed[f].v = ed[e].v THEN [ed[f] EXCEPT !.late = TRUE] ELSE ed[f]
                 /\ Memory(ed[f])
      BY DEF PublishCommit, Committed, Shape
    <2>2. ASSUME NEW f \in Editors \ {e}, ed[f].v = ed[e].v PROVE ed'[f].late
      BY <2>1, <2>2 DEF Memory, Fields
    <2>3. ASSUME NEW f \in Editors \ {e} PROVE Kept(f)
      BY <2>1, MarkedKept
    <2> QED BY <2>2, <2>3
  <1>6. \A f \in Editors : Memory(ed'[f])
    BY <1>1, <1>5, NoEditMemory DEF Kept
  <1>7. Shape'
    <2>1. ed' = [f \in Editors |-> ed'[f]]
      BY DEF PublishCommit, Committed
    <2>2. \A f \in Editors : ed'[f].pc \in Guarded \cup {"typing"} => ed'[f].v \in Versions
      BY <1>1, <1>5 DEF Kept, Shape, Guarded, Pcs, Cloning
    <2> QED BY <1>1, <1>2, <1>6, <2>1, <2>2 DEF Shape
  <1>8. \A w \in Versions : Frozen(w) => status'[w] \in {"published", "superseded"}
    BY <1>2 DEF Frozen
  <1>9. \A w \in Versions \ {ed[e].v} : status'[w] \in {"published", "superseded"} => Frozen(w)
    BY <1>2, <1>4 DEF Frozen
  <1>10. Late'
    <2>0. \A w \in Versions : status[w] = "none" /\ w # ed[e].v => status'[w] = "none"
      BY <1>2, <1>4 DEF Frozen
    <2>3. status[ed[e].v] # "none"
      BY <1>1 DEF Late
    <2>4. ASSUME NEW f \in Editors, ed'[f].pc \in Cloning PROVE Free(f, ed[f].n)'
      <3>1. f # e
        BY <1>1, <2>4 DEF Cloning
      <3>2. ed[f].pc \in Cloning /\ ed'[f].n = ed[f].n /\ Free(f, ed[f].n)
        BY <1>5, <2>4, <3>1 DEF Kept, Late
      <3>3. ed[f].n \in Versions => status'[ed[f].n] = "none"
        BY <2>0, <2>3, <3>2 DEF Free
      <3>4. \A g \in Editors \ {f} : ed'[g].pc \in Cloning => ed'[g].n # ed[f].n
        BY <1>1, <1>5, <3>2 DEF Kept, Free, Cloning
      <3> QED BY <3>2, <3>3, <3>4 DEF Free
    <2>5. ASSUME NEW f \in Editors, ed'[f].pc \in Guarded PROVE status'[ed'[f].v] # "none"
      <3>1. f # e
        BY <1>1, <2>5 DEF Guarded
      <3>2. ed[f].pc \in Guarded /\ ed'[f].v = ed[f].v /\ ed[f].v \in Versions
            /\ status[ed[f].v] # "none"
        BY <1>5, <2>5, <3>1 DEF Kept, Shape, Late
      <3> QED BY <1>2, <3>2
    <2>1. ASSUME NEW f \in Editors, ed'[f].pc \in Guarded,
                 status'[ed'[f].v] \in {"published", "superseded"}
          PROVE  ed'[f].late
      <3>1. f # e
        BY <1>1, <2>1 DEF Guarded
      <3>2. ed[f].pc \in Guarded /\ ed'[f].v = ed[f].v /\ ed[f].v \in Versions
        BY <1>5, <2>1, <3>1 DEF Kept, Shape
      <3> QED BY <1>5, <1>9, <2>1, <3>1, <3>2 DEF Kept, Late, Frozen
    <2>2. ASSUME NEW f \in Editors, ed'[f].pc \in {"wait", "mark", "publish"},
                 NEW w \in ed'[f].rows
          PROVE  w \in Versions /\ Frozen(w)'
      <3>1. f # e
        BY <1>1, <2>2
      <3>2. w \in Versions /\ Frozen(w)
        BY <1>5, <2>2, <3>1 DEF Kept, Late
      <3> QED BY <1>8, <3>2 DEF Frozen
    <2> QED BY <2>1, <2>2, <2>4, <2>5 DEF Late, Frozen
  <1>11. FrozenStep
    <2>1. ASSUME NEW w \in Versions, status[w] = "superseded", status'[w] # "superseded"
          PROVE  ed[e].v = w /\ ed[e].late
      <3>1. ed[e].v = w
        BY <1>2, <2>1
      <3> QED BY <1>1, <2>1, <3>1 DEF Late, Frozen
    <2>2. ed'[e] # ed[e]
      BY <1>1
    <2> QED BY <1>1, <2>1, <2>2 DEF FrozenStep
  <1> QED BY <1>7, <1>10, <1>11

(* A draft's transaction: its request keeps the number that it inserted.   *)
LEMMA CloningStep ==
    ASSUME Shape, Late, NEW e \in Editors, NEW pc \in Cloning, Goto(e, pc),
           Free(e, ed[e].n), UNCHANGED status, sound' = [v \in Versions |-> sound'[v]],
           UNCHANGED tree, copy' = [f \in Editors |-> copy'[f]]
    PROVE  Shape' /\ Late'
  <1>1. /\ Others(e) /\ Memory(ed'[e])
        /\ ed'[e].pc = pc /\ ed'[e].v = ed[e].v /\ ed'[e].n = ed[e].n
    BY GotoMemory
  <1>2. pc \notin Guarded \cup {"typing"} /\ pc \notin {"wait", "mark", "publish"}
    BY DEF Guarded, Cloning
  <1>3. \A f \in Editors : Memory(ed'[f])
    BY <1>1 DEF Others, Kept
  <1>4. Shape'
    BY <1>1, <1>2, <1>3 DEF Shape, Others, Kept
  <1>5. \A f \in Editors : ed'[f].n = ed[f].n
    BY <1>1 DEF Others, Kept
  <1>6. \A f \in Editors \ {e} : ed'[f].pc = ed[f].pc
    BY <1>1 DEF Others, Kept
  <1>7. ASSUME NEW f \in Editors, ed'[f].pc \in Cloning PROVE Free(f, ed[f].n)'
    <2>1. Free(f, ed[f].n)
      BY <1>6, <1>7 DEF Late
    <2>2. \A g \in Editors \ {f} : ed'[g].pc \in Cloning => ed[g].n # ed[f].n
      <3>1. CASE f = e
        BY <1>6, <2>1, <3>1 DEF Free
      <3>2. CASE f # e
        <4>1. ed[e].n # ed[f].n
          BY <1>6, <1>7, <3>2 DEF Free
        <4> QED BY <1>6, <2>1, <4>1 DEF Free
      <3> QED BY <3>1, <3>2
    <2> QED BY <1>5, <2>1, <2>2 DEF Free
  <1>8. Late'
    BY <1>1, <1>2, <1>7 DEF Late, Others, Kept, Frozen
  <1> QED BY <1>4, <1>8

LEMMA InsertStep ==
    ASSUME Shape, Late, NEW e \in Editors, DraftInsert(e)
    PROVE  Shape' /\ Late' /\ FrozenStep
  <1> DEFINE v == ed[e].n
             pc == IF ed[e].from = 0 THEN "commit" ELSE "modules"
  <1>1. CASE Answer(e) /\ Reads
    BY <1>1, AnswerStep, Untouched
  <1>2. CASE status[v] = "none"
    <2>1. /\ Goto(e, pc) /\ UNCHANGED <<status, tree, copy>> /\ pc \in Cloning
          /\ \E ok : sound' = [sound EXCEPT ![v] = ok]
      BY <1>2 DEF DraftInsert, Cloning
    <2>2. Free(e, v)
      BY <1>2 DEF DraftInsert, Free
    <2>3. Shape' /\ Late'
      <3> HIDE DEF pc
      <3> QED BY <2>1, <2>2, CloningStep DEF Shape
    <2>4. \A w \in Versions : w # v => sound'[w] = sound[w]
      BY <2>1 DEF Shape
    <2> QED BY <1>2, <2>1, <2>3, <2>4 DEF FrozenStep
  <1> QED BY <1>1, <1>2 DEF DraftInsert

LEMMA CloneGoesOn ==
    ASSUME NEW e \in Editors, CloneVersionTree(e)
    PROVE  \E pc, next \in Cloning : \E kinds : Clone(e, pc, kinds, next)
  BY DEF CloneVersionTree, Cloning

LEMMA CloneStep ==
    ASSUME Shape, Late, NEW e \in Editors, CloneVersionTree(e)
    PROVE  Shape' /\ Late' /\ UNCHANGED <<status, sound, tree>>
  <1>1. PICK pc, next : /\ pc \in Cloning /\ next \in Cloning
                        /\ At(e, pc) /\ Goto(e, next) /\ UNCHANGED <<status, sound, tree>>
                        /\ \E t : copy' = [copy EXCEPT ![e] = t]
    BY CloneGoesOn DEF Clone
  <1>2. Free(e, ed[e].n)
    BY <1>1 DEF Late, At
  <1> QED BY <1>1, <1>2, CloningStep DEF Shape

LEMMA DraftCommitStep ==
    ASSUME Shape, Late, NEW e \in Editors, DraftCommit(e)
    PROVE  Shape' /\ Late' /\ FrozenStep
  <1> DEFINE new == ed[e].n
  <1>1. ed'[e] = NoEdit /\ Others(e)
    BY AnswerMemory DEF DraftCommit
  <1>2. Free(e, new)
    BY DEF DraftCommit, At, Cloning, Late
  <1>3. /\ status' = [w \in Versions |-> status'[w]]
        /\ UNCHANGED sound
        /\ tree' = [w \in Versions |-> tree'[w]]
        /\ copy' = [f \in Editors |-> copy'[f]]
    BY DEF DraftCommit, Shape
  <1>4. \A w \in Versions : w = new \/ (status'[w] = status[w] /\ tree'[w] = tree[w])
    BY DEF DraftCommit, Shape
  <1>5. new \in Versions => status'[new] = "draft" /\ status[new] = "none"
    BY <1>2 DEF DraftCommit, Shape, Free
  <1>6. \A w \in Versions : Frozen(w)' <=> Frozen(w)
    BY <1>4, <1>5 DEF Frozen
  <1>7. FrozenStep
    BY <1>3, <1>4, <1>5 DEF FrozenStep
  <1>8. Shape'
    <2>1. \A f \in Editors : Memory(ed'[f])
      BY <1>1, NoEditMemory DEF Others, Kept
    <2>2. \A f \in Editors : ed'[f].pc \in Guarded \cup {"typing"} => ed'[f].v \in Versions
      BY <1>1 DEF Others, Kept, Shape, Guarded, NoEdit
    <2> QED BY <1>1, <1>3, <2>1, <2>2 DEF Shape, Others
  <1>9. ASSUME NEW f \in Editors, ed'[f].pc # "idle"
        PROVE  f # e /\ Kept(f)
    BY <1>1, <1>9 DEF Others, NoEdit
  <1>10. ASSUME NEW f \in Editors, ed'[f].pc \in Guarded
         PROVE  /\ status'[ed'[f].v] # "none"
                /\ status'[ed'[f].v] \in {"published", "superseded"} => ed'[f].late
    <2>1. Kept(f) /\ ed[f].pc \in Guarded /\ ed'[f].v = ed[f].v /\ ed[f].v \in Versions
      BY <1>9, <1>10 DEF Kept, Shape, Guarded
    <2>2. status[ed[f].v] # "none" /\ (Frozen(ed[f].v) => ed[f].late)
      BY <2>1 DEF Late
    <2>3. status'[ed[f].v] # "none"
      BY <1>4, <1>5, <2>1, <2>2
    <2> QED BY <1>6, <2>1, <2>2, <2>3 DEF Kept, Frozen
  <1>11. ASSUME NEW f \in Editors, ed'[f].pc \in Cloning PROVE Free(f, ed[f].n)'
    <2>1. f # e /\ ed[f].pc \in Cloning /\ ed'[f].n = ed[f].n /\ Free(f, ed[f].n)
      BY <1>9, <1>11 DEF Kept, Late, Cloning
    <2>2. ed[f].n # new
      BY <1>2, <2>1 DEF Free
    <2>3. ed[f].n \in Versions => status'[ed[f].n] = "none"
      BY <1>4, <2>1, <2>2 DEF Free
    <2>4. \A g \in Editors \ {f} : ed'[g].pc \in Cloning => ed'[g].n # ed[f].n
      BY <1>9, <2>1 DEF Kept, Free, Cloning
    <2> QED BY <2>1, <2>3, <2>4 DEF Free
  <1>12. ASSUME NEW f \in Editors, ed'[f].pc \in {"wait", "mark", "publish"}, NEW w \in ed'[f].rows
         PROVE  w \in Versions /\ status'[w] \in {"published", "superseded"}
    BY <1>6, <1>9, <1>12 DEF Kept, Late, Frozen
  <1>13. Late'
    BY <1>10, <1>11, <1>12 DEF Late, Frozen
  <1> QED BY <1>7, <1>8, <1>13

(* A disconnection undoes what the transaction inserted.                   *)
LEMMA DropStep ==
    ASSUME Shape, Late, NEW e \in Editors, Drop(e)
    PROVE  Shape' /\ Late' /\ UNCHANGED <<status, sound, tree>>
  <1>1. Others(e) /\ Ready(ed'[e])
    BY AnswerMemory, IdleReady DEF Drop
  <1> QED BY <1>1, SameStatus DEF Drop, Shape

(* A draft's first two statements, the course's own handlers, and the end  *)
(* of a request.                                                           *)
LEMMA DraftStep ==
    ASSUME Shape, Late, NEW e \in Editors, DraftSearch(e) \/ DraftNumber(e)
    PROVE  Shape' /\ Late' /\ UNCHANGED <<status, sound, tree>>
  <1>1. CASE DraftSearch(e)
    <2>1. CASE Answer(e)
      BY <1>1, <2>1, AnswerStep DEF DraftSearch
    <2>2. CASE Goto(e, "number")
      <3>1. Others(e) /\ Ready(ed'[e])
        BY <2>2, GotoMemory DEF Ready, Guarded, Pcs, Cloning
      <3> QED BY <1>1, <3>1, SameStatus DEF DraftSearch, Reads, content, Shape
    <2> QED BY <1>1, <2>1, <2>2 DEF DraftSearch
  <1>2. CASE DraftNumber(e)
    <2> DEFINE n == 1 + Max({v \in Versions : status[v] # "none"})
               current == course.current
               r == [ed[e] EXCEPT !.pc = "version", !.n = n, !.from = current]
    <2>1. ed' = [ed EXCEPT ![e] = r] /\ Reads
      BY <1>2 DEF DraftNumber
    <2>2. Memory(r) /\ r.pc = "version"
      <3> HIDE DEF n, current
      <3>1. Memory(ed[e])
        BY DEF Shape
      <3> QED BY <3>1 DEF Memory, Fields
    <2>3. Ready(r)
      BY <2>2 DEF Ready, Guarded, Pcs, Cloning
    <2> QED BY <2>1, <2>3, ReadStep
  <1> QED BY <1>1, <1>2

LEMMA CourseStep ==
    ASSUME Shape, Late, Unpublish \/ \E filled \in BOOLEAN : UpdateCourse(filled)
    PROVE  Shape' /\ Late' /\ UNCHANGED <<status, sound, tree>>
  <1>1. CASE Unpublish
    <2>1. UNCHANGED <<status, sound, tree, copy, ed>>
      BY <1>1 DEF Unpublish, content
    <2> QED BY <2>1 DEF Shape, Late, Frozen, Free
  <1>2. ASSUME NEW filled \in BOOLEAN, UpdateCourse(filled)
        PROVE  Shape' /\ Late' /\ UNCHANGED <<status, sound, tree>>
    <2>1. UNCHANGED <<status, sound, tree, copy>> /\ ed' = [f \in Editors |-> ed'[f]]
      BY <1>2 DEF UpdateCourse, content
    <2>2. \A f \in Editors : Kept(f)
      BY <1>2, MarkedKept DEF UpdateCourse
    <2>3. Shape'
      BY <2>1, <2>2 DEF Shape, Kept
    <2>4. Late'
      BY <2>1, <2>2 DEF Late, Kept, Frozen, Free
    <2> QED BY <2>1, <2>3, <2>4
  <1> QED BY <1>1, <1>2

LEMMA NextStep ==
    ASSUME Shape, Late, [Next]_vars
    PROVE  Shape' /\ Late' /\ FrozenStep
  <1>1. ASSUME NEW e \in Editors, Request(e) PROVE Shape' /\ Late' /\ FrozenStep
    BY <1>1, RequestStep, Untouched
  <1>2. ASSUME NEW e \in Editors, Statement(e) PROVE Shape' /\ Late' /\ FrozenStep
    <2>1. ASSUME \/ CreateMax(e) \/ \E n \in 0 .. LastPosition : ReorderList(e, n)
                 \/ SaveGuard(e) \/ SaveCompare(e) \/ CheckMetadata(e) \/ CheckVersion(e)
                 \/ PublishSupersede(e) \/ PublishWait(e) \/ PublishMark(e)
                 \/ DraftSearch(e) \/ DraftNumber(e) \/ CloneVersionTree(e) \/ Drop(e)
          PROVE  Shape' /\ Late' /\ FrozenStep
      <3>1. Shape' /\ Late' /\ UNCHANGED <<status, sound, tree>>
        BY <2>1, CreateMaxStep, ReorderListStep, SaveGuardStep, CheckStep, SupersedeStep,
           DraftStep, CloneStep, DropStep
      <3> QED BY <3>1, Untouched
    <2> QED BY <1>2, <2>1, WritersStep, CriteriaStep, CommitStep, InsertStep, DraftCommitStep
            DEF Statement
  <1>3. CASE Unpublish \/ \E filled \in BOOLEAN : UpdateCourse(filled)
    BY <1>3, CourseStep, Untouched
  <1>4. CASE UNCHANGED vars
    <2>1. UNCHANGED <<status, sound, tree, copy, ed>>
      BY <1>4 DEF vars
    <2> QED BY <2>1, Untouched DEF Shape, Late, Frozen, Free
  <1> QED BY <1>1, <1>2, <1>3, <1>4 DEF Next

(* Every later request finds a published version immutable: what changes   *)
(* it is a request whose guard was passed before the publication.          *)
THEOREM PublishedStays == Spec => PublishedIsImmutable
  <1>1. Init => Shape /\ Late
    BY InitShape
  <1>2. Shape /\ Late /\ [Next]_vars => Shape' /\ Late' /\ [FrozenStep]_vars
    BY NextStep
  <1> QED BY <1>1, <1>2, PTL DEF Spec, PublishedIsImmutable, FrozenStep

-----------------------------------------------------------------------------
(* The course and the version it shows.                                    *)
Shown ==
    /\ course = [status |-> course.status, current |-> course.current]
    /\ course.current # 0 => course.current \in Versions /\ status[course.current] = "published"
    /\ course.status = "published" => course.current # 0

LEMMA InitShown == Init => Shown
  BY VersionsAssumption DEF Init, Shown, Versions

LEMMA NextShown ==
    ASSUME Shape, Late, Shown, [Next]_vars
    PROVE  Shown'
  <1>1. ASSUME UNCHANGED <<course, status>> PROVE Shown'
    BY <1>1 DEF Shown
  <1>2. ASSUME NEW e \in Editors, PublishCommit(e) PROVE Shown'
    <2>1. ed[e].v \in Versions
      BY <1>2 DEF PublishCommit, At, Shape, Guarded, Pcs, Cloning
    <2>2. status'[ed[e].v] = "published"
      BY <1>2, <2>1 DEF PublishCommit
    <2>3. course' = [status |-> "published", current |-> ed[e].v] /\ ed[e].v # 0
      BY <1>2, <2>1 DEF PublishCommit, Committed, Versions
    <2> QED BY <2>1, <2>2, <2>3 DEF Shown
  <1>3. ASSUME NEW e \in Editors, DraftCommit(e) PROVE Shown'
    <2>1. course' = course
      BY <1>3 DEF DraftCommit
    <2>2. Free(e, ed[e].n)
      BY <1>3 DEF DraftCommit, At, Cloning, Late
    <2>3. course.current # 0 => status'[course.current] = "published"
      BY <1>3, <2>2 DEF DraftCommit, Shown, Shape, Free
    <2> QED BY <2>1, <2>3 DEF Shown
  <1>4. CASE Unpublish
    <2>1. status' = status /\ course' = [course EXCEPT !.status = "unpublished"]
      BY <1>4 DEF Unpublish
    <2>2. course' = [status |-> "unpublished", current |-> course.current]
      BY <2>1 DEF Shown
    <2> QED BY <2>1, <2>2 DEF Shown
  <1>5. ASSUME NEW e \in Editors, Request(e) PROVE UNCHANGED <<course, status>>
    BY <1>5 DEF Request, CreateGuard, DeleteGuard, UpdateGuard, QuestionGuard, ReadContent,
       PublishGuard, DraftBegin, Guard
  <1>6. ASSUME NEW e \in Editors, Statement(e), ~PublishCommit(e), ~DraftCommit(e)
        PROVE  UNCHANGED <<course, status>>
    <2>1. CASE CheckVersion(e) \/ CloneVersionTree(e)
      BY <2>1, CheckGoesOn, CloneGoesOn DEF Clone, Reads
    <2> QED BY <1>6, <2>1 DEF Statement, CreateMax, CreateInsert, Delete, Update, ReorderList,
       ReorderWrite, UpdateQuestion, SaveGuard, SaveCompare, Save, SetCriteria, CheckMetadata,
       PublishSupersede, PublishWait, PublishMark, DraftSearch, DraftNumber, DraftInsert,
       Drop, Write, Reads
  <1> QED BY <1>1, <1>2, <1>3, <1>4, <1>5, <1>6 DEF Next, UpdateCourse, vars

(* The version students are sent to is a published one, and a published    *)
(* course has one, whatever publications and drafts overlap.               *)
THEOREM CurrentStaysPublished == Spec => []CurrentIsPublished
  <1>1. Init => Shape /\ Late /\ Shown
    BY InitShape, InitShown
  <1>2. Shape /\ Late /\ Shown /\ [Next]_vars => Shape' /\ Late' /\ Shown'
    BY NextStep, NextShown
  <1>3. Shown => CurrentIsPublished
    BY DEF Shown, CurrentIsPublished
  <1> QED BY <1>1, <1>2, <1>3, PTL DEF Spec
-----------------------------------------------------------------------------
(* The trees, what requests know of them, and what they do to them.        *)

(* A node is a row, and its parent is there; the ids of all the trees have *)
(* been drawn.                                                             *)
Columns == {"parent", "position", "visible", "required", "body", "revision"}
NodeRow(r) == r = [c \in Columns |-> r[c]] /\ r.revision \in Nat
Grown(t) ==
    /\ t = [s \in DOMAIN t |-> t[s]] /\ DOMAIN t \subseteq Ids
    /\ \A s \in DOMAIN t : NodeRow(t[s])
    /\ Hangs(t)
Forest ==
    \A v \in Versions :
        /\ Grown(tree[v]) /\ DOMAIN tree[v] \cap spare = {}
        /\ status[v] = "none" => DOMAIN tree[v] = {}
Copies == \A e \in Editors : Grown(copy[e]) /\ DOMAIN copy[e] \cap spare = {}

(* The text that an author read is the one with its revision, and a save   *)
(* that nothing crossed has found that revision.                           *)
Saving == {"typing", "compare", "save"}
ReadHolds(r) ==
    /\ r.s \in Ids \ spare /\ Kind[r.s] = "text"
    /\ r.s \in DOMAIN tree[r.v] =>
         LET row == tree[r.v][r.s] IN
         /\ row.revision >= r.n
         /\ row.revision = r.n => row.body = r.body
         /\ r.pc = "save" /\ ~r.crossed => row.revision = r.n

(* A publication that nothing crossed has found in order what it checked.  *)
Validated == {"supersede", "wait", "mark", "publish"}
ValidHolds(r) == ~r.crossed =>
    /\ r.pc \in Checks \cup Validated => described
    /\ r.pc \in {"counts", "empty", "available", "answers"} \cup Validated => sound[r.v]
    /\ r.pc \in {"empty", "available", "answers"} \cup Validated => Counted(r.v)
    /\ r.pc \in {"available", "answers"} \cup Validated => NoneEmpty(r.v)
    /\ r.pc \in {"answers"} \cup Validated => Available(r.v)
    /\ r.pc \in Validated => Answerable(r.v)

Knows(r) ==
    /\ r.pc \in Guarded \cup {"typing"} => status[r.v] # "none"
    /\ r.pc = "delete" => r.s # Top
    /\ r.pc = "question" => Kind[r.s] = "question"
    /\ r.pc \in Saving => r.n \in Nat /\ ReadHolds(r)
    /\ r.pc \in Cloning \cup {"version"} => r.from \in {0} \cup Versions
    /\ r.pc \in Cloning \ {"commit"} => r.from # 0
    /\ ValidHolds(r)
Informed == \A e \in Editors : Knows(ed[e])

(* What becomes of the rows of a tree: no text is replaced without another *)
(* revision, and rows that were not there have new ids.                    *)
Advances(t, u) ==
    \A s \in DOMAIN u :
        \/ s \in spare
        \/ /\ s \in DOMAIN t
           /\ Kind[s] = "text" => /\ u[s].revision >= t[s].revision
                                  /\ u[s].revision = t[s].revision => u[s].body = t[s].body

(* The same rows under the same parents.                                   *)
Kin(t, u) ==
    /\ u = [s \in DOMAIN t |-> u[s]]
    /\ \A s \in DOMAIN t : NodeRow(u[s]) /\ u[s].parent = t[s].parent

LEMMA KinGrown ==
    ASSUME NEW t, NEW u, Grown(t), Kin(t, u)
    PROVE  Grown(u) /\ DOMAIN u = DOMAIN t
  <1>1. DOMAIN u = DOMAIN t
    BY DEF Kin
  <1>2. Hangs(u)
    BY <1>1 DEF Grown, Kin, Hangs
  <1> QED BY <1>1, <1>2 DEF Grown, Kin

LEMMA ParentKinds ==
    /\ ParentKind["module"] = "top" /\ ParentKind["unit"] = "module"
    /\ ParentKind["text"] = "unit" /\ ParentKind["quiz"] = "unit"
    /\ ParentKind["question"] = "quiz"
  BY DEF ParentKind

(* The kinds are four deep, so that nothing hangs below what Under takes.  *)
LEMMA KindsAreFourDeep ==
    ASSUME NEW a \in Ids, NEW b \in Ids, NEW c \in Ids, NEW d \in Ids, NEW x \in Ids,
           Kind[a] = ParentKind[Kind[b]], Kind[b] = ParentKind[Kind[c]],
           Kind[c] = ParentKind[Kind[d]], Kind[d] = ParentKind[Kind[x]]
    PROVE  FALSE
  <1>1. Kind[x] \in Kinds /\ Kind[d] \in Kinds /\ Kind[c] \in Kinds /\ Kind[b] \in Kinds
        /\ Kind[a] \in Kinds
    BY VersionsAssumption
  <1>2. Kind[d] \in {"module", "unit", "quiz"}
    BY <1>1, ParentKinds DEF Kinds
  <1>3. Kind[c] \in {"module", "unit"}
    BY <1>1, <1>2, ParentKinds DEF Kinds
  <1>4. Kind[b] = "module"
    BY <1>1, <1>3, ParentKinds DEF Kinds
  <1> QED BY <1>1, <1>4, ParentKinds DEF Kinds

(* A deletion leaves no orphan.                                            *)
LEMMA PruneGrown ==
    ASSUME NEW t, NEW s, Grown(t), s # Top
    PROVE  Grown(Prune(t, s)) /\ DOMAIN Prune(t, s) \subseteq DOMAIN t
           /\ Advances(t, Prune(t, s))
  <1> DEFINE one == Children(t, {s})
             two == Children(t, one)
             three == Children(t, two)
             u == Prune(t, s)
  <1>1. /\ u = [x \in DOMAIN u |-> u[x]] /\ DOMAIN u = DOMAIN t \ ({s} \cup one \cup two \cup three)
        /\ \A x \in DOMAIN u : u[x] = t[x]
    BY DEF Prune, Under
  <1>2. one \subseteq DOMAIN t /\ two \subseteq DOMAIN t /\ three \subseteq DOMAIN t
    BY DEF Children
  <1>3. DOMAIN t \subseteq Ids /\ Hangs(t) /\ Top \notin Ids
    BY VersionsAssumption DEF Grown
  <1>4. ASSUME NEW x \in DOMAIN t, t[x].parent # Top
        PROVE  t[x].parent \in Ids /\ Kind[t[x].parent] = ParentKind[Kind[x]] /\ x \in Ids
               /\ t[x].parent \in DOMAIN t
    BY <1>3, <1>4 DEF Hangs
  <1>5. ASSUME NEW x \in DOMAIN u, t[x].parent # Top
        PROVE  t[x].parent \in DOMAIN u
    <2> DEFINE p == t[x].parent
    <2>1. x \in DOMAIN t /\ p \in DOMAIN t
      BY <1>1, <1>4, <1>5
    <2>2. p # s /\ p \notin one /\ p \notin two
      BY <1>1, <2>1 DEF Children
    <2>3. ASSUME p \in three PROVE FALSE
      <3> DEFINE c == t[p].parent
                 b == t[c].parent
                 a == t[b].parent
      <3>1. c \in two /\ c \in DOMAIN t
        BY <1>2, <2>3 DEF Children
      <3>2. b \in one /\ b \in DOMAIN t
        BY <1>2, <3>1 DEF Children
      <3>3. a = s
        BY <3>2 DEF Children
      <3>4. c # Top /\ b # Top /\ a # Top
        BY <1>3, <3>1, <3>2, <3>3
      <3>5. p \in Ids /\ Kind[p] = ParentKind[Kind[x]] /\ x \in Ids
        BY <1>4, <1>5, <2>1
      <3>6. c \in Ids /\ Kind[c] = ParentKind[Kind[p]]
        BY <1>4, <2>1, <3>4
      <3>7. b \in Ids /\ Kind[b] = ParentKind[Kind[c]]
        BY <1>4, <3>1, <3>4
      <3>8. a \in Ids /\ Kind[a] = ParentKind[Kind[b]]
        BY <1>4, <3>2, <3>4
      <3> HIDE DEF a, b, c, p
      <3> QED BY <3>5, <3>6, <3>7, <3>8, KindsAreFourDeep
    <2> QED BY <1>1, <2>1, <2>2, <2>3
  <1>6. Hangs(u)
    BY <1>1, <1>3, <1>5 DEF Hangs
  <1>7. Grown(u)
    BY <1>1, <1>6 DEF Grown
  <1>8. Advances(t, u)
    <2> SUFFICES ASSUME NEW x \in DOMAIN u
                 PROVE  x \in DOMAIN t /\ u[x].revision >= t[x].revision /\ u[x].body = t[x].body
      BY DEF Advances
    <2>1. x \in DOMAIN t /\ u[x] = t[x]
      BY <1>1
    <2>2. t[x].revision \in Nat
      BY <2>1 DEF Grown, NodeRow
    <2> QED BY <2>1, <2>2
  <1> QED BY <1>1, <1>7, <1>8

(* A row put under a parent of its kind, over none that has children of    *)
(* another kind.                                                           *)
LEMMA InsertGrown ==
    ASSUME NEW t, Grown(t), NEW x \in Ids, NEW row, NodeRow(row), x \in spare,
           IF row.parent = Top THEN Kind[x] = "module"
           ELSE row.parent \in DOMAIN t /\ Kind[row.parent] = ParentKind[Kind[x]],
           NEW u, u = [y \in DOMAIN t \cup {x} |-> IF y # x THEN t[y] ELSE row]
    PROVE  Grown(u) /\ DOMAIN u = DOMAIN t \cup {x} /\ Advances(t, u)
  <1>1. DOMAIN u = DOMAIN t \cup {x} /\ \A y \in DOMAIN u : u[y] = IF y # x THEN t[y] ELSE row
    OBVIOUS
  <1>2. Hangs(u)
    BY <1>1 DEF Grown, Hangs
  <1>3. Grown(u)
    BY <1>1, <1>2 DEF Grown
  <1>4. Advances(t, u)
    <2> SUFFICES ASSUME NEW y \in DOMAIN u, y # x
                 PROVE  y \in DOMAIN t /\ u[y].revision >= t[y].revision /\ u[y].body = t[y].body
      BY DEF Advances
    <2>1. y \in DOMAIN t /\ u[y] = t[y]
      BY <1>1
    <2>2. t[y].revision \in Nat
      BY <2>1 DEF Grown, NodeRow
    <2> QED BY <2>1, <2>2
  <1> QED BY <1>1, <1>3, <1>4

(* The edits of one row.                                                   *)
LEMMA RowGrown ==
    ASSUME NEW t, Grown(t), NEW s, NEW row, NEW u, u = [t EXCEPT ![s] = row],
           s \in DOMAIN t => /\ NodeRow(row) /\ row.parent = t[s].parent
                             /\ row.revision >= t[s].revision
                             /\ row.revision = t[s].revision /\ Kind[s] = "text"
                                => row.body = t[s].body
    PROVE  Grown(u) /\ DOMAIN u = DOMAIN t /\ Advances(t, u)
  <1>1. t = [x \in DOMAIN t |-> t[x]]
    BY DEF Grown
  <1>2. DOMAIN u = DOMAIN t /\ \A x \in DOMAIN t : u[x] = IF x = s THEN row ELSE t[x]
    BY <1>1
  <1>3. Kin(t, u)
    BY <1>1, <1>2 DEF Kin, Grown
  <1>4. Advances(t, u)
    <2> SUFFICES ASSUME NEW x \in DOMAIN t
                 PROVE  /\ u[x].revision >= t[x].revision
                        /\ u[x].revision = t[x].revision /\ Kind[x] = "text"
                           => u[x].body = t[x].body
      BY <1>2 DEF Advances
    <2>1. t[x].revision \in Nat
      BY DEF Grown, NodeRow
    <2> QED BY <1>2, <2>1
  <1> QED BY <1>2, <1>3, <1>4, KinGrown

(* A request that goes on knowing what it knew, or is marked as crossed.   *)
Same(f) ==
    /\ ed'[f].pc = ed[f].pc /\ ed'[f].v = ed[f].v /\ ed'[f].s = ed[f].s
    /\ ed'[f].n = ed[f].n /\ ed'[f].body = ed[f].body /\ ed'[f].from = ed[f].from
    /\ ~ed'[f].crossed => ~ed[f].crossed

LEMMA MarkedSame ==
    ASSUME Shape, NEW f \in Editors,
           \/ ed'[f] = ed[f] \/ ed'[f] = [ed[f] EXCEPT !.crossed = TRUE]
           \/ ed'[f] = [ed[f] EXCEPT !.late = TRUE]
    PROVE  Same(f)
  <1>1. Memory(ed[f])
    BY DEF Shape
  <1>2. CASE ed'[f] = ed[f]
    BY <1>2 DEF Same
  <1>3. CASE ed'[f] = [ed[f] EXCEPT !.crossed = TRUE]
    BY <1>1, <1>3 DEF Same, Memory, Fields
  <1>4. CASE ed'[f] = [ed[f] EXCEPT !.late = TRUE]
    BY <1>1, <1>4 DEF Same, Memory, Fields
  <1> QED BY <1>2, <1>3, <1>4

LEMMA Crossed ==
    ASSUME Shape, NEW f \in Editors, ed'[f] = [ed[f] EXCEPT !.crossed = TRUE]
    PROVE  ed'[f].crossed
  BY DEF Shape, Memory, Fields

(* What a step may do to the version of a request that it does not make.   *)
Spared(f) ==
    LET v == ed[f].v IN
    v \in Versions /\ status[v] # "none" =>
        /\ status'[v] # "none"
        /\ Advances(tree[v], tree'[v])
        /\ ~ed'[f].crossed => /\ described' = described /\ sound'[v] = sound[v]
                              /\ tree'[v] = tree[v]

LEMMA PcsOfVersions ==
    /\ Saving \cup Checks \cup Validated \cup {"delete", "question"} \subseteq Guarded \cup {"typing"}
    /\ \A pc \in Cloning \cup {"version"} : pc \notin Guarded \cup {"typing"}
  BY DEF Saving, Checks, Validated, Guarded, Pcs, Cloning

LEMMA SameKnows ==
    ASSUME Shape, Forest, Forest', NEW f \in Editors, Knows(ed[f]), Same(f), Spared(f),
           spare' \subseteq spare
    PROVE  Knows(ed[f])'
  <1>1. PICK v : v = ed[f].v /\ v = ed'[f].v
    BY DEF Same
  <1>2. PICK pc : pc = ed[f].pc /\ pc = ed'[f].pc
    BY DEF Same
  <1>3. /\ pc \in Cloning \cup {"version"} => ed'[f].from \in {0} \cup Versions
        /\ pc \in Cloning \ {"commit"} => ed'[f].from # 0
    BY <1>2 DEF Same, Knows
  <1>4. CASE pc \notin Guarded \cup {"typing"}
    <2>1. pc \notin Saving \cup Checks \cup Validated \cup {"delete", "question"}
      BY <1>4, PcsOfVersions
    <2>2. ValidHolds(ed[f])'
      BY <1>2, <2>1 DEF ValidHolds, Checks
    <2> QED BY <1>2, <1>3, <1>4, <2>1, <2>2 DEF Knows
  <1>5. CASE pc \in Guarded \cup {"typing"}
    <2>1. v \in Versions /\ status[v] # "none" /\ status'[v] # "none"
      BY <1>1, <1>2, <1>5 DEF Shape, Knows, Spared
    <2>2. Advances(tree[v], tree'[v])
      BY <1>1, <2>1 DEF Spared
    <2>3. ~ed'[f].crossed => /\ ~ed[f].crossed /\ described' = described
                             /\ sound'[v] = sound[v] /\ tree'[v] = tree[v]
      BY <1>1, <2>1 DEF Spared, Same
    <2>4. pc \in Saving => ed'[f].n \in Nat /\ ReadHolds(ed[f])'
      <3> SUFFICES ASSUME pc \in Saving PROVE ed'[f].n \in Nat /\ ReadHolds(ed[f])'
        OBVIOUS
      <3>1. ed[f].n \in Nat /\ ReadHolds(ed[f])
        BY <1>2 DEF Knows
      <3>2. PICK s, n, body : /\ s = ed[f].s /\ s = ed'[f].s /\ n = ed[f].n /\ n = ed'[f].n
                              /\ body = ed[f].body /\ body = ed'[f].body
        BY DEF Same
      <3>3. s \in Ids \ spare /\ Kind[s] = "text" /\ n \in Nat
        BY <3>1, <3>2 DEF ReadHolds
      <3>4. ASSUME s \in DOMAIN tree'[v]
            PROVE  /\ tree'[v][s].revision >= n
                   /\ tree'[v][s].revision = n => tree'[v][s].body = body
                   /\ pc = "save" /\ ~ed'[f].crossed => tree'[v][s].revision = n
        <4>1. s \in DOMAIN tree[v] /\ tree'[v][s].revision >= tree[v][s].revision
              /\ (tree'[v][s].revision = tree[v][s].revision
                    => tree'[v][s].body = tree[v][s].body)
          BY <2>2, <3>3, <3>4 DEF Advances
        <4>2. /\ tree[v][s].revision >= n
              /\ tree[v][s].revision = n => tree[v][s].body = body
              /\ pc = "save" /\ ~ed[f].crossed => tree[v][s].revision = n
          BY <1>1, <1>2, <3>1, <3>2, <4>1 DEF ReadHolds
        <4>3. tree'[v][s].revision \in Int /\ tree[v][s].revision \in Int
          <5>1. Grown(tree[v]) /\ Grown(tree'[v])
            BY <2>1 DEF Forest
          <5>2. NodeRow(tree[v][s]) /\ NodeRow(tree'[v][s])
            BY <3>4, <4>1, <5>1 DEF Grown
          <5> QED BY <5>2 DEF NodeRow
        <4> QED BY <2>3, <3>3, <4>1, <4>2, <4>3
      <3> QED BY <1>1, <1>2, <3>2, <3>3, <3>4 DEF ReadHolds
    <2>5. ValidHolds(ed[f])'
      <3> SUFFICES ASSUME ~ed'[f].crossed PROVE ValidHolds(ed[f])'
        BY DEF ValidHolds
      <3>1. /\ ~ed[f].crossed /\ described' = described /\ sound'[v] = sound[v]
            /\ tree'[v] = tree[v] /\ ValidHolds(ed[f])
        BY <2>3 DEF Knows
      <3>2. /\ Counted(v) => Counted(v)'
            /\ NoneEmpty(v) => NoneEmpty(v)'
            /\ Available(v) => Available(v)'
            /\ Answerable(v) => Answerable(v)'
        BY <3>1 DEF Counted, NoneEmpty, Available, Answerable
      <3> QED BY <1>1, <1>2, <3>1, <3>2 DEF ValidHolds
    <2>6. (pc = "delete" => ed'[f].s # Top) /\ (pc = "question" => Kind[ed'[f].s] = "question")
      BY <1>2 DEF Same, Knows
    <2> QED BY <1>1, <1>2, <1>3, <2>1, <2>4, <2>5, <2>6 DEF Knows
  <1> QED BY <1>4, <1>5

(* A step of e after which the others know what they knew.                 *)
Apart(e) == \A f \in Editors \ {e} : Same(f) /\ Spared(f)
KnownStep(e) == Forest' /\ Informed' /\ \A f \in Editors \ {e} : ed'[f].pc = ed[f].pc

LEMMA ApartStep ==
    ASSUME Shape, Forest, Forest', Informed, NEW e \in Editors, Apart(e), Knows(ed[e])',
           spare' \subseteq spare
    PROVE  KnownStep(e)
  <1>1. ASSUME NEW f \in Editors \ {e} PROVE Knows(ed[f])' /\ ed'[f].pc = ed[f].pc
    BY SameKnows DEF Apart, Informed, Same
  <1> QED BY <1>1 DEF KnownStep, Informed

(* Statements that only read.                                              *)
LEMMA Recall ==
    ASSUME UNCHANGED <<described, status, sound, tree, spare>>, NEW e \in Editors,
           NEW r, ed'[e] = r, Knows(r)
    PROVE  Knows(ed[e])'
  <1>1. \A v : /\ Counted(v) => Counted(v)'
               /\ NoneEmpty(v) => NoneEmpty(v)'
               /\ Available(v) => Available(v)'
               /\ Answerable(v) => Answerable(v)'
    BY DEF Counted, NoneEmpty, Available, Answerable
  <1>2. ValidHolds(ed[e])'
    BY <1>1 DEF Knows, ValidHolds
  <1> QED BY <1>2 DEF Knows, ReadHolds

LEMMA SelfAdvance ==
    ASSUME NEW t, Grown(t) PROVE Advances(t, t)
  <1>1. \A s \in DOMAIN t : t[s].revision \in Nat
    BY DEF Grown, NodeRow
  <1> QED BY <1>1 DEF Advances

LEMMA ReaderStep ==
    ASSUME Shape, Forest, Informed, NEW e \in Editors, NEW r, ed' = [ed EXCEPT ![e] = r],
           UNCHANGED <<described, status, content>>, Knows(r)
    PROVE  KnownStep(e)
  <1>1. ed'[e] = r /\ \A f \in Editors \ {e} : ed'[f] = ed[f]
    BY DEF Shape
  <1>2. UNCHANGED <<described, status, sound, tree, spare>>
    BY DEF content
  <1>3. Forest'
    BY <1>2 DEF Forest
  <1>4. \A v \in Versions : Advances(tree[v], tree'[v])
    BY <1>2, SelfAdvance DEF Forest
  <1>5. Apart(e)
    BY <1>1, <1>2, <1>4, MarkedSame DEF Apart, Spared
  <1>6. Knows(ed[e])'
    BY <1>1, <1>2, Recall
  <1> QED BY <1>2, <1>3, <1>5, <1>6, ApartStep

(* Where a request knows no more than that its version is there.           *)
Plain == {"max", "insert", "update", "list", "renumber", "overwrite", "store", "metadata"}
LEMMA PlainKnows ==
    ASSUME NEW r, \/ r.pc \in Plain /\ status[r.v] # "none"
                  \/ r.pc \in {"idle", "draft", "number"}
    PROVE  Knows(r)
  BY DEF Plain, Knows, Saving, ValidHolds, Checks, Validated, Guarded, Pcs, Cloning

LEMMA IdleKnows == Knows(NoEdit)
  BY PlainKnows DEF NoEdit

(* A statement that writes a tree.                                         *)
LEMMA WriterKnows ==
    ASSUME Shape, Forest, Informed, NEW e \in Editors, ed[e].pc \in Guarded, NEW t, NEW next,
           Write(e, t, next), spare' \subseteq spare, Grown(t), DOMAIN t \cap spare' = {},
           Advances(This(e), t), next.pc \in Plain \cup {"idle"}, next.v = ed[e].v \/ next.pc = "idle"
    PROVE  KnownStep(e)
  <1> DEFINE v == ed[e].v
  <1>1. /\ UNCHANGED <<described, status, sound>> /\ tree' = [tree EXCEPT ![v] = t]
        /\ ed'[e] = next
    BY DEF Write
  <1>2. v \in Versions /\ status[v] # "none"
    BY DEF Shape, Informed, Knows
  <1>3. tree'[v] = t /\ \A w \in Versions \ {v} : tree'[w] = tree[w]
    BY <1>1, <1>2 DEF Shape
  <1>4. Forest'
    <2> SUFFICES ASSUME NEW w \in Versions
                 PROVE  /\ Grown(tree'[w]) /\ DOMAIN tree'[w] \cap spare' = {}
                        /\ status'[w] = "none" => DOMAIN tree'[w] = {}
      BY DEF Forest
    <2> QED BY <1>1, <1>2, <1>3 DEF Forest
  <1>5. \A w \in Versions : Advances(tree[w], tree'[w])
    BY <1>3, SelfAdvance DEF Forest, This
  <1>6. ASSUME NEW f \in Editors \ {e} PROVE Same(f) /\ Spared(f)
    <2>1. CASE ed[f].v = v
      <3>1. ed'[f] = [ed[f] EXCEPT !.crossed = TRUE]
        BY <2>1 DEF Write
      <3> QED BY <1>1, <1>5, <3>1, MarkedSame, Crossed DEF Spared
    <2>2. CASE ed[f].v # v
      <3>1. ed'[f] = ed[f]
        BY <2>2 DEF Write
      <3> QED BY <1>1, <1>3, <1>5, <2>2, <3>1, MarkedSame DEF Spared
    <2> QED BY <2>1, <2>2
  <1>7. Knows(ed[e])'
    <2>1. status'[next.v] # "none" \/ next.pc = "idle"
      BY <1>1, <1>2
    <2> QED BY <1>1, <2>1 DEF Plain, Knows, Saving, ValidHolds, Checks, Validated, Guarded, Pcs, Cloning
  <1> QED BY <1>4, <1>6, <1>7, ApartStep DEF Apart

(* The statements that a guard leads to.                                   *)
Entry(pc, s) ==
    \/ pc \in Plain
    \/ pc = "delete" /\ s # Top
    \/ pc = "question" /\ Kind[s] = "question"
LEMMA RequestKnows ==
    ASSUME Shape, Forest, Informed, NEW e \in Editors, Request(e)
    PROVE  KnownStep(e)
  <1>1. ASSUME NEW v \in Versions, NEW s, NEW pc, Guard(e, pc, v, s), Entry(pc, s)
        PROVE  KnownStep(e)
    <2> DEFINE r == [NoEdit EXCEPT !.pc = pc, !.v = v, !.s = s]
    <2>1. ed' = [ed EXCEPT ![e] = r] /\ UNCHANGED <<described, status, content>>
          /\ status[v] = "draft"
      BY <1>1 DEF Guard, Begin, CanEdit
    <2>2. r.pc = pc /\ r.v = v /\ r.s = s
      BY DEF NoEdit
    <2>3. Knows(r)
      <3> HIDE DEF r
      <3> QED BY <1>1, <2>1, <2>2
              DEF Plain, Entry, Knows, Saving, ValidHolds, Checks, Validated, Guarded, Pcs, Cloning
    <2> HIDE DEF r
    <2> QED BY <2>1, <2>3, ReaderStep
  <1>2. ASSUME NEW v \in Versions, NEW s, ReadContent(e, v, s)
        PROVE  KnownStep(e)
    <2> DEFINE n == tree[v][s].revision
               body == tree[v][s].body
               r == [NoEdit EXCEPT !.pc = "typing", !.v = v, !.s = s, !.n = n, !.body = body]
    <2>1. ed' = [ed EXCEPT ![e] = r] /\ UNCHANGED <<described, status, content>>
          /\ s \in DOMAIN tree[v] /\ Kind[s] = "text"
      BY <1>2 DEF ReadContent, OfKind
    <2>2. s \in Ids \ spare /\ n \in Nat /\ status[v] # "none"
      BY <2>1 DEF Forest, Grown, NodeRow
    <2>3. r.pc = "typing" /\ r.v = v /\ r.s = s /\ r.n = n /\ r.body = body
      <3> HIDE DEF n, body
      <3> QED BY DEF NoEdit
    <2> HIDE DEF r
    <2>4. ReadHolds(r)
      BY <2>1, <2>2, <2>3 DEF ReadHolds
    <2>5. Knows(r)
      BY <2>2, <2>3, <2>4 DEF Knows, ValidHolds, Checks, Validated, Cloning
    <2> QED BY <2>1, <2>5, ReaderStep
  <1>3. ASSUME DraftBegin(e) PROVE KnownStep(e)
    <2> DEFINE r == [NoEdit EXCEPT !.pc = "draft", !.v = 0, !.s = Top]
    <2>1. ed' = [ed EXCEPT ![e] = r] /\ UNCHANGED <<described, status, content>>
      BY <1>3 DEF DraftBegin, Begin
    <2>2. r.pc = "draft"
      BY DEF NoEdit
    <2> HIDE DEF r
    <2> QED BY <2>1, <2>2, PlainKnows, ReaderStep
  <1>4. ASSUME NEW v \in Versions, NEW s,
               CreateGuard(e, v, s) \/ DeleteGuard(e, v, s) \/ UpdateGuard(e, v, s)
               \/ QuestionGuard(e, v, s)
        PROVE  KnownStep(e)
    <2>1. PICK pc \in {"max", "delete", "update", "question"} :
            /\ Guard(e, pc, v, s)
            /\ pc = "delete" => s # Top
            /\ pc = "question" => Kind[s] = "question"
      BY <1>4 DEF CreateGuard, DeleteGuard, UpdateGuard, QuestionGuard
    <2>2. Entry(pc, s)
      BY <2>1 DEF Plain, Entry
    <2> QED BY <1>1, <2>1, <2>2
  <1>5. ASSUME NEW v \in Versions, PublishGuard(e, v) PROVE KnownStep(e)
    <2>1. PICK pc \in {"metadata", "store"} : Guard(e, pc, v, Top)
      BY <1>5 DEF PublishGuard
    <2>2. Entry(pc, Top)
      BY DEF Plain, Entry
    <2> QED BY <1>1, <2>1, <2>2
  <1> QED BY <1>2, <1>3, <1>4, <1>5 DEF Request

LEMMA AnswerKnows ==
    ASSUME Shape, Forest, Informed, NEW e \in Editors, Answer(e), Reads
    PROVE  KnownStep(e)
  BY IdleKnows, ReaderStep DEF Answer, Reads

(* A guarded request that goes on to a statement where it needs no more    *)
(* than its version, by what it then remembers.                            *)
LEMMA OnKnows ==
    ASSUME Shape, Forest, Informed, NEW e \in Editors, ed[e].pc \in Guarded,
           NEW r, ed' = [ed EXCEPT ![e] = r], Reads, r.pc \in Plain, r.v = ed[e].v
    PROVE  KnownStep(e)
  <1>1. status[r.v] # "none"
    BY DEF Informed, Knows
  <1> QED BY <1>1, PlainKnows, ReaderStep DEF Reads

LEMMA ListKnows ==
    ASSUME Shape, Forest, Informed, NEW e \in Editors,
           CreateMax(e) \/ \E n \in 0 .. LastPosition : ReorderList(e, n)
    PROVE  KnownStep(e)
  <1>1. Memory(ed[e])
    BY DEF Shape
  <1>2. CASE CreateMax(e)
    <2> DEFINE n == NextPosition(This(e), ed[e].s)
               r == [ed[e] EXCEPT !.pc = "insert", !.n = n]
    <2>1. ed' = [ed EXCEPT ![e] = r] /\ Reads /\ ed[e].pc \in Guarded
      BY <1>2 DEF CreateMax, At, Guarded, Pcs, Cloning
    <2>2. r.pc \in Plain /\ r.v = ed[e].v
      <3> HIDE DEF n
      <3> QED BY <1>1 DEF Memory, Fields, Plain
    <2> HIDE DEF r
    <2> QED BY <2>1, <2>2, OnKnows
  <1>3. ASSUME NEW n, ReorderList(e, n) PROVE KnownStep(e)
    <2> DEFINE t == This(e)
               p == IF Kind[ed[e].s] = "module" THEN Top ELSE t[ed[e].s].parent
               list == Moved(InOrder(t, Siblings(t, p) \ {ed[e].s}), ed[e].s, n)
               r == [ed[e] EXCEPT !.pc = "renumber", !.crossed = FALSE, !.n = n, !.list = list]
    <2>1. Reads /\ ed[e].pc \in Guarded /\ (Answer(e) \/ ed' = [ed EXCEPT ![e] = r])
      BY <1>3 DEF ReorderList, At, Guarded, Pcs, Cloning
    <2>2. r.pc \in Plain /\ r.v = ed[e].v
      <3> HIDE DEF list
      <3> QED BY <1>1 DEF Memory, Fields, Plain
    <2> HIDE DEF r
    <2> QED BY <2>1, <2>2, OnKnows, AnswerKnows
  <1> QED BY <1>2, <1>3

(* The autosave's guard and comparison.                                    *)
LEMMA SavingKnows ==
    ASSUME Shape, Forest, Informed, NEW e \in Editors, SaveGuard(e) \/ SaveCompare(e)
    PROVE  KnownStep(e)
  <1> SUFFICES ASSUME ~Answer(e) PROVE KnownStep(e)
    BY AnswerKnows DEF SaveGuard, SaveCompare
  <1>1. Memory(ed[e]) /\ Knows(ed[e]) /\ Reads /\ ed[e].pc \in Saving
    BY DEF Shape, Informed, SaveGuard, SaveCompare, At, Saving
  <1>2. ReadHolds(ed[e]) /\ ed[e].n \in Nat /\ status[ed[e].v] # "none"
    BY <1>1, PcsOfVersions DEF Knows
  <1>3. ASSUME NEW r, r.pc \in Saving, r.v = ed[e].v, r.s = ed[e].s, r.n = ed[e].n,
               r.body = ed[e].body,
               r.pc = "save" => r.s \in DOMAIN This(e) /\ This(e)[r.s].revision = r.n
        PROVE  Knows(r)
    <2>1. ReadHolds(r)
      BY <1>2, <1>3 DEF ReadHolds, This
    <2> QED BY <1>2, <1>3, <2>1 DEF Knows, ValidHolds, Checks, Validated, Saving, Cloning
  <1>4. CASE SaveGuard(e)
    <2>0. PICK pc \in {"compare", "overwrite"} : ed' = [ed EXCEPT ![e].pc = pc, ![e].late = FALSE]
      BY <1>4 DEF SaveGuard
    <2> DEFINE r == [ed[e] EXCEPT !.pc = pc, !.late = FALSE]
    <2>1. ed' = [ed EXCEPT ![e] = r]
      BY <2>0
    <2>2. r.pc = pc /\ r.v = ed[e].v /\ r.s = ed[e].s /\ r.n = ed[e].n
          /\ r.body = ed[e].body
      BY <1>1 DEF Memory, Fields
    <2> HIDE DEF r
    <2>3. CASE pc = "compare"
      <3>1. Knows(r)
        BY <1>3, <2>2, <2>3 DEF Saving
      <3> QED BY <1>1, <2>1, <3>1, ReaderStep DEF Reads
    <2>4. CASE pc = "overwrite"
      <3>1. Knows(r)
        BY <1>2, <2>2, <2>4, PlainKnows DEF Plain
      <3> QED BY <1>1, <2>1, <3>1, ReaderStep DEF Reads
    <2> QED BY <2>3, <2>4
  <1>5. CASE SaveCompare(e)
    <2> DEFINE r == [ed[e] EXCEPT !.pc = "save", !.crossed = FALSE]
    <2>1. ed' = [ed EXCEPT ![e] = r] /\ ed[e].s \in DOMAIN This(e)
          /\ This(e)[ed[e].s].revision = ed[e].n
      BY <1>5 DEF SaveCompare
    <2>2. r.pc = "save" /\ r.v = ed[e].v /\ r.s = ed[e].s /\ r.n = ed[e].n
          /\ r.body = ed[e].body
      BY <1>1 DEF Memory, Fields
    <2> HIDE DEF r
    <2>3. Knows(r)
      BY <1>3, <2>1, <2>2 DEF Saving
    <2> QED BY <1>1, <2>1, <2>3, ReaderStep DEF Reads
  <1> QED BY <1>4, <1>5

(* A publication up to its commit.                                         *)
LEMMA ValidatingKnows ==
    ASSUME Shape, Forest, Informed, NEW e \in Editors,
           CheckMetadata(e) \/ CheckVersion(e) \/ PublishSupersede(e) \/ PublishWait(e)
           \/ PublishMark(e)
    PROVE  KnownStep(e)
  <1>0. Reads
    BY CheckGoesOn DEF CheckMetadata, PublishSupersede, PublishWait, PublishMark
  <1> SUFFICES ASSUME ~Answer(e) PROVE KnownStep(e)
    BY <1>0, AnswerKnows
  <1>1. Memory(ed[e]) /\ Knows(ed[e]) /\ Reads
    BY <1>0 DEF Shape, Informed
  <1>2. ed[e].pc \in {"metadata"} \cup Checks \cup Validated /\ status[ed[e].v] # "none"
    <2>1. ed[e].pc \in {"metadata"} \cup Checks \cup Validated
      BY CheckGoesOn DEF CheckMetadata, PublishSupersede, PublishWait, PublishMark, At, Validated
    <2> QED BY <1>1, <2>1, PcsOfVersions, GuardedPcs DEF Knows
  <1>3. ASSUME NEW r, r.pc \in Checks \cup Validated, r.v = ed[e].v, ValidHolds(r)
        PROVE  Knows(r)
    BY <1>2, <1>3 DEF Knows, Checks, Validated, Saving, Cloning
  <1>4. CASE CheckMetadata(e)
    <2> DEFINE r == [ed[e] EXCEPT !.pc = "criteria", !.crossed = FALSE]
    <2>1. ed' = [ed EXCEPT ![e] = r] /\ described
      BY <1>4 DEF CheckMetadata
    <2>2. r.pc = "criteria" /\ r.v = ed[e].v
      BY <1>1 DEF Memory, Fields
    <2> HIDE DEF r
    <2>3. ValidHolds(r)
      BY <2>1, <2>2 DEF ValidHolds, Validated
    <2> QED BY <1>1, <1>3, <2>1, <2>2, <2>3, ReaderStep DEF Reads, Checks
  <1>5. CASE CheckVersion(e)
    <2> DEFINE v == ed[e].v
    <2>1. PICK next :
            /\ Goto(e, next)
            /\ \/ ed[e].pc = "criteria" /\ sound[v] /\ next = "counts"
               \/ ed[e].pc = "counts" /\ Counted(v) /\ next = "empty"
               \/ ed[e].pc = "empty" /\ NoneEmpty(v) /\ next = "available"
               \/ ed[e].pc = "available" /\ Available(v) /\ next = "answers"
               \/ ed[e].pc = "answers" /\ Answerable(v) /\ next = "supersede"
      BY <1>5 DEF CheckVersion, Check, At
    <2> DEFINE r == [ed[e] EXCEPT !.pc = next]
    <2>2. ed' = [ed EXCEPT ![e] = r]
      BY <2>1 DEF Goto
    <2>3. r.pc = next /\ r.v = v /\ r.crossed = ed[e].crossed
      BY <1>1 DEF Memory, Fields
    <2> HIDE DEF r
    <2>4. ValidHolds(ed[e])
      BY <1>1 DEF Knows
    <2>5. ValidHolds(r)
      BY <2>1, <2>3, <2>4 DEF ValidHolds, Checks, Validated
    <2>6. r.pc \in Checks \cup Validated
      BY <2>1, <2>3 DEF Checks, Validated
    <2> QED BY <1>1, <1>3, <2>2, <2>3, <2>5, <2>6, ReaderStep DEF Reads
  <1>6. CASE PublishSupersede(e) \/ PublishWait(e) \/ PublishMark(e)
    <2>0. PICK pc \in Validated :
            \E rows : ed' = [ed EXCEPT ![e] = [ed[e] EXCEPT !.rows = rows, !.pc = pc]]
      <3>1. CASE PublishSupersede(e)
        BY <3>1 DEF PublishSupersede, Validated
      <3>2. CASE PublishWait(e)
        BY <3>2 DEF PublishWait, Validated
      <3>3. CASE PublishMark(e)
        <4>1. ed' = [ed EXCEPT ![e] = [ed[e] EXCEPT !.pc = "publish"]]
          BY <3>3 DEF PublishMark, Goto
        <4>2. [ed[e] EXCEPT !.pc = "publish"] = [ed[e] EXCEPT !.rows = ed[e].rows, !.pc = "publish"]
          BY <1>1 DEF Memory, Fields
        <4> QED BY <4>1, <4>2 DEF Validated
      <3> QED BY <1>6, <3>1, <3>2, <3>3
    <2>1. PICK rows : /\ pc \in Validated
                      /\ ed' = [ed EXCEPT ![e] = [ed[e] EXCEPT !.rows = rows, !.pc = pc]]
      BY <2>0
    <2> DEFINE r == [ed[e] EXCEPT !.rows = rows, !.pc = pc]
    <2>2. r.pc = pc /\ r.v = ed[e].v /\ r.crossed = ed[e].crossed
      BY <1>1 DEF Memory, Fields
    <2>3. ValidHolds(r)
      <3>1. ed[e].pc \in Validated
        BY <1>6 DEF PublishSupersede, PublishWait, PublishMark, At, Validated
      <3>2. ValidHolds(ed[e])
        BY <1>1 DEF Knows
      <3> QED BY <2>2, <3>1, <3>2 DEF ValidHolds
    <2> HIDE DEF r
    <2>4. Knows(r)
      BY <1>3, <2>2, <2>3
    <2> QED BY <1>1, <2>1, <2>4, ReaderStep DEF Reads, r
  <1> QED BY <1>4, <1>5, <1>6

(* The statements that write a tree, one by one.                           *)
LEMMA VersionGrown ==
    ASSUME Shape, Forest, NEW e \in Editors, ed[e].pc \in Guarded
    PROVE  Grown(This(e)) /\ DOMAIN This(e) \cap spare = {}
  BY DEF Shape, Forest, This

LEMMA CreateKnows ==
    ASSUME Shape, Forest, Informed, NEW e \in Editors, NEW x \in Ids, NEW body,
           NEW visible, NEW required, CreateInsert(e, x, body, visible, required)
    PROVE  KnownStep(e)
  <1> SUFFICES ASSUME ~(Answer(e) /\ Reads) PROVE KnownStep(e)
    BY AnswerKnows
  <1> DEFINE t == This(e)
             p == ed[e].s
             row == [parent |-> p, position |-> ed[e].n, visible |-> visible,
                     required |-> required, body |-> body, revision |-> 0]
             u == [y \in DOMAIN t \cup {x} |-> IF y # x THEN t[y] ELSE row]
  <1>1. /\ x \in spare /\ ParentKind[Kind[x]] = (IF p = Top THEN "top" ELSE Kind[p])
        /\ p = Top \/ p \in DOMAIN t
        /\ Write(e, u, NoEdit) /\ spare' = spare \ {x}
        /\ ed[e].pc \in Guarded
    BY GuardedPcs DEF CreateInsert, At
  <1>2. NodeRow(row) /\ row.parent = p
    BY DEF NodeRow, Columns
  <1>3. IF p = Top THEN Kind[x] = "module" ELSE p \in DOMAIN t /\ Kind[p] = ParentKind[Kind[x]]
    <2>1. Kind[x] \in Kinds
      BY VersionsAssumption
    <2> QED BY <1>1, <2>1, ParentKinds DEF Kinds
  <1>4. Grown(t) /\ DOMAIN t \cap spare = {}
    BY <1>1, VersionGrown
  <1> HIDE DEF row
  <1>5. Grown(u) /\ DOMAIN u = DOMAIN t \cup {x} /\ Advances(t, u)
    <2> HIDE DEF t, p
    <2> QED BY <1>1, <1>2, <1>3, <1>4, InsertGrown
  <1>6. DOMAIN u \cap spare' = {} /\ spare' \subseteq spare
    BY <1>1, <1>4, <1>5
  <1>7. NoEdit.pc = "idle"
    BY DEF NoEdit
  <1> HIDE DEF u
  <1> QED BY <1>1, <1>5, <1>6, <1>7, WriterKnows

(* A statement that keeps or deletes rows.                                 *)
LEMMA KeeperKnows ==
    ASSUME Shape, Forest, Informed, NEW e \in Editors, ed[e].pc \in Guarded, NEW u, NEW next,
           Write(e, u, next), UNCHANGED spare, Grown(u), DOMAIN u \subseteq DOMAIN This(e),
           Advances(This(e), u),
           next.pc \in Plain \cup {"idle"}, next.v = ed[e].v \/ next.pc = "idle"
    PROVE  KnownStep(e)
  <1>1. DOMAIN u \cap spare' = {}
    BY VersionGrown
  <1> QED BY <1>1, WriterKnows

LEMMA KeeperEnds ==
    ASSUME Shape, Forest, Informed, NEW e \in Editors, ed[e].pc \in Guarded, NEW u,
           Write(e, u, NoEdit), UNCHANGED spare, Grown(u), DOMAIN u \subseteq DOMAIN This(e),
           Advances(This(e), u)
    PROVE  KnownStep(e)
  <1>1. NoEdit.pc = "idle"
    BY DEF NoEdit
  <1> QED BY <1>1, KeeperKnows

(* An autosave's row.                                                      *)
LEMMA RowSaved ==
    ASSUME NEW r, NodeRow(r), NEW body
    PROVE  LET saved == [r EXCEPT !.body = body, !.revision = r.revision + 1]
           IN  /\ NodeRow(saved) /\ saved.parent = r.parent /\ r.revision \in Nat
               /\ saved.revision = r.revision + 1
  <1> DEFINE next == r.revision + 1
             saved == [r EXCEPT !.body = body, !.revision = next]
  <1>1. r.revision \in Nat /\ next \in Nat
    BY DEF NodeRow
  <1>2. NodeRow(saved) /\ saved.parent = r.parent /\ saved.revision = next
    <2> HIDE DEF next
    <2> QED BY <1>1 DEF NodeRow, Columns
  <1> QED BY <1>1, <1>2

LEMMA DeleteKnows ==
    ASSUME Shape, Forest, Informed, NEW e \in Editors, Delete(e)
    PROVE  KnownStep(e)
  <1>1. ed[e].pc \in Guarded /\ ed[e].s # Top
    BY GuardedPcs DEF Delete, At, Informed, Knows
  <1>2. Write(e, Prune(This(e), ed[e].s), NoEdit) /\ UNCHANGED spare
    BY DEF Delete
  <1> QED BY <1>1, <1>2, VersionGrown, PruneGrown, KeeperEnds

LEMMA UpdateKnows ==
    ASSUME Shape, Forest, Informed, NEW e \in Editors, NEW visible, NEW required,
           Update(e, visible, required)
    PROVE  KnownStep(e)
  <1> DEFINE s == ed[e].s
             t == This(e)
             row == [t[s] EXCEPT !.visible = visible, !.required = required]
             u == IF s \notin DOMAIN t \/ s \notin Resources(t) THEN t ELSE [t EXCEPT ![s] = row]
             listing == [ed[e] EXCEPT !.pc = "list"]
  <1>1. ed[e].pc \in Guarded /\ Grown(t)
    BY GuardedPcs, VersionGrown DEF Update, At
  <1>2. s \in DOMAIN t =>
           [t EXCEPT ![s].visible = visible, ![s].required = required] = [t EXCEPT ![s] = row]
    BY <1>1 DEF Grown
  <1>3. (Write(e, u, NoEdit) \/ Write(e, u, listing)) /\ UNCHANGED spare
    BY <1>2 DEF Update
  <1>4. s \in DOMAIN t => NodeRow(row) /\ row.parent = t[s].parent
                         /\ row.revision = t[s].revision /\ row.body = t[s].body
                         /\ row.revision >= t[s].revision
    <2> SUFFICES ASSUME s \in DOMAIN t
                 PROVE  NodeRow(row) /\ row.parent = t[s].parent
                        /\ row.revision = t[s].revision /\ row.body = t[s].body
                        /\ row.revision >= t[s].revision
      OBVIOUS
    <2>1. NodeRow(t[s])
      BY <1>1 DEF Grown
    <2>2. t[s].revision \in Nat
      BY <2>1 DEF NodeRow
    <2> HIDE DEF t, s
    <2>3. NodeRow(row) /\ row.parent = t[s].parent /\ row.revision = t[s].revision
          /\ row.body = t[s].body
      BY <2>1 DEF NodeRow, Columns
    <2> QED BY <2>2, <2>3
  <1>5. listing.pc \in Plain /\ listing.v = ed[e].v
    BY DEF Shape, Memory, Fields, Plain
  <1>6. Grown(u) /\ DOMAIN u = DOMAIN t /\ Advances(t, u)
    <2>1. CASE s \notin DOMAIN t \/ s \notin Resources(t)
      BY <1>1, <2>1, SelfAdvance
    <2>2. CASE s \in DOMAIN t /\ s \in Resources(t)
      <3>1. u = [t EXCEPT ![s] = row]
        BY <2>2
      <3> HIDE DEF row, u, t, s
      <3> QED BY <1>1, <1>4, <3>1, RowGrown
    <2> QED BY <2>1, <2>2
  <1> HIDE DEF u, listing
  <1>7. CASE Write(e, u, NoEdit)
    BY <1>1, <1>3, <1>6, <1>7, KeeperEnds
  <1>8. CASE Write(e, u, listing)
    BY <1>1, <1>3, <1>5, <1>6, <1>8, KeeperKnows
  <1> QED BY <1>3, <1>7, <1>8

LEMMA QuestionKnows ==
    ASSUME Shape, Forest, Informed, NEW e \in Editors, NEW body, UpdateQuestion(e, body)
    PROVE  KnownStep(e)
  <1> SUFFICES ASSUME ~(Answer(e) /\ Reads) PROVE KnownStep(e)
    BY AnswerKnows
  <1> DEFINE s == ed[e].s
             t == This(e)
             row == [t[s] EXCEPT !.body = body]
             u == [t EXCEPT ![s] = row]
  <1>1. ed[e].pc \in Guarded /\ Grown(t) /\ s \in DOMAIN t /\ Kind[s] = "question"
    BY GuardedPcs, VersionGrown DEF UpdateQuestion, At, Informed, Knows
  <1>2. Write(e, u, NoEdit) /\ UNCHANGED spare
    BY DEF UpdateQuestion
  <1>3. NodeRow(row) /\ row.parent = t[s].parent /\ row.revision >= t[s].revision
    <2>1. NodeRow(t[s])
      BY <1>1 DEF Grown
    <2> HIDE DEF t, s
    <2> QED BY <2>1 DEF NodeRow, Columns
  <1> HIDE DEF row
  <1>4. Grown(u) /\ DOMAIN u = DOMAIN t /\ Advances(t, u)
    <2> HIDE DEF t, s
    <2> QED BY <1>1, <1>3, RowGrown
  <1> HIDE DEF u
  <1> QED BY <1>1, <1>2, <1>4, KeeperEnds

LEMMA SaveKnows ==
    ASSUME Shape, Forest, Informed, NEW e \in Editors, Save(e)
    PROVE  KnownStep(e)
  <1> SUFFICES ASSUME ~(Answer(e) /\ Reads) PROVE KnownStep(e)
    BY AnswerKnows
  <1> DEFINE s == ed[e].s
             t == This(e)
             row == [t[s] EXCEPT !.body = e, !.revision = t[s].revision + 1]
             u == [t EXCEPT ![s] = row]
  <1>1. ed[e].pc \in Guarded /\ Grown(t) /\ s \in DOMAIN t
    BY GuardedPcs, VersionGrown DEF Save, At
  <1>2. [t EXCEPT ![s].body = e, ![s].revision = @ + 1] = u
    BY <1>1 DEF Grown, NodeRow
  <1>3. Write(e, u, NoEdit) /\ UNCHANGED spare
    BY <1>1, <1>2 DEF Save
  <1>4. NodeRow(row) /\ row.parent = t[s].parent /\ row.revision = t[s].revision + 1
        /\ t[s].revision \in Nat
    <2>1. NodeRow(t[s])
      BY <1>1 DEF Grown
    <2> HIDE DEF t, s
    <2> QED BY <2>1, RowSaved
  <1>5. row.revision >= t[s].revision /\ row.revision # t[s].revision
    BY <1>4
  <1> HIDE DEF row
  <1>6. Grown(u) /\ DOMAIN u = DOMAIN t /\ Advances(t, u)
    <2> HIDE DEF t, s
    <2> QED BY <1>1, <1>4, <1>5, RowGrown
  <1> HIDE DEF u
  <1> QED BY <1>1, <1>3, <1>6, KeeperEnds

LEMMA RenumberedGrown ==
    ASSUME NEW t, Grown(t), NEW list
    PROVE  LET u == Renumbered(t, list)
           IN  Grown(u) /\ DOMAIN u = DOMAIN t /\ Advances(t, u)
  <1> DEFINE u == Renumbered(t, list)
  <1>1. ASSUME NEW x \in DOMAIN t
        PROVE  NodeRow(u[x]) /\ u[x].parent = t[x].parent /\ u[x].body = t[x].body
               /\ u[x].revision = t[x].revision /\ u[x].revision >= t[x].revision
    <2>1. PICK n : u[x] = t[x] \/ u[x] = [t[x] EXCEPT !.position = n]
      BY DEF Renumbered
    <2>2. NodeRow(t[x])
      BY DEF Grown
    <2> HIDE DEF u
    <2> QED BY <2>1, <2>2 DEF NodeRow, Columns
  <1>2. u = [x \in DOMAIN t |-> u[x]]
    BY DEF Renumbered
  <1>3. Kin(t, u) /\ DOMAIN u = DOMAIN t
    BY <1>1, <1>2 DEF Kin
  <1>4. Advances(t, u)
    BY <1>1, <1>3 DEF Advances
  <1> QED BY <1>3, <1>4, KinGrown

LEMMA RenumberKnows ==
    ASSUME Shape, Forest, Informed, NEW e \in Editors, ReorderWrite(e)
    PROVE  KnownStep(e)
  <1> SUFFICES ASSUME ~(Answer(e) /\ Reads) PROVE KnownStep(e)
    BY AnswerKnows
  <1> DEFINE u == Renumbered(This(e), ed[e].list)
  <1>1. ed[e].pc \in Guarded /\ Write(e, u, NoEdit) /\ UNCHANGED spare
    BY GuardedPcs DEF ReorderWrite, At
  <1>2. Grown(u) /\ DOMAIN u = DOMAIN This(e) /\ Advances(This(e), u)
    BY <1>1, VersionGrown, RenumberedGrown
  <1> HIDE DEF u
  <1> QED BY <1>1, <1>2, KeeperEnds

(* The criteria, the commit of a publication and that of a draft.          *)
LEMMA CriteriaKnows ==
    ASSUME Shape, Forest, Informed, NEW e \in Editors, NEW ok, SetCriteria(e, ok)
    PROVE  KnownStep(e)
  <1> DEFINE v == ed[e].v
  <1>1. /\ UNCHANGED <<described, status, tree, spare>> /\ ed[e].pc = "store"
        /\ ed'[e] = [ed[e] EXCEPT !.pc = "metadata"]
        /\ \A w \in Versions \ {v} : sound'[w] = sound[w]
    BY DEF SetCriteria, At, Shape
  <1>2. \A w \in Versions : Advances(tree[w], tree'[w])
    BY <1>1, SelfAdvance DEF Forest
  <1>3. ASSUME NEW f \in Editors \ {e} PROVE Same(f) /\ Spared(f)
    <2>1. CASE ed[f].v = v
      <3>1. ed'[f] = [ed[f] EXCEPT !.crossed = TRUE]
        BY <2>1 DEF SetCriteria
      <3> QED BY <1>1, <1>2, <3>1, MarkedSame, Crossed DEF Spared
    <2>2. CASE ed[f].v # v
      <3>1. ed'[f] = ed[f]
        BY <2>2 DEF SetCriteria
      <3> QED BY <1>1, <1>2, <2>2, <3>1, MarkedSame DEF Spared
    <2> QED BY <2>1, <2>2
  <1>4. Forest'
    BY <1>1 DEF Forest
  <1>5. Knows(ed[e])'
    <2>1. ed'[e].pc = "metadata" /\ ed'[e].v = v
      BY <1>1 DEF Shape, Memory, Fields
    <2>2. status'[v] # "none"
      BY <1>1 DEF Informed, Knows, Guarded, Pcs, Cloning
    <2> QED BY <2>1, <2>2 DEF Knows, Saving, ValidHolds, Checks, Validated, Cloning
  <1> QED BY <1>1, <1>3, <1>4, <1>5, ApartStep DEF Apart

LEMMA CommitKnows ==
    ASSUME Shape, Forest, Informed, NEW e \in Editors, PublishCommit(e)
    PROVE  KnownStep(e)
  <1>1. /\ UNCHANGED <<described, sound, tree, spare>> /\ ed'[e] = NoEdit
        /\ \A w \in Versions : status'[w] # "none" \/ status'[w] = status[w]
    BY DEF PublishCommit, Committed, content
  <1>2. \A w \in Versions : Advances(tree[w], tree'[w])
    BY <1>1, SelfAdvance DEF Forest
  <1>3. ASSUME NEW f \in Editors \ {e} PROVE Same(f) /\ Spared(f)
    <2>1. ed'[f] = ed[f] \/ ed'[f] = [ed[f] EXCEPT !.late = TRUE]
      BY DEF PublishCommit, Committed
    <2> QED BY <1>1, <1>2, <2>1, MarkedSame DEF Spared
  <1>4. Forest'
    BY <1>1 DEF Forest
  <1>5. Knows(ed[e])'
    BY <1>1 DEF NoEdit, Knows, Guarded, Pcs, Cloning, Saving, ValidHolds, Checks, Validated
  <1> QED BY <1>1, <1>3, <1>4, <1>5, ApartStep DEF Apart

(* A level of a tree, copied under the rows of the level above.            *)
LEMMA ClonedGrown ==
    ASSUME NEW t, NEW mine, NEW kinds, Grown(t), Grown(mine)
    PROVE  LET u == Cloned(t, mine, kinds) IN
           Grown(u) /\ DOMAIN u \subseteq DOMAIN mine \cup DOMAIN t
  <1> DEFINE u == Cloned(t, mine, kinds)
             level == Level(t, mine, kinds)
  <1>1. level \subseteq DOMAIN t /\ \A s \in level : t[s].parent \in DOMAIN mine \cup {Top}
    BY DEF Level
  <1>2. /\ u = [s \in DOMAIN u |-> u[s]] /\ DOMAIN u = DOMAIN mine \cup level
        /\ \A s \in DOMAIN mine : u[s] = mine[s]
        /\ \A s \in level \ DOMAIN mine : u[s] = [t[s] EXCEPT !.revision = 0]
    BY DEF Cloned
  <1> HIDE DEF u, level
  <1>3. ASSUME NEW s \in level, s \notin DOMAIN mine
        PROVE  NodeRow(u[s]) /\ u[s].parent = t[s].parent
    <2>1. NodeRow(t[s])
      BY <1>1 DEF Grown
    <2> QED BY <1>2, <1>3, <2>1 DEF NodeRow, Columns
  <1>4. \A s \in DOMAIN u : NodeRow(u[s])
    BY <1>2, <1>3 DEF Grown
  <1>5. Hangs(u)
    <2> SUFFICES ASSUME NEW s \in DOMAIN u
                 PROVE  IF u[s].parent = Top THEN Kind[s] = "module"
                        ELSE /\ u[s].parent \in DOMAIN u
                             /\ Kind[u[s].parent] = ParentKind[Kind[s]]
      BY DEF Hangs
    <2>1. CASE s \in DOMAIN mine
      BY <1>2, <2>1 DEF Grown, Hangs
    <2>2. CASE s \notin DOMAIN mine
      BY <1>1, <1>2, <1>3, <2>2 DEF Grown, Hangs
    <2> QED BY <2>1, <2>2
  <1>6. DOMAIN u \subseteq Ids /\ DOMAIN u \subseteq DOMAIN mine \cup DOMAIN t
    BY <1>1, <1>2 DEF Grown
  <1> QED BY <1>2, <1>4, <1>5, <1>6 DEF Grown, u

LEMMA NoTreeGrown == Grown(NoTree) /\ DOMAIN NoTree = {}
  BY DEF Grown, NoTree, Hangs

LEMMA InsertKnows ==
    ASSUME Shape, Forest, Informed, NEW e \in Editors, DraftInsert(e)
    PROVE  KnownStep(e)
  <1> SUFFICES ASSUME ~(Answer(e) /\ Reads) PROVE KnownStep(e)
    BY AnswerKnows
  <1> DEFINE new == ed[e].n
             from == ed[e].from
             pc == IF from = 0 THEN "commit" ELSE "modules"
  <1>1. /\ UNCHANGED <<described, status, tree, spare>> /\ Goto(e, pc)
        /\ status[new] = "none" /\ from \in {0} \cup Versions
        /\ \A w \in Versions \ {new} : sound'[w] = sound[w]
    BY DEF DraftInsert, Informed, Knows, At, Shape
  <1>2. Forest' /\ \A w \in Versions : Advances(tree[w], tree'[w])
    BY <1>1, SelfAdvance DEF Forest
  <1>3. \A f \in Editors \ {e} : ed'[f] = ed[f]
    BY <1>1 DEF Goto, Shape
  <1>4. Apart(e)
    BY <1>1, <1>2, <1>3, MarkedSame DEF Apart, Spared
  <1>5. ed'[e].pc = pc /\ ed'[e].from = from
    <2> HIDE DEF pc
    <2> QED BY <1>1 DEF Goto, Shape, Memory, Fields
  <1>6. Knows(ed[e])'
    BY <1>1, <1>5 DEF Knows, Guarded, Cloning, Saving, ValidHolds, Checks, Validated
  <1> QED BY <1>1, <1>2, <1>4, <1>6, ApartStep

LEMMA CloneKnows ==
    ASSUME Shape, Forest, Informed, NEW e \in Editors, CloneVersionTree(e)
    PROVE  KnownStep(e)
  <1>1. PICK pc, next \in Cloning : \E kinds : Clone(e, pc, kinds, next)
    BY CloneGoesOn
  <1>2. /\ UNCHANGED <<described, status, sound, tree, spare>> /\ Goto(e, next)
        /\ ed[e].pc \in Cloning \ {"commit"}
    BY <1>1 DEF Clone, CloneVersionTree, At, Cloning
  <1>3. Forest' /\ \A w \in Versions : Advances(tree[w], tree'[w])
    BY <1>2, SelfAdvance DEF Forest
  <1>4. \A f \in Editors \ {e} : ed'[f] = ed[f]
    BY <1>2 DEF Goto, Shape
  <1>5. Apart(e)
    BY <1>2, <1>3, <1>4, MarkedSame DEF Apart, Spared
  <1>6. ed'[e].pc = next /\ ed'[e].from = ed[e].from
    BY <1>2 DEF Goto, Shape, Memory, Fields
  <1>7. ed[e].from \in Versions
    BY <1>2 DEF Informed, Knows, Versions
  <1>8. ed[e].from # 0
    BY <1>2 DEF Informed, Knows
  <1>9. Knows(ed[e])'
    BY <1>6, <1>7, <1>8 DEF Knows, Guarded, Cloning, Saving, ValidHolds, Checks, Validated
  <1> QED BY <1>2, <1>3, <1>5, <1>9, ApartStep

LEMMA DraftCommitKnows ==
    ASSUME Shape, Late, Forest, Copies, Informed, NEW e \in Editors, DraftCommit(e)
    PROVE  KnownStep(e)
  <1> DEFINE new == ed[e].n
  <1>1. /\ UNCHANGED <<described, sound, spare>> /\ ed'[e] = NoEdit
        /\ \A f \in Editors \ {e} : ed'[f] = ed[f]
    BY DEF DraftCommit, Answer, Shape
  <1>2. Free(e, new)
    BY DEF DraftCommit, At, Cloning, Late
  <1>3. /\ \A w \in Versions \ {new} : UNCHANGED <<status[w], tree[w]>>
        /\ new \in Versions => /\ status[new] = "none" /\ status'[new] = "draft"
                               /\ tree'[new] = copy[e]
    BY <1>2 DEF DraftCommit, Shape, Free
  <1>4. Forest'
    <2> SUFFICES ASSUME NEW w \in Versions
                 PROVE  /\ Grown(tree'[w]) /\ DOMAIN tree'[w] \cap spare' = {}
                        /\ status'[w] = "none" => DOMAIN tree'[w] = {}
      BY DEF Forest
    <2>1. CASE w = new
      BY <1>1, <1>3, <2>1 DEF Copies
    <2>2. CASE w # new
      BY <1>1, <1>3, <2>2 DEF Forest
    <2> QED BY <2>1, <2>2
  <1>5. \A w \in Versions : Advances(tree[w], tree[w])
    BY SelfAdvance DEF Forest
  <1>6. ASSUME NEW f \in Editors \ {e} PROVE Same(f) /\ Spared(f)
    <2>1. ASSUME NEW w \in Versions, status[w] # "none"
          PROVE  UNCHANGED <<status[w], tree[w]>>
      BY <1>3, <2>1
    <2> QED BY <1>1, <1>5, <2>1, MarkedSame DEF Spared
  <1>7. Knows(ed[e])'
    BY <1>1 DEF NoEdit, Knows, Guarded, Cloning, Saving, ValidHolds, Checks, Validated
  <1> QED BY <1>1, <1>4, <1>6, <1>7, ApartStep DEF Apart

LEMMA DropKnows ==
    ASSUME Shape, Forest, Informed, NEW e \in Editors, Drop(e)
    PROVE  KnownStep(e)
  <1>1. /\ UNCHANGED <<described, status, sound, tree, spare>> /\ ed'[e] = NoEdit
        /\ \A f \in Editors \ {e} : ed'[f] = ed[f]
    BY DEF Drop, Answer, Shape
  <1>2. Forest' /\ \A w \in Versions : Advances(tree[w], tree'[w])
    BY <1>1, SelfAdvance DEF Forest
  <1>3. Apart(e)
    BY <1>1, <1>2, MarkedSame DEF Apart, Spared
  <1>4. Knows(ed[e])'
    BY <1>1, IdleKnows, Recall
  <1> QED BY <1>1, <1>2, <1>3, <1>4, ApartStep

LEMMA DraftKnows ==
    ASSUME Shape, Shown, Forest, Informed, NEW e \in Editors, DraftSearch(e) \/ DraftNumber(e)
    PROVE  KnownStep(e)
  <1>1. CASE DraftSearch(e)
    <2>1. CASE Goto(e, "number")
      <3> DEFINE r == [ed[e] EXCEPT !.pc = "number"]
      <3>1. ed' = [ed EXCEPT ![e] = r] /\ Reads
        BY <1>1, <2>1 DEF DraftSearch, Goto
      <3>2. r.pc = "number"
        BY DEF Shape, Memory, Fields
      <3> HIDE DEF r
      <3>3. Knows(r)
        BY <3>2, PlainKnows
      <3> QED BY <3>1, <3>3, ReaderStep DEF Reads
    <2> QED BY <1>1, <2>1, AnswerKnows DEF DraftSearch
  <1>2. CASE DraftNumber(e)
    <2> DEFINE n == 1 + Max({v \in Versions : status[v] # "none"})
               current == course.current
               r == [ed[e] EXCEPT !.pc = "version", !.n = n, !.from = current]
    <2>1. ed' = [ed EXCEPT ![e] = r] /\ Reads
      BY <1>2 DEF DraftNumber
    <2>2. current \in {0} \cup Versions
      BY DEF Shown
    <2>3. r.pc = "version" /\ r.from = current
      <3> HIDE DEF n, current
      <3> QED BY DEF Shape, Memory, Fields
    <2> HIDE DEF r, current
    <2>4. Knows(r)
      BY <2>2, <2>3 DEF Knows, Guarded, Pcs, Cloning, Saving, ValidHolds, Checks, Validated
    <2> QED BY <2>1, <2>4, ReaderStep DEF Reads
  <1> QED BY <1>1, <1>2

(* The course's own handlers: the metadata cross every request.            *)
LEMMA CourseKnows ==
    ASSUME Shape, Forest, Informed, Unpublish \/ \E filled \in BOOLEAN : UpdateCourse(filled)
    PROVE  Forest' /\ Informed' /\ \A f \in Editors : ed'[f].pc = ed[f].pc
  <1>1. UNCHANGED <<status, sound, tree, spare>>
    BY DEF Unpublish, UpdateCourse, content
  <1>2. Forest'
    BY <1>1 DEF Forest
  <1>3. \A w \in Versions : Advances(tree[w], tree'[w])
    BY <1>1, SelfAdvance DEF Forest
  <1>4. ASSUME NEW f \in Editors PROVE Knows(ed[f])' /\ ed'[f].pc = ed[f].pc
    <2>1. CASE ed[f] = NoEdit
      <3>1. ed'[f].pc = "idle" /\ ed[f].pc = "idle"
        BY <2>1 DEF Unpublish, UpdateCourse, NoEdit
      <3> QED BY <3>1 DEF Knows, Guarded, Pcs, Cloning, Saving, ValidHolds, Checks, Validated
    <2>2. CASE ed[f] # NoEdit /\ Unpublish
      <3>1. Same(f) /\ UNCHANGED described
        BY <2>2, MarkedSame DEF Unpublish
      <3> QED BY <1>1, <1>2, <1>3, <3>1, SameKnows DEF Spared, Informed, Same
    <2>3. CASE ed[f] # NoEdit /\ ~Unpublish
      <3>1. ed'[f] = [ed[f] EXCEPT !.crossed = TRUE]
        BY <2>3 DEF UpdateCourse
      <3>2. Same(f) /\ ed'[f].crossed
        BY <3>1, MarkedSame, Crossed
      <3> QED BY <1>1, <1>2, <1>3, <3>2, SameKnows DEF Spared, Informed, Same
    <2> QED BY <2>1, <2>2, <2>3
  <1> QED BY <1>2, <1>4 DEF Informed

(* What is copied hangs too.                                               *)
LEMMA CopyStep ==
    ASSUME NEW e \in Editors, Request(e) \/ Statement(e)
    PROVE  /\ spare' \subseteq spare
           /\ \/ UNCHANGED copy
              \/ copy' = [copy EXCEPT ![e] = NoTree]
              \/ CloneVersionTree(e)
  <1>1. CASE Request(e)
    <2>1. UNCHANGED content
      BY <1>1 DEF Request, CreateGuard, DeleteGuard, UpdateGuard, QuestionGuard, ReadContent,
         PublishGuard, DraftBegin, Guard
    <2> QED BY <2>1 DEF content
  <1>2. CASE CheckVersion(e) \/ CloneVersionTree(e)
    BY <1>2, CheckGoesOn, CloneGoesOn DEF Clone, Reads, content
  <1>3. CASE Statement(e) /\ ~CheckVersion(e) /\ ~CloneVersionTree(e)
    BY <1>3 DEF Statement, CreateMax, CreateInsert, Delete, Update, ReorderList, ReorderWrite,
       UpdateQuestion, SaveGuard, SaveCompare, Save, SetCriteria, CheckMetadata,
       PublishSupersede, PublishWait, PublishMark, PublishCommit, Committed, DraftSearch,
       DraftNumber, DraftInsert, DraftCommit, Drop, Write, Reads, content
  <1> QED BY <1>1, <1>2, <1>3

LEMMA CopiesGrow ==
    ASSUME Shape, Forest, Informed, Copies, NEW e \in Editors, Request(e) \/ Statement(e)
    PROVE  Copies'
  <1>1. spare' \subseteq spare
    BY CopyStep
  <1>2. CASE UNCHANGED copy
    BY <1>1, <1>2 DEF Copies
  <1>3. CASE copy' = [copy EXCEPT ![e] = NoTree]
    BY <1>1, <1>3, NoTreeGrown DEF Copies, Shape
  <1>4. CASE CloneVersionTree(e)
    <2>1. PICK pc, next \in Cloning : \E kinds : Clone(e, pc, kinds, next)
      BY <1>4, CloneGoesOn
    <2>2. PICK kinds : Clone(e, pc, kinds, next)
      BY <2>1
    <2>3. ed[e].from \in Versions
      <3>1. ed[e].pc \in Cloning \ {"commit"}
        BY <1>4 DEF CloneVersionTree, Clone, At, Cloning
      <3> QED BY <3>1 DEF Informed, Knows
    <2> DEFINE u == Cloned(tree[ed[e].from], copy[e], kinds)
    <2>4. Grown(u) /\ DOMAIN u \subseteq DOMAIN copy[e] \cup DOMAIN tree[ed[e].from]
      BY <2>3, ClonedGrown DEF Forest, Copies
    <2>5. copy' = [copy EXCEPT ![e] = u]
      BY <2>2 DEF Clone
    <2> HIDE DEF u
    <2>6. DOMAIN u \cap spare = {}
      BY <2>3, <2>4 DEF Forest, Copies
    <2> QED BY <1>1, <2>4, <2>5, <2>6 DEF Copies, Shape
  <1> QED BY <1>2, <1>3, <1>4, CopyStep

LEMMA StatementKnows ==
    ASSUME Shape, Late, Shown, Forest, Copies, Informed, NEW e \in Editors, Statement(e)
    PROVE  KnownStep(e)
  <1>1. CASE \/ CreateMax(e) \/ \E n \in 0 .. LastPosition : ReorderList(e, n)
             \/ SaveGuard(e) \/ SaveCompare(e) \/ CheckMetadata(e) \/ CheckVersion(e)
             \/ PublishSupersede(e) \/ PublishWait(e) \/ PublishMark(e)
             \/ DraftSearch(e) \/ DraftNumber(e) \/ Drop(e)
    BY <1>1, ListKnows, SavingKnows, ValidatingKnows, DraftKnows, DropKnows
  <1>2. CASE \/ \E x \in Ids, body \in Bodies \cup {Blank, Written}, visible, required \in BOOLEAN :
                  CreateInsert(e, x, body, visible, required)
             \/ Delete(e) \/ ReorderWrite(e) \/ Save(e)
             \/ \E visible, required \in BOOLEAN : Update(e, visible, required)
             \/ \E body \in Bodies : UpdateQuestion(e, body)
    BY <1>2, CreateKnows, DeleteKnows, RenumberKnows, SaveKnows, UpdateKnows, QuestionKnows
  <1>3. CASE \/ (\E ok \in BOOLEAN : SetCriteria(e, ok)) \/ PublishCommit(e) \/ DraftInsert(e)
             \/ CloneVersionTree(e) \/ DraftCommit(e)
    BY <1>3, CriteriaKnows, CommitKnows, InsertKnows, CloneKnows, DraftCommitKnows
  <1> QED BY <1>1, <1>2, <1>3 DEF Statement

LEMMA InitKnows == Init => Forest /\ Copies /\ Informed
  <1> SUFFICES ASSUME Init PROVE Forest /\ Copies /\ Informed
    OBVIOUS
  <1>1. Grown(StartTree)
    <2>1. \A s \in DOMAIN StartTree : StartTree[s] \in Node
      BY StartAssumption
    <2>2. \A s \in DOMAIN StartTree : NodeRow(StartTree[s])
      BY <2>1, VersionsAssumption DEF Node, NodeRow, Columns
    <2> QED BY <2>2, StartAssumption DEF Grown
  <1>2. Forest
    <2> SUFFICES ASSUME NEW v \in Versions
                 PROVE  /\ Grown(tree[v]) /\ DOMAIN tree[v] \cap spare = {}
                        /\ status[v] = "none" => DOMAIN tree[v] = {}
      BY DEF Forest
    <2>1. CASE v = 1
      BY <1>1, <2>1 DEF Init
    <2>2. CASE v # 1
      BY <2>2, NoTreeGrown DEF Init
    <2> QED BY <2>1, <2>2
  <1>3. \A e \in Editors : ed[e] = NoEdit
    BY DEF Init
  <1>4. Copies
    BY NoTreeGrown DEF Init, Copies
  <1> QED BY <1>2, <1>3, <1>4, IdleKnows DEF Informed

LEMMA NextKnows ==
    ASSUME Shape, Late, Shown, Forest, Copies, Informed, [Next]_vars
    PROVE  Forest' /\ Copies' /\ Informed'
  <1>1. CASE UNCHANGED vars
    <2>1. UNCHANGED <<described, status, sound, tree, copy, spare, ed>>
      BY <1>1 DEF vars
    <2>2. \A e \in Editors : Knows(ed[e])'
      <3> SUFFICES ASSUME NEW e \in Editors PROVE Knows(ed[e])'
        OBVIOUS
      <3>1. PICK r : r = ed[e] /\ ed'[e] = r /\ Knows(r)
        BY <2>1 DEF Informed
      <3> QED BY <2>1, <3>1, Recall
    <2> QED BY <2>1, <2>2 DEF Forest, Copies, Informed
  <1>2. ASSUME NEW e \in Editors, Request(e) \/ Statement(e)
        PROVE  Forest' /\ Copies' /\ Informed'
    BY <1>2, RequestKnows, StatementKnows, CopiesGrow DEF KnownStep
  <1>3. CASE Unpublish \/ \E filled \in BOOLEAN : UpdateCourse(filled)
    <2>1. UNCHANGED <<copy, spare>>
      BY <1>3 DEF Unpublish, UpdateCourse, content
    <2> QED BY <1>3, <2>1, CourseKnows DEF Copies
  <1> QED BY <1>1, <1>2, <1>3 DEF Next

VersionsInv == Shape /\ Late /\ Shown /\ Forest /\ Copies /\ Informed

LEMMA VersionsInductive ==
    /\ Init => VersionsInv
    /\ VersionsInv /\ [Next]_vars => VersionsInv'
  <1>1. Init => VersionsInv
    BY InitShape, InitShown, InitKnows DEF VersionsInv
  <1>2. VersionsInv /\ [Next]_vars => VersionsInv'
    BY NextStep, NextShown, NextKnows DEF VersionsInv
  <1> QED BY <1>1, <1>2

(* In every version a node has its parent, of the kind above it, whichever *)
(* creations, deletions and drafts overlap: the cascade of a deletion      *)
(* reaches all that hangs from the row, and an insertion looks for its     *)
(* parent when it inserts.                                                 *)
THEOREM TreesStayWhole == Spec => []TreesHang
  <1>1. VersionsInv => TreesHang
    BY DEF VersionsInv, Forest, Grown, TreesHang
  <1> QED BY <1>1, VersionsInductive, PTL DEF Spec

-----------------------------------------------------------------------------
(* What validateForPublication checks is what a student needs.             *)
LEMMA ValidIsPresentable ==
    ASSUME NEW v, Grown(tree[v]), described, sound[v],
           Counted(v), NoneEmpty(v), Available(v)
    PROVE  Presentable(v)
  <1> DEFINE t == tree[v]
             shown == {r \in Resources(t) : t[r].visible}
  <1>1. DOMAIN t \subseteq Ids /\ Hangs(t) /\ Top \notin Ids /\ \A s \in Ids : Kind[s] \in Kinds
    BY VersionsAssumption DEF Grown
  <1>2. ASSUME NEW p \in DOMAIN t, NEW s \in Children(t, {p})
        PROVE  s \in DOMAIN t /\ Kind[p] = ParentKind[Kind[s]] /\ Kind[s] \in Kinds
    BY <1>1 DEF Children, Hangs
  <1>3. ASSUME NEW u \in DOMAIN t, Kind[u] = "unit"
        PROVE  \E r \in shown : r \in Children(t, {u})
    <2>1. PICK r \in Children(t, {u}) : t[r].visible
      BY <1>3 DEF NoneEmpty, OfKind
    <2>2. r \in DOMAIN t /\ Kind[u] = ParentKind[Kind[r]] /\ Kind[r] \in Kinds
      BY <1>2
    <2>3. Kind[r] \in {"text", "quiz"}
      BY <1>3, <2>2, ParentKinds DEF Kinds
    <2> QED BY <2>1, <2>2, <2>3 DEF Resources
  <1>4. ASSUME NEW s \in DOMAIN t, Kind[s] \in {"module", "unit"}
        PROVE  Under(t, s) \cap shown # {}
    <2>1. CASE Kind[s] = "unit"
      <3>1. PICK r \in shown : r \in Children(t, {s})
        BY <1>3, <2>1
      <3> QED BY <3>1 DEF Under
    <2>2. CASE Kind[s] = "module"
      <3>1. PICK u : u \in Children(t, {s})
        BY <2>2 DEF NoneEmpty, OfKind
      <3>2. u \in DOMAIN t /\ Kind[s] = ParentKind[Kind[u]] /\ Kind[u] \in Kinds
        BY <1>2, <3>1
      <3>3. Kind[u] = "unit"
        BY <2>2, <3>2, ParentKinds DEF Kinds
      <3>4. PICK r \in shown : r \in Children(t, {u})
        BY <1>3, <3>2, <3>3
      <3>5. r \in Children(t, Children(t, {s}))
        BY <3>1, <3>4 DEF Children
      <3> QED BY <3>4, <3>5 DEF Under
    <2> QED BY <1>4, <2>1, <2>2
  <1>5. \A r \in shown : Kind[r] = "text" => t[r].body # Blank
    BY DEF Available
  <1>6. ASSUME NEW r \in shown, Kind[r] = "quiz" PROVE Under(t, r) # {r}
    <2>1. r \in DOMAIN t /\ r \in Resources(t) /\ t[r].visible
      BY DEF Resources
    <2>2. PICK q : q \in Children(t, {r})
      BY <1>6, <2>1 DEF Available
    <2>3. Kind[r] = ParentKind[Kind[q]]
      BY <1>2, <2>1, <2>2
    <2>4. q # r
      BY <1>6, <2>3, ParentKinds
    <2> QED BY <2>2, <2>4 DEF Under
  <1>7. described /\ sound[v] /\ \E r \in shown : t[r].required
    BY DEF Counted
  <1> QED BY <1>4, <1>5, <1>6, <1>7 DEF Presentable

LEMMA StatusStep ==
    ASSUME Shape, Late, [Next]_vars, NEW v \in Versions,
           status[v] # "published", status'[v] = "published"
    PROVE  \E e \in Editors : At(e, "publish") /\ ed[e].v = v
  <1>1. ASSUME NEW e \in Editors, PublishCommit(e) PROVE At(e, "publish") /\ ed[e].v = v
    <2>1. status'[v] = IF v = ed[e].v THEN "published"
                       ELSE IF v \in ed[e].rows THEN "superseded" ELSE status[v]
      BY <1>1 DEF PublishCommit
    <2> QED BY <1>1, <2>1 DEF PublishCommit
  <1>2. ASSUME NEW e \in Editors, DraftCommit(e) PROVE FALSE
    BY <1>2 DEF DraftCommit, Shape
  <1>3. ASSUME NEW e \in Editors, Request(e) PROVE FALSE
    <2>1. UNCHANGED status
      BY <1>3 DEF Request, CreateGuard, DeleteGuard, UpdateGuard, QuestionGuard, ReadContent,
         PublishGuard, DraftBegin, Guard
    <2> QED BY <2>1
  <1>4. ASSUME NEW e \in Editors, Statement(e), ~PublishCommit(e), ~DraftCommit(e) PROVE FALSE
    <2>1. CASE CheckVersion(e) \/ CloneVersionTree(e)
      BY <2>1, CheckGoesOn, CloneGoesOn DEF Clone, Reads
    <2>2. CASE ~(CheckVersion(e) \/ CloneVersionTree(e))
      <3>1. UNCHANGED status
        BY <1>4, <2>2 DEF Statement, CreateMax, CreateInsert, Delete, Update, ReorderList,
           ReorderWrite, UpdateQuestion, SaveGuard, SaveCompare, Save, SetCriteria,
           CheckMetadata, PublishSupersede, PublishWait, PublishMark, DraftSearch, DraftNumber,
           DraftInsert, Drop, Write, Reads
      <3> QED BY <3>1
    <2> QED BY <2>1, <2>2
  <1>5. CASE Unpublish \/ (\E filled \in BOOLEAN : UpdateCourse(filled)) \/ UNCHANGED vars
    BY <1>5 DEF Unpublish, UpdateCourse, vars
  <1> QED BY <1>1, <1>2, <1>3, <1>4, <1>5 DEF Next

(* A version is published only when it is presentable, unless the course   *)
(* or the version was edited between its validation and its transaction.   *)
THEOREM PublicationStaysSound == Spec => PublicationIsSound
  <1> DEFINE Step == \A v \in Versions :
                       status[v] # "published" /\ status'[v] = "published" =>
                       \E e \in Editors : /\ At(e, "publish") /\ ed[e].v = v
                                          /\ ed[e].crossed \/ Presentable(v)
  <1>1. ASSUME VersionsInv, [Next]_vars PROVE [Step]_vars
    <2> SUFFICES ASSUME NEW v \in Versions, status[v] # "published", status'[v] = "published"
                 PROVE  \E e \in Editors : /\ At(e, "publish") /\ ed[e].v = v
                                           /\ ed[e].crossed \/ Presentable(v)
      OBVIOUS
    <2>1. PICK e \in Editors : At(e, "publish") /\ ed[e].v = v
      BY <1>1, StatusStep DEF VersionsInv
    <2>2. ~ed[e].crossed => /\ described /\ sound[v]
                            /\ Counted(v) /\ NoneEmpty(v) /\ Available(v)
      BY <1>1, <2>1 DEF VersionsInv, Informed, Knows, ValidHolds, Validated, At
    <2>3. ~ed[e].crossed => Presentable(v)
      BY <1>1, <2>2, ValidIsPresentable DEF VersionsInv, Forest
    <2> QED BY <2>1, <2>3
  <1> QED BY <1>1, VersionsInductive, PTL DEF Spec, PublicationIsSound

-----------------------------------------------------------------------------
(* The pcs of a validation and of a clone.                                 *)
LEMMA OtherPcs ==
    ASSUME NEW e \in Editors, CheckVersion(e) \/ CloneVersionTree(e)
    PROVE  ed[e].pc \in Checks \cup Cloning /\ ~At(e, "save") /\ ~At(e, "renumber")
  BY DEF CheckVersion, Check, CloneVersionTree, Clone, At, Checks, Cloning

(* The end of a save, as its author knows it.                              *)
LEMMA SaveStep ==
    ASSUME VersionsInv, [Next]_vars, NEW e \in Editors, At(e, "save"), ed'[e] = NoEdit,
           tree' # tree
    PROVE  ed[e].s \in DOMAIN This(e)
  <1>1. NoEdit.pc # ed[e].pc
    BY DEF NoEdit, At
  <1>2. ASSUME NEW f \in Editors, Request(f) \/ Statement(f) PROVE f = e
    BY <1>1, <1>2, RequestKnows, StatementKnows DEF VersionsInv, KnownStep
  <1>3. ~(Unpublish \/ (\E filled \in BOOLEAN : UpdateCourse(filled)) \/ UNCHANGED vars)
    BY DEF Unpublish, UpdateCourse, content, vars
  <1>4. Statement(e)
    BY <1>2, <1>3 DEF Next, Request, At
  <1>5. Save(e) \/ Drop(e)
    BY <1>4, OtherPcs DEF Statement, CreateMax, Delete, Update, ReorderList, ReorderWrite,
       UpdateQuestion, SaveGuard, SaveCompare, SetCriteria, CheckMetadata,
       PublishSupersede, PublishWait, PublishMark, PublishCommit, DraftSearch, DraftNumber,
       DraftInsert, DraftCommit, At
  <1> QED BY <1>5 DEF Save, Drop, Reads, content

(* A save that follows its comparison at once replaces the text that its   *)
(* author had read: revisions only grow, and with them the texts.          *)
THEOREM SavesReplaceWhatWasRead == Spec => SavesOverWhatWasRead
  <1> DEFINE Step == \A e \in Editors :
                       At(e, "save") /\ ed'[e] = NoEdit /\ tree' # tree /\ ~ed[e].crossed =>
                       This(e)[ed[e].s].body = ed[e].body
  <1>1. ASSUME VersionsInv, [Next]_vars PROVE [Step]_vars
    <2> SUFFICES ASSUME NEW e \in Editors, At(e, "save"), ed'[e] = NoEdit, tree' # tree,
                        ~ed[e].crossed
                 PROVE  This(e)[ed[e].s].body = ed[e].body
      OBVIOUS
    <2>1. ed[e].s \in DOMAIN This(e)
      BY <1>1, SaveStep
    <2>2. ReadHolds(ed[e])
      BY <1>1 DEF VersionsInv, Informed, Knows, At, Saving
    <2> QED BY <2>1, <2>2 DEF ReadHolds, At, This
  <1> QED BY <1>1, VersionsInductive, PTL DEF Spec, SavesOverWhatWasRead
-----------------------------------------------------------------------------
(* Numbers and sequences: what the helpers of the model return.            *)

(* Of a finite set with a position for each, there is an i-th.             *)
Upto(S, pos, x) == {y \in S : pos[y] <= pos[x]}
Rank(S, pos, x) == Cardinality(Upto(S, pos, x))
Placed(S, pos) == pos \in [S -> Nat] /\ \A x, y \in S : pos[x] = pos[y] => x = y

LEMMA Ranked ==
    ASSUME NEW S, IsFiniteSet(S), NEW pos, Placed(S, pos)
    PROVE  /\ Cardinality(S) \in Nat
           /\ \A x \in S : Rank(S, pos, x) \in 1 .. Cardinality(S)
           /\ \A x, y \in S : pos[x] < pos[y] <=> Rank(S, pos, x) < Rank(S, pos, y)
           /\ \A i \in 1 .. Cardinality(S) : \E x \in S : Rank(S, pos, x) = i
  <1> DEFINE N == Cardinality(S)
             rank == [x \in S |-> Rank(S, pos, x)]
  <1>1. N \in Nat
    BY FS_CardinalityType
  <1>2. \A x \in S : pos[x] \in Nat
    BY DEF Placed
  <1>3. ASSUME NEW x \in S
        PROVE  IsFiniteSet(Upto(S, pos, x)) /\ Rank(S, pos, x) \in 1 .. N
    <2>1. Upto(S, pos, x) \in SUBSET S /\ x \in Upto(S, pos, x)
      BY <1>2 DEF Upto
    <2>2. IsFiniteSet(Upto(S, pos, x)) /\ Cardinality(Upto(S, pos, x)) <= N
      BY <2>1, FS_Subset
    <2>3. Cardinality(Upto(S, pos, x)) \in Nat /\ Cardinality(Upto(S, pos, x)) # 0
      BY <2>1, <2>2, FS_CardinalityType, FS_EmptySet
    <2> QED BY <1>1, <2>2, <2>3 DEF Rank
  <1>4. ASSUME NEW x \in S, NEW y \in S, pos[x] < pos[y]
        PROVE  Rank(S, pos, x) < Rank(S, pos, y)
    <2>1. Upto(S, pos, x) \in SUBSET Upto(S, pos, y) /\ y \in Upto(S, pos, y)
          /\ y \notin Upto(S, pos, x)
      BY <1>2, <1>4 DEF Upto
    <2>2. /\ Cardinality(Upto(S, pos, x)) <= Cardinality(Upto(S, pos, y))
          /\ Cardinality(Upto(S, pos, y)) # Cardinality(Upto(S, pos, x))
      BY <1>3, <2>1, FS_Subset
    <2>3. Rank(S, pos, x) \in 1 .. N /\ Rank(S, pos, y) \in 1 .. N
      BY <1>3
    <2> QED BY <1>1, <2>2, <2>3 DEF Rank
  <1>5. ASSUME NEW x \in S, NEW y \in S
        PROVE  /\ pos[x] < pos[y] <=> Rank(S, pos, x) < Rank(S, pos, y)
               /\ Rank(S, pos, x) = Rank(S, pos, y) => x = y
    <2>1. pos[x] < pos[y] \/ pos[y] < pos[x] \/ x = y
      BY <1>2 DEF Placed
    <2>2. Rank(S, pos, x) \in Int /\ Rank(S, pos, y) \in Int
      BY <1>1, <1>3
    <2>3. pos[x] \in Int /\ pos[y] \in Int
      BY <1>2
    <2> QED BY <1>4, <2>1, <2>2, <2>3
  <1>6. rank \in Injection(S, 1 .. N)
    <2>1. rank \in [S -> 1 .. N]
      BY <1>3
    <2>2. \A x, y \in S : rank[x] = rank[y] => x = y
      BY <1>5
    <2> HIDE DEF rank
    <2> QED BY <2>1, <2>2 DEF Injection, IsInjective
  <1>7. IsFiniteSet(1 .. N) /\ Cardinality(1 .. N) = N
    BY <1>1, FS_Interval
  <1>8. rank \in Surjection(S, 1 .. N)
    <2> HIDE DEF rank
    <2> QED BY <1>6, <1>7, FS_Injection
  <1>9. \A i \in 1 .. N : \E x \in S : rank[x] = i
    <2> HIDE DEF rank
    <2> QED BY <1>8 DEF Surjection
  <1> QED BY <1>1, <1>3, <1>5, <1>9

(* The greatest of a finite set of numbers.                                *)
LEMMA Greatest ==
    ASSUME NEW S \in SUBSET Nat, IsFiniteSet(S), S # {}
    PROVE  Max(S) \in S /\ \A x \in S : Max(S) >= x
  <1> DEFINE pos == [x \in S |-> x]
             N == Cardinality(S)
  <1>1. Placed(S, pos)
    BY DEF Placed
  <1> HIDE DEF pos
  <1>2. /\ N \in Nat /\ \A x \in S : Rank(S, pos, x) \in 1 .. N
        /\ \A x, y \in S : pos[x] < pos[y] <=> Rank(S, pos, x) < Rank(S, pos, y)
        /\ \A i \in 1 .. N : \E x \in S : Rank(S, pos, x) = i
    BY <1>1, Ranked
  <1>3. N \in 1 .. N
    <2>1. PICK x : x \in S
      OBVIOUS
    <2> HIDE DEF N
    <2> QED BY <1>2, <2>1
  <1> HIDE DEF N
  <1>4. PICK m \in S : Rank(S, pos, m) = N
    BY <1>2, <1>3
  <1>5. \A x \in S : m >= x
    <2> SUFFICES ASSUME NEW x \in S, x > m PROVE FALSE
      OBVIOUS
    <2>1. Rank(S, pos, m) < Rank(S, pos, x)
      BY <1>2 DEF pos
    <2> QED BY <1>2, <1>4, <2>1
  <1> QED BY <1>5 DEF Max

LEMMA GreatestOfTwo ==
    ASSUME NEW a \in Int, NEW b \in Int
    PROVE  Max({a, b}) = IF a >= b THEN a ELSE b
  BY DEF Max

LEMMA LeastOfTwo ==
    ASSUME NEW a \in Int, NEW b \in Int
    PROVE  Min({a, b}) = IF a <= b THEN a ELSE b
  BY DEF Min

(* Siblings in the order of their positions, each of them once.            *)
LEMMA Ordered ==
    ASSUME NEW t, NEW S, IsFiniteSet(S), \A x \in S : t[x].position \in Nat,
           \A x, y \in S : t[x].position = t[y].position => x = y
    PROVE  /\ Cardinality(S) \in Nat
           /\ InOrder(t, S) \in [1 .. Cardinality(S) -> S]
           /\ \A x \in S : \E i \in 1 .. Cardinality(S) : InOrder(t, S)[i] = x
           /\ \A i, j \in 1 .. Cardinality(S) :
                i < j <=> t[InOrder(t, S)[i]].position < t[InOrder(t, S)[j]].position
  <1> DEFINE pos == [x \in S |-> t[x].position]
             N == Cardinality(S)
             q == InOrder(t, S)
  <1>1. Placed(S, pos)
    BY DEF Placed
  <1>2. ASSUME NEW x \in S
        PROVE  Cardinality({y \in S : t[y].position <= t[x].position}) = Rank(S, pos, x)
    <2>1. {y \in S : t[y].position <= t[x].position} = Upto(S, pos, x)
      BY DEF Upto
    <2> QED BY <2>1 DEF Rank
  <1>3. \A x \in S : pos[x] = t[x].position
    OBVIOUS
  <1> HIDE DEF pos
  <1>4. /\ N \in Nat /\ \A x \in S : Rank(S, pos, x) \in 1 .. N
        /\ \A x, y \in S : pos[x] < pos[y] <=> Rank(S, pos, x) < Rank(S, pos, y)
        /\ \A i \in 1 .. N : \E x \in S : Rank(S, pos, x) = i
    BY <1>1, Ranked
  <1>5. q = [i \in 1 .. N |->
                CHOOSE x \in S : Cardinality({y \in S : t[y].position <= t[x].position}) = i]
    BY DEF InOrder
  <1> HIDE DEF N, q
  <1>6. ASSUME NEW i \in 1 .. N PROVE q[i] \in S /\ Rank(S, pos, q[i]) = i
    <2>1. \E x \in S : Cardinality({y \in S : t[y].position <= t[x].position}) = i
      BY <1>2, <1>4
    <2>2. q[i] \in S /\ Cardinality({y \in S : t[y].position <= t[q[i]].position}) = i
      BY <1>5, <2>1
    <2> QED BY <1>2, <2>2
  <1>7. q \in [1 .. N -> S]
    BY <1>5, <1>6
  <1>8. ASSUME NEW x \in S PROVE q[Rank(S, pos, x)] = x
    <2>1. Rank(S, pos, x) \in 1 .. N
      BY <1>4
    <2>2. q[Rank(S, pos, x)] \in S /\ Rank(S, pos, q[Rank(S, pos, x)]) = Rank(S, pos, x)
      BY <1>6, <2>1
    <2>3. \A y \in S : Rank(S, pos, y) = Rank(S, pos, x) => pos[y] = pos[x]
      <3> SUFFICES ASSUME NEW y \in S, Rank(S, pos, y) = Rank(S, pos, x)
                   PROVE  pos[y] = pos[x]
        OBVIOUS
      <3>1. ~(pos[x] < pos[y]) /\ ~(pos[y] < pos[x])
        BY <1>4
      <3>2. pos[x] \in Nat /\ pos[y] \in Nat
        BY <1>1 DEF Placed
      <3> QED BY <3>1, <3>2
    <2> QED BY <1>1, <2>2, <2>3 DEF Placed
  <1>9. \A x \in S : \E i \in 1 .. N : q[i] = x
    BY <1>4, <1>8
  <1>10. \A i, j \in 1 .. N : i < j <=> t[q[i]].position < t[q[j]].position
    BY <1>3, <1>4, <1>6
  <1> QED BY <1>4, <1>7, <1>9, <1>10 DEF N, q

(* The place asked for among the others, or the nearest end.               *)
Place(k, n) == Max({1, Min({n, k + 1})})

LEMMA PlaceIs ==
    ASSUME NEW k \in Nat, NEW n \in Nat
    PROVE  Place(k, n) = IF n < 1 THEN 1 ELSE IF n > k + 1 THEN k + 1 ELSE n
  <1>1. PICK m : m = Min({n, k + 1}) /\ m = (IF n <= k + 1 THEN n ELSE k + 1)
    BY LeastOfTwo
  <1>2. m \in Int
    BY <1>1
  <1>3. Max({1, m}) = IF 1 >= m THEN 1 ELSE m
    BY <1>2, GreatestOfTwo
  <1>4. Place(k, n) = Max({1, m})
    BY <1>1 DEF Place
  <1> QED BY <1>1, <1>2, <1>3, <1>4

(* An item put at its place among the others.                              *)
LEMMA MovedList ==
    ASSUME NEW T, NEW others \in Seq(T), NEW s \in T, NEW n \in Nat
    PROVE  LET list == Moved(others, s, n)
               at == Place(Len(others), n)
           IN  /\ list \in Seq(T) /\ Len(list) = Len(others) + 1
               /\ at \in 1 .. Len(list)
               /\ \A i \in 1 .. Len(list) :
                    list[i] = IF i < at THEN others[i] ELSE IF i = at THEN s ELSE others[i - 1]
  <1> DEFINE k == Len(others)
             at == Place(k, n)
             before == SubSeq(others, 1, at - 1)
             after == SubSeq(others, at, k)
             list == before \o <<s>> \o after
  <1>1. k \in Nat /\ at \in 1 .. (k + 1)
    BY PlaceIs
  <1>2. Moved(others, s, n) = list
    BY DEF Moved, InsertAt, Place
  <1> HIDE DEF at
  <1>3. before \in Seq(T) /\ Len(before) = at - 1 /\ \A i \in 1 .. (at - 1) : before[i] = others[i]
    BY <1>1
  <1>4. after \in Seq(T) /\ Len(after) = k - at + 1
        /\ \A i \in 1 .. (k - at + 1) : after[i] = others[at + i - 1]
    BY <1>1
  <1> HIDE DEF before, after, k
  <1>5. list \in Seq(T) /\ Len(list) = k + 1
    BY <1>1, <1>3, <1>4
  <1>6. ASSUME NEW i \in 1 .. (k + 1)
        PROVE  list[i] = IF i < at THEN others[i] ELSE IF i = at THEN s ELSE others[i - 1]
    <2>1. CASE i < at
      BY <1>1, <1>3, <1>4, <2>1
    <2>2. CASE i = at
      BY <1>1, <1>3, <1>4, <2>2
    <2>3. CASE i > at
      <3>1. i - at \in 1 .. (k - at + 1)
        BY <1>1, <2>3
      <3>2. list[i] = after[i - at]
        BY <1>1, <1>3, <1>4, <2>3
      <3>3. after[i - at] = others[at + (i - at) - 1]
        BY <1>4, <3>1
      <3>4. at + (i - at) - 1 = i - 1
        BY <1>1
      <3>5. list[i] = others[i - 1]
        <4> HIDE DEF list
        <4> QED BY <3>2, <3>3, <3>4
      <3>6. ~(i < at) /\ i # at
        BY <1>1, <2>3
      <3> HIDE DEF list
      <3> QED BY <3>5, <3>6
    <2>4. i \in Int /\ at \in Int
      BY <1>1
    <2> HIDE DEF list
    <2> QED BY <2>1, <2>2, <2>3, <2>4
  <1> QED BY <1>1, <1>2, <1>5, <1>6 DEF k, at

-----------------------------------------------------------------------------
(* The types.  The rows are of the columns' types and obey the unique      *)
(* indexes, which is what gives siblings an order, and a request is at a   *)
(* node wherever its statement needs one.                                  *)
Rows(t) ==
    /\ DOMAIN t \subseteq Ids /\ \A s \in DOMAIN t : t[s] \in Node
    /\ UniquePositions(t)
Sited(r) ==
    /\ r.pc \in {"update", "list", "renumber"} => r.s # Top
    /\ r.pc = "insert" => r.n >= 1
    /\ r.pc \in Cloning \cup {"version"} => r.n \in Versions
Typed ==
    /\ course \in [status : {"draft", "published", "unpublished"}, current : 0 .. LastVersion]
    /\ described \in BOOLEAN
    /\ status \in [Versions -> {"none", "draft", "published", "superseded"}]
    /\ status[1] # "none"
    /\ sound \in [Versions -> BOOLEAN]
    /\ \A v \in Versions : Rows(tree[v])
    /\ spare \subseteq Ids
    /\ ed \in [Editors -> Edit]
    /\ \A e \in Editors : Sited(ed[e])
    /\ left \in 0 .. Budget

(* A copy has the kinds that its request has inserted so far.              *)
Copied(pc) == CASE pc = "units" -> {"module"}
                [] pc = "resources" -> {"module", "unit"}
                [] pc = "questions" -> {"module", "unit", "text", "quiz"}
                [] pc = "commit" -> Kinds
                [] OTHER -> {}
CopiesTyped ==
    \A e \in Editors : /\ Rows(copy[e])
                       /\ \A s \in DOMAIN copy[e] : Kind[s] \in Copied(ed[e].pc)

LEMMA NoEditTyped == NoEdit \in Edit /\ Sited(NoEdit)
  <1>1. 0 \in 0 .. LastVersion /\ Blank \in Body /\ <<>> \in Seq(Ids)
    BY VersionsAssumption DEF Body
  <1>2. NoEdit \in Edit
    BY <1>1 DEF NoEdit, Edit, Pcs, Cloning
  <1> QED BY <1>2 DEF NoEdit, Sited, Cloning

(* What a step of e leaves of the memory of another request.               *)
Marked(f) == \/ ed'[f] = ed[f]
             \/ ed'[f] = [ed[f] EXCEPT !.crossed = TRUE]
             \/ ed'[f] = [ed[f] EXCEPT !.late = TRUE]

LEMMA MarkedTyped ==
    ASSUME Typed, NEW f \in Editors, Marked(f)
    PROVE  ed'[f] \in Edit /\ Sited(ed'[f])
  <1>1. ed[f] \in Edit /\ Sited(ed[f])
    BY DEF Typed
  <1>2. CASE ed'[f] = ed[f]
    BY <1>1, <1>2
  <1>3. CASE ed'[f] = [ed[f] EXCEPT !.crossed = TRUE]
    BY <1>1, <1>3 DEF Edit, Sited
  <1>4. CASE ed'[f] = [ed[f] EXCEPT !.late = TRUE]
    BY <1>1, <1>4 DEF Edit, Sited
  <1> QED BY <1>2, <1>3, <1>4 DEF Marked

LEMMA MemoriesTyped ==
    ASSUME Typed, NEW e \in Editors, ed' = [f \in Editors |-> ed'[f]],
           ed'[e] \in Edit, Sited(ed'[e]), \A f \in Editors \ {e} : Marked(f)
    PROVE  ed' \in [Editors -> Edit] /\ \A f \in Editors : Sited(ed'[f])
  BY MarkedTyped

(* A step of e that only changes its own memory.                           *)
LEMMA ReadTyped ==
    ASSUME Typed, NEW e \in Editors, NEW r \in Edit, Sited(r), ed' = [ed EXCEPT ![e] = r],
           UNCHANGED <<course, described, status, content>>, left' \in 0 .. Budget
    PROVE  Typed'
  <1>1. ed \in [Editors -> Edit]
    BY DEF Typed
  <1>2. /\ ed' = [f \in Editors |-> ed'[f]] /\ ed'[e] = r
        /\ \A f \in Editors \ {e} : Marked(f)
    BY <1>1 DEF Marked
  <1>3. ed' \in [Editors -> Edit] /\ \A f \in Editors : Sited(ed'[f])
    BY <1>2, MemoriesTyped
  <1>4. UNCHANGED <<course, described, status, sound, tree, spare>>
    BY DEF content
  <1>5. \A v \in Versions : Rows(tree[v])'
    BY <1>4 DEF Typed
  <1>6. \A f \in Editors : Sited(ed[f])'
    BY <1>3 DEF Sited
  <1> QED BY <1>3, <1>4, <1>5, <1>6 DEF Typed

LEMMA AnswerTyped ==
    ASSUME Typed, NEW e \in Editors, Answer(e), Reads
    PROVE  Typed'
  BY NoEditTyped, ReadTyped DEF Answer, Reads, Typed

(* A step of e that writes its version's rows.                             *)
LEMMA WriteTyped ==
    ASSUME Shape, Typed, NEW e \in Editors, ed[e].v \in Versions, NEW u, Rows(u),
           NEW next \in Edit, Sited(next), Write(e, u, next), spare' \subseteq Ids
    PROVE  Typed'
  <1> DEFINE v == ed[e].v
  <1>1. /\ ed' = [f \in Editors |-> ed'[f]] /\ ed'[e] = next
        /\ \A f \in Editors \ {e} : Marked(f)
    BY DEF Write, Marked
  <1>2. ed' \in [Editors -> Edit] /\ \A f \in Editors : Sited(ed'[f])
    BY <1>1, MemoriesTyped
  <1>3. UNCHANGED <<course, described, status, sound, left>> /\ tree' = [tree EXCEPT ![v] = u]
    BY DEF Write
  <1>4. tree'[v] = u /\ \A w \in Versions \ {v} : tree'[w] = tree[w]
    BY <1>3 DEF Shape
  <1>5. \A w \in Versions : Rows(tree'[w])
    BY <1>4 DEF Typed
  <1>6. \A f \in Editors : Sited(ed[f])'
    BY <1>2 DEF Sited
  <1>7. \A w \in Versions : Rows(tree[w])'
    BY <1>5 DEF Rows, UniquePositions
  <1> QED BY <1>2, <1>3, <1>6, <1>7 DEF Typed

LEMMA RequestTyped ==
    ASSUME Forest, Typed, NEW e \in Editors, Request(e)
    PROVE  Typed'
  <1>1. NoEdit \in Edit
    BY NoEditTyped
  <1>2. left > 0 /\ left \in 0 .. Budget /\ Budget \in Nat
    BY VersionsAssumption DEF Request, Typed
  <1>3. ASSUME NEW v \in 0 .. LastVersion, NEW s \in Ids \cup {Top}, NEW pc \in Pcs,
               Begin(e, pc, v, s), UNCHANGED <<course, described, status, content>>,
               pc = "update" => s # Top, pc \notin Cloning \cup {"list", "renumber", "insert", "version"}
        PROVE  Typed'
    <2> DEFINE r == [NoEdit EXCEPT !.pc = pc, !.v = v, !.s = s]
    <2>1. ed' = [ed EXCEPT ![e] = r] /\ left' \in 0 .. Budget
      BY <1>2, <1>3 DEF Begin
    <2>2. r \in Edit
      BY <1>1 DEF Edit
    <2>3. Sited(r)
      BY <1>3 DEF Sited, NoEdit
    <2> HIDE DEF r
    <2> QED BY <1>3, <2>1, <2>2, <2>3, ReadTyped
  <1>4. \A v \in Versions : v \in 0 .. LastVersion
    BY VersionsAssumption DEF Versions
  <1>5. ASSUME NEW v \in Versions, NEW s \in Ids \cup {Top},
               CreateGuard(e, v, s) \/ DeleteGuard(e, v, s) \/ UpdateGuard(e, v, s)
               \/ QuestionGuard(e, v, s) \/ PublishGuard(e, v)
        PROVE  Typed'
    <2>1. PICK pc, x : /\ Guard(e, pc, v, x) /\ x \in {s, Top}
                       /\ pc \in {"max", "delete", "update", "question", "metadata", "store"}
                       /\ pc = "update" => x # Top
      BY <1>5 DEF CreateGuard, DeleteGuard, UpdateGuard, QuestionGuard, PublishGuard
    <2>2. pc \in Pcs /\ x \in Ids \cup {Top}
          /\ pc \notin Cloning \cup {"list", "renumber", "insert", "version"}
      BY <2>1 DEF Pcs, Cloning
    <2>3. Begin(e, pc, v, x) /\ UNCHANGED <<course, described, status, content>>
      BY <2>1 DEF Guard
    <2> QED BY <1>3, <1>4, <2>1, <2>2, <2>3
  <1>6. ASSUME NEW v \in Versions, NEW s, ReadContent(e, v, s) PROVE Typed'
    <2> DEFINE n == tree[v][s].revision
               body == tree[v][s].body
               r == [NoEdit EXCEPT !.pc = "typing", !.v = v, !.s = s, !.n = n, !.body = body]
    <2>1. /\ ed' = [ed EXCEPT ![e] = r] /\ left' = left - 1
          /\ UNCHANGED <<course, described, status, content>> /\ s \in DOMAIN tree[v]
      BY <1>6 DEF ReadContent, OfKind
    <2>2. s \in Ids /\ tree[v][s] \in Node
      BY <2>1 DEF Typed, Rows
    <2>3. n \in Nat /\ body \in Body
      BY <2>2, VersionsAssumption DEF Node
    <2>4. r \in Edit /\ r.pc = "typing"
      <3> HIDE DEF n, body
      <3> QED BY <1>1, <1>4, <2>2, <2>3 DEF Edit, Pcs, Cloning
    <2>5. left' \in 0 .. Budget /\ Sited(r)
      BY <1>2, <2>1, <2>4 DEF Sited, Cloning
    <2> HIDE DEF r
    <2> QED BY <2>1, <2>4, <2>5, ReadTyped
  <1>7. ASSUME DraftBegin(e) PROVE Typed'
    <2>1. Begin(e, "draft", 0, Top) /\ UNCHANGED <<course, described, status, content>>
      BY <1>7 DEF DraftBegin
    <2>2. "draft" \in Pcs /\ "draft" \notin Cloning /\ 0 \in 0 .. LastVersion
      BY VersionsAssumption DEF Pcs, Cloning
    <2> QED BY <1>3, <2>1, <2>2
  <1>8. Top \in Ids \cup {Top}
    OBVIOUS
  <1> QED BY <1>5, <1>6, <1>7, <1>8 DEF Request

(* Siblings are finitely many, one at a position, and a new row gets the   *)
(* position after them.                                                    *)
LEMMA SiblingsPlaced ==
    ASSUME NEW t, Rows(t), NEW p
    PROVE  LET S == Siblings(t, p) IN
           /\ IsFiniteSet(S) /\ S \subseteq Ids
           /\ \A x \in S : x \in DOMAIN t /\ t[x].position \in 1 .. LastPosition
           /\ \A x, y \in S : t[x].position = t[y].position => x = y
           /\ NextPosition(t, p) \in Nat /\ NextPosition(t, p) >= 1
  <1> DEFINE S == Siblings(t, p)
             f == [x \in S |-> t[x].position]
             all == {0} \cup {t[s].position : s \in S}
  <1>1. \A x \in S : x \in DOMAIN t /\ t[x].parent = p
    BY DEF Siblings, Children
  <1>2. \A x \in S : x \in Ids /\ t[x].position \in 1 .. LastPosition
    BY <1>1 DEF Rows, Node
  <1>3. \A x, y \in S : t[x].position = t[y].position => x = y
    BY <1>1 DEF Rows, UniquePositions
  <1> HIDE DEF S
  <1>4. f \in Injection(S, 1 .. LastPosition)
    BY <1>2, <1>3 DEF Injection, IsInjective
  <1>5. LastPosition \in Nat
    BY VersionsAssumption
  <1>6. IsFiniteSet(1 .. LastPosition)
    BY <1>5, FS_Interval
  <1>7. IsFiniteSet(S)
    <2> HIDE DEF f
    <2> QED BY <1>4, <1>6, FS_Injection
  <1>8. all \in SUBSET Nat /\ all # {} /\ \A k \in all : k <= LastPosition
    BY <1>2, <1>5
  <1>9. IsFiniteSet(all)
    <2> HIDE DEF all
    <2> QED BY <1>5, <1>8, FS_BoundedSetOfNaturals
  <1>10. Max(all) \in Nat
    <2> HIDE DEF all
    <2> QED BY <1>8, <1>9, Greatest
  <1>11. NextPosition(t, p) = 1 + Max(all)
    BY DEF NextPosition, S
  <1> HIDE DEF all
  <1> QED BY <1>1, <1>2, <1>3, <1>7, <1>10, <1>11 DEF S

LEMMA CreateMaxTyped ==
    ASSUME Shape, Typed, NEW e \in Editors, CreateMax(e)
    PROVE  Typed'
  <1> DEFINE n == NextPosition(This(e), ed[e].s)
             r == [ed[e] EXCEPT !.pc = "insert", !.n = n]
  <1>1. ed' = [ed EXCEPT ![e] = r] /\ Reads /\ ed[e].pc \in Guarded
    BY DEF CreateMax, At, Guarded, Pcs, Cloning
  <1>2. Rows(This(e)) /\ ed[e] \in Edit
    BY <1>1 DEF Shape, Typed, This
  <1>3. n \in Nat /\ n >= 1
    BY <1>2, SiblingsPlaced
  <1> HIDE DEF n
  <1>4. r \in Edit /\ r.pc = "insert" /\ r.n = n
    BY <1>2, <1>3 DEF Edit, Pcs, Cloning
  <1>5. Sited(r) /\ left' \in 0 .. Budget
    BY <1>1, <1>3, <1>4 DEF Sited, Cloning, Reads, Typed
  <1> HIDE DEF r
  <1> QED BY <1>1, <1>4, <1>5, ReadTyped DEF Reads

LEMMA VersionRows ==
    ASSUME Shape, Typed, NEW e \in Editors, ed[e].pc \in Guarded \cup {"typing"}
    PROVE  ed[e].v \in Versions /\ Rows(This(e)) /\ ed[e] \in Edit
  BY DEF Shape, Typed, This

LEMMA CreateTyped ==
    ASSUME Shape, Typed, NEW e \in Editors, NEW x \in Ids,
           NEW body \in Bodies \cup {Blank, Written}, NEW visible \in BOOLEAN,
           NEW required \in BOOLEAN, CreateInsert(e, x, body, visible, required)
    PROVE  Typed'
  <1> SUFFICES ASSUME ~(Answer(e) /\ Reads) PROVE Typed'
    BY AnswerTyped
  <1> DEFINE t == This(e)
             p == ed[e].s
             n == ed[e].n
             row == [parent |-> p, position |-> n, visible |-> visible,
                     required |-> required, body |-> body, revision |-> 0]
             u == [y \in DOMAIN t \cup {x} |-> IF y # x THEN t[y] ELSE row]
  <1>1. /\ x \in spare /\ n <= LastPosition /\ Write(e, u, NoEdit) /\ spare' = spare \ {x}
        /\ ed[e].pc = "insert" /\ ~ \E y \in Siblings(t, p) : t[y].position = n
    BY DEF CreateInsert, At
  <1>2. ed[e].v \in Versions /\ Rows(t) /\ ed[e] \in Edit /\ n >= 1
    BY <1>1, VersionRows DEF Guarded, Pcs, Cloning, Typed, Sited
  <1>3. row \in Node
    <2>1. p \in Ids \cup {Top} /\ n \in Nat
      BY <1>2 DEF Edit
    <2>2. body \in Body /\ 0 \in 0 .. LastRevision
      BY VersionsAssumption DEF Body
    <2>3. n \in 1 .. LastPosition
      BY <1>1, <1>2, <2>1, VersionsAssumption
    <2> HIDE DEF p, n
    <2> QED BY <2>1, <2>2, <2>3 DEF Node
  <1>4. row.parent = p /\ row.position = n
    OBVIOUS
  <1>5. DOMAIN u = DOMAIN t \cup {x} /\ \A y \in DOMAIN u : u[y] = IF y # x THEN t[y] ELSE row
    OBVIOUS
  <1>6. \A y \in DOMAIN t : t[y].parent = p => t[y].position # n
    BY <1>1 DEF Siblings, Children
  <1> HIDE DEF row, u, n, p, t
  <1>7. Rows(u)
    <2>1. UniquePositions(u)
      BY <1>2, <1>4, <1>5, <1>6 DEF UniquePositions, Rows
    <2> QED BY <1>2, <1>3, <1>5, <2>1 DEF Rows
  <1>8. spare' \subseteq Ids
    BY <1>1 DEF Typed
  <1> QED BY <1>1, <1>2, <1>7, <1>8, NoEditTyped, WriteTyped

LEMMA DeleteTyped ==
    ASSUME Shape, Typed, NEW e \in Editors, Delete(e)
    PROVE  Typed'
  <1> DEFINE t == This(e)
             u == Prune(t, ed[e].s)
  <1>1. ed[e].v \in Versions /\ Rows(t) /\ Write(e, u, NoEdit) /\ UNCHANGED spare
    BY VersionRows DEF Delete, At, Guarded, Pcs, Cloning
  <1>2. DOMAIN u \subseteq DOMAIN t /\ \A x \in DOMAIN u : u[x] = t[x]
    BY DEF Prune
  <1> HIDE DEF u, t
  <1>3. Rows(u)
    BY <1>1, <1>2 DEF Rows, UniquePositions
  <1> QED BY <1>1, <1>3, NoEditTyped, WriteTyped DEF Typed

(* One row changes, in its place.                                          *)
LEMMA RowTyped ==
    ASSUME NEW t, Rows(t), NEW s \in DOMAIN t, NEW row \in Node,
           row.parent = t[s].parent, row.position = t[s].position,
           NEW u, u = [t EXCEPT ![s] = row], t = [x \in DOMAIN t |-> t[x]]
    PROVE  Rows(u)
  <1>1. DOMAIN u = DOMAIN t /\ \A x \in DOMAIN t : u[x] = IF x = s THEN row ELSE t[x]
    OBVIOUS
  <1> QED BY <1>1 DEF Rows, UniquePositions

LEMMA UpdateTyped ==
    ASSUME Shape, Forest, Typed, NEW e \in Editors, NEW visible \in BOOLEAN,
           NEW required \in BOOLEAN, Update(e, visible, required)
    PROVE  Typed'
  <1> DEFINE s == ed[e].s
             t == This(e)
             row == [t[s] EXCEPT !.visible = visible, !.required = required]
             u == IF s \notin DOMAIN t \/ s \notin Resources(t) THEN t ELSE [t EXCEPT ![s] = row]
             listing == [ed[e] EXCEPT !.pc = "list"]
  <1>1. ed[e].pc = "update" /\ ed[e].pc \in Guarded /\ s # Top
    BY DEF Update, At, Guarded, Pcs, Cloning, Typed, Sited
  <1>2. Rows(t) /\ Grown(t) /\ ed[e].v \in Versions /\ ed[e] \in Edit
    BY <1>1, VersionRows, VersionGrown
  <1>3. s \in DOMAIN t =>
           [t EXCEPT ![s].visible = visible, ![s].required = required] = [t EXCEPT ![s] = row]
    BY <1>2 DEF Grown
  <1>4. (Write(e, u, NoEdit) \/ Write(e, u, listing)) /\ UNCHANGED spare
    BY <1>3 DEF Update
  <1>5. Rows(u)
    <2>1. CASE s \notin DOMAIN t \/ s \notin Resources(t)
      BY <1>2, <2>1
    <2>2. CASE s \in DOMAIN t /\ s \in Resources(t)
      <3>1. t[s] \in Node /\ u = [t EXCEPT ![s] = row]
        BY <1>2, <2>2 DEF Rows
      <3> HIDE DEF t, s
      <3>2. row \in Node /\ row.parent = t[s].parent /\ row.position = t[s].position
        BY <3>1 DEF Node
      <3> HIDE DEF row, u
      <3> QED BY <1>2, <2>2, <3>1, <3>2, RowTyped DEF Grown
    <2> QED BY <2>1, <2>2
  <1>6. listing \in Edit /\ Sited(listing)
    BY <1>1, <1>2 DEF Edit, Pcs, Cloning, Sited
  <1>7. spare' \subseteq Ids
    BY <1>4 DEF Typed
  <1> HIDE DEF u, listing
  <1> QED BY <1>2, <1>4, <1>5, <1>6, <1>7, NoEditTyped, WriteTyped

LEMMA QuestionTyped ==
    ASSUME Shape, Forest, Typed, NEW e \in Editors, NEW body \in Bodies, UpdateQuestion(e, body)
    PROVE  Typed'
  <1> SUFFICES ASSUME ~(Answer(e) /\ Reads) PROVE Typed'
    BY AnswerTyped
  <1> DEFINE s == ed[e].s
             t == This(e)
             row == [t[s] EXCEPT !.body = body]
             u == [t EXCEPT ![s] = row]
  <1>1. /\ ed[e].pc \in Guarded /\ s \in DOMAIN t
        /\ Write(e, u, NoEdit) /\ UNCHANGED spare
    BY GuardedPcs DEF UpdateQuestion, At
  <1>2. Rows(t) /\ Grown(t) /\ ed[e].v \in Versions
    BY <1>1, VersionRows, VersionGrown
  <1>3. row \in Node /\ row.parent = t[s].parent /\ row.position = t[s].position
    <2>1. t[s] \in Node /\ body \in Body
      BY <1>1, <1>2 DEF Rows, Body
    <2> HIDE DEF t, s
    <2> QED BY <2>1 DEF Node
  <1>4. Rows(u)
    <2> HIDE DEF row, t, s
    <2> QED BY <1>1, <1>2, <1>3, RowTyped DEF Grown
  <1> HIDE DEF u
  <1> QED BY <1>1, <1>2, <1>4, NoEditTyped, WriteTyped DEF Typed

LEMMA SaveTyped ==
    ASSUME Shape, Forest, Typed, NEW e \in Editors, Save(e)
    PROVE  Typed'
  <1> SUFFICES ASSUME ~(Answer(e) /\ Reads) PROVE Typed'
    BY AnswerTyped
  <1> DEFINE s == ed[e].s
             t == This(e)
             n == t[s].revision + 1
             row == [t[s] EXCEPT !.body = e, !.revision = n]
             u == [t EXCEPT ![s] = row]
  <1>1. ed[e].pc \in Guarded /\ s \in DOMAIN t /\ t[s].revision < LastRevision
    BY GuardedPcs DEF Save, At
  <1>2. Rows(t) /\ Grown(t) /\ ed[e].v \in Versions
    BY <1>1, VersionRows, VersionGrown
  <1>3. t[s] \in Node /\ n \in 0 .. LastRevision
    <2>1. t[s] \in Node
      BY <1>1, <1>2 DEF Rows
    <2>2. t[s].revision \in 0 .. LastRevision /\ LastRevision \in Nat
      BY <2>1, VersionsAssumption DEF Node
    <2> QED BY <1>1, <2>1, <2>2
  <1>4. [t EXCEPT ![s].body = e, ![s].revision = @ + 1] = u
    BY <1>1, <1>2 DEF Grown, NodeRow
  <1>5. Write(e, u, NoEdit) /\ UNCHANGED spare
    BY <1>1, <1>4 DEF Save
  <1>6. row \in Node /\ row.parent = t[s].parent /\ row.position = t[s].position
    <2>1. e \in Body
      BY DEF Body
    <2> HIDE DEF n, t, s
    <2> QED BY <1>3, <2>1 DEF Node
  <1>7. Rows(u)
    <2> HIDE DEF row, t, s
    <2> QED BY <1>1, <1>2, <1>6, RowTyped DEF Grown
  <1> HIDE DEF u
  <1> QED BY <1>2, <1>5, <1>7, NoEditTyped, WriteTyped DEF Typed

(* The list of a reorder: the siblings, the item where it was asked for.   *)
LEMMA ListTyped ==
    ASSUME NEW t, Rows(t), NEW p, NEW s \in Ids, NEW n \in Nat
    PROVE  Moved(InOrder(t, Siblings(t, p) \ {s}), s, n) \in Seq(Ids)
  <1> DEFINE S == Siblings(t, p)
             others == S \ {s}
             q == InOrder(t, others)
  <1>1. /\ IsFiniteSet(S) /\ S \subseteq Ids /\ \A x \in S : t[x].position \in 1 .. LastPosition
        /\ \A x, y \in S : t[x].position = t[y].position => x = y
    BY SiblingsPlaced
  <1> HIDE DEF S
  <1>2. IsFiniteSet(others)
    BY <1>1, FS_RemoveElement
  <1>3. \A x \in others : t[x].position \in Nat
    BY <1>1
  <1> HIDE DEF others
  <1>4. Cardinality(others) \in Nat /\ q \in [1 .. Cardinality(others) -> others]
    BY <1>1, <1>2, <1>3, Ordered DEF others
  <1> HIDE DEF q
  <1>5. others \subseteq Ids
    BY <1>1 DEF others
  <1>6. q \in Seq(Ids)
    BY <1>4, <1>5
  <1>7. Moved(q, s, n) \in Seq(Ids)
    BY <1>6, MovedList
  <1> QED BY <1>7 DEF q, others, S

LEMMA ReorderListTyped ==
    ASSUME Shape, Typed, NEW e \in Editors, NEW n \in 0 .. LastPosition, ReorderList(e, n)
    PROVE  Typed'
  <1> SUFFICES ASSUME ~Answer(e) PROVE Typed'
    BY AnswerTyped DEF ReorderList
  <1> DEFINE s == ed[e].s
             t == This(e)
             p == IF Kind[s] = "module" THEN Top ELSE t[s].parent
             list == Moved(InOrder(t, Siblings(t, p) \ {s}), s, n)
             r == [ed[e] EXCEPT !.pc = "renumber", !.crossed = FALSE, !.n = n, !.list = list]
  <1>1. Reads /\ ed[e].pc = "list" /\ ed[e].pc \in Guarded /\ ed' = [ed EXCEPT ![e] = r]
    BY GuardedPcs DEF ReorderList, At
  <1>2. Rows(t) /\ ed[e] \in Edit /\ s # Top
    BY <1>1, VersionRows DEF Typed, Sited
  <1>3. s \in Ids /\ n \in Nat
    BY <1>2, VersionsAssumption DEF Edit
  <1>4. list \in Seq(Ids)
    BY <1>2, <1>3, ListTyped
  <1> HIDE DEF list
  <1>5. r \in Edit /\ Sited(r)
    BY <1>2, <1>3, <1>4 DEF Edit, Pcs, Cloning, Sited
  <1> HIDE DEF r
  <1> QED BY <1>1, <1>5, ReadTyped DEF Reads, Typed

LEMMA ReorderWriteTyped ==
    ASSUME Shape, Forest, Typed, NEW e \in Editors, ReorderWrite(e)
    PROVE  Typed'
  <1> SUFFICES ASSUME ~(Answer(e) /\ Reads) PROVE Typed'
    BY AnswerTyped DEF ReorderWrite
  <1> DEFINE t == This(e)
             list == ed[e].list
             u == Renumbered(t, list)
  <1>1. /\ ed[e].pc \in Guarded /\ Len(list) <= LastPosition /\ UniquePositions(u)
        /\ Write(e, u, NoEdit) /\ UNCHANGED spare
    BY GuardedPcs DEF ReorderWrite, At
  <1>2. Rows(t) /\ ed[e].v \in Versions /\ ed[e] \in Edit
    BY <1>1, VersionRows
  <1>3. Len(list) \in Nat /\ DOMAIN list = 1 .. Len(list)
    BY <1>2 DEF Edit
  <1> HIDE DEF t, list
  <1>4. ASSUME NEW x \in DOMAIN t PROVE u[x] \in Node
    <2>1. t[x] \in Node
      BY <1>2 DEF Rows
    <2>2. CASE \E i \in DOMAIN list : list[i] = x
      <3> DEFINE i == CHOOSE i \in DOMAIN list : list[i] = x
      <3>1. i \in 1 .. LastPosition
        BY <1>1, <1>3, <2>2, VersionsAssumption
      <3>2. u[x] = [t[x] EXCEPT !.position = i]
        BY <2>2 DEF Renumbered
      <3> HIDE DEF i
      <3> QED BY <2>1, <3>1, <3>2 DEF Node
    <2>3. CASE ~ \E i \in DOMAIN list : list[i] = x
      BY <2>1, <2>3 DEF Renumbered
    <2> QED BY <2>2, <2>3
  <1>5. DOMAIN u = DOMAIN t
    BY DEF Renumbered
  <1> HIDE DEF u
  <1>6. Rows(u)
    BY <1>1, <1>2, <1>4, <1>5 DEF Rows
  <1> QED BY <1>1, <1>2, <1>6, NoEditTyped, WriteTyped DEF Typed

(* Statements that only move on.                                           *)
LEMMA OnTyped ==
    ASSUME Shape, Typed, NEW e \in Editors,
           \/ SaveGuard(e) \/ SaveCompare(e) \/ CheckMetadata(e) \/ CheckVersion(e)
           \/ PublishSupersede(e) \/ PublishWait(e) \/ PublishMark(e) \/ DraftSearch(e)
    PROVE  Typed'
  <1>1. Reads
    BY CheckGoesOn DEF SaveGuard, SaveCompare, CheckMetadata, PublishSupersede, PublishWait,
       PublishMark, DraftSearch
  <1> SUFFICES ASSUME ~Answer(e) PROVE Typed'
    BY <1>1, AnswerTyped
  <1>2. ed[e] \in Edit
    BY DEF Typed
  <1>3. UNCHANGED <<course, described, status, content>> /\ left' \in 0 .. Budget
    BY <1>1 DEF Reads, Typed
  <1>4. CASE SaveGuard(e)
    <2>1. PICK pc \in {"compare", "overwrite"} :
            ed' = [ed EXCEPT ![e] = [ed[e] EXCEPT !.pc = pc, !.late = FALSE]]
      BY <1>4 DEF SaveGuard
    <2> DEFINE r == [ed[e] EXCEPT !.pc = pc, !.late = FALSE]
    <2>2. r \in Edit /\ Sited(r)
      BY <1>2 DEF Edit, Pcs, Cloning, Sited
    <2> HIDE DEF r
    <2> QED BY <1>3, <2>1, <2>2, ReadTyped DEF r
  <1>5. CASE SaveCompare(e)
    <2> DEFINE r == [ed[e] EXCEPT !.pc = "save", !.crossed = FALSE]
    <2>1. ed' = [ed EXCEPT ![e] = r]
      BY <1>5 DEF SaveCompare
    <2>2. r \in Edit /\ Sited(r)
      BY <1>2 DEF Edit, Pcs, Cloning, Sited
    <2> HIDE DEF r
    <2> QED BY <1>3, <2>1, <2>2, ReadTyped
  <1>6. CASE CheckMetadata(e)
    <2> DEFINE r == [ed[e] EXCEPT !.pc = "criteria", !.crossed = FALSE]
    <2>1. ed' = [ed EXCEPT ![e] = r]
      BY <1>6 DEF CheckMetadata
    <2>2. r \in Edit /\ Sited(r)
      BY <1>2 DEF Edit, Pcs, Cloning, Sited
    <2> HIDE DEF r
    <2> QED BY <1>3, <2>1, <2>2, ReadTyped
  <1>7. CASE CheckVersion(e) \/ PublishMark(e) \/ DraftSearch(e)
    <2>1. PICK pc \in Checks \cup {"supersede", "publish", "number"} :
            ed' = [ed EXCEPT ![e] = [ed[e] EXCEPT !.pc = pc]]
      BY <1>7, CheckGoesOn DEF PublishMark, DraftSearch, Goto
    <2> DEFINE r == [ed[e] EXCEPT !.pc = pc]
    <2>2. r \in Edit /\ Sited(r)
      BY <1>2 DEF Edit, Pcs, Cloning, Checks, Sited
    <2> HIDE DEF r
    <2> QED BY <1>3, <2>1, <2>2, ReadTyped DEF r
  <1>8. CASE PublishSupersede(e) \/ PublishWait(e)
    <2>1. PublishedNow \in SUBSET Versions /\ ed[e].rows \cap PublishedNow \in SUBSET Versions
      BY DEF PublishedNow
    <2>2. PICK pc \in {"wait", "mark"}, rows \in SUBSET Versions :
            ed' = [ed EXCEPT ![e] = [ed[e] EXCEPT !.rows = rows, !.pc = pc]]
      <3>1. CASE PublishSupersede(e)
        <4>1. PICK pc \in {"wait", "mark"} :
                ed' = [ed EXCEPT ![e] = [ed[e] EXCEPT !.rows = PublishedNow, !.pc = pc]]
          BY <3>1 DEF PublishSupersede
        <4> QED BY <2>1, <4>1
      <3>2. CASE PublishWait(e)
        <4>1. ed' = [ed EXCEPT ![e] = [ed[e] EXCEPT !.rows = ed[e].rows \cap PublishedNow,
                                                    !.pc = "mark"]]
          BY <3>2 DEF PublishWait
        <4> QED BY <2>1, <4>1
      <3> QED BY <1>8, <3>1, <3>2
    <2> DEFINE r == [ed[e] EXCEPT !.rows = rows, !.pc = pc]
    <2>3. r \in Edit /\ Sited(r)
      BY <1>2 DEF Edit, Pcs, Cloning, Sited
    <2> HIDE DEF r
    <2> QED BY <1>3, <2>2, <2>3, ReadTyped DEF r
  <1> QED BY <1>4, <1>5, <1>6, <1>7, <1>8

(* The statements that write columns of the versions.                      *)
LEMMA TablesTyped ==
    ASSUME Typed, UNCHANGED <<described, spare>>, ed' \in [Editors -> Edit],
           \A f \in Editors : Sited(ed'[f]),
           course' \in [status : {"draft", "published", "unpublished"}, current : 0 .. LastVersion],
           status' \in [Versions -> {"none", "draft", "published", "superseded"}],
           status'[1] # "none", sound' \in [Versions -> BOOLEAN],
           \A v \in Versions : Rows(tree'[v]), left' \in 0 .. Budget
    PROVE  Typed'
  <1>1. (\A f \in Editors : Sited(ed[f])') /\ \A v \in Versions : Rows(tree[v])'
    BY DEF Sited, Rows, UniquePositions
  <1> QED BY <1>1 DEF Typed

LEMMA CriteriaTyped ==
    ASSUME Shape, Typed, NEW e \in Editors, NEW ok \in BOOLEAN, SetCriteria(e, ok)
    PROVE  Typed'
  <1>1. ed[e] \in Edit
    BY DEF Typed
  <1>2. /\ ed' = [f \in Editors |-> ed'[f]] /\ ed'[e] = [ed[e] EXCEPT !.pc = "metadata"]
        /\ \A f \in Editors \ {e} : Marked(f)
    BY DEF SetCriteria, Marked
  <1>3. ed'[e] \in Edit /\ Sited(ed'[e])
    BY <1>1, <1>2 DEF Edit, Pcs, Cloning, Sited
  <1>4. ed' \in [Editors -> Edit] /\ \A f \in Editors : Sited(ed'[f])
    BY <1>2, <1>3, MemoriesTyped
  <1>5. UNCHANGED <<course, described, status, tree, spare, left>> /\ sound' \in [Versions -> BOOLEAN]
    BY DEF SetCriteria, Typed
  <1> QED BY <1>4, <1>5, TablesTyped DEF Typed

LEMMA CommitTyped ==
    ASSUME Shape, Typed, NEW e \in Editors, PublishCommit(e)
    PROVE  Typed'
  <1>1. /\ ed' = [f \in Editors |-> ed'[f]] /\ ed'[e] = NoEdit
        /\ \A f \in Editors \ {e} : Marked(f)
    BY DEF PublishCommit, Committed, Marked
  <1>2. ed' \in [Editors -> Edit] /\ \A f \in Editors : Sited(ed'[f])
    BY <1>1, NoEditTyped, MemoriesTyped
  <1>3. UNCHANGED <<described, sound, tree, spare, left>>
    BY DEF PublishCommit, Committed, content
  <1>4. status' \in [Versions -> {"none", "draft", "published", "superseded"}]
        /\ status'[1] # "none"
    <2>1. 1 \in Versions
      BY VersionsAssumption DEF Versions
    <2> QED BY <2>1 DEF PublishCommit, Typed
  <1>5. course' \in [status : {"draft", "published", "unpublished"}, current : 0 .. LastVersion]
    <2>1. ed[e].v \in 0 .. LastVersion
      BY DEF Shape, Memory
    <2> QED BY <2>1 DEF PublishCommit, Committed
  <1> QED BY <1>2, <1>3, <1>4, <1>5, TablesTyped DEF Typed

LEMMA NoTreeRows == Rows(NoTree)
  BY DEF NoTree, Rows, UniquePositions

LEMMA DraftNumberTyped ==
    ASSUME Typed, NEW e \in Editors, DraftNumber(e)
    PROVE  Typed'
  <1> DEFINE used == {v \in Versions : status[v] # "none"}
             n == 1 + Max(used)
             current == course.current
             r == [ed[e] EXCEPT !.pc = "version", !.n = n, !.from = current]
  <1>1. ed' = [ed EXCEPT ![e] = r] /\ Reads /\ n <= LastVersion
    BY DEF DraftNumber
  <1>2. LastVersion \in Nat /\ 1 \in Versions
    BY VersionsAssumption DEF Versions
  <1>3. used \in SUBSET Nat /\ used # {} /\ (\A k \in used : k >= 1 /\ k <= LastVersion)
    BY <1>2 DEF Typed, Versions
  <1> HIDE DEF used
  <1>4. IsFiniteSet(used)
    BY <1>2, <1>3, FS_BoundedSetOfNaturals
  <1>5. Max(used) \in Nat /\ Max(used) >= 1
    BY <1>3, <1>4, Greatest
  <1>6. n \in Nat /\ n \in Versions
    BY <1>1, <1>2, <1>5 DEF Versions
  <1>7. ed[e] \in Edit /\ current \in 0 .. LastVersion /\ left \in 0 .. Budget
    BY DEF Typed
  <1> HIDE DEF n, current
  <1>8. r \in Edit /\ Sited(r)
    BY <1>6, <1>7 DEF Edit, Pcs, Cloning, Sited
  <1> HIDE DEF r
  <1> QED BY <1>1, <1>7, <1>8, ReadTyped DEF Reads

(* cloneVersionTree's transaction.                                         *)
LEMMA InsertTyped ==
    ASSUME Shape, Informed, Typed, NEW e \in Editors, DraftInsert(e)
    PROVE  Typed'
  <1> DEFINE from == ed[e].from
             ok == from # 0 => sound[from]
  <1>1. CASE Answer(e) /\ Reads
    BY <1>1, AnswerTyped
  <1>2. CASE ~(Answer(e) /\ Reads)
    <2>1. PICK pc \in Cloning : Goto(e, pc)
      BY <1>2 DEF DraftInsert, Cloning
    <2>2. /\ sound' = [sound EXCEPT ![ed[e].n] = ok] /\ ed[e].pc = "version"
          /\ UNCHANGED <<course, described, status, tree, spare, left>>
      BY <1>2 DEF DraftInsert, At
    <2>3. ed[e] \in Edit /\ Sited(ed[e]) /\ ed[e].n \in Versions
      BY <2>2 DEF Typed, Sited
    <2>4. ed' = [f \in Editors |-> ed'[f]] /\ ed'[e] = [ed[e] EXCEPT !.pc = pc]
          /\ \A f \in Editors \ {e} : Marked(f)
      BY <2>1 DEF Goto, Shape, Marked
    <2>5. ed'[e] \in Edit /\ Sited(ed'[e])
      BY <2>3, <2>4 DEF Edit, Pcs, Cloning, Sited
    <2>6. ed' \in [Editors -> Edit] /\ \A f \in Editors : Sited(ed'[f])
      BY <2>4, <2>5, MemoriesTyped
    <2>7. sound' \in [Versions -> BOOLEAN]
      <3>1. ok \in BOOLEAN
        OBVIOUS
      <3> HIDE DEF ok
      <3> QED BY <2>2, <3>1 DEF Typed
    <2> QED BY <2>2, <2>6, <2>7, TablesTyped DEF Typed
  <1> QED BY <1>1, <1>2

LEMMA CloneTyped ==
    ASSUME Shape, Typed, NEW e \in Editors, CloneVersionTree(e)
    PROVE  Typed'
  <1>1. PICK pc, next \in Cloning : \E kinds : Clone(e, pc, kinds, next)
    BY CloneGoesOn
  <1>2. /\ Goto(e, next) /\ ed[e].pc \in Cloning
        /\ UNCHANGED <<course, described, status, sound, tree, spare, left>>
    BY <1>1 DEF Clone, At
  <1>3. ed' = [f \in Editors |-> ed'[f]] /\ ed'[e] = [ed[e] EXCEPT !.pc = next]
        /\ \A f \in Editors \ {e} : Marked(f)
    BY <1>2 DEF Goto, Shape, Marked
  <1>4. ed[e] \in Edit /\ Sited(ed[e]) /\ ed[e].n \in Versions
    BY <1>2 DEF Typed, Sited
  <1>5. ed'[e] \in Edit /\ Sited(ed'[e])
    BY <1>3, <1>4 DEF Edit, Pcs, Cloning, Sited
  <1>6. ed' \in [Editors -> Edit] /\ \A f \in Editors : Sited(ed'[f])
    BY <1>3, <1>5, MemoriesTyped
  <1> QED BY <1>2, <1>6, TablesTyped DEF Typed

LEMMA EndTyped ==
    ASSUME Shape, Typed, CopiesTyped, NEW e \in Editors, DraftCommit(e) \/ Drop(e)
    PROVE  Typed'
  <1>1. /\ ed' = [f \in Editors |-> ed'[f]] /\ ed'[e] = NoEdit
        /\ \A f \in Editors \ {e} : Marked(f)
    BY DEF DraftCommit, Drop, Answer, Shape, Marked
  <1>2. ed' \in [Editors -> Edit] /\ \A f \in Editors : Sited(ed'[f])
    BY <1>1, NoEditTyped, MemoriesTyped
  <1>3. UNCHANGED <<course, described, sound, spare, left>>
    BY DEF DraftCommit, Drop
  <1>4. CASE Drop(e)
    BY <1>2, <1>3, <1>4, TablesTyped DEF Drop, Typed
  <1>5. CASE DraftCommit(e)
    <2> DEFINE v == ed[e].n
    <2>1. v \in Versions /\ 1 \in Versions
      BY <1>5, VersionsAssumption DEF DraftCommit, At, Cloning, Typed, Sited, Versions
    <2>2. status' = [status EXCEPT ![v] = "draft"] /\ tree' = [tree EXCEPT ![v] = copy[e]]
      BY <1>5 DEF DraftCommit
    <2>3. status' \in [Versions -> {"none", "draft", "published", "superseded"}]
          /\ status'[1] # "none"
      BY <2>1, <2>2 DEF Typed
    <2>4. \A w \in Versions : Rows(tree'[w])
      BY <2>1, <2>2 DEF Shape, Typed, CopiesTyped
    <2> QED BY <1>2, <1>3, <2>3, <2>4, TablesTyped DEF Typed
  <1> QED BY <1>4, <1>5

(* A level of the copy: no row of it is a sibling of one already there.    *)
LEMMA LevelRows ==
    ASSUME NEW t, NEW mine, Rows(t), Rows(mine), Grown(t), Grown(mine), NEW kinds, NEW before,
           \A s \in DOMAIN mine : Kind[s] \in before,
           \A j \in before, k \in kinds : ParentKind[j] # ParentKind[k]
    PROVE  LET u == Cloned(t, mine, kinds) IN
           Rows(u) /\ \A s \in DOMAIN u : Kind[s] \in before \cup kinds
  <1> DEFINE u == Cloned(t, mine, kinds)
             level == Level(t, mine, kinds) \ DOMAIN mine
  <1>1. level \subseteq DOMAIN t /\ \A s \in level : Kind[s] \in kinds
    BY DEF Level
  <1>2. /\ DOMAIN u = DOMAIN mine \cup level
        /\ \A s \in DOMAIN mine : u[s] = mine[s]
        /\ \A s \in level : s \notin DOMAIN mine /\ u[s] = [t[s] EXCEPT !.revision = 0]
    BY DEF Cloned
  <1> HIDE DEF u, level
  <1>3. 0 \in 0 .. LastRevision
    BY VersionsAssumption
  <1>4. \A s \in level : u[s] \in Node /\ u[s].parent = t[s].parent
                          /\ u[s].position = t[s].position
    BY <1>1, <1>2, <1>3 DEF Rows, Node
  <1>5. ASSUME NEW x \in DOMAIN mine, NEW y \in level PROVE mine[x].parent # t[y].parent
    <2>1. Kind[x] \in before /\ Kind[y] \in kinds /\ ParentKind[Kind[x]] # ParentKind[Kind[y]]
      BY <1>1, <1>5
    <2> QED BY <1>1, <1>5, <2>1 DEF Grown, Hangs
  <1>6. UniquePositions(u)
    <2> SUFFICES ASSUME NEW x \in DOMAIN u, NEW y \in DOMAIN u, u[x].parent = u[y].parent,
                        u[x].position = u[y].position
                 PROVE  x = y
      BY DEF UniquePositions
    <2>1. CASE x \in DOMAIN mine /\ y \in DOMAIN mine
      BY <1>2, <2>1 DEF Rows, UniquePositions
    <2>2. CASE x \in level /\ y \in level
      BY <1>1, <1>4, <2>2 DEF Rows, UniquePositions
    <2>3. CASE \/ x \in DOMAIN mine /\ y \in level
               \/ y \in DOMAIN mine /\ x \in level
      BY <1>2, <1>4, <1>5, <2>3
    <2> QED BY <1>2, <2>1, <2>2, <2>3
  <1>7. \A s \in DOMAIN u : s \in Ids /\ u[s] \in Node
    BY <1>1, <1>2, <1>4 DEF Rows
  <1>8. \A s \in DOMAIN u : Kind[s] \in before \cup kinds
    BY <1>1, <1>2
  <1> QED BY <1>6, <1>7, <1>8 DEF Rows, u

LEMMA CloneLevel ==
    ASSUME NEW e \in Editors, CloneVersionTree(e)
    PROVE  \E pc, next \in Cloning : \E kinds :
             /\ Clone(e, pc, kinds, next)
             /\ Copied(pc) \cup kinds \subseteq Copied(next)
             /\ \A j \in Copied(pc), k \in kinds : ParentKind[j] # ParentKind[k]
  <1>1. ASSUME Clone(e, "modules", {"module"}, "units")
        PROVE  /\ Copied("modules") \cup {"module"} \subseteq Copied("units")
               /\ \A j \in Copied("modules"), k \in {"module"} : ParentKind[j] # ParentKind[k]
    BY DEF Copied
  <1>2. ASSUME Clone(e, "units", {"unit"}, "resources")
        PROVE  /\ Copied("units") \cup {"unit"} \subseteq Copied("resources")
               /\ \A j \in Copied("units"), k \in {"unit"} : ParentKind[j] # ParentKind[k]
    BY DEF Copied, ParentKind
  <1>3. ASSUME Clone(e, "resources", {"text", "quiz"}, "questions")
        PROVE  /\ Copied("resources") \cup {"text", "quiz"} \subseteq Copied("questions")
               /\ \A j \in Copied("resources"), k \in {"text", "quiz"} :
                    ParentKind[j] # ParentKind[k]
    BY DEF Copied, ParentKind
  <1>4. ASSUME Clone(e, "questions", {"question"}, "commit")
        PROVE  /\ Copied("questions") \cup {"question"} \subseteq Copied("commit")
               /\ \A j \in Copied("questions"), k \in {"question"} :
                    ParentKind[j] # ParentKind[k]
    BY DEF Copied, ParentKind, Kinds
  <1> QED BY <1>1, <1>2, <1>3, <1>4 DEF CloneVersionTree, Cloning

(* A request that is not in a draft's transaction has copied nothing, so   *)
(* that its own steps find an empty copy.                                  *)
LEMMA OwnCopy ==
    ASSUME NEW e \in Editors, Request(e) \/ Statement(e), UNCHANGED copy,
           ed[e].pc \in Cloning \ {"modules"}
    PROVE  copy' = [copy EXCEPT ![e] = NoTree] \/ CloneVersionTree(e)
  <1>1. ~Request(e) /\ ~CheckVersion(e)
    BY DEF Request, At, CheckVersion, Check, Cloning
  <1> QED BY <1>1 DEF Statement, CreateMax, CreateInsert, Delete, Update, ReorderList, ReorderWrite,
        UpdateQuestion, SaveGuard, SaveCompare, Save, SetCriteria, CheckMetadata, PublishSupersede,
        PublishWait, PublishMark, PublishCommit, DraftSearch, DraftNumber, DraftInsert,
        DraftCommit, Drop, At, Cloning

LEMMA CopiesStepTyped ==
    ASSUME VersionsInv, Typed, CopiesTyped, NEW e \in Editors, Request(e) \/ Statement(e)
    PROVE  CopiesTyped'
  <1> USE DEF VersionsInv
  <1>1. \A f \in Editors \ {e} : ed'[f].pc = ed[f].pc
    BY RequestKnows, StatementKnows DEF KnownStep
  <1>2. ASSUME NEW u, Rows(u), copy' = [copy EXCEPT ![e] = u],
               \A s \in DOMAIN u : Kind[s] \in Copied(ed'[e].pc)
        PROVE  CopiesTyped'
    <2>1. copy'[e] = u /\ \A f \in Editors \ {e} : copy'[f] = copy[f]
      BY <1>2 DEF Shape
    <2> SUFFICES ASSUME NEW f \in Editors
                 PROVE  /\ Rows(copy[f])'
                        /\ \A s \in DOMAIN copy'[f] : Kind[s] \in Copied(ed'[f].pc)
      BY DEF CopiesTyped, Copied
    <2>2. Rows(copy'[f])
      BY <1>2, <2>1 DEF CopiesTyped
    <2>3. \A s \in DOMAIN copy'[f] : Kind[s] \in Copied(ed'[f].pc)
      BY <1>1, <1>2, <2>1 DEF CopiesTyped
    <2> QED BY <2>2, <2>3 DEF Rows, UniquePositions
  <1>3. CASE copy' = [copy EXCEPT ![e] = NoTree]
    BY <1>2, <1>3, NoTreeRows, NoTreeGrown
  <1>4. CASE CloneVersionTree(e)
    <2>1. PICK pc, next \in Cloning : \E kinds :
             /\ Clone(e, pc, kinds, next)
             /\ Copied(pc) \cup kinds \subseteq Copied(next)
             /\ \A j \in Copied(pc), k \in kinds : ParentKind[j] # ParentKind[k]
      BY <1>4, CloneLevel
    <2>2. PICK kinds : /\ Clone(e, pc, kinds, next)
                       /\ Copied(pc) \cup kinds \subseteq Copied(next)
                       /\ \A j \in Copied(pc), k \in kinds : ParentKind[j] # ParentKind[k]
      BY <2>1
    <2> DEFINE t == tree[ed[e].from]
               u == Cloned(t, copy[e], kinds)
    <2>3. ed[e].from \in Versions
      <3>1. ed[e].pc \in Cloning \ {"commit"}
        BY <1>4 DEF CloneVersionTree, Clone, At, Cloning
      <3> QED BY <3>1 DEF Informed, Knows
    <2>4. /\ Rows(t) /\ Grown(t) /\ Rows(copy[e]) /\ Grown(copy[e])
          /\ \A s \in DOMAIN copy[e] : Kind[s] \in Copied(pc)
      BY <2>2, <2>3 DEF Forest, Copies, Typed, CopiesTyped, Clone, At
    <2>5. Rows(u) /\ \A s \in DOMAIN u : Kind[s] \in Copied(pc) \cup kinds
      BY <2>2, <2>4, LevelRows
    <2>6. ed'[e].pc = next
      BY <2>2, GotoMemory DEF Clone
    <2>7. copy' = [copy EXCEPT ![e] = u]
      BY <2>2 DEF Clone
    <2> HIDE DEF u
    <2> QED BY <1>2, <2>2, <2>5, <2>6, <2>7
  <1>5. CASE UNCHANGED copy /\ ~CloneVersionTree(e) /\ copy' # [copy EXCEPT ![e] = NoTree]
    <2>1. Copied(ed[e].pc) = {}
      BY <1>5, OwnCopy DEF Copied, Cloning
    <2>2. DOMAIN copy[e] = {} /\ Rows(copy[e])
      BY <2>1 DEF CopiesTyped
    <2>3. copy' = [copy EXCEPT ![e] = copy[e]]
      BY <1>5 DEF Shape
    <2> QED BY <1>2, <2>2, <2>3
  <1> QED BY <1>3, <1>4, <1>5, CopyStep

LEMMA CourseTyped ==
    ASSUME Shape, Typed, Unpublish \/ \E filled \in BOOLEAN : UpdateCourse(filled)
    PROVE  Typed'
  <1>1. left' \in 0 .. Budget /\ UNCHANGED <<status, sound, tree, spare>>
    BY VersionsAssumption DEF Unpublish, UpdateCourse, content, Typed
  <1>2. (\A v \in Versions : Rows(tree[v])') /\ \A v \in Versions : Rows(tree'[v])
    BY <1>1 DEF Typed
  <1>3. CASE Unpublish
    <2>1. UNCHANGED <<described, ed>> /\ course' = [course EXCEPT !.status = "unpublished"]
      BY <1>3 DEF Unpublish
    <2>2. course' \in [status : {"draft", "published", "unpublished"}, current : 0 .. LastVersion]
      BY <2>1 DEF Typed
    <2> QED BY <1>1, <1>2, <2>1, <2>2, TablesTyped DEF Typed
  <1>4. ASSUME NEW filled \in BOOLEAN, UpdateCourse(filled) PROVE Typed'
    <2>1. UNCHANGED course /\ described' = filled
          /\ ed' = [f \in Editors |-> [ed[f] EXCEPT !.crossed = (ed[f] # NoEdit)]]
      BY <1>4 DEF UpdateCourse
    <2>2. ASSUME NEW f \in Editors PROVE ed'[f] \in Edit /\ Sited(ed'[f])
      <3> DEFINE crossed == (ed[f] # NoEdit)
      <3>1. ed[f] \in Edit /\ Sited(ed[f]) /\ crossed \in BOOLEAN
        BY DEF Typed
      <3>2. ed'[f] = [ed[f] EXCEPT !.crossed = crossed]
        BY <2>1
      <3> HIDE DEF crossed
      <3> QED BY <3>1, <3>2 DEF Edit, Sited
    <2>3. ed' \in [Editors -> Edit]
      BY <2>1, <2>2
    <2>4. \A f \in Editors : Sited(ed[f])'
      BY <2>2 DEF Sited
    <2> QED BY <1>1, <1>2, <1>4, <2>1, <2>3, <2>4 DEF Typed
  <1> QED BY <1>3, <1>4

LEMMA InitTyped == Init => Typed
  <1> SUFFICES ASSUME Init PROVE Typed
    OBVIOUS
  <1>1. 1 \in Versions /\ LastVersion \in Nat /\ Budget \in Nat /\ 0 \in 0 .. LastVersion
        /\ 1 \in 0 .. LastVersion
    BY VersionsAssumption DEF Versions
  <1>2. Rows(StartTree)
    BY StartAssumption DEF Rows
  <1>3. \A v \in Versions : Rows(tree[v])
    BY <1>2, NoTreeRows DEF Init
  <1>4. course \in [status : {"draft", "published", "unpublished"}, current : 0 .. LastVersion]
        /\ status \in [Versions -> {"none", "draft", "published", "superseded"}]
        /\ status[1] # "none"
    BY <1>1 DEF Init
  <1>5. ed \in [Editors -> Edit] /\ \A e \in Editors : Sited(ed[e])
    BY NoEditTyped DEF Init
  <1>6. /\ described \in BOOLEAN /\ sound \in [Versions -> BOOLEAN] /\ spare \subseteq Ids
        /\ left \in 0 .. Budget
    BY <1>1 DEF Init
  <1> QED BY <1>3, <1>4, <1>5, <1>6 DEF Typed

LEMMA StatementTyped ==
    ASSUME VersionsInv, Typed, CopiesTyped, NEW e \in Editors, Statement(e)
    PROVE  Typed'
  <1> USE DEF VersionsInv
  <1>1. CASE \/ CreateMax(e) \/ SaveGuard(e) \/ SaveCompare(e) \/ CheckMetadata(e)
             \/ CheckVersion(e) \/ PublishSupersede(e) \/ PublishWait(e) \/ PublishMark(e)
             \/ DraftSearch(e) \/ DraftNumber(e)
    BY <1>1, CreateMaxTyped, OnTyped, DraftNumberTyped
  <1>2. CASE \/ \E x \in Ids, body \in Bodies \cup {Blank, Written}, visible, required \in BOOLEAN :
                  CreateInsert(e, x, body, visible, required)
             \/ Delete(e) \/ ReorderWrite(e) \/ Save(e)
             \/ \E visible, required \in BOOLEAN : Update(e, visible, required)
             \/ \E body \in Bodies : UpdateQuestion(e, body)
    BY <1>2, CreateTyped, DeleteTyped, ReorderWriteTyped, SaveTyped, UpdateTyped, QuestionTyped
  <1>3. CASE (\E ok \in BOOLEAN : SetCriteria(e, ok)) \/ PublishCommit(e)
             \/ (\E n \in 0 .. LastPosition : ReorderList(e, n))
             \/ DraftInsert(e) \/ CloneVersionTree(e) \/ DraftCommit(e) \/ Drop(e)
    BY <1>3, CriteriaTyped, CommitTyped, ReorderListTyped, InsertTyped, CloneTyped, EndTyped
  <1> QED BY <1>1, <1>2, <1>3 DEF Statement

LEMMA NextTyped ==
    ASSUME VersionsInv, Typed, CopiesTyped, [Next]_vars
    PROVE  Typed' /\ CopiesTyped'
  <1>1. CASE UNCHANGED vars
    <2>1. UNCHANGED <<course, described, status, sound, tree, copy, spare, ed, left>>
      BY <1>1 DEF vars, content
    <2>2. (\A v \in Versions : Rows(tree[v])') /\ \A f \in Editors : Sited(ed[f])'
      BY <2>1 DEF Typed
    <2>3. CopiesTyped'
      BY <2>1 DEF CopiesTyped
    <2> QED BY <2>1, <2>2, <2>3 DEF Typed
  <1>2. ASSUME NEW e \in Editors, Request(e) \/ Statement(e) PROVE Typed' /\ CopiesTyped'
    BY <1>2, RequestTyped, StatementTyped, CopiesStepTyped DEF VersionsInv
  <1>3. CASE Unpublish \/ \E filled \in BOOLEAN : UpdateCourse(filled)
    <2>1. UNCHANGED copy /\ \A f \in Editors : ed'[f].pc = ed[f].pc
      BY <1>3 DEF Unpublish, UpdateCourse, content, Typed, Edit
    <2>2. \A f \in Editors : Rows(copy[f])'
      BY <2>1 DEF CopiesTyped
    <2>3. CopiesTyped'
      BY <2>1, <2>2 DEF CopiesTyped, Copied
    <2> QED BY <1>3, <2>3, CourseTyped DEF VersionsInv
  <1> QED BY <1>1, <1>2, <1>3 DEF Next

LEMMA TypedInit == Init => Typed /\ CopiesTyped
  <1> SUFFICES ASSUME Init PROVE CopiesTyped
    BY InitTyped
  <1>1. \A e \in Editors : copy[e] = NoTree
    BY DEF Init
  <1> QED BY <1>1, NoTreeRows, NoTreeGrown DEF CopiesTyped

(* Every column and every request's memory is of its type.  In particular  *)
(* a position is never below 1 nor, with the rows of a reorder, above the  *)
(* bound, and what a request lists are nodes.                              *)
THEOREM VersionsTypeCorrect == Spec => []TypeOK
  <1>1. Init => VersionsInv /\ Typed /\ CopiesTyped
    BY VersionsInductive, TypedInit
  <1>2. VersionsInv /\ Typed /\ CopiesTyped /\ [Next]_vars
        => VersionsInv' /\ Typed' /\ CopiesTyped'
    BY VersionsInductive, NextTyped
  <1>3. Typed /\ CopiesTyped => TypeOK
    BY DEF Typed, CopiesTyped, TypeOK, IsTree, Rows
  <1> QED BY <1>1, <1>2, <1>3, PTL DEF Spec

-----------------------------------------------------------------------------
(* Reorders.  A list that nothing crossed is the siblings as they are now, *)
(* the item moved to its place.                                            *)
Listing(t, s, n) == Moved(InOrder(t, Siblings(t, t[s].parent) \ {s}), s, n)
Listed(r) ==
    r.pc = "renumber" /\ ~r.crossed /\ r.s \in DOMAIN tree[r.v] =>
    r.list = Listing(tree[r.v], r.s, r.n)

(* What renumbering by such a list does to the siblings.                   *)
LEMMA ListingMoves ==
    ASSUME NEW t, Rows(t), NEW s \in DOMAIN t, NEW n \in Nat
    PROVE  LET group == Siblings(t, t[s].parent)
               u == Renumbered(t, Listing(t, s, n))
           IN  /\ {u[x].position : x \in group} = 1 .. Cardinality(group)
               /\ u[s].position = Max({1, Min({n, Cardinality(group)})})
               /\ \A x, y \in group \ {s} :
                    t[x].position < t[y].position => u[x].position < u[y].position
  <1> DEFINE group == Siblings(t, t[s].parent)
             others == group \ {s}
             k == Cardinality(others)
             q == InOrder(t, others)
             list == Moved(q, s, n)
             at == Place(k, n)
             u == Renumbered(t, list)
  <1>1. /\ IsFiniteSet(group) /\ group \subseteq Ids /\ s \in group
        /\ \A x \in group : x \in DOMAIN t /\ t[x].position \in 1 .. LastPosition /\ t[x] \in Node
        /\ \A x, y \in group : t[x].position = t[y].position => x = y
    BY SiblingsPlaced DEF Siblings, Children, Rows
  <1>2. u = Renumbered(t, Listing(t, s, n))
    BY DEF Listing
  <1> HIDE DEF group
  <1>3. IsFiniteSet(others) /\ k = Cardinality(group) - 1 /\ Cardinality(group) \in Nat
    BY <1>1, FS_RemoveElement, FS_CardinalityType
  <1>4. /\ others \subseteq group /\ s \notin others /\ group = others \cup {s}
        /\ \A x \in others : t[x].position \in Nat
        /\ \A x, y \in others : t[x].position = t[y].position => x = y
    BY <1>1
  <1> HIDE DEF others
  <1>5. /\ k \in Nat /\ q \in [1 .. k -> others]
        /\ \A x \in others : \E i \in 1 .. k : q[i] = x
        /\ \A i, j \in 1 .. k : i < j <=> t[q[i]].position < t[q[j]].position
    <2> HIDE DEF q, k
    <2>1. /\ Cardinality(others) \in Nat
          /\ InOrder(t, others) \in [1 .. Cardinality(others) -> others]
          /\ \A x \in others : \E i \in 1 .. Cardinality(others) : InOrder(t, others)[i] = x
          /\ \A i, j \in 1 .. Cardinality(others) :
               i < j <=> t[InOrder(t, others)[i]].position < t[InOrder(t, others)[j]].position
      BY <1>3, <1>4, Ordered
    <2> QED BY <2>1 DEF q, k
  <1> HIDE DEF q, k
  <1>6. q \in Seq(group) /\ Len(q) = k
    BY <1>4, <1>5
  <1>7. /\ list \in Seq(group) /\ Len(list) = k + 1 /\ at \in 1 .. (k + 1)
        /\ \A i \in 1 .. (k + 1) :
             list[i] = IF i < at THEN q[i] ELSE IF i = at THEN s ELSE q[i - 1]
    <2> HIDE DEF at, list
    <2>1. s \in group
      BY <1>1
    <2>2. list = Moved(q, s, n) /\ at = Place(Len(q), n)
      BY <1>6 DEF list, at
    <2>3. /\ Moved(q, s, n) \in Seq(group) /\ Len(Moved(q, s, n)) = Len(q) + 1
          /\ Place(Len(q), n) \in 1 .. Len(Moved(q, s, n))
          /\ \A i \in 1 .. Len(Moved(q, s, n)) :
               Moved(q, s, n)[i] = IF i < Place(Len(q), n) THEN q[i]
                                   ELSE IF i = Place(Len(q), n) THEN s ELSE q[i - 1]
      BY <1>6, <2>1, MovedList
    <2>4. Len(list) = k + 1
      BY <1>6, <2>2, <2>3
    <2> QED BY <2>2, <2>3, <2>4
  <1> HIDE DEF at, list
  <1>8. DOMAIN list = 1 .. (k + 1) /\ \A i \in 1 .. (k + 1) : list[i] \in group
    BY <1>7
  <1>9. \A i, j \in 1 .. k : q[i] = q[j] => i = j
    BY <1>5
  <1>10. \A i \in 1 .. (k + 1) : list[i] = s => i = at
    <2> SUFFICES ASSUME NEW i \in 1 .. (k + 1), i # at PROVE list[i] # s
      OBVIOUS
    <2>1. CASE i < at
      <3>1. i \in 1 .. k /\ list[i] = q[i]
        BY <1>5, <1>7, <2>1
      <3> QED BY <1>4, <1>5, <3>1
    <2>2. CASE i > at
      <3>1. i - 1 \in 1 .. k /\ ~(i < at)
        BY <1>5, <1>7, <2>2
      <3>2. list[i] = q[i - 1]
        BY <1>7, <3>1
      <3> QED BY <1>4, <1>5, <3>1, <3>2
    <2> QED BY <1>5, <1>7, <2>1, <2>2
  <1>11. ASSUME NEW i \in 1 .. k
         PROVE  LET j == IF i < at THEN i ELSE i + 1
                IN  j \in 1 .. (k + 1) /\ list[j] = q[i]
    <2>1. CASE i < at
      <3>1. i \in 1 .. (k + 1)
        BY <1>5
      <3> QED BY <1>7, <2>1, <3>1
    <2>2. CASE ~(i < at)
      <3>1. i + 1 \in 1 .. (k + 1) /\ ~(i + 1 < at) /\ i + 1 # at /\ (i + 1) - 1 = i
        BY <1>5, <1>7, <2>2
      <3>2. list[i + 1] = q[(i + 1) - 1]
        BY <1>7, <3>1
      <3> QED BY <2>2, <3>1, <3>2
    <2> QED BY <2>1, <2>2
  <1>12. ASSUME NEW i \in 1 .. (k + 1), NEW j \in 1 .. (k + 1), list[i] = list[j]
         PROVE  i = j
    <2>1. CASE i = at \/ j = at
      <3>1. list[at] = s
        BY <1>7
      <3> QED BY <1>10, <1>12, <2>1, <3>1
    <2>2. CASE i # at /\ j # at
      <3>1. PICK a \in 1 .. k : list[i] = q[a] /\ i = IF a < at THEN a ELSE a + 1
        <4>1. CASE i < at
          <5>1. i \in 1 .. k
            BY <1>5, <1>7, <4>1
          <5> QED BY <1>7, <4>1, <5>1
        <4>2. CASE i > at
          <5>1. i - 1 \in 1 .. k /\ ~(i < at) /\ ~(i - 1 < at) /\ i = (i - 1) + 1
            BY <1>5, <1>7, <4>2
          <5>2. list[i] = q[i - 1]
            BY <1>7, <2>2, <5>1
          <5> QED BY <5>1, <5>2
        <4> QED BY <1>5, <1>7, <2>2, <4>1, <4>2
      <3>2. PICK b \in 1 .. k : list[j] = q[b] /\ j = IF b < at THEN b ELSE b + 1
        <4>1. CASE j < at
          <5>1. j \in 1 .. k
            BY <1>5, <1>7, <4>1
          <5> QED BY <1>7, <4>1, <5>1
        <4>2. CASE j > at
          <5>1. j - 1 \in 1 .. k /\ ~(j < at) /\ ~(j - 1 < at) /\ j = (j - 1) + 1
            BY <1>5, <1>7, <4>2
          <5>2. list[j] = q[j - 1]
            BY <1>7, <2>2, <5>1
          <5> QED BY <5>1, <5>2
        <4> QED BY <1>5, <1>7, <2>2, <4>1, <4>2
      <3>3. a = b
        BY <1>9, <1>12, <3>1, <3>2
      <3> QED BY <3>1, <3>2, <3>3
    <2> QED BY <2>1, <2>2
  <1>13. ASSUME NEW i \in 1 .. (k + 1) PROVE u[list[i]].position = i
    <2> DEFINE x == list[i]
               c == CHOOSE j \in DOMAIN list : list[j] = x
    <2>1. c \in 1 .. (k + 1) /\ list[c] = x
      BY <1>8
    <2>2. c = i
      BY <1>12, <2>1
    <2>3. x \in DOMAIN t /\ t[x] \in Node /\ \E j \in DOMAIN list : list[j] = x
      BY <1>1, <1>8
    <2>4. u[x] = [t[x] EXCEPT !.position = c]
      BY <2>3 DEF Renumbered
    <2> HIDE DEF x, c, u
    <2>5. u[x].position = c
      BY <2>3, <2>4 DEF Node
    <2> QED BY <2>2, <2>5 DEF x
  <1> HIDE DEF u
  <1>14. u[s].position = at
    BY <1>7, <1>13
  <1>15. ASSUME NEW x \in others
         PROVE  \E i \in 1 .. k : q[i] = x /\ u[x].position = IF i < at THEN i ELSE i + 1
    <2>1. PICK i \in 1 .. k : q[i] = x
      BY <1>5
    <2>2. PICK j \in 1 .. (k + 1) : list[j] = x /\ j = IF i < at THEN i ELSE i + 1
      BY <1>11, <2>1
    <2> QED BY <1>13, <2>1, <2>2
  <1>16. \A x, y \in others : t[x].position < t[y].position => u[x].position < u[y].position
    <2> SUFFICES ASSUME NEW x \in others, NEW y \in others, t[x].position < t[y].position
                 PROVE  u[x].position < u[y].position
      OBVIOUS
    <2>1. PICK i \in 1 .. k : q[i] = x /\ u[x].position = IF i < at THEN i ELSE i + 1
      BY <1>15
    <2>2. PICK j \in 1 .. k : q[j] = y /\ u[y].position = IF j < at THEN j ELSE j + 1
      BY <1>15
    <2>3. i < j
      BY <1>5, <2>1, <2>2
    <2> QED BY <1>5, <1>7, <2>1, <2>2, <2>3
  <1>17. {u[x].position : x \in group} = 1 .. (k + 1)
    <2>1. ASSUME NEW x \in group PROVE u[x].position \in 1 .. (k + 1)
      <3>1. CASE x = s
        BY <1>7, <1>14, <3>1
      <3>2. CASE x \in others
        BY <1>5, <1>15, <3>2
      <3> QED BY <1>4, <3>1, <3>2
    <2>2. ASSUME NEW i \in 1 .. (k + 1) PROVE \E x \in group : u[x].position = i
      BY <1>8, <1>13
    <2> QED BY <2>1, <2>2
  <1>18. k + 1 = Cardinality(group)
    BY <1>3
  <1>19. at = Max({1, Min({n, Cardinality(group)})})
    BY <1>18 DEF at, Place
  <1> QED BY <1>2, <1>14, <1>16, <1>17, <1>18, <1>19 DEF group, others

(* Only a write of the version changes the tree that a request listed, and *)
(* it crosses the request.                                                 *)
LEMMA TreeStep ==
    ASSUME NEW e \in Editors, Request(e) \/ Statement(e)
    PROVE  \/ UNCHANGED tree
           \/ DraftCommit(e)
           \/ \E u, next : Write(e, u, next)
  <1>1. CASE Request(e)
    <2>1. UNCHANGED content
      BY <1>1 DEF Request, CreateGuard, DeleteGuard, UpdateGuard, QuestionGuard, ReadContent,
         PublishGuard, DraftBegin, Guard
    <2> QED BY <2>1 DEF content
  <1>2. CASE CheckVersion(e) \/ CloneVersionTree(e)
    BY <1>2, CheckGoesOn, CloneGoesOn DEF Clone, Reads, content
  <1>3. CASE Statement(e) /\ ~CheckVersion(e) /\ ~CloneVersionTree(e)
    BY <1>3 DEF Statement, CreateMax, CreateInsert, Delete, Update, ReorderList, ReorderWrite,
       UpdateQuestion, SaveGuard, SaveCompare, Save, SetCriteria, CheckMetadata,
       PublishSupersede, PublishWait, PublishMark, PublishCommit, Committed,
       DraftSearch, DraftNumber, DraftInsert, Drop, Reads, content
  <1> QED BY <1>1, <1>2, <1>3

LEMMA OthersMarked ==
    ASSUME Shape, NEW e \in Editors, Request(e) \/ Statement(e), NEW f \in Editors \ {e}
    PROVE  Marked(f)
  <1> SUFFICES ASSUME ed'[f] # ed[f] PROVE Marked(f)
    BY DEF Marked
  <1>1. ed = [g \in Editors |-> ed[g]]
    BY DEF Shape
  <1>2. ASSUME NEW r, ed' = [ed EXCEPT ![e] = r] PROVE FALSE
    BY <1>1, <1>2
  <1>3. ASSUME NEW u, NEW next, Write(e, u, next) PROVE Marked(f)
    BY <1>3 DEF Write, Marked
  <1>4. CASE Request(e)
    <2>1. \E r : ed' = [ed EXCEPT ![e] = r]
      BY <1>4 DEF Request, CreateGuard, DeleteGuard, UpdateGuard, QuestionGuard, ReadContent,
         PublishGuard, DraftBegin, Guard, Begin
    <2> QED BY <1>2, <2>1
  <1>5. CASE Statement(e)
    <2>1. ~Answer(e) /\ \A pc : ~Goto(e, pc)
      BY <1>2 DEF Answer, Goto
    <2>2. CASE \/ \E x \in Ids, body \in Bodies \cup {Blank, Written}, visible, required \in BOOLEAN :
                    CreateInsert(e, x, body, visible, required)
               \/ Delete(e) \/ ReorderWrite(e) \/ Save(e)
               \/ \E visible, required \in BOOLEAN : Update(e, visible, required)
               \/ \E body \in Bodies : UpdateQuestion(e, body)
      <3>1. \E u, next : Write(e, u, next)
        BY <2>1, <2>2 DEF CreateInsert, Delete, ReorderWrite, Save, Update, UpdateQuestion
      <3> QED BY <1>3, <3>1
    <2>3. CASE (\E ok \in BOOLEAN : SetCriteria(e, ok)) \/ PublishCommit(e)
      BY <2>3 DEF SetCriteria, PublishCommit, Committed, Marked
    <2>4. CASE \/ CreateMax(e) \/ (\E n \in 0 .. LastPosition : ReorderList(e, n))
               \/ SaveGuard(e) \/ SaveCompare(e) \/ CheckMetadata(e) \/ CheckVersion(e)
               \/ PublishSupersede(e) \/ PublishWait(e) \/ PublishMark(e) \/ DraftSearch(e)
               \/ DraftNumber(e) \/ DraftInsert(e) \/ CloneVersionTree(e) \/ DraftCommit(e)
               \/ Drop(e)
      <3>1. CASE CheckVersion(e) \/ CloneVersionTree(e)
        BY <2>1, <3>1, CheckGoesOn, CloneGoesOn DEF Clone
      <3>2. CASE ~CheckVersion(e) /\ ~CloneVersionTree(e)
        <4>1. \E r : ed' = [ed EXCEPT ![e] = r]
          BY <2>1, <2>4, <3>2 DEF CreateMax, ReorderList, SaveGuard, SaveCompare, CheckMetadata,
             PublishSupersede, PublishWait, PublishMark, DraftSearch, DraftNumber, DraftInsert,
             DraftCommit, Drop
        <4> QED BY <1>2, <4>1
      <3> QED BY <3>1, <3>2
    <2> QED BY <1>5, <2>2, <2>3, <2>4 DEF Statement
  <1> QED BY <1>4, <1>5

LEMMA OthersListed ==
    ASSUME Shape, Late, Informed, Typed, NEW e \in Editors, Request(e) \/ Statement(e),
           NEW f \in Editors \ {e}, Listed(ed[f])
    PROVE  Listed(ed[f])'
  <1> DEFINE v == ed[f].v
  <1>1. ed[f] \in Edit /\ Marked(f)
    BY OthersMarked DEF Typed
  <1>2. /\ ed'[f].pc = ed[f].pc /\ ed'[f].v = v /\ ed'[f].s = ed[f].s /\ ed'[f].n = ed[f].n
        /\ ed'[f].list = ed[f].list /\ (~ed'[f].crossed => ~ed[f].crossed)
    BY <1>1 DEF Marked, Edit
  <1> SUFFICES ASSUME ed[f].pc = "renumber", ~ed'[f].crossed, ~ed[f].crossed
               PROVE  tree'[v] = tree[v]
    BY <1>2 DEF Listed
  <1>3. v \in Versions /\ status[v] # "none"
    BY DEF Shape, Late, Guarded, Pcs, Cloning
  <1>4. CASE DraftCommit(e)
    <2>1. ed[e].n # v
      BY <1>3, <1>4 DEF DraftCommit, At, Late, Free, Cloning
    <2> QED BY <1>3, <1>4, <2>1 DEF DraftCommit, Shape
  <1>5. ASSUME NEW u, NEW next, Write(e, u, next) PROVE tree'[v] = tree[v]
    <2>1. CASE ed[e].v = v
      <3>1. ed'[f] = [ed[f] EXCEPT !.crossed = TRUE]
        BY <1>5, <2>1 DEF Write
      <3> QED BY <3>1, Crossed
    <2>2. CASE ed[e].v # v
      BY <1>3, <1>5, <2>2 DEF Write, Shape
    <2> QED BY <2>1, <2>2
  <1> QED BY <1>4, <1>5, TreeStep

(* Only ReorderList makes a list.                                          *)
LEMMA OwnListing ==
    ASSUME Shape, Typed, NEW e \in Editors, Request(e) \/ Statement(e), ed'[e].pc = "renumber"
    PROVE  \E n \in 0 .. LastPosition : ReorderList(e, n) /\ ~Answer(e)
  <1>1. ed[e] \in Edit /\ ed = [g \in Editors |-> ed[g]] /\ NoEdit \in Edit /\ NoEdit.pc = "idle"
    BY NoEditTyped DEF Typed, NoEdit
  <1>2. ~Answer(e) /\ \A u : ~Write(e, u, NoEdit)
    BY <1>1 DEF Answer, Write
  <1>3. \A pc : Goto(e, pc) => pc = "renumber"
    BY <1>1 DEF Goto, Edit
  <1>4. CASE Request(e)
    <2>1. \A pc, v, s : Begin(e, pc, v, s) => pc = "renumber"
      BY <1>1 DEF Begin, Edit
    <2>2. ASSUME NEW v, NEW s, ReadContent(e, v, s) PROVE FALSE
      <3> DEFINE n == tree[v][s].revision
                 body == tree[v][s].body
                 r == [NoEdit EXCEPT !.pc = "typing", !.v = v, !.s = s, !.n = n, !.body = body]
      <3>1. ed'[e] = r
        BY <1>1, <2>2 DEF ReadContent
      <3> HIDE DEF n, body
      <3>2. r.pc = "typing"
        BY DEF NoEdit
      <3> QED BY <3>1, <3>2
    <2> QED BY <1>4, <2>1, <2>2 DEF Request, CreateGuard, DeleteGuard, UpdateGuard,
            QuestionGuard, PublishGuard, DraftBegin, Guard
  <1>5. CASE CreateMax(e) \/ DraftNumber(e)
    <2>1. \E pc \in {"insert", "version"} : \E n, from :
              ed' = [ed EXCEPT ![e] = [ed[e] EXCEPT !.pc = pc, !.n = n, !.from = from]]
      <3>1. CASE CreateMax(e)
        <4> DEFINE n == NextPosition(This(e), ed[e].s)
        <4>1. ed' = [ed EXCEPT ![e] = [ed[e] EXCEPT !.pc = "insert", !.n = n]]
          BY <3>1 DEF CreateMax
        <4> HIDE DEF n
        <4>2. [ed[e] EXCEPT !.pc = "insert", !.n = n]
                = [ed[e] EXCEPT !.pc = "insert", !.n = n, !.from = ed[e].from]
          BY <1>1 DEF Edit
        <4> QED BY <4>1, <4>2
      <3>2. CASE DraftNumber(e)
        BY <3>2 DEF DraftNumber
      <3> QED BY <1>5, <3>1, <3>2
    <2> QED BY <1>1, <2>1 DEF Edit
  <1>6. CASE SaveGuard(e) \/ SaveCompare(e) \/ CheckMetadata(e)
    BY <1>1, <1>2, <1>6 DEF SaveGuard, SaveCompare, CheckMetadata, Edit
  <1>7. CASE \/ CheckVersion(e) \/ PublishMark(e) \/ DraftSearch(e) \/ DraftInsert(e)
             \/ CloneVersionTree(e) \/ DraftCommit(e) \/ Drop(e)
    BY <1>2, <1>3, <1>7, CheckGoesOn, CloneGoesOn
       DEF Checks, Cloning, Clone, PublishMark, DraftSearch, DraftInsert, DraftCommit, Drop
  <1>8. CASE PublishSupersede(e) \/ PublishWait(e)
    <2>1. \E pc \in {"wait", "mark"} : \E rows :
              ed' = [ed EXCEPT ![e] = [ed[e] EXCEPT !.rows = rows, !.pc = pc]]
      BY <1>8 DEF PublishSupersede, PublishWait
    <2> QED BY <1>1, <2>1 DEF Edit
  <1>9. CASE \/ \E x \in Ids, body \in Bodies \cup {Blank, Written}, visible, required \in BOOLEAN :
                  CreateInsert(e, x, body, visible, required)
             \/ Delete(e) \/ ReorderWrite(e) \/ Save(e)
             \/ \E body \in Bodies : UpdateQuestion(e, body)
    BY <1>2, <1>9 DEF CreateInsert, Delete, ReorderWrite, Save, UpdateQuestion
  <1>10. ASSUME NEW visible, NEW required, Update(e, visible, required) PROVE FALSE
    <2>1. \E u : Write(e, u, [ed[e] EXCEPT !.pc = "list"])
      BY <1>2, <1>10 DEF Update
    <2> QED BY <1>1, <2>1 DEF Write, Edit
  <1>11. CASE (\E ok \in BOOLEAN : SetCriteria(e, ok)) \/ PublishCommit(e)
    BY <1>1, <1>11 DEF SetCriteria, PublishCommit, Committed, Edit
  <1> QED BY <1>2, <1>4, <1>5, <1>6, <1>7, <1>8, <1>9, <1>10, <1>11 DEF Statement

LEMMA ReorderLists ==
    ASSUME Shape, Forest, Typed, NEW e \in Editors, NEW n \in 0 .. LastPosition,
           ReorderList(e, n), ~Answer(e)
    PROVE  Listed(ed[e])'
  <1> DEFINE s == ed[e].s
             v == ed[e].v
             t == This(e)
             p == IF Kind[s] = "module" THEN Top ELSE t[s].parent
             list == Moved(InOrder(t, Siblings(t, p) \ {s}), s, n)
             r == [ed[e] EXCEPT !.pc = "renumber", !.crossed = FALSE, !.n = n, !.list = list]
  <1>1. /\ ed[e].pc \in Guarded /\ ed' = [ed EXCEPT ![e] = r] /\ tree' = tree
    BY GuardedPcs DEF ReorderList, At, Reads, content
  <1>2. ed[e] \in Edit /\ Grown(t) /\ ed = [g \in Editors |-> ed[g]]
    BY <1>1, VersionGrown DEF Typed, Shape
  <1>3. ed'[e].s = s /\ ed'[e].v = v /\ ed'[e].n = n /\ ed'[e].list = list
    <2> HIDE DEF list
    <2> QED BY <1>1, <1>2 DEF Edit
  <1>4. ASSUME s \in DOMAIN t PROVE p = t[s].parent
    <2>1. CASE Kind[s] = "module" /\ t[s].parent # Top
      <3>1. t[s].parent \in Ids /\ Kind[t[s].parent] = ParentKind[Kind[s]]
        BY <1>2, <1>4, <2>1 DEF Grown, Hangs
      <3> QED BY <2>1, <3>1, ParentKinds, VersionsAssumption DEF Kinds
    <2> QED BY <2>1
  <1>5. s \in DOMAIN t => list = Listing(t, s, n)
    BY <1>4 DEF Listing
  <1> HIDE DEF list
  <1> QED BY <1>1, <1>3, <1>5 DEF Listed, This

LEMMA ListsStay ==
    ASSUME VersionsInv, Typed, \A f \in Editors : Listed(ed[f]), [Next]_vars
    PROVE  \A f \in Editors : Listed(ed[f])'
  <1> SUFFICES ASSUME NEW f \in Editors PROVE Listed(ed[f])'
    OBVIOUS
  <1> USE DEF VersionsInv
  <1>1. ASSUME NEW e \in Editors, Request(e) \/ Statement(e) PROVE Listed(ed[f])'
    <2>1. CASE e # f
      BY <1>1, <2>1, OthersListed
    <2>2. CASE e = f /\ ed'[e].pc = "renumber"
      BY <1>1, <2>2, OwnListing, ReorderLists
    <2>3. CASE e = f /\ ed'[e].pc # "renumber"
      BY <2>3 DEF Listed
    <2> QED BY <2>1, <2>2, <2>3
  <1>2. CASE Unpublish \/ UNCHANGED vars
    BY <1>2 DEF Unpublish, content, vars, Listed
  <1>3. ASSUME NEW filled \in BOOLEAN, UpdateCourse(filled) PROVE Listed(ed[f])'
    <2>1. CASE ed[f] = NoEdit
      <3>1. ed'[f].pc = "idle"
        BY <1>3, <2>1 DEF UpdateCourse, NoEdit
      <3> QED BY <3>1 DEF Listed
    <2>2. CASE ed[f] # NoEdit
      <3>1. ed'[f].crossed
        BY <1>3, <2>2 DEF UpdateCourse, Typed, Edit
      <3> QED BY <3>1 DEF Listed
    <2> QED BY <2>1, <2>2
  <1> QED BY <1>1, <1>2, <1>3 DEF Next

(* The end of a reorder that wrote: the rows are those renumbered by the   *)
(* list it made.                                                           *)
LEMMA ReorderStep ==
    ASSUME VersionsInv, [Next]_vars, NEW e \in Editors, At(e, "renumber"), ed'[e] = NoEdit,
           tree' # tree
    PROVE  tree'[ed[e].v] = Renumbered(tree[ed[e].v], ed[e].list)
  <1>1. NoEdit.pc # ed[e].pc /\ ed[e].pc \in Guarded
    BY GuardedPcs DEF NoEdit, At
  <1>2. ASSUME NEW f \in Editors, Request(f) \/ Statement(f) PROVE f = e
    BY <1>1, <1>2, RequestKnows, StatementKnows DEF VersionsInv, KnownStep
  <1>3. ~(Unpublish \/ (\E filled \in BOOLEAN : UpdateCourse(filled)) \/ UNCHANGED vars)
    BY DEF Unpublish, UpdateCourse, content, vars
  <1>4. Statement(e)
    BY <1>2, <1>3 DEF Next, Request, At
  <1>5. ReorderWrite(e) \/ Drop(e)
    BY <1>4, OtherPcs DEF Statement, CreateMax, CreateInsert, Delete, Update, ReorderList, Save,
       UpdateQuestion, SaveGuard, SaveCompare, SetCriteria, CheckMetadata, PublishSupersede,
       PublishWait, PublishMark, PublishCommit, DraftSearch, DraftNumber, DraftInsert,
       DraftCommit, At
  <1>6. Write(e, Renumbered(This(e), ed[e].list), NoEdit)
    BY <1>5 DEF ReorderWrite, Drop, Reads, content
  <1>7. ed[e].v \in Versions /\ tree = [v \in Versions |-> tree[v]]
    BY <1>1 DEF VersionsInv, Shape
  <1> QED BY <1>6, <1>7 DEF Write, This

(* A reorder that nothing crossed numbers the siblings 1..N, puts the item *)
(* where it was asked for or at the nearest end, and leaves the others in  *)
(* the order they had.                                                     *)
THEOREM ReordersMoveOne == Spec => ReorderMovesOne
  <1> DEFINE Inv == VersionsInv /\ Typed /\ CopiesTyped /\ \A f \in Editors : Listed(ed[f])
             Moves(e) ==
               LET v == ed[e].v
                   s == ed[e].s
                   old == tree[v]
                   new == tree'[v]
                   group == Siblings(old, old[s].parent)
               IN
               /\ At(e, "renumber") /\ ed'[e] = NoEdit /\ tree' # tree
               /\ s \in DOMAIN old /\ ~ed[e].crossed
               =>
               /\ {new[x].position : x \in group} = 1 .. Cardinality(group)
               /\ new[s].position = Max({1, Min({ed[e].n, Cardinality(group)})})
               /\ \A x, y \in group \ {s} :
                    old[x].position < old[y].position => new[x].position < new[y].position
             Step == \A e \in Editors : Moves(e)
  <1>1. Init => Inv
    <2>1. Init => \A f \in Editors : ed[f].pc = "idle"
      BY DEF Init, NoEdit
    <2>2. Init => \A f \in Editors : Listed(ed[f])
      BY <2>1 DEF Listed
    <2> QED BY <2>2, VersionsInductive, TypedInit
  <1>2. Inv /\ [Next]_vars => Inv'
    <2> SUFFICES ASSUME Inv, [Next]_vars PROVE Inv'
      OBVIOUS
    <2>1. \A f \in Editors : Listed(ed[f])'
      BY ListsStay
    <2>2. (\A f \in Editors : Listed(ed[f]))'
      BY <2>1
    <2> QED BY <2>2, VersionsInductive, NextTyped
  <1>3. ASSUME Inv, [Next]_vars PROVE [Step]_vars
    <2> SUFFICES ASSUME NEW e \in Editors, At(e, "renumber"), ed'[e] = NoEdit, tree' # tree,
                        ed[e].s \in DOMAIN tree[ed[e].v], ~ed[e].crossed
                 PROVE  Moves(e)
      OBVIOUS
    <2> DEFINE v == ed[e].v
               s == ed[e].s
               n == ed[e].n
    <2>1. tree'[v] = Renumbered(tree[v], ed[e].list)
      BY <1>3, ReorderStep
    <2>2. ed[e].list = Listing(tree[v], s, n)
      BY <1>3 DEF Listed, At
    <2>3. Rows(tree[v]) /\ n \in Nat
      <3>1. v \in Versions /\ ed[e] \in Edit
        BY <1>3, GuardedPcs DEF VersionsInv, Shape, Typed, At
      <3> QED BY <1>3, <3>1 DEF Typed, Edit
    <2>4. LET group == Siblings(tree[v], tree[v][s].parent)
              u == Renumbered(tree[v], Listing(tree[v], s, n))
          IN  /\ {u[x].position : x \in group} = 1 .. Cardinality(group)
              /\ u[s].position = Max({1, Min({n, Cardinality(group)})})
              /\ \A x, y \in group \ {s} :
                   tree[v][x].position < tree[v][y].position => u[x].position < u[y].position
      BY <2>3, ListingMoves
    <2>5. Renumbered(tree[v], Listing(tree[v], s, n)) = tree'[v]
      BY <2>1, <2>2
    <2> QED BY <2>4, <2>5
  <1> QED BY <1>1, <1>2, <1>3, PTL DEF Spec, ReorderMovesOne
=============================================================================
