--------------------------- MODULE CourseVersions ---------------------------
(***************************************************************************)
(* A course and its versions as its author edits, publishes and clones     *)
(* them: handlers_courses.go, handlers_content.go and                      *)
(* handlers_quiz_authoring.go (internal/api).                              *)
(*                                                                         *)
(* A version is a tree of nodes named by their stable_id.  Every request   *)
(* of the author first reads the version's status (guard) and then edits   *)
(* in statements of its own: one action per statement, ed[e] is what the   *)
(* request remembers.  Only the owner's requests (or an administrator's)   *)
(* are modelled: the others end at the guard.                              *)
(***************************************************************************)
EXTENDS Integers, FiniteSets, SequencesExt

CONSTANTS
    Editors,      \* requests of the author in progress
    Ids,          \* stable_ids
    Kind,         \* of each of them
    StartTree,    \* the first version's tree
    Blank,        \* a text with nothing in it
    Written,      \* the text that StartTree's lessons have
    Top,          \* the parent of a module
    Bodies,       \* questions the author sends
    LastVersion, LastPosition, LastRevision, Budget   \* bounds

Versions == 1 .. LastVersion
Kinds == {"module", "unit", "text", "quiz", "question"}
ParentKind == [module |-> "top", unit |-> "module", text |-> "unit",
               quiz |-> "unit", question |-> "quiz"]

ASSUME VersionsAssumption ==
    /\ Kind \in [Ids -> Kinds]
    /\ Top \notin Ids /\ Blank # Written /\ {Blank, Written} \cap Editors = {}
    /\ LastVersion \in Nat \ {0}
    /\ {LastPosition, LastRevision, Budget} \subseteq Nat

VARIABLES
    course,     \* status and current_version_id (0: NULL)
    described,  \* are title, summary and category filled in
    status,     \* course_versions.status
    sound,      \* are the version's approval criteria within 1..100
    tree,       \* each version's nodes
    copy,       \* the nodes that each request has inserted and not committed
    spare,      \* stable_ids not drawn yet
    ed,         \* what each request is doing
    left        \* requests that may still begin (a bound)

vars == <<course, described, status, sound, tree, copy, spare, ed, left>>
content == <<sound, tree, copy, spare>>

(* body: a lesson's text, named by who saved it, or a question's options.  *)
Body == {Blank, Written} \cup Editors \cup Bodies
Node == [parent : Ids \cup {Top}, position : 1 .. LastPosition, visible : BOOLEAN,
         required : BOOLEAN, body : Body, revision : 0 .. LastRevision]
NoTree == [s \in {} |-> Blank]

(* A child always has its parent, of the kind above.                       *)
Hangs(t) ==
    \A s \in DOMAIN t :
        LET p == t[s].parent IN
        IF p = Top THEN Kind[s] = "module"
        ELSE p \in DOMAIN t /\ Kind[p] = ParentKind[Kind[s]]

(* The unique indexes, deferred to the end of a reorder.                   *)
UniquePositions(t) ==
    \A x, y \in DOMAIN t :
        t[x].parent = t[y].parent /\ t[x].position = t[y].position => x = y

(* The first version's tree is one that requests of the author can build.  *)
ASSUME StartAssumption ==
    /\ StartTree \in [DOMAIN StartTree -> Node] /\ DOMAIN StartTree \subseteq Ids
    /\ Hangs(StartTree) /\ UniquePositions(StartTree)

(* n: a position, a version number or a revision; body: the text read      *)
(* before a save; list: siblings in order; rows: the versions a            *)
(* publication supersedes; from: the version a draft is cloned from.       *)
(* Auxiliary: crossed, another request wrote this one's version since it   *)
(* read it; late, the version was published since the guard.               *)
Cloning == {"modules", "units", "resources", "questions", "commit"}
Pcs == Cloning \cup
       {"idle", "max", "insert", "delete", "update", "list", "renumber", "question",
        "typing", "compare", "save", "overwrite", "store", "metadata", "criteria", "counts",
        "empty", "available", "answers", "supersede", "wait", "mark", "publish", "draft",
        "number", "version"}
Edit == [pc : Pcs, v : 0 .. LastVersion, s : Ids \cup {Top}, n : Nat,
         body : Body, list : Seq(Ids), rows : SUBSET Versions, from : 0 .. LastVersion,
         crossed : BOOLEAN, late : BOOLEAN]
NoEdit == [pc |-> "idle", v |-> 0, s |-> Top, n |-> 0, body |-> Blank, list |-> <<>>,
           rows |-> {}, from |-> 0, crossed |-> FALSE, late |-> FALSE]

(* handleCreateCourse and the edits of the first draft; or its publication.*)
Init ==
    /\ \E first \in {"draft", "published"} :
         /\ course = [status |-> first, current |-> IF first = "draft" THEN 0 ELSE 1]
         /\ status = [v \in Versions |-> IF v = 1 THEN first ELSE "none"]
    /\ described = TRUE
    /\ sound = [v \in Versions |-> TRUE]
    /\ tree = [v \in Versions |-> IF v = 1 THEN StartTree ELSE NoTree]
    /\ copy = [e \in Editors |-> NoTree]
    /\ spare = Ids \ DOMAIN StartTree
    /\ ed = [e \in Editors |-> NoEdit]
    /\ left = Budget

-----------------------------------------------------------------------------
(* Trees.                                                                  *)

OfKind(t, k) == {s \in DOMAIN t : Kind[s] = k}
Children(t, P) == {s \in DOMAIN t : t[s].parent \in P}
Resources(t) == {s \in DOMAIN t : Kind[s] \in {"text", "quiz"}}

(* ON DELETE CASCADE: what hangs from a node, and the node.                *)
Under(t, s) ==
    LET one == Children(t, {s})
        two == Children(t, one)
    IN {s} \cup one \cup two \cup Children(t, two)

(* Mutated form of Prune: only the row itself is deleted.                  *)
PruneRow(t, s) == [x \in DOMAIN t \ {s} |-> t[x]]

Prune(t, s) == [x \in DOMAIN t \ Under(t, s) |-> t[x]]

Siblings(t, p) == Children(t, {p})

(* ORDER BY position: the i-th of S is the one with i of them up to its    *)
(* position.                                                               *)
InOrder(t, S) ==
    [i \in 1 .. Cardinality(S) |->
        CHOOSE x \in S : Cardinality({y \in S : t[y].position <= t[x].position}) = i]

(* Mutated form of NextPosition: the last position is given again.         *)
NextPositionLast(t, p) == Max({0} \cup {t[s].position : s \in Siblings(t, p)})

NextPosition(t, p) ==
    1 + Max({0} \cup {t[s].position : s \in Siblings(t, p)})

(* Mutated form of Moved: the position asked for is clamped to the number  *)
(* of the other siblings, so that nothing can be moved to the end.         *)
MovedShort(others, s, n) == InsertAt(others, Max({1, Min({n, Len(others)})}), s)

(* The slices of reorder: the item is put at n among the others, or at the *)
(* nearest end.                                                            *)
Moved(others, s, n) == InsertAt(others, Max({1, Min({n, Len(others) + 1})}), s)

Renumbered(t, list) ==
    [x \in DOMAIN t |-> IF \E i \in DOMAIN list : list[i] = x
                        THEN [t[x] EXCEPT !.position = CHOOSE i \in DOMAIN list : list[i] = x]
                        ELSE t[x]]

(* questionRequest.validate.                                               *)
Validate(body) ==
    /\ body.options >= 2
    /\ body.correct >= 1
    /\ body.correct > 1 => body.multiple

-----------------------------------------------------------------------------
(* Requests.                                                               *)

At(e, pc) == ed[e].pc = pc
Goto(e, pc) == ed' = [ed EXCEPT ![e].pc = pc]
Answer(e) == ed' = [ed EXCEPT ![e] = NoEdit]

Begin(e, pc, v, s) ==
    /\ ed[e] = NoEdit /\ left > 0
    /\ ed' = [ed EXCEPT ![e] = [NoEdit EXCEPT !.pc = pc, !.v = v, !.s = s]]
    /\ left' = left - 1

(* Mutated form of CanEdit: the status of the version is not looked at.    *)
CanEditAny(v) == status[v] # "none"

(* canEdit for the owner: only a draft is edited.                          *)
CanEdit(v) == status[v] = "draft"

(* The node of the path is found, and its version is a draft.              *)
Guard(e, pc, v, s) ==
    /\ Begin(e, pc, v, s)
    /\ CanEdit(v)
    /\ s # Top => s \in DOMAIN tree[v]
    /\ UNCHANGED <<course, described, status, content>>

(* A statement of e on its version; the other requests that had read it    *)
(* are crossed.                                                            *)
Write(e, t, next) ==
    /\ tree' = [tree EXCEPT ![ed[e].v] = t]
    /\ ed' = [f \in Editors |->
                IF f = e THEN next
                ELSE IF ed[f].v = ed[e].v THEN [ed[f] EXCEPT !.crossed = TRUE] ELSE ed[f]]
    /\ UNCHANGED <<course, described, status, sound, copy, left>>

Reads == UNCHANGED <<course, described, status, content, left>>
This(e) == tree[ed[e].v]

-----------------------------------------------------------------------------
(* handleCreateModule, -Unit, -Resource and -Question: s is the parent.    *)
CreateGuard(e, v, s) ==
    /\ s # Top => Kind[s] \in {"module", "unit", "quiz"}
    /\ Guard(e, "max", v, s)

CreateMax(e) ==
    /\ At(e, "max")
    /\ ed' = [ed EXCEPT ![e].pc = "insert", ![e].n = NextPosition(This(e), ed[e].s)]
    /\ Reads

(* What may be sent: flags of a resource, the text of a lesson and the     *)
(* answers of a question.                                                  *)
Sendable(x, body, visible, required) ==
    /\ Kind[x] \in {"text", "quiz"} \/ (visible /\ required)
    /\ IF Kind[x] = "question" THEN body \in Bodies /\ Validate(body)
       ELSE body = Blank \/ (Kind[x] = "text" /\ body = Written)

(* The row needs its parent and, by the unique constraint, its position.   *)
CreateInsert(e, x, body, visible, required) ==
    LET p == ed[e].s
        kind == IF p = Top THEN "top" ELSE Kind[p]
        taken == \E y \in Siblings(This(e), p) : This(e)[y].position = ed[e].n
    IN
    /\ At(e, "insert")
    /\ x \in spare /\ ParentKind[Kind[x]] = kind
    /\ ed[e].n <= LastPosition
    /\ Sendable(x, body, visible, required)
    /\ IF taken \/ (p # Top /\ p \notin DOMAIN This(e))
       THEN Answer(e) /\ Reads
       ELSE /\ Write(e, [y \in DOMAIN This(e) \cup {x} |->
                           IF y # x THEN This(e)[y] ELSE
                           [parent |-> p, position |-> ed[e].n, visible |-> visible,
                            required |-> required, body |-> body, revision |-> 0]], NoEdit)
            /\ spare' = spare \ {x}

(* handleDeleteModule, -Unit, -Resource and -Question (deleteOrdered).     *)
DeleteGuard(e, v, s) == s # Top /\ Guard(e, "delete", v, s)

Delete(e) ==
    /\ At(e, "delete")
    /\ Write(e, Prune(This(e), ed[e].s), NoEdit)
    /\ UNCHANGED spare

(* handleUpdateModule, -Unit and -Resource; titles are left out.           *)
UpdateGuard(e, v, s) ==
    /\ s # Top /\ Kind[s] # "question"
    /\ Guard(e, "update", v, s)

Update(e, visible, required) ==
    LET s == ed[e].s
        t == This(e)
        next == IF s \notin DOMAIN t \/ s \notin Resources(t) THEN t
                ELSE [t EXCEPT ![s].visible = visible, ![s].required = required]
    IN
    /\ At(e, "update")
    /\ \/ Write(e, next, NoEdit)
       \/ Write(e, next, [ed[e] EXCEPT !.pc = "list"])     \* position was sent
    /\ UNCHANGED spare

(* reorder: the siblings are read in one statement and renumbered in       *)
(* others.  A unit or a resource must still be there to find its parent; a *)
(* module's is the version of the path.                                    *)
ReorderList(e, n) ==
    LET s == ed[e].s
        t == This(e)
        p == IF Kind[s] = "module" THEN Top ELSE t[s].parent
    IN
    /\ At(e, "list")
    /\ IF s \notin DOMAIN t /\ Kind[s] # "module" THEN Answer(e)
       ELSE ed' = [ed EXCEPT ![e].pc = "renumber", ![e].crossed = FALSE, ![e].n = n,
                             ![e].list = Moved(InOrder(t, Siblings(t, p) \ {s}), s, n)]
    /\ Reads

(* Rows deleted meanwhile are not updated; a position taken by a row that  *)
(* was not in the list makes the commit fail.  LastPosition is a bound.    *)
ReorderWrite(e) ==
    LET t == Renumbered(This(e), ed[e].list) IN
    /\ At(e, "renumber")
    /\ Len(ed[e].list) <= LastPosition
    /\ IF UniquePositions(t) THEN Write(e, t, NoEdit) /\ UNCHANGED spare
                             ELSE Answer(e) /\ Reads

(* handleUpdateQuestion.                                                   *)
QuestionGuard(e, v, s) ==
    /\ s # Top /\ Kind[s] = "question"
    /\ Guard(e, "question", v, s)

UpdateQuestion(e, body) ==
    LET s == ed[e].s IN
    /\ At(e, "question")
    /\ Validate(body)
    /\ IF s \in DOMAIN This(e)
       THEN Write(e, [This(e) EXCEPT ![s].body = body], NoEdit) /\ UNCHANGED spare
       ELSE Answer(e) /\ Reads

-----------------------------------------------------------------------------
(* handleGetContent, and the author typing over what it returned.          *)
ReadContent(e, v, s) ==
    /\ s \in OfKind(tree[v], "text")
    /\ ed[e] = NoEdit /\ left > 0
    /\ ed' = [ed EXCEPT ![e] = [NoEdit EXCEPT !.pc = "typing", !.v = v, !.s = s,
                 !.n = tree[v][s].revision, !.body = tree[v][s].body]]
    /\ left' = left - 1
    /\ UNCHANGED <<course, described, status, content>>

(* handleAutosaveContent, with expected_revision = n or with none.         *)
SaveGuard(e) ==
    /\ At(e, "typing")
    /\ IF CanEdit(ed[e].v) /\ ed[e].s \in DOMAIN This(e)
       THEN \E pc \in {"compare", "overwrite"} :
                ed' = [ed EXCEPT ![e].pc = pc, ![e].late = FALSE]
       ELSE Answer(e)
    /\ Reads

(* Mutated form of SaveCompare: the revision is not compared.              *)
SaveCompareNot(e) ==
    /\ At(e, "compare")
    /\ ed' = [ed EXCEPT ![e].pc = "save", ![e].crossed = FALSE]
    /\ Reads

SaveCompare(e) ==
    /\ At(e, "compare")
    /\ IF ed[e].s \in DOMAIN This(e) /\ This(e)[ed[e].s].revision = ed[e].n
       THEN ed' = [ed EXCEPT ![e].pc = "save", ![e].crossed = FALSE] ELSE Answer(e)
    /\ Reads

Save(e) ==
    LET s == ed[e].s
        t == This(e)
    IN
    /\ At(e, "save") \/ At(e, "overwrite")
    /\ IF s \in DOMAIN t
       THEN /\ t[s].revision < LastRevision
            /\ Write(e, [t EXCEPT ![s].body = e, ![s].revision = @ + 1], NoEdit)
            /\ UNCHANGED spare
       ELSE Answer(e) /\ Reads

-----------------------------------------------------------------------------
(* handlePublishVersion.                                                   *)

PublishGuard(e, v) ==
    \/ Guard(e, "metadata", v, Top)
    \/ Guard(e, "store", v, Top)     \* criteria were sent

(* Rows of course_versions that the open transactions have updated.        *)
Holds(f) == CASE ed[f].pc = "mark" -> ed[f].rows
              [] ed[f].pc = "publish" -> ed[f].rows \cup {ed[f].v}
              [] OTHER -> {}
Locked(v) == \E f \in Editors : v \in Holds(f)

(* The criteria are stored whatever becomes of the publication.            *)
SetCriteria(e, ok) ==
    /\ At(e, "store")
    /\ ~Locked(ed[e].v)
    /\ sound' = [sound EXCEPT ![ed[e].v] = ok]
    /\ ed' = [f \in Editors |->
                IF f = e THEN [ed[e] EXCEPT !.pc = "metadata"]
                ELSE IF ed[f].v = ed[e].v THEN [ed[f] EXCEPT !.crossed = TRUE] ELSE ed[f]]
    /\ UNCHANGED <<course, described, status, tree, copy, spare, left>>

(* validateForPublication: every check is a SELECT of its own, and what    *)
(* one of them misses is answered, whatever the rest find.                 *)

(* Something to measure progress by: the modules, units and resources are  *)
(* counted too, and it hangs from one of each.                             *)
Counted(v) ==
    \E r \in Resources(tree[v]) : tree[v][r].visible /\ tree[v][r].required

(* Mutated form of NoneEmpty: units without a visible resource pass.       *)
NoModuleEmpty(v) ==
    \A m \in OfKind(tree[v], "module") : Children(tree[v], {m}) # {}

NoneEmpty(v) ==
    LET t == tree[v] IN
    /\ \A m \in OfKind(t, "module") : Children(t, {m}) # {}
    /\ \A u \in OfKind(t, "unit") : \E r \in Children(t, {u}) : t[r].visible

(* Visible resources have content.                                         *)
Available(v) ==
    LET t == tree[v] IN
    \A r \in Resources(t) : t[r].visible =>
        IF Kind[r] = "text" THEN t[r].body # Blank ELSE Children(t, {r}) # {}

Answerable(v) ==
    \A q \in OfKind(tree[v], "question") :
        tree[v][q].body.options >= 2 /\ tree[v][q].body.correct > 0

CheckMetadata(e) ==
    /\ At(e, "metadata")
    /\ IF described THEN ed' = [ed EXCEPT ![e].pc = "criteria", ![e].crossed = FALSE]
                    ELSE Answer(e)
    /\ Reads

Check(e, pc, passes, next) ==
    /\ At(e, pc)
    /\ IF passes THEN Goto(e, next) ELSE Answer(e)
    /\ Reads

CheckVersion(e) ==
    LET v == ed[e].v IN
    \/ Check(e, "criteria", sound[v], "counts")
    \/ Check(e, "counts", Counted(v), "empty")
    \/ Check(e, "empty", NoneEmpty(v), "available")
    \/ Check(e, "available", Available(v), "answers")
    \/ Check(e, "answers", Answerable(v), "supersede")

(* The transaction: the first UPDATE sees the published versions of its    *)
(* moment and, when another transaction holds one, waits and looks at      *)
(* those again, not at any published since.                                *)
PublishedNow == {v \in Versions : status[v] = "published"}

PublishSupersede(e) ==
    /\ At(e, "supersede")
    /\ ed' = [ed EXCEPT ![e].rows = PublishedNow,
                        ![e].pc = IF \E v \in PublishedNow : Locked(v) THEN "wait" ELSE "mark"]
    /\ Reads

PublishWait(e) ==
    /\ At(e, "wait")
    /\ \A v \in ed[e].rows : ~Locked(v)
    /\ ed' = [ed EXCEPT ![e].rows = @ \cap PublishedNow, ![e].pc = "mark"]
    /\ Reads

PublishMark(e) ==
    /\ At(e, "mark")
    /\ \A f \in Editors \ {e} : ed[e].v \notin Holds(f)
    /\ Goto(e, "publish")
    /\ Reads

Committed(e) ==
    /\ course' = [status |-> "published", current |-> ed[e].v]
    /\ ed' = [f \in Editors |->
                IF f = e THEN NoEdit
                ELSE IF ed[f].v = ed[e].v THEN [ed[f] EXCEPT !.late = TRUE] ELSE ed[f]]
    /\ UNCHANGED <<described, content, left>>

(* Mutated form of PublishCommit: the second UPDATE before the first, which *)
(* then finds the version already published.                               *)
PublishCommitSwapped(e) ==
    /\ At(e, "publish")
    /\ status' = [w \in Versions |-> IF w \in ed[e].rows THEN "superseded"
                                     ELSE IF w = ed[e].v THEN "published" ELSE status[w]]
    /\ Committed(e)

PublishCommit(e) ==
    /\ At(e, "publish")
    /\ status' = [w \in Versions |-> IF w = ed[e].v THEN "published"
                                     ELSE IF w \in ed[e].rows THEN "superseded" ELSE status[w]]
    /\ Committed(e)

(* handleUnpublishCourse and handleUpdateCourse.                           *)
Unpublish ==
    /\ left > 0 /\ left' = left - 1
    /\ course' = [course EXCEPT !.status = "unpublished"]
    /\ UNCHANGED <<described, status, content, ed>>

UpdateCourse(filled) ==
    /\ left > 0 /\ left' = left - 1
    /\ described' = filled
    /\ ed' = [f \in Editors |-> [ed[f] EXCEPT !.crossed = (ed[f] # NoEdit)]]
    /\ UNCHANGED <<course, status, content>>

-----------------------------------------------------------------------------
(* handleCreateDraftVersion, whose SELECTs lock nothing.                   *)
DraftBegin(e) ==
    /\ Begin(e, "draft", 0, Top)
    /\ UNCHANGED <<course, described, status, content>>

DraftSearch(e) ==
    /\ At(e, "draft")
    /\ IF \E v \in Versions : status[v] = "draft" THEN Answer(e) ELSE Goto(e, "number")
    /\ Reads

(* The number and the version to clone: two statements, but only another   *)
(* draft changes the number, and then the INSERT is refused.               *)
DraftNumber(e) ==
    LET n == 1 + Max({v \in Versions : status[v] # "none"}) IN
    /\ At(e, "number")
    /\ n <= LastVersion
    /\ ed' = [ed EXCEPT ![e].pc = "version", ![e].n = n, ![e].from = course.current]
    /\ Reads

(* The INSERT waits for a transaction that has inserted its number, and is *)
(* refused if that one committed.  Until its own commit a version's status *)
(* is still "none": sound is already the new row's.                        *)
DraftInsert(e) ==
    LET v == ed[e].n
        from == ed[e].from
    IN
    /\ At(e, "version")
    /\ \A f \in Editors : ed[f].pc \in Cloning => ed[f].n # v
    /\ IF status[v] # "none" THEN Answer(e) /\ Reads
       ELSE /\ Goto(e, IF from = 0 THEN "commit" ELSE "modules")
            /\ sound' = [sound EXCEPT ![v] = from # 0 => sound[from]]
            /\ UNCHANGED <<course, described, status, tree, copy, spare, left>>

(* One level of t, under the rows copied of the level above: stable_ids,   *)
(* positions and contents are kept, the autosave's revision is not copied. *)
Level(t, mine, kinds) ==
    {s \in DOMAIN t : Kind[s] \in kinds /\ t[s].parent \in DOMAIN mine \cup {Top}}
Cloned(t, mine, kinds) ==
    [s \in DOMAIN mine \cup Level(t, mine, kinds) |->
        IF s \in DOMAIN mine THEN mine[s] ELSE [t[s] EXCEPT !.revision = 0]]

Clone(e, pc, kinds, next) ==
    /\ At(e, pc)
    /\ copy' = [copy EXCEPT ![e] = Cloned(tree[ed[e].from], copy[e], kinds)]
    /\ Goto(e, next)
    /\ UNCHANGED <<course, described, status, sound, tree, spare, left>>

(* cloneVersionTree: each INSERT sees what was committed when it began.  A *)
(* quiz's row goes with its resource, a question's options with it.        *)
CloneVersionTree(e) ==
    \/ Clone(e, "modules", {"module"}, "units")
    \/ Clone(e, "units", {"unit"}, "resources")
    \/ Clone(e, "resources", {"text", "quiz"}, "questions")
    \/ Clone(e, "questions", {"question"}, "commit")

DraftCommit(e) ==
    LET v == ed[e].n IN
    /\ At(e, "commit")
    /\ status' = [status EXCEPT ![v] = "draft"]
    /\ tree' = [tree EXCEPT ![v] = copy[e]]
    /\ copy' = [copy EXCEPT ![e] = NoTree]
    /\ Answer(e)
    /\ UNCHANGED <<course, described, sound, spare, left>>

(* A disconnection or a failed statement: the transaction is rolled back,  *)
(* what earlier statements wrote stays.                                    *)
Drop(e) ==
    /\ ed[e] # NoEdit
    /\ Answer(e)
    /\ copy' = [copy EXCEPT ![e] = NoTree]
    /\ UNCHANGED <<course, described, status, sound, tree, spare, left>>

Request(e) ==
    /\ At(e, "idle") /\ left > 0
    /\ \/ \E v \in Versions, s \in Ids \cup {Top} :
            CreateGuard(e, v, s) \/ DeleteGuard(e, v, s) \/ UpdateGuard(e, v, s)
            \/ QuestionGuard(e, v, s) \/ ReadContent(e, v, s)
       \/ \E v \in Versions : PublishGuard(e, v)
       \/ DraftBegin(e)

Statement(e) ==
    \/ CreateMax(e)
    \/ /\ At(e, "insert")
       /\ \E x \in Ids, body \in Bodies \cup {Blank, Written}, visible, required \in BOOLEAN :
            CreateInsert(e, x, body, visible, required)
    \/ Delete(e)
    \/ \E visible, required \in BOOLEAN : Update(e, visible, required)
    \/ \E n \in 0 .. LastPosition : ReorderList(e, n)
    \/ ReorderWrite(e)
    \/ \E body \in Bodies : UpdateQuestion(e, body)
    \/ SaveGuard(e) \/ SaveCompare(e) \/ Save(e)
    \/ \E ok \in BOOLEAN : SetCriteria(e, ok)
    \/ CheckMetadata(e) \/ CheckVersion(e)
    \/ PublishSupersede(e) \/ PublishWait(e) \/ PublishMark(e) \/ PublishCommit(e)
    \/ DraftSearch(e) \/ DraftNumber(e) \/ DraftInsert(e) \/ CloneVersionTree(e)
    \/ DraftCommit(e)
    \/ Drop(e)

Next ==
    \/ \E e \in Editors : Request(e) \/ Statement(e)
    \/ Unpublish
    \/ \E filled \in BOOLEAN : UpdateCourse(filled)

Spec == Init /\ [][Next]_vars

-----------------------------------------------------------------------------
(* Properties.                                                             *)

IsTree(t) == DOMAIN t \subseteq Ids /\ \A s \in DOMAIN t : t[s] \in Node

(* Every column and every request's memory is of its type.                 *)
TypeOK ==
    /\ course \in [status : {"draft", "published", "unpublished"}, current : 0 .. LastVersion]
    /\ described \in BOOLEAN
    /\ status \in [Versions -> {"none", "draft", "published", "superseded"}]
    /\ sound \in [Versions -> BOOLEAN]
    /\ \A v \in Versions : IsTree(tree[v])
    /\ \A e \in Editors : IsTree(copy[e])
    /\ spare \subseteq Ids
    /\ ed \in [Editors -> Edit]
    /\ left \in 0 .. Budget

(* Whatever publications overlap, the version that students are sent to    *)
(* (courses.current_version_id) is a published one, and a published course *)
(* has one: handlePublishVersion's transaction.                            *)
CurrentIsPublished ==
    /\ course.current # 0 => status[course.current] = "published"
    /\ course.status = "published" => course.current # 0

(* The tree as it was or with holes, a child always has its parent, of the *)
(* kind above: deletions cascade and no row is created under a deleted one.*)
TreesHang == \A v \in Versions : Hangs(tree[v])

(* A published or superseded version is edited, or published again, only   *)
(* by a request whose guard read it before its publication (canEdit); any  *)
(* other one finds it immutable.                                           *)
PublishedIsImmutable ==
    [][\A v \in Versions :
         (/\ status[v] \in {"published", "superseded"}
          /\ \/ tree'[v] # tree[v] \/ sound'[v] # sound[v]
             \/ status[v] = "superseded" /\ status'[v] # "superseded")
         => \E e \in Editors : ed[e].v = v /\ ed[e].late /\ ed'[e] # ed[e]]_vars

(* What a student needs of a version: each module and unit leads to a      *)
(* visible resource, one of them counts, and all of them show something.   *)
Presentable(v) ==
    LET t == tree[v]
        shown == {r \in Resources(t) : t[r].visible}
    IN
    /\ described /\ sound[v]
    /\ \E r \in shown : t[r].required
    /\ \A s \in DOMAIN t : Kind[s] \in {"module", "unit"} => Under(t, s) \cap shown # {}
    /\ \A r \in shown : Kind[r] = "text" => t[r].body # Blank
    /\ \A r \in shown : Kind[r] = "quiz" => Under(t, r) # {r}

(* A version becomes published only if it is presentable then, unless the  *)
(* course or the version was edited since its validation began             *)
(* (validateForPublication runs before the transaction).                   *)
PublicationIsSound ==
    [][\A v \in Versions :
         status[v] # "published" /\ status'[v] = "published" =>
         \E e \in Editors : /\ At(e, "publish") /\ ed[e].v = v
                            /\ ed[e].crossed \/ Presentable(v)]_vars

(* A save with expected_revision replaces the text its author had read,    *)
(* unless another save lands between its comparison and its UPDATE.        *)
SavesOverWhatWasRead ==
    [][\A e \in Editors :
         At(e, "save") /\ ed'[e] = NoEdit /\ tree' # tree /\ ~ed[e].crossed =>
         This(e)[ed[e].s].body = ed[e].body]_vars

(* A reorder leaves the siblings at 1..N, the item where it was asked for  *)
(* or at the nearest end and the others as they followed one another,      *)
(* unless another request wrote the version since they were listed.        *)
ReorderMovesOne ==
    [][\A e \in Editors :
         LET v == ed[e].v
             s == ed[e].s
             old == tree[v]
             new == tree'[v]
             group == Siblings(old, old[s].parent)
         IN
         /\ At(e, "renumber") /\ ed'[e] = NoEdit /\ tree' # tree
         /\ s \in DOMAIN old /\ ~ed[e].crossed
         =>
         /\ {new[x].position : x \in group} = 1 .. Cardinality(group)
         /\ new[s].position = Max({1, Min({ed[e].n, Cardinality(group)})})
         /\ \A x, y \in group \ {s} :
              old[x].position < old[y].position => new[x].position < new[y].position]_vars
=============================================================================
