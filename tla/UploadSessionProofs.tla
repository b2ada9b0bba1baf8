------------------------ MODULE UploadSessionProofs ------------------------
(***************************************************************************)
(* Theorems of UploadSession, for every set of assets, of requests and     *)
(* every number of parts.                                                  *)
(***************************************************************************)
EXTENDS UploadSession, FiniteSetTheorems, TLAPS

(* What publishing does to an asynq record keeps it one.                   *)
LEMMA EnqueueType == ASSUME NEW t \in Task PROVE Enqueue(t) \in Task
  BY MaxRetriesAssumption DEF Enqueue, Task, TaskStates

LEMMA NoTaskType == NoTask \in Task
  BY MaxRetriesAssumption DEF NoTask, Task, TaskStates

LEMMA IdleType == Idle \in Call
  BY DEF Idle, Call, CallPcs

(* Both ways a request's record changes keep it one.                       *)
LEMMA GotoType ==
    ASSUME call \in [Callers -> Call], NEW c \in Callers, NEW a \in Assets,
           NEW pc \in CallPcs, Goto(c, a, pc)
    PROVE  call' \in [Callers -> Call]
  BY DEF Goto, Call

LEMMA AnswerType ==
    ASSUME call \in [Callers -> Call], NEW c \in Callers, Answer(c)
    PROVE  call' \in [Callers -> Call]
  BY IdleType DEF Answer

-----------------------------------------------------------------------------
LEMMA NotReapingType == NotReaping \in Reap
  BY DEF NotReaping, Reap

LEMMA UploadInitType == UploadInit => UploadTypeOK
  BY NoTaskType, IdleType, NotReapingType DEF UploadInit, UploadTypeOK, AssetStatus

(* One statement of a request.                                             *)
LEMMA CallStepType ==
    ASSUME UploadTypeOK, NEW c \in Callers, NEW a \in Assets, CallStep(c, a)
    PROVE  UploadTypeOK'
  <1>1. CASE InitInsertAsset(c, a)
    BY <1>1 DEF UploadTypeOK, InitInsertAsset, Goto, Call, CallPcs, InitPcs, AssetStatus
  <1>2. CASE InitNewMultipart(c, a)
    BY <1>2 DEF UploadTypeOK, InitNewMultipart, Goto, Call, CallPcs, InitPcs
  <1>3. CASE InitInsertUpload(c, a)
    BY <1>3 DEF UploadTypeOK, InitInsertUpload, Goto, Call, CallPcs, InitPcs
  <1>4. CASE InitSetKey(c, a)
    BY <1>4, IdleType DEF UploadTypeOK, InitSetKey, Answer
  <1>5. CASE CompleteLoad(c, a)
    BY <1>5 DEF UploadTypeOK, CompleteLoad, Goto, Call, CallPcs, CompletePcs
  <1>6. CASE CompleteList(c, a)
    BY <1>6, IdleType DEF UploadTypeOK, CompleteList, Goto, Answer, Call, CallPcs, CompletePcs
  <1>7. CASE CompleteAssemble(c, a)
    <2>1. call' \in [Callers -> Call]
      <3>1. "markUpload" \in CallPcs
        BY DEF CallPcs, CompletePcs
      <3> QED BY <1>7, <3>1, GotoType, AnswerType DEF UploadTypeOK, CompleteAssemble
    <2>2. mp' \in [Assets -> {"none", "open", "assembled", "aborted"}]
      BY <1>7 DEF UploadTypeOK, CompleteAssemble
    <2>3. object' \in [Assets -> BOOLEAN]
      BY <1>7 DEF UploadTypeOK, CompleteAssemble
    <2> QED BY <1>7, <2>1, <2>2, <2>3 DEF UploadTypeOK, CompleteAssemble
  <1>8. CASE CompleteMarkUpload(c, a)
    BY <1>8 DEF UploadTypeOK, CompleteMarkUpload, Goto, Call, CallPcs, CompletePcs
  <1>9. CASE CompleteMarkAsset(c, a)
    BY <1>9 DEF UploadTypeOK, CompleteMarkAsset, Goto, Call, CallPcs, CompletePcs, AssetStatus
  <1>10. CASE CompleteEnqueue(c, a)
    BY <1>10, IdleType, EnqueueType DEF UploadTypeOK, CompleteEnqueue, Answer
  <1>11. CASE AbortLoad(c, a)
    BY <1>11 DEF UploadTypeOK, AbortLoad, Goto, Call, CallPcs, AbortPcs
  <1>12. CASE AbortStorage(c, a)
    <2>1. call' \in [Callers -> Call]
      <3>1. "markAborted" \in CallPcs
        BY DEF CallPcs, AbortPcs
      <3> QED BY <1>12, <3>1, GotoType, AnswerType DEF UploadTypeOK, AbortStorage
    <2>2. mp' \in [Assets -> {"none", "open", "assembled", "aborted"}]
      BY <1>12 DEF UploadTypeOK, AbortStorage
    <2>3. parts' \in [Assets -> SUBSET AllParts]
      BY <1>12 DEF UploadTypeOK, AbortStorage
    <2> QED BY <1>12, <2>1, <2>2, <2>3 DEF UploadTypeOK, AbortStorage
  <1>13. CASE AbortMark(c, a)
    BY <1>13, IdleType DEF UploadTypeOK, AbortMark, Answer
  <1> QED BY <1>1, <1>2, <1>3, <1>4, <1>5, <1>6, <1>7, <1>8, <1>9, <1>10, <1>11,
             <1>12, <1>13 DEF CallStep

LEMMA ClientNextType == ASSUME UploadTypeOK, ClientNext PROVE UploadTypeOK'
  <1>1. CASE \E c \in Callers, a \in Assets : CallStep(c, a)
    BY <1>1, CallStepType
  <1>2. CASE \E c \in Callers : Drop(c)
    BY <1>2, IdleType DEF UploadTypeOK, Drop, Answer
  <1>3. CASE \E a \in Assets : Expire(a)
    <2> PICK a \in Assets : Expire(a)
      BY <1>3
    <2> QED BY DEF UploadTypeOK, Expire
  <1>4. CASE \E a \in Assets : \E n \in AllParts : PutPart(a, n)
    BY <1>4 DEF UploadTypeOK, PutPart
  <1> QED BY <1>1, <1>2, <1>3, <1>4 DEF ClientNext

(* A step of a maintenance job moves that job only.                        *)
LEMMA ReapMoves ==
    ASSUME UploadTypeOK, NEW r \in Reapers,
           ReapExpired(r) \/ ReapNextPeriod(r) \/ ReapStop(r)
    PROVE  \E x \in Reap : /\ reap' = [reap EXCEPT ![r] = x]
                           /\ x.pc \notin {"scans", "hls"}
  <1>t. reap[r] \in Reap /\ reap \in [Reapers -> Reap]
    BY DEF UploadTypeOK
  <1>1. CASE ReapSelectExpired(r)
    <2> DEFINE x == [reap[r] EXCEPT !.pc = "abort", !.todo = {a \in Assets : Overdue(a)}]
    <2>1. x \in Reap /\ x.pc = "abort"
      BY <1>t DEF Reap
    <2>2. reap' = [reap EXCEPT ![r] = x]
      BY <1>1, <1>t DEF ReapSelectExpired, Reap
    <2> QED BY <2>1, <2>2
  <1>2. CASE \E a \in Assets : ReapAbort(r, a)
    <2> PICK a \in Assets : ReapAbort(r, a)
      BY <1>2
    <2> DEFINE x == [reap[r] EXCEPT !.pc = "mark", !.at = a]
    <2>1. x \in Reap /\ x.pc = "mark"
      BY <1>t DEF Reap
    <2>2. reap' = [reap EXCEPT ![r] = x]
      BY <1>t DEF ReapAbort, Reap
    <2> QED BY <2>1, <2>2
  <1>3. CASE \E a \in Assets : ReapMark(r, a)
    <2> PICK a \in Assets : ReapMark(r, a)
      BY <1>3
    <2> DEFINE x == [pc |-> "abort", at |-> NoAsset, todo |-> reap[r].todo \ {a}]
    <2>1. x \in Reap /\ x.pc = "abort"
      BY <1>t DEF Reap
    <2>2. reap' = [reap EXCEPT ![r] = x]
      BY <1>t DEF ReapMark
    <2> QED BY <2>1, <2>2
  <1>4. CASE ReapExpiredDone(r) \/ ReapNextPeriod(r)
    <2> PICK pc \in {"swept", "idle"} : reap' = [reap EXCEPT ![r].pc = pc]
      BY <1>4 DEF ReapExpiredDone, ReapNextPeriod
    <2> DEFINE x == [reap[r] EXCEPT !.pc = pc]
    <2>1. x \in Reap /\ x.pc = pc
      BY <1>t DEF Reap
    <2>2. reap' = [reap EXCEPT ![r] = x]
      BY <1>t DEF Reap
    <2> QED BY <2>1, <2>2
  <1>5. CASE ReapStop(r)
    BY <1>5, NotReapingType DEF ReapStop, NotReaping
  <1> QED BY <1>1, <1>2, <1>3, <1>4, <1>5 DEF ReapExpired

LEMMA ReapersType ==
    ASSUME UploadTypeOK, NEW r \in Reapers,
           ReapExpired(r) \/ ReapNextPeriod(r) \/ ReapStop(r)
    PROVE  UploadTypeOK'
  <1>1. reap' \in [Reapers -> Reap]
    <2> PICK x \in Reap : reap' = [reap EXCEPT ![r] = x]
      BY ReapMoves
    <2> QED BY DEF UploadTypeOK
  <1>2. CASE \E a \in Assets : ReapAbort(r, a)
    <2> PICK a \in Assets : ReapAbort(r, a)
      BY <1>2
    <2>1. mp' \in [Assets -> {"none", "open", "assembled", "aborted"}]
      BY DEF UploadTypeOK, ReapAbort
    <2>2. parts' \in [Assets -> SUBSET AllParts]
      BY DEF UploadTypeOK, ReapAbort
    <2> QED BY <1>1, <2>1, <2>2 DEF UploadTypeOK, ReapAbort
  <1>3. CASE \E a \in Assets : ReapMark(r, a)
    <2> PICK a \in Assets : ReapMark(r, a)
      BY <1>3
    <2>1. upload' = [upload EXCEPT ![a].aborted = TRUE] /\ a \in Assets
      BY DEF ReapMark
    <2>2. upload' \in [Assets -> [row : BOOLEAN, key : BOOLEAN, expired : BOOLEAN,
                                 completed : BOOLEAN, aborted : BOOLEAN]]
      BY <2>1 DEF UploadTypeOK
    <2> QED BY <1>1, <2>2 DEF UploadTypeOK, ReapMark
  <1>4. CASE ReapSelectExpired(r) \/ ReapExpiredDone(r) \/ ReapNextPeriod(r) \/ ReapStop(r)
    BY <1>1, <1>4 DEF UploadTypeOK, ReapSelectExpired, ReapExpiredDone, ReapNextPeriod, ReapStop
  <1> QED BY <1>2, <1>3, <1>4 DEF ReapExpired

LEMMA UploadNextType == ASSUME UploadTypeOK, [UploadNext]_uploadVars PROVE UploadTypeOK'
  <1>1. CASE ClientNext
    BY <1>1, ClientNextType
  <1>2. CASE \E r \in Reapers : ReapExpired(r) \/ ReapNextPeriod(r) \/ ReapStop(r)
    BY <1>2, ReapersType
  <1>3. CASE UNCHANGED uploadVars
    BY <1>3 DEF UploadTypeOK, uploadVars
  <1> QED BY <1>1, <1>2, <1>3 DEF UploadNext

(* Every column and every record keeps its type.                           *)
THEOREM UploadTypeCorrect == UploadSpec => []UploadTypeOK
  <1> QED BY UploadInitType, UploadNextType, PTL DEF UploadSpec

-----------------------------------------------------------------------------
(* The inductive invariant: how far an upload can be, given what its       *)
(* multipart upload is in the storage.                                     *)

(* An object exists only with every part in it; until it does, nothing     *)
(* says that the upload is complete.                                       *)
AssembledIsWhole(a) ==
    /\ status[a] = "absent" => mp[a] = "none"
    /\ mp[a] = "assembled" => parts[a] = AllParts
    /\ mp[a] # "assembled" => /\ ~upload[a].completed
                              /\ status[a] \in {"absent", "awaiting_upload"}
                              /\ scanTask[a] = NoTask

(* What a request knows of the multipart upload at each of its statements. *)
RequestKnows(c, a) ==
    /\ At(c, a, "newMultipart") => mp[a] = "none" /\ status[a] # "absent"
    /\ At(c, a, "assemble") => /\ mp[a] # "none"
                               /\ mp[a] = "open" => parts[a] = AllParts
    /\ call[c].asset = a /\ call[c].pc \in Assembled => mp[a] = "assembled"

(* One request creates the multipart upload, and one completes it.         *)
NewMultipartAlone(c, d, a) ==
    At(c, a, "newMultipart") /\ At(d, a, "newMultipart") => c = d

Marking(c, a) == call[c].asset = a /\ call[c].pc \in {"markUpload", "markAsset"}
MarkingAlone(c, a) ==
    Marking(c, a) =>
        /\ status[a] = "awaiting_upload"
        /\ scanTask[a] = NoTask
        /\ \A d \in Callers \ {c} : ~(call[d].asset = a /\ call[d].pc \in Assembled)

UploadInv ==
    /\ UploadTypeOK
    /\ \A a \in Assets : AssembledIsWhole(a)
    /\ \A c \in Callers, a \in Assets : RequestKnows(c, a) /\ MarkingAlone(c, a)
    /\ \A c, d \in Callers, a \in Assets : NewMultipartAlone(c, d, a)

LEMMA UploadInitInv == UploadInit => UploadInv
  <1> SUFFICES ASSUME UploadInit PROVE UploadInv
    OBVIOUS
  <1>1. UploadTypeOK
    BY UploadInitType
  <1> QED BY <1>1 DEF UploadInit, UploadInv, AssembledIsWhole, RequestKnows,
              NewMultipartAlone, MarkingAlone, Marking, At, Assembled, Idle

(* As many parts as there are: all of them.                                *)
LEMMA AllPartsByCount ==
    ASSUME NEW received \in SUBSET AllParts, Cardinality(received) = TotalParts
    PROVE  received = AllParts
  <1>1. IsFiniteSet(AllParts) /\ Cardinality(AllParts) = TotalParts
    BY UploadAssumption, FS_Interval DEF AllParts
  <1> QED BY <1>1, FS_Subset

(* A request that only ends takes nothing with it.                         *)
LEMMA AnswerInv ==
    ASSUME UploadInv, NEW c \in Callers, Answer(c),
           UNCHANGED <<upload, mp, parts, object, status, scanTask, reap>>
    PROVE  UploadInv'
  <1>t. UploadTypeOK /\ UploadTypeOK'
    BY AnswerType DEF UploadInv, UploadTypeOK
  <1> QED BY <1>t DEF Answer, Idle, UploadInv, AssembledIsWhole, RequestKnows,
       NewMultipartAlone, MarkingAlone, Marking, At, UploadTypeOK, Assembled

LEMMA CallStepInv ==
    ASSUME UploadInv, NEW c \in Callers, NEW a \in Assets, CallStep(c, a)
    PROVE  UploadInv'
  <1>t. UploadTypeOK /\ UploadTypeOK'
    BY CallStepType DEF UploadInv
  <1>1. CASE InitInsertAsset(c, a)
    BY <1>1, <1>t DEF InitInsertAsset, Goto, UploadInv, AssembledIsWhole, RequestKnows,
       NewMultipartAlone, MarkingAlone, Marking, At, UploadTypeOK, Assembled
  <1>2. CASE InitNewMultipart(c, a)
    BY <1>2, <1>t DEF InitNewMultipart, Goto, UploadInv, AssembledIsWhole, RequestKnows,
       NewMultipartAlone, MarkingAlone, Marking, At, UploadTypeOK, Assembled
  <1>3. CASE InitInsertUpload(c, a)
    BY <1>3, <1>t DEF InitInsertUpload, Goto, UploadInv, AssembledIsWhole, RequestKnows,
       NewMultipartAlone, MarkingAlone, Marking, At, UploadTypeOK, Assembled
  <1>4. CASE InitSetKey(c, a)
    BY <1>4, <1>t DEF InitSetKey, Answer, Idle, UploadInv, AssembledIsWhole, RequestKnows,
       NewMultipartAlone, MarkingAlone, Marking, At, UploadTypeOK, Assembled
  <1>5. CASE CompleteLoad(c, a)
    BY <1>5, <1>t DEF CompleteLoad, Goto, UploadInv, AssembledIsWhole, RequestKnows,
       NewMultipartAlone, MarkingAlone, Marking, At, UploadTypeOK, Assembled
  <1>6. CASE CompleteList(c, a)
    <2>1. CASE mp[a] = "open" /\ Cardinality(parts[a]) = TotalParts
      <3>1. parts[a] = AllParts
        BY <1>t, <2>1, AllPartsByCount DEF UploadTypeOK
      <3>2. Goto(c, a, "assemble")
        BY <1>6, <2>1 DEF CompleteList
      <3> QED BY <1>6, <1>t, <2>1, <3>1, <3>2 DEF CompleteList, Goto,
                UploadInv, AssembledIsWhole, RequestKnows,
                NewMultipartAlone, MarkingAlone, Marking, At, UploadTypeOK, Assembled
    <2>2. CASE ~(mp[a] = "open" /\ Cardinality(parts[a]) = TotalParts)
      BY <1>6, <2>2, AnswerInv DEF CompleteList
    <2> QED BY <2>1, <2>2
  <1>7. CASE CompleteAssemble(c, a)
    <2>1. CASE mp[a] = "open"
      <3>1. mp' = [mp EXCEPT ![a] = "assembled"] /\ Goto(c, a, "markUpload")
        BY <1>7, <2>1 DEF CompleteAssemble
      <3> QED BY <1>7, <1>t, <2>1, <3>1 DEF CompleteAssemble, Goto,
                UploadInv, AssembledIsWhole, RequestKnows,
                NewMultipartAlone, MarkingAlone, Marking, At, UploadTypeOK, Assembled
    <2>2. CASE mp[a] # "open"
      BY <1>7, <2>2, AnswerInv DEF CompleteAssemble
    <2> QED BY <2>1, <2>2
  <1>8. CASE CompleteMarkUpload(c, a)
    BY <1>8, <1>t DEF CompleteMarkUpload, Goto, UploadInv, AssembledIsWhole, RequestKnows,
       NewMultipartAlone, MarkingAlone, Marking, At, UploadTypeOK, Assembled
  <1>9. CASE CompleteMarkAsset(c, a)
    BY <1>9, <1>t DEF CompleteMarkAsset, Goto, UploadInv, AssembledIsWhole, RequestKnows,
       NewMultipartAlone, MarkingAlone, Marking, At, UploadTypeOK, Assembled
  <1>10. CASE CompleteEnqueue(c, a)
    BY <1>10, <1>t DEF CompleteEnqueue, Answer, Idle, UploadInv, AssembledIsWhole, RequestKnows,
       NewMultipartAlone, MarkingAlone, Marking, At, UploadTypeOK, Assembled
  <1>11. CASE AbortLoad(c, a)
    BY <1>11, <1>t DEF AbortLoad, Goto, UploadInv, AssembledIsWhole, RequestKnows,
       NewMultipartAlone, MarkingAlone, Marking, At, UploadTypeOK, Assembled
  <1>12. CASE AbortStorage(c, a)
    <2>1. CASE mp[a] = "open"
      <3>1. mp' = [mp EXCEPT ![a] = "aborted"] /\ Goto(c, a, "markAborted")
        BY <1>12, <2>1 DEF AbortStorage
      <3> QED BY <1>12, <1>t, <2>1, <3>1 DEF AbortStorage, Goto,
                UploadInv, AssembledIsWhole, RequestKnows,
                NewMultipartAlone, MarkingAlone, Marking, At, UploadTypeOK, Assembled
    <2>2. CASE mp[a] # "open"
      BY <1>12, <2>2, AnswerInv DEF AbortStorage
    <2> QED BY <2>1, <2>2
  <1>13. CASE AbortMark(c, a)
    BY <1>13, <1>t DEF AbortMark, Answer, Idle, UploadInv, AssembledIsWhole, RequestKnows,
       NewMultipartAlone, MarkingAlone, Marking, At, UploadTypeOK, Assembled
  <1> QED BY <1>1, <1>2, <1>3, <1>4, <1>5, <1>6, <1>7, <1>8, <1>9, <1>10, <1>11,
             <1>12, <1>13 DEF CallStep

LEMMA ClientNextInv == ASSUME UploadInv, ClientNext PROVE UploadInv'
  <1>t. UploadTypeOK /\ UploadTypeOK'
    BY ClientNextType DEF UploadInv
  <1>1. CASE \E c \in Callers, a \in Assets : CallStep(c, a)
    BY <1>1, CallStepInv
  <1>2. CASE \E c \in Callers : Drop(c)
    BY <1>2, AnswerInv DEF Drop
  <1>3. CASE \E a \in Assets : Expire(a)
    <2> PICK a \in Assets : Expire(a)
      BY <1>3
    <2> QED BY <1>t DEF Expire, UploadInv, AssembledIsWhole, RequestKnows,
       NewMultipartAlone, MarkingAlone, Marking, At, UploadTypeOK, Assembled
  <1>4. CASE \E a \in Assets : \E n \in AllParts : PutPart(a, n)
    <2> PICK a \in Assets, n \in AllParts : PutPart(a, n)
      BY <1>4
    <2> QED BY <1>t DEF PutPart, Missing, UploadInv, AssembledIsWhole, RequestKnows,
       NewMultipartAlone, MarkingAlone, Marking, At, UploadTypeOK, Assembled
  <1> QED BY <1>1, <1>2, <1>3, <1>4 DEF ClientNext

(* The maintenance jobs abort only what is open and mark only rows.        *)
LEMMA ReapersInv ==
    ASSUME UploadInv, NEW r \in Reapers,
           ReapExpired(r) \/ ReapNextPeriod(r) \/ ReapStop(r)
    PROVE  UploadInv'
  <1>t. UploadTypeOK /\ UploadTypeOK'
    BY ReapersType DEF UploadInv
  <1>1. CASE \E a \in Assets : ReapAbort(r, a)
    <2> PICK a \in Assets : ReapAbort(r, a)
      BY <1>1
    <2> QED BY <1>t DEF ReapAbort, UploadInv, AssembledIsWhole, RequestKnows,
       NewMultipartAlone, MarkingAlone, Marking, At, UploadTypeOK, Assembled
  <1>2. CASE \E a \in Assets : ReapMark(r, a)
    <2> PICK a \in Assets : ReapMark(r, a)
      BY <1>2
    <2> QED BY <1>t DEF ReapMark, UploadInv, AssembledIsWhole, RequestKnows,
       NewMultipartAlone, MarkingAlone, Marking, At, UploadTypeOK, Assembled
  <1>3. CASE ReapSelectExpired(r) \/ ReapExpiredDone(r) \/ ReapNextPeriod(r) \/ ReapStop(r)
    <2>1. UNCHANGED <<upload, mp, parts, object, status, scanTask, call>>
      BY <1>3 DEF ReapSelectExpired, ReapExpiredDone, ReapNextPeriod, ReapStop
    <2> QED BY <1>t, <2>1 DEF UploadInv, AssembledIsWhole, RequestKnows,
       NewMultipartAlone, MarkingAlone, Marking, At, UploadTypeOK, Assembled
  <1> QED BY <1>1, <1>2, <1>3 DEF ReapExpired

LEMMA UploadNextInv == ASSUME UploadInv, [UploadNext]_uploadVars PROVE UploadInv'
  <1>t. UploadTypeOK /\ UploadTypeOK'
    BY UploadNextType DEF UploadInv
  <1>1. CASE ClientNext
    BY <1>1, ClientNextInv
  <1>2. CASE \E r \in Reapers : ReapExpired(r) \/ ReapNextPeriod(r) \/ ReapStop(r)
    BY <1>2, ReapersInv
  <1>3. CASE UNCHANGED uploadVars
    BY <1>3, <1>t DEF uploadVars, UploadInv, AssembledIsWhole, RequestKnows,
       NewMultipartAlone, MarkingAlone, Marking, At, UploadTypeOK, Assembled
  <1> QED BY <1>1, <1>2, <1>3 DEF UploadNext

LEMMA UploadInvCorrect == UploadSpec => []UploadInv
  <1> QED BY UploadInitInv, UploadNextInv, PTL DEF UploadSpec

(* No interleaving of requests, PUTs, expirations and maintenance marks as *)
(* complete an upload that lacks a part.                                   *)
THEOREM UploadsAreWhole == UploadSpec => []CompletedIsWhole
  <1>1. UploadInv => CompletedIsWhole
    BY DEF UploadInv, AssembledIsWhole, CompletedIsWhole
  <1> QED BY <1>1, UploadInvCorrect, PTL

(* Of any number of concurrent completions, one sets 'uploaded', and never *)
(* over what the workers wrote.                                            *)
THEOREM UploadsHappenOnce == UploadSpec => []UploadedOnce
  <1>1. UploadInv => UploadedOnce
    BY DEF UploadInv, MarkingAlone, Marking, UploadedOnce
  <1> QED BY <1>1, UploadInvCorrect, PTL

-----------------------------------------------------------------------------
(* An upload is marked as aborted after the storage freed its parts, or by *)
(* a maintenance job, which selects expired ones only.                     *)
UserAborted(a) ==
    /\ upload[a].aborted => upload[a].expired \/ mp[a] = "aborted"
    /\ \A c \in Callers : At(c, a, "markAborted") => mp[a] = "aborted"

SweepsExpired(x) ==
    /\ x.pc \in {"abort", "mark"} => \A a \in x.todo : upload[a].expired
    /\ x.pc = "mark" => x.at \in x.todo
SweepExpired == \A r \in Reapers : SweepsExpired(reap[r])

AbortInv == SweepExpired /\ \A a \in Assets : UserAborted(a)

LEMMA AbortInit == UploadInit => AbortInv
  BY DEF UploadInit, AbortInv, UserAborted, SweepExpired, SweepsExpired, At, Idle,
         NotReaping

LEMMA AnswerAbort ==
    ASSUME UploadTypeOK, AbortInv, NEW c \in Callers, Answer(c),
           UNCHANGED <<upload, mp, parts, object, status, scanTask, reap>>
    PROVE  AbortInv'
  BY DEF Answer, Idle, AbortInv, UserAborted,
       SweepExpired, SweepsExpired, UploadInv, RequestKnows, At, UploadTypeOK

LEMMA CallStepAbort ==
    ASSUME UploadInv, UploadTypeOK', AbortInv,
           NEW c \in Callers, NEW a \in Assets, CallStep(c, a)
    PROVE  AbortInv'
  <1>1. CASE InitInsertAsset(c, a)
    BY <1>1 DEF InitInsertAsset, Goto, AbortInv, UserAborted,
       SweepExpired, SweepsExpired, UploadInv, RequestKnows, At, UploadTypeOK
  <1>2. CASE InitNewMultipart(c, a)
    BY <1>2 DEF InitNewMultipart, Goto, AbortInv, UserAborted,
       SweepExpired, SweepsExpired, UploadInv, RequestKnows, At, UploadTypeOK
  <1>3. CASE InitInsertUpload(c, a)
    BY <1>3 DEF InitInsertUpload, Goto, AbortInv, UserAborted,
       SweepExpired, SweepsExpired, UploadInv, RequestKnows, At, UploadTypeOK
  <1>4. CASE InitSetKey(c, a)
    BY <1>4 DEF InitSetKey, Answer, Idle, AbortInv, UserAborted,
       SweepExpired, SweepsExpired, UploadInv, RequestKnows, At, UploadTypeOK
  <1>5. CASE CompleteLoad(c, a)
    BY <1>5 DEF CompleteLoad, Goto, AbortInv, UserAborted,
       SweepExpired, SweepsExpired, UploadInv, RequestKnows, At, UploadTypeOK
  <1>6. CASE CompleteList(c, a)
    <2>1. CASE Answer(c)
      BY <1>6, <2>1, AnswerAbort DEF CompleteList, UploadInv
    <2>2. CASE Goto(c, a, "assemble")
      BY <1>6, <2>2 DEF CompleteList, Goto, AbortInv, UserAborted,
       SweepExpired, SweepsExpired, UploadInv, RequestKnows, At, UploadTypeOK
    <2> QED BY <1>6, <2>1, <2>2 DEF CompleteList
  <1>7. CASE CompleteAssemble(c, a)
    <2>1. CASE mp[a] = "open"
      <3>1. mp' = [mp EXCEPT ![a] = "assembled"] /\ Goto(c, a, "markUpload")
        BY <1>7, <2>1 DEF CompleteAssemble
      <3> QED BY <1>7, <2>1, <3>1 DEF CompleteAssemble, Goto, AbortInv, UserAborted,
       SweepExpired, SweepsExpired, UploadInv, RequestKnows, At, UploadTypeOK
    <2>2. CASE mp[a] # "open"
      BY <1>7, <2>2, AnswerAbort DEF CompleteAssemble, UploadInv
    <2> QED BY <2>1, <2>2
  <1>8. CASE CompleteMarkUpload(c, a)
    BY <1>8 DEF CompleteMarkUpload, Goto, AbortInv, UserAborted,
       SweepExpired, SweepsExpired, UploadInv, RequestKnows, At, UploadTypeOK
  <1>9. CASE CompleteMarkAsset(c, a)
    BY <1>9 DEF CompleteMarkAsset, Goto, AbortInv, UserAborted,
       SweepExpired, SweepsExpired, UploadInv, RequestKnows, At, UploadTypeOK
  <1>10. CASE CompleteEnqueue(c, a)
    BY <1>10 DEF CompleteEnqueue, Answer, Idle, AbortInv, UserAborted,
       SweepExpired, SweepsExpired, UploadInv, RequestKnows, At, UploadTypeOK
  <1>11. CASE AbortLoad(c, a)
    BY <1>11 DEF AbortLoad, Goto, AbortInv, UserAborted,
       SweepExpired, SweepsExpired, UploadInv, RequestKnows, At, UploadTypeOK
  <1>12. CASE AbortStorage(c, a)
    <2>1. CASE mp[a] = "open"
      <3>1. mp' = [mp EXCEPT ![a] = "aborted"] /\ Goto(c, a, "markAborted")
        BY <1>12, <2>1 DEF AbortStorage
      <3> QED BY <1>12, <2>1, <3>1 DEF AbortStorage, Goto, AbortInv, UserAborted,
       SweepExpired, SweepsExpired, UploadInv, RequestKnows, At, UploadTypeOK
    <2>2. CASE mp[a] # "open"
      BY <1>12, <2>2, AnswerAbort DEF AbortStorage, UploadInv
    <2> QED BY <2>1, <2>2
  <1>13. CASE AbortMark(c, a)
    BY <1>13 DEF AbortMark, Answer, Idle, AbortInv, UserAborted,
       SweepExpired, SweepsExpired, UploadInv, RequestKnows, At, UploadTypeOK
  <1> QED BY <1>1, <1>2, <1>3, <1>4, <1>5, <1>6, <1>7, <1>8, <1>9, <1>10, <1>11,
             <1>12, <1>13 DEF CallStep

(* The records of the other jobs stay, and so does what has expired.       *)
LEMMA ReaperAbort ==
    ASSUME UploadTypeOK, AbortInv, UNCHANGED <<call>>, NEW r \in Reapers,
           NEW x \in Reap, reap' = [reap EXCEPT ![r] = x], SweepsExpired(x)',
           \A a \in Assets : upload[a].expired => upload'[a].expired,
           \A a \in Assets : mp[a] = "aborted" => mp'[a] = "aborted",
           \A a \in Assets : upload'[a].aborted => upload[a].aborted \/ upload[a].expired
    PROVE  AbortInv'
  <1>1. ASSUME NEW q \in Reapers PROVE SweepsExpired(reap[q])'
    <2>1. CASE q = r
      <3>1. reap'[q] = x
        BY <2>1 DEF UploadTypeOK
      <3> QED BY <3>1 DEF SweepsExpired
    <2>2. CASE q # r
      <3>1. reap'[q] = reap[q] /\ reap[q].todo \subseteq Assets /\ SweepsExpired(reap[q])
        BY <2>2 DEF UploadTypeOK, Reap, AbortInv, SweepExpired
      <3> QED BY <3>1 DEF SweepsExpired
    <2> QED BY <2>1, <2>2
  <1>2. \A a \in Assets : UserAborted(a)'
    BY DEF AbortInv, UserAborted, At
  <1> QED BY <1>1, <1>2 DEF AbortInv, SweepExpired

LEMMA ReapersAbort ==
    ASSUME UploadInv, AbortInv, NEW r \in Reapers,
           ReapExpired(r) \/ ReapNextPeriod(r) \/ ReapStop(r)
    PROVE  AbortInv'
  <1>t. UploadTypeOK /\ reap[r] \in Reap /\ SweepsExpired(reap[r])
    BY DEF UploadInv, UploadTypeOK, AbortInv, SweepExpired
  <1>m. PICK x \in Reap : reap' = [reap EXCEPT ![r] = x]
    BY <1>t, ReapMoves
  <1>x. reap'[r] = x
    BY <1>t, <1>m DEF UploadTypeOK
  <1>1. CASE ReapSelectExpired(r) \/ ReapExpiredDone(r) \/ ReapNextPeriod(r) \/ ReapStop(r)
    <2>1. UNCHANGED <<upload, mp, call>>
      BY <1>1 DEF ReapSelectExpired, ReapExpiredDone, ReapNextPeriod, ReapStop
    <2>2. SweepsExpired(x)'
      <3>1. CASE ReapSelectExpired(r)
        <4>1. x.pc = "abort" /\ x.todo = {a \in Assets : Overdue(a)}
          BY <1>t, <1>x, <3>1 DEF ReapSelectExpired, Reap, UploadTypeOK
        <4> QED BY <2>1, <4>1 DEF SweepsExpired, Overdue
      <3>2. CASE ReapExpiredDone(r) \/ ReapNextPeriod(r) \/ ReapStop(r)
        <4>1. x.pc \in {"swept", "idle"}
          BY <1>t, <1>x, <3>2
             DEF ReapExpiredDone, ReapNextPeriod, ReapStop, NotReaping, Reap, UploadTypeOK
        <4> QED BY <4>1 DEF SweepsExpired
      <3> QED BY <1>1, <3>1, <3>2
    <2> QED BY <1>t, <1>m, <2>1, <2>2, ReaperAbort
  <1>2. CASE \E a \in Assets : ReapAbort(r, a)
    <2> PICK a \in Assets : ReapAbort(r, a)
      BY <1>2
    <2>1. x.pc = "mark" /\ x.at = a /\ x.todo = reap[r].todo /\ reap[r].pc = "abort"
      BY <1>t, <1>x DEF ReapAbort, Reap, UploadTypeOK
    <2>2. UNCHANGED <<upload, call>> /\ a \in reap[r].todo
      BY DEF ReapAbort
    <2>3. SweepsExpired(x)'
      BY <1>t, <2>1, <2>2 DEF SweepsExpired
    <2>4. \A b \in Assets : mp[b] = "aborted" => mp'[b] = "aborted"
      BY <1>t DEF ReapAbort, UploadTypeOK
    <2> QED BY <1>t, <1>m, <2>2, <2>3, <2>4, ReaperAbort
  <1>3. CASE \E a \in Assets : ReapMark(r, a)
    <2> PICK a \in Assets : ReapMark(r, a)
      BY <1>3
    <2>1. /\ x = [pc |-> "abort", at |-> NoAsset, todo |-> reap[r].todo \ {a}]
          /\ reap[r].pc = "mark" /\ reap[r].at = a
      BY <1>t, <1>x DEF ReapMark, UploadTypeOK
    <2>2. upload' = [upload EXCEPT ![a].aborted = TRUE] /\ UNCHANGED <<mp, call>>
      BY DEF ReapMark
    <2>3. upload[a].expired
      BY <1>t, <2>1 DEF SweepsExpired
    <2>4. \A b \in Assets : /\ upload'[b].expired = upload[b].expired
                            /\ upload'[b].aborted => upload[b].aborted \/ upload[b].expired
      BY <1>t, <2>2, <2>3 DEF UploadTypeOK
    <2>5. reap[r].todo \subseteq Assets
      BY <1>t DEF Reap
    <2>6. SweepsExpired(x)'
      BY <1>t, <2>1, <2>4, <2>5 DEF SweepsExpired
    <2> QED BY <1>t, <1>m, <2>2, <2>4, <2>6, ReaperAbort
  <1> QED BY <1>1, <1>2, <1>3 DEF ReapExpired

LEMMA UploadNextAbort ==
    ASSUME UploadInv, AbortInv, [UploadNext]_uploadVars
    PROVE  AbortInv'
  <1>t. UploadTypeOK /\ UploadTypeOK'
    BY UploadNextType DEF UploadInv
  <1>1. CASE \E c \in Callers, a \in Assets : CallStep(c, a)
    BY <1>1, <1>t, CallStepAbort
  <1>2. CASE \E c \in Callers : Drop(c)
    BY <1>2, <1>t, AnswerAbort DEF Drop
  <1>3. CASE \E a \in Assets : Expire(a)
    <2> PICK a \in Assets : Expire(a)
      BY <1>3
    <2> QED BY <1>t DEF Expire, Reap, AbortInv, UserAborted,
       SweepExpired, SweepsExpired, UploadInv, RequestKnows, At, UploadTypeOK
  <1>4. CASE \E a \in Assets : \E n \in AllParts : PutPart(a, n)
    BY <1>4, <1>t DEF PutPart, AbortInv, UserAborted,
       SweepExpired, SweepsExpired, UploadInv, RequestKnows, At, UploadTypeOK
  <1>5. CASE \E r \in Reapers : ReapExpired(r) \/ ReapNextPeriod(r) \/ ReapStop(r)
    BY <1>5, ReapersAbort
  <1>6. CASE UNCHANGED uploadVars
    BY <1>6, <1>t DEF uploadVars, AbortInv, UserAborted,
       SweepExpired, SweepsExpired, At
  <1> QED BY <1>1, <1>2, <1>3, <1>4, <1>5, <1>6 DEF UploadNext, ClientNext

(* An upload its user cancelled never becomes an object afterwards.        *)
THEOREM AbortsAreFinal == UploadSpec => []AbortIsFinal
  <1>1. AbortInv => AbortIsFinal
    BY DEF AbortInv, UserAborted, AbortIsFinal
  <1>2. UploadSpec => []AbortInv
    BY UploadInvCorrect, AbortInit, UploadNextAbort, PTL DEF UploadSpec
  <1> QED BY <1>1, <1>2, PTL
=============================================================================
