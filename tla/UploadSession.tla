--------------------------- MODULE UploadSession ---------------------------
(***************************************************************************)
(* Resumable multipart uploads (internal/api/handlers_media.go) and the    *)
(* part of the maintenance job that closes expired ones (tasks/reap.go,    *)
(* step 1).                                                                *)
(*                                                                         *)
(* A request runs as a sequence of statements, one action each: nothing    *)
(* groups them in a transaction, and the request's context, which every    *)
(* statement takes, is cancelled when the client disconnects.              *)
(***************************************************************************)
EXTENDS Integers, FiniteSets, TaskQueue

CONSTANTS
    Assets,      \* asset ids; each has one upload row and one multipart upload
    Callers,     \* requests in progress at the API
    Reapers,     \* maintenance jobs in progress: every replica of the worker
                 \* starts a scheduler, so their periods may overlap
    TotalParts,  \* planParts: parts of every upload
    NoAsset      \* value of an idle request's asset

ASSUME UploadAssumption == /\ NoAsset \notin Assets
                           /\ TotalParts \in Nat \ {0}

VARIABLES
    upload,      \* row of uploads (row), object_key known (key), its timestamps
    mp,          \* the storage's multipart upload
    parts,       \* parts the storage received
    object,      \* does the assembled object exist in the bucket
    status,      \* assets.status, "absent" before the row exists
    scanTask,    \* asynq record of "scan:<asset>"
    call,        \* what each request is doing
    reap         \* what each maintenance job is doing

uploadVars == <<upload, mp, parts, object, status, scanTask, call, reap>>

AssetStatus == {"absent", "awaiting_upload", "uploaded", "scanning", "infected",
                "processing", "ready", "failed"}

InitPcs     == {"newMultipart", "insertUpload", "setKey"}
CompletePcs == {"list", "assemble", "markUpload", "markAsset", "enqueue"}
AbortPcs    == {"abortMp", "markAborted"}
CallPcs     == {"idle"} \cup InitPcs \cup CompletePcs \cup AbortPcs

Call == [pc : CallPcs, asset : Assets \cup {NoAsset}]
Idle == [pc |-> "idle", asset |-> NoAsset]

(* Where a maintenance job stands; the last three are steps 2 to 4.        *)
Reap == [pc : {"idle", "abort", "mark", "swept", "scans", "unstuck", "hls"},
         todo : SUBSET Assets, at : Assets \cup {NoAsset}]
NotReaping == [pc |-> "idle", todo |-> {}, at |-> NoAsset]

AllParts == 1 .. TotalParts

(* Requests past the point where the storage assembled the object.         *)
Assembled == {"markUpload", "markAsset", "enqueue"}

At(c, a, pc) == call[c].pc = pc /\ call[c].asset = a
Goto(c, a, pc) == call' = [call EXCEPT ![c] = [pc |-> pc, asset |-> a]]
Answer(c) == call' = [call EXCEPT ![c] = Idle]

UploadInit ==
    /\ upload = [a \in Assets |-> [row |-> FALSE, key |-> FALSE, expired |-> FALSE,
                                   completed |-> FALSE, aborted |-> FALSE]]
    /\ mp = [a \in Assets |-> "none"]
    /\ parts = [a \in Assets |-> {}]
    /\ object = [a \in Assets |-> FALSE]
    /\ status = [a \in Assets |-> "absent"]
    /\ scanTask = [a \in Assets |-> NoTask]
    /\ call = [c \in Callers |-> Idle]
    /\ reap = [r \in Reapers |-> NotReaping]

-----------------------------------------------------------------------------
(* handleInitUpload: asset row with an empty key, multipart upload, upload *)
(* row, and only then the key.  The client learns the upload id at the end.*)

InitInsertAsset(c, a) ==
    /\ call[c] = Idle
    /\ status[a] = "absent"
    /\ status' = [status EXCEPT ![a] = "awaiting_upload"]
    /\ Goto(c, a, "newMultipart")
    /\ UNCHANGED <<upload, mp, parts, object, scanTask, reap>>

InitNewMultipart(c, a) ==
    /\ At(c, a, "newMultipart")
    /\ mp' = [mp EXCEPT ![a] = "open"]
    /\ Goto(c, a, "insertUpload")
    /\ UNCHANGED <<upload, parts, object, status, scanTask, reap>>

InitInsertUpload(c, a) ==
    /\ At(c, a, "insertUpload")
    /\ upload' = [upload EXCEPT ![a].row = TRUE]
    /\ Goto(c, a, "setKey")
    /\ UNCHANGED <<mp, parts, object, status, scanTask, reap>>

InitSetKey(c, a) ==
    /\ At(c, a, "setKey")
    /\ upload' = [upload EXCEPT ![a].key = TRUE]
    /\ Answer(c)
    /\ UNCHANGED <<mp, parts, object, status, scanTask, reap>>

-----------------------------------------------------------------------------
(* The client PUTs parts straight to the storage with the URLs it holds,   *)
(* those of handleInitUpload or, for the missing parts, of                 *)
(* handleUploadStatus.  A URL signed just before the row expires outlives  *)
(* it, so only the multipart upload itself limits what arrives.            *)

Missing(a) == AllParts \ parts[a]

PutPart(a, n) ==
    /\ upload[a].key
    /\ mp[a] = "open"
    /\ n \in Missing(a)
    /\ parts' = [parts EXCEPT ![a] = @ \cup {n}]
    /\ UNCHANGED <<upload, mp, object, status, scanTask, call, reap>>

(* The expires_at of the upload row passes.  Nothing happens then; only    *)
(* unfinished uploads are ever asked.                                      *)
Expire(a) ==
    /\ upload[a].row
    /\ ~upload[a].expired /\ ~upload[a].completed
    /\ upload' = [upload EXCEPT ![a].expired = TRUE]
    /\ UNCHANGED <<mp, parts, object, status, scanTask, call, reap>>

-----------------------------------------------------------------------------
(* handleCompleteUpload.  A row already completed answers at once; neither *)
(* aborted_at nor expires_at is looked at.                                 *)

CompleteLoad(c, a) ==
    /\ call[c] = Idle
    /\ upload[a].key
    /\ ~upload[a].completed
    /\ Goto(c, a, "list")
    /\ UNCHANGED <<upload, mp, parts, object, status, scanTask, reap>>

(* Mutated form of CompleteList: the number of received parts is not       *)
(* compared with the expected one.                                         *)
CompleteListUncounted(c, a) ==
    /\ At(c, a, "list")
    /\ IF mp[a] = "open" THEN Goto(c, a, "assemble") ELSE Answer(c)
    /\ UNCHANGED <<upload, mp, parts, object, status, scanTask, reap>>

(* ListParts knows only open uploads; len(received) # Total answers 422.   *)
CompleteList(c, a) ==
    /\ At(c, a, "list")
    /\ IF mp[a] = "open" /\ Cardinality(parts[a]) = TotalParts
       THEN Goto(c, a, "assemble")
       ELSE Answer(c)
    /\ UNCHANGED <<upload, mp, parts, object, status, scanTask, reap>>

(* Mutated form of CompleteAssemble: an upload id the storage has already  *)
(* consumed is taken for success.                                          *)
CompleteAssembleAgain(c, a) ==
    /\ At(c, a, "assemble")
    /\ \/ /\ mp[a] \in {"open", "assembled"}
          /\ mp' = [mp EXCEPT ![a] = "assembled"]
          /\ object' = [object EXCEPT ![a] = TRUE]
          /\ Goto(c, a, "markUpload")
       \/ /\ mp[a] \notin {"open", "assembled"}
          /\ Answer(c)
          /\ UNCHANGED <<mp, object>>
    /\ UNCHANGED <<upload, parts, status, scanTask, reap>>

(* CompleteMultipartUpload consumes the upload id: the second of two       *)
(* concurrent calls gets an error.  StatSize follows and changes nothing.  *)
CompleteAssemble(c, a) ==
    /\ At(c, a, "assemble")
    /\ \/ /\ mp[a] = "open"
          /\ mp' = [mp EXCEPT ![a] = "assembled"]
          /\ object' = [object EXCEPT ![a] = TRUE]
          /\ Goto(c, a, "markUpload")
       \/ /\ mp[a] # "open"
          /\ Answer(c)
          /\ UNCHANGED <<mp, object>>
    /\ UNCHANGED <<upload, parts, status, scanTask, reap>>

CompleteMarkUpload(c, a) ==
    /\ At(c, a, "markUpload")
    /\ upload' = [upload EXCEPT ![a].completed = TRUE]
    /\ Goto(c, a, "markAsset")
    /\ UNCHANGED <<mp, parts, object, status, scanTask, reap>>

(* Mutated form of CompleteMarkAsset: the 'clean' of the life cycle drawn  *)
(* in db/init.sql, which the enum does not have.                           *)
CompleteMarkAssetClean(c, a) ==
    /\ At(c, a, "markAsset")
    /\ status' = [status EXCEPT ![a] = "clean"]
    /\ Goto(c, a, "enqueue")
    /\ UNCHANGED <<upload, mp, parts, object, scanTask, reap>>

CompleteMarkAsset(c, a) ==
    /\ At(c, a, "markAsset")
    /\ status' = [status EXCEPT ![a] = "uploaded"]
    /\ Goto(c, a, "enqueue")
    /\ UNCHANGED <<upload, mp, parts, object, scanTask, reap>>

CompleteEnqueue(c, a) ==
    /\ At(c, a, "enqueue")
    /\ scanTask' = [scanTask EXCEPT ![a] = Enqueue(@)]
    /\ Answer(c)
    /\ UNCHANGED <<upload, mp, parts, object, status, reap>>

-----------------------------------------------------------------------------
(* handleAbortUpload looks at neither timestamp; the storage refuses to    *)
(* abort an upload it no longer has, and the handler then stops.           *)

AbortLoad(c, a) ==
    /\ call[c] = Idle
    /\ upload[a].key
    /\ Goto(c, a, "abortMp")
    /\ UNCHANGED <<upload, mp, parts, object, status, scanTask, reap>>

(* Mutated form of AbortStorage: the storage's error is ignored, as the    *)
(* maintenance job does.                                                   *)
AbortStorageLenient(c, a) ==
    /\ At(c, a, "abortMp")
    /\ \/ /\ mp[a] = "open"
          /\ mp' = [mp EXCEPT ![a] = "aborted"]
          /\ parts' = [parts EXCEPT ![a] = {}]
       \/ /\ mp[a] # "open"
          /\ UNCHANGED <<mp, parts>>
    /\ Goto(c, a, "markAborted")
    /\ UNCHANGED <<upload, object, status, scanTask, reap>>

AbortStorage(c, a) ==
    /\ At(c, a, "abortMp")
    /\ \/ /\ mp[a] = "open"
          /\ mp' = [mp EXCEPT ![a] = "aborted"]
          /\ parts' = [parts EXCEPT ![a] = {}]
          /\ Goto(c, a, "markAborted")
       \/ /\ mp[a] # "open"
          /\ Answer(c)
          /\ UNCHANGED <<mp, parts>>
    /\ UNCHANGED <<upload, object, status, scanTask, reap>>

AbortMark(c, a) ==
    /\ At(c, a, "markAborted")
    /\ upload' = [upload EXCEPT ![a].aborted = TRUE]
    /\ Answer(c)
    /\ UNCHANGED <<mp, parts, object, status, scanTask, reap>>

(* The client disconnects, a statement fails or the API process dies: the  *)
(* request ends and what it already wrote stays.                           *)
Drop(c) ==
    /\ call[c] # Idle
    /\ Answer(c)
    /\ UNCHANGED <<upload, mp, parts, object, status, scanTask, reap>>

-----------------------------------------------------------------------------
(* HandleReapStale, step 1.                                                *)

Overdue(a) == /\ upload[a].row /\ upload[a].expired
              /\ ~upload[a].completed /\ ~upload[a].aborted

ReapSelectExpired(r) ==
    /\ reap[r].pc = "idle"
    /\ reap' = [reap EXCEPT ![r].pc = "abort",
                            ![r].todo = {a \in Assets : Overdue(a)}]
    /\ UNCHANGED <<upload, mp, parts, object, status, scanTask, call>>

(* Mutated form of ReapAbort: a row whose upload cannot be aborted is left *)
(* for the next period.                                                    *)
ReapAbortOrSkip(r, a) ==
    /\ reap[r].pc = "abort"
    /\ a \in reap[r].todo
    /\ \/ /\ upload[a].key
          /\ mp[a] = "open"
          /\ mp' = [mp EXCEPT ![a] = "aborted"]
          /\ parts' = [parts EXCEPT ![a] = {}]
          /\ reap' = [reap EXCEPT ![r].pc = "mark", ![r].at = a]
       \/ /\ reap' = [reap EXCEPT ![r].todo = @ \ {a}]
          /\ UNCHANGED <<mp, parts>>
    /\ UNCHANGED <<upload, object, status, scanTask, call>>

(* The storage's answer is only logged.  With an empty object_key, or when *)
(* the storage fails, nothing is freed and the row is marked all the same. *)
ReapAbort(r, a) ==
    /\ reap[r].pc = "abort"
    /\ a \in reap[r].todo
    /\ reap' = [reap EXCEPT ![r].pc = "mark", ![r].at = a]
    /\ \/ /\ upload[a].key
          /\ mp[a] = "open"
          /\ mp' = [mp EXCEPT ![a] = "aborted"]
          /\ parts' = [parts EXCEPT ![a] = {}]
       \/ UNCHANGED <<mp, parts>>
    /\ UNCHANGED <<upload, object, status, scanTask, call>>

ReapMark(r, a) ==
    /\ reap[r].pc = "mark"
    /\ reap[r].at = a
    /\ upload' = [upload EXCEPT ![a].aborted = TRUE]
    /\ reap' = [reap EXCEPT ![r] = [pc |-> "abort", at |-> NoAsset, todo |-> @.todo \ {a}]]
    /\ UNCHANGED <<mp, parts, object, status, scanTask, call>>

ReapExpiredDone(r) ==
    /\ reap[r].pc = "abort"
    /\ reap[r].todo = {}
    /\ reap' = [reap EXCEPT ![r].pc = "swept"]
    /\ UNCHANGED <<upload, mp, parts, object, status, scanTask, call>>

(* The rest of the job does not touch uploads: the next period starts over.*)
ReapNextPeriod(r) ==
    /\ reap[r].pc = "swept"
    /\ reap' = [reap EXCEPT ![r].pc = "idle"]
    /\ UNCHANGED <<upload, mp, parts, object, status, scanTask, call>>

(* A database error returns from the job, a crash ends it.                 *)
ReapStop(r) ==
    /\ reap[r].pc # "idle"
    /\ reap' = [reap EXCEPT ![r] = NotReaping]
    /\ UNCHANGED <<upload, mp, parts, object, status, scanTask, call>>

-----------------------------------------------------------------------------
CallStep(c, a) ==
    \/ InitInsertAsset(c, a) \/ InitNewMultipart(c, a)
    \/ InitInsertUpload(c, a) \/ InitSetKey(c, a)
    \/ CompleteLoad(c, a) \/ CompleteList(c, a) \/ CompleteAssemble(c, a)
    \/ CompleteMarkUpload(c, a) \/ CompleteMarkAsset(c, a) \/ CompleteEnqueue(c, a)
    \/ AbortLoad(c, a) \/ AbortStorage(c, a) \/ AbortMark(c, a)

ClientNext ==
    \/ \E c \in Callers, a \in Assets : CallStep(c, a)
    \/ \E c \in Callers : Drop(c)
    \/ \E a \in Assets : Expire(a) \/ \E n \in AllParts : PutPart(a, n)

ReapExpired(r) ==
    \/ ReapSelectExpired(r)
    \/ \E a \in Assets : ReapAbort(r, a) \/ ReapMark(r, a)
    \/ ReapExpiredDone(r)

UploadNext ==
    \/ ClientNext
    \/ \E r \in Reapers : ReapExpired(r) \/ ReapNextPeriod(r) \/ ReapStop(r)

UploadSpec == UploadInit /\ [][UploadNext]_uploadVars

(* Every scheduler starts a job every five minutes and asynq runs it to    *)
(* its end unless it keeps failing: a row that is selected again and again *)
(* is at last marked.                                                      *)
UploadFairSpec ==
    /\ UploadSpec
    /\ \A r \in Reapers :
          /\ WF_uploadVars(ReapSelectExpired(r))
          /\ WF_uploadVars(ReapNextPeriod(r))
          /\ SF_uploadVars(ReapExpiredDone(r))
          /\ \A a \in Assets : /\ SF_uploadVars(ReapAbort(r, a))
                               /\ SF_uploadVars(ReapMark(r, a))

-----------------------------------------------------------------------------
(* Every column holds a value of its type, and the asynq record one of its *)
(* states (db/init.sql, assets and uploads).                               *)
UploadTypeOK ==
    /\ upload \in [Assets -> [row : BOOLEAN, key : BOOLEAN, expired : BOOLEAN,
                              completed : BOOLEAN, aborted : BOOLEAN]]
    /\ mp \in [Assets -> {"none", "open", "assembled", "aborted"}]
    /\ parts \in [Assets -> SUBSET AllParts]
    /\ object \in [Assets -> BOOLEAN]
    /\ status \in [Assets -> AssetStatus]
    /\ scanTask \in [Assets -> Task]
    /\ call \in [Callers -> Call]
    /\ reap \in [Reapers -> Reap]

(* An upload is marked completed, and its asset leaves awaiting_upload,    *)
(* only for an object assembled from every one of its parts, however       *)
(* completions, aborts, the maintenance job and PUTs interleave.           *)
CompletedIsWhole ==
    \A a \in Assets :
        upload[a].completed \/ status[a] \notin {"absent", "awaiting_upload"}
            => mp[a] = "assembled" /\ parts[a] = AllParts

(* Concurrent completions of one upload, and retries of it, set 'uploaded' *)
(* once: no request can still be about to write it when it is written, so  *)
(* it never overwrites what the workers recorded since.                    *)
UploadedOnce ==
    \A a \in Assets, c \in Callers :
        /\ call[c].asset = a
        /\ call[c].pc \in {"markUpload", "markAsset"}
        => /\ status[a] = "awaiting_upload"
           /\ scanTask[a] = NoTask
           /\ \A d \in Callers \ {c} :
                  ~(call[d].asset = a /\ call[d].pc \in Assembled)

(* The user's cancellation is definitive: only the maintenance job, which  *)
(* ignores the storage's refusal, can mark as aborted an upload whose      *)
(* object exists, and only once expired.                                   *)
AbortIsFinal ==
    \A a \in Assets : upload[a].aborted /\ mp[a] = "assembled" => upload[a].expired

(* An upload row nobody finished is closed after it expires, in whatever   *)
(* state its creation, its completion or its abort was interrupted.        *)
ExpiredIsClosed ==
    \A a \in Assets : upload[a].expired ~> (upload[a].completed \/ upload[a].aborted)

(* What the comment of handleCompleteUpload says of a retry (it returns    *)
(* the same as the first call): an upload with no request in progress that *)
(* answers "completed" has an asset that is on its way.                    *)
CompletedIsOnItsWay ==
    \A a \in Assets :
        /\ upload[a].completed
        /\ \A c \in Callers : call[c].asset # a
        => status[a] # "awaiting_upload"
=============================================================================
