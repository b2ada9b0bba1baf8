--------------------------- MODULE MediaPipeline ---------------------------
(***************************************************************************)
(* From an assembled object to deliverable material: the scan and          *)
(* transcode jobs of the workers (internal/tasks/scan.go, transcode.go),   *)
(* the steps of the maintenance job that republish them (reap.go, 2 to 4)  *)
(* and the deliveries of asynq they depend on, composed with the uploads   *)
(* of UploadSession that feed them.                                        *)
(*                                                                         *)
(* A job is a sequence of statements, one action each.  Faults come from   *)
(* the kinds in FaultKinds, at most MaxFaults of them:                     *)
(*   "crash" a worker dies in the middle of a job;                         *)
(*   "error" a statement, a storage call or an Enqueue fails;              *)
(*   "tool"  ffprobe or ffmpeg fails on a file it could have processed;    *)
(*   "loss"  Redis restarts and loses the queue.                           *)
(***************************************************************************)
EXTENDS UploadSession

CONSTANTS
    Workers,      \* concurrent executions of the worker processes
    Files,        \* the files users may upload
    Antimalware,  \* config.AntimalwareMode # "off"
    FaultKinds,
    MaxFaults     \* bound on the faults of a behaviour

FileAttributes == [av : BOOLEAN, checksumOk : BOOLEAN, mimeOk : BOOLEAN,
                   infected : BOOLEAN, transcodable : BOOLEAN]

ASSUME MediaAssumption ==
    /\ Files \subseteq FileAttributes
    /\ Antimalware \in BOOLEAN
    /\ FaultKinds \subseteq {"crash", "error", "tool", "loss"}
    /\ MaxFaults \in Nat

VARIABLES
    file,       \* the content the user uploads as each asset
    resource,   \* processing_status of the resource using the asset
    processed,  \* job keys of the asset in processed_jobs
    hlsTask,    \* asynq record of "hls:<asset>"
    derived,    \* are the HLS files of the asset in the bucket
    hlsPrefix,  \* is assets.hls_prefix set
    stale,      \* is updated_at older than the maintenance job's limit
    exec,       \* what each worker is executing
    faults      \* faults so far

mediaVars == <<file, resource, processed, hlsTask, derived, hlsPrefix, stale,
               exec, faults>>
vars == <<uploadVars, mediaVars>>

Jobs == {"scan", "hls"}
ScanPcs == {"claim", "read", "remove", "infect", "toProcessing", "toReady", "enqueueHls"}
HlsPcs  == {"download", "transcode", "uploadDir", "publish"}
BothPcs == {"check", "load", "failAsset", "failResources", "resourcesReady", "mark"}
DonePcs == {"ok", "err", "skipRetry"}

Exec == [job : Jobs, asset : Assets \cup {NoAsset},
         pc : {"idle"} \cup ScanPcs \cup HlsPcs \cup BothPcs \cup DonePcs]
NoExec == [job |-> "scan", asset |-> NoAsset, pc |-> "idle"]

ResourceStatus == {"absent", "not_applicable", "pending", "ready", "failed"}

(* The verdict of the three checks of HandleScanAsset.                     *)
Flagged(f) == Antimalware /\ f.infected
Clean(f) == f.checksumOk /\ f.mimeOk /\ ~Flagged(f)

Running(w, job, a, pc) == exec[w] = [job |-> job, asset |-> a, pc |-> pc]
Step(w, pc) == exec' = [exec EXCEPT ![w].pc = pc]
SetStatus(a, s) == /\ status' = [status EXCEPT ![a] = s]
                   /\ stale' = [stale EXCEPT ![a] = FALSE]

Fault(kind) == /\ kind \in FaultKinds
               /\ faults < MaxFaults
               /\ faults' = faults + 1

NoUpload == UNCHANGED <<upload, mp, parts, call, reap>>

MediaInit ==
    /\ file \in [Assets -> Files]
    /\ resource = [a \in Assets |-> "absent"]
    /\ processed = [a \in Assets |-> {}]
    /\ hlsTask = [a \in Assets |-> NoTask]
    /\ derived = [a \in Assets |-> FALSE]
    /\ hlsPrefix = [a \in Assets |-> FALSE]
    /\ stale = [a \in Assets |-> FALSE]
    /\ exec = [w \in Workers |-> NoExec]
    /\ faults = 0

Init == UploadInit /\ MediaInit

-----------------------------------------------------------------------------
(* handleCreateResource: of the asset only the owner is looked up, neither *)
(* its status nor what it holds.  The request names the type, and a video  *)
(* or audio (streamed) starts as 'pending' over any file: a document may   *)
(* have a pending resource, and a film one that is a mere download.        *)
AttachResource(a) ==
    /\ status[a] # "absent"
    /\ resource[a] = "absent"
    /\ \E streamed \in BOOLEAN :
          resource' = [resource EXCEPT ![a] = IF streamed THEN "pending"
                                                          ELSE "not_applicable"]
    /\ UNCHANGED <<uploadVars, file, processed, hlsTask, derived, hlsPrefix,
                   stale, exec, faults>>

(* UPDATE resources ... WHERE asset_id = $1 AND processing_status <>       *)
(* 'not_applicable', and the unconditional one of the failure paths.       *)
ResourcesReady(a) ==
    resource' = [resource EXCEPT
        ![a] = IF @ \in {"absent", "not_applicable"} THEN @ ELSE "ready"]
ResourcesFailed(a) ==
    resource' = [resource EXCEPT ![a] = IF @ = "absent" THEN @ ELSE "failed"]

-----------------------------------------------------------------------------
(* Delivery of the two jobs by asynq.                                      *)

StartScan(w, a) ==
    /\ exec[w] = NoExec
    /\ Deliverable(scanTask[a])
    /\ scanTask' = [scanTask EXCEPT ![a] = Deliver(@)]
    /\ exec' = [exec EXCEPT ![w] = [job |-> "scan", asset |-> a, pc |-> "check"]]
    /\ NoUpload
    /\ UNCHANGED <<object, status, file, resource, processed, hlsTask, derived,
                   hlsPrefix, stale, faults>>

StartTranscode(w, a) ==
    /\ exec[w] = NoExec
    /\ Deliverable(hlsTask[a])
    /\ hlsTask' = [hlsTask EXCEPT ![a] = Deliver(@)]
    /\ exec' = [exec EXCEPT ![w] = [job |-> "hls", asset |-> a, pc |-> "check"]]
    /\ UNCHANGED <<uploadVars, file, resource, processed, derived, hlsPrefix,
                   stale, faults>>

(* The handler returns: Done, Retry or Archive reach Redis.                *)
JobReturn(w, a) ==
    /\ exec[w].asset = a
    /\ exec[w].pc \in DonePcs
    /\ IF exec[w].job = "scan"
       THEN /\ scanTask' = [scanTask EXCEPT ![a] = Report(@, exec[w].pc)]
            /\ UNCHANGED hlsTask
       ELSE /\ hlsTask' = [hlsTask EXCEPT ![a] = Report(@, exec[w].pc)]
            /\ UNCHANGED scanTask
    /\ exec' = [exec EXCEPT ![w] = NoExec]
    /\ NoUpload
    /\ UNCHANGED <<object, status, file, resource, processed, derived, hlsPrefix,
                   stale, faults>>

Executing(job, a) == \E w \in Workers : exec[w].job = job /\ exec[w].asset = a

(* The recoverer retries a record that is active while no live worker      *)
(* extends its lease.                                                      *)
Recover(a) ==
    \/ /\ scanTask[a].st = "active"
       /\ ~Executing("scan", a)
       /\ scanTask' = [scanTask EXCEPT ![a] = Failed(@)]
       /\ NoUpload
       /\ UNCHANGED <<object, status, mediaVars>>
    \/ /\ hlsTask[a].st = "active"
       /\ ~Executing("hls", a)
       /\ hlsTask' = [hlsTask EXCEPT ![a] = Failed(@)]
       /\ UNCHANGED <<uploadVars, file, resource, processed, derived, hlsPrefix,
                      stale, exec, faults>>

Retention(a) ==
    \/ /\ scanTask[a].st = "completed"
       /\ scanTask' = [scanTask EXCEPT ![a] = RetentionOver(@)]
       /\ NoUpload
       /\ UNCHANGED <<object, status, mediaVars>>
    \/ /\ hlsTask[a].st = "completed"
       /\ hlsTask' = [hlsTask EXCEPT ![a] = RetentionOver(@)]
       /\ UNCHANGED <<uploadVars, file, resource, processed, derived, hlsPrefix,
                      stale, exec, faults>>

-----------------------------------------------------------------------------
(* Statements both handlers begin and end with.                            *)

(* alreadyProcessed.                                                       *)
Check(w, a) ==
    /\ exec[w].asset = a
    /\ exec[w].pc = "check"
    /\ Step(w, IF exec[w].job \in processed[a] THEN "ok" ELSE "load")
    /\ UNCHANGED <<uploadVars, file, resource, processed, hlsTask, derived,
                   hlsPrefix, stale, faults>>

(* failAsset and failTranscode.                                            *)
FailAsset(w, a) ==
    /\ exec[w].asset = a
    /\ exec[w].pc = "failAsset"
    /\ SetStatus(a, "failed")
    /\ Step(w, "failResources")
    /\ NoUpload
    /\ UNCHANGED <<object, scanTask, file, resource, processed, hlsTask, derived,
                   hlsPrefix, faults>>

FailResources(w, a) ==
    /\ exec[w].asset = a
    /\ exec[w].pc = "failResources"
    /\ ResourcesFailed(a)
    /\ Step(w, "mark")
    /\ UNCHANGED <<uploadVars, file, processed, hlsTask, derived, hlsPrefix,
                   stale, faults>>

MarkResourcesReady(w, a) ==
    /\ exec[w].asset = a
    /\ exec[w].pc = "resourcesReady"
    /\ ResourcesReady(a)
    /\ Step(w, "mark")
    /\ UNCHANGED <<uploadVars, file, processed, hlsTask, derived, hlsPrefix,
                   stale, faults>>

(* markProcessed only logs its error.  A clean video or audio then goes on *)
(* to publish its transcoding.                                             *)
AfterMark(w, a) == IF exec[w].job = "scan" /\ Clean(file[a]) /\ file[a].av
                   THEN "enqueueHls" ELSE "ok"

MarkProcessed(w, a) ==
    /\ exec[w].asset = a
    /\ exec[w].pc = "mark"
    /\ \/ /\ processed' = [processed EXCEPT ![a] = @ \cup {exec[w].job}]
          /\ UNCHANGED faults
       \/ /\ Fault("error")
          /\ UNCHANGED processed
    /\ Step(w, AfterMark(w, a))
    /\ UNCHANGED <<uploadVars, file, resource, hlsTask, derived, hlsPrefix, stale>>

CommonStep(w, a) ==
    \/ Check(w, a) \/ FailAsset(w, a) \/ FailResources(w, a)
    \/ MarkResourcesReady(w, a) \/ MarkProcessed(w, a) \/ JobReturn(w, a)

-----------------------------------------------------------------------------
(* HandleScanAsset, after Check.                                           *)

(* Only an 'uploaded' asset is scanned; in any other status another worker *)
(* is taken to have done it, and the job returns nil.                      *)
ScanLoad(w, a) ==
    /\ Running(w, "scan", a, "load")
    /\ Step(w, IF status[a] = "uploaded" THEN "claim" ELSE "ok")
    /\ UNCHANGED <<uploadVars, file, resource, processed, hlsTask, derived,
                   hlsPrefix, stale, faults>>

ScanClaim(w, a) ==
    /\ Running(w, "scan", a, "claim")
    /\ SetStatus(a, "scanning")
    /\ Step(w, "read")
    /\ NoUpload
    /\ UNCHANGED <<object, scanTask, file, resource, processed, hlsTask, derived,
                   hlsPrefix, faults>>

(* Mutated forms of Verdict: a video or audio goes to transcoding before   *)
(* the signature is looked at; an infected file is only reported.          *)
VerdictMediaFirst(f) ==
    CASE ~f.checksumOk -> "failAsset"
      [] f.checksumOk /\ f.av -> "toProcessing"
      [] f.checksumOk /\ ~f.av /\ Flagged(f) -> "remove"
      [] f.checksumOk /\ ~f.av /\ ~Flagged(f) /\ ~f.mimeOk -> "failAsset"
      [] Clean(f) /\ ~f.av -> "toReady"
VerdictKeepInfected(f) ==
    CASE ~f.checksumOk -> "failAsset"
      [] f.checksumOk /\ Flagged(f) -> "infect"
      [] f.checksumOk /\ ~Flagged(f) /\ ~f.mimeOk -> "failAsset"
      [] Clean(f) -> IF f.av THEN "toProcessing" ELSE "toReady"

(* The object is read once; its checksum is compared first, then the       *)
(* malware signature, then the MIME type.                                  *)
Verdict(f) == CASE ~f.checksumOk -> "failAsset"
                [] f.checksumOk /\ Flagged(f) -> "remove"
                [] f.checksumOk /\ ~Flagged(f) /\ ~f.mimeOk -> "failAsset"
                [] Clean(f) -> IF f.av THEN "toProcessing" ELSE "toReady"

ScanRead(w, a) ==
    /\ Running(w, "scan", a, "read")
    /\ Step(w, IF object[a] THEN Verdict(file[a]) ELSE "err")
    /\ UNCHANGED <<uploadVars, file, resource, processed, hlsTask, derived,
                   hlsPrefix, stale, faults>>

ScanRemove(w, a) ==
    /\ Running(w, "scan", a, "remove")
    /\ object' = [object EXCEPT ![a] = FALSE]
    /\ Step(w, "infect")
    /\ NoUpload
    /\ UNCHANGED <<status, scanTask, file, resource, processed, hlsTask, derived,
                   hlsPrefix, stale, faults>>

ScanInfect(w, a) ==
    /\ Running(w, "scan", a, "infect")
    /\ SetStatus(a, "infected")
    /\ Step(w, "mark")
    /\ NoUpload
    /\ UNCHANGED <<object, scanTask, file, resource, processed, hlsTask, derived,
                   hlsPrefix, faults>>

(* Mutated form of ScanToProcessing: the resources do not wait for the     *)
(* transcoding.                                                            *)
ScanToProcessingShown(w, a) ==
    /\ Running(w, "scan", a, "toProcessing")
    /\ SetStatus(a, "processing")
    /\ Step(w, "resourcesReady")
    /\ NoUpload
    /\ UNCHANGED <<object, scanTask, file, resource, processed, hlsTask, derived,
                   hlsPrefix, faults>>

ScanToProcessing(w, a) ==
    /\ Running(w, "scan", a, "toProcessing")
    /\ SetStatus(a, "processing")
    /\ Step(w, "mark")
    /\ NoUpload
    /\ UNCHANGED <<object, scanTask, file, resource, processed, hlsTask, derived,
                   hlsPrefix, faults>>

ScanToReady(w, a) ==
    /\ Running(w, "scan", a, "toReady")
    /\ SetStatus(a, "ready")
    /\ Step(w, "resourcesReady")
    /\ NoUpload
    /\ UNCHANGED <<object, scanTask, file, resource, processed, hlsTask, derived,
                   hlsPrefix, faults>>

ScanEnqueueHls(w, a) ==
    /\ Running(w, "scan", a, "enqueueHls")
    /\ hlsTask' = [hlsTask EXCEPT ![a] = Enqueue(@)]
    /\ Step(w, "ok")
    /\ UNCHANGED <<uploadVars, file, resource, processed, derived, hlsPrefix,
                   stale, faults>>

ScanStep(w, a) ==
    \/ StartScan(w, a) \/ ScanLoad(w, a) \/ ScanClaim(w, a) \/ ScanRead(w, a)
    \/ ScanRemove(w, a) \/ ScanInfect(w, a) \/ ScanToProcessing(w, a)
    \/ ScanToReady(w, a) \/ ScanEnqueueHls(w, a)

-----------------------------------------------------------------------------
(* HandleTranscode, after Check.                                           *)

HlsLoad(w, a) ==
    /\ Running(w, "hls", a, "load")
    /\ Step(w, CASE status[a] = "ready" -> "ok"
                 [] status[a] = "processing" -> "download"
                 [] status[a] \notin {"ready", "processing"} -> "skipRetry")
    /\ UNCHANGED <<uploadVars, file, resource, processed, hlsTask, derived,
                   hlsPrefix, stale, faults>>

HlsDownload(w, a) ==
    /\ Running(w, "hls", a, "download")
    /\ Step(w, IF object[a] THEN "transcode" ELSE "err")
    /\ UNCHANGED <<uploadVars, file, resource, processed, hlsTask, derived,
                   hlsPrefix, stale, faults>>

(* Mutated form of HlsTranscode: what ffmpeg could not process is published*)
(* without renditions.                                                     *)
HlsTranscodeAnyway(w, a) ==
    /\ Running(w, "hls", a, "transcode")
    /\ Step(w, IF file[a].transcodable THEN "uploadDir" ELSE "publish")
    /\ UNCHANGED <<uploadVars, file, resource, processed, hlsTask, derived,
                   hlsPrefix, stale, faults>>

(* probeMedia and the renditions, on the worker's own disk.                *)
HlsTranscode(w, a) ==
    /\ Running(w, "hls", a, "transcode")
    /\ \/ /\ file[a].transcodable
          /\ Step(w, "uploadDir")
          /\ UNCHANGED faults
       \/ /\ ~file[a].transcodable
          /\ Step(w, "failAsset")
          /\ UNCHANGED faults
       \/ /\ file[a].transcodable
          /\ Fault("tool")
          /\ Step(w, "failAsset")
    /\ UNCHANGED <<uploadVars, file, resource, processed, hlsTask, derived,
                   hlsPrefix, stale>>

HlsUploadDir(w, a) ==
    /\ Running(w, "hls", a, "uploadDir")
    /\ derived' = [derived EXCEPT ![a] = TRUE]
    /\ Step(w, "publish")
    /\ UNCHANGED <<uploadVars, file, resource, processed, hlsTask, hlsPrefix,
                   stale, faults>>

(* UPDATE assets SET status = 'ready', hls_prefix = $1, in one statement.  *)
HlsPublish(w, a) ==
    /\ Running(w, "hls", a, "publish")
    /\ SetStatus(a, "ready")
    /\ hlsPrefix' = [hlsPrefix EXCEPT ![a] = TRUE]
    /\ Step(w, "resourcesReady")
    /\ NoUpload
    /\ UNCHANGED <<object, scanTask, file, resource, processed, hlsTask, derived,
                   faults>>

HlsStep(w, a) ==
    \/ StartTranscode(w, a) \/ HlsLoad(w, a) \/ HlsDownload(w, a)
    \/ HlsTranscode(w, a) \/ HlsUploadDir(w, a) \/ HlsPublish(w, a)

-----------------------------------------------------------------------------
(* HandleReapStale, steps 2 to 4, after the expired uploads.               *)

(* updated_at falls behind the limit of the asset's status: ten minutes    *)
(* 'uploaded', thirty 'scanning', two hours 'processing'.  A scan is cut   *)
(* off after five minutes, so none still holds an asset that has been      *)
(* 'scanning' for thirty.                                                  *)
Age(a) ==
    /\ status[a] \in {"uploaded", "scanning", "processing"}
    /\ status[a] = "scanning" =>
          \A w \in Workers : exec[w].job = "scan" /\ exec[w].asset = a
                                => exec[w].pc \in {"check", "load"} \cup DonePcs
    /\ ~stale[a]
    /\ stale' = [stale EXCEPT ![a] = TRUE]
    /\ UNCHANGED <<uploadVars, file, resource, processed, hlsTask, derived,
                   hlsPrefix, exec, faults>>

Orphans(s) == {a \in Assets : status[a] = s /\ stale[a]}

ReapSelectScans(r) ==
    /\ reap[r].pc = "swept"
    /\ reap' = [reap EXCEPT ![r].pc = "scans", ![r].todo = Orphans("uploaded")]
    /\ UNCHANGED <<upload, mp, parts, object, status, scanTask, call, mediaVars>>

(* requeue only logs an Enqueue that fails.                                *)
ReapEnqueueScan(r, a) ==
    /\ reap[r].pc = "scans"
    /\ a \in reap[r].todo
    /\ \/ /\ scanTask' = [scanTask EXCEPT ![a] = Enqueue(@)]
          /\ UNCHANGED faults
       \/ /\ Fault("error")
          /\ UNCHANGED scanTask
    /\ reap' = [reap EXCEPT ![r].todo = @ \ {a}]
    /\ UNCHANGED <<upload, mp, parts, object, status, call, file, resource,
                   processed, hlsTask, derived, hlsPrefix, stale, exec>>

(* Mutated forms of ReapUnstick: 'processing' assets are sent back too;    *)
(* nothing is sent back.                                                   *)
ReapUnstickProcessing(r) ==
    /\ reap[r].pc = "scans"
    /\ reap[r].todo = {}
    /\ LET stuck == Orphans("scanning") \cup Orphans("processing") IN
       /\ status' = [a \in Assets |-> IF a \in stuck THEN "uploaded" ELSE status[a]]
       /\ stale' = [a \in Assets |-> stale[a] /\ a \notin stuck]
    /\ reap' = [reap EXCEPT ![r].pc = "unstuck"]
    /\ UNCHANGED <<upload, mp, parts, object, scanTask, call, file, resource,
                   processed, hlsTask, derived, hlsPrefix, exec, faults>>
ReapUnstickNothing(r) ==
    /\ reap[r].pc = "scans"
    /\ reap[r].todo = {}
    /\ reap' = [reap EXCEPT ![r].pc = "unstuck"]
    /\ UNCHANGED <<upload, mp, parts, object, status, scanTask, call, mediaVars>>

ReapUnstick(r) ==
    /\ reap[r].pc = "scans"
    /\ reap[r].todo = {}
    /\ status' = [a \in Assets |-> IF a \in Orphans("scanning") THEN "uploaded"
                                                                ELSE status[a]]
    /\ stale' = [a \in Assets |-> stale[a] /\ a \notin Orphans("scanning")]
    /\ reap' = [reap EXCEPT ![r].pc = "unstuck"]
    /\ UNCHANGED <<upload, mp, parts, object, scanTask, call, file, resource,
                   processed, hlsTask, derived, hlsPrefix, exec, faults>>

ReapSelectHls(r) ==
    /\ reap[r].pc = "unstuck"
    /\ reap' = [reap EXCEPT ![r].pc = "hls", ![r].todo = Orphans("processing")]
    /\ UNCHANGED <<upload, mp, parts, object, status, scanTask, call, mediaVars>>

ReapEnqueueHls(r, a) ==
    /\ reap[r].pc = "hls"
    /\ a \in reap[r].todo
    /\ \/ /\ hlsTask' = [hlsTask EXCEPT ![a] = Enqueue(@)]
          /\ UNCHANGED faults
       \/ /\ Fault("error")
          /\ UNCHANGED hlsTask
    /\ reap' = [reap EXCEPT ![r].todo = @ \ {a}]
    /\ UNCHANGED <<upload, mp, parts, object, status, scanTask, call, file,
                   resource, processed, derived, hlsPrefix, stale, exec>>

(* Steps 5 to 7 concern badges, attempts and sessions.                     *)
ReapDone(r) ==
    /\ reap[r].pc = "hls"
    /\ reap[r].todo = {}
    /\ reap' = [reap EXCEPT ![r].pc = "idle"]
    /\ UNCHANGED <<upload, mp, parts, object, status, scanTask, call, mediaVars>>

ReapMedia(r) ==
    \/ ReapSelectScans(r) \/ ReapUnstick(r) \/ ReapSelectHls(r) \/ ReapDone(r)
    \/ \E a \in Assets : ReapEnqueueScan(r, a) \/ ReapEnqueueHls(r, a)

(* A whole maintenance job, from its step 1.                               *)
ReapStep(r) == (ReapExpired(r) /\ UNCHANGED mediaVars) \/ ReapMedia(r)

-----------------------------------------------------------------------------
(* Faults.                                                                 *)

(* Any statement, storage call or Enqueue of a job may return an error,    *)
(* which the handler returns; MarkProcessed and HlsTranscode have their    *)
(* own.                                                                    *)
JobError(w) ==
    /\ exec[w].pc \notin {"idle", "mark", "transcode"} \cup DonePcs
    /\ Fault("error")
    /\ Step(w, "err")
    /\ UNCHANGED <<uploadVars, file, resource, processed, hlsTask, derived,
                   hlsPrefix, stale>>

WorkerCrash(w) ==
    /\ exec[w] # NoExec
    /\ Fault("crash")
    /\ exec' = [exec EXCEPT ![w] = NoExec]
    /\ UNCHANGED <<uploadVars, file, resource, processed, hlsTask, derived,
                   hlsPrefix, stale>>

ReapError(r) ==
    /\ reap[r].pc # "idle"
    /\ Fault("error")
    /\ reap' = [reap EXCEPT ![r] = NotReaping]
    /\ UNCHANGED <<upload, mp, parts, object, status, scanTask, call, file,
                   resource, processed, hlsTask, derived, hlsPrefix, stale, exec>>

RedisLoss ==
    /\ Fault("loss")
    /\ scanTask' = [a \in Assets |-> NoTask]
    /\ hlsTask' = [a \in Assets |-> NoTask]
    /\ NoUpload
    /\ UNCHANGED <<object, status, file, resource, processed, derived, hlsPrefix,
                   stale, exec>>

-----------------------------------------------------------------------------
JobStep(w, a) == CommonStep(w, a) \/ ScanStep(w, a) \/ HlsStep(w, a)

Next ==
    \/ ClientNext /\ UNCHANGED mediaVars
    \/ \E a \in Assets : AttachResource(a) \/ Age(a) \/ Recover(a) \/ Retention(a)
    \/ \E w \in Workers, a \in Assets : JobStep(w, a)
    \/ \E r \in Reapers : ReapStep(r) \/ ReapError(r)
    \/ \E w \in Workers : JobError(w) \/ WorkerCrash(w)
    \/ RedisLoss

Spec == Init /\ [][Next]_vars

(* asynq keeps delivering and recovering, time passes, a worker that runs  *)
(* goes on, and the schedulers keep starting maintenance jobs.  Nothing *)
(* is assumed of the users or of the faults.                               *)
FairSpec ==
    /\ Spec
    /\ \A a \in Assets :
          /\ WF_vars(\E w \in Workers : StartScan(w, a))
          /\ WF_vars(\E w \in Workers : StartTranscode(w, a))
          /\ WF_vars(Age(a))
          /\ WF_vars(Recover(a))
          /\ WF_vars(Retention(a))
    /\ \A w \in Workers : WF_vars(exec[w] # NoExec /\ \E a \in Assets : JobStep(w, a))
    /\ \A r \in Reapers : WF_vars(ReapStep(r))

-----------------------------------------------------------------------------
TypeOK ==
    /\ UploadTypeOK
    /\ file \in [Assets -> Files]
    /\ resource \in [Assets -> ResourceStatus]
    /\ processed \in [Assets -> SUBSET Jobs]
    /\ hlsTask \in [Assets -> Task]
    /\ derived \in [Assets -> BOOLEAN]
    /\ hlsPrefix \in [Assets -> BOOLEAN]
    /\ stale \in [Assets -> BOOLEAN]
    /\ exec \in [Workers -> Exec]
    /\ faults \in 0 .. MaxFaults

(* handleAssetDeliveryURL signs the original of a ready asset;             *)
(* handleHLSPlaylist looks at hls_prefix only.                             *)
Downloadable(a) == status[a] = "ready"
Playable(a) == hlsPrefix[a]

(* Whatever the queue redelivers, workers repeat or crash in the middle of *)
(* and requests retry, only an asset whose very content passed the three   *)
(* checks is ever handed to a student.                                     *)
ServedIsClean == \A a \in Assets : Downloadable(a) \/ Playable(a) => Clean(file[a])

(* A ready asset can be delivered: its original is in the bucket, and a    *)
(* video or audio has its playlist, whose segments are all there.          *)
ReadyIsComplete ==
    \A a \in Assets :
        /\ Downloadable(a) => object[a]
        /\ Downloadable(a) /\ file[a].av => Playable(a)
        /\ Playable(a) => derived[a]

(* The original is deleted only as infected, and before it is reported so; *)
(* anything else the workers reject stays in the bucket.                   *)
InfectedIsRemoved ==
    \A a \in Assets :
        /\ status[a] = "infected" => ~object[a]
        /\ mp[a] = "assembled" /\ ~object[a] => Flagged(file[a])

(* With the records in Redis, a scan is recorded as processed only once    *)
(* its verdict is: skipping its redelivery loses nothing.                  *)
ScanProcessedIsDecided ==
    "loss" \notin FaultKinds =>
        \A a \in Assets : "scan" \in processed[a] =>
            status[a] \in {"infected", "processing", "ready", "failed"}

(* Without losses in Redis, a resource is shown as ready only for an asset *)
(* that can be delivered, and stays so.                                    *)
ReadyResourceIsServed ==
    "loss" \notin FaultKinds =>
        \A a \in Assets : resource[a] = "ready" => Downloadable(a)

(* An asset whose original survives the scan does not stay half way: as    *)
(* often as workers die or jobs fail, it ends up delivered or rejected; or *)
(* one of its jobs used up its retries and stays in the archive, whose     *)
(* record keeps the TaskID, so that publishing it again does nothing       *)
(* (queue.go, Enqueue).                                                    *)
Settled == {"infected", "ready", "failed"}
SurvivorsSettle ==
    \A a \in Assets :
        (status[a] = "uploaded" /\ Verdict(file[a]) # "remove")
            ~> \/ status[a] \in Settled
               \/ [](scanTask[a].st = "archived" \/ hlsTask[a].st = "archived")
=============================================================================
