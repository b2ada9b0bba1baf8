------------------------ MODULE MediaPipelineProofs ------------------------
(***************************************************************************)
(* Theorems of MediaPipeline, for every set of assets, requests, workers   *)
(* and files, any mixture of faults and any bound on them.  The steps of   *)
(* the uploads are those of UploadSession, and its lemmas are used for     *)
(* them; what is proved here is what the jobs, the maintenance job and the *)
(* faults add.                                                             *)
(***************************************************************************)
EXTENDS MediaPipeline, UploadSessionProofs

(* The rows, records and workers that MediaPipeline adds.                  *)
MediaTypeOK ==
    /\ file \in [Assets -> Files]
    /\ resource \in [Assets -> ResourceStatus]
    /\ processed \in [Assets -> SUBSET Jobs]
    /\ hlsTask \in [Assets -> Task]
    /\ derived \in [Assets -> BOOLEAN]
    /\ hlsPrefix \in [Assets -> BOOLEAN]
    /\ stale \in [Assets -> BOOLEAN]
    /\ exec \in [Workers -> Exec]
    /\ faults \in 0 .. MaxFaults

(* The upload is over: from here on the status is the workers'.  Only then *)
(* does a job of the asset exist, in Redis, in a worker or in the lists of *)
(* a maintenance job.                                                      *)
Delivered(a) == status[a] \notin {"absent", "awaiting_upload"}

Listed(a) == \E r \in Reapers : reap[r].pc \in {"scans", "hls"} /\ a \in reap[r].todo

OnlyDelivered(a) ==
    /\ scanTask[a].st # "none" \/ hlsTask[a].st # "none" => Delivered(a)
    /\ \A c \in Callers : At(c, a, "enqueue") => Delivered(a)
    /\ \A w \in Workers : exec[w].asset = a => Delivered(a)
    /\ Listed(a) => Delivered(a)

(* What a worker that stands at a statement knows of the content.          *)
Transcoding == {"download", "transcode", "uploadDir", "publish"}
PcMeans(pc, a) ==
    /\ pc \in Transcoding \cup {"toProcessing"} => Clean(file[a]) /\ file[a].av
    /\ pc = "toReady" => Clean(file[a]) /\ ~file[a].av
    /\ pc \in {"remove", "infect"} => Flagged(file[a])
    /\ pc = "infect" => ~object[a]
    /\ pc = "publish" => derived[a]

(* What the row of the asset and the bucket say of the content.            *)
RowMeans(a) ==
    /\ status[a] \in {"processing", "ready"} => Clean(file[a])
    /\ status[a] = "processing" => file[a].av
    /\ status[a] = "ready" /\ file[a].av => hlsPrefix[a]
    /\ hlsPrefix[a] => Clean(file[a]) /\ derived[a]
    /\ status[a] = "infected" => ~object[a]
    /\ mp[a] = "assembled" /\ ~object[a] => Flagged(file[a])

MediaInv ==
    /\ UploadInv
    /\ MediaTypeOK
    /\ \A a \in Assets : OnlyDelivered(a) /\ RowMeans(a)
    /\ \A w \in Workers, a \in Assets : exec[w].asset = a => PcMeans(exec[w].pc, a)

-----------------------------------------------------------------------------
(* The asynq record stays one, and comes into being only by publication.   *)
LEMMA DeliverTyped == ASSUME NEW t \in Task, Deliverable(t)
                      PROVE  /\ Deliver(t) \in Task
                             /\ t.st \notin {"none", "active"}
                             /\ Deliver(t).st = "active"
  BY DEF Deliver, Deliverable, Task, TaskStates

LEMMA FailedTyped == ASSUME NEW t \in Task
                     PROVE  Failed(t) \in Task /\ Failed(t).st \notin {"none", "active"}
  BY MaxRetriesAssumption DEF Failed, Task, TaskStates

LEMMA ReportTyped ==
    ASSUME NEW t \in Task, NEW o \in DonePcs
    PROVE  Report(t, o) \in Task /\ (t.st = "none" => Report(t, o).st = "none")
  <1>1. CASE t.st # "active"
    BY <1>1 DEF Report
  <1>2. CASE t.st = "active" /\ o = "ok"
    BY <1>2 DEF Report, Task, TaskStates
  <1>3. CASE t.st = "active" /\ o = "skipRetry"
    BY <1>3 DEF Report, Task, TaskStates
  <1>4. CASE t.st = "active" /\ o = "err"
    BY <1>4, FailedTyped DEF Report
  <1> QED BY <1>1, <1>2, <1>3, <1>4 DEF DonePcs

LEMMA RetentionTyped == ASSUME NEW t \in Task
                        PROVE  /\ RetentionOver(t) \in Task
                               /\ t.st = "none" => RetentionOver(t).st = "none"
  BY NoTaskType DEF RetentionOver

LEMMA EnqueueKeeps == ASSUME NEW t \in Task
                      PROVE  Enqueue(t) \in Task /\ (Enqueue(t).st = "active" <=> t.st = "active")
  BY EnqueueType DEF Enqueue

Pcs == {"idle"} \cup ScanPcs \cup HlsPcs \cup BothPcs \cup DonePcs

LEMMA NoExecTyped == NoExec \in Exec /\ NoExec.asset = NoAsset /\ NoExec.pc = "idle"
  BY DEF NoExec, Exec, Jobs

LEMMA FaultTyped == ASSUME NEW kind, Fault(kind), faults \in 0 .. MaxFaults
                    PROVE  faults' \in 0 .. MaxFaults
  BY MediaAssumption DEF Fault

(* How a worker's record changes.                                          *)
LEMMA StepTyped ==
    ASSUME exec \in [Workers -> Exec], NEW w \in Workers, NEW pc \in Pcs, Step(w, pc)
    PROVE  \E x \in Exec : /\ exec' = [exec EXCEPT ![w] = x]
                           /\ x.pc = pc /\ x.asset = exec[w].asset /\ x.job = exec[w].job
  <1>1. [exec[w] EXCEPT !.pc = pc] \in Exec
    BY DEF Exec, Pcs
  <1>2. exec' = [exec EXCEPT ![w] = [exec[w] EXCEPT !.pc = pc]]
    BY DEF Step, Exec
  <1> QED BY <1>1, <1>2 DEF Exec

-----------------------------------------------------------------------------
(* Whatever the jobs do with a delivered asset, what the requests rely on  *)
(* stays: none is about to write its status any more.                      *)
LEMMA JobsKeepUpload ==
    ASSUME UploadInv, UploadTypeOK', UNCHANGED <<upload, mp, parts, call>>,
           \A a \in Assets : status'[a] # status[a] => Delivered(a) /\ Delivered(a)',
           \A a \in Assets : scanTask'[a] \in {scanTask[a], NoTask} \/ Delivered(a)
    PROVE  UploadInv'
  <1>1. ASSUME NEW a \in Assets PROVE AssembledIsWhole(a)'
    <2>1. AssembledIsWhole(a)
      BY DEF UploadInv
    <2>2. Delivered(a) => mp[a] = "assembled"
      BY <2>1 DEF AssembledIsWhole, Delivered
    <2>3. mp[a] # "assembled" => status'[a] = status[a] /\ scanTask'[a] \in {scanTask[a], NoTask}
      BY <2>2
    <2>4. status'[a] = "absent" => mp[a] = "none"
      BY <2>1 DEF AssembledIsWhole, Delivered
    <2> QED BY <2>1, <2>3, <2>4 DEF AssembledIsWhole
  <1>2. ASSUME NEW c \in Callers, NEW a \in Assets PROVE RequestKnows(c, a)'
    BY DEF UploadInv, RequestKnows, At, Delivered
  <1>3. ASSUME NEW c \in Callers, NEW a \in Assets PROVE MarkingAlone(c, a)'
    <2>1. MarkingAlone(c, a)
      BY DEF UploadInv
    <2>2. Marking(c, a) => ~Delivered(a)
      BY <2>1 DEF MarkingAlone, Delivered
    <2> QED BY <2>1, <2>2 DEF MarkingAlone, Marking
  <1>4. \A c, d \in Callers, a \in Assets : NewMultipartAlone(c, d, a)'
    BY DEF UploadInv, NewMultipartAlone, At
  <1> QED BY <1>1, <1>2, <1>3, <1>4 DEF UploadInv

(* A statement of a worker: it moves the worker and touches only the rows  *)
(* of its asset, which is delivered; it never brings an original back nor  *)
(* takes renditions away.                                                  *)
TouchesOnly(a) ==
    /\ UNCHANGED <<upload, mp, parts, call, reap, file>>
    /\ \A b \in Assets \ {a} : /\ status'[b] = status[b] /\ object'[b] = object[b]
                               /\ derived'[b] = derived[b] /\ hlsPrefix'[b] = hlsPrefix[b]
    /\ \A b \in Assets : scanTask'[b] # scanTask[b] \/ hlsTask'[b] # hlsTask[b] => Delivered(b)
    /\ object'[a] => object[a]
    /\ derived[a] => derived'[a]

LEMMA WorkerMoves ==
    ASSUME MediaInv, NEW w \in Workers, NEW a \in Assets,
           TouchesOnly(a), Delivered(a), Delivered(a)', UploadTypeOK', MediaTypeOK',
           NEW x \in Exec, exec' = [exec EXCEPT ![w] = x], x.asset \in {a, NoAsset},
           PcMeans(x.pc, a)', RowMeans(a)'
    PROVE  MediaInv'
  <1>t. MediaTypeOK /\ UploadTypeOK /\ UploadInv
    BY DEF MediaInv, UploadInv
  <1>1. UploadInv'
    BY <1>t, JobsKeepUpload DEF TouchesOnly
  <1>2. ASSUME NEW b \in Assets PROVE Delivered(b) => Delivered(b)'
    BY <1>2 DEF TouchesOnly, Delivered
  <1>3. ASSUME NEW b \in Assets PROVE OnlyDelivered(b)'
    <2>1. OnlyDelivered(b)
      BY DEF MediaInv
    <2>2. \A v \in Workers : exec'[v].asset = b => Delivered(b)
      BY <1>t, <2>1, UploadAssumption DEF OnlyDelivered, MediaTypeOK
    <2>3. scanTask'[b].st # "none" \/ hlsTask'[b].st # "none" => Delivered(b)
      BY <2>1 DEF OnlyDelivered, TouchesOnly
    <2> QED BY <1>2, <2>1, <2>2, <2>3 DEF OnlyDelivered, Listed, TouchesOnly, At
  <1>4. ASSUME NEW b \in Assets PROVE RowMeans(b)'
    <2>1. CASE b # a
      BY <2>1 DEF MediaInv, RowMeans, TouchesOnly
    <2> QED BY <2>1
  <1>5. ASSUME NEW v \in Workers, NEW b \in Assets, exec'[v].asset = b
        PROVE  PcMeans(exec[v].pc, b)'
    <2>1. CASE v = w
      <3>1. exec'[v] = x /\ b = a
        BY <1>t, <1>5, <2>1, UploadAssumption DEF MediaTypeOK
      <3> QED BY <3>1
    <2>2. CASE v # w
      <3>1. exec'[v] = exec[v] /\ PcMeans(exec[v].pc, b)
        BY <1>t, <1>5, <2>2 DEF MediaTypeOK, MediaInv
      <3>2. (object'[b] => object[b]) /\ (derived[b] => derived'[b]) /\ file' = file
        BY DEF TouchesOnly
      <3> QED BY <3>1, <3>2 DEF PcMeans
    <2> QED BY <2>1, <2>2
  <1> QED BY <1>1, <1>3, <1>4, <1>5 DEF MediaInv

-----------------------------------------------------------------------------
(* What the common statements, which write at most the worker, the         *)
(* resource, processed_jobs and the asynq record, have to show.            *)
LEMMA SameRows ==
    ASSUME MediaInv, NEW w \in Workers, NEW a \in Assets, exec[w].asset = a,
           UNCHANGED <<upload, mp, parts, call, reap, object, status, file, derived,
                       hlsPrefix, stale>>,
           scanTask' \in [Assets -> Task], hlsTask' \in [Assets -> Task],
           resource' \in [Assets -> ResourceStatus],
           processed' \in [Assets -> SUBSET Jobs], faults' \in 0 .. MaxFaults,
           \A b \in Assets : b # a => scanTask'[b] = scanTask[b] /\ hlsTask'[b] = hlsTask[b],
           NEW x \in Exec, exec' = [exec EXCEPT ![w] = x], x.asset \in {a, NoAsset},
           PcMeans(x.pc, a)
    PROVE  MediaInv'
  <1>t. UploadTypeOK /\ MediaTypeOK /\ OnlyDelivered(a) /\ RowMeans(a)
    BY DEF MediaInv, UploadInv
  <1>1. Delivered(a) /\ Delivered(a)'
    BY <1>t DEF OnlyDelivered, Delivered
  <1>2. UploadTypeOK' /\ MediaTypeOK'
    BY <1>t DEF UploadTypeOK, MediaTypeOK
  <1>3. TouchesOnly(a)
    BY <1>1 DEF TouchesOnly
  <1>4. PcMeans(x.pc, a)' /\ RowMeans(a)'
    BY <1>t DEF PcMeans, RowMeans
  <1> QED BY <1>1, <1>2, <1>3, <1>4, WorkerMoves

(* Statements at which nothing is known of the content.                    *)
LEMMA NothingMeant ==
    ASSUME NEW a, NEW pc \in {"idle", "claim", "read", "enqueueHls", "check", "load",
                       "failAsset", "failResources", "resourcesReady", "mark"} \cup DonePcs
    PROVE  PcMeans(pc, a)
  BY DEF PcMeans, Transcoding, DonePcs

LEMMA CommonMedia ==
    ASSUME MediaInv, NEW w \in Workers, NEW a \in Assets,
           Check(w, a) \/ FailResources(w, a) \/ MarkResourcesReady(w, a)
               \/ MarkProcessed(w, a) \/ JobReturn(w, a)
    PROVE  MediaInv'
  <1>t. /\ UploadTypeOK /\ MediaTypeOK
        /\ exec \in [Workers -> Exec] /\ exec[w] \in Exec
    BY DEF MediaInv, UploadInv, MediaTypeOK
  <1>a. exec[w].asset = a
    BY DEF Check, FailResources, MarkResourcesReady, MarkProcessed, JobReturn
  <1>1. PICK x \in Exec : /\ exec' = [exec EXCEPT ![w] = x] /\ x.asset \in {a, NoAsset}
                          /\ x.pc \in {"load", "mark", "enqueueHls", "ok", "idle"}
    <2>1. CASE JobReturn(w, a)
      BY <2>1, NoExecTyped DEF JobReturn
    <2>2. CASE ~JobReturn(w, a)
      <3>1. PICK pc \in {"load", "mark", "enqueueHls", "ok"} : Step(w, pc)
        BY <2>2 DEF Check, FailResources, MarkResourcesReady, MarkProcessed, AfterMark
      <3>2. pc \in Pcs
        BY DEF Pcs, ScanPcs, BothPcs, DonePcs
      <3> QED BY <1>t, <1>a, <3>1, <3>2, StepTyped
    <2> QED BY <2>1, <2>2
  <1>2. PcMeans(x.pc, a)
    BY <1>1, NothingMeant DEF DonePcs
  <1>3. UNCHANGED <<upload, mp, parts, call, reap, object, status, file, derived,
                    hlsPrefix, stale>>
    BY DEF Check, FailResources, MarkResourcesReady, MarkProcessed, JobReturn, NoUpload,
           uploadVars
  <1>4. /\ scanTask' \in [Assets -> Task] /\ hlsTask' \in [Assets -> Task]
        /\ \A b \in Assets : b # a => scanTask'[b] = scanTask[b] /\ hlsTask'[b] = hlsTask[b]
    <2>1. CASE JobReturn(w, a)
      <3>1. scanTask[a] \in Task /\ hlsTask[a] \in Task
        BY <1>t DEF UploadTypeOK, MediaTypeOK
      <3>2. Report(scanTask[a], exec[w].pc) \in Task /\ Report(hlsTask[a], exec[w].pc) \in Task
        BY <2>1, <3>1, ReportTyped DEF JobReturn
      <3> QED BY <1>t, <2>1, <3>2 DEF JobReturn, UploadTypeOK, MediaTypeOK
    <2>2. CASE ~JobReturn(w, a)
      <3>1. UNCHANGED <<scanTask, hlsTask>>
        BY <2>2 DEF Check, FailResources, MarkResourcesReady, MarkProcessed, uploadVars
      <3> QED BY <1>t, <3>1 DEF UploadTypeOK, MediaTypeOK
    <2> QED BY <2>1, <2>2
  <1>5. resource' \in [Assets -> ResourceStatus]
    BY <1>t DEF Check, FailResources, MarkResourcesReady, MarkProcessed, JobReturn,
           ResourcesFailed, ResourcesReady, MediaTypeOK, ResourceStatus
  <1>6. processed' \in [Assets -> SUBSET Jobs]
    BY <1>t DEF Check, FailResources, MarkResourcesReady, MarkProcessed, JobReturn,
           MediaTypeOK, Exec
  <1>7. faults' \in 0 .. MaxFaults
    <2>1. faults' = faults \/ Fault("error")
      BY DEF Check, FailResources, MarkResourcesReady, MarkProcessed, JobReturn
    <2> QED BY <1>t, <2>1, FaultTyped DEF MediaTypeOK
  <1> QED BY <1>a, <1>1, <1>2, <1>3, <1>4, <1>5, <1>6, <1>7, SameRows

(* The statements of the two jobs that only read.                          *)
LEMMA ReadMedia ==
    ASSUME MediaInv, NEW w \in Workers, NEW a \in Assets,
           ScanLoad(w, a) \/ ScanRead(w, a) \/ HlsLoad(w, a) \/ HlsDownload(w, a)
               \/ HlsTranscode(w, a)
    PROVE  MediaInv'
  <1>t. /\ UploadTypeOK /\ MediaTypeOK /\ RowMeans(a)
        /\ exec \in [Workers -> Exec] /\ exec[w] \in Exec
    BY DEF MediaInv, UploadInv, MediaTypeOK
  <1>a. exec[w].asset = a
    BY DEF ScanLoad, ScanRead, HlsLoad, HlsDownload, HlsTranscode, Running
  <1>m. PcMeans(exec[w].pc, a)
    BY <1>a DEF MediaInv
  <1>1. \E pc \in Pcs : Step(w, pc) /\ PcMeans(pc, a)
    <2>1. CASE ScanLoad(w, a)
      <3>1. PICK pc \in {"claim", "ok"} : Step(w, pc)
        BY <2>1 DEF ScanLoad
      <3>2. pc \in Pcs /\ PcMeans(pc, a)
        BY NothingMeant DEF DonePcs, ScanPcs, Pcs
      <3> QED BY <3>1, <3>2
    <2>2. CASE ScanRead(w, a)
      <3>1. CASE object[a]
        <4>1. Step(w, Verdict(file[a]))
          BY <2>2, <3>1 DEF ScanRead
        <4>2. file[a].checksumOk \in BOOLEAN /\ file[a].mimeOk \in BOOLEAN
              /\ file[a].infected \in BOOLEAN /\ file[a].av \in BOOLEAN
          BY <1>t, MediaAssumption DEF MediaTypeOK, FileAttributes
        <4>3. /\ Verdict(file[a]) \in {"failAsset", "remove", "toProcessing", "toReady"}
              /\ Verdict(file[a]) = "remove" => Flagged(file[a])
              /\ Verdict(file[a]) = "toProcessing" => Clean(file[a]) /\ file[a].av
              /\ Verdict(file[a]) = "toReady" => Clean(file[a]) /\ ~file[a].av
          BY <4>2 DEF Verdict, Clean, Flagged
        <4>4. Verdict(file[a]) \in Pcs /\ PcMeans(Verdict(file[a]), a)
          BY <4>3 DEF Pcs, ScanPcs, BothPcs, PcMeans, Transcoding
        <4> QED BY <4>1, <4>4
      <3>2. CASE ~object[a]
        <4>1. Step(w, "err")
          BY <2>2, <3>2 DEF ScanRead
        <4>2. "err" \in Pcs /\ PcMeans("err", a)
          BY NothingMeant DEF DonePcs, Pcs
        <4> QED BY <4>1, <4>2
      <3> QED BY <3>1, <3>2
    <2>3. CASE HlsLoad(w, a)
      <3>1. /\ status[a] = "ready" => Step(w, "ok")
            /\ status[a] = "processing" => Step(w, "download")
            /\ status[a] \notin {"ready", "processing"} => Step(w, "skipRetry")
        BY <2>3 DEF HlsLoad
      <3>2. {"ok", "download", "skipRetry"} \subseteq Pcs
        BY DEF Pcs, HlsPcs, DonePcs
      <3>3. PcMeans("ok", a) /\ PcMeans("skipRetry", a)
        BY NothingMeant DEF DonePcs
      <3>4. status[a] = "processing" => PcMeans("download", a)
        BY <1>t DEF RowMeans, PcMeans
      <3> QED BY <3>1, <3>2, <3>3, <3>4
    <2>4. CASE HlsDownload(w, a)
      <3>1. Step(w, "transcode") \/ Step(w, "err")
        BY <2>4 DEF HlsDownload
      <3>2. {"transcode", "err"} \subseteq Pcs
        BY DEF Pcs, HlsPcs, DonePcs
      <3>3. PcMeans("err", a)
        BY NothingMeant DEF DonePcs
      <3>4. PcMeans("transcode", a)
        BY <1>m, <2>4 DEF HlsDownload, Running, PcMeans, Transcoding
      <3> QED BY <3>1, <3>2, <3>3, <3>4
    <2>5. CASE HlsTranscode(w, a)
      <3>1. Step(w, "uploadDir") \/ Step(w, "failAsset")
        BY <2>5 DEF HlsTranscode
      <3>2. {"uploadDir", "failAsset"} \subseteq Pcs
        BY DEF Pcs, HlsPcs, BothPcs
      <3>3. PcMeans("failAsset", a)
        BY NothingMeant
      <3>4. PcMeans("uploadDir", a)
        BY <1>m, <2>5 DEF HlsTranscode, Running, PcMeans, Transcoding
      <3> QED BY <3>1, <3>2, <3>3, <3>4
    <2> QED BY <2>1, <2>2, <2>3, <2>4, <2>5
  <1>2. PICK x \in Exec : /\ exec' = [exec EXCEPT ![w] = x] /\ x.asset = a
                          /\ PcMeans(x.pc, a)
    BY <1>t, <1>a, <1>1, StepTyped
  <1>3. UNCHANGED <<upload, mp, parts, call, reap, object, status, scanTask, file,
                    resource, processed, hlsTask, derived, hlsPrefix, stale>>
    BY DEF ScanLoad, ScanRead, HlsLoad, HlsDownload, HlsTranscode, uploadVars
  <1>4. faults' \in 0 .. MaxFaults
    <2>1. faults' = faults \/ Fault("tool")
      BY DEF ScanLoad, ScanRead, HlsLoad, HlsDownload, HlsTranscode
    <2> QED BY <1>t, <2>1, FaultTyped DEF MediaTypeOK
  <1>5. /\ scanTask \in [Assets -> Task] /\ hlsTask \in [Assets -> Task]
        /\ resource \in [Assets -> ResourceStatus] /\ processed \in [Assets -> SUBSET Jobs]
    BY <1>t DEF UploadTypeOK, MediaTypeOK
  <1> QED BY <1>a, <1>2, <1>3, <1>4, <1>5, SameRows

-----------------------------------------------------------------------------
(* A statement that writes the status of the asset, and perhaps its        *)
(* hls_prefix with it.                                                     *)
LEMMA StatusWritten ==
    ASSUME MediaInv, NEW w \in Workers, NEW a \in Assets, exec[w].asset = a,
           NEW s \in AssetStatus \ {"absent", "awaiting_upload"}, SetStatus(a, s),
           NEW pc \in Pcs, Step(w, pc), NoUpload,
           UNCHANGED <<object, scanTask, file, resource, processed, hlsTask, derived,
                       faults>>,
           hlsPrefix' \in [Assets -> BOOLEAN],
           \A b \in Assets : b # a => hlsPrefix'[b] = hlsPrefix[b],
           PcMeans(pc, a), RowMeans(a)'
    PROVE  MediaInv'
  <1>t. /\ UploadTypeOK /\ MediaTypeOK /\ OnlyDelivered(a)
        /\ exec \in [Workers -> Exec] /\ exec[w] \in Exec
    BY DEF MediaInv, UploadInv, MediaTypeOK
  <1>1. PICK x \in Exec : /\ exec' = [exec EXCEPT ![w] = x] /\ x.asset = a
                          /\ x.pc = pc
    BY <1>t, StepTyped
  <1>2. Delivered(a)
    BY <1>t DEF OnlyDelivered
  <1>3. /\ status' \in [Assets -> AssetStatus] /\ status'[a] = s
        /\ \A b \in Assets : b # a => status'[b] = status[b]
        /\ stale' \in [Assets -> BOOLEAN]
    BY <1>t DEF SetStatus, UploadTypeOK, MediaTypeOK
  <1>4. Delivered(a)'
    BY <1>3 DEF Delivered
  <1>5. UploadTypeOK' /\ MediaTypeOK'
    BY <1>t, <1>1, <1>3 DEF UploadTypeOK, MediaTypeOK, NoUpload
  <1>6. TouchesOnly(a)
    BY <1>3 DEF TouchesOnly, NoUpload
  <1>7. PcMeans(x.pc, a)'
    BY <1>1 DEF PcMeans
  <1> QED BY <1>1, <1>2, <1>4, <1>5, <1>6, <1>7, WorkerMoves

LEMMA StatusMedia ==
    ASSUME MediaInv, NEW w \in Workers, NEW a \in Assets,
           FailAsset(w, a) \/ ScanClaim(w, a) \/ ScanInfect(w, a)
               \/ ScanToProcessing(w, a) \/ ScanToReady(w, a) \/ HlsPublish(w, a)
    PROVE  MediaInv'
  <1>t. MediaTypeOK /\ UploadTypeOK /\ RowMeans(a)
    BY DEF MediaInv, UploadInv
  <1>a. exec[w].asset = a
    BY DEF FailAsset, ScanClaim, ScanInfect, ScanToProcessing, ScanToReady, HlsPublish,
           Running
  <1>m. PcMeans(exec[w].pc, a)
    BY <1>a DEF MediaInv
  <1>f. /\ NoUpload
        /\ UNCHANGED <<object, scanTask, file, resource, processed, hlsTask, derived, faults>>
    BY DEF FailAsset, ScanClaim, ScanInfect, ScanToProcessing, ScanToReady, HlsPublish
  <1>1. /\ hlsPrefix' \in [Assets -> BOOLEAN]
        /\ \A b \in Assets : b # a => hlsPrefix'[b] = hlsPrefix[b]
        /\ ~HlsPublish(w, a) => hlsPrefix'[a] = hlsPrefix[a]
        /\ HlsPublish(w, a) => hlsPrefix'[a]
    BY <1>t DEF FailAsset, ScanClaim, ScanInfect, ScanToProcessing, ScanToReady, HlsPublish,
           MediaTypeOK
  <1>2. PICK pc \in {"read", "mark", "failResources", "resourcesReady"} : Step(w, pc)
    BY DEF FailAsset, ScanClaim, ScanInfect, ScanToProcessing, ScanToReady, HlsPublish
  <1>3. pc \in Pcs /\ PcMeans(pc, a)
    BY NothingMeant DEF Pcs, ScanPcs, BothPcs
  <1>4. PICK s \in AssetStatus \ {"absent", "awaiting_upload"} :
           /\ SetStatus(a, s)
           /\ s = "processing" => exec[w].pc = "toProcessing"
           /\ s = "ready" => exec[w].pc \in {"toReady", "publish"}
           /\ s = "infected" => exec[w].pc = "infect"
           /\ HlsPublish(w, a) => s = "ready" /\ exec[w].pc = "publish"
           /\ exec[w].pc = "publish" => HlsPublish(w, a)
    <2>1. CASE FailAsset(w, a)
      <3>1. SetStatus(a, "failed") /\ exec[w].pc = "failAsset"
        BY <2>1 DEF FailAsset
      <3>2. ~HlsPublish(w, a)
        BY <3>1 DEF HlsPublish, Running
      <3> QED BY <3>1, <3>2 DEF AssetStatus
    <2>2. CASE ScanClaim(w, a)
      <3>1. SetStatus(a, "scanning") /\ exec[w].pc = "claim"
        BY <2>2 DEF ScanClaim, Running
      <3>2. ~HlsPublish(w, a)
        BY <3>1 DEF HlsPublish, Running
      <3> QED BY <3>1, <3>2 DEF AssetStatus
    <2>3. CASE ScanInfect(w, a)
      <3>1. SetStatus(a, "infected") /\ exec[w].pc = "infect"
        BY <2>3 DEF ScanInfect, Running
      <3>2. ~HlsPublish(w, a)
        BY <3>1 DEF HlsPublish, Running
      <3> QED BY <3>1, <3>2 DEF AssetStatus
    <2>4. CASE ScanToProcessing(w, a)
      <3>1. SetStatus(a, "processing") /\ exec[w].pc = "toProcessing"
        BY <2>4 DEF ScanToProcessing, Running
      <3>2. ~HlsPublish(w, a)
        BY <3>1 DEF HlsPublish, Running
      <3> QED BY <3>1, <3>2 DEF AssetStatus
    <2>5. CASE ScanToReady(w, a)
      <3>1. SetStatus(a, "ready") /\ exec[w].pc = "toReady"
        BY <2>5 DEF ScanToReady, Running
      <3>2. ~HlsPublish(w, a)
        BY <3>1 DEF HlsPublish, Running
      <3> QED BY <3>1, <3>2 DEF AssetStatus
    <2>6. CASE HlsPublish(w, a)
      <3>1. SetStatus(a, "ready") /\ exec[w].pc = "publish"
        BY <2>6 DEF HlsPublish, Running
      <3> QED BY <2>6, <3>1 DEF AssetStatus
    <2> QED BY <2>1, <2>2, <2>3, <2>4, <2>5, <2>6
  <1>5. status'[a] = s
    BY <1>t, <1>4 DEF SetStatus, UploadTypeOK
  <1>6. RowMeans(a)'
    <2>1. Clean(file[a])' = Clean(file[a]) /\ Flagged(file[a])' = Flagged(file[a])
          /\ file'[a].av = file[a].av
      BY <1>f DEF Clean, Flagged
    <2>2. /\ s = "processing" => Clean(file[a]) /\ file[a].av
          /\ s = "ready" => Clean(file[a])
          /\ s = "infected" => ~object[a]
      BY <1>m, <1>4 DEF PcMeans, Transcoding
    <2>3. s = "ready" /\ file[a].av => HlsPublish(w, a)
      BY <1>m, <1>4 DEF PcMeans, Transcoding
    <2>4. HlsPublish(w, a) => Clean(file[a]) /\ derived[a]
      BY <1>m, <1>4 DEF PcMeans, Transcoding
    <2>5. hlsPrefix'[a] => Clean(file[a]) /\ derived[a]
      BY <1>t, <1>1, <2>4 DEF RowMeans
    <2> QED BY <1>t, <1>f, <1>1, <1>5, <2>1, <2>2, <2>3, <2>5 DEF RowMeans, NoUpload
  <1> QED BY <1>a, <1>f, <1>1, <1>2, <1>3, <1>4, <1>6, StatusWritten

(* An infected original leaves the bucket; the renditions enter it.        *)
LEMMA BucketMedia ==
    ASSUME MediaInv, NEW w \in Workers, NEW a \in Assets,
           ScanRemove(w, a) \/ HlsUploadDir(w, a)
    PROVE  MediaInv'
  <1>t. /\ MediaTypeOK /\ UploadTypeOK /\ OnlyDelivered(a) /\ RowMeans(a)
        /\ exec \in [Workers -> Exec]
    BY DEF MediaInv, UploadInv, MediaTypeOK
  <1>a. exec[w].asset = a
    BY DEF ScanRemove, HlsUploadDir, Running
  <1>m. PcMeans(exec[w].pc, a)
    BY <1>a DEF MediaInv
  <1>1. Delivered(a) /\ Delivered(a)'
    BY <1>t, <1>a DEF OnlyDelivered, Delivered, ScanRemove, HlsUploadDir, uploadVars
  <1>2. CASE ScanRemove(w, a)
    <2>1. PICK x \in Exec : /\ exec' = [exec EXCEPT ![w] = x] /\ x.asset = a
                            /\ x.pc = "infect"
      BY <1>t, <1>a, <1>2, StepTyped DEF ScanRemove, Pcs, ScanPcs
    <2>2. Flagged(file[a]) /\ object' = [object EXCEPT ![a] = FALSE]
      BY <1>m, <1>2 DEF ScanRemove, Running, PcMeans
    <2>3. UploadTypeOK' /\ MediaTypeOK'
      BY <1>t, <1>2, <2>1 DEF ScanRemove, UploadTypeOK, MediaTypeOK, NoUpload
    <2>4. TouchesOnly(a)
      BY <1>t, <1>2, <2>2 DEF ScanRemove, TouchesOnly, NoUpload, UploadTypeOK
    <2>5. ~object'[a] /\ file' = file
      BY <1>t, <1>2, <2>2 DEF ScanRemove, UploadTypeOK
    <2>6. PcMeans(x.pc, a)'
      BY <2>1, <2>2, <2>5 DEF PcMeans, Transcoding, Flagged
    <2>7. RowMeans(a)'
      BY <1>t, <1>2, <2>2, <2>5 DEF RowMeans, ScanRemove, NoUpload, Flagged, Clean
    <2> QED BY <1>1, <2>1, <2>3, <2>4, <2>6, <2>7, WorkerMoves
  <1>3. CASE HlsUploadDir(w, a)
    <2>1. PICK x \in Exec : /\ exec' = [exec EXCEPT ![w] = x] /\ x.asset = a
                            /\ x.pc = "publish"
      BY <1>t, <1>a, <1>3, StepTyped DEF HlsUploadDir, Pcs, HlsPcs
    <2>2. Clean(file[a]) /\ file[a].av /\ derived' = [derived EXCEPT ![a] = TRUE]
      BY <1>m, <1>3 DEF HlsUploadDir, Running, PcMeans, Transcoding
    <2>3. UploadTypeOK' /\ MediaTypeOK'
      BY <1>t, <1>3, <2>1 DEF HlsUploadDir, UploadTypeOK, MediaTypeOK, uploadVars
    <2>4. TouchesOnly(a)
      BY <1>t, <1>3, <2>2 DEF HlsUploadDir, TouchesOnly, uploadVars, MediaTypeOK
    <2>5. derived'[a] /\ file' = file
      BY <1>t, <1>3, <2>2 DEF HlsUploadDir, MediaTypeOK
    <2>6. PcMeans(x.pc, a)'
      BY <2>1, <2>2, <2>5 DEF PcMeans, Transcoding, Clean, Flagged
    <2>7. RowMeans(a)'
      BY <1>t, <1>3, <2>5 DEF RowMeans, HlsUploadDir, uploadVars, Flagged, Clean
    <2> QED BY <1>1, <2>1, <2>3, <2>4, <2>6, <2>7, WorkerMoves
  <1> QED BY <1>2, <1>3

(* asynq hands the job of a delivered asset to a worker, and a clean video *)
(* or audio is handed on to the transcoding.                               *)
LEMMA QueueMedia ==
    ASSUME MediaInv, NEW w \in Workers, NEW a \in Assets,
           StartScan(w, a) \/ StartTranscode(w, a) \/ ScanEnqueueHls(w, a)
    PROVE  MediaInv'
  <1>t. /\ MediaTypeOK /\ UploadTypeOK /\ OnlyDelivered(a) /\ RowMeans(a)
        /\ exec \in [Workers -> Exec]
        /\ scanTask[a] \in Task /\ hlsTask[a] \in Task
    BY DEF MediaInv, UploadInv, MediaTypeOK, UploadTypeOK
  <1>f. UNCHANGED <<upload, mp, parts, call, reap, object, status, file, resource,
                    processed, derived, hlsPrefix, stale, faults>>
    BY DEF StartScan, StartTranscode, ScanEnqueueHls, NoUpload, uploadVars
  <1>1. Delivered(a) /\ Delivered(a)'
    <2>1. scanTask[a].st # "none" \/ hlsTask[a].st # "none" \/ exec[w].asset = a
      BY <1>t, DeliverTyped DEF StartScan, StartTranscode, ScanEnqueueHls, Running
    <2> QED BY <1>t, <1>f, <2>1 DEF OnlyDelivered, Delivered
  <1>2. PICK x \in Exec : /\ exec' = [exec EXCEPT ![w] = x] /\ x.asset = a
                          /\ x.pc \in {"check", "ok"}
    <2>1. CASE StartScan(w, a)
      <3> DEFINE x == [job |-> "scan", asset |-> a, pc |-> "check"]
      <3>1. x \in Exec
        BY DEF Exec, Jobs, BothPcs
      <3> QED BY <2>1, <3>1 DEF StartScan
    <2>2. CASE StartTranscode(w, a)
      <3> DEFINE x == [job |-> "hls", asset |-> a, pc |-> "check"]
      <3>1. x \in Exec
        BY DEF Exec, Jobs, BothPcs
      <3> QED BY <2>2, <3>1 DEF StartTranscode
    <2>3. CASE ScanEnqueueHls(w, a)
      <3>1. exec[w].asset = a /\ Step(w, "ok") /\ "ok" \in Pcs
        BY <2>3 DEF ScanEnqueueHls, Running, Pcs, DonePcs
      <3> QED BY <1>t, <3>1, StepTyped
    <2> QED BY <2>1, <2>2, <2>3
  <1>3. /\ scanTask' \in [Assets -> Task] /\ hlsTask' \in [Assets -> Task]
        /\ \A b \in Assets : b # a => scanTask'[b] = scanTask[b] /\ hlsTask'[b] = hlsTask[b]
    <2>1. /\ Deliverable(scanTask[a]) => Deliver(scanTask[a]) \in Task
          /\ Deliverable(hlsTask[a]) => Deliver(hlsTask[a]) \in Task
          /\ Enqueue(hlsTask[a]) \in Task
      BY <1>t, DeliverTyped, EnqueueType
    <2> QED BY <1>t, <2>1 DEF StartScan, StartTranscode, ScanEnqueueHls, UploadTypeOK,
               MediaTypeOK, uploadVars
  <1>4. UploadTypeOK' /\ MediaTypeOK'
    BY <1>t, <1>f, <1>2, <1>3 DEF UploadTypeOK, MediaTypeOK
  <1>5. TouchesOnly(a)
    BY <1>f, <1>1, <1>3 DEF TouchesOnly
  <1>6. PcMeans(x.pc, a)'
    BY <1>2 DEF PcMeans, Transcoding
  <1>7. RowMeans(a)'
    BY <1>t, <1>f DEF RowMeans, Clean, Flagged
  <1> QED BY <1>1, <1>2, <1>4, <1>5, <1>6, <1>7, WorkerMoves

(* A statement that fails, or a worker that dies, writes nothing.          *)
LEMMA BrokenMedia ==
    ASSUME MediaInv, NEW w \in Workers, JobError(w) \/ WorkerCrash(w)
    PROVE  MediaInv'
  <1>t. MediaTypeOK /\ UploadTypeOK /\ exec \in [Workers -> Exec]
    BY DEF MediaInv, UploadInv, MediaTypeOK
  <1>1. PICK x \in Exec : /\ exec' = [exec EXCEPT ![w] = x]
                          /\ x.asset \in {exec[w].asset, NoAsset}
                          /\ x.pc \in {"err", "idle"}
    <2>1. CASE JobError(w)
      BY <1>t, <2>1, StepTyped DEF JobError, Pcs, DonePcs
    <2>2. CASE WorkerCrash(w)
      BY <2>2, NoExecTyped DEF WorkerCrash
    <2> QED BY <2>1, <2>2
  <1>2. faults' \in 0 .. MaxFaults
    BY <1>t, FaultTyped DEF JobError, WorkerCrash, MediaTypeOK
  <1>f. UNCHANGED <<uploadVars, file, resource, processed, hlsTask, derived, hlsPrefix, stale>>
    BY DEF JobError, WorkerCrash
  <1>3. UploadInv' /\ MediaTypeOK'
    <2>1. UploadTypeOK' /\ MediaTypeOK'
      BY <1>t, <1>f, <1>1, <1>2 DEF MediaTypeOK, UploadTypeOK, uploadVars
    <2> QED BY <1>f, <2>1, JobsKeepUpload DEF MediaInv, uploadVars
  <1>4. ASSUME NEW a \in Assets PROVE OnlyDelivered(a)' /\ RowMeans(a)'
    <2>1. OnlyDelivered(a) /\ RowMeans(a)
      BY DEF MediaInv
    <2>2. \A v \in Workers : exec'[v].asset = a => exec[v].asset = a
      BY <1>t, <1>1, UploadAssumption
    <2>3. OnlyDelivered(a)'
      BY <1>f, <2>1, <2>2 DEF OnlyDelivered, Listed, Delivered, At, uploadVars
    <2> QED BY <1>f, <2>1, <2>3 DEF RowMeans, Clean, Flagged, uploadVars
  <1>5. ASSUME NEW v \in Workers, NEW a \in Assets, exec'[v].asset = a
        PROVE  PcMeans(exec[v].pc, a)'
    <2>1. CASE v = w
      <3>1. exec'[v].pc \in {"err", "idle"}
        BY <1>t, <1>1, <2>1
      <3> QED BY <3>1 DEF PcMeans, Transcoding
    <2>2. CASE v # w
      <3>1. exec'[v] = exec[v] /\ PcMeans(exec[v].pc, a)
        BY <1>t, <1>1, <1>5, <2>2 DEF MediaInv
      <3> QED BY <1>f, <3>1 DEF PcMeans, Clean, Flagged, uploadVars
    <2> QED BY <2>1, <2>2
  <1> QED BY <1>3, <1>4, <1>5 DEF MediaInv

LEMMA JobStepMedia ==
    ASSUME MediaInv, NEW w \in Workers, NEW a \in Assets, JobStep(w, a)
    PROVE  MediaInv'
  BY CommonMedia, ReadMedia, StatusMedia, BucketMedia, QueueMedia
     DEF JobStep, CommonStep, ScanStep, HlsStep

-----------------------------------------------------------------------------
(* What the requests and the expirations do to the state the jobs rely on: *)
(* nothing once the asset is delivered, except publishing its scan.        *)
Feeds(a) ==
    /\ status'[a] # status[a] => ~Delivered(a) /\ status'[a] \in {"awaiting_upload", "uploaded"}
    /\ scanTask'[a] # scanTask[a] => /\ scanTask'[a] = Enqueue(scanTask[a])
                                     /\ \E c \in Callers : At(c, a, "enqueue")
    /\ mp[a] = "assembled" => mp'[a] = mp[a] /\ object'[a] = object[a]
    /\ mp[a] # "assembled" /\ mp'[a] = "assembled" => object'[a]
    /\ \A c \in Callers : At(c, a, "enqueue")' => At(c, a, "enqueue") \/ status'[a] = "uploaded"

LEMMA AnswerFeeds ==
    ASSUME UploadTypeOK, NEW c \in Callers, Answer(c), NEW b \in Assets,
           UNCHANGED <<mp, object, status, scanTask>>
    PROVE  Feeds(b)
  BY DEF Answer, Idle, Feeds, At, UploadTypeOK

LEMMA CallStepFeeds ==
    ASSUME UploadInv, NEW c \in Callers, NEW a \in Assets, CallStep(c, a), NEW b \in Assets
    PROVE  Feeds(b)
  <1>t. UploadTypeOK
    BY DEF UploadInv
  <1>1. CASE InitInsertAsset(c, a)
    BY <1>1, <1>t DEF InitInsertAsset, Goto, Feeds, Delivered, At, UploadTypeOK
  <1>2. CASE InitNewMultipart(c, a)
    BY <1>2, <1>t DEF InitNewMultipart, Goto, Feeds, At, UploadTypeOK, UploadInv, RequestKnows
  <1>3. CASE InitInsertUpload(c, a) \/ CompleteLoad(c, a) \/ AbortLoad(c, a)
    BY <1>3, <1>t DEF InitInsertUpload, CompleteLoad, AbortLoad, Goto, Feeds, At, UploadTypeOK
  <1>4. CASE InitSetKey(c, a) \/ AbortMark(c, a)
    BY <1>4, <1>t, AnswerFeeds DEF InitSetKey, AbortMark
  <1>5. CASE CompleteList(c, a)
    <2>1. CASE Answer(c)
      BY <1>5, <1>t, <2>1, AnswerFeeds DEF CompleteList
    <2>2. CASE Goto(c, a, "assemble")
      BY <1>5, <1>t, <2>2 DEF CompleteList, Goto, Feeds, At, UploadTypeOK
    <2> QED BY <1>5, <2>1, <2>2 DEF CompleteList
  <1>6. CASE CompleteAssemble(c, a)
    <2>1. CASE mp[a] = "open"
      <3>1. /\ mp' = [mp EXCEPT ![a] = "assembled"] /\ Goto(c, a, "markUpload")
            /\ object' = [object EXCEPT ![a] = TRUE]
        BY <1>6, <2>1 DEF CompleteAssemble
      <3> QED BY <1>6, <1>t, <2>1, <3>1 DEF CompleteAssemble, Goto, Feeds, At, UploadTypeOK
    <2>2. CASE mp[a] # "open"
      BY <1>6, <1>t, <2>2, AnswerFeeds DEF CompleteAssemble
    <2> QED BY <2>1, <2>2
  <1>7. CASE CompleteMarkUpload(c, a)
    BY <1>7, <1>t DEF CompleteMarkUpload, Goto, Feeds, At, UploadTypeOK
  <1>8. CASE CompleteMarkAsset(c, a)
    <2>1. ~Delivered(a)
      BY <1>8 DEF UploadInv, MarkingAlone, Marking, CompleteMarkAsset, At, Delivered
    <2> QED BY <1>8, <1>t, <2>1 DEF CompleteMarkAsset, Goto, Feeds, At, UploadTypeOK
  <1>9. CASE CompleteEnqueue(c, a)
    BY <1>9, <1>t DEF CompleteEnqueue, Answer, Idle, Feeds, At, UploadTypeOK
  <1>10. CASE AbortStorage(c, a)
    <2>1. CASE mp[a] = "open"
      BY <1>10, <1>t, <2>1 DEF AbortStorage, Goto, Feeds, At, UploadTypeOK
    <2>2. CASE mp[a] # "open"
      BY <1>10, <1>t, <2>2, AnswerFeeds DEF AbortStorage
    <2> QED BY <2>1, <2>2
  <1> QED BY <1>1, <1>2, <1>3, <1>4, <1>5, <1>6, <1>7, <1>8, <1>9, <1>10 DEF CallStep

LEMMA UploadsFeed ==
    ASSUME UploadInv, ClientNext \/ \E r \in Reapers : ReapExpired(r), NEW b \in Assets
    PROVE  Feeds(b) /\ (Listed(b)' => Listed(b))
  <1>t. UploadTypeOK
    BY DEF UploadInv
  <1>1. CASE \E c \in Callers, a \in Assets : CallStep(c, a)
    <2>1. Feeds(b)
      BY <1>1, CallStepFeeds
    <2>2. reap' = reap
      BY <1>1 DEF CallStep, InitInsertAsset, InitNewMultipart, InitInsertUpload, InitSetKey,
             CompleteLoad, CompleteList, CompleteAssemble, CompleteMarkUpload,
             CompleteMarkAsset, CompleteEnqueue, AbortLoad, AbortStorage, AbortMark
    <2> QED BY <2>1, <2>2 DEF Listed
  <1>2. CASE \E c \in Callers : Drop(c)
    BY <1>2, <1>t, AnswerFeeds DEF Drop, Listed
  <1>3. CASE \E a \in Assets : Expire(a) \/ \E n \in AllParts : PutPart(a, n)
    BY <1>3 DEF Expire, PutPart, Feeds, At, Listed
  <1>4. CASE \E r \in Reapers : ReapExpired(r)
    <2> PICK r \in Reapers : ReapExpired(r)
      BY <1>4
    <2>1. Listed(b)' => Listed(b)
      <3> PICK x \in Reap : reap' = [reap EXCEPT ![r] = x] /\ x.pc \notin {"scans", "hls"}
        BY <1>t, ReapMoves
      <3> QED BY <1>t DEF Listed, UploadTypeOK
    <2>2. CASE ReapSelectExpired(r) \/ ReapExpiredDone(r)
      BY <2>1, <2>2 DEF ReapSelectExpired, ReapExpiredDone, Feeds, At
    <2>3. CASE \E a \in Assets : ReapAbort(r, a)
      BY <1>t, <2>1, <2>3 DEF ReapAbort, Feeds, At, UploadTypeOK
    <2>4. CASE \E a \in Assets : ReapMark(r, a)
      BY <2>1, <2>4 DEF ReapMark, Feeds, At
    <2> QED BY <2>2, <2>3, <2>4 DEF ReapExpired
  <1> QED BY <1>1, <1>2, <1>3, <1>4 DEF ClientNext

LEMMA UploadsMedia ==
    ASSUME MediaInv, ClientNext \/ \E r \in Reapers : ReapExpired(r), UNCHANGED mediaVars
    PROVE  MediaInv'
  <1>u. UploadInv /\ UploadInv'
    BY ClientNextInv, ReapersInv DEF MediaInv
  <1>1. MediaTypeOK'
    BY DEF MediaInv, MediaTypeOK, mediaVars
  <1>2. ASSUME NEW a \in Assets PROVE OnlyDelivered(a)' /\ RowMeans(a)'
    <2>1. OnlyDelivered(a) /\ RowMeans(a) /\ Feeds(a)
      BY <1>u, UploadsFeed DEF MediaInv
    <2>2. Delivered(a) => Delivered(a)' /\ status'[a] = status[a] /\ mp[a] = "assembled"
      <3>1. AssembledIsWhole(a)
        BY <1>u DEF UploadInv
      <3> QED BY <2>1, <3>1 DEF Delivered, Feeds, AssembledIsWhole
    <2>3. scanTask'[a].st # "none" => Delivered(a)
      BY <2>1 DEF Feeds, OnlyDelivered
    <2>4. \A c \in Callers : At(c, a, "enqueue")' => Delivered(a)'
      BY <2>1, <2>2 DEF Feeds, OnlyDelivered, Delivered
    <2>5. Listed(a)' => Listed(a)
      BY <1>u, UploadsFeed
    <2>6. OnlyDelivered(a)'
      BY <2>1, <2>2, <2>3, <2>4, <2>5 DEF OnlyDelivered, mediaVars
    <2>7. UNCHANGED <<file, hlsPrefix, derived>>
      BY DEF mediaVars
    <2>8. status'[a] \in {"processing", "ready", "infected"} => status[a] = status'[a] /\ Delivered(a)
      BY <2>1 DEF Feeds, Delivered
    <2>9. mp'[a] = "assembled" /\ ~object'[a] => mp[a] = "assembled" /\ ~object[a]
      BY <2>1 DEF Feeds
    <2>10. Delivered(a) => object'[a] = object[a]
      BY <2>1, <2>2 DEF Feeds
    <2>11. RowMeans(a)'
      BY <2>1, <2>7, <2>8, <2>9, <2>10 DEF RowMeans, Clean, Flagged
    <2> QED BY <2>6, <2>11
  <1>3. ASSUME NEW w \in Workers, NEW a \in Assets, exec'[w].asset = a
        PROVE  PcMeans(exec[w].pc, a)'
    <2>1. PcMeans(exec[w].pc, a) /\ UNCHANGED <<exec, file, derived>> /\ OnlyDelivered(a)
      BY <1>3 DEF mediaVars, MediaInv
    <2>2. Delivered(a)
      BY <1>3, <2>1 DEF OnlyDelivered
    <2>3. object'[a] = object[a]
      <3>1. AssembledIsWhole(a) /\ Feeds(a)
        BY <1>u, UploadsFeed DEF UploadInv
      <3> QED BY <2>2, <3>1 DEF Delivered, Feeds, AssembledIsWhole
    <2> QED BY <2>1, <2>3 DEF PcMeans, Clean, Flagged
  <1> QED BY <1>u, <1>1, <1>2, <1>3 DEF MediaInv

-----------------------------------------------------------------------------
(* The resources, the queue and the maintenance job move no worker and     *)
(* write no file; a status they write sends the asset back to the scan.    *)
LEMMA OthersMedia ==
    ASSUME MediaInv, UploadTypeOK', MediaTypeOK',
           UNCHANGED <<upload, mp, parts, object, call, file, derived, hlsPrefix, exec>>,
           \A a \in Assets : status'[a] # status[a] => Delivered(a) /\ status'[a] = "uploaded",
           \A a \in Assets : scanTask'[a] \in {scanTask[a], NoTask} \/ Delivered(a),
           \A a \in Assets : hlsTask'[a] \in {hlsTask[a], NoTask} \/ Delivered(a),
           \A a \in Assets : Listed(a)' => Delivered(a)
    PROVE  MediaInv'
  <1>1. ASSUME NEW a \in Assets, Delivered(a) PROVE Delivered(a)'
    BY <1>1 DEF Delivered
  <1>2. UploadInv'
    <2>1. \A a \in Assets : status'[a] # status[a] => Delivered(a) /\ Delivered(a)'
      BY <1>1
    <2> QED BY <2>1, JobsKeepUpload DEF MediaInv
  <1>3. ASSUME NEW a \in Assets PROVE OnlyDelivered(a)' /\ RowMeans(a)'
    <2>1. OnlyDelivered(a) /\ RowMeans(a)
      BY DEF MediaInv
    <2>2. scanTask'[a].st # "none" \/ hlsTask'[a].st # "none" => Delivered(a)
      BY <2>1 DEF OnlyDelivered, NoTask
    <2>3. OnlyDelivered(a)'
      BY <1>1, <2>1, <2>2 DEF OnlyDelivered, At
    <2> QED BY <2>1, <2>3 DEF RowMeans, Clean, Flagged
  <1>4. \A w \in Workers, a \in Assets : exec'[w].asset = a => PcMeans(exec[w].pc, a)'
    BY DEF MediaInv, PcMeans, Clean, Flagged
  <1> QED BY <1>2, <1>3, <1>4 DEF MediaInv

LEMMA AttachMedia ==
    ASSUME MediaInv, NEW a \in Assets, AttachResource(a) \/ Age(a)
    PROVE  MediaInv'
  <1>t. UploadTypeOK /\ MediaTypeOK /\ \A b \in Assets : OnlyDelivered(b)
    BY DEF MediaInv, UploadInv
  <1>1. UploadTypeOK' /\ MediaTypeOK'
    BY <1>t DEF AttachResource, Age, UploadTypeOK, MediaTypeOK, ResourceStatus, uploadVars
  <1>2. \A b \in Assets : Listed(b)' => Delivered(b)
    BY <1>t DEF AttachResource, Age, OnlyDelivered, Listed, uploadVars
  <1> QED BY <1>1, <1>2, OthersMedia DEF AttachResource, Age, uploadVars

(* What asynq does to a record by itself.                                  *)
LEMMA RecordMedia ==
    ASSUME MediaInv, NEW a \in Assets, Recover(a) \/ Retention(a)
    PROVE  MediaInv'
  <1>t. /\ UploadTypeOK /\ MediaTypeOK /\ \A b \in Assets : OnlyDelivered(b)
        /\ scanTask[a] \in Task /\ hlsTask[a] \in Task
    BY DEF MediaInv, UploadInv, UploadTypeOK, MediaTypeOK
  <1>f. UNCHANGED <<upload, mp, parts, object, status, call, reap, file, resource, processed,
                    derived, hlsPrefix, stale, exec, faults>>
    BY DEF Recover, Retention, NoUpload, uploadVars, mediaVars
  <1>1. /\ scanTask' \in [Assets -> Task] /\ hlsTask' \in [Assets -> Task]
        /\ \A b \in Assets : b # a => scanTask'[b] = scanTask[b] /\ hlsTask'[b] = hlsTask[b]
    <2>1. /\ Failed(scanTask[a]) \in Task /\ RetentionOver(scanTask[a]) \in Task
          /\ Failed(hlsTask[a]) \in Task /\ RetentionOver(hlsTask[a]) \in Task
      BY <1>t, FailedTyped, RetentionTyped
    <2>2. \/ /\ \E t \in Task : scanTask' = [scanTask EXCEPT ![a] = t]
             /\ UNCHANGED hlsTask
          \/ /\ \E t \in Task : hlsTask' = [hlsTask EXCEPT ![a] = t]
             /\ UNCHANGED scanTask
      <3>1. CASE Recover(a)
        BY <2>1, <3>1 DEF Recover, uploadVars, mediaVars
      <3>2. CASE Retention(a)
        BY <2>1, <3>2 DEF Retention, uploadVars, mediaVars
      <3> QED BY <3>1, <3>2
    <2>3. CASE (\E t \in Task : scanTask' = [scanTask EXCEPT ![a] = t]) /\ UNCHANGED hlsTask
      BY <1>t, <2>3 DEF UploadTypeOK, MediaTypeOK
    <2>4. CASE (\E t \in Task : hlsTask' = [hlsTask EXCEPT ![a] = t]) /\ UNCHANGED scanTask
      BY <1>t, <2>4 DEF UploadTypeOK, MediaTypeOK
    <2> QED BY <2>2, <2>3, <2>4
  <1>2. Delivered(a)
    BY <1>t DEF Recover, Retention, OnlyDelivered
  <1>3. UploadTypeOK' /\ MediaTypeOK'
    BY <1>t, <1>f, <1>1 DEF UploadTypeOK, MediaTypeOK
  <1>4. \A b \in Assets : Listed(b)' => Delivered(b)
    BY <1>t, <1>f DEF OnlyDelivered, Listed
  <1> QED BY <1>f, <1>1, <1>2, <1>3, <1>4, OthersMedia

LEMMA LossMedia == ASSUME MediaInv, RedisLoss PROVE MediaInv'
  <1>t. UploadTypeOK /\ MediaTypeOK /\ \A b \in Assets : OnlyDelivered(b)
    BY DEF MediaInv, UploadInv
  <1>1. faults' \in 0 .. MaxFaults
    BY <1>t, FaultTyped DEF RedisLoss, MediaTypeOK
  <1>2. UploadTypeOK' /\ MediaTypeOK'
    BY <1>t, <1>1, NoTaskType DEF RedisLoss, UploadTypeOK, MediaTypeOK, NoUpload
  <1>3. \A b \in Assets : Listed(b)' => Delivered(b)
    BY <1>t DEF OnlyDelivered, Listed, RedisLoss, NoUpload
  <1> QED BY <1>2, <1>3, OthersMedia DEF RedisLoss, NoUpload

(* A maintenance job lists assets that are delivered, and a step moves one *)
(* job only.                                                               *)
LEMMA ReapMediaMoves ==
    ASSUME UploadTypeOK, NEW r \in Reapers, ReapMedia(r) \/ ReapError(r)
    PROVE  \E x \in Reap :
               /\ reap' = [reap EXCEPT ![r] = x]
               /\ x.pc \notin {"abort", "mark"}
               /\ x.pc \in {"scans", "hls"} => \A a \in x.todo : Listed(a) \/ Delivered(a)
  <1>t. reap[r] \in Reap /\ reap \in [Reapers -> Reap]
    BY DEF UploadTypeOK
  <1>1. CASE ReapSelectScans(r) \/ ReapSelectHls(r)
    <2> PICK pc \in {"scans", "hls"}, S \in {Orphans("uploaded"), Orphans("processing")} :
             reap' = [reap EXCEPT ![r].pc = pc, ![r].todo = S]
      BY <1>1 DEF ReapSelectScans, ReapSelectHls
    <2> DEFINE x == [reap[r] EXCEPT !.pc = pc, !.todo = S]
    <2>1. S \in SUBSET Assets /\ \A a \in S : Delivered(a)
      BY DEF Orphans, Delivered
    <2>2. x \in Reap /\ x.pc = pc /\ x.todo = S
      BY <1>t, <2>1 DEF Reap
    <2>3. reap' = [reap EXCEPT ![r] = x]
      BY <1>t DEF Reap
    <2> QED BY <2>1, <2>2, <2>3
  <1>2. CASE ReapUnstick(r) \/ ReapDone(r)
    <2> PICK pc \in {"unstuck", "idle"} : reap' = [reap EXCEPT ![r].pc = pc]
      BY <1>2 DEF ReapUnstick, ReapDone
    <2> DEFINE x == [reap[r] EXCEPT !.pc = pc]
    <2>1. x \in Reap /\ x.pc = pc
      BY <1>t DEF Reap
    <2>2. reap' = [reap EXCEPT ![r] = x]
      BY <1>t DEF Reap
    <2> QED BY <2>1, <2>2
  <1>3. CASE \E a \in Assets : ReapEnqueueScan(r, a) \/ ReapEnqueueHls(r, a)
    <2> PICK a \in Assets : ReapEnqueueScan(r, a) \/ ReapEnqueueHls(r, a)
      BY <1>3
    <2>1. /\ reap' = [reap EXCEPT ![r].todo = @ \ {a}]
          /\ reap[r].pc \in {"scans", "hls"}
      BY DEF ReapEnqueueScan, ReapEnqueueHls
    <2> DEFINE x == [reap[r] EXCEPT !.todo = reap[r].todo \ {a}]
    <2>2. x \in Reap /\ x.pc = reap[r].pc /\ x.todo \subseteq reap[r].todo
      BY <1>t DEF Reap
    <2>3. reap' = [reap EXCEPT ![r] = x]
      BY <1>t, <2>1 DEF Reap
    <2> QED BY <2>1, <2>2, <2>3 DEF Listed
  <1>4. CASE ReapError(r)
    BY <1>4, NotReapingType DEF ReapError, NotReaping
  <1> QED BY <1>1, <1>2, <1>3, <1>4 DEF ReapMedia

LEMMA ReapMediaMedia ==
    ASSUME MediaInv, NEW r \in Reapers, ReapMedia(r) \/ ReapError(r)
    PROVE  MediaInv'
  <1>t. UploadTypeOK /\ MediaTypeOK /\ (\A b \in Assets : OnlyDelivered(b))
    BY DEF MediaInv, UploadInv, UploadTypeOK
  <1>m. PICK x \in Reap :
            /\ reap' = [reap EXCEPT ![r] = x]
            /\ x.pc \in {"scans", "hls"} => \A a \in x.todo : Listed(a) \/ Delivered(a)
    BY <1>t, ReapMediaMoves
  <1>l. ASSUME NEW b \in Assets PROVE Listed(b)' => Delivered(b)
    <2>1. Listed(b)' => Listed(b) \/ Delivered(b)
      BY <1>t, <1>m DEF Listed, UploadTypeOK
    <2> QED BY <1>t, <2>1 DEF OnlyDelivered
  <1>r. reap' \in [Reapers -> Reap]
    BY <1>t, <1>m DEF UploadTypeOK
  <1>1. CASE ReapSelectScans(r) \/ ReapSelectHls(r) \/ ReapDone(r)
    <2>f. UNCHANGED <<upload, mp, parts, object, status, scanTask, call, mediaVars>>
      BY <1>1 DEF ReapSelectScans, ReapSelectHls, ReapDone
    <2>1. UploadTypeOK' /\ MediaTypeOK'
      BY <1>t, <1>r, <2>f DEF UploadTypeOK, MediaTypeOK, mediaVars
    <2> QED BY <1>l, <2>f, <2>1, OthersMedia DEF mediaVars
  <1>2. CASE ReapUnstick(r)
    <2>1. UploadTypeOK' /\ MediaTypeOK'
      BY <1>t, <1>r, <1>2 DEF ReapUnstick, AssetStatus, UploadTypeOK, MediaTypeOK
    <2>2. \A b \in Assets : status'[b] # status[b] => Delivered(b) /\ status'[b] = "uploaded"
      BY <1>2 DEF ReapUnstick, Orphans, Delivered
    <2> QED BY <1>l, <1>2, <2>1, <2>2, OthersMedia DEF ReapUnstick
  <1>3. CASE \E a \in Assets : ReapEnqueueScan(r, a) \/ ReapEnqueueHls(r, a)
    <2> PICK a \in Assets : ReapEnqueueScan(r, a) \/ ReapEnqueueHls(r, a)
      BY <1>3
    <2>1. Delivered(a)
      <3>1. Listed(a)
        BY DEF ReapEnqueueScan, ReapEnqueueHls, Listed
      <3> QED BY <1>t, <3>1 DEF OnlyDelivered
    <2>2. faults' \in 0 .. MaxFaults
      <3>1. faults' = faults \/ Fault("error")
        BY DEF ReapEnqueueScan, ReapEnqueueHls
      <3> QED BY <1>t, <3>1, FaultTyped DEF MediaTypeOK
    <2>3. /\ scanTask' \in [Assets -> Task] /\ hlsTask' \in [Assets -> Task]
          /\ \A b \in Assets : b # a => scanTask'[b] = scanTask[b] /\ hlsTask'[b] = hlsTask[b]
      <3>1. Enqueue(scanTask[a]) \in Task /\ Enqueue(hlsTask[a]) \in Task
        BY <1>t, EnqueueType DEF UploadTypeOK, MediaTypeOK
      <3>2. CASE ReapEnqueueScan(r, a)
        BY <1>t, <3>1, <3>2 DEF ReapEnqueueScan, UploadTypeOK, MediaTypeOK
      <3>3. CASE ReapEnqueueHls(r, a)
        BY <1>t, <3>1, <3>3 DEF ReapEnqueueHls, UploadTypeOK, MediaTypeOK
      <3> QED BY <3>2, <3>3
    <2>4. UNCHANGED <<upload, mp, parts, object, status, call, file, resource, processed,
                      derived, hlsPrefix, stale, exec>>
      BY DEF ReapEnqueueScan, ReapEnqueueHls
    <2>5. UploadTypeOK' /\ MediaTypeOK'
      BY <1>t, <1>r, <2>2, <2>3, <2>4 DEF UploadTypeOK, MediaTypeOK
    <2> QED BY <1>l, <2>1, <2>3, <2>4, <2>5, OthersMedia
  <1>4. CASE ReapError(r)
    <2>1. faults' \in 0 .. MaxFaults
      BY <1>t, <1>4, FaultTyped DEF ReapError, MediaTypeOK
    <2>2. UploadTypeOK' /\ MediaTypeOK'
      BY <1>t, <1>r, <1>4, <2>1 DEF ReapError, UploadTypeOK, MediaTypeOK
    <2> QED BY <1>l, <1>4, <2>2, OthersMedia DEF ReapError
  <1> QED BY <1>1, <1>2, <1>3, <1>4 DEF ReapMedia

-----------------------------------------------------------------------------
LEMMA MediaInitInv == Init => MediaInv
  <1> SUFFICES ASSUME Init PROVE MediaInv
    OBVIOUS
  <1>1. UploadInv
    BY UploadInitInv DEF Init
  <1>2. MediaTypeOK
    BY NoTaskType, NoExecTyped, MediaAssumption DEF Init, MediaInit, MediaTypeOK, ResourceStatus
  <1>3. ASSUME NEW a \in Assets PROVE OnlyDelivered(a) /\ RowMeans(a)
    BY UploadAssumption DEF Init, UploadInit, MediaInit, OnlyDelivered, Listed, NotReaping, RowMeans,
       Delivered, NoTask, At, Idle, NoExec
  <1>4. \A w \in Workers, a \in Assets : exec[w].asset = a => PcMeans(exec[w].pc, a)
    BY UploadAssumption DEF Init, MediaInit, NoExec
  <1> QED BY <1>1, <1>2, <1>3, <1>4 DEF MediaInv

LEMMA MediaNextInv == ASSUME MediaInv, [Next]_vars PROVE MediaInv'
  <1>1. CASE (ClientNext \/ \E r \in Reapers : ReapExpired(r)) /\ UNCHANGED mediaVars
    BY <1>1, UploadsMedia
  <1>2. CASE \E a \in Assets : AttachResource(a) \/ Age(a) \/ Recover(a) \/ Retention(a)
    BY <1>2, AttachMedia, RecordMedia
  <1>3. CASE \E w \in Workers, a \in Assets : JobStep(w, a)
    BY <1>3, JobStepMedia
  <1>4. CASE \E r \in Reapers : ReapMedia(r) \/ ReapError(r)
    BY <1>4, ReapMediaMedia
  <1>5. CASE \E w \in Workers : JobError(w) \/ WorkerCrash(w)
    BY <1>5, BrokenMedia
  <1>6. CASE RedisLoss
    BY <1>6, LossMedia
  <1>7. CASE UNCHANGED vars
    <2>1. UploadInv'
      <3>1. UNCHANGED uploadVars
        BY <1>7 DEF vars
      <3> QED BY <3>1, UploadNextInv DEF MediaInv
    <2>2. MediaTypeOK'
      BY <1>7 DEF vars, mediaVars, MediaInv, MediaTypeOK
    <2>3. \A a \in Assets : OnlyDelivered(a)' /\ RowMeans(a)'
      BY <1>7 DEF vars, uploadVars, mediaVars, MediaInv, OnlyDelivered, Listed, RowMeans, Delivered, At,
             Clean, Flagged
    <2>4. \A w \in Workers, a \in Assets : exec'[w].asset = a => PcMeans(exec[w].pc, a)'
      BY <1>7 DEF vars, uploadVars, mediaVars, MediaInv, PcMeans, Clean, Flagged
    <2> QED BY <2>1, <2>2, <2>3, <2>4 DEF MediaInv
  <1> QED BY <1>1, <1>2, <1>3, <1>4, <1>5, <1>6, <1>7 DEF Next, ReapStep

LEMMA MediaInvCorrect == Spec => []MediaInv
  <1> QED BY MediaInitInv, MediaNextInv, PTL DEF Spec

(* Every row, record and worker keeps its type through every job.          *)
THEOREM MediaTypeCorrect == Spec => []TypeOK
  <1>1. MediaInv => TypeOK
    BY DEF MediaInv, UploadInv, MediaTypeOK, TypeOK
  <1> QED BY <1>1, MediaInvCorrect, PTL

(* Whatever is redelivered, repeated, interrupted or lost, only content    *)
(* that passed the three checks is handed to a student.                    *)
THEOREM ServedContentIsClean == Spec => []ServedIsClean
  <1>1. MediaInv => ServedIsClean
    BY DEF MediaInv, RowMeans, ServedIsClean, Downloadable, Playable
  <1> QED BY <1>1, MediaInvCorrect, PTL

(* A ready asset has all the files its deliveries need.                    *)
THEOREM ReadyAssetsAreComplete == Spec => []ReadyIsComplete
  <1>1. ASSUME MediaInv, NEW a \in Assets, Downloadable(a) PROVE object[a]
    <2>1. RowMeans(a) /\ AssembledIsWhole(a) /\ object[a] \in BOOLEAN
      BY <1>1 DEF MediaInv, UploadInv, UploadTypeOK
    <2>2. mp[a] = "assembled"
      BY <1>1, <2>1 DEF Downloadable, AssembledIsWhole
    <2> QED BY <1>1, <2>1, <2>2 DEF RowMeans, Downloadable, Clean
  <1>2. MediaInv => ReadyIsComplete
    BY <1>1 DEF MediaInv, RowMeans, ReadyIsComplete, Downloadable, Playable
  <1> QED BY <1>2, MediaInvCorrect, PTL

(* An original disappears only because it is infected, and before its      *)
(* asset says so.                                                          *)
THEOREM InfectedAreRemoved == Spec => []InfectedIsRemoved
  <1>1. MediaInv => InfectedIsRemoved
    BY DEF MediaInv, RowMeans, InfectedIsRemoved
  <1> QED BY <1>1, MediaInvCorrect, PTL

(* The jobs touch neither the timestamps of the uploads nor the multipart  *)
(* uploads, and the maintenance job's lists of expired ones only to drop   *)
(* them.                                                                   *)
LEMMA MediaNextAbort ==
    ASSUME MediaInv, AbortInv, [Next]_vars
    PROVE  AbortInv'
  <1>1. CASE ClientNext \/ \E r \in Reapers : ReapExpired(r)
    BY <1>1, UploadNextAbort DEF MediaInv, UploadNext
  <1>2. CASE \E r \in Reapers : ReapMedia(r) \/ ReapError(r)
    <2> PICK r \in Reapers : ReapMedia(r) \/ ReapError(r)
      BY <1>2
    <2>1. UNCHANGED <<upload, mp, call>>
      BY DEF ReapMedia, ReapSelectScans, ReapUnstick, ReapSelectHls, ReapDone, ReapEnqueueScan,
         ReapEnqueueHls, ReapError
    <2>2. UploadTypeOK
      BY DEF MediaInv, UploadInv
    <2>3. PICK x \in Reap : reap' = [reap EXCEPT ![r] = x] /\ x.pc \notin {"abort", "mark"}
      BY <2>2, ReapMediaMoves
    <2>4. SweepsExpired(x)'
      BY <2>3 DEF SweepsExpired
    <2> QED BY <2>1, <2>2, <2>3, <2>4, ReaperAbort
  <1>3. CASE /\ ~(ClientNext \/ \E r \in Reapers : ReapExpired(r))
             /\ ~(\E r \in Reapers : ReapMedia(r) \/ ReapError(r))
    <2>1. UNCHANGED <<upload, mp, call, reap>>
      BY <1>3 DEF Next, ReapStep, vars, uploadVars, AttachResource, Age, Recover, Retention,
         JobStep, CommonStep, Check, FailAsset, FailResources, MarkResourcesReady, MarkProcessed,
         JobReturn, ScanStep, StartScan, ScanLoad, ScanClaim, ScanRead, ScanRemove, ScanInfect,
         ScanToProcessing, ScanToReady, ScanEnqueueHls, HlsStep, StartTranscode, HlsLoad,
         HlsDownload, HlsTranscode, HlsUploadDir, HlsPublish, JobError, WorkerCrash, RedisLoss,
         NoUpload
    <2> QED BY <2>1 DEF AbortInv, UserAborted, At, SweepExpired, SweepsExpired
  <1> QED BY <1>1, <1>2, <1>3

(* The guarantees of the uploads survive the composition with the jobs: no *)
(* request writes over what a worker recorded, and an upload its user      *)
(* cancelled is not processed.                                             *)
THEOREM UploadsSurviveJobs == Spec => [](CompletedIsWhole /\ UploadedOnce /\ AbortIsFinal)
  <1>1. MediaInv => CompletedIsWhole /\ UploadedOnce
    BY DEF MediaInv, UploadInv, AssembledIsWhole, MarkingAlone, Marking, CompletedIsWhole,
           UploadedOnce
  <1>2. AbortInv => AbortIsFinal
    BY DEF AbortInv, UserAborted, AbortIsFinal
  <1>3. Init => AbortInv
    BY AbortInit DEF Init
  <1>4. Spec => []AbortInv
    BY <1>3, MediaInvCorrect, MediaNextAbort, PTL DEF Spec
  <1> QED BY <1>1, <1>2, <1>4, MediaInvCorrect, PTL

-----------------------------------------------------------------------------
(* With the records in Redis, one worker at a time executes a job of an    *)
(* asset, and the status cannot change under it but by its own hand: what  *)
(* it read when it loaded the asset still holds when it writes.            *)
Decided == {"infected", "processing", "ready", "failed"}
Judging == {"read", "remove", "infect", "toProcessing", "toReady", "failAsset"}

Phase(job, pc, a) ==
    /\ job = "scan" =>
          /\ pc = "claim" => status[a] = "uploaded"
          /\ pc \in Judging => status[a] = "scanning" /\ ~stale[a]
          /\ pc \in {"failResources", "resourcesReady", "mark"} => status[a] \in Decided
    /\ job = "hls" =>
          (pc \in Transcoding \cup {"failAsset"} => status[a] = "processing")
    /\ pc = "resourcesReady" => status[a] = "ready"

Leased(job, a) == IF job = "scan" THEN scanTask[a].st = "active"
                                  ELSE hlsTask[a].st = "active"

ExecHolds(w, a) ==
    exec[w].asset = a => Leased(exec[w].job, a) /\ Phase(exec[w].job, exec[w].pc, a)

Alone(v, w, a) ==
    exec[v].asset = a /\ exec[w].asset = a /\ exec[v].job = exec[w].job => v = w

ShownHolds(a) ==
    /\ "scan" \in processed[a] => status[a] \in Decided
    /\ resource[a] = "ready" => status[a] = "ready"

QueueInv ==
    /\ \A a \in Assets : ShownHolds(a)
    /\ \A w \in Workers, a \in Assets : ExecHolds(w, a)
    /\ \A v, w \in Workers, a \in Assets : Alone(v, w, a)

(* A statement that leaves the status as it is.                            *)
LEMMA QuietQueue ==
    ASSUME MediaInv, QueueInv, NEW w \in Workers, UNCHANGED <<status, stale>>,
           NEW x \in Exec, exec' = [exec EXCEPT ![w] = x],
           x.asset = NoAsset \/ (x.asset = exec[w].asset /\ x.job = exec[w].job),
           \A v \in Workers \ {w}, a \in Assets : exec[v].asset = a =>
               (Leased(exec[v].job, a) => Leased(exec[v].job, a)'),
           \A a \in Assets : x.asset = a => Leased(x.job, a)' /\ Phase(x.job, x.pc, a),
           \A a \in Assets : "scan" \in processed'[a] =>
               "scan" \in processed[a] \/ status[a] \in Decided,
           \A a \in Assets : resource'[a] = "ready" =>
               resource[a] = "ready" \/ status[a] = "ready"
    PROVE  QueueInv'
  <1>t. exec \in [Workers -> Exec]
    BY DEF MediaInv, MediaTypeOK
  <1>1. \A a \in Assets : ShownHolds(a)'
    BY DEF QueueInv, ShownHolds
  <1>2. ASSUME NEW v \in Workers, NEW a \in Assets, exec'[v].asset = a
        PROVE  Leased(exec[v].job, a)' /\ Phase(exec[v].job, exec[v].pc, a)'
    <2>1. CASE v = w
      <3>1. exec'[v] = x /\ x.asset = a
        BY <1>t, <1>2, <2>1
      <3>2. Leased(x.job, a)' /\ Phase(x.job, x.pc, a)'
        BY <3>1 DEF Phase
      <3> QED BY <3>1, <3>2
    <2>2. CASE v # w
      <3>1. exec'[v] = exec[v] /\ exec[v].asset = a
        BY <1>t, <1>2, <2>2
      <3>2. Leased(exec[v].job, a) /\ Phase(exec[v].job, exec[v].pc, a)
        BY <3>1 DEF QueueInv, ExecHolds
      <3>3. Phase(exec[v].job, exec[v].pc, a)'
        BY <3>1, <3>2 DEF Phase
      <3> QED BY <2>2, <3>1, <3>2, <3>3
    <2> QED BY <2>1, <2>2
  <1>3. ASSUME NEW u \in Workers, NEW v \in Workers, NEW a \in Assets PROVE Alone(u, v, a)'
    <2>1. Alone(u, v, a) /\ Alone(v, u, a)
      BY DEF QueueInv
    <2> QED BY <1>t, <2>1, UploadAssumption DEF Alone
  <1> QED BY <1>1, <1>2, <1>3 DEF QueueInv, ExecHolds

(* Statements at which a worker relies on no status.                       *)
LEMMA NoPhase ==
    ASSUME NEW a, NEW job, NEW pc \in {"idle", "check", "load", "enqueueHls"} \cup DonePcs
    PROVE  Phase(job, pc, a)
  BY DEF Phase, Judging, Transcoding, DonePcs

(* The pc each of the quiet statements goes on to, and what it relies on.  *)
QuietStep(w, a) ==
    \/ Check(w, a) \/ FailResources(w, a) \/ MarkResourcesReady(w, a) \/ MarkProcessed(w, a)
    \/ ScanLoad(w, a) \/ ScanRead(w, a) \/ ScanRemove(w, a) \/ ScanEnqueueHls(w, a)
    \/ HlsLoad(w, a) \/ HlsDownload(w, a) \/ HlsTranscode(w, a) \/ HlsUploadDir(w, a)

LEMMA QuietPhase ==
    ASSUME MediaInv, NEW w \in Workers, NEW a \in Assets, QuietStep(w, a),
           Phase(exec[w].job, exec[w].pc, a)
    PROVE  \E pc \in Pcs : Step(w, pc) /\ Phase(exec[w].job, pc, a)
  <1>d. {"load", "enqueueHls", "ok", "err", "skipRetry"} \subseteq Pcs
    BY DEF Pcs, BothPcs, ScanPcs, DonePcs
  <1>n. \A pc \in {"load", "enqueueHls", "ok", "err", "skipRetry"} : Phase(exec[w].job, pc, a)
    BY NoPhase DEF DonePcs
  <1>1. CASE Check(w, a) \/ MarkProcessed(w, a) \/ ScanEnqueueHls(w, a)
    <2>1. Step(w, "ok") \/ Step(w, "load") \/ Step(w, "enqueueHls")
      BY <1>1 DEF Check, MarkProcessed, ScanEnqueueHls, AfterMark
    <2> QED BY <1>d, <1>n, <2>1
  <1>2. CASE FailResources(w, a) \/ MarkResourcesReady(w, a)
    <2>1. Step(w, "mark") /\ exec[w].pc \in {"failResources", "resourcesReady"}
      BY <1>2 DEF FailResources, MarkResourcesReady
    <2>2. Phase(exec[w].job, "mark", a)
      BY <2>1 DEF Phase, Judging, Transcoding
    <2> QED BY <2>1, <2>2 DEF Pcs, BothPcs
  <1>3. CASE ScanLoad(w, a)
    <2>1. CASE status[a] = "uploaded"
      <3>1. Step(w, "claim")
        BY <1>3, <2>1 DEF ScanLoad
      <3>2. Phase(exec[w].job, "claim", a)
        BY <2>1 DEF Phase, Judging, Transcoding
      <3> QED BY <3>1, <3>2 DEF Pcs, ScanPcs
    <2>2. CASE status[a] # "uploaded"
      BY <1>3, <1>d, <1>n, <2>2 DEF ScanLoad
    <2> QED BY <2>1, <2>2
  <1>4. CASE ScanRead(w, a) \/ ScanRemove(w, a)
    <2>j. exec[w].job = "scan" /\ exec[w].pc \in {"read", "remove"}
      BY <1>4 DEF ScanRead, ScanRemove, Running
    <2>1. Step(w, "err") \/ \E pc \in {"failAsset", "remove", "toProcessing", "toReady", "infect"} :
              Step(w, pc)
      <3>1. CASE ScanRemove(w, a)
        BY <3>1 DEF ScanRemove
      <3>2. CASE ScanRead(w, a)
        <4>1. file[a].checksumOk \in BOOLEAN /\ file[a].mimeOk \in BOOLEAN
              /\ file[a].infected \in BOOLEAN /\ file[a].av \in BOOLEAN
          BY MediaAssumption DEF MediaInv, MediaTypeOK, FileAttributes
        <4>2. Verdict(file[a]) \in {"failAsset", "remove", "toProcessing", "toReady"}
          BY <4>1 DEF Verdict, Clean, Flagged
        <4>3. Step(w, "err") \/ Step(w, Verdict(file[a]))
          BY <3>2 DEF ScanRead
        <4> QED BY <4>2, <4>3
      <3> QED BY <1>4, <3>1, <3>2
    <2>2. ASSUME NEW pc \in {"failAsset", "remove", "toProcessing", "toReady", "infect"}
          PROVE  pc \in Pcs /\ Phase(exec[w].job, pc, a)
      BY <2>j DEF Phase, Judging, Pcs, ScanPcs, BothPcs
    <2> QED BY <1>d, <1>n, <2>1, <2>2
  <1>5. CASE HlsLoad(w, a)
    <2>1. Step(w, "ok") \/ Step(w, "skipRetry")
          \/ (status[a] = "processing" /\ Step(w, "download"))
      BY <1>5 DEF HlsLoad
    <2>2. status[a] = "processing" => Phase(exec[w].job, "download", a)
      BY <1>5 DEF HlsLoad, Running, Phase
    <2> QED BY <1>d, <1>n, <2>1, <2>2 DEF Pcs, HlsPcs
  <1>6. CASE HlsDownload(w, a) \/ HlsTranscode(w, a) \/ HlsUploadDir(w, a)
    <2>j. exec[w].job = "hls" /\ exec[w].pc \in Transcoding
      BY <1>6 DEF HlsDownload, HlsTranscode, HlsUploadDir, Running, Transcoding
    <2>1. Step(w, "err") \/ \E pc \in {"transcode", "uploadDir", "publish", "failAsset"} :
              Step(w, pc)
      BY <1>6 DEF HlsDownload, HlsTranscode, HlsUploadDir
    <2>2. ASSUME NEW pc \in {"transcode", "uploadDir", "publish", "failAsset"}
          PROVE  pc \in Pcs /\ Phase(exec[w].job, pc, a)
      BY <2>j DEF Phase, Transcoding, Pcs, HlsPcs, BothPcs
    <2> QED BY <1>d, <1>n, <2>1, <2>2
  <1> QED BY <1>1, <1>2, <1>3, <1>4, <1>5, <1>6 DEF QuietStep

LEMMA QuietStepQueue ==
    ASSUME MediaInv, QueueInv, NEW w \in Workers, NEW a \in Assets, QuietStep(w, a)
    PROVE  QueueInv'
  <1>t. /\ exec \in [Workers -> Exec] /\ MediaTypeOK /\ UploadTypeOK
        /\ hlsTask[a] \in Task
    BY DEF MediaInv, UploadInv, MediaTypeOK
  <1>a. exec[w].asset = a
    BY DEF QuietStep, Check, FailResources, MarkResourcesReady, MarkProcessed, ScanLoad,
           ScanRead, ScanRemove, ScanEnqueueHls, HlsLoad, HlsDownload, HlsTranscode,
           HlsUploadDir, Running
  <1>h. Leased(exec[w].job, a) /\ Phase(exec[w].job, exec[w].pc, a)
    BY <1>a DEF QueueInv, ExecHolds
  <1>1. PICK x \in Exec : /\ exec' = [exec EXCEPT ![w] = x]
                          /\ x.asset = a /\ x.job = exec[w].job
                          /\ Phase(x.job, x.pc, a)
    BY <1>t, <1>a, <1>h, QuietPhase, StepTyped
  <1>2. UNCHANGED <<status, stale, scanTask>>
    BY DEF QuietStep, Check, FailResources, MarkResourcesReady, MarkProcessed, ScanLoad,
           ScanRead, ScanRemove, ScanEnqueueHls, HlsLoad, HlsDownload, HlsTranscode,
           HlsUploadDir, uploadVars, NoUpload
  <1>3. \A b \in Assets, job \in Jobs : Leased(job, b) => Leased(job, b)'
    <2>1. CASE ScanEnqueueHls(w, a)
      BY <1>t, <1>2, <2>1, EnqueueKeeps DEF ScanEnqueueHls, Leased, MediaTypeOK
    <2>2. CASE ~ScanEnqueueHls(w, a)
      <3>1. UNCHANGED hlsTask
        BY <2>2 DEF QuietStep, Check, FailResources, MarkResourcesReady, MarkProcessed, ScanLoad,
             ScanRead, ScanRemove, HlsLoad, HlsDownload, HlsTranscode, HlsUploadDir
      <3> QED BY <1>2, <3>1 DEF Leased
    <2> QED BY <2>1, <2>2
  <1>4. \A b \in Assets : "scan" \in processed'[b] => "scan" \in processed[b] \/ status[b] \in Decided
    <2>1. CASE MarkProcessed(w, a)
      <3>1. exec[w].job = "scan" => status[a] \in Decided
        BY <1>h, <2>1 DEF MarkProcessed, Phase
      <3> QED BY <1>t, <2>1, <3>1 DEF MarkProcessed, MediaTypeOK
    <2>2. CASE ~MarkProcessed(w, a)
      <3>1. UNCHANGED processed
        BY <2>2 DEF QuietStep, Check, FailResources, MarkResourcesReady, ScanLoad,
             ScanRead, ScanRemove, ScanEnqueueHls, HlsLoad, HlsDownload, HlsTranscode, HlsUploadDir
      <3> QED BY <3>1
    <2> QED BY <2>1, <2>2
  <1>5. \A b \in Assets : resource'[b] = "ready" => resource[b] = "ready" \/ status[b] = "ready"
    <2>1. CASE MarkResourcesReady(w, a)
      <3>1. status[a] = "ready"
        BY <1>h, <2>1 DEF MarkResourcesReady, Phase
      <3> QED BY <1>t, <2>1, <3>1 DEF MarkResourcesReady, ResourcesReady, MediaTypeOK
    <2>2. CASE FailResources(w, a)
      BY <1>t, <2>2 DEF FailResources, ResourcesFailed, MediaTypeOK
    <2>3. CASE ~MarkResourcesReady(w, a) /\ ~FailResources(w, a)
      <3>1. UNCHANGED resource
        BY <2>3 DEF QuietStep, Check, MarkProcessed, ScanLoad, ScanRead, ScanRemove,
             ScanEnqueueHls, HlsLoad, HlsDownload, HlsTranscode, HlsUploadDir
      <3> QED BY <3>1
    <2> QED BY <2>1, <2>2, <2>3
  <1>6. ASSUME NEW v \in Workers, NEW b \in Assets, Leased(exec[v].job, b)
        PROVE  Leased(exec[v].job, b)'
    <2>1. exec'[v].job = exec[v].job /\ exec[v].job \in Jobs
      BY <1>t, <1>1 DEF Exec
    <2>2. \A job \in Jobs : Leased(job, b) => Leased(job, b)'
      BY <1>3
    <2> QED BY <1>6, <2>1, <2>2 DEF Leased
  <1>7. \A b \in Assets : x.asset = b => Leased(x.job, b)' /\ Phase(x.job, x.pc, b)
    <2>1. x.job \in Jobs
      BY DEF Exec
    <2>2. Leased(x.job, a)'
      BY <1>h, <1>1, <1>3, <2>1
    <2> QED BY <1>1, <2>2
  <1> QED BY <1>a, <1>1, <1>2, <1>4, <1>5, <1>6, <1>7, QuietQueue

LEMMA BrokenQueue ==
    ASSUME MediaInv, QueueInv, NEW w \in Workers, JobError(w) \/ WorkerCrash(w)
    PROVE  QueueInv'
  <1>t. exec \in [Workers -> Exec]
    BY DEF MediaInv, MediaTypeOK
  <1>f. UNCHANGED <<status, stale, scanTask, hlsTask, processed, resource>>
    BY DEF JobError, WorkerCrash, uploadVars
  <1>1. PICK x \in Exec : /\ exec' = [exec EXCEPT ![w] = x]
                          /\ x.asset = NoAsset \/ (x.asset = exec[w].asset /\ x.job = exec[w].job)
                          /\ x.pc \in {"err", "idle"}
    <2>1. CASE JobError(w)
      BY <1>t, <2>1, StepTyped DEF JobError, Pcs, DonePcs
    <2>2. CASE WorkerCrash(w)
      BY <2>2, NoExecTyped DEF WorkerCrash
    <2> QED BY <2>1, <2>2
  <1>2. \A v \in Workers \ {w}, a \in Assets : exec[v].asset = a =>
            (Leased(exec[v].job, a) => Leased(exec[v].job, a)')
    BY <1>t, <1>f, <1>1 DEF Leased
  <1>3. ASSUME NEW a \in Assets, x.asset = a PROVE Leased(x.job, a)' /\ Phase(x.job, x.pc, a)
    <2>1. x.asset = exec[w].asset /\ x.job = exec[w].job
      BY <1>1, <1>3, UploadAssumption
    <2>2. Leased(x.job, a)
      BY <1>3, <2>1 DEF QueueInv, ExecHolds
    <2>3. Phase(x.job, x.pc, a)
      BY <1>1, NoPhase DEF DonePcs
    <2> QED BY <1>f, <2>2, <2>3 DEF Leased
  <1> QED BY <1>f, <1>1, <1>2, <1>3, QuietQueue

(* A worker that writes the status is the only one to rely on what it was. *)
LEMMA StatusQueue ==
    ASSUME MediaInv, QueueInv, NEW w \in Workers, NEW a \in Assets,
           FailAsset(w, a) \/ ScanClaim(w, a) \/ ScanInfect(w, a)
               \/ ScanToProcessing(w, a) \/ ScanToReady(w, a) \/ HlsPublish(w, a)
    PROVE  QueueInv'
  <1>t. exec \in [Workers -> Exec] /\ exec[w] \in Exec /\ MediaTypeOK /\ UploadTypeOK
    BY DEF MediaInv, UploadInv, MediaTypeOK
  <1>a. exec[w].asset = a
    BY DEF FailAsset, ScanClaim, ScanInfect, ScanToProcessing, ScanToReady, HlsPublish,
           Running
  <1>h. Leased(exec[w].job, a) /\ Phase(exec[w].job, exec[w].pc, a)
    BY <1>a DEF QueueInv, ExecHolds
  <1>f. UNCHANGED <<scanTask, hlsTask, processed, resource>>
    BY DEF FailAsset, ScanClaim, ScanInfect, ScanToProcessing, ScanToReady, HlsPublish
  <1> DEFINE Outcome(s, pc) ==
        \/ /\ exec[w].job = "scan" /\ status[a] \in {"uploaded", "scanning"}
           /\ \/ s = "scanning" /\ pc = "read"
              \/ s = "failed" /\ pc = "failResources"
              \/ s \in {"infected", "processing"} /\ pc = "mark"
              \/ s = "ready" /\ pc = "resourcesReady"
        \/ /\ exec[w].job = "hls" /\ status[a] = "processing"
           /\ \/ s = "failed" /\ pc = "failResources"
              \/ s = "ready" /\ pc = "resourcesReady"
  <1>1. \E s, pc : SetStatus(a, s) /\ Step(w, pc) /\ Outcome(s, pc) /\ pc \in Pcs
    <2>1. CASE FailAsset(w, a)
      <3>1. SetStatus(a, "failed") /\ Step(w, "failResources")
        BY <2>1 DEF FailAsset
      <3>2. Outcome("failed", "failResources")
        BY <1>t, <1>h, <2>1 DEF FailAsset, Phase, Judging, Exec, Jobs
      <3> QED BY <3>1, <3>2 DEF Pcs, BothPcs
    <2>2. CASE ScanClaim(w, a)
      <3>1. SetStatus(a, "scanning") /\ Step(w, "read")
        BY <2>2 DEF ScanClaim
      <3>2. Outcome("scanning", "read")
        BY <1>h, <2>2 DEF ScanClaim, Running, Phase
      <3> QED BY <3>1, <3>2 DEF Pcs, ScanPcs
    <2>3. CASE ScanInfect(w, a)
      <3>1. SetStatus(a, "infected") /\ Step(w, "mark")
        BY <2>3 DEF ScanInfect
      <3>2. Outcome("infected", "mark")
        BY <1>h, <2>3 DEF ScanInfect, Running, Phase, Judging
      <3> QED BY <3>1, <3>2 DEF Pcs, BothPcs
    <2>4. CASE ScanToProcessing(w, a)
      <3>1. SetStatus(a, "processing") /\ Step(w, "mark")
        BY <2>4 DEF ScanToProcessing
      <3>2. Outcome("processing", "mark")
        BY <1>h, <2>4 DEF ScanToProcessing, Running, Phase, Judging
      <3> QED BY <3>1, <3>2 DEF Pcs, BothPcs
    <2>5. CASE ScanToReady(w, a)
      <3>1. SetStatus(a, "ready") /\ Step(w, "resourcesReady")
        BY <2>5 DEF ScanToReady
      <3>2. Outcome("ready", "resourcesReady")
        BY <1>h, <2>5 DEF ScanToReady, Running, Phase, Judging
      <3> QED BY <3>1, <3>2 DEF Pcs, BothPcs
    <2>6. CASE HlsPublish(w, a)
      <3>1. SetStatus(a, "ready") /\ Step(w, "resourcesReady")
        BY <2>6 DEF HlsPublish
      <3>2. Outcome("ready", "resourcesReady")
        BY <1>h, <2>6 DEF HlsPublish, Running, Phase, Transcoding
      <3> QED BY <3>1, <3>2 DEF Pcs, BothPcs
    <2> QED BY <2>1, <2>2, <2>3, <2>4, <2>5, <2>6
  <1>2. PICK s, pc : SetStatus(a, s) /\ Step(w, pc) /\ Outcome(s, pc) /\ pc \in Pcs
    BY <1>1
  <1>3. PICK x \in Exec : /\ exec' = [exec EXCEPT ![w] = x] /\ x.pc = pc
                          /\ x.asset = a /\ x.job = exec[w].job
    BY <1>t, <1>a, <1>2, StepTyped
  <1>4. /\ status'[a] = s /\ ~stale'[a]
        /\ \A b \in Assets : b # a => status'[b] = status[b] /\ stale'[b] = stale[b]
    BY <1>t, <1>2 DEF SetStatus, UploadTypeOK, MediaTypeOK
  <1>5. ASSUME NEW b \in Assets PROVE ShownHolds(b)'
    <2>1. ShownHolds(b)
      BY DEF QueueInv
    <2>2. CASE b = a
      BY <1>2, <1>4, <1>f, <2>1, <2>2 DEF ShownHolds, Decided
    <2>3. CASE b # a
      BY <1>4, <1>f, <2>1, <2>3 DEF ShownHolds
    <2> QED BY <2>2, <2>3
  <1>6. ASSUME NEW v \in Workers, NEW b \in Assets, exec'[v].asset = b
        PROVE  Leased(exec[v].job, b)' /\ Phase(exec[v].job, exec[v].pc, b)'
    <2>1. CASE v = w
      <3>1. exec'[v] = x /\ b = a
        BY <1>t, <1>3, <1>6, <2>1
      <3>2. Leased(x.job, a)'
        BY <1>f, <1>h, <1>3 DEF Leased
      <3>3. Phase(x.job, x.pc, a)'
        BY <1>2, <1>3, <1>4 DEF Phase, Decided, Judging, Transcoding
      <3> QED BY <3>1, <3>2, <3>3
    <2>2. CASE v # w
      <3>1. exec'[v] = exec[v] /\ exec[v].asset = b /\ exec[v] \in Exec
        BY <1>t, <1>3, <1>6, <2>2
      <3>2. Leased(exec[v].job, b) /\ Phase(exec[v].job, exec[v].pc, b)
        BY <3>1 DEF QueueInv, ExecHolds
      <3>3. Leased(exec[v].job, b)'
        BY <1>f, <3>1, <3>2 DEF Leased
      <3>4. CASE b # a
        BY <1>4, <3>1, <3>2, <3>3, <3>4 DEF Phase
      <3>5. CASE b = a
        <4>1. exec[v].job # exec[w].job
          BY <1>a, <2>2, <3>1, <3>5 DEF QueueInv, Alone
        <4>2. Phase(exec[v].job, exec[v].pc, a)'
          BY <1>2, <1>4, <3>1, <3>2, <3>5, <4>1 DEF Phase, Decided, Judging, Transcoding
        <4> QED BY <3>3, <3>5, <4>2
      <3> QED BY <3>4, <3>5
    <2> QED BY <2>1, <2>2
  <1>7. ASSUME NEW u \in Workers, NEW v \in Workers, NEW b \in Assets PROVE Alone(u, v, b)'
    <2>1. Alone(u, v, b) /\ Alone(v, u, b)
      BY DEF QueueInv
    <2> QED BY <1>t, <1>a, <1>3, <2>1 DEF Alone
  <1> QED BY <1>5, <1>6, <1>7 DEF QueueInv, ExecHolds

(* A record that is not active is nobody's: its delivery makes one worker  *)
(* the only one.                                                           *)
LEMMA StartQueue ==
    ASSUME MediaInv, QueueInv, NEW w \in Workers, NEW a \in Assets,
           StartScan(w, a) \/ StartTranscode(w, a)
    PROVE  QueueInv'
  <1>t. /\ exec \in [Workers -> Exec] /\ MediaTypeOK /\ UploadTypeOK
        /\ scanTask[a] \in Task /\ hlsTask[a] \in Task
    BY DEF MediaInv, UploadInv, MediaTypeOK, UploadTypeOK
  <1>f. UNCHANGED <<status, stale, processed, resource>>
    BY DEF StartScan, StartTranscode, uploadVars
  <1>1. PICK job \in Jobs : /\ exec' = [exec EXCEPT ![w] = [job |-> job, asset |-> a, pc |-> "check"]]
                            /\ ~Leased(job, a) /\ Leased(job, a)'
                            /\ \A k \in Jobs, b \in Assets : Leased(k, b) => Leased(k, b)'
    <2>1. CASE StartScan(w, a)
      <3>1. scanTask[a].st # "active" /\ Deliver(scanTask[a]).st = "active"
        BY <1>t, <2>1, DeliverTyped DEF StartScan
      <3> QED BY <1>t, <2>1, <3>1 DEF StartScan, Leased, Jobs, UploadTypeOK
    <2>2. CASE StartTranscode(w, a)
      <3>1. hlsTask[a].st # "active" /\ Deliver(hlsTask[a]).st = "active"
        BY <1>t, <2>2, DeliverTyped DEF StartTranscode
      <3> QED BY <1>t, <2>2, <3>1 DEF StartTranscode, Leased, Jobs, MediaTypeOK, uploadVars
    <2> QED BY <2>1, <2>2
  <1>2. \A b \in Assets : ShownHolds(b)'
    BY <1>f DEF QueueInv, ShownHolds
  <1>3. ASSUME NEW v \in Workers, NEW b \in Assets, exec'[v].asset = b
        PROVE  Leased(exec[v].job, b)' /\ Phase(exec[v].job, exec[v].pc, b)'
    <2>1. CASE v = w
      <3>1. exec'[v].job = job /\ exec'[v].pc = "check" /\ b = a
        BY <1>t, <1>1, <1>3, <2>1
      <3>2. Phase(job, "check", a)'
        BY DEF Phase, Judging, Transcoding
      <3> QED BY <1>1, <3>1, <3>2 DEF Leased, Phase
    <2>2. CASE v # w
      <3>1. exec'[v] = exec[v] /\ exec[v].asset = b /\ exec[v].job \in Jobs
        BY <1>t, <1>1, <1>3, <2>2 DEF Exec
      <3>2. Leased(exec[v].job, b) /\ Phase(exec[v].job, exec[v].pc, b)
        BY <3>1 DEF QueueInv, ExecHolds
      <3>3. Leased(exec[v].job, b)'
        BY <1>1, <3>1, <3>2 DEF Leased
      <3> QED BY <1>f, <3>1, <3>2, <3>3 DEF Phase
    <2> QED BY <2>1, <2>2
  <1>4. ASSUME NEW u \in Workers, NEW v \in Workers, NEW b \in Assets PROVE Alone(u, v, b)'
    <2>1. Alone(u, v, b) /\ ExecHolds(u, b) /\ ExecHolds(v, b)
      BY DEF QueueInv
    <2>2. exec[u].asset = a => exec[u].job # job
      BY <1>1 DEF QueueInv, ExecHolds
    <2>3. exec[v].asset = a => exec[v].job # job
      BY <1>1 DEF QueueInv, ExecHolds
    <2> QED BY <1>t, <1>1, <2>1, <2>2, <2>3 DEF Alone
  <1> QED BY <1>2, <1>3, <1>4 DEF QueueInv, ExecHolds

(* The worker that reports is the only one with that job.                  *)
LEMMA ReturnQueue ==
    ASSUME MediaInv, QueueInv, NEW w \in Workers, NEW a \in Assets, JobReturn(w, a)
    PROVE  QueueInv'
  <1>t. exec \in [Workers -> Exec] /\ exec[w] \in Exec /\ MediaTypeOK /\ UploadTypeOK
    BY DEF MediaInv, UploadInv, MediaTypeOK
  <1>1. exec[w].asset = a /\ exec' = [exec EXCEPT ![w] = NoExec]
        /\ UNCHANGED <<status, stale, processed, resource>>
    BY DEF JobReturn
  <1>2. \A v \in Workers \ {w}, b \in Assets : exec[v].asset = b =>
            (Leased(exec[v].job, b) => Leased(exec[v].job, b)')
    <2> TAKE v \in Workers \ {w}, b \in Assets
    <2> HAVE exec[v].asset = b
    <2> HAVE Leased(exec[v].job, b)
    <2>1. exec'[v] = exec[v] /\ exec[v].job \in Jobs /\ exec[w].job \in Jobs
      BY <1>t, <1>1 DEF Exec
    <2>2. b = a => exec[v].job # exec[w].job
      BY <1>1 DEF QueueInv, Alone
    <2>3. CASE exec[w].job = "scan"
      BY <1>t, <2>1, <2>2, <2>3 DEF JobReturn, Leased, Jobs, UploadTypeOK
    <2>4. CASE exec[w].job # "scan"
      BY <1>t, <2>1, <2>2, <2>4 DEF JobReturn, Leased, Jobs, MediaTypeOK
    <2> QED BY <2>3, <2>4
  <1> QED BY <1>1, <1>2, NoExecTyped, UploadAssumption, QuietQueue

-----------------------------------------------------------------------------
(* A step that moves no worker keeps what the workers rely on.             *)
LEMMA IdleQueue ==
    ASSUME MediaInv, QueueInv, UNCHANGED <<exec, processed>>,
           \A w \in Workers, a \in Assets : exec[w].asset = a =>
               /\ Leased(exec[w].job, a)'
               /\ Phase(exec[w].job, exec[w].pc, a)',
           \A a \in Assets : status[a] \in Decided => status'[a] = status[a],
           \A a \in Assets : resource'[a] = "ready" => resource[a] = "ready"
    PROVE  QueueInv'
  <1>1. \A a \in Assets : ShownHolds(a)'
    BY DEF QueueInv, ShownHolds, Decided
  <1>2. \A w \in Workers, a \in Assets : ExecHolds(w, a)'
    BY DEF ExecHolds
  <1>3. \A v, w \in Workers, a \in Assets : Alone(v, w, a)'
    BY DEF QueueInv, Alone
  <1> QED BY <1>1, <1>2, <1>3 DEF QueueInv

LEMMA UploadsQueue ==
    ASSUME MediaInv, QueueInv, ClientNext \/ \E r \in Reapers : ReapExpired(r),
           UNCHANGED mediaVars
    PROVE  QueueInv'
  <1>f. UNCHANGED <<exec, processed, resource, hlsTask, stale>>
    BY DEF mediaVars
  <1>1. ASSUME NEW a \in Assets
        PROVE  Delivered(a) => /\ status'[a] = status[a]
                               /\ scanTask[a].st = "active" => scanTask'[a].st = "active"
    <2>1. Feeds(a) /\ scanTask[a] \in Task
      BY UploadsFeed DEF MediaInv, UploadInv, UploadTypeOK
    <2> QED BY <2>1, EnqueueKeeps DEF Feeds
  <1>2. ASSUME NEW w \in Workers, NEW a \in Assets, exec[w].asset = a
        PROVE  Leased(exec[w].job, a)' /\ Phase(exec[w].job, exec[w].pc, a)'
    <2>1. Delivered(a) /\ Leased(exec[w].job, a) /\ Phase(exec[w].job, exec[w].pc, a)
      BY <1>2 DEF MediaInv, OnlyDelivered, QueueInv, ExecHolds
    <2>2. Leased(exec[w].job, a)'
      BY <1>f, <1>1, <2>1 DEF Leased
    <2> QED BY <1>f, <1>1, <2>1, <2>2 DEF Phase
  <1>3. \A a \in Assets : status[a] \in Decided => status'[a] = status[a]
    BY <1>1 DEF Decided, Delivered
  <1> QED BY <1>f, <1>2, <1>3, IdleQueue

(* Records that stay active, and a status and an age that stay too.        *)
LEMMA CalmQueue ==
    ASSUME MediaInv, QueueInv, UNCHANGED <<exec, processed, status, stale>>,
           \A a \in Assets : resource'[a] = "ready" => resource[a] = "ready",
           \A w \in Workers, a \in Assets : exec[w].asset = a =>
               (Leased(exec[w].job, a) => Leased(exec[w].job, a)')
    PROVE  QueueInv'
  <1>1. ASSUME NEW w \in Workers, NEW a \in Assets, exec[w].asset = a
        PROVE  Leased(exec[w].job, a)' /\ Phase(exec[w].job, exec[w].pc, a)'
    <2>1. Leased(exec[w].job, a) /\ Phase(exec[w].job, exec[w].pc, a)
      BY <1>1 DEF QueueInv, ExecHolds
    <2>2. Leased(exec[w].job, a)'
      BY <1>1, <2>1
    <2> QED BY <2>1, <2>2 DEF Phase
  <1> QED BY <1>1, IdleQueue

LEMMA OthersQueue ==
    ASSUME MediaInv, QueueInv, NEW a \in Assets,
           AttachResource(a) \/ Age(a) \/ Recover(a) \/ Retention(a)
    PROVE  QueueInv'
  <1>t. exec \in [Workers -> Exec] /\ MediaTypeOK /\ UploadTypeOK
    BY DEF MediaInv, UploadInv, MediaTypeOK
  <1>1. CASE AttachResource(a)
    <2>1. UNCHANGED <<exec, processed, status, stale, scanTask, hlsTask>>
      BY <1>1 DEF AttachResource, uploadVars
    <2>2. \A b \in Assets : resource'[b] = "ready" => resource[b] = "ready"
      BY <1>t, <1>1 DEF AttachResource, MediaTypeOK
    <2> QED BY <2>1, <2>2, CalmQueue DEF Leased
  <1>2. CASE Age(a)
    <2>1. UNCHANGED <<exec, processed, status, resource, scanTask, hlsTask>>
      BY <1>2 DEF Age, uploadVars
    <2>2. ASSUME NEW w \in Workers, NEW b \in Assets, exec[w].asset = b
          PROVE  Leased(exec[w].job, b)' /\ Phase(exec[w].job, exec[w].pc, b)'
      <3>1. Leased(exec[w].job, b) /\ Phase(exec[w].job, exec[w].pc, b)
        BY <2>2 DEF QueueInv, ExecHolds
      <3>2. Leased(exec[w].job, b)'
        BY <2>1, <3>1 DEF Leased
      <3>3. exec[w].job = "scan" /\ exec[w].pc \in Judging => stale'[b] = stale[b]
        <4>1. CASE b # a
          BY <1>t, <1>2, <4>1 DEF Age, MediaTypeOK
        <4>2. CASE b = a
          BY <1>2, <2>2, <3>1, <4>2 DEF Age, Phase, Judging, DonePcs
        <4> QED BY <4>1, <4>2
      <3> QED BY <2>1, <3>1, <3>2, <3>3 DEF Phase
    <2> QED BY <2>1, <2>2, IdleQueue
  <1>3. CASE Recover(a) \/ Retention(a)
    <2>1. UNCHANGED <<exec, processed, status, stale, resource>>
      BY <1>3 DEF Recover, Retention, uploadVars, mediaVars
    <2>2. ASSUME NEW w \in Workers, NEW b \in Assets, exec[w].asset = b, Leased(exec[w].job, b)
          PROVE  Leased(exec[w].job, b)'
      <3>1. exec[w].job \in Jobs
        BY <1>t DEF Exec
      <3>2. CASE Recover(a)
        BY <1>t, <2>1, <2>2, <3>1, <3>2 DEF Recover, Executing, Leased, Jobs, UploadTypeOK,
           MediaTypeOK, uploadVars, mediaVars
      <3>3. CASE Retention(a)
        BY <1>t, <2>1, <2>2, <3>1, <3>3 DEF Retention, Leased, Jobs, UploadTypeOK,
           MediaTypeOK, uploadVars, mediaVars
      <3> QED BY <1>3, <3>2, <3>3
    <2> QED BY <2>1, <2>2, CalmQueue
  <1> QED BY <1>1, <1>2, <1>3

(* A maintenance job sends back only scans that nobody is executing.       *)
LEMMA ReapQueue ==
    ASSUME MediaInv, QueueInv, NEW r \in Reapers, ReapMedia(r) \/ ReapError(r)
    PROVE  QueueInv'
  <1>t. MediaTypeOK /\ UploadTypeOK
    BY DEF MediaInv, UploadInv
  <1>1. CASE ReapSelectScans(r) \/ ReapSelectHls(r) \/ ReapDone(r) \/ ReapError(r)
    <2>1. UNCHANGED <<exec, processed, status, stale, resource, scanTask, hlsTask>>
      BY <1>1 DEF ReapSelectScans, ReapSelectHls, ReapDone, ReapError, mediaVars
    <2> QED BY <2>1, CalmQueue DEF Leased
  <1>2. CASE \E a \in Assets : ReapEnqueueScan(r, a) \/ ReapEnqueueHls(r, a)
    <2> PICK a \in Assets : ReapEnqueueScan(r, a) \/ ReapEnqueueHls(r, a)
      BY <1>2
    <2>1. UNCHANGED <<exec, processed, status, stale, resource>>
      BY DEF ReapEnqueueScan, ReapEnqueueHls
    <2>2. \A b \in Assets : /\ scanTask[b].st = "active" => scanTask'[b].st = "active"
                            /\ hlsTask[b].st = "active" => hlsTask'[b].st = "active"
      <3>1. /\ scanTask[a] \in Task /\ hlsTask[a] \in Task
            /\ scanTask \in [Assets -> Task] /\ hlsTask \in [Assets -> Task]
        BY <1>t DEF UploadTypeOK, MediaTypeOK
      <3>2. CASE ReapEnqueueScan(r, a)
        BY <3>1, <3>2, EnqueueKeeps DEF ReapEnqueueScan
      <3>3. CASE ReapEnqueueHls(r, a)
        BY <3>1, <3>3, EnqueueKeeps DEF ReapEnqueueHls
      <3> QED BY <3>2, <3>3
    <2> QED BY <2>1, <2>2, CalmQueue DEF Leased
  <1>3. CASE ReapUnstick(r)
    <2>1. UNCHANGED <<exec, processed, resource, scanTask, hlsTask>>
      BY <1>3 DEF ReapUnstick
    <2>2. \A a \in Assets : /\ status'[a] = IF status[a] = "scanning" /\ stale[a] THEN "uploaded"
                                            ELSE status[a]
                            /\ stale'[a] => stale[a]
      BY <1>3 DEF ReapUnstick, Orphans
    <2>3. ASSUME NEW w \in Workers, NEW a \in Assets, exec[w].asset = a
          PROVE  Leased(exec[w].job, a)' /\ Phase(exec[w].job, exec[w].pc, a)'
      <3>1. Leased(exec[w].job, a) /\ Phase(exec[w].job, exec[w].pc, a)
        BY <2>3 DEF QueueInv, ExecHolds
      <3>2. Leased(exec[w].job, a)'
        BY <2>1, <3>1 DEF Leased
      <3>3. Phase(exec[w].job, exec[w].pc, a)'
        BY <2>1, <2>2, <3>1 DEF Phase, Decided
      <3> QED BY <3>2, <3>3
    <2>4. \A a \in Assets : status[a] \in Decided => status'[a] = status[a]
      BY <2>2 DEF Decided
    <2> QED BY <2>1, <2>3, <2>4, IdleQueue
  <1> QED BY <1>1, <1>2, <1>3 DEF ReapMedia

-----------------------------------------------------------------------------
LEMMA QueueInit == Init => QueueInv
  BY UploadAssumption DEF Init, MediaInit, NoExec, QueueInv, ShownHolds, ExecHolds, Alone

LEMMA QueueNext ==
    ASSUME "loss" \notin FaultKinds, MediaInv, QueueInv, [Next]_vars
    PROVE  QueueInv'
  <1>1. CASE (ClientNext \/ \E r \in Reapers : ReapExpired(r)) /\ UNCHANGED mediaVars
    BY <1>1, UploadsQueue
  <1>2. CASE \E a \in Assets : AttachResource(a) \/ Age(a) \/ Recover(a) \/ Retention(a)
    BY <1>2, OthersQueue
  <1>3. CASE \E w \in Workers, a \in Assets : JobStep(w, a)
    <2> PICK w \in Workers, a \in Assets : JobStep(w, a)
      BY <1>3
    <2> QED BY QuietStepQueue, StatusQueue, StartQueue, ReturnQueue
            DEF JobStep, CommonStep, ScanStep, HlsStep, QuietStep
  <1>4. CASE \E r \in Reapers : ReapMedia(r) \/ ReapError(r)
    BY <1>4, ReapQueue
  <1>5. CASE \E w \in Workers : JobError(w) \/ WorkerCrash(w)
    BY <1>5, BrokenQueue
  <1>6. CASE RedisLoss
    BY <1>6 DEF RedisLoss, Fault
  <1>7. CASE UNCHANGED vars
    <2>1. UNCHANGED <<exec, processed, status, stale, resource, scanTask, hlsTask>>
      BY <1>7 DEF vars, uploadVars, mediaVars
    <2> QED BY <2>1, CalmQueue DEF Leased
  <1> QED BY <1>1, <1>2, <1>3, <1>4, <1>5, <1>6, <1>7 DEF Next, ReapStep

LEMMA QueueInvCorrect == ASSUME "loss" \notin FaultKinds PROVE Spec => []QueueInv
  <1>1. QueueInv /\ MediaInv /\ [Next]_vars => QueueInv'
    BY QueueNext
  <1>2. Init => QueueInv
    BY QueueInit
  <1> QED BY <1>1, <1>2, MediaInvCorrect, PTL DEF Spec

(* Skipping the redelivery of a scan that is recorded as processed loses   *)
(* nothing, as long as Redis keeps its records.                            *)
THEOREM SkippedScansAreDecided == Spec => []ScanProcessedIsDecided
  <1>1. CASE "loss" \in FaultKinds
    <2>1. ScanProcessedIsDecided
      BY <1>1 DEF ScanProcessedIsDecided
    <2> QED BY <2>1, PTL
  <1>2. CASE "loss" \notin FaultKinds
    <2>1. QueueInv => ScanProcessedIsDecided
      BY DEF QueueInv, ShownHolds, Decided, ScanProcessedIsDecided
    <2>2. Spec => []QueueInv
      BY <1>2, QueueInvCorrect
    <2> QED BY <2>1, <2>2, PTL
  <1> QED BY <1>1, <1>2

(* A resource shown as ready can be delivered and stays so, as long as     *)
(* Redis keeps its records.                                                *)
THEOREM ReadyResourcesAreServed == Spec => []ReadyResourceIsServed
  <1>1. CASE "loss" \in FaultKinds
    <2>1. ReadyResourceIsServed
      BY <1>1 DEF ReadyResourceIsServed
    <2> QED BY <2>1, PTL
  <1>2. CASE "loss" \notin FaultKinds
    <2>1. QueueInv => ReadyResourceIsServed
      BY DEF QueueInv, ShownHolds, ReadyResourceIsServed, Downloadable
    <2>2. Spec => []QueueInv
      BY <1>2, QueueInvCorrect
    <2> QED BY <2>1, <2>2, PTL
  <1> QED BY <1>1, <1>2
=============================================================================
