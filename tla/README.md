# Platform MOOC Cloud: verification project

This directory holds TLA+ models of the backend of the platform (the Go code
under `src/internal` and `src/cmd`), the TLC runs that check them on small
instances, and proofs, checked by TLAPS, of theorems that hold for every
instance. `PROJECT.json` is the index: components, runs, mutants, the map from
definitions to source lines, findings, hazards and theorems.

## The system

An API (gin, `internal/api`) and a worker (`cmd/worker`, `internal/tasks`)
share PostgreSQL (the source of truth, `db/init.sql`), Redis (the asynq queue,
the session cache, idempotency keys, rate counters) and an S3-compatible
object store (`internal/storage`). Any number of replicas of both run.

| Component | State | Operations | Interacts with |
|---|---|---|---|
| Resumable uploads, `handlers_media.go` | `assets`, `uploads`, the store's multipart uploads and objects | init, presign, status, complete, abort | publishes `scan:<asset>`; the client PUTs parts to the store |
| Media jobs, `tasks/scan.go`, `transcode.go` | `assets.status`, `hls_prefix`, `resources.processing_status`, objects, `processed_jobs` | scan, transcode | scan publishes `hls:<asset>`; delivery reads the result |
| Queue, `queue.go`, `tasks.go` | asynq records in Redis, `processed_jobs` | Enqueue with TaskID, delivery, retries, dead letters | every publisher and job |
| Maintenance, `tasks/reap.go` | none | seven repair steps every five minutes | rows of all the others; republishes jobs |
| Delivery, `handlers_media.go` | none | signed URL, playlist | reads `assets` |
| Progress, `progress.go`, `handlers_learning.go` | `enrollments`, `resource_progress` | enrol, withdraw, event, `Recompute` | publishes `badge:<enrollment>` |
| Quiz attempts, `handlers_quiz_attempts.go` | `quiz_attempts` | start, read, save, submit, expiry | completes the quiz's resource, calls `Recompute`; its key is `idempotency.go`'s |
| Course versions, `handlers_courses.go`, `handlers_content.go`, `handlers_quiz_authoring.go` | `courses`, `course_versions` and their trees | draft, edit, publish, unpublish | `current_version_id` decides what students see |
| Badges, `tasks/badge.go`, `handlers_badges.go` | `badges`, an image in the store | issue, revoke, verify | publishes the email |
| Accounts, `internal/auth`, `handlers_auth.go`, `middleware.go` | `sessions`, `auth_tokens`, cache in Redis | login, validate, revoke, tokens | every request |
| Administration, `handlers_admin.go` | `users` | create, change role or status, close sessions | revokes sessions |
| Idempotency and rate limit | keys in Redis | reserve, store, replay; count | quiz submission, uploads |
| Email, configuration, metrics, telemetry, frontend, deployment | – | – | not modelled |

What is hard in it:

* **Handlers are not transactions.** Most run several statements, each under
  the request's context: a disconnection, an error or a crash stops them
  anywhere, and two requests interleave between any two statements.
* **At-least-once jobs.** asynq redelivers; Redis may lose everything; the
  design answers with three layers (TaskID = job key, `processed_jobs`, unique
  indexes and status checks) and a maintenance job that republishes.
* **Layers that fight each other.** A key kept after its task completed, or a
  job recorded as processed although it skipped, blocks the repair that
  another layer attempts.
* **Versions move under students.** A publication changes what is required
  between the statements of `Recompute` and between a quiz and its result.
* **A guard is a statement of its own.** Every edit of a version first reads
  that it is a draft, every login first compares a password, every submission
  first reads an open attempt; what was read can be false when it is used.
* **A cache beside the truth.** A session is answered from Redis for five minutes;
  a revocation has to reach it, also when it races a validation.

What makes each component correct is stated as properties, below; `PROJECT.json`
lists the hazards, at their lines, with the properties that answer them.

## Modules

    TaskQueue            the record of one asynq task, as operators
      UploadSession      uploads and step 1 of the maintenance job
        UploadSessionProofs
        MediaPipeline    + scan, transcode, resources, steps 2-4, faults
          MediaPipelineProofs
      CourseProgress     enrolment, events, quizzes, versions, Recompute
        CourseProgressProofs
        BadgeIssuance    + the badge job, revocation, step 5, faults
          BadgeRegistry  (abstract) what verification promises; refined
          BadgeIssuanceProofs
    PartPlan             planParts, the cut of a file into parts
      PartPlanProofs
    QuizAttempts         start, save, submit, keys, step 6
      QuizAttemptsProofs
    CourseVersions       drafts, edits, validation, publication, cloning
      CourseVersionsProofs
    Accounts             users, sessions, cache, tokens, step 7
      AccountsProofs
    MC*                  instances for TLC

**Granularity.** One action is one statement that reaches PostgreSQL, Redis or
the store. What a request or job remembers between statements is a record
(`call`, `req`, `exec`) whose `pc` names the next statement; an early return is
a step back to idle. Statements of one SQL transaction are one action where
nobody can see between them; where its locks decide what others do, the
transaction is several actions that hold them (`LockUser` to `WriteUser` in
`Accounts`, `PublishSupersede` to `PublishCommit` in `CourseVersions`). Any
request may stop anywhere (`Drop`): the client went away, a statement failed, or
the process died. What was written stays.

**Inheritance of state.** `MediaPipeline` extends `UploadSession`, and
`BadgeIssuance` extends `CourseProgress`: the larger module's `Next` takes the
smaller one's actions, with its own variables unchanged, and adds the jobs that
act on the shared rows.

### TaskQueue

All jobs with a key are published with `TaskID` = key, so Redis holds one
record per key. `Enqueue` leaves an existing record alone in whatever state it
is (`queue.go` turns the conflict into success), completed records stay for
`Retention(24h)`, exhausted ones go to the archive. The behaviour of asynq
itself is external: modelled from the options the code passes and the errors
it handles. Bound: `MaxRetries`.

### UploadSession

`upload` is the row of `uploads` with the timestamps as booleans and `key` for
`assets.object_key` (stored last by `handleInitUpload`); `mp`, `parts`,
`object` are the store; `status` and `scanTask` are shared with the jobs.
`reap[r]` is where the maintenance job `r` stands: every replica of the worker has
a scheduler (`worker/main.go:121-126`), and the maintenance task is published
without a key, so that several jobs may overlap. The number of parts is the
constant `TotalParts`; the run gives it the value `PartPlan` computes for its
file.

The user PUTs parts with URLs that outlive the row's expiry, so `PutPart` only
depends on the multipart upload being open. `ReapAbort` may leave the multipart
upload as it is and still mark the row, because the code only logs the store's
answer.

### MediaPipeline

`file` is the uploaded content, reduced to what the handlers tell apart:
video/audio, checksum, MIME, signature, whether ffmpeg can process it.
`Verdict` is the order of the three checks. `stale` says that `updated_at` is
older than the maintenance job's limit; a scan is cut off by its timeout (five
minutes) well before its asset counts as stuck (thirty), which is the guard of
`Age`. A record that is active without a live execution is retried (`Recover`).
`RedisLoss` empties the queue while jobs go on, which is what makes two
executions of one job overlap. `AttachResource` leaves the resource `pending` or
`not_applicable` as the request's own type says (`handlers_content.go:222`),
which the code never compares with the file: a resource of type video may hang
from a document, and the scan shows it as ready.

### CourseProgress

`completed`, `dwelt`, `attempts`, `passed` are the evidence; resources are
identified by their stable id, the same in every version, and attempts belong to
the quiz of one version (`<<version, quiz>>`). `Recompute` is four actions.
`Visible`, `Required` and `RequiredPct` are constants per version: this module
takes published versions as immutable, which `CourseVersions` shows except for
edits whose guard raced the publication. Quizzes have no limit of time or
attempts here: those are `QuizAttempts`'. Bound: `LastVersion`.

### BadgeIssuance and BadgeRegistry

The job in seven actions, with the two ways to end that it records (`skipped`,
`issued`). `badge[e][n]` is the row with the n-th public code;
`uniq_badge_alive` is the guard of `InsertBadge`. A third result,
`already_issued`, is in the code and not in the model: `isUniqueViolation` looks
for the SQLSTATE in the text of the error, where the pinned driver does not put
it, so the refusal ends the execution with an error, like any other, and the
queue retries it. `missing[r]` is what the maintenance job `r` selected.
`MaxBadges` bounds the rows of one enrolment.

`BadgeRegistry` knows only who deserved a badge, which codes exist and which
are valid. The refinement maps `deserved` to the enrolments with `approved_at`,
`issued` and `valid` to the rows and the unrevoked rows. Queue, workers,
retries and requests disappear: every step of `BadgeIssuance` is a step of the
registry or a stutter.

### PartPlan

`planParts` in integer arithmetic, for any minimum size of a part and any maximum
number of them: `PartSize` is its first half, `TotalPartsOf` the second. Go's
division and TLA+'s agree on sizes that are not negative, and `handleInitUpload`
refuses the others.

### QuizAttempts

One student, one quiz. `attempt[n]` is the row with `attempt_number = n` and the
unique index is the guard of its insertion; `key` is the snapshot of right
options that the row carries, `clock` how far the attempt is past `expires_at`
(`late` for the handlers, `overdue` for the maintenance job, which waits five
minutes more). `quizKey` is the quiz's right options now. `idem[k]` is the Redis
entry of the client key `k`. The page makes a key when it is mounted and another
one for another attempt (`quiz-runner.tsx`, 55 and 259), so a key belongs to one
attempt (`KeyAttempt`) and an attempt may be submitted under several, by two
pages that show it, or under none, since the header is optional. `req[c].sheet`
is the answers read and merged, before they are saved or graded.
`validateAnswers` and `gradeAttempt` are `ValidAnswers`, `Right`, `Earned` and
`Passes`, over any points. What follows a grade (the resource, `Recompute`, the
badge) is one step that may fail here and is `CourseProgress`'s in detail.
`Disconnect` also stops the middleware, since `Set` and `Del` use the request's
context. A quiz is edited under an attempt by a request whose guard was passed
before the publication (`EditQuiz`). `shown` is auxiliary. Bound: `LastNumber`.
Left out: the shuffled order of questions, the text of feedback.

### CourseVersions

A version is a function from `stable_id`s to nodes with parent, position,
visibility, requirement, body and revision; `Prune` is `ON DELETE CASCADE`,
`UniquePositions` the unique indexes (deferred to the end of a reorder), an
insertion under a vanished parent fails. Siblings are put in order by their
rank, the number of positions up to theirs. `ed[e]` is a request of the author:
guard, then its statements. An autosave compares the revision it was sent
(`SaveCompare`) or, sent none, writes over whatever is there (`"overwrite"`).
Approval criteria sent with a publication are stored first (`SetCriteria`); the
validation is `CheckMetadata` and the five SELECTs of `CheckVersion`, each at
its own moment; the transaction is four actions that wait for the rows another
one superseded. A new draft is a transaction too: `DraftInsert`, one `Clone` per
level of the tree, each of which sees what was committed when it began, and
`DraftCommit`; `copy[e]` is what it has inserted so far, and a second draft with
the same number waits for it. The row of a quiz goes with its resource and a
question's options with the question. `late` and `crossed` are auxiliary: the
version was published since the guard; another request wrote the version since
this one read it. Bounds: `LastVersion`, `LastPosition` (also of a reorder,
whose list may hold a node deleted meanwhile), `LastRevision`, and `Budget`, the
requests that may begin. Left out: titles, tags, slugs, links, a quiz's settings
(constants of `QuizAttempts`), file resources (their availability is
`MediaPipeline`'s), and requests of people who are not the author, which end at
the guard.

### Accounts

`user` is the row of `users` with `password` a count of its changes; `session`,
`token` the rows of the two tables, `cache` the role stored with the identity of
each session in Redis. `lock` is the row lock that `SELECT ... FOR UPDATE` takes
and every UPDATE of `users` waits for. `LockUser` reads the target and applies
the change asked for, `CountAdmins` counts if an active administrator would be
lost, `WriteUser` commits. `RevokeRows` marks the sessions in one statement and
remembers the keys to delete; `DeleteKeys` is the DEL. `excused` is auxiliary:
sessions whose revocation raced a validation or a login that had read before, or
was interrupted. The bootstrap's `EnsureAdmin` is `Init`. Left out: e-mail
addresses and hashes, `last_seen_at`, the audit log. A teacher has a student's
rights as far as this module's routes go.

## Runs

| Run | Question | Instance |
|---|---|---|
| `uploads` | Is what is completed whole, announced once, cancelled for good, closed when expired? Does the plan of parts cover the file? | 1 asset, 2 parts, 3 requests, 2 maintenance jobs; every size around the one where parts grow |
| `media_safety` | Is only clean and complete material served, under every fault? | 1 asset of 5 contents, 2 workers, 1 request, 1 fault of any kind |
| `media_live` | While Redis keeps its data, does every asset settle, is a skipped scan decided; what do resources show? | 3 contents, 1 worker, 2 crashes or errors with 1 retry |
| `progress` | Does an approval rest on one version's evidence? | 1 student, 2 requests, 2 versions, each requires what is optional in the other |
| `badges` | Is every badge earned, unique, announced once? Is this the registry? | 1 student, 1 request, 2 workers, 2 maintenance jobs, 2 versions, 2 badges, 1 fault |
| `badges_live` | Is an approved student forgotten? | the same with 1 worker, 1 maintenance job, 1 badge, and 2 faults with 1 retry |
| `attempts` | Are attempts bounded, graded once and as seen; is feedback due; do retries agree with the attempt? | 1 question, 2 options, 1 attempt allowed of 2 numbers, 2 keys or none, 2 requests, answers that differ or are refused |
| `authoring` | Is what is published validated and immutable; does the tree stay whole; do saves and reorders do what was asked? | 6 nodes, 3 versions, 2 requests at a time and 4 in all |
| `accounts` | Do resets take effect, locks hold, tokens work once; do revocations, suspensions and demotions take the role away? | 2 users with a session each, 1 token, 2 requests |
| `uploads_retry`, `badges_awarded`, `accounts_last_admin` | findings, below | |

**Why these bounds are enough.** Assets and enrolments do not share rows, locks
or job keys, so one of each shows every interleaving of the statements that
concern it; so do an attempt, a course, a user and a session. Two requests or
two workers is what a race needs, and every race of the hazard list is between
two. Two parts tell an incomplete upload from a whole one. One fault exercises
retry, recovery and republishing; `media_live` and `badges_live` allow one more
fault than retries, so that jobs reach the archive too. In `media_live` one
worker is enough: two executions of one job overlap only after a loss in Redis,
which is `media_safety`'s. In `badges_live` one badge is: a second one needs a
revocation, after which the first still counts as issued. The republishing by
the maintenance job is not bounded. Two versions, with other requirements, is
what a publication can do to a student. In `authoring`, two requests that
overlap and two more, before or after them, are enough for a draft to be edited,
published under another edit and cloned with its leftovers; the third version is
the second draft of two that race. In `attempts` one attempt is allowed, and the
second number is there for a start that would get past the limit; two attempts
share the quiz and nothing else. A reset needs one session and one token, the
user's and not the administrator's (`Mailed`). What an administrator does
to somebody else's session needs two, the administrator's and the other one:
`accounts` gives each user one (`SessionsOf`). The runs
with `CHECK_DEADLOCK FALSE` are those where the system may legitimately come to
rest: the last version published, the course unpublished and nobody enrolled;
the attempts used up; the requests of the budget made; every account suspended.

**Fairness.** Nothing is assumed of users, administrators, clients or faults.
Weak fairness is given to what asynq and the scheduler do by themselves:
delivery, recovery of leases, retention, the next statement of a running job,
the start of the maintenance job every five minutes, and the passing of time
(`Age`). In `UploadFairSpec` the maintenance job may fail any number of times
(`ReapStop`), and strong fairness of its steps says only that it does not fail
for ever at the same point.

**Mutants.** Each property has a mutated definition next to the real one, a
plausible bug (a dropped count, a check in the wrong order, a missing unique
index), which must violate it in the same run.

### Findings

1. **`uploads_retry`** – `handleCompleteUpload` marks the upload and the asset
   in two statements. Interrupted between them, the retry answers `completed`
   and the asset stays `awaiting_upload` for ever; the maintenance job does not
   look at that status.
2. **`badges_awarded`** – a job that found the student not approved at that
   moment is recorded as processed, and no badge can be issued afterwards.
3. **`accounts_last_admin`** – the count of administrators locks nothing but the
   request's own target, so two administrators who demote each other both count
   two and both commit. The handler's comment says the transaction prevents it.

Also visible in the models, and left as they are:

* An infected original is removed before the row says so, and an error in
  between leaves the asset without a verdict for ever (so `SurvivorsSettle`
  leaves those files out). A scan retried after its own claim finds `scanning`,
  and is kept as completed without a verdict; `media_live` shows that it settles
  after retention.
* A resource attached after its asset became ready stays `pending`.
* The refusal of the unique index is not recognised: `badge.go:138` looks for the
  SQLSTATE in the text of the error, where lib/pq 1.10.9 does not put it. The
  comment at `badge.go:92-93` says that the refusal is no failure, but in
  `InsertBadge` it is an error: a job repeated after its badge was inserted (a
  worker that died, an image that failed) fails until it is archived, and the
  badge stays without image and message.
* A job that used up its retries stays in the archive, and its record keeps the
  TaskID: the maintenance job publishes it again in vain (`queue.go:103`), for as
  long as the record lasts. `NotForgotten` and `SurvivorsSettle` name this
  exception. asynq drops archived records after months; the model keeps them
  until Redis loses its data.
* `worker/main.go:118-120` says that asynq enqueues a scheduled task once per
  period for all replicas; asynq's scheduler does not coordinate, and the models
  let maintenance jobs overlap. No property depends on there being one.
* A submission interrupted after the attempt was closed leaves a passed quiz that
  does not count as consumed. `NewlyApproved` is true of a second approval too.
* Two starts can open two attempts of one quiz, within its limit. An attempt
  that expires by the maintenance job gets score 0, also when answers were
  saved; submitted late by the student it is `expired` too, with its real score.
* A key whose request lost its client stays `processing` for a day, although
  the middleware means that a 5xx can be retried (`idempotency.go:96`).
* A save without `expected_revision` replaces whatever is there. Two saves of a
  text with one `expected_revision` can both be accepted, since
  the comparison and the UPDATE are two statements (`SavesOverWhatWasRead`
  excludes just these).
* An edit whose guard was passed while the version was a draft lands after its
  publication, although a published version "NO se modifica jamas"
  (`handlers_courses.go:37`); and two drafts, or two published versions, can
  come of overlapping requests. Approval criteria sent with a publication are
  stored although the validation then fails.
* A validation that had read the session fills the cache after the revocation
  deleted its key: that session is served up to five minutes more, where
  `auth.go` calls revocation immediate. A login that had compared the
  old password outlives a reset.

## Proofs

The eight modules `*Proofs` prove, for every value of the constants, all the
safety properties that the passing runs check on one instance: the invariants,
the action properties and the refinement. They assume only the named assumptions
next to the constants: `UploadAssumption` (at least one part, `planParts` never
returns none), `ProgressAssumption` (resources are finite, what a version
requires is visible in it, percentages are those publication's validation
accepts, as whole numbers), `MaxRetriesAssumption`, `PartAssumption` (positive
bounds and sizes), `MediaAssumption` and `BadgeAssumption` (the kinds of faults
and natural bounds), `QuizAssumption`, `AccountsAssumption` and
`VersionsAssumption` (the types of the constants; finitely many users and
tokens), and `StartAssumption` (the tree that the first version starts with is
one that requests can build: nodes below their parents, siblings in different
positions). That a version's requirements are constants in `CourseProgress` is
an assumption of its theorems and of `BadgeIssuance`'s too: `PublishedStays`
discharges it for every edit but those whose guard raced the publication.

| Theorem | Property |
|---|---|
| `UploadTypeCorrect` | `UploadTypeOK` |
| `UploadsAreWhole` | `CompletedIsWhole` |
| `UploadsHappenOnce` | `UploadedOnce` |
| `AbortsAreFinal` | `AbortIsFinal` |
| `ProgressTypeCorrect` | `ProgressTypeOK` |
| `ApprovalsAreEarned` | `ApprovalIsEarned` |
| `ConsumptionIsBacked` | `ConsumedIsBacked` |
| `PlansCover` | `PlanCovers` |
| `MediaTypeCorrect` | `MediaPipeline`'s `TypeOK` |
| `ServedContentIsClean` | `ServedIsClean` |
| `ReadyAssetsAreComplete` | `ReadyIsComplete` |
| `InfectedAreRemoved` | `InfectedIsRemoved` |
| `SkippedScansAreDecided` | `ScanProcessedIsDecided` |
| `ReadyResourcesAreServed` | `ReadyResourceIsServed` |
| `UploadsSurviveJobs` | the three of the uploads, among jobs and faults |
| `BadgeTypeCorrect` | `BadgeIssuance`'s `TypeOK` |
| `BadgesAreEarned` | `BadgeIsEarned` |
| `AnnouncementsAreSingle` | `AnnouncedOnce` |
| `BadgesImplementRegistry` | `ImplementsRegistry`, the refinement |
| `AttemptsTypeCorrect` | `QuizAttempts`' `TypeOK` |
| `AttemptsStayBounded` | `AttemptsBounded` |
| `ClosedStays` | `ClosedIsFinal` |
| `GradesHold` | `GradedAsSeen` |
| `ReplaysAgree` | `ReplayAgrees` |
| `FeedbackWaits` | `FeedbackIsDue` |
| `KeysExclude` | `OneRunPerKey`, stated beside its proof |
| `AccountsTypeCorrect` | `Accounts`' `TypeOK` |
| `LockedRowStays` | `LockedRowHolds` |
| `RevocationHolds` | `RevocationIsImmediate` |
| `ResetsHold` | `ResetEndsSessions` |
| `TokensAreSpentOnce` | `TokensSpentOnce` |
| `LostRolesStayLost` | `LostRoleStaysLost` |
| `VersionsTypeCorrect` | `CourseVersions`' `TypeOK` |
| `TreesStayWhole` | `TreesHang` |
| `PublicationStaysSound` | `PublicationIsSound` |
| `SavesReplaceWhatWasRead` | `SavesOverWhatWasRead` |
| `ReordersMoveOne` | `ReorderMovesOne` |
| `PublishedStays` | `PublishedIsImmutable` |
| `CurrentStaysPublished` | `CurrentIsPublished` |

**Uploads.** None of the properties is inductive: what keeps them true is what
each running request has read. `UploadInv` adds it: an assembled object has all
its parts (`AssembledIsWhole`); a request about to assemble knows that no part
is missing while the multipart upload is still open, and one past it that the
object was assembled (`RequestKnows`); the request that initialises an upload is
alone with it (`NewMultipartAlone`); and one that assembled the object is the
only one to have done so, because the store assembles a multipart upload once
(`MarkingAlone`). `AbortInv` adds that a user's cancellation knows the store
accepted it (`UserAborted`) and that the maintenance job only holds expired rows
(`SweepExpired`).

**Media.** Between the statements of a job the row may change under it: after a
loss in Redis a second execution of the same job runs beside the first.
`MediaInv` therefore says nothing of who wrote what, only what each fact implies
of the content, which never changes once the upload is over. `RowMeans` says it
of the row and the store (a status past the scan means clean content, a prefix
means that the segments are there), `PcMeans` of the statement a worker stands
at (one about to transcode has seen clean content; one about to mark the asset
infected has removed it), and `OnlyDelivered` that no job of an asset exists, in
Redis, in a worker or on a list of the maintenance job, before its upload ended.
Every fault is covered. `UploadInv` is a part of it, and its lemmas are used for
the steps of the uploads: `UploadsSurviveJobs` says that what was proved of them
alone holds among the jobs. The two properties about what is skipped or shown
assume, as stated, that Redis keeps its data, and they need what is false
without that: `QueueInv` has an execution hold the lease of its record
(`Leased`), alone (`Alone`), so that what it read when it loaded the asset holds
when it writes (`Phase`).

**Approval.** `Recompute` decides on two counts made at different times. Two
facts make the decision sound. Evidence only grows (`EvidenceGrows`): no
statement takes back a completed resource or a passed attempt, so a count that
was enough stays enough (`EnoughStays`, by the cardinality of a growing finite
set). And both counts are of the version read at the start, which the request
keeps. `ApprovalInv` says so: `ReadsPublished` (that version was published),
`CountsHold` (what a request has counted still holds) and `ApprovalHolds`
(state, date and badge rest on one version; a request that asks for the badge
has written the date before).

**Consumption.** `ConsumedInv` adds to the property what a request about to
complete a resource knows of it (`ItemBacked`): an event's resource is not a
quiz and has its time; a submission's quiz has a passed attempt.

**Badges.** `BadgeInv` adds to `ApprovalInv` that whoever a worker is about to
insert a badge for, the maintenance job has selected or a row names was approved
once (`IssuanceHolds`): the job's own look at the state may be out of date when
it inserts, the date of approval is not. The unique index makes an unrevoked row
unique, and only revocation makes room for another. `AnnounceInv` counts:
messages sent are no more than badges with an image whose worker has no message
left to send, and a worker that holds a code holds it alone, since a code is
inserted once. `BadgesImplementRegistry` takes the steps one by one:
`RecomputeWrite` is a registry's `Deserve` or nothing (`DeserveMaps`),
`InsertBadge` is its `Issue` (`IssueMaps`, for which `IssuanceHolds` says that
the student deserves it), a revocation its `Revoke` (`RevokeMaps`), and every
other step leaves the view as it was (`KeepsView`).

**Parts.** Both halves of `planParts` divide with a remainder (`Euclid`). When
`size \div MinPart` reaches `MaxParts`, so does `size \div MaxParts` reach
`MinPart`, and one more than it is a size `MaxParts` parts of which hold the
file (`PartSizeSuffices`); rounding the number of parts up then leaves a last
part that is neither empty nor too long.

**Attempts.** The invariant is `Settled`: what every running request remembers
of its attempt is still true of it (`Knows`), because an attempt never goes back
from closed; a request that runs under a key holds it alone (`KeysHeld`),
because a key expires only when no request runs under it; and the three
properties, which need each other. A graded row keeps its own snapshot, so an
edit of the quiz does not reach it. `Counted` answers two starts that count at
the same time: the numbers taken are 1 to k, a count made before is no more than
k and was below the limit, and the unique index lets only a request whose count
is still k take the next number. That a score is a natural number rests on a sum
over any finite set of questions, defined by the community modules' fold; the
proof takes a smallest set whose sum is not determined (`SmallestSet`, by
well-foundedness of strict inclusion) and removes one question (`SumsExist`,
`SumsAgree`).

**Accounts.** `LockedRowHolds` needs that the transaction owns the lock
(`Locking`) and that every other action that changes a row of `users` asks for
it. For revocations the strengthening (`Revoking`) speaks of the requests about
to fill the cache: a revoked session there is one marked as raced. For resets, a
session older than its user's password is on the list of somebody about to
revoke all of the user's, or excused. Every session has an owner that exists
(`OwnersKnown`). `Paid` counts the reset tokens a user has used: marking one
used and setting the password are two statements, and each request between them
accounts for one token. For `LostRoleStaysLost`, only a SELECT that finds the
session entitled makes a request that is about to fill the cache (`SelectGone`),
only such a request fills it (`FillGone`), and every other step leaves both as
they were or empties the cache (`NoNewRole`).

**Versions.** `Late` says that a request past its guard, whose version has been
published since, knows so, and that a number still being inserted is of no
version and of no other request; every writer is past a guard, hence
`PublishedIsImmutable`. The versions a publication supersedes were published and
the one it sets was marked in the same transaction (`Shown`). `VersionsInv` adds
the trees and what requests know of them. `Forest` says that every tree hangs: a
deletion takes with it all that hung below, because kinds are four deep and
`Prune` goes as far (`KindsAreFourDeep`, `PruneGrown`), and an insertion takes
an identifier that nobody has had. `Informed` says that a text's revision only
grows and that one revision has one text, so a save that finds the revision its
author read replaces the text read; and that what a publication has validated
stays true of its version until somebody crosses it. `Typed` adds the order of
siblings: different positions give different ranks, so the ranks of n siblings
are 1 to n (`Ranked`, since an injection between finite sets of one size is
onto) and the list by rank has every sibling once, in order (`Ordered`). From
that, moving one item gives a list with the others in their order and the item
at its place (`MovedList`), the new positions are unique, and a list that
nothing crossed is the one of the siblings as they are now (`Listed`), which is
`ReordersMoveOne`.

Each invariant has a lemma for the initial state, one for a request's step
(one case per action) and one for `[Next]_vars`; steps that leave the
invariant's variables alone share a lemma (`QuietStep`, `QuietConsumption`,
`QuietQueue`, `QuietAnnounce`, `CountFrame`, `ReadStep`, `ReaderStep`).

### Only model-checked

Liveness: `ExpiredIsClosed`, `SurvivorsSettle` and `NotForgotten` need fairness
and ENABLED, beyond this prover. The runs check them on their instances.

## Not modelled, and what comes next

1. Proofs of the safety lemmas that the liveness properties rest on: which
   statuses only the maintenance job can leave, which records block a
   republication and for how long.
2. A composition of `CourseVersions` and `CourseProgress` in which the late edits
   reach students, and of `QuizAttempts` with the progress its grades cause.

Left out: the LIMIT of the maintenance job's queries (the instances are smaller;
which rows an unordered LIMIT leaves behind is PostgreSQL's choice), e-mail
delivery (no key, no state), rate limiting (it counts and refuses), listings,
audit, metrics, telemetry, configuration, rendering, the capacity-planning
tools, the frontend, deployment and load tests: input and output around the
state above, or no state at all.
