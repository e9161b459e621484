# DataTrains: TLA+ models, checks and proofs

DataTrains collects desktop demonstrations. A contributor records a task with the Collector; the
control plane (Go, PostgreSQL, a blob store) receives the capture, a worker validates it, reviewers
decide about it, redaction jobs clean it, and accepted sessions are exported as dataset releases.
Legal holds, explicit erasure and retention expiry take data away again. Everything durable is a
row of PostgreSQL or an object of the blob store; API instances and workers keep nothing between
calls. What makes the system hard is that a unit of work is *several* transactions and *several*
object operations, done by processes that overlap, die, and are replaced when their lease runs out.

The modules here model the life of a session on the control plane: how its bytes get in (plain and
resumable uploads), how it is validated, reviewed, redacted and published, and the governance work
that deletes from under all of that.

## 1. Inventory

| Component | State | Operations | What is hard | What makes it correct |
|---|---|---|---|---|
| Session lifecycle (`internal/domain/session.go`, `database/store.go`) | `sessions.state`, consent | assign, consent, preflight, generic transition | one endpoint accepts every move of the table | no capture without consent; a state means what its handler did |
| Artifact upload, submission (`httpapi/artifacts.go`, `database/pipeline.go`) | `artifacts`, raw objects | check, put, register, submit | three steps without a common transaction | a submission has all its evidence and exactly one job |
| Validation queue and worker (`database/pipeline.go`, `worker/processor.go`, `worker/validator.go`, `cmd/worker`) | `processing_jobs`, `validation_results`, derived objects | claim, validate, two puts, complete, requeue, dead-letter, manual retry | leases that run out under a live worker, crashes, overlapping scheduler runs, a media inspection that fails | one verdict, the right one unless the inspection failed; a session that waits has a job |
| Legal holds and erasure (`database/erasure.go`) | `legal_holds`, `deletion_requests` | hold, release, request, claim, purge, complete, requeue, retry | hold against claim; purge against everything that writes | held data is not purged; erased data stays erased |
| Retention (`database/retention.go`, `database/retention_expiry.go`) | `retention_policies`, `retention_purge_requests`, tombstones | policy edit, sweep, claim, purge, complete, retry | decisions made from a policy and an age that may change | a tombstone tells the truth; only a leased request purges |
| Blob store (`internal/blobstore`) | objects | create-only put, overwrite put, stat, purge, multipart | an operation that reports failure may have happened | - |
| Multipart uploads (`httpapi/multipart_uploads.go`, `database/multipart_uploads.go`, `blobstore/r2.go`) | `artifact_multipart_uploads` and parts, storage uploads, staging and raw objects | start, restart, authorize, put, record, complete, abort | a completion is ten calls to store and database with no lock; the row's ID survives a restart | the raw object is written once with declared bytes; assembled bytes are not lost; completed means registered |
| Review (`database/review.go`) | claims with expiry, decisions | claim, release, decide, rework successor | expiry against a decision being written | one decision, by the holder of the claim |
| Redaction (`database/redaction.go`, `worker/redactor.go`, `worker/processor.go`) | plans, jobs, outputs | plan, claim, mask segment by segment, complete, requeue, retry | overtaken workers that overwrite outputs; erasure of the session; a job that no worker may claim | completed means complete; redaction and erasure exclude each other |
| Releases (`database/release.go`, `internal/releases`) | `dataset_releases`, release objects | look up, list, verify, write, commit | reads, writes objects, and commits long after | a release is whole, holds reviewed sessions only, each once, and none that is being erased |
| Collector (`apps/collector`) | spool, manifest, receipt | record, seal, recover, upload, submit | crash during recording; lost responses | nothing sealed is lost; submission is idempotent |
| Identity, administration, configuration, migrations, console, dataset validator | - | lookups, inserts, user interface | - | not modelled; reasons in `PROJECT.json` |

Interaction: API handlers, the Collector's calls and the workers meet only in the database and the
blob store. `ProcessNext` looks for work in a fixed order: validation, redaction, deletion,
retention. The hazards of the code, each at its line and with the properties that watch it, are
listed in `PROJECT.json`.

## 2. Modules

| Module | Models | State |
|---|---|---|
| `SessionStates` | `allowedTransitions`, `Session.Transition`, the state lists of erasure and retention | - |
| `Pipeline` | assignment to verdict | `state`, `consent`, `artifacts`; `jobState`, `jobSession`, `attempt`, `leasedBy`, `ripe`, `requeues`; `result`; `blobs`; `upload` (handler calls under way); `phase`, `task`, `verdict` (workers) |
| `SubmissionContract` | the abstract promise: one answer per submission, the right verdict or a final rejection of a capture that could not be inspected, or an explicit giving up | `outcome` |
| `PipelineProofs` | theorems about `Pipeline` | |
| `Governance` | holds, erasure, retention of raw evidence, on top of `Pipeline` | `held`, `req`, `policy`, `old`, `purged`; `duty`, `todo`, `queue` (workers) |
| `GovernanceProofs`, `ErasureProofs` | theorems about `Governance`: types and holds; erasure, retention and overtaken purgers | |
| `Review` | review claims and decisions, redaction plans and jobs, holds and erasure of reviewed sessions | `state`, `claim`, `reviews`, `reworkOf`; `plan`, `job`; `held`, `req`; `blobs`, `strays`; `duty`, `todo`, `reading` (workers) |
| `Release` | `createRelease` and the exporter, on top of `Review` | `releases`, `files`; `call` (exports under way) |
| `ReleaseContract` | the abstract promise: sessions are accepted, published in one step and once, erased never after that | `accepted`, `published`, `erased` |
| `ReleaseProofs`, `PublicationProofs`, `RedactionProofs` | theorems about `Review` and `Release`: exclusion and the contract; types, decisions and what is published; redaction outputs, erasure and overtaken workers | |
| `Uploads` | the multipart endpoints for one artifact path | `row`, `artifact`; `up`, `stage`, `raw` (store); `call` (handlers, with what they have read) |
| `ArtifactContract` | the abstract promise: one raw object, of declared bytes, and a row that describes it | `object`, `entry` |
| `UploadsProofs` | theorems about `Uploads` | |
| `MCPipeline`, `MCGovernance`, `MCPublication`, `MCUploads` | instances for TLC | |

`Governance` extends `Pipeline` and is about sessions on their way to a verdict. `Review` starts where
`Pipeline` ends, with sessions in `READY_FOR_REVIEW` and their evidence in the store, and has erasure
of its own because redaction and erasure look at each other's rows. `Uploads` stands alone: the raw
object and the artifact row it produces are what `Pipeline` calls a registered artifact.

### How the code is abstracted

* **A transaction is one action; what is between transactions is between actions.** The upload
  handler is three actions (`EnsureArtifactUploadAllowed`, `PutRaw`, `RegisterArtifact`), a
  validation is claim, validate, two puts, completion. A crash can come after each.
* **Isolation.** Nearly all transactions either lock and write the same `sessions` row, or are
  both serializable, so that the outcome is that of some order; those are single actions. Claims,
  completions and requeues of jobs run read committed, but each locks the rows it decides from with
  its first statements and sees their latest version. One pair is different: `PlaceLegalHold`
  (serializable, snapshot taken by the statement that waits for the session's lock) and
  `ClaimDeletionRequest` (read committed, locks that row without writing it). It has an action of
  its own, `PlaceLegalHoldBehindClaim`.
* **Time** is `ripe` (the row's `available_at` or `lease_expires_at` has passed) and `old` (the
  retention period has passed). A lease may run out at any time, whether its worker is dead or slow.
  `Age` assumes only that a retention period, counted in days, is longer than a handler call or a
  worker's step.
* **Worker ids** (`worker:host:pid`) are unique: two elements of `Workers` are two processes.
  A process that dies comes back as an idle worker. The same id would be reused only with the same
  host name and process id.
* **Claim order** (`ORDER BY available_at, id`) is not modelled: any claimable row may be the next.
* **Content** is a constant: `Sound` is the set of sessions whose capture the validator accepts.
  Registered artifacts have matching bytes because raw keys are create-only and hash-gated.
* **A failure while validating** has two ends. A failed `Stat` or `Get` is an error of `Validate`, and
  the job is requeued or dead-lettered (`StepFails`). An error of `InspectMP4` is a finding about the
  capture, also when the probe ran into its 45 s timeout or the object's stream broke: the job is
  completed and the session `FAILED` (`InspectionFails`). The result row has the error's text; the
  models record the verdict as `uninspected`, apart from the `invalid` of media that `ffprobe` rightly
  turns down. When it is the worker's own context that ends, its completion fails as well: that is `Crash`.
* **`attempt`** saturates one above `MaxAttempts`, the only number it is compared with.
* **A policy edit** may make any set of expired sessions young again: which ones depends on their ages.
* **`QueueExpiredRetention`** takes one candidate a step; the code inserts all candidates in one
  transaction, each on its own conditions.
* **`ProcessNext`** looks for validation, redaction, deletion and retention in this order. The
  redaction look is in `Review` (`NothingToRedact` guards the claim of an erasure there), the others
  in `Governance`. `Review` takes the redaction look and the deletion claim at once: what makes a
  redaction job due between them might as well have come after both.
* **Review and release** transactions are atomic: `SubmitReview`, plan creation, requests, retries and
  `CommitRelease` are serializable, claims lock the rows they decide from. The hold behind a claim is
  in `Governance` only. Clients of `Review` do not use the generic transitions endpoint (see run
  `transition`), which would move a session to any state of the table.
* **A plan is named by its request ID**, a release by its configuration (the code's release ID is a
  hash of it), a part's ETag by the bytes of the part. Two calls that agree on these write the same
  keys, in the models as in the code.
* **A live worker that lost its lease** keeps writing redaction outputs. `strays` records the objects
  last written that way; `ErasureIsComplete` says that nothing else survives an erasure. That these
  objects do survive is a hazard without a property: no document says what becomes of them.
* **A completion of an upload** is `CompleteUpload`, `ListParts`, `StatRaw`, `StatStaged`, `Assemble`,
  `CheckAssembled`, `Promote`, `VerifyRaw`, `RegisterArtifact`, `FinishUpload`, with what the handler
  read at first kept in `call[c]`. `SetMultipartUploadState` goes by the row's ID and so may hit a row
  that was restarted meanwhile (`SetState`). `HandlerDies` may come between any two. The store itself
  is external: it assembles an upload once, if it is open and the ETags are those of its parts.
* An erased session's rows are gone: `CompleteDeletionRequest` sets its jobs to `absent` and keeps
  `jobSession`, since identifiers are not used again.

Bounds, all named: `MaxFaults` (crashes and storage failures), `MaxRequeues` (manual retries of
one row), `MaxPolicies` (edits of the retention policy), `MaxEffort` (plans, requests, holds, exports
and faults of one behaviour together, in `MCPublication`). The rows that may exist are the constants
`Sessions`, `Jobs`, `Plans`, `Requests`, `Uploads`; `Calls` are the requests being handled, which in
`Uploads` are used over and over and in `Release` once each.

## 3. Runs

| Run | Instance | Checks | Result |
|---|---|---|---|
| `pipeline` | 2 sessions (one sound), 2 jobs, 2 workers, 2 attempts, 1 fault, 1 retry | type, `ActiveJobsMatchSessions`, `ReviewableHasEvidence`, `FailureIsExplained`, `CapturedWithConsent`, `StaleWorkerIsInert`, `ImplementsContract`, `DecidedIfLeasesSuffice` | hold |
| `governance` | 1 sound session, 1 request of either kind, 2 workers, 2 attempts, 1 fault, 1 policy edit | type, `NoHoldUnderRetentionLease`, `DeletedStaysErased`, `TombstoneMeansGone`, `ActiveJobsMatchSessions`, `StalePurgerIsInert` | hold |
| `both_requests` | 1 session with an unsound capture (`FAILED` without a fault), 2 requests, 1 worker, 1 attempt, 1 fault, 2 policy edits | `DeletedStaysErased`, `TombstoneMeansGone`, `DeletionSettles` | hold |
| `publication` | 1 reviewed session and a row for its rework, 2 reviewers, 2 workers, 2 plans of 1 segment, 1 erasure, 2 exports, 2 names, 2 attempts, 2 faults, 1 retry, effort 3 | type, `RedactionExcludesErasure`, `DecidedOnce`, `CompletedIsComplete`, `ErasureIsComplete`, `PublishedAsReviewed`, `PublishedOnce`, `ReleaseIsWhole`, `OvertakenWorkerIsInert`, `ImplementsContract` | hold |
| `uploads` | 2 requests at a time, 2 contents, 2 parts, 2 storage uploads, 1 fault | type, `CompletedIsRegistered`, `AssembledBytesSurvive`, `ImplementsContract` | hold |
| `overrun` | 1 session, 2 workers, no fault | `SubmissionDecided` | violated |
| `transition` | every target the endpoint accepts | `ActiveJobsMatchSessions` | violated |
| `hold` | 1 request, 2 workers | `NoHoldUnderLease` | violated |
| `overtaken` | 1 request, 2 workers | `HoldStopsRetention` | violated |
| `cancelled` | 1 request, 1 worker, 2 faults | `OnlyLeasedPurges` | violated |
| `snapshot` | 1 request, 1 worker, 1 fault | `SnapshotIsComplete` | violated |
| `starved` | 2 sessions, 1 reviewer, 1 worker, 1 plan, 1 request, 1 export, no fault | `ErasureSettles` | violated |

Why the bounds are enough for the cases that matter: two workers are what it takes for one to be
overtaken; one fault puts an object into the store without a result, or leaves a lease behind;
with two attempts a job is requeued once and then dead-lettered, with one it is dead-lettered at
once; one manual retry reaches every state again; a second policy edit makes the version a queued
request was made under stale. `RawNames` has one element: the handlers treat
the three raw objects alike, and a submission needs all of them.

In `publication` an effort of 3 allows, for instance, two plans and a fault, a plan with an erasure and
an export, two overlapping exports and a fault, an erasure with a hold and a crashed purge. Claims,
decisions, lease expiry and take-over cost nothing, so that two workers at one job and two reviewers at
one session occur at every budget. Every property has a mutation of the code's behaviour that breaks it
within these bounds. In `uploads` two requests are what it takes for a completion to overlap a restart,
an abort or another completion; the second storage upload is the one of the restart; two parts of two
contents give objects that no client declared; one fault is a dead handler, an unreadable object or a
half-done promotion.

Deadlock is not checked: a system whose sessions are all decided, erased or abandoned by their
contributor, or whose uploads are finished, has nothing to do. `governance`, `publication` and
`uploads` use symmetry of constants that no definition tells apart; runs with a liveness property use
none.

**Fairness.** A worker polls for ever, or is started every minute by the scheduler
(`docs/deployment/cloud-run.md`), so its steps are weakly fair; time passes, so back-offs and leases
end. Contributors, administrators, storage failures and crashes promise nothing; faults are
finitely many. This does not give liveness by itself (see `overrun`), so the liveness properties
name what else they need: `LeasesSuffice` and `RequestLeasesSuffice`, from some time on no lease
runs out under a worker still at work on it. The fairness of `Release` is the same (`WorkerStep`,
which leaves out every failure, and `ClockStep`); run `starved` refutes `ErasureSettles` under it, with
no fault and no lease that runs out too early. No liveness is claimed of uploads: a client may stop, and
nothing but a later start of the same path looks at an expired row.

### Transient failures that are not retried

`docs/V1_STATUS.md:68` says that the worker "retries transient failures". The contract does not promise
that, because the code does not do it for the inspection of the video (`worker/validator.go:183`): one
timeout of the probe, or one broken stream, rejects a sound capture for good. `RetryDeadLetterJob` does
not apply, the job being completed, and the contributor has to be assigned again. `SubmissionContract`
has this as an action of its own, `RejectUninspected`, with no way back, and `FailureIsExplained` as a
reason of its own; both occur in run `pipeline`, for the sound session too. Without that action and that reason
the run is violated by the behaviour claim, `InspectionFails`, `CompleteValidationJob`. What the two
properties show beyond it is that *nothing else* (no take-over, crash, failed put or retry) rejects
a sound capture.

### What the violated runs show

* `overrun`: a lease (two minutes) is never renewed, and a claim that takes over an expired lease
  does not compare `attempt` with the maximum. Two overlapping workers that each need longer than
  the lease take the job from each other for ever; it is never decided and never dead-lettered.
* `transition`: the generic endpoint moves `UPLOADING` to `SUBMITTED` with no artifacts and no job.
  The shipped Collector does not ask for this; the other runs use the targets it does ask for.
* `hold`: a legal hold is accepted while an erasure is leased (the isolation case above).
* `overtaken`: the purge loop does not look at its lease again; after another worker has settled
  the request, a hold is accepted, and the first worker goes on purging.
* `cancelled`: a second claim cancels the request but hands it to the worker as "leased".
* `snapshot`: an object stored by a job that was then dead-lettered is named by no result, so the
  erasure request does not name it either.
* `starved`: a session is accepted with a redaction plan and published as `trajectory_only` before its
  job was claimed. The job stays due, but its session is not `ACCEPTED` any more: `ClaimRedactionJob`
  returns an error each time, and `ProcessNext` returns it before it looks for deletions, though
  `docs/deployment/cloud-run.md` says that the worker "handles all available jobs". If the claim does
  not ask for the session's state, `ErasureSettles` holds on the same instance.

## 4. Proofs

Proved by TLAPS for every number of sessions, jobs, workers, requests, attempts and faults, from
the named assumptions on the constants (`SoundAssumption`, `NoOneAssumption`, `AttemptsAssumption`,
`BoundsAssumption`, `TargetsAssumption`, `NamesAssumption`, `RequestsAssumption`, `PoliciesAssumption`).

*Pipeline.* `TypeCorrect`, `ConsentFirst` and `OvertakenIsInert` hold for any clients.
`ActiveJobsMatch`, `ReviewableEvidence`, `FailuresExplained` and `PipelineImplementsContract` have
the hypothesis `ContributorClients` (`ClientTargets \subseteq ContributorStates`), which run
`transition` shows to be needed. The inductive invariant `PipelineInv` adds to the type invariant:

* `Links`: a job row has a session, a busy worker has a job;
* `JobsMirrorSessions`: a job's state determines its session's state; a job has a result exactly when
  it is completed, the one the capture deserves or that of a failed inspection;
* `OneJob`: a session has at most one job, and one as soon as it is submitted;
* `EvidenceStored`: the raw evidence of a submitted session is registered and stored, and both
  derived objects are stored where a valid result is;
* `WorkerKnows`: what a worker has found out and stored so far, at each of its steps, *whether or
  not it still has the lease*. This is what makes late puts and completions harmless: they write
  what the lease's new holder writes.

None of the properties is inductive without the others: that a completion finds its session in
`PROCESSING` needs `JobsMirrorSessions`, that it finds the objects needs `WorkerKnows`. The
refinement proof maps every step to one step of `SubmissionContract` or none; a completion is `Decide`
or, when the worker's verdict is `uninspected`, `RejectUninspected`.

*Governance* (`GovernanceProofs`, `ErasureProofs`). `GovTypeCorrect`, `HoldsExcludeRetentionPurges`,
`StalePurgersAreInert` and `ErasedSessionsStayErased` hold for any clients; `TombstonesAreGone` and
`ActiveJobsMatchUnderErasure` have the hypothesis `ContributorClients`. `GovInv` adds
`GovLinks` (a request that exists has a session; keys are left only in the hands of a worker with a
request) to the two properties of `GovernanceProofs` and to the pipeline's types. On top of it:

* *Erasure* (`ErasureInv`): an erased session has no consent, artifact, job or result (`ErasedRows`),
  holds are on sessions that live (`HoldsOnLiving`), and a completed erasure has erased
  (`ErasuresErase`). It needs no hypothesis on clients because the transition table has no way into
  `DELETED` and none out of it (`DeletedIsFinal`).
* *Retention* (`RetentionInv`). That a tombstone means the object is gone takes three facts. The
  evidence of a session that is old, or has been purged, belongs to a session that uploads no more
  (`EvidenceOrder`): here a client that moves a session back to `UPLOADING` would break it. A
  request names every artifact that has no tombstone yet (`RawRequests`). And what a purging worker
  has behind it is gone, *whether or not it still has its lease* (`GoneBehindPurger`); a completion
  with nothing left to do marks exactly what it has behind it.
* *Sessions and jobs* (`FollowInv`): the pipeline's correspondence without the verdicts, for a purge
  may take the objects away under the validating worker, and with erased sessions, whose job ids stay
  unused.

*Uploads.* `TypeCorrect`, `CompletedRowsAreRegistered`, `BytesAreNotLost` and
`UploadsImplementContract`, for any contents, parts, storage uploads, handlers and faults, from
`UploadsAssumption`. The invariant says, for every step a handler can be at, what it may rely on: a
handler that checks or promotes has an upload that the store assembled, and promotes nothing but the declared
bytes; one that registers has seen its bytes at the raw key, which is never written again; one that
finishes has a registered artifact. It adds that two handlers never own the same storage upload before one of them has saved it,
that the row's upload was created, and that a staged object belongs to an assembled upload. The
properties need all of it: a handler acts on what it read ten calls ago and may finish a row that was
restarted since, and what makes this harmless is that the artifact cannot go away again.

*Release* (`ReleaseProofs`). `RedactionAndErasureExclude`, `ReleasesAreWhole`, `PublicationIsOnce` and
`ReleaseImplementsContract`, for any sessions, reviewers, workers, plans, requests, segments, calls and
names, from `ReviewableAssumption`, `NoOneAssumption`, `DutiesAssumption` and `BoundsAssumption`. The
invariant joins the types of rows and requests, `RedactionExcludesErasure`, what an export has written
so far (`Exports`), and that released sessions stay so. The contract rests on a fact the code states
nowhere: *a session with an erasure queued, leased or blocked is never `RELEASED`*, because a request
starts from another state and the commit looks for one. `CompleteDeletionRequest` does not look at the
session's state; this fact is why it never erases a published session.

*Publication* (`PublicationProofs`). `ReleaseTypeCorrect`, `PlanVersionsAreUnique`,
`SessionsAreDecidedOnce` and `PublicationIsAsReviewed`, from the same assumptions. The number of plans
is not assumed finite: that a next version exists is an invariant of its own (`VersionsTopped`), for a
plan that is inserted comes out on top. `DecisionInv` ties a review to the state of its session, its
successor and its plans (`Decided`, `Reworked`, `PlansOfAccepted`); the counting in `DecidedOnce` and
`PublishedAsReviewed` follows from uniqueness with the library's facts on singletons. `Picks` follows
an export from the first plan it loads to its commit: what it has picked keeps its session and version
and stays completed *unless the session is erased meanwhile*. The export does not notice that, and
need not: `CommitRelease` finds the session not `ACCEPTED` and refuses.

*Redaction and erasure of reviewed sessions* (`RedactionProofs`). `OvertakenWorkersAreInert`,
`CompletedRedactionIsComplete` and `ErasureLeavesNothing`. `StoreInv` says what each worker has behind
it, lease or no lease: of a plan's outputs those are in the store until an erasure begins to purge
(`Produced`), of an erasure's inventory those are gone or were put back by a redaction worker without
a lease (`Purged`). The inventory is taken when the erasure is requested; it is still complete when
the erasure ends because no plan is made behind a request (`Inventoried`), and a job exists
exactly as long as its session (`Linked`). Both rest on `RedactionExcludesErasure`.

Every invariant and every action property of the passing runs is thus stated by a theorem. The
inductive invariants were model-checked on the instances of the runs before they were proved.

Model-checked only: liveness (`DecidedIfLeasesSuffice`, `DeletionSettles`), which is out of the
prover's reach, and the findings, whose counterexamples are behaviours.

## 5. Not modelled

* Content: the rules that judge a capture, the shape of a plan document, the FFmpeg filter, scores and
  rubrics, the bytes of release files. They are pure functions of their inputs.
* The retention of derived data and of release exports: only raw evidence expires in `Governance`, and
  `LatestCompletedRedaction` has no purged plans to leave out.
* Files that no row names (a failed export, the loser of two): they stay in the models as in the code,
  and no document promises their removal.
* A session that leaves `UPLOADING` during a multipart upload: `EnsureArtifactUploadAllowed` at the start
  of a call and `RegisterArtifact` at its end refuse to go on, as in `Pipeline`; the calls between them
  only touch the upload's own row and objects, and leave those behind.
* The Collector: its spool is a file format of its own; the control plane sees it as a client that
  repeats calls, which the models allow. Its two hazards are in `PROJECT.json` without a property.
* Audit rows; authorization (callers are assumed to be allowed to do what they do); HTTP details;
  identity, administration, configuration, migrations, console, dataset validator, native capture.
  `PROJECT.json` has the reasons.

## 6. Plan

1. *Proofs*: what an instance of `SubmissionContract` with erasure would promise, and its refinement by
   `Governance`.
2. *Retention* of derived data and release exports, in `Governance` and `Release`.
3. *Collector*: spool recovery, submission with lost responses and receipts.

## 7. Running

`tlc -config MCPipeline.cfg MCPipeline`, and likewise for the other configurations: a configuration
belongs to the MC module its name begins with. `tlapm PipelineProofs.tla`, and likewise
`GovernanceProofs`, `ErasureProofs`, `UploadsProofs`, `ReleaseProofs`, `PublicationProofs`,
`RedactionProofs`. The five passing runs take one to three minutes
each, every other run seconds, each proof module one to two minutes.
