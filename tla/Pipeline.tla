------------------------------ MODULE Pipeline ------------------------------
(***************************************************************************)
(* From assignment to validation verdict: the contributor's half of the    *)
(* session lifecycle (assignment, consent, preflight, capture, upload,     *)
(* submission) and the asynchronous validation pipeline behind it.         *)
(*                                                                         *)
(* The API handlers and the worker share one PostgreSQL database and one   *)
(* blob store. A database transaction is one action; a handler or a worker *)
(* that does several things with the store in between takes several steps, *)
(* and other processes, lease expiry and crashes come between them.        *)
(*                                                                         *)
(* Columns of a table are functions over its rows:                         *)
(*   sessions            state, consent                                    *)
(*   artifacts           artifacts (the registered raw object names)       *)
(*   processing_jobs     jobState, jobSession, attempt, leasedBy, requeues *)
(*   validation_results  result (job_id is UNIQUE)                         *)
(*   blob store          blobs, a set of <<session, object name>>          *)
(* ripe[j] stands for the time comparisons of ClaimValidationJob: now has  *)
(* reached available_at (job queued) or lease_expires_at (job leased).     *)
(***************************************************************************)
EXTENDS SessionStates, Naturals

CONSTANTS
  Sessions,       \* rows of sessions that may come to exist
  Jobs,           \* rows of processing_jobs that may come to exist
  Workers,        \* worker processes; a worker's identity is its worker id
  RawNames,       \* raw objects a submission needs (trajectory, video, events)
  Sound,          \* the sessions whose raw capture the validator accepts
  ClientTargets,  \* states clients post to the transitions endpoint
  MaxAttempts,    \* Processor.maxAttempts
  MaxFaults,      \* bound: crashes and transient storage failures
  MaxRequeues,    \* bound: manual retries of one dead-letter job
  NoOne           \* SQL NULL

ASSUME SoundAssumption == Sound \subseteq Sessions
ASSUME NoOneAssumption == NoOne \notin Sessions \cup Jobs \cup Workers
ASSUME AttemptsAssumption == MaxAttempts \in Nat \ {0}
ASSUME BoundsAssumption == MaxFaults \in Nat /\ MaxRequeues \in Nat
ASSUME TargetsAssumption == ClientTargets \subseteq SessionStates

VARIABLES
  state, consent, artifacts,
  jobState, jobSession, attempt, leasedBy, ripe, requeues,
  result,
  blobs,
  upload,                  \* an artifact upload handler call, by session and object
  phase, task, verdict,    \* a worker's place in ProcessNext and its local variables
  faults

sessionVars == <<state, consent, artifacts>>
jobVars     == <<jobState, jobSession, attempt, leasedBy, ripe, requeues>>
workerVars  == <<phase, task, verdict>>
vars == <<sessionVars, jobVars, result, blobs, upload, workerVars, faults>>

JobStates    == {"absent", "queued", "leased", "completed", "dead_letter"}
UploadSteps  == {"none", "allowed", "stored"}
Phases       == {"idle", "validate", "putTrajectory", "putActions", "complete"}
Verdicts     == {"none", "valid", "invalid", "uninspected"}
DerivedNames == {"trajectory.json", "actions.jsonl"}
Objects      == Sessions \X (RawNames \cup DerivedNames)

ASSUME NamesAssumption == RawNames \cap DerivedNames = {}

TypeOK ==
  /\ state \in [Sessions -> SessionStates \cup {"absent"}]
  /\ consent \in [Sessions -> BOOLEAN]
  /\ artifacts \in [Sessions -> SUBSET RawNames]
  /\ jobState \in [Jobs -> JobStates]
  /\ jobSession \in [Jobs -> Sessions \cup {NoOne}]
  /\ attempt \in [Jobs -> Nat]
  /\ leasedBy \in [Jobs -> Workers \cup {NoOne}]
  /\ ripe \in [Jobs -> BOOLEAN]
  /\ requeues \in [Jobs -> Nat]
  /\ result \in [Jobs -> Verdicts]
  /\ blobs \subseteq Objects
  /\ upload \in [Sessions -> [RawNames -> UploadSteps]]
  /\ phase \in [Workers -> Phases]
  /\ task \in [Workers -> Jobs \cup {NoOne}]
  /\ verdict \in [Workers -> Verdicts]
  /\ faults \in Nat

Init ==
  /\ state = [s \in Sessions |-> "absent"]
  /\ consent = [s \in Sessions |-> FALSE]
  /\ artifacts = [s \in Sessions |-> {}]
  /\ jobState = [j \in Jobs |-> "absent"]
  /\ jobSession = [j \in Jobs |-> NoOne]
  /\ attempt = [j \in Jobs |-> 0]
  /\ leasedBy = [j \in Jobs |-> NoOne]
  /\ ripe = [j \in Jobs |-> FALSE]
  /\ requeues = [j \in Jobs |-> 0]
  /\ result = [j \in Jobs |-> "none"]
  /\ blobs = {}
  /\ upload = [s \in Sessions |-> [n \in RawNames |-> "none"]]
  /\ phase = [w \in Workers |-> "idle"]
  /\ task = [w \in Workers |-> NoOne]
  /\ verdict = [w \in Workers |-> "none"]
  /\ faults = 0

-----------------------------------------------------------------------------
(* The contributor's session *)

(* The session row is inserted in the state its CREATED -> ASSIGNED        *)
(* transition left it in.                                                  *)
AssignTask(s) ==
  /\ state[s] = "absent"
  /\ CanTransition("CREATED", "ASSIGNED")
  /\ state' = [state EXCEPT ![s] = "ASSIGNED"]
  /\ UNCHANGED <<consent, artifacts, jobVars, result, blobs, upload, workerVars, faults>>

AcceptConsent(s) ==
  /\ state[s] = "ASSIGNED"
  /\ consent' = [consent EXCEPT ![s] = TRUE]
  /\ UNCHANGED <<state, artifacts, jobVars, result, blobs, upload, workerVars, faults>>

(* Mutant of TransitionSession: consent is not asked for.                  *)
TransitionUnchecked(s, to) ==
  /\ to \in ClientTargets
  /\ CanTransition(state[s], to)
  /\ state' = [state EXCEPT ![s] = to]
  /\ UNCHANGED <<consent, artifacts, jobVars, result, blobs, upload, workerVars, faults>>

(* The generic transition endpoint, and preflight with to = "READY": the   *)
(* server checks the table and, for READY, that consent was accepted.      *)
TransitionSession(s, to) ==
  /\ to \in ClientTargets
  /\ to = "READY" => consent[s]
  /\ CanTransition(state[s], to)
  /\ state' = [state EXCEPT ![s] = to]
  /\ UNCHANGED <<consent, artifacts, jobVars, result, blobs, upload, workerVars, faults>>

-----------------------------------------------------------------------------
(* Upload of one raw artifact: state check, create-only Put, registration  *)

EnsureArtifactUploadAllowed(s, n) ==
  /\ upload[s][n] = "none"
  /\ state[s] = "UPLOADING"
  /\ upload' = [upload EXCEPT ![s][n] = "allowed"]
  /\ UNCHANGED <<sessionVars, jobVars, result, blobs, workerVars, faults>>

(* Raw keys are create-only; a second Put of the same bytes is recognised  *)
(* by its size and hash and continues to the registration.                 *)
PutRaw(s, n) ==
  /\ upload[s][n] = "allowed"
  /\ blobs' = blobs \cup {<<s, n>>}
  /\ upload' = [upload EXCEPT ![s][n] = "stored"]
  /\ UNCHANGED <<sessionVars, jobVars, result, workerVars, faults>>

(* Mutant of RegisterArtifact: the session's state is not checked again.   *)
RegisterUnchecked(s, n) ==
  /\ upload[s][n] = "stored"
  /\ artifacts' = [artifacts EXCEPT ![s] = @ \cup {n}]
  /\ upload' = [upload EXCEPT ![s][n] = "none"]
  /\ UNCHANGED <<state, consent, jobVars, result, blobs, workerVars, faults>>

(* RegisterArtifact locks the session and re-checks its state; in any      *)
(* other state the call fails and the stored object stays unregistered.    *)
RegisterArtifact(s, n) ==
  /\ upload[s][n] = "stored"
  /\ artifacts' = IF state[s] = "UPLOADING"
                  THEN [artifacts EXCEPT ![s] = @ \cup {n}]
                  ELSE artifacts
  /\ upload' = [upload EXCEPT ![s][n] = "none"]
  /\ UNCHANGED <<state, consent, jobVars, result, blobs, workerVars, faults>>

(* The API instance serving the upload dies, or the client goes away.      *)
UploadInterrupted(s, n) ==
  /\ upload[s][n] # "none"
  /\ faults < MaxFaults
  /\ upload' = [upload EXCEPT ![s][n] = "none"]
  /\ faults' = faults + 1
  /\ UNCHANGED <<sessionVars, jobVars, result, blobs, workerVars>>

(* The unique index processing_jobs_one_active_type_per_session.           *)
Active(j) == jobState[j] \in {"queued", "leased"}
NoActiveJob(s) == \A j \in Jobs : jobSession[j] = s => ~Active(j)

(* The handler's look at the store before the transaction: every           *)
(* registered artifact is there. It is taken together with the             *)
(* transaction: no step removes an object of a session in UPLOADING.       *)
ArtifactsVerified(s) == \A n \in artifacts[s] : <<s, n>> \in blobs

(* SubmitSession moves the session and inserts one queued job in one       *)
(* transaction.                                                            *)
SubmitSession(s, j) ==
  /\ jobState[j] = "absent" /\ jobSession[j] = NoOne
  /\ state[s] = "UPLOADING"
  /\ ArtifactsVerified(s)
  /\ RawNames \subseteq artifacts[s]
  /\ NoActiveJob(s)
  /\ state' = [state EXCEPT ![s] = "SUBMITTED"]
  /\ jobState' = [jobState EXCEPT ![j] = "queued"]
  /\ jobSession' = [jobSession EXCEPT ![j] = s]
  /\ ripe' = [ripe EXCEPT ![j] = TRUE]
  /\ UNCHANGED <<consent, artifacts, attempt, leasedBy, requeues, result, blobs,
                 upload, workerVars, faults>>

-----------------------------------------------------------------------------
(* The validation worker: ProcessNext from claim to completion *)

(* available_at of a queued job comes to lie in the past.                  *)
BackoffElapses(j) ==
  /\ jobState[j] = "queued"
  /\ ~ripe[j]
  /\ ripe' = [ripe EXCEPT ![j] = TRUE]
  /\ UNCHANGED <<sessionVars, jobState, jobSession, attempt, leasedBy, requeues,
                 result, blobs, upload, workerVars, faults>>

(* lease_expires_at of a leased job comes to lie in the past, whether its  *)
(* worker is dead or only slow: a lease is never renewed.                  *)
LeaseExpires(j) ==
  /\ jobState[j] = "leased"
  /\ ~ripe[j]
  /\ ripe' = [ripe EXCEPT ![j] = TRUE]
  /\ UNCHANGED <<sessionVars, jobState, jobSession, attempt, leasedBy, requeues,
                 result, blobs, upload, workerVars, faults>>

(* The attempt counter saturates one above MaxAttempts: it is only ever    *)
(* compared with MaxAttempts.                                              *)
NextAttempt(a) == IF a > MaxAttempts THEN a ELSE a + 1

(* Mutant of ClaimValidationJob: a lease that ran out is not taken over.   *)
ClaimQueuedOnly(w, j) ==
  /\ phase[w] = "idle"
  /\ jobState[j] = "queued"
  /\ ripe[j]
  /\ state[jobSession[j]] \in {"SUBMITTED", "PROCESSING"}
  /\ state' = [state EXCEPT ![jobSession[j]] = "PROCESSING"]
  /\ jobState' = [jobState EXCEPT ![j] = "leased"]
  /\ attempt' = [attempt EXCEPT ![j] = NextAttempt(@)]
  /\ leasedBy' = [leasedBy EXCEPT ![j] = w]
  /\ ripe' = [ripe EXCEPT ![j] = FALSE]
  /\ phase' = [phase EXCEPT ![w] = "validate"]
  /\ task' = [task EXCEPT ![w] = j]
  /\ UNCHANGED <<consent, artifacts, jobSession, requeues, result, blobs, upload,
                 verdict, faults>>

(* A queued job whose time has come, or a leased one whose lease ran out,  *)
(* is leased and its session moves to PROCESSING or is there already; with *)
(* the session in any other state the transaction is rolled back.          *)
ClaimValidationJob(w, j) ==
  /\ phase[w] = "idle"
  /\ jobState[j] \in {"queued", "leased"}
  /\ ripe[j]
  /\ state[jobSession[j]] \in {"SUBMITTED", "PROCESSING"}
  /\ state' = [state EXCEPT ![jobSession[j]] = "PROCESSING"]
  /\ jobState' = [jobState EXCEPT ![j] = "leased"]
  /\ attempt' = [attempt EXCEPT ![j] = NextAttempt(@)]
  /\ leasedBy' = [leasedBy EXCEPT ![j] = w]
  /\ ripe' = [ripe EXCEPT ![j] = FALSE]
  /\ phase' = [phase EXCEPT ![w] = "validate"]
  /\ task' = [task EXCEPT ![w] = j]
  /\ UNCHANGED <<consent, artifacts, jobSession, requeues, result, blobs, upload,
                 verdict, faults>>

(* The raw objects of the session's registered artifacts.                  *)
RegisteredObjects(s) == {<<s, n>> : n \in artifacts[s]}

(* Validator.Validate: a registered artifact that the store no longer has  *)
(* is an error (StepFails); a missing artifact row or unsound content is   *)
(* an invalid verdict. The inspection of the video comes to its end here;  *)
(* InspectionFails is the case that it does not.                           *)
Validate(w) ==
  LET s  == jobSession[task[w]]
      ok == s \in Sound /\ RawNames \subseteq artifacts[s]
  IN
  /\ phase[w] = "validate"
  /\ RegisteredObjects(s) \subseteq blobs
  /\ verdict' = [verdict EXCEPT ![w] = IF ok THEN "valid" ELSE "invalid"]
  /\ phase' = [phase EXCEPT ![w] = IF ok THEN "putTrajectory" ELSE "complete"]
  /\ UNCHANGED <<sessionVars, jobVars, result, blobs, upload, task, faults>>

(* inspectMedia takes every error of InspectMP4 for a problem of the       *)
(* capture, also a probe that timed out or a stream that broke while it    *)
(* was read: the verdict is not valid, whatever the capture deserves, and  *)
(* the job is completed, not requeued. The row holds the error's text, the *)
(* model the fact ("uninspected"); that ffprobe turns down unsound media   *)
(* is part of Validate.                                                    *)
InspectionFails(w) ==
  LET s == jobSession[task[w]] IN
  /\ phase[w] = "validate"
  /\ artifacts[s] # {} /\ RegisteredObjects(s) \subseteq blobs
  /\ faults < MaxFaults
  /\ faults' = faults + 1
  /\ verdict' = [verdict EXCEPT ![w] = "uninspected"]
  /\ phase' = [phase EXCEPT ![w] = "complete"]
  /\ UNCHANGED <<sessionVars, jobVars, result, blobs, upload, task>>

(* Mutant of PutTrajectory: the actions are never written.                 *)
PutTrajectoryOnly(w) ==
  /\ phase[w] = "putTrajectory"
  /\ blobs' = blobs \cup {<<jobSession[task[w]], "trajectory.json">>}
  /\ phase' = [phase EXCEPT ![w] = "complete"]
  /\ UNCHANGED <<sessionVars, jobVars, result, upload, task, verdict, faults>>

PutTrajectory(w) ==
  /\ phase[w] = "putTrajectory"
  /\ blobs' = blobs \cup {<<jobSession[task[w]], "trajectory.json">>}
  /\ phase' = [phase EXCEPT ![w] = "putActions"]
  /\ UNCHANGED <<sessionVars, jobVars, result, upload, task, verdict, faults>>

PutActions(w) ==
  /\ phase[w] = "putActions"
  /\ blobs' = blobs \cup {<<jobSession[task[w]], "actions.jsonl">>}
  /\ phase' = [phase EXCEPT ![w] = "complete"]
  /\ UNCHANGED <<sessionVars, jobVars, result, upload, task, verdict, faults>>

(* ProcessNext returns: the worker may claim again.                        *)
WorkerReturns(w) ==
  /\ phase' = [phase EXCEPT ![w] = "idle"]
  /\ task' = [task EXCEPT ![w] = NoOne]
  /\ verdict' = [verdict EXCEPT ![w] = "none"]

(* Mutant of HoldsLease: any worker may settle a leased job.               *)
JobIsLeased(w, j) == jobState[j] = "leased"

(* The ownership check of CompleteValidationJob and RequeueValidationJob:  *)
(* the job is leased and leased_by is the caller. The lease's age is not   *)
(* looked at.                                                              *)
HoldsLease(w, j) == jobState[j] = "leased" /\ leasedBy[j] = w

(* Mutant of VerdictState: the verdict is not looked at.                   *)
AlwaysReviewable(v) == "READY_FOR_REVIEW"

(* The state CompleteValidationJob moves the session to.                   *)
VerdictState(v) == IF v = "valid" THEN "READY_FOR_REVIEW" ELSE "FAILED"

CompleteValidationJob(w) ==
  LET j == task[w]
      s == jobSession[j]
      target == VerdictState(verdict[w])
  IN
  /\ phase[w] = "complete"
  /\ HoldsLease(w, j)
  /\ CanTransition(state[s], target)
  /\ state' = [state EXCEPT ![s] = target]
  /\ result' = [result EXCEPT ![j] = verdict[w]]
  /\ jobState' = [jobState EXCEPT ![j] = "completed"]
  /\ ripe' = [ripe EXCEPT ![j] = FALSE]
  /\ WorkerReturns(w)
  /\ UNCHANGED <<consent, artifacts, jobSession, attempt, leasedBy, requeues, blobs,
                 upload, faults>>

(* The completion is refused (lease lost, or no such transition): the      *)
(* transaction is rolled back and ProcessNext returns without requeueing.  *)
CompletionRefused(w) ==
  LET j == task[w] IN
  /\ phase[w] = "complete"
  /\ ~ ( /\ HoldsLease(w, j)
         /\ CanTransition(state[jobSession[j]], VerdictState(verdict[w])) )
  /\ WorkerReturns(w)
  /\ UNCHANGED <<sessionVars, jobVars, result, blobs, upload, faults>>

(* Mutant of Requeued: a job state the table does not have.                *)
RequeuedAsRetrying(w, j) ==
  /\ HoldsLease(w, j)
  /\ attempt[j] < MaxAttempts
  /\ jobState' = [jobState EXCEPT ![j] = "retrying"]
  /\ leasedBy' = [leasedBy EXCEPT ![j] = NoOne]
  /\ ripe' = [ripe EXCEPT ![j] = FALSE]
  /\ UNCHANGED state

(* Mutant of DeadLettered: the session stays in PROCESSING.                *)
DeadLetteredJobOnly(w, j) ==
  /\ HoldsLease(w, j)
  /\ attempt[j] >= MaxAttempts
  /\ jobState' = [jobState EXCEPT ![j] = "dead_letter"]
  /\ leasedBy' = [leasedBy EXCEPT ![j] = NoOne]
  /\ ripe' = [ripe EXCEPT ![j] = FALSE]
  /\ UNCHANGED state

(* RequeueValidationJob, by its three outcomes.                            *)
Requeued(w, j) ==
  /\ HoldsLease(w, j)
  /\ attempt[j] < MaxAttempts
  /\ jobState' = [jobState EXCEPT ![j] = "queued"]
  /\ leasedBy' = [leasedBy EXCEPT ![j] = NoOne]
  /\ ripe' = [ripe EXCEPT ![j] = FALSE]
  /\ UNCHANGED state

DeadLettered(w, j) ==
  /\ HoldsLease(w, j)
  /\ attempt[j] >= MaxAttempts
  /\ CanTransition(state[jobSession[j]], "FAILED")
  /\ jobState' = [jobState EXCEPT ![j] = "dead_letter"]
  /\ leasedBy' = [leasedBy EXCEPT ![j] = NoOne]
  /\ ripe' = [ripe EXCEPT ![j] = FALSE]
  /\ state' = [state EXCEPT ![jobSession[j]] = "FAILED"]

RequeueRefused(w, j) ==
  /\ ~ ( /\ HoldsLease(w, j)
         /\ \/ attempt[j] < MaxAttempts
            \/ CanTransition(state[jobSession[j]], "FAILED") )
  /\ UNCHANGED <<state, jobState, leasedBy, ripe>>

RequeueValidationJob(w, j) ==
  /\ Requeued(w, j) \/ DeadLettered(w, j) \/ RequeueRefused(w, j)
  /\ WorkerReturns(w)
  /\ UNCHANGED <<consent, artifacts, jobSession, attempt, requeues, result, upload>>

(* A transient failure of the step that is returned as an error: of a Stat *)
(* or a Get while validating, or of a Put, which may have stored the       *)
(* object before it reported the failure.                                  *)
StepFails(w) ==
  LET s == jobSession[task[w]] IN
  /\ faults < MaxFaults
  /\ faults' = faults + 1
  /\ \/ phase[w] = "validate" /\ UNCHANGED blobs
     \/ phase[w] = "putTrajectory" /\ blobs' \in {blobs, blobs \cup {<<s, "trajectory.json">>}}
     \/ phase[w] = "putActions" /\ blobs' \in {blobs, blobs \cup {<<s, "actions.jsonl">>}}
  /\ RequeueValidationJob(w, task[w])

(* The worker process dies, or loses the database, anywhere after a claim: *)
(* nothing is written and the job stays leased until the lease runs out.   *)
Crash(w) ==
  /\ phase[w] # "idle"
  /\ faults < MaxFaults
  /\ faults' = faults + 1
  /\ WorkerReturns(w)
  /\ UNCHANGED <<sessionVars, jobVars, result, blobs, upload>>

(* Mutant of RetryDeadLetterJob: the session stays FAILED.                 *)
RetryJobOnly(j) ==
  /\ jobState[j] = "dead_letter"
  /\ requeues[j] < MaxRequeues
  /\ jobState' = [jobState EXCEPT ![j] = "queued"]
  /\ attempt' = [attempt EXCEPT ![j] = 0]
  /\ ripe' = [ripe EXCEPT ![j] = TRUE]
  /\ requeues' = [requeues EXCEPT ![j] = @ + 1]
  /\ UNCHANGED <<sessionVars, jobSession, leasedBy, result, blobs, upload,
                 workerVars, faults>>

(* An administrator retries a dead-letter job. The session goes back to    *)
(* PROCESSING, a move that the transition table does not have.             *)
RetryDeadLetterJob(j) ==
  /\ jobState[j] = "dead_letter"
  /\ state[jobSession[j]] = "FAILED"
  /\ NoActiveJob(jobSession[j])
  /\ requeues[j] < MaxRequeues
  /\ jobState' = [jobState EXCEPT ![j] = "queued"]
  /\ attempt' = [attempt EXCEPT ![j] = 0]
  /\ leasedBy' = [leasedBy EXCEPT ![j] = NoOne]
  /\ ripe' = [ripe EXCEPT ![j] = TRUE]
  /\ requeues' = [requeues EXCEPT ![j] = @ + 1]
  /\ state' = [state EXCEPT ![jobSession[j]] = "PROCESSING"]
  /\ UNCHANGED <<consent, artifacts, jobSession, result, blobs, upload, workerVars, faults>>

-----------------------------------------------------------------------------
(* Steps by the party that takes them, the way Next and the modules that   *)
(* extend this one combine them.                                           *)
SessionStep(s) ==
  \/ AssignTask(s)
  \/ AcceptConsent(s)
  \/ \E to \in ClientTargets : TransitionSession(s, to)
  \/ \E n \in RawNames : \/ EnsureArtifactUploadAllowed(s, n)
                         \/ PutRaw(s, n)
                         \/ RegisterArtifact(s, n)
                         \/ UploadInterrupted(s, n)
  \/ \E j \in Jobs : SubmitSession(s, j)

JobStep(j) == BackoffElapses(j) \/ LeaseExpires(j) \/ RetryDeadLetterJob(j)

WorkerStep(w) ==
  \/ \E j \in Jobs : ClaimValidationJob(w, j)
  \/ Validate(w)
  \/ PutTrajectory(w)
  \/ PutActions(w)
  \/ CompleteValidationJob(w)
  \/ CompletionRefused(w)

WorkerFault(w) == StepFails(w) \/ InspectionFails(w) \/ Crash(w)

Next ==
  \/ \E s \in Sessions : SessionStep(s)
  \/ \E j \in Jobs : JobStep(j)
  \/ \E w \in Workers : WorkerStep(w) \/ WorkerFault(w)

Spec == Init /\ [][Next]_vars

(* Workers keep polling or are started again every minute, and clocks run. *)
(* Contributors and administrators promise nothing.                        *)
Fairness ==
  /\ \A w \in Workers : WF_vars(WorkerStep(w))
  /\ \A j \in Jobs : WF_vars(BackoffElapses(j) \/ LeaseExpires(j))

FairSpec == Spec /\ Fairness

-----------------------------------------------------------------------------
(* Properties *)

InPipeline == {"SUBMITTED", "PROCESSING"}

(* The states a contributor's client has business asking for. The          *)
(* transitions endpoint does not restrict the target itself, so the        *)
(* properties below are properties of the server with such clients.        *)
ContributorStates ==
  {"ASSIGNED", "READY", "RECORDING", "FINALIZING", "UPLOADING", "CANCELLED"}

(* A session that waits for a verdict has exactly one active job, and an   *)
(* active job belongs to a session that waits for it: otherwise the        *)
(* session is stranded, or the job can never be claimed and stays at the   *)
(* head of the queue. (SubmitSession, ClaimValidationJob,                  *)
(* CompleteValidationJob, RequeueValidationJob, RetryDeadLetterJob)        *)
ActiveJobsMatchSessions ==
  /\ \A s \in Sessions : state[s] \in InPipeline =>
       \E j \in Jobs : jobSession[j] = s /\ Active(j)
  /\ \A j \in Jobs : Active(j) =>
       /\ state[jobSession[j]] \in InPipeline
       /\ jobState[j] = "leased" => state[jobSession[j]] = "PROCESSING"
  /\ \A j, k \in Jobs :
       Active(j) /\ Active(k) /\ jobSession[j] = jobSession[k] => j = k

(* What a reviewer is offered is backed by evidence: the capture is sound, *)
(* a valid result is recorded, every raw object is registered and stored,  *)
(* and both derived objects are stored, whatever workers crashed, were     *)
(* overtaken or wrote late on the way. (CompleteValidationJob after the    *)
(* two Puts of ProcessNext)                                                *)
ReviewableHasEvidence ==
  \A s \in Sessions : state[s] = "READY_FOR_REVIEW" =>
    /\ s \in Sound
    /\ RawNames \subseteq artifacts[s]
    /\ {s} \X (RawNames \cup DerivedNames) \subseteq blobs
    /\ \E j \in Jobs : /\ jobSession[j] = s
                       /\ jobState[j] = "completed"
                       /\ result[j] = "valid"

(* A failed session says why, and a job that was given up can be retried:  *)
(* FAILED comes from an unsound capture, from an inspection that did not   *)
(* come to its end, or from a dead-letter job, and from nothing else, so a *)
(* sound capture whose inspection never failed is not lost to a completed  *)
(* job; a dead-letter job's session is FAILED, which is what               *)
(* RetryDeadLetterJob asks for. (Validate, inspectMedia,                   *)
(* CompleteValidationJob, RequeueValidationJob)                            *)
FailureIsExplained ==
  /\ \A s \in Sessions : state[s] = "FAILED" =>
       \E j \in Jobs :
         /\ jobSession[j] = s
         /\ \/ jobState[j] = "dead_letter"
            \/ jobState[j] = "completed" /\ result[j] = "invalid" /\ s \notin Sound
            \/ jobState[j] = "completed" /\ result[j] = "uninspected"
  /\ \A j \in Jobs : jobState[j] = "dead_letter" => state[jobSession[j]] = "FAILED"

(* Nothing is captured, uploaded or processed without an accepted consent  *)
(* document (AcceptConsent, the READY check of TransitionSession).         *)
CapturedWithConsent ==
  \A s \in Sessions :
    state[s] \in {"READY", "RECORDING", "FINALIZING", "UPLOADING", "SUBMITTED",
                 "PROCESSING", "READY_FOR_REVIEW", "FAILED"} => consent[s]

(* A worker whose lease was taken over changes no row: its completion or   *)
(* requeue finds another leased_by and is refused.                         *)
StaleWorkerIsInert ==
  [][\A w \in Workers :
       /\ task[w] \in Jobs
       /\ leasedBy[task[w]] # w
       /\ phase'[w] # phase[w]
       => UNCHANGED <<sessionVars, jobVars, result>>]_vars

(* Every submission gets a verdict or is given up into the dead-letter     *)
(* queue.                                                                  *)
SubmissionDecided ==
  \A s \in Sessions :
    state[s] = "SUBMITTED" ~> state[s] \in {"READY_FOR_REVIEW", "FAILED"}

(* From some time on no lease runs out under a worker that is still at     *)
(* work on the job.                                                        *)
LeasesSuffice ==
  <>[][\A j \in Jobs, w \in Workers :
         leasedBy[j] = w /\ task[w] = j => ~LeaseExpires(j)]_vars

(* With finitely many faults, and leases that from some time on last as    *)
(* long as the work, every submission is decided.                          *)
DecidedIfLeasesSuffice == LeasesSuffice => SubmissionDecided

(* What the contract of SubmissionContract sees of a session.              *)
outcomeBar ==
  [s \in Sessions |->
     CASE state[s] \in InPipeline -> "pending"
       [] state[s] = "READY_FOR_REVIEW" -> "valid"
       [] state[s] = "FAILED" ->
            IF \E j \in Jobs : jobSession[j] = s /\ jobState[j] = "dead_letter"
            THEN "gaveUp"
            ELSE IF \E j \in Jobs : jobSession[j] = s /\ result[j] = "uninspected"
                 THEN "uninspected" ELSE "invalid"
       [] OTHER -> "open"]

Contract == INSTANCE SubmissionContract WITH outcome <- outcomeBar

(* Workers, leases, crashes and retries together behave as one validator   *)
(* that answers each submission once: with the right verdict, or with the  *)
(* admission that it could not inspect the capture.                        *)
ImplementsContract == Contract!Spec
=============================================================================
