--------------------------- MODULE PipelineProofs ---------------------------
(***************************************************************************)
(* Theorems about Pipeline, for every number of sessions, jobs, workers,   *)
(* attempts and faults.                                                    *)
(***************************************************************************)
EXTENDS Pipeline, TLAPS

USE DEF SessionStates, JobStates, UploadSteps, Phases, Verdicts, DerivedNames,
        Objects, sessionVars, jobVars, workerVars

(* The moves of the session state machine that the invariants depend on.   *)
LEMMA TransitionFacts ==
  ASSUME NEW from, NEW to, CanTransition(from, to)
  PROVE  /\ from \in SessionStates
         /\ to \in SessionStates
         /\ to = "READY_FOR_REVIEW" => from = "PROCESSING"
         /\ to \in ContributorStates =>
              from \notin {"SUBMITTED", "PROCESSING", "READY_FOR_REVIEW", "FAILED"}
         /\ to \in {"RECORDING", "FINALIZING", "UPLOADING", "SUBMITTED", "PROCESSING",
                    "READY_FOR_REVIEW", "FAILED"} =>
              from \in {"READY", "RECORDING", "FINALIZING", "UPLOADING", "SUBMITTED",
                        "PROCESSING"}
  BY DEF CanTransition, allowedTransitions, ContributorStates

(* A job row has a session and a worker that is not idle has a job row's   *)
(* identifier: without this a Put could name no session at all.            *)
Links ==
  /\ \A j \in Jobs : jobState[j] # "absent" => jobSession[j] \in Sessions
  /\ \A w \in Workers :
       IF phase[w] = "idle" THEN task[w] = NoOne
       ELSE task[w] \in Jobs /\ jobSession[task[w]] \in Sessions

LEMMA TypeInit == Init => TypeOK /\ Links
  BY SoundAssumption DEF Init, TypeOK, Links

(* RequeueValidationJob, with whatever it finds in the blob store.         *)
LEMMA RequeueJobTypes ==
  ASSUME TypeOK, Links, NEW w \in Workers, phase[w] # "idle",
         blobs' \subseteq Objects, faults' \in Nat, RequeueValidationJob(w, task[w])
  PROVE  TypeOK' /\ Links'
<1> USE DEF TypeOK, Links, RequeueValidationJob, WorkerReturns
<1>1. CASE Requeued(w, task[w])
  BY <1>1 DEF Requeued, HoldsLease
<1>2. CASE DeadLettered(w, task[w])
  BY <1>2 DEF DeadLettered, HoldsLease
<1>3. CASE RequeueRefused(w, task[w])
  BY <1>3 DEF RequeueRefused
<1> QED
  BY <1>1, <1>2, <1>3

LEMMA TypeStep == TypeOK /\ Links /\ [Next]_vars => (TypeOK /\ Links)'
<1> SUFFICES ASSUME TypeOK, Links, [Next]_vars PROVE TypeOK' /\ Links'
  OBVIOUS
<1> USE DEF TypeOK, Links
<1>1. ASSUME NEW s \in Sessions, SessionStep(s) PROVE TypeOK' /\ Links'
  <2>1. CASE AssignTask(s)
    BY <2>1 DEF AssignTask
  <2>2. CASE AcceptConsent(s)
    BY <2>2 DEF AcceptConsent
  <2>3. ASSUME NEW to \in ClientTargets, TransitionSession(s, to) PROVE TypeOK' /\ Links'
    BY <2>3, TargetsAssumption DEF TransitionSession
  <2>4. ASSUME NEW n \in RawNames, EnsureArtifactUploadAllowed(s, n) PROVE TypeOK' /\ Links'
    BY <2>4 DEF EnsureArtifactUploadAllowed
  <2>5. ASSUME NEW n \in RawNames, PutRaw(s, n) PROVE TypeOK' /\ Links'
    BY <2>5 DEF PutRaw
  <2>6. ASSUME NEW n \in RawNames, RegisterArtifact(s, n) PROVE TypeOK' /\ Links'
    BY <2>6 DEF RegisterArtifact
  <2>7. ASSUME NEW n \in RawNames, UploadInterrupted(s, n) PROVE TypeOK' /\ Links'
    BY <2>7 DEF UploadInterrupted
  <2>8. ASSUME NEW j \in Jobs, SubmitSession(s, j) PROVE TypeOK' /\ Links'
    BY <2>8 DEF SubmitSession
  <2> QED
    BY <1>1, <2>1, <2>2, <2>3, <2>4, <2>5, <2>6, <2>7, <2>8 DEF SessionStep
<1>2. ASSUME NEW j \in Jobs, JobStep(j) PROVE TypeOK' /\ Links'
  <2>1. CASE BackoffElapses(j)
    BY <2>1 DEF BackoffElapses
  <2>2. CASE LeaseExpires(j)
    BY <2>2 DEF LeaseExpires
  <2>3. CASE RetryDeadLetterJob(j)
    BY <2>3 DEF RetryDeadLetterJob
  <2> QED
    BY <1>2, <2>1, <2>2, <2>3 DEF JobStep
<1>3. ASSUME NEW w \in Workers, WorkerStep(w) PROVE TypeOK' /\ Links'
  <2>1. ASSUME NEW j \in Jobs, ClaimValidationJob(w, j) PROVE TypeOK' /\ Links'
    BY <2>1 DEF ClaimValidationJob, NextAttempt
  <2>2. CASE Validate(w)
    BY <2>2 DEF Validate
  <2>3. CASE PutTrajectory(w)
    BY <2>3 DEF PutTrajectory
  <2>4. CASE PutActions(w)
    BY <2>4 DEF PutActions
  <2>5. CASE CompleteValidationJob(w)
    BY <2>5 DEF CompleteValidationJob, WorkerReturns, VerdictState
  <2>6. CASE CompletionRefused(w)
    BY <2>6 DEF CompletionRefused, WorkerReturns
  <2> QED
    BY <1>3, <2>1, <2>2, <2>3, <2>4, <2>5, <2>6 DEF WorkerStep
<1>4. ASSUME NEW w \in Workers, WorkerFault(w) PROVE TypeOK' /\ Links'
  <2>1. CASE StepFails(w)
    <3>1. /\ blobs' \subseteq Objects /\ faults' \in Nat /\ phase[w] # "idle"
          /\ RequeueValidationJob(w, task[w])
      BY <2>1 DEF StepFails
    <3> QED
      BY <3>1, RequeueJobTypes
  <2>2. CASE InspectionFails(w)
    BY <2>2 DEF InspectionFails
  <2>3. CASE Crash(w)
    BY <2>3 DEF Crash, WorkerReturns
  <2> QED
    BY <1>4, <2>1, <2>2, <2>3 DEF WorkerFault
<1>5. CASE UNCHANGED vars
  BY <1>5 DEF vars
<1> QED
  BY <1>1, <1>2, <1>3, <1>4, <1>5 DEF Next

(* Type correctness: the database columns, the blob store and the workers' *)
(* local variables keep their types through every handler.                 *)
THEOREM TypeCorrect == Spec => []TypeOK
  BY TypeInit, TypeStep, PTL DEF Spec

-----------------------------------------------------------------------------
(* The invariants of MCPipeline.cfg, when clients ask for contributors'    *)
(* states only. They are not inductive: which verdict is recorded depends  *)
(* on what the worker remembers, and the worker may have lost its lease.   *)
ContributorClients == ClientTargets \subseteq ContributorStates

Submitted == {"SUBMITTED", "PROCESSING", "READY_FOR_REVIEW", "FAILED"}

(* The state of a job row and the state of its session determine each      *)
(* other; a job has a result once it is completed, the one the capture     *)
(* deserves or that of a failed inspection.                                *)
JobsMirrorSessions ==
  /\ \A j \in Jobs :
       LET s == jobSession[j] IN
       /\ jobState[j] = "absent" => s = NoOne
       /\ jobState[j] = "queued" => state[s] \in InPipeline
       /\ jobState[j] = "leased" => state[s] = "PROCESSING"
       /\ jobState[j] = "dead_letter" => state[s] = "FAILED"
       /\ jobState[j] = "completed" =>
            \/ result[j] = "valid" /\ state[s] = "READY_FOR_REVIEW" /\ s \in Sound
            \/ result[j] = "invalid" /\ state[s] = "FAILED" /\ s \notin Sound
            \/ result[j] = "uninspected" /\ state[s] = "FAILED"
       /\ jobState[j] # "completed" => result[j] = "none"
  /\ \A s \in Sessions : state[s] \in Submitted => \E j \in Jobs : jobSession[j] = s

(* A session is submitted once.                                            *)
OneJob ==
  \A j, k \in Jobs : jobSession[j] \in Sessions /\ jobSession[j] = jobSession[k] => j = k

(* A submitted capture stays registered and stored, and a valid result has *)
(* its derived objects.                                                    *)
EvidenceStored ==
  \A j \in Jobs :
    LET s == jobSession[j] IN
    /\ jobState[j] # "absent" =>
         \A n \in RawNames : n \in artifacts[s] /\ <<s, n>> \in blobs
    /\ jobState[j] = "completed" /\ result[j] = "valid" =>
         \A n \in DerivedNames : <<s, n>> \in blobs

(* What a worker remembers is true, whether or not it still has its lease. *)
WorkerKnows ==
  \A w \in Workers :
    LET s == jobSession[task[w]] IN
    /\ phase[w] # "idle" => jobState[task[w]] # "absent"
    /\ phase[w] \in {"putTrajectory", "putActions"} => verdict[w] = "valid" /\ s \in Sound
    /\ phase[w] = "putActions" => <<s, "trajectory.json">> \in blobs
    /\ phase[w] = "complete" =>
         \/ /\ verdict[w] = "valid" /\ s \in Sound
            /\ \A n \in DerivedNames : <<s, n>> \in blobs
         \/ verdict[w] = "invalid" /\ s \notin Sound
         \/ verdict[w] = "uninspected"

PipelineInv ==
  /\ TypeOK /\ Links
  /\ JobsMirrorSessions /\ OneJob /\ EvidenceStored /\ WorkerKnows

LEMMA PipelineInvInit == Init => PipelineInv
<1> SUFFICES ASSUME Init PROVE PipelineInv
  OBVIOUS
<1>1. TypeOK /\ Links
  BY TypeInit
<1>2. JobsMirrorSessions /\ OneJob
  BY NoOneAssumption DEF Init, JobsMirrorSessions, OneJob, Submitted
<1>3. EvidenceStored /\ WorkerKnows
  BY DEF Init, EvidenceStored, WorkerKnows
<1> QED
  BY <1>1, <1>2, <1>3 DEF PipelineInv

LEMMA PipelineInvStep == ContributorClients /\ PipelineInv /\ [Next]_vars => PipelineInv'
<1> SUFFICES ASSUME ContributorClients, PipelineInv, [Next]_vars
             PROVE  JobsMirrorSessions' /\ OneJob' /\ EvidenceStored' /\ WorkerKnows'
  BY TypeStep DEF PipelineInv
<1> DEFINE Inv == JobsMirrorSessions /\ OneJob /\ EvidenceStored /\ WorkerKnows
<1> USE DEF PipelineInv, TypeOK, Links, JobsMirrorSessions, OneJob, EvidenceStored,
            WorkerKnows, Submitted, InPipeline
<1>1. ASSUME NEW s \in Sessions, SessionStep(s) PROVE Inv'
  <2>1. CASE AssignTask(s)
    BY <2>1 DEF AssignTask
  <2>2. CASE AcceptConsent(s)
    BY <2>2 DEF AcceptConsent
  <2>3. ASSUME NEW to \in ClientTargets, TransitionSession(s, to) PROVE Inv'
    <3>1. to \in ContributorStates /\ to \notin Submitted /\ state[s] \notin Submitted
      BY <2>3, TransitionFacts DEF TransitionSession, ContributorClients, ContributorStates
    <3> QED
      BY <2>3, <3>1 DEF TransitionSession
  <2>4. ASSUME NEW n \in RawNames, EnsureArtifactUploadAllowed(s, n) PROVE Inv'
    BY <2>4 DEF EnsureArtifactUploadAllowed
  <2>5. ASSUME NEW n \in RawNames, PutRaw(s, n) PROVE Inv'
    BY <2>5 DEF PutRaw
  <2>6. ASSUME NEW n \in RawNames, RegisterArtifact(s, n) PROVE Inv'
    BY <2>6 DEF RegisterArtifact
  <2>7. ASSUME NEW n \in RawNames, UploadInterrupted(s, n) PROVE Inv'
    BY <2>7 DEF UploadInterrupted
  <2>8. ASSUME NEW j \in Jobs, SubmitSession(s, j) PROVE Inv'
    <3>1. ASSUME NEW k \in Jobs PROVE jobSession[k] # s
      <4>1. jobState[k] = "absent" => jobSession[k] # s
        BY NoOneAssumption
      <4>2. jobState[k] # "absent" => state[jobSession[k]] \in Submitted
        OBVIOUS
      <4> QED
        BY <2>8, <4>1, <4>2 DEF SubmitSession
    <3>2. \A n \in RawNames : n \in artifacts[s] /\ <<s, n>> \in blobs
      BY <2>8 DEF SubmitSession, ArtifactsVerified
    <3>3. JobsMirrorSessions'
      BY <2>8, <3>1, NoOneAssumption DEF SubmitSession
    <3>4. OneJob'
      BY <2>8, <3>1, NoOneAssumption DEF SubmitSession
    <3>5. EvidenceStored'
      BY <2>8, <3>1, <3>2, NoOneAssumption DEF SubmitSession
    <3>6. WorkerKnows'
      <4>1. ASSUME NEW w \in Workers, phase[w] # "idle"
            PROVE  /\ jobState'[task[w]] # "absent"
                   /\ jobSession'[task[w]] = jobSession[task[w]]
        <5>1. jobState[task[w]] # "absent" /\ task[w] \in Jobs
          BY <4>1
        <5>2. task[w] # j
          BY <2>8, <5>1 DEF SubmitSession
        <5>3. /\ jobState' = [jobState EXCEPT ![j] = "queued"]
              /\ jobSession' = [jobSession EXCEPT ![j] = s]
          BY <2>8 DEF SubmitSession
        <5> QED
          BY <5>1, <5>2, <5>3
      <4>2. UNCHANGED <<blobs, phase, task, verdict>>
        BY <2>8 DEF SubmitSession, workerVars
      <4> QED
        BY <4>1, <4>2
    <3> QED
      BY <3>3, <3>4, <3>5, <3>6
  <2> QED
    BY <1>1, <2>1, <2>2, <2>3, <2>4, <2>5, <2>6, <2>7, <2>8 DEF SessionStep
<1>2. ASSUME NEW j \in Jobs, JobStep(j) PROVE Inv'
  <2>1. CASE BackoffElapses(j)
    BY <2>1 DEF BackoffElapses
  <2>2. CASE LeaseExpires(j)
    BY <2>2 DEF LeaseExpires
  <2>3. CASE RetryDeadLetterJob(j)
    BY <2>3 DEF RetryDeadLetterJob
  <2> QED
    BY <1>2, <2>1, <2>2, <2>3 DEF JobStep
<1>3. ASSUME NEW w \in Workers, WorkerStep(w) PROVE Inv'
  <2>1. ASSUME NEW j \in Jobs, ClaimValidationJob(w, j) PROVE Inv'
    BY <2>1 DEF ClaimValidationJob
  <2>2. CASE Validate(w)
    <3>1. RawNames \subseteq artifacts[jobSession[task[w]]]
      BY <2>2 DEF Validate
    <3>2. JobsMirrorSessions' /\ OneJob' /\ EvidenceStored'
      BY <2>2 DEF Validate
    <3>3. WorkerKnows'
      BY <2>2, <3>1 DEF Validate
    <3> QED
      BY <3>2, <3>3
  <2>3. CASE PutTrajectory(w)
    BY <2>3 DEF PutTrajectory
  <2>4. CASE PutActions(w)
    BY <2>4 DEF PutActions
  <2>5. CASE CompleteValidationJob(w)
    <3> DEFINE j == task[w]
               s == jobSession[j]
    <3>1. /\ j \in Jobs /\ s \in Sessions
          /\ jobState[j] = "leased" /\ state[s] = "PROCESSING"
          /\ \A k \in Jobs : jobSession[k] = s => k = j
      BY <2>5 DEF CompleteValidationJob, HoldsLease
    <3>2. \/ /\ verdict[w] = "valid" /\ s \in Sound
             /\ VerdictState(verdict[w]) = "READY_FOR_REVIEW"
             /\ \A n \in DerivedNames : <<s, n>> \in blobs
          \/ /\ verdict[w] = "invalid" /\ s \notin Sound
             /\ VerdictState(verdict[w]) = "FAILED"
          \/ /\ verdict[w] = "uninspected"
             /\ VerdictState(verdict[w]) = "FAILED"
      BY <2>5 DEF CompleteValidationJob, VerdictState
    <3>3. JobsMirrorSessions'
      BY <2>5, <3>1, <3>2 DEF CompleteValidationJob
    <3>4. OneJob'
      BY <2>5 DEF CompleteValidationJob
    <3>5. EvidenceStored'
      BY <2>5, <3>1, <3>2 DEF CompleteValidationJob
    <3>6. WorkerKnows'
      BY <2>5 DEF CompleteValidationJob, WorkerReturns
    <3> QED
      BY <3>3, <3>4, <3>5, <3>6
  <2>6. CASE CompletionRefused(w)
    BY <2>6 DEF CompletionRefused, WorkerReturns
  <2> QED
    BY <1>3, <2>1, <2>2, <2>3, <2>4, <2>5, <2>6 DEF WorkerStep
<1>4. ASSUME NEW w \in Workers, WorkerFault(w) PROVE Inv'
  <2>1. CASE StepFails(w)
    <3>1. blobs \subseteq blobs' /\ phase[w] # "idle" /\ RequeueValidationJob(w, task[w])
      BY <2>1 DEF StepFails
    <3>2. CASE Requeued(w, task[w])
      BY <3>1, <3>2 DEF RequeueValidationJob, Requeued, WorkerReturns, HoldsLease
    <3>3. CASE DeadLettered(w, task[w])
      BY <3>1, <3>3 DEF RequeueValidationJob, DeadLettered, WorkerReturns, HoldsLease
    <3>4. CASE RequeueRefused(w, task[w])
      BY <3>1, <3>4 DEF RequeueValidationJob, RequeueRefused, WorkerReturns
    <3> QED
      BY <3>1, <3>2, <3>3, <3>4 DEF RequeueValidationJob
  <2>2. CASE InspectionFails(w)
    BY <2>2 DEF InspectionFails
  <2>3. CASE Crash(w)
    BY <2>3 DEF Crash, WorkerReturns
  <2> QED
    BY <1>4, <2>1, <2>2, <2>3 DEF WorkerFault
<1>5. CASE UNCHANGED vars
  BY <1>5 DEF vars
<1> QED
  BY <1>1, <1>2, <1>3, <1>4, <1>5 DEF Next

LEMMA PipelineInvariant == ContributorClients /\ Spec => []PipelineInv
<1> SUFFICES ASSUME ContributorClients PROVE Spec => []PipelineInv
  OBVIOUS
<1>1. PipelineInv /\ [Next]_vars => PipelineInv'
  BY PipelineInvStep
<1> QED
  BY <1>1, PipelineInvInit, PTL DEF Spec

(* No submitted session is stranded and no active job is unclaimable: with *)
(* contributors' clients, a session waits for a verdict exactly as long as *)
(* one active job works towards it.                                        *)
THEOREM ActiveJobsMatch == ContributorClients /\ Spec => []ActiveJobsMatchSessions
<1>1. PipelineInv => ActiveJobsMatchSessions
  <2> SUFFICES ASSUME PipelineInv PROVE ActiveJobsMatchSessions
    OBVIOUS
  <2> USE DEF PipelineInv, TypeOK, Links, JobsMirrorSessions, Submitted, InPipeline, Active
  <2>1. ASSUME NEW s \in Sessions, state[s] \in InPipeline
        PROVE  \E j \in Jobs : jobSession[j] = s /\ Active(j)
    <3>1. PICK j \in Jobs : jobSession[j] = s
      BY <2>1
    <3>2. jobState[j] \in {"queued", "leased"}
      BY <2>1, <3>1, NoOneAssumption
    <3> QED
      BY <3>1, <3>2
  <2>2. ASSUME NEW j \in Jobs, Active(j)
        PROVE  /\ state[jobSession[j]] \in InPipeline
               /\ jobState[j] = "leased" => state[jobSession[j]] = "PROCESSING"
    BY <2>2
  <2>3. ASSUME NEW j \in Jobs, NEW k \in Jobs, Active(j), Active(k),
               jobSession[j] = jobSession[k]
        PROVE  j = k
    BY <2>3 DEF OneJob
  <2> QED
    BY <2>1, <2>2, <2>3 DEF ActiveJobsMatchSessions
<1> QED
  BY <1>1, PipelineInvariant, PTL

(* Whatever workers crash or are overtaken, a reviewable session has its   *)
(* recorded valid result, its raw evidence and both derived objects.       *)
THEOREM ReviewableEvidence == ContributorClients /\ Spec => []ReviewableHasEvidence
<1>1. PipelineInv => ReviewableHasEvidence
  <2> SUFFICES ASSUME PipelineInv, NEW s \in Sessions, state[s] = "READY_FOR_REVIEW"
               PROVE  /\ s \in Sound
                      /\ RawNames \subseteq artifacts[s]
                      /\ {s} \X (RawNames \cup DerivedNames) \subseteq blobs
                      /\ \E j \in Jobs : /\ jobSession[j] = s
                                         /\ jobState[j] = "completed"
                                         /\ result[j] = "valid"
    BY DEF ReviewableHasEvidence
  <2> USE DEF PipelineInv, TypeOK, JobsMirrorSessions, EvidenceStored, Submitted, InPipeline
  <2>1. PICK j \in Jobs : jobSession[j] = s
    OBVIOUS
  <2>2. jobState[j] = "completed"
    <3>1. jobState[j] # "absent"
      BY <2>1, NoOneAssumption
    <3>2. jobState[j] \notin {"queued", "leased", "dead_letter"}
      BY <2>1
    <3> QED
      BY <3>1, <3>2
  <2>3. result[j] = "valid" /\ s \in Sound
    BY <2>1, <2>2
  <2>4. \A n \in RawNames : n \in artifacts[s] /\ <<s, n>> \in blobs
    BY <2>1, <2>2
  <2>5. \A n \in DerivedNames : <<s, n>> \in blobs
    BY <2>1, <2>2, <2>3
  <2>6. {s} \X (RawNames \cup DerivedNames) \subseteq blobs
    BY ONLY <2>4, <2>5
  <2> QED
    BY <2>1, <2>2, <2>3, <2>4, <2>6
<1> QED
  BY <1>1, PipelineInvariant, PTL

(* A FAILED session has an invalid verdict on an unsound capture, a        *)
(* completed job whose inspection failed, or a dead-letter job, and every  *)
(* dead-letter job can be retried: no other order of leases, crashes and   *)
(* retries costs a sound capture its verdict.                              *)
THEOREM FailuresExplained == ContributorClients /\ Spec => []FailureIsExplained
<1>1. PipelineInv => FailureIsExplained
  <2> SUFFICES ASSUME PipelineInv PROVE FailureIsExplained
    OBVIOUS
  <2> USE DEF PipelineInv, TypeOK, JobsMirrorSessions, Submitted, InPipeline
  <2>1. ASSUME NEW s \in Sessions, state[s] = "FAILED"
        PROVE  \E j \in Jobs :
                 /\ jobSession[j] = s
                 /\ \/ jobState[j] = "dead_letter"
                    \/ jobState[j] = "completed" /\ result[j] = "invalid" /\ s \notin Sound
                    \/ jobState[j] = "completed" /\ result[j] = "uninspected"
    <3>1. PICK j \in Jobs : jobSession[j] = s
      BY <2>1
    <3> QED
      BY <2>1, <3>1, NoOneAssumption
  <2> QED
    BY <2>1 DEF FailureIsExplained
<1> QED
  BY <1>1, PipelineInvariant, PTL

-----------------------------------------------------------------------------
(* Whatever targets clients ask for, no session gets past READY without an *)
(* accepted consent document.                                              *)
THEOREM ConsentFirst == Spec => []CapturedWithConsent
<1> DEFINE Inv == TypeOK /\ Links /\ CapturedWithConsent
<1>1. Init => Inv
  BY TypeInit DEF Init, CapturedWithConsent
<1>2. Inv /\ [Next]_vars => Inv'
  <2> SUFFICES ASSUME Inv, [Next]_vars PROVE CapturedWithConsent'
    BY TypeStep
  <2> USE DEF TypeOK, Links, CapturedWithConsent
  <2>1. ASSUME NEW s \in Sessions, SessionStep(s) PROVE CapturedWithConsent'
    <3>1. ASSUME NEW to \in ClientTargets, TransitionSession(s, to)
          PROVE  CapturedWithConsent'
      <4>1. to \in {"READY", "RECORDING", "FINALIZING", "UPLOADING", "SUBMITTED",
                    "PROCESSING", "READY_FOR_REVIEW", "FAILED"} => consent[s]
        BY <3>1, TransitionFacts DEF TransitionSession
      <4> QED
        BY <3>1, <4>1 DEF TransitionSession
    <3> QED
      BY <2>1, <3>1 DEF SessionStep, AssignTask, AcceptConsent, EnsureArtifactUploadAllowed,
         PutRaw, RegisterArtifact, UploadInterrupted, SubmitSession
  <2>2. ASSUME NEW j \in Jobs, JobStep(j) PROVE CapturedWithConsent'
    BY <2>2 DEF JobStep, BackoffElapses, LeaseExpires, RetryDeadLetterJob
  <2>3. ASSUME NEW w \in Workers, WorkerStep(w) PROVE CapturedWithConsent'
    <3>1. CASE CompleteValidationJob(w)
      BY <3>1, TransitionFacts DEF CompleteValidationJob, VerdictState
    <3> QED
      BY <2>3, <3>1 DEF WorkerStep, ClaimValidationJob, Validate, PutTrajectory, PutActions,
         CompletionRefused
  <2>4. ASSUME NEW w \in Workers, WorkerFault(w) PROVE CapturedWithConsent'
    <3>1. CASE StepFails(w)
      BY <3>1, TransitionFacts DEF StepFails, RequeueValidationJob, Requeued, DeadLettered,
         RequeueRefused
    <3> QED
      BY <2>4, <3>1 DEF WorkerFault, InspectionFails, Crash
  <2>5. CASE UNCHANGED vars
    BY <2>5 DEF vars
  <2> QED
    BY <2>1, <2>2, <2>3, <2>4, <2>5 DEF Next
<1> QED
  BY <1>1, <1>2, PTL DEF Spec

(* A worker that was overtaken ends its work without changing a row,       *)
(* whatever it has computed and however late it comes.                     *)
THEOREM OvertakenIsInert == Spec => StaleWorkerIsInert
<1>1. TypeOK /\ Links /\ [Next]_vars =>
        [\A w \in Workers :
           /\ task[w] \in Jobs
           /\ leasedBy[task[w]] # w
           /\ phase'[w] # phase[w]
           => UNCHANGED <<sessionVars, jobVars, result>>]_vars
  <2> SUFFICES ASSUME TypeOK, Links, Next, NEW w \in Workers, task[w] \in Jobs,
                      leasedBy[task[w]] # w, phase'[w] # phase[w]
               PROVE  UNCHANGED <<sessionVars, jobVars, result>>
    BY DEF vars
  <2> USE DEF TypeOK, Links
  <2>1. ASSUME NEW s \in Sessions, SessionStep(s) PROVE FALSE
    BY <2>1 DEF SessionStep, AssignTask, AcceptConsent, TransitionSession,
       EnsureArtifactUploadAllowed, PutRaw, RegisterArtifact, UploadInterrupted, SubmitSession
  <2>2. ASSUME NEW j \in Jobs, JobStep(j) PROVE FALSE
    BY <2>2 DEF JobStep, BackoffElapses, LeaseExpires, RetryDeadLetterJob
  <2>3. ASSUME NEW v \in Workers, WorkerStep(v)
        PROVE  UNCHANGED <<sessionVars, jobVars, result>>
    <3>1. v = w
      BY <2>3 DEF WorkerStep, ClaimValidationJob, Validate, PutTrajectory, PutActions,
         CompleteValidationJob, CompletionRefused, WorkerReturns
    <3>2. phase[w] # "idle"
      BY NoOneAssumption
    <3> QED
      BY <2>3, <3>1, <3>2 DEF WorkerStep, ClaimValidationJob, Validate, PutTrajectory,
         PutActions, CompleteValidationJob, CompletionRefused, HoldsLease
  <2>4. ASSUME NEW v \in Workers, WorkerFault(v)
        PROVE  UNCHANGED <<sessionVars, jobVars, result>>
    <3>1. v = w
      BY <2>4 DEF WorkerFault, StepFails, RequeueValidationJob, InspectionFails, Crash,
         WorkerReturns
    <3> QED
      BY <2>4, <3>1 DEF WorkerFault, StepFails, InspectionFails, Crash,
         RequeueValidationJob, Requeued, DeadLettered, RequeueRefused, HoldsLease
  <2> QED
    BY <2>1, <2>2, <2>3, <2>4 DEF Next
<1> QED
  BY <1>1, TypeInit, TypeStep, PTL DEF Spec, StaleWorkerIsInert

-----------------------------------------------------------------------------
(* What the contract sees of a session depends on the session's state, on  *)
(* its dead-letter jobs and on its failed inspections.                     *)
GaveUp(j, s) == jobSession[j] = s /\ jobState[j] = "dead_letter"
Uninspected(j, s) == jobSession[j] = s /\ result[j] = "uninspected"

LEMMA OutcomeFrame ==
  ASSUME NEW s \in Sessions, NEW v,
         \A r \in Sessions \ {s} :
           /\ state'[r] = state[r]
           /\ \A j \in Jobs : /\ GaveUp(j, r)' <=> GaveUp(j, r)
                              /\ Uninspected(j, r)' <=> Uninspected(j, r),
         outcomeBar'[s] = v
  PROVE  outcomeBar' = [outcomeBar EXCEPT ![s] = v]
<1>1. ASSUME NEW r \in Sessions \ {s} PROVE outcomeBar'[r] = outcomeBar[r]
  BY <1>1 DEF outcomeBar, GaveUp, Uninspected
<1>2. outcomeBar' = [r \in Sessions |-> outcomeBar'[r]]
  BY DEF outcomeBar
<1>3. outcomeBar = [r \in Sessions |-> outcomeBar[r]]
  BY DEF outcomeBar
<1> QED
  BY <1>1, <1>2, <1>3

(* The refinement: every step is a step of the contract or a stutter.      *)
LEMMA ContractStep ==
  ASSUME ContributorClients, PipelineInv, Next
  PROVE  Contract!Next \/ outcomeBar' = outcomeBar
<1> USE DEF PipelineInv, TypeOK, Links, JobsMirrorSessions, OneJob, Submitted, InPipeline
<1>1. ASSUME NEW s \in Sessions, SessionStep(s) PROVE Contract!Next \/ outcomeBar' = outcomeBar
  <2>1. CASE AssignTask(s)
    BY <2>1 DEF AssignTask, outcomeBar
  <2>2. ASSUME NEW to \in ClientTargets, TransitionSession(s, to)
        PROVE  outcomeBar' = outcomeBar
    <3>1. to \notin Submitted /\ state[s] \notin Submitted
      BY <2>2, TransitionFacts DEF TransitionSession, ContributorClients, ContributorStates
    <3> QED
      BY <2>2, <3>1 DEF TransitionSession, outcomeBar
  <2>3. ASSUME NEW j \in Jobs, SubmitSession(s, j) PROVE Contract!Next
    <3>1. outcomeBar[s] = "open"
      BY <2>3 DEF SubmitSession, outcomeBar
    <3>2. outcomeBar' = [outcomeBar EXCEPT ![s] = "pending"]
      <4>1. outcomeBar'[s] = "pending"
        BY <2>3 DEF SubmitSession, outcomeBar
      <4>2. \A r \in Sessions \ {s} :
             /\ state'[r] = state[r]
             /\ \A k \in Jobs : /\ GaveUp(k, r)' <=> GaveUp(k, r)
                                /\ Uninspected(k, r)' <=> Uninspected(k, r)
        BY <2>3, NoOneAssumption DEF SubmitSession, GaveUp, Uninspected
      <4> QED
        BY <4>1, <4>2, OutcomeFrame
    <3> QED
      BY <3>1, <3>2 DEF Contract!Next, Contract!Submit
  <2>4. ASSUME \/ AcceptConsent(s)
               \/ \E n \in RawNames : \/ EnsureArtifactUploadAllowed(s, n)
                                      \/ PutRaw(s, n)
                                      \/ RegisterArtifact(s, n)
                                      \/ UploadInterrupted(s, n)
        PROVE  outcomeBar' = outcomeBar
    <3>1. UNCHANGED <<state, jobState, jobSession, result>>
      BY <2>4 DEF AcceptConsent, EnsureArtifactUploadAllowed, PutRaw, RegisterArtifact,
         UploadInterrupted, sessionVars, jobVars
    <3> QED
      BY <3>1 DEF outcomeBar
  <2> QED
    BY <1>1, <2>1, <2>2, <2>3, <2>4 DEF SessionStep
<1>2. ASSUME NEW j \in Jobs, JobStep(j) PROVE Contract!Next \/ outcomeBar' = outcomeBar
  <2>1. CASE RetryDeadLetterJob(j)
    <3> DEFINE s == jobSession[j]
    <3>1. s \in Sessions /\ outcomeBar[s] = "gaveUp"
      BY <2>1 DEF RetryDeadLetterJob, outcomeBar
    <3>2. outcomeBar' = [outcomeBar EXCEPT ![s] = "pending"]
      <4>1. outcomeBar'[s] = "pending"
        BY <2>1, <3>1 DEF RetryDeadLetterJob, outcomeBar
      <4>2. \A r \in Sessions \ {s} :
             /\ state'[r] = state[r]
             /\ \A k \in Jobs : /\ GaveUp(k, r)' <=> GaveUp(k, r)
                                /\ Uninspected(k, r)' <=> Uninspected(k, r)
        BY <2>1, <3>1 DEF RetryDeadLetterJob, GaveUp, Uninspected
      <4> QED
        BY <3>1, <4>1, <4>2, OutcomeFrame
    <3> QED
      BY <3>1, <3>2 DEF Contract!Next, Contract!Recover
  <2> QED
    BY <1>2, <2>1 DEF JobStep, BackoffElapses, LeaseExpires, outcomeBar
<1>3. ASSUME NEW w \in Workers, WorkerStep(w) PROVE Contract!Next \/ outcomeBar' = outcomeBar
  <2>1. ASSUME NEW j \in Jobs, ClaimValidationJob(w, j) PROVE outcomeBar' = outcomeBar
    BY <2>1 DEF ClaimValidationJob, outcomeBar
  <2>2. CASE CompleteValidationJob(w)
    <3> DEFINE j == task[w]
               s == jobSession[j]
    <3>1. /\ j \in Jobs /\ s \in Sessions
          /\ jobState[j] = "leased" /\ state[s] = "PROCESSING"
          /\ \A k \in Jobs : jobSession[k] = s => k = j
      BY <2>2 DEF CompleteValidationJob, HoldsLease
    <3>2. outcomeBar[s] = "pending"
      BY <3>1 DEF outcomeBar
    <3>3. /\ state' = [state EXCEPT ![s] = VerdictState(verdict[w])]
          /\ jobState' = [jobState EXCEPT ![j] = "completed"]
          /\ result' = [result EXCEPT ![j] = verdict[w]]
          /\ UNCHANGED jobSession
      BY <2>2 DEF CompleteValidationJob
    <3>4. \A r \in Sessions \ {s} :
            /\ state'[r] = state[r]
            /\ \A k \in Jobs : /\ GaveUp(k, r)' <=> GaveUp(k, r)
                               /\ Uninspected(k, r)' <=> Uninspected(k, r)
      BY <3>1, <3>3 DEF GaveUp, Uninspected
    <3>5. ~ \E k \in Jobs : jobSession'[k] = s /\ jobState'[k] = "dead_letter"
      BY <3>1, <3>3
    <3>6. (\E k \in Jobs : jobSession'[k] = s /\ result'[k] = "uninspected")
            <=> verdict[w] = "uninspected"
      BY <3>1, <3>3
    <3>7. CASE verdict[w] = "uninspected"
      <4>1. outcomeBar'[s] = "uninspected"
        BY <3>1, <3>3, <3>5, <3>6, <3>7 DEF outcomeBar, VerdictState
      <4>2. outcomeBar' = [outcomeBar EXCEPT ![s] = "uninspected"]
        BY <3>1, <3>4, <4>1, OutcomeFrame
      <4> QED
        BY <3>1, <3>2, <4>2 DEF Contract!Next, Contract!RejectUninspected
    <3>8. CASE verdict[w] # "uninspected"
      <4>1. VerdictState(verdict[w]) = IF s \in Sound THEN "READY_FOR_REVIEW" ELSE "FAILED"
        BY <2>2, <3>8 DEF CompleteValidationJob, VerdictState, WorkerKnows
      <4>2. outcomeBar'[s] = IF s \in Sound THEN "valid" ELSE "invalid"
        BY <3>1, <3>3, <3>5, <3>6, <3>8, <4>1 DEF outcomeBar
      <4>3. outcomeBar' = [outcomeBar EXCEPT ![s] = IF s \in Sound THEN "valid" ELSE "invalid"]
        BY <3>1, <3>4, <4>2, OutcomeFrame
      <4> QED
        BY <3>1, <3>2, <4>3 DEF Contract!Next, Contract!Decide
    <3> QED
      BY <3>7, <3>8
  <2>3. ASSUME \/ Validate(w) \/ PutTrajectory(w) \/ PutActions(w)
               \/ CompletionRefused(w)
        PROVE  outcomeBar' = outcomeBar
    <3>1. UNCHANGED <<state, jobState, jobSession, result>>
      BY <2>3 DEF Validate, PutTrajectory, PutActions, CompletionRefused, sessionVars, jobVars
    <3> QED
      BY <3>1 DEF outcomeBar
  <2> QED
    BY <1>3, <2>1, <2>2, <2>3 DEF WorkerStep
<1>4. ASSUME NEW w \in Workers, WorkerFault(w) PROVE Contract!Next \/ outcomeBar' = outcomeBar
  <2>1. CASE StepFails(w)
    <3> DEFINE j == task[w]
               s == jobSession[j]
    <3>1. /\ j \in Jobs /\ s \in Sessions
          /\ RequeueValidationJob(w, j)
      BY <2>1 DEF StepFails
    <3>2. CASE Requeued(w, j)
      BY <3>1, <3>2 DEF RequeueValidationJob, Requeued, HoldsLease, outcomeBar
    <3>3. CASE DeadLettered(w, j)
      <4>1. outcomeBar[s] = "pending"
        BY <3>1, <3>3 DEF DeadLettered, HoldsLease, outcomeBar
      <4>2. outcomeBar' = [outcomeBar EXCEPT ![s] = "gaveUp"]
        <5>1. outcomeBar'[s] = "gaveUp"
          BY <3>1, <3>3 DEF RequeueValidationJob, DeadLettered, outcomeBar
        <5>2. \A r \in Sessions \ {s} :
               /\ state'[r] = state[r]
               /\ \A k \in Jobs : /\ GaveUp(k, r)' <=> GaveUp(k, r)
                                  /\ Uninspected(k, r)' <=> Uninspected(k, r)
          BY <3>1, <3>3 DEF RequeueValidationJob, DeadLettered, GaveUp, Uninspected
        <5> QED
          BY <3>1, <5>1, <5>2, OutcomeFrame
      <4> QED
        BY <3>1, <4>1, <4>2 DEF Contract!Next, Contract!GiveUp
    <3>4. CASE RequeueRefused(w, j)
      BY <3>1, <3>4 DEF RequeueValidationJob, RequeueRefused, outcomeBar
    <3> QED
      BY <3>1, <3>2, <3>3, <3>4 DEF RequeueValidationJob
  <2> QED
    BY <1>4, <2>1 DEF WorkerFault, InspectionFails, Crash, outcomeBar
<1> QED
  BY <1>1, <1>2, <1>3, <1>4 DEF Next

(* The pipeline implements the contract: with contributors' clients, each  *)
(* submission is answered at most once, with the verdict its capture       *)
(* deserves or, for good, with a failed inspection; or it is given up      *)
(* until an administrator retries it.                                      *)
THEOREM PipelineImplementsContract == ContributorClients /\ Spec => ImplementsContract
<1> SUFFICES ASSUME ContributorClients PROVE Spec => ImplementsContract
  OBVIOUS
<1>1. Init => Contract!Init
  BY DEF Init, Contract!Init, outcomeBar, InPipeline
<1>2. PipelineInv /\ [Next]_vars => [Contract!Next]_outcomeBar
  <2>1. ASSUME PipelineInv, Next PROVE Contract!Next \/ outcomeBar' = outcomeBar
    BY <2>1, ContractStep
  <2>2. ASSUME UNCHANGED vars PROVE outcomeBar' = outcomeBar
    BY <2>2 DEF vars, outcomeBar, InPipeline
  <2> QED
    BY <2>1, <2>2
<1>3. Spec => []PipelineInv
  BY PipelineInvariant
<1> QED
  BY <1>1, <1>2, <1>3, PTL DEF Spec, ImplementsContract, Contract!Spec
=============================================================================
