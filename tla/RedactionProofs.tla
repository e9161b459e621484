-------------------------- MODULE RedactionProofs ---------------------------
(***************************************************************************)
(* Proofs about Release: an overtaken redaction worker or eraser changes   *)
(* no row, a completed redaction has all of its outputs in the store, and  *)
(* a completed erasure leaves nothing that a row names, however leases are *)
(* lost, jobs retried and workers overtaken.                               *)
(*                                                                         *)
(* The argument goes by what each worker has behind it, whether or not it  *)
(* still has its lease: of a plan's outputs those are in the store until   *)
(* an erasure begins to purge (Produced), of an erasure's inventory those  *)
(* are gone (Purged). The inventory stays complete because no plan is made *)
(* and no job leased behind a request (Inventoried, Linked), which is the  *)
(* exclusion that ReleaseProofs shows.                                     *)
(***************************************************************************)
EXTENDS PublicationProofs

-----------------------------------------------------------------------------
(* Overtaken workers *)

(* What a worker carries, it carries until it is free.                     *)
LEMMA OnlyFreeing ==
  ASSUME IInv, [Next]_vars, NEW w \in Workers, duty[w] # NoOne, duty'[w] = NoOne
  PROVE  /\ IsFree(w)
         /\ \/ CompleteRedactionJob(w) \/ RedactionFails(w) \/ CompleteDeletionRequest(w)
            \/ EraserIsRefused(w) \/ PurgeFails(w) \/ WorkerCrashes(w)
<1> USE DEF workerVars
<1>0. duty \in [Workers -> Plans \cup Requests \cup {NoOne}] /\ duty' # duty
  BY DEF IInv, ReviewInv, Typed
<1>1. ASSUME NEW v \in Workers, NEW d \in Plans \cup Requests, NEW objects, TakesOn(v, d, objects)
      PROVE  FALSE
  BY <1>0, <1>1, NoOneAssumption DEF TakesOn
<1>2. ASSUME NEW v \in Workers, IsFree(v) PROVE v = w
  BY <1>0, <1>2 DEF IsFree
<1>3. PICK v \in Workers : WorkerStep(v) \/ RedactionFails(v) \/ PurgeFails(v) \/ WorkerCrashes(v)
  <2>1. ~ReviewerStep
    BY <1>0 DEF ReviewerStep, ClaimExpires, ClaimReview, ReleaseReview, SubmitReview,
       CreateRedactionPlan
  <2>2. ~AdministratorStep
    BY <1>0 DEF AdministratorStep, RetryDeadLetterRedactionJob, PlaceLegalHold,
       ReleaseLegalHold, RequestSessionDeletion, RetryDeadLetterDeletionRequest
  <2>3. ~ClockStep
    BY <1>0 DEF ClockStep, JobRipens, RequestRipens
  <2>4. \A c \in Calls : ~ReleaseStep(c)
    BY <1>0 DEF ReleaseStep, StartRelease, ListReleaseCandidates, loadRedaction,
       WriteReleaseFile, ExportFails, CommitRelease, reviewVars
  <2>5. ~UNCHANGED vars
    BY <1>0 DEF vars, reviewVars
  <2> QED
    BY <2>1, <2>2, <2>3, <2>4, <2>5 DEF Next, ReviewNext
<1>4. \/ CompleteRedactionJob(v) \/ RedactionFails(v) \/ CompleteDeletionRequest(v)
      \/ EraserIsRefused(v) \/ PurgeFails(v) \/ WorkerCrashes(v)
  BY <1>0, <1>1, <1>3
  DEF WorkerStep, ClaimRedactionJob, ReadSource, WriteOutput, ClaimDeletionRequest, PurgeObject
<1>5. IsFree(v)
  BY <1>4
  DEF CompleteRedactionJob, RequeueRedactionJob, RedactionFails, CompleteDeletionRequest,
      EraserIsRefused, RequeueDeletionRequest, PurgeFails, WorkerCrashes
<1> QED
  BY <1>2, <1>4, <1>5

(* In every behaviour a worker whose lease was taken over, or whose row    *)
(* was settled without it, changes no job, no request and no session when  *)
(* it comes to its end (CompleteRedactionJob, RequeueRedactionJob,         *)
(* CompleteDeletionRequest, RequeueDeletionRequest).                       *)
THEOREM OvertakenWorkersAreInert == Spec => OvertakenWorkerIsInert
<1>1. IInv /\ [Next]_vars =>
        [\A w \in Workers : duty[w] # NoOne /\ duty'[w] = NoOne =>
           LET row == IF duty[w] \in Plans THEN job[duty[w]] ELSE req[duty[w]] IN
           row.state # "leased" \/ row.leasedBy # w => UNCHANGED <<job, req, state>>]_vars
  <2> SUFFICES ASSUME IInv, [Next]_vars, NEW w \in Workers, duty[w] # NoOne, duty'[w] = NoOne,
                      ~LeasedTo(IF duty[w] \in Plans THEN job[duty[w]] ELSE req[duty[w]], w)
               PROVE  UNCHANGED <<job, req, state>>
    BY DEF LeasedTo
  <2> USE DEF sessionVars, redactionVars, erasureVars
  <2>1. duty[w] \in Requests => duty[w] \notin Plans
    BY DutiesAssumption
  <2>2. CASE CompleteRedactionJob(w) \/ RedactionFails(w)
    BY <2>2 DEF CompleteRedactionJob, RedactionFails, RequeueRedactionJob, AllWritten
  <2>3. CASE EraserIsRefused(w) \/ PurgeFails(w)
    BY <2>1, <2>3 DEF EraserIsRefused, PurgeFails, RequeueDeletionRequest
  <2>4. CASE CompleteDeletionRequest(w)
    BY <2>1, <2>4 DEF CompleteDeletionRequest, MayErase
  <2>5. CASE WorkerCrashes(w)
    BY <2>5 DEF WorkerCrashes
  <2> QED
    BY <2>2, <2>3, <2>4, <2>5, OnlyFreeing
<1> QED
  BY <1>1, IInvHolds, PTL DEF Spec, OvertakenWorkerIsInert

-----------------------------------------------------------------------------
(* Objects *)

LEMMA ObjectsDiffer ==
  /\ \A p, q \in Plans : p # q => Outputs(p) \cap Outputs(q) = {}
  /\ \A s \in Sessions, p \in Plans : Evidence(s) \cap Outputs(p) = {}
<1>1. \A p, q \in Plans, g, h \in Segments :
        /\ Output(p, g) = Output(q, h) => p = q
        /\ Manifest(p) = Manifest(q) => p = q
        /\ Output(p, g) # Manifest(q)
  BY DEF Output, Manifest
<1>2. \A s \in Sessions, p \in Plans, g \in Segments :
        /\ Video(s) # Output(p, g) /\ Video(s) # Manifest(p)
        /\ Trajectory(s) # Output(p, g) /\ Trajectory(s) # Manifest(p)
  BY DEF Output, Manifest, Video, Trajectory
<1>3. ASSUME NEW p \in Plans, NEW q \in Plans, p # q PROVE Outputs(p) \cap Outputs(q) = {}
  BY <1>1, <1>3, BoundsAssumption DEF Outputs
<1>4. ASSUME NEW s \in Sessions, NEW p \in Plans PROVE Evidence(s) \cap Outputs(p) = {}
  BY <1>2, BoundsAssumption DEF Outputs, Evidence
<1> QED
  BY <1>3, <1>4

-----------------------------------------------------------------------------
(* What a step does to the rows, the store and the workers *)

Began(row) == row.attempt + row.requeues > 0

(* A request is worked on: it keeps its session and its inventory and is   *)
(* neither made nor completed; what has begun has begun.                   *)
RequestGoesOn(r) ==
  /\ req'[r].session = req[r].session /\ req'[r].keys = req[r].keys
  /\ req'[r].state = "absent" <=> req[r].state = "absent"
  /\ req'[r].state = "completed" => req[r].state = "completed"
  /\ Began(req[r]) => Began(req'[r])

LEMMA RequestRowsGoOn ==
  ASSUME NEW row \in Erasures, NEW w \in Workers
  PROVE  /\ \A to \in LeaseStates :
              /\ Settled(row, to).session = row.session /\ Settled(row, to).keys = row.keys
              /\ Settled(row, to).state = to
              /\ Began(row) => Began(Settled(row, to))
         /\ Requeued(row).session = row.session /\ Requeued(row).keys = row.keys
         /\ Requeued(row).state \in {"queued", "dead_letter"}
         /\ Began(row) => Began(Requeued(row))
         /\ Leased(row, w).session = row.session /\ Leased(row, w).keys = row.keys
         /\ Leased(row, w).state = "leased" /\ Began(Leased(row, w))
<1> USE BoundsAssumption DEF Erasures, LeaseStates, Began
<1>1. ASSUME NEW to \in LeaseStates
      PROVE  /\ Settled(row, to).session = row.session /\ Settled(row, to).keys = row.keys
             /\ Settled(row, to).state = to
             /\ Began(row) => Began(Settled(row, to))
  BY DEF Settled
<1>2. /\ Requeued(row).session = row.session /\ Requeued(row).keys = row.keys
      /\ Requeued(row).state \in {"queued", "dead_letter"}
      /\ Began(row) => Began(Requeued(row))
  BY <1>1 DEF Requeued
<1>3. /\ Leased(row, w).session = row.session /\ Leased(row, w).keys = row.keys
      /\ Leased(row, w).state = "leased" /\ Began(Leased(row, w))
  <2> DEFINE a == IF row.attempt < MaxAttempts THEN row.attempt + 1 ELSE row.attempt
  <2>1. a \in Nat /\ a > 0 /\ row.requeues \in Nat
    OBVIOUS
  <2>2. Leased(row, w) = [row EXCEPT !.state = "leased", !.leasedBy = w, !.ripe = FALSE,
                                     !.attempt = a]
    BY DEF Leased
  <2> HIDE DEF a
  <2>3. Leased(row, w).attempt = a /\ Leased(row, w).requeues = row.requeues
    BY <2>2
  <2> QED
    BY <2>1, <2>2, <2>3
<1> QED
  BY <1>1, <1>2, <1>3

LEMMA RevivedRowGoesOn ==
  ASSUME NEW row \in Erasures
  PROVE  /\ Revived(row).session = row.session /\ Revived(row).keys = row.keys
         /\ Revived(row).state = "queued" /\ Began(Revived(row))
<1> USE DEF Erasures, LeaseStates, Began
<1> DEFINE n == row.requeues + 1
<1>1. n \in Nat /\ n > 0
  OBVIOUS
<1>2. Revived(row) = [row EXCEPT !.state = "queued", !.attempt = 0, !.ripe = TRUE,
                                 !.requeues = n]
  BY DEF Revived
<1> HIDE DEF n
<1>3. Revived(row).attempt = 0 /\ Revived(row).requeues = n
  BY <1>2
<1> QED
  BY <1>1, <1>2, <1>3

LEMMA RequestsGoOn ==
  ASSUME IInv, [Next]_vars, NEW r \in Requests
  PROVE  \/ RequestGoesOn(r)
         \/ \E s \in Sessions : RequestSessionDeletion(s, r)
         \/ \E w \in Workers : duty[w] = r /\ CompleteDeletionRequest(w)
<1>0. req \in [Requests -> Erasures] /\ req[r] \in Erasures
  BY DEF IInv, ReviewInv, Typed
<1>1. ASSUME req'[r] = req[r] PROVE RequestGoesOn(r)
  BY <1>0, <1>1 DEF RequestGoesOn
<1>2. ASSUME NEW q \in Requests, NEW new, req' = [req EXCEPT ![q] = new], q # r
      PROVE  RequestGoesOn(r)
  BY <1>0, <1>1, <1>2
<1>3. ASSUME NEW new, req' = [req EXCEPT ![r] = new], req[r].state # "absent",
             new.session = req[r].session, new.keys = req[r].keys,
             new.state \notin {"absent", "completed"}, Began(req[r]) => Began(new)
      PROVE  RequestGoesOn(r)
  <2>1. req'[r] = new
    BY <1>0, <1>3
  <2> QED
    BY <1>3, <2>1 DEF RequestGoesOn
<1>4. ASSUME NEW q \in Requests, NEW w \in Workers, req[q].state # "absent",
             NEW new \in {Settled(req[q], "dead_letter"), Settled(req[q], "blocked"),
                          Requeued(req[q]), Leased(req[q], w)},
             req' = [req EXCEPT ![q] = new]
      PROVE  RequestGoesOn(r)
  <2>1. CASE q # r
    BY <1>2, <1>4, <2>1
  <2>2. CASE q = r
    <3>1. "dead_letter" \in LeaseStates /\ "blocked" \in LeaseStates
      BY DEF LeaseStates
    <3>2. /\ new.session = req[r].session /\ new.keys = req[r].keys
          /\ new.state \notin {"absent", "completed"}
          /\ Began(req[r]) => Began(new)
      BY <1>0, <1>4, <2>2, <3>1, RequestRowsGoOn
    <3> QED
      BY <1>3, <1>4, <2>2, <3>2
  <2> QED
    BY <2>1, <2>2
<1>5. ASSUME NEW w \in Workers, duty[w] \in Requests, RequeueDeletionRequest(w)
      PROVE  RequestGoesOn(r)
  BY <1>1, <1>4, <1>5 DEF RequeueDeletionRequest, LeasedTo
<1>6. CASE ReviewNext
  <2>1. CASE ReviewerStep
    BY <1>1, <2>1 DEF ReviewerStep, ClaimExpires, ClaimReview, ReleaseReview, SubmitReview,
       CreateRedactionPlan, erasureVars
  <2>2. CASE AdministratorStep
    <3>1. ASSUME NEW s \in Sessions, ReleaseLegalHold(s) PROVE RequestGoesOn(r)
      <4>1. \/ req'[r] = req[r]
            \/ /\ req[r].state = "blocked"
               /\ req'[r] = [req[r] EXCEPT !.state = "queued", !.ripe = TRUE]
        BY <3>1 DEF ReleaseLegalHold
      <4> QED
        BY <1>0, <1>1, <4>1 DEF Erasures, RequestGoesOn, Began
    <3>2. ASSUME NEW q \in Requests, RetryDeadLetterDeletionRequest(q) PROVE RequestGoesOn(r)
      <4>1. req[q].state # "absent" /\ req' = [req EXCEPT ![q] = Revived(req[q])]
        BY <3>2 DEF RetryDeadLetterDeletionRequest
      <4>2. CASE q # r
        BY <1>2, <4>1, <4>2
      <4>3. CASE q = r
        <5>1. /\ Revived(req[r]).session = req[r].session /\ Revived(req[r]).keys = req[r].keys
              /\ Revived(req[r]).state = "queued" /\ Began(Revived(req[r]))
          BY <1>0, RevivedRowGoesOn
        <5> QED
          BY <1>3, <4>1, <4>3, <5>1
      <4> QED
        BY <4>2, <4>3
    <3>3. ASSUME NEW s \in Sessions, NEW q \in Requests, RequestSessionDeletion(s, q)
          PROVE  RequestGoesOn(r) \/ RequestSessionDeletion(s, r)
      BY <1>2, <3>3 DEF RequestSessionDeletion
    <3> QED
      BY <1>1, <2>2, <3>1, <3>2, <3>3
      DEF AdministratorStep, RetryDeadLetterRedactionJob, PlaceLegalHold, erasureVars
  <2>3. CASE ClockStep
    <3>1. ASSUME NEW q \in Requests, RequestRipens(q) PROVE RequestGoesOn(r)
      <4>1. req'[r] = req[r] \/ req'[r] = [req[r] EXCEPT !.ripe = TRUE]
        BY <1>0, <3>1 DEF RequestRipens
      <4> QED
        BY <1>0, <1>1, <4>1 DEF Erasures, RequestGoesOn, Began
    <3> QED
      BY <1>1, <2>3, <3>1 DEF ClockStep, JobRipens, erasureVars
  <2>4. ASSUME NEW w \in Workers, WorkerStep(w)
        PROVE  RequestGoesOn(r) \/ (duty[w] = r /\ CompleteDeletionRequest(w))
    <3>1. ASSUME NEW q \in Requests, ClaimDeletionRequest(w, q) PROVE RequestGoesOn(r)
      BY <1>4, <3>1 DEF ClaimDeletionRequest, Due
    <3>2. CASE CompleteDeletionRequest(w)
      BY <1>2, <3>2 DEF CompleteDeletionRequest, MayErase
    <3>3. CASE EraserIsRefused(w)
      BY <1>5, <3>3 DEF EraserIsRefused
    <3> QED
      BY <1>1, <2>4, <3>1, <3>2, <3>3
      DEF WorkerStep, ClaimRedactionJob, ReadSource, WriteOutput, CompleteRedactionJob,
          PurgeObject, erasureVars
  <2>5. ASSUME NEW w \in Workers, RedactionFails(w) \/ PurgeFails(w) \/ WorkerCrashes(w)
        PROVE  RequestGoesOn(r)
    BY <1>1, <1>5, <2>5 DEF RedactionFails, PurgeFails, WorkerCrashes, erasureVars
  <2> QED
    BY <1>6, <2>1, <2>2, <2>3, <2>4, <2>5 DEF ReviewNext
<1>7. ASSUME NEW c \in Calls, ReleaseStep(c) PROVE req' = req
  BY <1>7
  DEF ReleaseStep, StartRelease, ListReleaseCandidates, loadRedaction, WriteReleaseFile,
      ExportFails, CommitRelease, reviewVars, erasureVars
<1> QED
  BY <1>1, <1>6, <1>7 DEF Next, vars, reviewVars, erasureVars

(* A job is worked on: it neither comes nor goes, and is completed only by *)
(* the worker that carries it out and holds its lease.                     *)
JobGoesOn(p) ==
  /\ job'[p].state = "absent" <=> job[p].state = "absent"
  /\ job'[p].state = "blocked" => job[p].state = "blocked"
  /\ job'[p].state = "completed" =>
       \/ job[p].state = "completed"
       \/ \E w \in Workers : duty[w] = p /\ AllWritten(w) /\ UNCHANGED blobs

LEMMA JobsGoOn ==
  ASSUME IInv, [Next]_vars, NEW p \in Plans
  PROVE  \/ JobGoesOn(p)
         \/ /\ plan[p].session = NoOne /\ job'[p].state = "queued"
            /\ \E s \in Sessions :
                 /\ InsertPlan(s, p) /\ state[s] \in {"READY_FOR_REVIEW", "ACCEPTED"}
                 /\ UNCHANGED <<erasureVars, storeVars, workerVars>>
         \/ \E w \in Workers : /\ CompleteDeletionRequest(w)
                               /\ plan[p].session = req[duty[w]].session
<1>0. job \in [Plans -> Jobs] /\ job[p] \in Jobs
  BY DEF IInv, ReviewInv, Typed
<1>1. ASSUME job'[p] = job[p] PROVE JobGoesOn(p)
  BY <1>1 DEF JobGoesOn
<1>2. ASSUME NEW q \in Plans, NEW new, job' = [job EXCEPT ![q] = new],
             job[q].state # "absent", new.state \in {"queued", "leased", "dead_letter"}
      PROVE  JobGoesOn(p)
  <2>1. job'[p] = job[p] \/ (q = p /\ job'[p] = new)
    BY <1>0, <1>2
  <2> QED
    BY <1>1, <1>2, <2>1 DEF JobGoesOn
<1>3. ASSUME NEW w \in Workers, duty[w] \in Plans, RequeueRedactionJob(w) PROVE JobGoesOn(p)
  <2>1. job[duty[w]] \in Jobs
    BY <1>0, <1>3
  <2>2. Requeued(job[duty[w]]).state \in {"queued", "dead_letter"}
    BY <2>1, JobRowFacts
  <2> QED
    BY <1>1, <1>2, <1>3, <2>2 DEF RequeueRedactionJob, LeasedTo
<1>4. ASSUME NEW s \in Sessions, NEW q \in Plans, InsertPlan(s, q),
             state[s] \in {"READY_FOR_REVIEW", "ACCEPTED"},
             UNCHANGED <<erasureVars, storeVars, workerVars>>
      PROVE  \/ JobGoesOn(p)
             \/ /\ plan[p].session = NoOne /\ job'[p].state = "queued"
                /\ \E t \in Sessions :
                     /\ InsertPlan(t, p) /\ state[t] \in {"READY_FOR_REVIEW", "ACCEPTED"}
                     /\ UNCHANGED <<erasureVars, storeVars, workerVars>>
  <2>1. CASE q # p
    BY <1>0, <1>1, <1>4, <2>1 DEF InsertPlan
  <2>2. CASE q = p
    BY <1>0, <1>4, <2>2 DEF InsertPlan, QueuedRow, NoRow
  <2> QED
    BY <2>1, <2>2
<1>5. CASE ReviewerStep
  BY <1>1, <1>4, <1>5
  DEF ReviewerStep, ClaimExpires, ClaimReview, ReleaseReview, SubmitReview, ApprovePlan,
      CreateRedactionPlan, redactionVars
<1>6. CASE AdministratorStep
  <2>1. ASSUME NEW q \in Plans, RetryDeadLetterRedactionJob(q) PROVE JobGoesOn(p)
    <3>1. job[q] \in Jobs
      BY <1>0
    <3>2. Revived(job[q]).state = "queued"
      BY <3>1 DEF Revived, Jobs
    <3> QED
      BY <1>2, <2>1, <3>2 DEF RetryDeadLetterRedactionJob
  <2> QED
    BY <1>1, <1>6, <2>1
    DEF AdministratorStep, PlaceLegalHold, ReleaseLegalHold, RequestSessionDeletion,
        RetryDeadLetterDeletionRequest, redactionVars
<1>7. CASE ClockStep
  <2>1. ASSUME NEW q \in Plans, JobRipens(q) PROVE JobGoesOn(p)
    <3>1. job'[p] = job[p] \/ job'[p] = [job[p] EXCEPT !.ripe = TRUE]
      BY <1>0, <2>1 DEF JobRipens
    <3> QED
      BY <1>0, <1>1, <3>1 DEF Jobs, JobGoesOn
  <2> QED
    BY <1>1, <1>7, <2>1 DEF ClockStep, RequestRipens, redactionVars
<1>8. ASSUME NEW w \in Workers, WorkerStep(w)
      PROVE  JobGoesOn(p) \/ (CompleteDeletionRequest(w) /\ plan[p].session = req[duty[w]].session)
  <2>1. ASSUME NEW q \in Plans, ClaimRedactionJob(w, q) PROVE JobGoesOn(p)
    <3>1. job[q] \in Jobs
      BY <1>0
    <3>2. Leased(job[q], w).state = "leased"
      BY <3>1, JobRowFacts
    <3> QED
      BY <1>2, <2>1, <3>2 DEF ClaimRedactionJob, Due
  <2>2. CASE CompleteRedactionJob(w)
    <3>1. CASE RequeueRedactionJob(w)
      BY <1>3, <2>2, <3>1 DEF CompleteRedactionJob, AllWritten
    <3>2. CASE /\ LeasedTo(job[duty[w]], w)
               /\ job' = [job EXCEPT ![duty[w]] = Settled(job[duty[w]], "completed")]
      <4>1. CASE duty[w] # p
        BY <1>0, <1>1, <2>2, <3>2, <4>1 DEF CompleteRedactionJob, AllWritten
      <4>2. CASE duty[w] = p
        <5>1. job'[p].state = "completed" /\ job[p].state = "leased"
          BY <1>0, <3>2, <4>2 DEF Settled, Jobs, LeasedTo
        <5> QED
          BY <2>2, <4>2, <5>1 DEF JobGoesOn, CompleteRedactionJob, storeVars
      <4> QED
        BY <4>1, <4>2
    <3> QED
      BY <2>2, <3>1, <3>2 DEF CompleteRedactionJob
  <2>3. CASE CompleteDeletionRequest(w)
    BY <1>1, <2>3 DEF CompleteDeletionRequest
  <2> QED
    BY <1>1, <1>8, <2>1, <2>2, <2>3
    DEF WorkerStep, ReadSource, WriteOutput, ClaimDeletionRequest, PurgeObject,
        EraserIsRefused, redactionVars
<1>9. ASSUME NEW w \in Workers, RedactionFails(w) \/ PurgeFails(w) \/ WorkerCrashes(w)
      PROVE  JobGoesOn(p)
  BY <1>1, <1>3, <1>9 DEF RedactionFails, PurgeFails, WorkerCrashes, redactionVars
<1>10. ASSUME NEW c \in Calls, ReleaseStep(c) PROVE job' = job
  BY <1>10
  DEF ReleaseStep, StartRelease, ListReleaseCandidates, loadRedaction, WriteReleaseFile,
      ExportFails, CommitRelease, reviewVars, redactionVars
<1> QED
  BY <1>1, <1>5, <1>6, <1>7, <1>8, <1>9, <1>10
  DEF Next, ReviewNext, vars, reviewVars, redactionVars

(* The store changes by one object: a redaction worker writes it or an     *)
(* erasing worker takes it away.                                           *)
Writes(w) == MayWrite(w) /\ Written(w, NextOutput(w))
Removes(w, o) ==
  duty[w] \in Requests /\ o \in todo[w] /\ blobs' = blobs \ {o} /\ strays' = strays \ {o}

LEMMA StoreSteps ==
  ASSUME IInv, [Next]_vars
  PROVE  \/ UNCHANGED <<blobs, strays>>
         \/ /\ UNCHANGED <<state, plan>> /\ \A r \in Requests : RequestGoesOn(r)
            /\ \E w \in Workers : Writes(w) \/ \E o \in todo[w] : Removes(w, o)
<1>0. \/ UNCHANGED <<blobs, strays>>
      \/ \A r \in Requests : RequestGoesOn(r)
  BY RequestsGoOn DEF RequestSessionDeletion, CompleteDeletionRequest, storeVars
<1> USE DEF storeVars, sessionVars, redactionVars, erasureVars
<1>1. CASE ReviewNext
  <2>1. CASE ReviewerStep
    BY <2>1 DEF ReviewerStep, ClaimExpires, ClaimReview, ReleaseReview, SubmitReview,
       CreateRedactionPlan
  <2>2. CASE AdministratorStep
    BY <2>2 DEF AdministratorStep, RetryDeadLetterRedactionJob, PlaceLegalHold,
       ReleaseLegalHold, RequestSessionDeletion, RetryDeadLetterDeletionRequest
  <2>3. CASE ClockStep
    BY <2>3 DEF ClockStep, JobRipens, RequestRipens
  <2>4. ASSUME NEW w \in Workers, WorkerStep(w)
        PROVE  \/ UNCHANGED <<blobs, strays>>
               \/ UNCHANGED <<state, plan>> /\ (Writes(w) \/ \E o \in todo[w] : Removes(w, o))
    BY <2>4 DEF WorkerStep, ClaimRedactionJob, ReadSource, WriteOutput, CompleteRedactionJob,
       ClaimDeletionRequest, PurgeObject, CompleteDeletionRequest, EraserIsRefused, Writes, Removes
  <2>5. ASSUME NEW w \in Workers, RedactionFails(w) \/ PurgeFails(w) \/ WorkerCrashes(w)
        PROVE  \/ UNCHANGED <<blobs, strays>>
               \/ UNCHANGED <<state, plan>> /\ (Writes(w) \/ \E o \in todo[w] : Removes(w, o))
    BY <2>5 DEF RedactionFails, PurgeFails, WorkerCrashes, Writes, Removes
  <2> QED
    BY <1>0, <1>1, <2>1, <2>2, <2>3, <2>4, <2>5 DEF ReviewNext
<1>2. ASSUME NEW c \in Calls, ReleaseStep(c) PROVE UNCHANGED <<blobs, strays>>
  BY <1>2
  DEF ReleaseStep, StartRelease, ListReleaseCandidates, loadRedaction, WriteReleaseFile,
      ExportFails, CommitRelease, reviewVars
<1> QED
  BY <1>1, <1>2 DEF Next, vars, reviewVars

(* What a worker carries after a step: nothing, what it carried, or what   *)
(* it has just claimed.                                                    *)
LEMMA DutySteps ==
  ASSUME IInv, TypeInv, [Next]_vars, NEW w \in Workers
  PROVE  \/ duty'[w] = NoOne
         \/ duty'[w] = duty[w] /\ todo'[w] = todo[w]
         \/ duty'[w] = duty[w] /\ Writes(w) /\ todo'[w] = todo[w] \ {NextOutput(w)}
         \/ /\ duty'[w] = duty[w]
            /\ \E o \in todo[w] : Removes(w, o) /\ todo'[w] = todo[w] \ {o}
         \/ \E p \in Plans : /\ Due(job[p]) /\ UNCHANGED storeVars
                             /\ duty'[w] = p /\ todo'[w] = Outputs(p)
         \/ \E r \in Requests : /\ Due(req[r]) /\ req'[r] = Leased(req[r], w)
                                /\ UNCHANGED storeVars
                                /\ duty'[w] = r /\ todo'[w] = req[r].keys
<1> USE DEF workerVars
<1> DEFINE Kept == duty'[w] = duty[w] /\ todo'[w] = todo[w]
<1>0. /\ duty \in [Workers -> Plans \cup Requests \cup {NoOne}]
      /\ req \in [Requests -> Erasures] /\ DOMAIN todo = Workers
  BY DEF IInv, ReviewInv, Typed, TypeInv, RestTyped
<1>1. ASSUME NEW v \in Workers, IsFree(v) PROVE duty'[w] = NoOne \/ Kept
  BY <1>0, <1>1 DEF IsFree
<1>2. ASSUME NEW v \in Workers, NEW d, NEW objects, TakesOn(v, d, objects)
      PROVE  Kept \/ (v = w /\ duty'[w] = d /\ todo'[w] = objects)
  BY <1>0, <1>2 DEF TakesOn
<1>3. ASSUME UNCHANGED <<duty, todo>> PROVE Kept
  BY <1>3
<1>4. ASSUME NEW v \in Workers,
             \/ CompleteRedactionJob(v) \/ RedactionFails(v) \/ CompleteDeletionRequest(v)
             \/ EraserIsRefused(v) \/ PurgeFails(v) \/ WorkerCrashes(v)
      PROVE  duty'[w] = NoOne \/ Kept
  BY <1>1, <1>4
  DEF CompleteRedactionJob, RequeueRedactionJob, RedactionFails, CompleteDeletionRequest,
      EraserIsRefused, RequeueDeletionRequest, PurgeFails, WorkerCrashes
<1>5. ASSUME NEW v \in Workers, WriteOutput(v)
      PROVE  \/ Kept
             \/ duty'[w] = duty[w] /\ Writes(w) /\ todo'[w] = todo[w] \ {NextOutput(w)}
  BY <1>0, <1>5 DEF WriteOutput, Writes
<1>6. ASSUME NEW v \in Workers, PurgeObject(v)
      PROVE  \/ Kept
             \/ /\ duty'[w] = duty[w]
                /\ \E o \in todo[w] : Removes(w, o) /\ todo'[w] = todo[w] \ {o}
  <2>1. PICK o \in todo[v] : /\ blobs' = blobs \ {o} /\ strays' = strays \ {o}
                             /\ todo' = [todo EXCEPT ![v] = @ \ {o}]
    BY <1>6 DEF PurgeObject
  <2>2. CASE v = w
    BY <1>0, <1>6, <2>1, <2>2 DEF PurgeObject, Removes
  <2>3. CASE v # w
    BY <1>0, <1>6, <2>1, <2>3 DEF PurgeObject
  <2> QED
    BY <2>2, <2>3
<1>7. ASSUME NEW v \in Workers, NEW p \in Plans, ClaimRedactionJob(v, p)
      PROVE  \/ Kept
             \/ /\ Due(job[p]) /\ UNCHANGED storeVars
                /\ duty'[w] = p /\ todo'[w] = Outputs(p)
  BY <1>2, <1>7 DEF ClaimRedactionJob
<1>8. ASSUME NEW v \in Workers, NEW r \in Requests, ClaimDeletionRequest(v, r)
      PROVE  \/ Kept
             \/ /\ Due(req[r]) /\ req'[r] = Leased(req[r], w) /\ UNCHANGED storeVars
                /\ duty'[w] = r /\ todo'[w] = req[r].keys
  <2>1. CASE UNCHANGED workerVars
    BY <1>3, <2>1
  <2>2. CASE req' = [req EXCEPT ![r] = Leased(@, v)] /\ TakesOn(v, r, req[r].keys)
    <3>1. req'[r] = Leased(req[r], v)
      BY <1>0, <2>2
    <3> QED
      BY <1>2, <1>8, <2>2, <3>1 DEF ClaimDeletionRequest
  <2> QED
    BY <1>8, <2>1, <2>2 DEF ClaimDeletionRequest
<1>9. ASSUME NEW v \in Workers, ReadSource(v) PROVE Kept
  BY <1>3, <1>9 DEF ReadSource
<1>10. CASE ReviewerStep
  BY <1>3, <1>10 DEF ReviewerStep, ClaimExpires, ClaimReview, ReleaseReview, SubmitReview,
     CreateRedactionPlan
<1>11. CASE AdministratorStep \/ ClockStep
  BY <1>3, <1>11 DEF AdministratorStep, RetryDeadLetterRedactionJob, PlaceLegalHold,
     ReleaseLegalHold, RequestSessionDeletion, RetryDeadLetterDeletionRequest,
     ClockStep, JobRipens, RequestRipens
<1>12. ASSUME NEW c \in Calls, ReleaseStep(c) PROVE UNCHANGED <<duty, todo>>
  BY <1>12
  DEF ReleaseStep, StartRelease, ListReleaseCandidates, loadRedaction, WriteReleaseFile,
      ExportFails, CommitRelease, reviewVars
<1>13. CASE UNCHANGED vars
  BY <1>3, <1>13 DEF vars, reviewVars
<1> HIDE DEF Kept
<1>14. CASE \E v \in Workers : WorkerStep(v) \/ RedactionFails(v) \/ PurgeFails(v) \/ WorkerCrashes(v)
  <2>1. PICK v \in Workers : WorkerStep(v) \/ RedactionFails(v) \/ PurgeFails(v) \/ WorkerCrashes(v)
    BY <1>14
  <2> QED
    BY <2>1, <1>4, <1>5, <1>6, <1>7, <1>8, <1>9 DEF WorkerStep, Kept
<1> QED
  BY <1>3, <1>10, <1>11, <1>12, <1>13, <1>14 DEF Next, ReviewNext, Kept

LEMMA PlanSteps ==
  ASSUME [Next]_vars, NEW p \in Plans, IInv
  PROVE  \/ plan'[p] = plan[p]
         \/ \E s \in Sessions : InsertPlan(s, p) /\ state[s] \in {"READY_FOR_REVIEW", "ACCEPTED"}
<1>1. ASSUME NEW s \in Sessions, NEW q \in Plans, InsertPlan(s, q), q # p
      PROVE  plan'[p] = plan[p]
  BY <1>1 DEF InsertPlan, IInv, ReviewInv, Typed
<1> QED
  BY <1>1, DecidingSteps
  DEF SubmitReview, ApprovePlan, CreateRedactionPlan, CompleteDeletionRequest, CommitRelease,
      redactionVars

LEMMA OnlyErasureDeletes ==
  ASSUME IInv, [Next]_vars, NEW s \in Sessions, state[s] # "DELETED", state'[s] = "DELETED"
  PROVE  \E w \in Workers : CompleteDeletionRequest(w) /\ req[duty[w]].session = s
<1>1. ASSUME NEW t \in Sessions, NEW v, NEW decision \in Decisions, NEW passed,
             NEW p, NEW n \in Sessions \cup {NoOne}, SubmitReview(t, v, decision, passed, p, n)
      PROVE  FALSE
  <2>1. /\ state'[t] \in {"ACCEPTED", "REJECTED", "REWORK_REQUIRED"}
        /\ \A u \in Sessions \ {t} :
             state'[u] = state[u] \/ (state[u] = "absent" /\ state'[u] = "ASSIGNED")
    BY <1>1, DecisionFacts DEF IInv, ReviewInv, Typed, SubmitReview
  <2> QED
    BY <2>1
<1>2. ASSUME NEW w \in Workers, CompleteDeletionRequest(w) PROVE req[duty[w]].session = s
  BY <1>2, ErasesSession
<1>3. ASSUME NEW c \in Calls, CommitRelease(c) PROVE FALSE
  BY <1>3, PublishesSessions
<1> QED
  BY <1>1, <1>2, <1>3, DecidingSteps DEF CreateRedactionPlan, sessionVars

-----------------------------------------------------------------------------
(* Rows that belong together *)

(* A plan has its job until its session is erased.                         *)
JobsLinked ==
  \A p \in Plans :
    /\ job[p].state # "blocked"
    /\ job[p].state # "absent" => plan[p].session \in Sessions
    /\ plan[p].session \in Sessions
       => (job[p].state = "absent" <=> state[plan[p].session] = "DELETED")

RequestsLinked ==
  \A r \in Requests :
    /\ req[r].state = "absent" <=> req[r].session = NoOne
    /\ req[r].state = "completed" => state[req[r].session] = "DELETED"

Linked == JobsLinked /\ RequestsLinked

(* What a request is to purge is what the session's rows name, and stays   *)
(* so: there is no plan behind an erasure.                                 *)
Named(plans, s) ==
  Evidence(s) \cup UNION {Outputs(p) : p \in {q \in Plans : plans[q].session = s}}
Inventoried ==
  \A r \in Requests : req[r].session \in Sessions => req[r].keys = Named(plan, req[r].session)

LEMMA LinkedStep == IInv /\ Linked /\ [Next]_vars => Linked'
<1> SUFFICES ASSUME IInv, Linked, [Next]_vars PROVE Linked'
  OBVIOUS
<1>0. /\ NoOne \notin Sessions
      /\ \A r \in Requests : req[r].session \in Sessions \cup {NoOne}
      /\ \A p \in Plans : plan[p].session \in Sessions \cup {NoOne}
  BY NoOneAssumption DEF IInv, ReviewInv, Typed, Erasures
<1>1. ASSUME NEW w \in Workers, CompleteDeletionRequest(w) PROVE Linked'
  <2> DEFINE r == duty[w]
             s == req[r].session
  <2>1. /\ r \in Requests /\ s \in Sessions /\ req[r].state = "leased"
        /\ state'[s] = "DELETED" /\ \A t \in Sessions \ {s} : state'[t] = state[t]
        /\ plan' = plan
    BY <1>1, ErasesSession
  <2>2. \A p \in Plans : job'[p] = IF plan[p].session = s THEN NoRow ELSE job[p]
    BY <1>1 DEF CompleteDeletionRequest
  <2>3. /\ req'[r].session = s /\ req'[r].state = "completed"
        /\ \A q \in Requests \ {r} : req'[q] = req[q]
    <3>1. req \in [Requests -> Erasures] /\ req' = [req EXCEPT ![r] = Settled(req[r], "completed")]
      BY <1>1 DEF IInv, ReviewInv, Typed, CompleteDeletionRequest
    <3> QED
      BY <2>1, <3>1 DEF Settled, Erasures
  <2> HIDE DEF r, s
  <2>4. JobsLinked'
    BY <2>1, <2>2, NewJobFacts DEF Linked, JobsLinked
  <2>5. RequestsLinked'
    BY <1>0, <2>1, <2>3 DEF Linked, RequestsLinked
  <2> QED
    BY <2>4, <2>5 DEF Linked
<1>2. ASSUME ~\E w \in Workers : CompleteDeletionRequest(w) PROVE Linked'
  <2>1. \A s \in Sessions : state'[s] = "DELETED" <=> state[s] = "DELETED"
    BY <1>2, OnlyErasureDeletes, DeletedStays
  <2>2. ASSUME NEW p \in Plans
        PROVE  /\ job'[p].state # "blocked"
               /\ job'[p].state # "absent" => plan'[p].session \in Sessions
               /\ plan'[p].session \in Sessions
                  => (job'[p].state = "absent" <=> state'[plan'[p].session] = "DELETED")
    <3>1. ASSUME NEW s \in Sessions, InsertPlan(s, p), state[s] \in {"READY_FOR_REVIEW", "ACCEPTED"}
          PROVE  plan'[p].session = s /\ job'[p].state = "queued" /\ state'[s] # "DELETED"
      BY <2>1, <3>1 DEF InsertPlan, QueuedRow, NoRow, IInv, ReviewInv, Typed
    <3>2. CASE plan'[p] = plan[p] /\ JobGoesOn(p)
      BY <1>0, <2>1, <3>2 DEF Linked, JobsLinked, JobGoesOn
    <3> QED
      BY <1>2, <3>1, <3>2, PlanSteps, JobsGoOn
  <2>3. ASSUME NEW r \in Requests
        PROVE  /\ req'[r].state = "absent" <=> req'[r].session = NoOne
               /\ req'[r].state = "completed" => state'[req'[r].session] = "DELETED"
    <3>1. CASE RequestGoesOn(r)
      BY <1>0, <2>1, <3>1 DEF Linked, RequestsLinked, RequestGoesOn
    <3>2. ASSUME NEW s \in Sessions, RequestSessionDeletion(s, r)
          PROVE  req'[r].state = "queued" /\ req'[r].session = s
      BY <3>2 DEF RequestSessionDeletion, Request, IInv, ReviewInv, Typed
    <3> QED
      BY <1>0, <1>2, <3>1, <3>2, RequestsGoOn
  <2> QED
    BY <2>2, <2>3 DEF Linked, JobsLinked, RequestsLinked
<1> QED
  BY <1>1, <1>2

(* A request of any state keeps redaction out.                             *)
LEMMA NoRedactionBehindErasure ==
  ASSUME IInv, Linked, NEW r \in Requests, NEW p \in Plans,
         req[r].session \in Sessions, plan[p].session = req[r].session
  PROVE  job[p].state \notin InProgress
<1>1. req[r].state \in LeaseStates \ {"absent"}
  BY NoOneAssumption DEF Linked, RequestsLinked, IInv, ReviewInv, Typed, Erasures
<1>2. CASE req[r].state = "completed"
  BY <1>2 DEF Linked, RequestsLinked, JobsLinked, InProgress
<1>3. CASE req[r].state \in Pending
  BY <1>3 DEF IInv, ReviewInv, Excluded
<1> QED
  BY <1>1, <1>2, <1>3 DEF LeaseStates, Pending

(* A request keeps its session and its inventory for good.                 *)
LEMMA RequestStays ==
  ASSUME IInv, Linked, [Next]_vars, NEW r \in Requests, req[r].session \in Sessions
  PROVE  /\ req'[r].session = req[r].session /\ req'[r].keys = req[r].keys
         /\ Began(req[r]) => Began(req'[r])
<1>1. req[r].state # "absent"
  BY NoOneAssumption DEF Linked, RequestsLinked
<1>2. ASSUME NEW w \in Workers, duty[w] = r, CompleteDeletionRequest(w)
      PROVE  /\ req'[r].session = req[r].session /\ req'[r].keys = req[r].keys
             /\ Began(req[r]) => Began(req'[r])
  <2>1. req \in [Requests -> Erasures] /\ req' = [req EXCEPT ![r] = Settled(req[r], "completed")]
    BY <1>2 DEF IInv, ReviewInv, Typed, CompleteDeletionRequest
  <2> QED
    BY <2>1 DEF Settled, Erasures, Began
<1> QED
  BY <1>1, <1>2, RequestsGoOn DEF RequestGoesOn, RequestSessionDeletion

LEMMA InventoriedStep == IInv /\ Linked /\ Inventoried /\ [Next]_vars => Inventoried'
<1> SUFFICES ASSUME IInv, Linked, Inventoried, [Next]_vars,
                    NEW r \in Requests, req'[r].session \in Sessions
             PROVE  req'[r].keys = Named(plan', req'[r].session)
  BY DEF Inventoried
<1>0. NoOne \notin Sessions
  BY NoOneAssumption
<1>1. CASE req[r].session \in Sessions
  <2> DEFINE s == req[r].session
  <2>1. req'[r].session = s /\ req'[r].keys = req[r].keys
    BY <1>1, RequestStays
  <2>2. ASSUME NEW p \in Plans PROVE plan'[p].session = s <=> plan[p].session = s
    <3>1. CASE plan'[p] = plan[p]
      BY <3>1
    <3>2. ASSUME NEW t \in Sessions, InsertPlan(t, p), state[t] \in {"READY_FOR_REVIEW", "ACCEPTED"}
          PROVE  t # s /\ plan'[p].session = t /\ plan[p].session = NoOne
      <4>1. plan'[p].session = t /\ plan[p].session = NoOne
        BY <3>2 DEF InsertPlan, IInv, ReviewInv, Typed
      <4>2. ASSUME t = s PROVE FALSE
        <5>1. req[r].state \notin Pending /\ req[r].state # "completed"
          BY <3>2, <4>2 DEF InsertPlan, ErasurePending, Pending, Linked, RequestsLinked
        <5>2. req[r].state \in LeaseStates \ {"absent"}
          BY <1>0, <1>1 DEF Linked, RequestsLinked, IInv, ReviewInv, Typed, Erasures
        <5> QED
          BY <5>1, <5>2 DEF LeaseStates, Pending
      <4> QED
        BY <4>1, <4>2
    <3> QED
      BY <1>0, <1>1, <3>1, <3>2, PlanSteps
  <2>3. Named(plan', s) = Named(plan, s)
    BY <2>2 DEF Named
  <2> QED
    BY <1>1, <2>1, <2>3 DEF Inventoried
<1>2. CASE req[r].session \notin Sessions
  <2>1. PICK s \in Sessions : RequestSessionDeletion(s, r)
    <3>1. ASSUME NEW w \in Workers, duty[w] = r, CompleteDeletionRequest(w) PROVE FALSE
      BY <1>2, <3>1, ErasesSession
    <3> QED
      BY <1>2, <3>1, RequestsGoOn DEF RequestGoesOn
  <2>2. req'[r] = Request(s, sessionObjectKeys(s)) /\ plan' = plan
    BY <2>1 DEF RequestSessionDeletion, redactionVars, IInv, ReviewInv, Typed
  <2>3. req'[r].session = s /\ req'[r].keys = sessionObjectKeys(s)
    BY <2>2 DEF Request
  <2>4. ASSUME NEW p \in Plans, plan[p].session = s
        PROVE  job[p].state \in {"completed", "dead_letter"}
    <3>1. job[p].state \in LeaseStates \ {"blocked", "absent", "queued", "leased"}
      BY <2>1, <2>4
      DEF RequestSessionDeletion, RedactionInProgress, Deletable, Linked, JobsLinked, IInv,
          ReviewInv, Typed, Jobs
    <3> QED
      BY <3>1 DEF LeaseStates
  <2>5. {q \in Plans : plan[q].session = s /\ job[q].state \in {"completed", "dead_letter"}}
          = {q \in Plans : plan[q].session = s}
    BY <2>4
  <2>6. sessionObjectKeys(s) = Named(plan, s)
    BY <2>5 DEF sessionObjectKeys, Named
  <2> QED
    BY <2>2, <2>3, <2>6
<1> QED
  BY <1>1, <1>2

-----------------------------------------------------------------------------
(* What a worker carries *)

Duties ==
  \A w \in Workers :
    /\ duty[w] \in Plans => /\ plan[duty[w]].session \in Sessions
                            /\ todo[w] \subseteq Outputs(duty[w])
    /\ duty[w] \in Requests => /\ req[duty[w]].session \in Sessions
                               /\ todo[w] \subseteq req[duty[w]].keys
                               /\ Began(req[duty[w]])

LEMMA DutiesStep == IInv /\ TypeInv /\ Linked /\ Duties /\ [Next]_vars => Duties'
<1> SUFFICES ASSUME IInv, TypeInv, Linked, Duties, [Next]_vars, NEW w \in Workers
             PROVE  /\ duty'[w] \in Plans => /\ plan'[duty'[w]].session \in Sessions
                                             /\ todo'[w] \subseteq Outputs(duty'[w])
                    /\ duty'[w] \in Requests => /\ req'[duty'[w]].session \in Sessions
                                                /\ todo'[w] \subseteq req'[duty'[w]].keys
                                                /\ Began(req'[duty'[w]])
  BY DEF Duties
<1>0. NoOne \notin Plans \cup Requests \cup Sessions /\ Plans \cap Requests = {}
  BY NoOneAssumption, DutiesAssumption
<1>1. ASSUME duty'[w] = duty[w], todo'[w] \subseteq todo[w]
      PROVE  /\ duty'[w] \in Plans => /\ plan'[duty'[w]].session \in Sessions
                                      /\ todo'[w] \subseteq Outputs(duty'[w])
             /\ duty'[w] \in Requests => /\ req'[duty'[w]].session \in Sessions
                                         /\ todo'[w] \subseteq req'[duty'[w]].keys
                                         /\ Began(req'[duty'[w]])
  BY <1>1, PlansStay, RequestStays DEF Duties
<1>2. ASSUME NEW p \in Plans, Due(job[p]), duty'[w] = p, todo'[w] = Outputs(p)
      PROVE  /\ duty'[w] \notin Requests /\ plan'[p].session \in Sessions
             /\ todo'[w] \subseteq Outputs(p)
  BY <1>0, <1>2, PlansStay DEF Due, Linked, JobsLinked
<1>3. ASSUME NEW r \in Requests, Due(req[r]), req'[r] = Leased(req[r], w),
             duty'[w] = r, todo'[w] = req[r].keys
      PROVE  /\ duty'[w] \notin Plans /\ req'[r].session \in Sessions
             /\ todo'[w] \subseteq req'[r].keys /\ Began(req'[r])
  <2>1. req[r] \in Erasures
    BY DEF IInv, ReviewInv, Typed
  <2>2. req[r].session \in Sessions
    BY <1>3, <2>1 DEF Due, Linked, RequestsLinked, Erasures
  <2> QED
    BY <1>0, <1>3, <2>1, <2>2, RequestRowsGoOn
<1> QED
  BY <1>0, <1>1, <1>2, <1>3, DutySteps

-----------------------------------------------------------------------------
(* Completed redaction *)

PurgeBegan(requests, s) == \E r \in Requests : requests[r].session = s /\ Began(requests[r])

(* Of the outputs of a plan, those a worker has behind it are there, and   *)
(* all of them once its job is completed, until an erasure begins to purge.*)
Produced ==
  /\ \A w \in Workers : duty[w] \in Plans => \/ Outputs(duty[w]) \ todo[w] \subseteq blobs
                                             \/ PurgeBegan(req, plan[duty[w]].session)
  /\ \A p \in Plans : job[p].state = "completed" => \/ Outputs(p) \subseteq blobs
                                                    \/ PurgeBegan(req, plan[p].session)

LEMMA OnlyPurgeTakes ==
  ASSUME IInv, Linked, Inventoried, Duties, [Next]_vars, NEW p \in Plans, NEW o \in Outputs(p),
         o \in blobs, o \notin blobs'
  PROVE  PurgeBegan(req, plan[p].session)
<1>1. PICK w \in Workers : duty[w] \in Requests /\ o \in todo[w]
  BY StoreSteps DEF Writes, Written, Removes
<1> DEFINE r == duty[w]
<1>2. /\ r \in Requests /\ req[r].session \in Sessions /\ Began(req[r])
      /\ o \in Named(plan, req[r].session)
  BY <1>1 DEF Duties, Inventoried
<1> HIDE DEF r
<1>3. plan[p].session = req[r].session
  <2>1. o \notin Evidence(req[r].session)
    BY <1>2, ObjectsDiffer
  <2>2. PICK q \in Plans : plan[q].session = req[r].session /\ o \in Outputs(q)
    BY <1>2, <2>1 DEF Named
  <2>3. q = p
    BY <2>2, ObjectsDiffer
  <2> QED
    BY <2>2, <2>3
<1> QED
  BY <1>2, <1>3 DEF PurgeBegan

LEMMA ProducedStep ==
  IInv /\ TypeInv /\ Linked /\ Inventoried /\ Duties /\ Produced /\ [Next]_vars => Produced'
<1> SUFFICES ASSUME IInv, TypeInv, Linked, Inventoried, Duties, Produced, [Next]_vars
             PROVE  Produced'
  OBVIOUS
<1>0. NoOne \notin Plans \cup Requests \cup Sessions /\ Plans \cap Requests = {}
  BY NoOneAssumption, DutiesAssumption
<1>1. ASSUME NEW p \in Plans, plan[p].session \in Sessions, PurgeBegan(req, plan[p].session)
      PROVE  PurgeBegan(req', plan'[p].session)
  BY <1>1, PlansStay, RequestStays DEF PurgeBegan
<1>2. ASSUME NEW p \in Plans, plan[p].session \in Sessions, NEW objects \in SUBSET Outputs(p),
             objects \subseteq blobs \/ PurgeBegan(req, plan[p].session)
      PROVE  objects \subseteq blobs' \/ PurgeBegan(req', plan'[p].session)
  BY <1>1, <1>2, OnlyPurgeTakes
<1>3. ASSUME NEW w \in Workers, duty'[w] \in Plans
      PROVE  \/ Outputs(duty'[w]) \ todo'[w] \subseteq blobs'
             \/ PurgeBegan(req', plan'[duty'[w]].session)
  <2>1. CASE duty'[w] = duty[w] /\ todo'[w] = todo[w]
    BY <1>2, <1>3, <2>1 DEF Produced, Duties
  <2>2. CASE duty'[w] = duty[w] /\ Writes(w) /\ todo'[w] = todo[w] \ {NextOutput(w)}
    <3>1. \/ Outputs(duty[w]) \ todo[w] \subseteq blobs'
          \/ PurgeBegan(req', plan'[duty[w]].session)
      BY <1>2, <1>3, <2>2 DEF Produced, Duties
    <3>2. NextOutput(w) \in blobs'
      BY <2>2 DEF Writes, Written
    <3> QED
      BY <2>2, <3>1, <3>2
  <2>3. CASE \E p \in Plans : duty'[w] = p /\ todo'[w] = Outputs(p)
    BY <2>3
  <2> QED
    BY <1>0, <1>3, <2>1, <2>2, <2>3, DutySteps DEF Removes
<1>4. ASSUME NEW p \in Plans, job'[p].state = "completed"
      PROVE  Outputs(p) \subseteq blobs' \/ PurgeBegan(req', plan'[p].session)
  <2>1. CASE job[p].state = "completed"
    <3>1. plan[p].session \in Sessions
      BY <2>1 DEF Linked, JobsLinked
    <3> QED
      BY <1>2, <2>1, <3>1 DEF Produced
  <2>2. CASE \E w \in Workers : duty[w] = p /\ AllWritten(w) /\ UNCHANGED blobs
    BY <1>1, <2>2 DEF Produced, Duties, AllWritten
  <2>3. ASSUME NEW w \in Workers, CompleteDeletionRequest(w),
               plan[p].session = req[duty[w]].session
        PROVE  FALSE
    BY <1>4, <2>3 DEF CompleteDeletionRequest, NoRow
  <2> QED
    BY <1>4, <2>1, <2>2, <2>3, JobsGoOn DEF JobGoesOn
<1> QED
  BY <1>3, <1>4 DEF Produced

-----------------------------------------------------------------------------
(* Erasure *)

(* An object is out of the store, or was put back by a redaction worker    *)
(* without a lease.                                                        *)
Gone(o) == o \notin blobs \/ (o \in strays /\ \E p \in Plans : o \in Outputs(p))

(* What an erasing worker has behind it is gone, and so is everything of   *)
(* an erased session.                                                      *)
Purged ==
  /\ \A w \in Workers : duty[w] \in Requests => \A o \in req[duty[w]].keys \ todo[w] : Gone(o)
  /\ \A s \in Sessions : state[s] = "DELETED" => \A o \in Named(plan, s) : Gone(o)

(* A session that is to be erased, or is erased, gets no output of a       *)
(* worker that holds a lease.                                              *)
LEMMA GoneStays ==
  ASSUME IInv, TypeInv, Linked, [Next]_vars, NEW s \in Sessions,
         state[s] = "DELETED" \/ \E r \in Requests : req[r].session = s,
         NEW o \in Named(plan, s), Gone(o)
  PROVE  Gone(o)'
<1>1. CASE UNCHANGED <<blobs, strays>>
  BY <1>1 DEF Gone
<1>2. ASSUME NEW w \in Workers, NEW x, Removes(w, x) PROVE Gone(o)'
  BY <1>2 DEF Removes, Gone
<1>3. ASSUME NEW w \in Workers, Writes(w) PROVE Gone(o)'
  <2>1. CASE o # NextOutput(w)
    BY <1>3, <2>1 DEF Writes, Written, Gone
  <2>2. CASE o = NextOutput(w)
    <3>1. duty[w] \in Plans /\ o \in Outputs(duty[w])
      BY <1>3, <2>2 DEF Writes, MayWrite, NextOutput, Outputs, TypeInv, RestTyped
    <3>2. plan[duty[w]].session = s
      <4>1. o \notin Evidence(s)
        BY <3>1, ObjectsDiffer
      <4>2. PICK q \in Plans : plan[q].session = s /\ o \in Outputs(q)
        BY <4>1 DEF Named
      <4> QED
        BY <3>1, <4>2, ObjectsDiffer
    <3>3. job[duty[w]].state # "leased"
      <4>1. CASE state[s] = "DELETED"
        BY <3>1, <3>2, <4>1 DEF Linked, JobsLinked
      <4>2. ASSUME NEW r \in Requests, req[r].session = s PROVE job[duty[w]].state # "leased"
        BY <3>1, <3>2, <4>2, NoRedactionBehindErasure DEF InProgress
      <4> QED
        BY <4>1, <4>2
    <3> QED
      BY <1>3, <2>2, <3>1, <3>3 DEF Writes, Written, LeasedTo, Gone
  <2> QED
    BY <2>1, <2>2
<1> QED
  BY <1>1, <1>2, <1>3, StoreSteps

LEMMA PurgedStep ==
  IInv /\ TypeInv /\ Linked /\ Inventoried /\ Duties /\ Purged /\ [Next]_vars => Purged'
<1> SUFFICES ASSUME IInv, TypeInv, Linked, Inventoried, Duties, Purged, [Next]_vars
             PROVE  Purged'
  OBVIOUS
<1>0. NoOne \notin Plans \cup Requests \cup Sessions /\ Plans \cap Requests = {}
  BY NoOneAssumption, DutiesAssumption
<1>1. ASSUME NEW w \in Workers, duty'[w] \in Requests, NEW o \in req'[duty'[w]].keys \ todo'[w]
      PROVE  Gone(o)'
  <2>1. ASSUME duty'[w] = duty[w], o \notin todo[w] PROVE Gone(o)'
    <3>1. /\ req[duty[w]].session \in Sessions /\ o \in req[duty[w]].keys
          /\ req[duty[w]].keys = Named(plan, req[duty[w]].session)
      BY <1>1, <2>1, RequestStays DEF Duties, Inventoried
    <3>2. Gone(o)
      BY <1>1, <2>1, <3>1 DEF Purged
    <3> QED
      BY <1>1, <2>1, <3>1, <3>2, GoneStays
  <2>2. ASSUME NEW x \in todo[w], duty'[w] = duty[w], Removes(w, x), todo'[w] = todo[w] \ {x}
        PROVE  Gone(o)'
    <3>1. CASE o = x
      BY <2>2, <3>1 DEF Removes, Gone
    <3>2. CASE o # x
      BY <1>1, <2>1, <2>2, <3>2
    <3> QED
      BY <3>1, <3>2
  <2>3. ASSUME NEW r \in Requests, Due(req[r]), duty'[w] = r, todo'[w] = req[r].keys
        PROVE  FALSE
    <3>1. req[r].session \in Sessions
      BY <2>3 DEF Due, Linked, RequestsLinked, IInv, ReviewInv, Typed, Erasures
    <3> QED
      BY <1>1, <2>3, <3>1, RequestStays
  <2> QED
    BY <1>0, <1>1, <2>1, <2>2, <2>3, DutySteps DEF Writes, MayWrite
<1>2. ASSUME NEW s \in Sessions, state'[s] = "DELETED", NEW o \in Named(plan', s)
      PROVE  Gone(o)'
  <2>1. CASE state[s] = "DELETED"
    <3>1. ASSUME NEW p \in Plans, plan'[p].session = s PROVE plan[p].session = s
      BY <2>1, <3>1, PlanSteps DEF InsertPlan, IInv, ReviewInv, Typed
    <3>2. o \in Named(plan, s)
      BY <3>1 DEF Named
    <3> QED
      BY <2>1, <3>2, GoneStays DEF Purged
  <2>2. CASE state[s] # "DELETED"
    <3>1. PICK w \in Workers : CompleteDeletionRequest(w) /\ req[duty[w]].session = s
      BY <1>2, <2>2, OnlyErasureDeletes
    <3>2. duty[w] \in Requests /\ todo[w] = {} /\ UNCHANGED <<plan, blobs, strays>>
      BY <3>1 DEF CompleteDeletionRequest, MayErase, storeVars
    <3>3. req[duty[w]].keys = Named(plan, s)
      BY <3>1, <3>2 DEF Inventoried
    <3>4. o \in req[duty[w]].keys \ todo[w]
      BY <3>2, <3>3
    <3>5. Gone(o)
      BY <3>2, <3>4 DEF Purged
    <3> QED
      BY <3>2, <3>5 DEF Gone
  <2> QED
    BY <2>1, <2>2
<1> QED
  BY <1>1, <1>2 DEF Purged

(* An erased session has no claim, and nobody claims it.                   *)
Unclaimed == \A s \in Sessions : state[s] = "DELETED" => claim[s] = NoClaim

LEMMA UnclaimedStep == IInv /\ TypeInv /\ Unclaimed /\ [Next]_vars => Unclaimed'
<1> SUFFICES ASSUME IInv, TypeInv, Unclaimed, [Next]_vars, NEW s \in Sessions,
                    state'[s] = "DELETED"
             PROVE  claim'[s] = NoClaim
  BY DEF Unclaimed
<1>0. DOMAIN claim = Sessions
  BY DEF TypeInv, RestTyped
<1>1. CASE state[s] # "DELETED"
  <2>1. PICK w \in Workers : CompleteDeletionRequest(w) /\ req[duty[w]].session = s
    BY <1>1, OnlyErasureDeletes
  <2> QED
    BY <1>0, <2>1 DEF CompleteDeletionRequest
<1>2. CASE state[s] = "DELETED"
  <2> USE DEF sessionVars
  <2>0. claim[s] = NoClaim /\ claim[s].live = FALSE /\ claim[s].by \notin Reviewers
    <3>1. claim[s] = NoClaim
      BY <1>2 DEF Unclaimed
    <3>2. NoClaim.by = NoOne /\ NoClaim.live = FALSE
      BY DEF NoClaim
    <3> QED
      BY <3>1, <3>2, NoOneAssumption
  <2>1. CASE claim'[s] = claim[s]
    BY <2>0, <2>1
  <2>2. CASE ReviewerStep
    <3>1. ASSUME NEW t \in Sessions, NEW new, claim' = [claim EXCEPT ![t] = new], t # s
          PROVE  claim'[s] = claim[s]
      BY <1>0, <3>1
    <3>2. ASSUME NEW t \in Sessions, ClaimExpires(t) PROVE claim'[s] = claim[s]
      BY <1>0, <2>0, <3>2 DEF ClaimExpires
    <3> QED
      BY <1>2, <2>0, <2>1, <2>2, <3>1, <3>2
      DEF ReviewerStep, ClaimReview, ReleaseReview, SubmitReview, CreateRedactionPlan
  <2>3. ASSUME NEW w \in Workers, CompleteDeletionRequest(w) PROVE claim'[s] = NoClaim
    BY <1>0, <2>0, <2>3 DEF CompleteDeletionRequest
  <2>4. CASE AdministratorStep \/ ClockStep
    BY <2>1, <2>4 DEF AdministratorStep, RetryDeadLetterRedactionJob, PlaceLegalHold,
       ReleaseLegalHold, RequestSessionDeletion, RetryDeadLetterDeletionRequest,
       ClockStep, JobRipens, RequestRipens
  <2>5. ASSUME NEW w \in Workers,
               WorkerStep(w) \/ RedactionFails(w) \/ PurgeFails(w) \/ WorkerCrashes(w)
        PROVE  claim'[s] = NoClaim
    BY <2>1, <2>3, <2>5
    DEF WorkerStep, ClaimRedactionJob, ReadSource, WriteOutput, CompleteRedactionJob,
        ClaimDeletionRequest, PurgeObject, EraserIsRefused, RedactionFails, PurgeFails,
        WorkerCrashes
  <2>6. ASSUME NEW c \in Calls, ReleaseStep(c) PROVE claim'[s] = claim[s]
    BY <2>6
    DEF ReleaseStep, StartRelease, ListReleaseCandidates, loadRedaction, WriteReleaseFile,
        ExportFails, CommitRelease, reviewVars
  <2> QED
    BY <2>1, <2>2, <2>4, <2>5, <2>6 DEF Next, ReviewNext, vars, reviewVars
<1> QED
  BY <1>1, <1>2

-----------------------------------------------------------------------------
(* Theorems *)

StoreInv == Linked /\ Inventoried /\ Duties /\ Produced /\ Purged /\ Unclaimed

LEMMA StoreInvInit == Init => StoreInv
<1> SUFFICES ASSUME Init PROVE StoreInv
  OBVIOUS
<1> USE DEF Init, ReviewInit
<1>0. NoOne \notin Plans \cup Requests \cup Sessions
  BY NoOneAssumption
<1>1. /\ \A r \in Requests : req[r].session = NoOne /\ req[r].state = "absent"
      /\ \A p \in Plans : plan[p].session = NoOne /\ job[p].state = "absent"
      /\ \A w \in Workers : duty[w] = NoOne
      /\ \A s \in Sessions : state[s] # "DELETED"
  BY DEF NoRequest, Request, NoPlan, NoRow
<1> QED
  BY <1>0, <1>1
  DEF StoreInv, Linked, JobsLinked, RequestsLinked, Inventoried, Duties, Produced, Purged, Unclaimed

LEMMA StoreInvHolds == Spec => [](IInv /\ TypeInv /\ CallsTyped /\ DecisionInv /\ StoreInv)
<1>1. IInv /\ TypeInv /\ StoreInv /\ [Next]_vars => StoreInv'
  BY LinkedStep, InventoriedStep, DutiesStep, ProducedStep, PurgedStep, UnclaimedStep DEF StoreInv
<1> QED
  BY <1>1, StoreInvInit, DecisionHolds, PTL DEF Spec

(* Whatever attempts failed half way, crashed or were overtaken, a         *)
(* redaction job that is completed has every output in the store until an  *)
(* erasure of its session begins to purge (processRedaction,               *)
(* CompleteRedactionJob).                                                  *)
THEOREM CompletedRedactionIsComplete == Spec => []CompletedIsComplete
<1>1. StoreInv => CompletedIsComplete
  BY DEF StoreInv, Produced, PurgeBegan, Began, CompletedIsComplete
<1> QED
  BY <1>1, StoreInvHolds, PTL

(* An erased session leaves no claim, no review, no job and no object that *)
(* a row named; what may be left was written by a redaction worker that    *)
(* had lost its lease (sessionObjectKeys, CompleteDeletionRequest).        *)
THEOREM ErasureLeavesNothing == Spec => []ErasureIsComplete
<1>1. IInv /\ TypeInv /\ DecisionInv /\ StoreInv => ErasureIsComplete
  <2> SUFFICES ASSUME IInv, TypeInv, DecisionInv, StoreInv,
                      NEW s \in Sessions, state[s] = "DELETED"
               PROVE  /\ claim[s] = NoClaim
                      /\ \A v \in reviews : v.session # s
                      /\ Evidence(s) \cap blobs = {}
                      /\ \A p \in Plans : plan[p].session = s =>
                           job[p].state = "absent" /\ Outputs(p) \cap blobs \subseteq strays
    BY DEF ErasureIsComplete
  <2>1. claim[s] = NoClaim
    BY DEF StoreInv, Unclaimed
  <2>2. ASSUME NEW v \in reviews PROVE v.session # s
    <3>1. v.decision \in Decisions
      BY DEF TypeInv, RestTyped, Reviews
    <3>2. Target[v.decision] # "DELETED"
      BY <3>1 DEF Decisions, Target
    <3> QED
      BY <3>2 DEF DecisionInv, Decided
  <2>3. \A o \in Named(plan, s) : Gone(o)
    BY DEF StoreInv, Purged
  <2>4. Evidence(s) \cap blobs = {}
    BY <2>3, ObjectsDiffer DEF Named, Gone
  <2>5. ASSUME NEW p \in Plans, plan[p].session = s
        PROVE  job[p].state = "absent" /\ Outputs(p) \cap blobs \subseteq strays
    <3>1. Outputs(p) \subseteq Named(plan, s)
      BY <2>5 DEF Named
    <3> QED
      BY <2>3, <2>5, <3>1 DEF Gone, StoreInv, Linked, JobsLinked
  <2> QED
    BY <2>1, <2>2, <2>4, <2>5
<1> QED
  BY <1>1, StoreInvHolds, PTL
=============================================================================
