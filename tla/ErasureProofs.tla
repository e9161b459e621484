--------------------------- MODULE ErasureProofs ----------------------------
(***************************************************************************)
(* Proofs about Governance: an overtaken purger changes no row, nothing    *)
(* comes back to an erased session, an artifact marked purged is gone, and *)
(* sessions and jobs still correspond, for every number of sessions, jobs, *)
(* requests, workers, attempts and faults.                                 *)
(*                                                                         *)
(* No row leads out of DELETED, and what an erasure takes away is found by *)
(* no claim, verdict or retry (ErasureInv). A purge of raw evidence is     *)
(* requested for a session that uploads no more (EvidenceOrder), names all *)
(* that is left of it (RawRequests), and what its worker has behind it     *)
(* stays gone (GoneBehindPurger).                                          *)
(***************************************************************************)
EXTENDS GovernanceProofs

USE DEF SessionStates, JobStates, UploadSteps, Phases, Verdicts, DerivedNames,
        Objects, sessionVars, jobVars, workerVars, govVars, purgerVars,
        Kinds, RequestStates, Queues

-----------------------------------------------------------------------------
(* What a step may touch *)

(* Three kinds of steps: the pipeline's own, the erasure of a session, and *)
(* those that change no row of sessions or jobs.                           *)
LEMMA RowSteps ==
  ASSUME [GovNext]_allVars
  PROVE  \/ PipelineStep
         \/ \E w \in Workers : ValidateFindsNoObject(w)
         \/ \E w \in Workers : CompleteDeletionRequest(w)
         \/ UNCHANGED <<sessionVars, jobVars, result, upload, workerVars>>
<1>1. CASE AdminStep \/ TimeStep
  BY <1>1
  DEF AdminStep, UpsertRetentionPolicy, PlaceLegalHold, ReleaseLegalHold,
      RequestSessionDeletion, RetryDeadLetterDeletionRequest, RetryDeadLetterRetentionPurge,
      TimeStep, Age, RequestBackoffElapses, RequestLeaseExpires, vars
<1>2. ASSUME NEW w \in Workers, PurgerStep(w)
      PROVE  \/ ValidateFindsNoObject(w) \/ CompleteDeletionRequest(w)
             \/ UNCHANGED <<sessionVars, jobVars, result, upload, workerVars>>
  BY <1>2
  DEF PurgerStep, FindsNothing, ClaimDeletionRequest, LeaseDeletion, SetDeletionAside,
      ClaimRetentionPurge, QueueExpiredRetention, PurgeObject, CompleteRetentionPurge,
      RequestCompletionRefused, vars
<1>3. ASSUME NEW w \in Workers,
             PurgeFails(w) \/ PurgerCrashes(w) \/ \E r \in Requests : PlaceLegalHoldBehindClaim(w, r)
      PROVE  UNCHANGED <<sessionVars, jobVars, result, upload, workerVars>>
  BY <1>3 DEF PurgeFails, PurgerCrashes, PlaceLegalHoldBehindClaim, LeaseDeletion, vars
<1>4. CASE UNCHANGED allVars
  BY <1>4 DEF allVars, vars
<1> QED
  BY <1>1, <1>2, <1>3, <1>4 DEF GovNext

-----------------------------------------------------------------------------
(* Stale purgers *)

(* The steps after which a worker no longer carries what it carried.       *)
LEMMA OnlyEndingDuty ==
  ASSUME GovInv, [GovNext]_allVars, NEW w \in Workers, duty[w] # NoOne, duty'[w] # duty[w]
  PROVE  \/ CompleteDeletionRequest(w) \/ CompleteRetentionPurge(w)
         \/ RequestCompletionRefused(w) \/ PurgeFails(w) \/ PurgerCrashes(w)
<1>0. duty \in [Workers -> Requests \cup {NoOne}] /\ duty' # duty
  BY DEF GovInv, GovTypeOK
<1>1. ASSUME NEW v \in Workers, DutyDone(v) PROVE v = w
  BY <1>0, <1>1 DEF DutyDone
<1>2. ASSUME NEW v \in Workers, NEW r, StartPurging(v, r), duty[v] = NoOne PROVE FALSE
  BY <1>0, <1>2 DEF StartPurging
<1>3. ~PipelineStep /\ ~AdminStep /\ ~TimeStep /\ ~UNCHANGED allVars
  BY <1>0
  DEF PipelineStep, AdminStep, UpsertRetentionPolicy, PlaceLegalHold, ReleaseLegalHold,
      RequestSessionDeletion, RetryDeadLetterDeletionRequest, RetryDeadLetterRetentionPurge,
      TimeStep, Age, RequestBackoffElapses, RequestLeaseExpires, allVars
<1>4. ASSUME NEW v \in Workers, PurgerStep(v)
      PROVE  \/ CompleteDeletionRequest(v) \/ CompleteRetentionPurge(v)
             \/ RequestCompletionRefused(v)
  BY <1>0, <1>2, <1>4
  DEF PurgerStep, FindsNothing, Looking, ClaimDeletionRequest, LeaseDeletion, SetDeletionAside,
      ClaimRetentionPurge, QueueExpiredRetention, PurgeObject, ValidateFindsNoObject
<1>5. ASSUME NEW v \in Workers, NEW r \in Requests, PlaceLegalHoldBehindClaim(v, r) PROVE FALSE
  BY <1>2, <1>5 DEF PlaceLegalHoldBehindClaim, LeaseDeletion, Looking
<1>6. PICK v \in Workers :
        \/ CompleteDeletionRequest(v) \/ CompleteRetentionPurge(v)
        \/ RequestCompletionRefused(v) \/ PurgeFails(v) \/ PurgerCrashes(v)
  BY <1>3, <1>4, <1>5 DEF GovNext
<1>7. DutyDone(v)
  BY <1>6
  DEF CompleteDeletionRequest, CompleteRetentionPurge, RequestCompletionRefused, PurgeFails,
      PurgerCrashes, RequeueRequest
<1> QED
  BY <1>1, <1>6, <1>7

(* In every behaviour a purging worker whose lease was taken over, or whose *)
(* request was settled without it, changes no row when it comes to its end *)
(* (CompleteDeletionRequest, CompleteRetentionPurge and the two requeues). *)
THEOREM StalePurgersAreInert == GovSpec => StalePurgerIsInert
<1>1. GovInv /\ [GovNext]_allVars =>
        [\A w \in Workers :
           /\ duty[w] # NoOne /\ req[duty[w]].leasedBy # w
           /\ duty'[w] # duty[w]
           => UNCHANGED <<sessionVars, jobVars, result, req, purged>>]_allVars
  <2> SUFFICES ASSUME GovInv, [GovNext]_allVars, NEW w \in Workers, duty[w] # NoOne,
                      req[duty[w]].leasedBy # w, duty'[w] # duty[w]
               PROVE  UNCHANGED <<sessionVars, jobVars, result, req, purged>>
    OBVIOUS
  <2>1. ~HoldsRequest(w, duty[w])
    BY DEF HoldsRequest
  <2> QED
    BY <2>1, OnlyEndingDuty
    DEF CompleteDeletionRequest, CompleteRetentionPurge, MayComplete, RequestCompletionRefused,
        PurgeFails, PurgerCrashes, RequeueRequest, vars
<1> QED
  BY <1>1, GovInvInit, GovInvStep, PTL DEF GovSpec, StalePurgerIsInert

-----------------------------------------------------------------------------
(* What a step does to the requests *)

(* A request stays what it was made for.                                   *)
SameOrder(r) ==
  /\ req'[r].kind = req[r].kind /\ req'[r].session = req[r].session
  /\ req'[r].keys = req[r].keys
  /\ req'[r].state = "absent" <=> req[r].state = "absent"

LEMMA ChangedRow ==
  ASSUME GovInv, NEW q \in Requests, req[q].state # "absent", NEW new,
         req' = [req EXCEPT ![q] = new], new.state # "absent",
         new.kind = req[q].kind, new.session = req[q].session, new.keys = req[q].keys
  PROVE  \A r \in Requests : /\ SameOrder(r)
                             /\ req'[r].state = req[r].state \/ (r = q /\ req'[r] = new)
  BY DEF GovInv, GovTypeOK, SameOrder

LEMMA LeaseKeeps ==
  ASSUME GovInv, NEW w \in Workers, NEW q \in Requests, Lease(w, q), req[q].state # "absent"
  PROVE  \A r \in Requests : SameOrder(r) /\ req'[r].state \in {req[r].state, "leased"}
<1> DEFINE a == NextAttempt(req[q].attempt)
           new == [req[q] EXCEPT !.state = "leased", !.attempt = a, !.leasedBy = w, !.ripe = FALSE]
<1>1. req[q] \in RequestRows /\ req' = [req EXCEPT ![q] = new]
  BY DEF GovInv, GovTypeOK, Lease
<1> HIDE DEF a
<1>2. /\ new.state = "leased" /\ new.kind = req[q].kind
      /\ new.session = req[q].session /\ new.keys = req[q].keys
  BY <1>1 DEF RequestRows
<1> HIDE DEF new
<1>3. \A r \in Requests : /\ SameOrder(r)
                          /\ req'[r].state = req[r].state \/ (r = q /\ req'[r] = new)
  BY <1>1, <1>2, ChangedRow
<1> QED
  BY <1>2, <1>3

LEMMA FinishKeeps ==
  ASSUME GovInv, NEW q \in Requests, NEW to \in RequestStates \ {"absent"}, Finish(q, to),
         req[q].state # "absent"
  PROVE  \A r \in Requests :
           SameOrder(r) /\ (req'[r].state = req[r].state \/ (r = q /\ req'[r].state = to))
<1> DEFINE new == [req[q] EXCEPT !.state = to, !.leasedBy = NoOne, !.ripe = FALSE]
<1>1. req[q] \in RequestRows /\ req' = [req EXCEPT ![q] = new]
  BY DEF GovInv, GovTypeOK, Finish
<1>2. /\ new.state = to /\ new.kind = req[q].kind
      /\ new.session = req[q].session /\ new.keys = req[q].keys
  BY <1>1 DEF RequestRows
<1> HIDE DEF new
<1>3. \A r \in Requests : /\ SameOrder(r)
                          /\ req'[r].state = req[r].state \/ (r = q /\ req'[r] = new)
  BY <1>1, <1>2, ChangedRow
<1> QED
  BY <1>2, <1>3

LEMMA RetryKeeps ==
  ASSUME GovInv, NEW q \in Requests, req[q].state # "absent",
         req' = [req EXCEPT ![q].state = "queued", ![q].attempt = 0, ![q].ripe = TRUE,
                            ![q].requeues = @ + 1]
  PROVE  \A r \in Requests : SameOrder(r) /\ req'[r].state \in {req[r].state, "queued"}
<1> DEFINE n == req[q].requeues + 1
           new == [req[q] EXCEPT !.state = "queued", !.attempt = 0, !.ripe = TRUE, !.requeues = n]
<1>1. req[q] \in RequestRows /\ req' = [req EXCEPT ![q] = new]
  BY DEF GovInv, GovTypeOK
<1> HIDE DEF n
<1>2. /\ new.state = "queued" /\ new.kind = req[q].kind
      /\ new.session = req[q].session /\ new.keys = req[q].keys
  BY <1>1 DEF RequestRows
<1> HIDE DEF new
<1>3. \A r \in Requests : /\ SameOrder(r)
                          /\ req'[r].state = req[r].state \/ (r = q /\ req'[r] = new)
  BY ONLY GovInv, q \in Requests, req[q].state # "absent", <1>1, <1>2, ChangedRow
<1> QED
  BY <1>2, <1>3

LEMMA RequeueKeeps ==
  ASSUME GovInv, NEW w \in Workers, duty[w] \in Requests, RequeueRequest(w, duty[w])
  PROVE  \A r \in Requests : SameOrder(r) /\ req'[r].state \in {req[r].state, "queued", "dead_letter"}
<1>1. CASE HoldsRequest(w, duty[w])
  <2>1. PICK to \in {"queued", "dead_letter"} : Finish(duty[w], to)
    BY <1>1 DEF RequeueRequest
  <2> QED
    BY <1>1, <2>1, FinishKeeps DEF HoldsRequest
<1>2. CASE ~HoldsRequest(w, duty[w])
  BY <1>2 DEF RequeueRequest, SameOrder
<1> QED
  BY <1>1, <1>2

(* A request is made by an administrator or by the sweep; it is completed  *)
(* by the worker that carries it out; everything else leaves it what it is.*)
LEMMA RequestSteps ==
  ASSUME GovInv, [GovNext]_allVars, NEW r \in Requests
  PROVE  \/ \E s \in Sessions : RequestSessionDeletion(s, r)
         \/ \E w \in Workers, s \in Sessions : QueueExpiredRetention(w, s, r)
         \/ /\ SameOrder(r)
            /\ req'[r].state = "completed" =>
                 \/ req[r].state = "completed"
                 \/ \E w \in Workers : /\ duty[w] = r
                                       /\ CompleteDeletionRequest(w) \/ CompleteRetentionPurge(w)
<1> DEFINE Kept == SameOrder(r) /\ (req'[r].state = "completed" => req[r].state = "completed")
<1>1. ASSUME req' = req PROVE Kept
  BY <1>1 DEF SameOrder
<1>3. CASE PipelineStep
  BY <1>1, <1>3 DEF PipelineStep
<1>4. CASE AdminStep
  <2>1. ASSUME NEW s \in Sessions, ReleaseLegalHold(s) PROVE Kept
    <3>1. \/ req'[r] = req[r]
          \/ req[r].state = "blocked" /\ req'[r] = [req[r] EXCEPT !.state = "queued", !.ripe = TRUE]
      BY <2>1 DEF ReleaseLegalHold
    <3>2. req[r] \in RequestRows
      BY DEF GovInv, GovTypeOK
    <3> QED
      BY <3>1, <3>2 DEF RequestRows, SameOrder
  <2>2. ASSUME NEW q \in Requests,
               RetryDeadLetterDeletionRequest(q) \/ RetryDeadLetterRetentionPurge(q)
        PROVE  Kept
    BY <2>2, RetryKeeps DEF RetryDeadLetterDeletionRequest, RetryDeadLetterRetentionPurge
  <2>3. ASSUME NEW s \in Sessions, NEW q \in Requests, RequestSessionDeletion(s, q), q # r
        PROVE  Kept
    BY <2>3 DEF RequestSessionDeletion, GovInv, GovTypeOK, SameOrder
  <2>4. ASSUME UpsertRetentionPolicy \/ \E s \in Sessions : PlaceLegalHold(s) PROVE Kept
    BY <1>1, <2>4 DEF UpsertRetentionPolicy, PlaceLegalHold
  <2> QED
    BY <1>4, <2>1, <2>2, <2>3, <2>4 DEF AdminStep
<1>5. CASE TimeStep
  <2>1. ASSUME NEW q \in Requests, RequestBackoffElapses(q) \/ RequestLeaseExpires(q) PROVE Kept
    <3>1. req'[r] = req[r] \/ req'[r] = [req[r] EXCEPT !.ripe = TRUE]
      BY <2>1 DEF RequestBackoffElapses, RequestLeaseExpires, GovInv, GovTypeOK
    <3>2. req[r] \in RequestRows
      BY DEF GovInv, GovTypeOK
    <3> QED
      BY <3>1, <3>2 DEF RequestRows, SameOrder
  <2> QED
    BY <1>1, <1>5, <2>1 DEF TimeStep, Age
<1>6. ASSUME NEW w \in Workers, NEW q \in Requests, LeaseDeletion(w, q) PROVE Kept
  BY <1>6, LeaseKeeps DEF LeaseDeletion, Claimable
<1>7. ASSUME NEW w \in Workers, NEW q \in Requests, SetDeletionAside(w, q) PROVE Kept
  <2>1. PICK to \in {"blocked", "dead_letter"} : Finish(q, to)
    BY <1>7 DEF SetDeletionAside
  <2> QED
    BY <1>7, <2>1, FinishKeeps DEF SetDeletionAside, Claimable
<1>8. ASSUME NEW w \in Workers, NEW q \in Requests, ClaimRetentionPurge(w, q) PROVE Kept
  <2>1. Lease(w, q) \/ \E to \in {"blocked", "cancelled"} : Finish(q, to)
    BY <1>8 DEF ClaimRetentionPurge
  <2> QED
    BY <1>8, <2>1, LeaseKeeps, FinishKeeps DEF ClaimRetentionPurge, Claimable
<1>9. ASSUME NEW w \in Workers, NEW s \in Sessions, NEW q \in Requests,
             QueueExpiredRetention(w, s, q), q # r
      PROVE  Kept
  BY <1>9 DEF QueueExpiredRetention, GovInv, GovTypeOK, SameOrder
<1>10. ASSUME NEW w \in Workers, CompleteDeletionRequest(w) \/ CompleteRetentionPurge(w)
       PROVE  SameOrder(r) /\ (req'[r].state = "completed" => req[r].state = "completed" \/ duty[w] = r)
  <2>1. /\ duty[w] \in Requests /\ req[duty[w]].state # "absent"
        /\ Finish(duty[w], "completed")
    BY <1>10 DEF CompleteDeletionRequest, CompleteRetentionPurge, MayComplete, HoldsRequest,
       GovInv, GovTypeOK
  <2> QED
    BY <2>1, FinishKeeps
<1>11. ASSUME NEW w \in Workers, RequestCompletionRefused(w) \/ PurgeFails(w) PROVE Kept
  <2>1. duty[w] \in Requests /\ RequeueRequest(w, duty[w])
    BY <1>11 DEF RequestCompletionRefused, PurgeFails, GovInv, GovTypeOK, GovLinks
  <2> QED
    BY <2>1, RequeueKeeps
<1>12. ASSUME NEW w \in Workers,
              \/ FindsNothing(w) \/ PurgeObject(w) \/ ValidateFindsNoObject(w) \/ PurgerCrashes(w)
       PROVE  Kept
  BY <1>1, <1>12 DEF FindsNothing, PurgeObject, ValidateFindsNoObject, PurgerCrashes
<1>13. CASE UNCHANGED allVars
  BY <1>1, <1>13 DEF allVars
<1> HIDE DEF Kept
<1>14. ASSUME NEW w \in Workers, PurgerStep(w)
       PROVE  \/ Kept
              \/ \E s \in Sessions : QueueExpiredRetention(w, s, r)
              \/ CompleteDeletionRequest(w) \/ CompleteRetentionPurge(w)
  BY <1>14, <1>6, <1>7, <1>8, <1>9, <1>11, <1>12 DEF PurgerStep, ClaimDeletionRequest
<1>15. ASSUME NEW w \in Workers, NEW q \in Requests, PlaceLegalHoldBehindClaim(w, q) PROVE Kept
  BY <1>6, <1>15 DEF PlaceLegalHoldBehindClaim
<1>16. CASE \E w \in Workers : CompleteDeletionRequest(w) \/ CompleteRetentionPurge(w)
  BY <1>10, <1>16
<1> QED
  BY <1>3, <1>4, <1>5, <1>11, <1>12, <1>13, <1>14, <1>15, <1>16 DEF GovNext, Kept

-----------------------------------------------------------------------------
(* Erased sessions *)

(* The table has no way into DELETED and none out of it.                   *)
LEMMA DeletedIsFinal ==
  ASSUME NEW from, NEW to, CanTransition(from, to)
  PROVE  from # "DELETED" /\ to # "DELETED"
  BY DEF CanTransition, allowedTransitions

ErasedRows ==
  \A s \in Sessions : state[s] = "DELETED" =>
    /\ consent[s] = FALSE /\ artifacts[s] = {}
    /\ \A j \in Jobs : jobSession[j] = s => jobState[j] = "absent" /\ result[j] = "none"

LEMMA RequeueKeepsErased ==
  ASSUME GovInv, ErasedRows, NEW w \in Workers, phase[w] # "idle",
         RequeueValidationJob(w, task[w])
  PROVE  ErasedRows'
<1> USE DEF GovInv, GovTypeOK, TypeOK, Links, ErasedRows, RequeueValidationJob
<1>1. CASE Requeued(w, task[w])
  BY <1>1 DEF Requeued, HoldsLease
<1>2. CASE DeadLettered(w, task[w])
  BY <1>2 DEF DeadLettered, HoldsLease
<1>3. CASE RequeueRefused(w, task[w])
  BY <1>3 DEF RequeueRefused
<1> QED
  BY <1>1, <1>2, <1>3

LEMMA PipelineKeepsErased ==
  ASSUME GovInv, ErasedRows, PipelineStep
  PROVE  ErasedRows'
<1> USE DEF GovInv, GovTypeOK, TypeOK, Links, ErasedRows
<1>1. ASSUME NEW s \in Sessions, SessionStep(s) PROVE ErasedRows'
  <2>1. CASE AssignTask(s)
    BY <2>1 DEF AssignTask
  <2>2. CASE AcceptConsent(s)
    BY <2>2 DEF AcceptConsent
  <2>3. ASSUME NEW to \in ClientTargets, TransitionSession(s, to) PROVE ErasedRows'
    <3>1. state[s] # "DELETED" /\ to # "DELETED"
      BY <2>3, DeletedIsFinal DEF TransitionSession
    <3> QED
      BY <2>3, <3>1 DEF TransitionSession
  <2>4. ASSUME NEW n \in RawNames,
               \/ EnsureArtifactUploadAllowed(s, n) \/ PutRaw(s, n) \/ UploadInterrupted(s, n)
        PROVE  ErasedRows'
    BY <2>4 DEF EnsureArtifactUploadAllowed, PutRaw, UploadInterrupted
  <2>5. ASSUME NEW n \in RawNames, RegisterArtifact(s, n) PROVE ErasedRows'
    BY <2>5 DEF RegisterArtifact
  <2>6. ASSUME NEW j \in Jobs, SubmitSession(s, j) PROVE ErasedRows'
    BY <2>6 DEF SubmitSession
  <2> QED
    BY <1>1, <2>1, <2>2, <2>3, <2>4, <2>5, <2>6 DEF SessionStep
<1>2. ASSUME NEW j \in Jobs, JobStep(j) PROVE ErasedRows'
  <2>1. CASE BackoffElapses(j) \/ LeaseExpires(j)
    BY <2>1 DEF BackoffElapses, LeaseExpires
  <2>2. CASE RetryDeadLetterJob(j)
    BY <2>2 DEF RetryDeadLetterJob
  <2> QED
    BY <1>2, <2>1, <2>2 DEF JobStep
<1>3. ASSUME NEW w \in Workers, WorkerStep(w) PROVE ErasedRows'
  <2>1. ASSUME NEW j \in Jobs, ClaimValidationJob(w, j) PROVE ErasedRows'
    BY <2>1 DEF ClaimValidationJob
  <2>2. CASE Validate(w) \/ PutTrajectory(w) \/ PutActions(w) \/ CompletionRefused(w)
    BY <2>2 DEF Validate, PutTrajectory, PutActions, CompletionRefused
  <2>3. CASE CompleteValidationJob(w)
    <3>1. VerdictState(verdict[w]) # "DELETED"
      BY DEF VerdictState
    <3> QED
      BY <2>3, <3>1 DEF CompleteValidationJob, HoldsLease
  <2> QED
    BY <1>3, <2>1, <2>2, <2>3 DEF WorkerStep
<1>4. ASSUME NEW w \in Workers, WorkerFault(w) PROVE ErasedRows'
  <2>1. CASE StepFails(w)
    BY <2>1, RequeueKeepsErased DEF StepFails
  <2>2. CASE InspectionFails(w) \/ Crash(w)
    BY <2>2 DEF InspectionFails, Crash
  <2> QED
    BY <1>4, <2>1, <2>2 DEF WorkerFault
<1> QED
  BY <1>1, <1>2, <1>3, <1>4 DEF PipelineStep

LEMMA ErasureErases ==
  ASSUME GovInv, NEW w \in Workers, CompleteDeletionRequest(w)
  PROVE  LET s == req[duty[w]].session IN
         /\ duty[w] \in Requests /\ s \in Sessions /\ ~held[s] /\ UNCHANGED held
         /\ state'[s] = "DELETED" /\ \A t \in Sessions \ {s} : state'[t] = state[t]
<1>1. duty[w] \in Requests /\ req[duty[w]].state = "leased"
  BY DEF CompleteDeletionRequest, MayComplete, HoldsRequest, GovInv, GovTypeOK
<1>2. req[duty[w]].session \in Sessions
  BY <1>1 DEF GovInv, GovLinks
<1> QED
  BY <1>1, <1>2 DEF CompleteDeletionRequest, MayComplete, GovInv, GovTypeOK, TypeOK

LEMMA ErasedRowsStep == GovInv /\ ErasedRows /\ [GovNext]_allVars => ErasedRows'
<1> SUFFICES ASSUME GovInv, ErasedRows, [GovNext]_allVars PROVE ErasedRows'
  OBVIOUS
<1>1. ASSUME NEW w \in Workers, ValidateFindsNoObject(w) PROVE ErasedRows'
  BY <1>1, RequeueKeepsErased DEF ValidateFindsNoObject
<1>2. ASSUME NEW w \in Workers, CompleteDeletionRequest(w) PROVE ErasedRows'
  <2> DEFINE s == req[duty[w]].session
  <2>1. /\ s \in Sessions /\ state'[s] = "DELETED"
        /\ \A t \in Sessions \ {s} : state'[t] = state[t]
    BY <1>2, ErasureErases
  <2>2. /\ consent'[s] = FALSE /\ artifacts'[s] = {}
        /\ \A t \in Sessions \ {s} : consent'[t] = consent[t] /\ artifacts'[t] = artifacts[t]
    <3>1. consent' = [consent EXCEPT ![s] = FALSE] /\ artifacts' = [artifacts EXCEPT ![s] = {}]
      BY <1>2 DEF CompleteDeletionRequest
    <3> HIDE DEF s
    <3> QED
      BY <2>1, <3>1 DEF GovInv, GovTypeOK, TypeOK
  <2>3. \A j \in Jobs :
          /\ jobSession'[j] = jobSession[j]
          /\ IF jobSession[j] = s THEN jobState'[j] = "absent" /\ result'[j] = "none"
             ELSE jobState'[j] = jobState[j] /\ result'[j] = result[j]
    BY <1>2 DEF CompleteDeletionRequest
  <2> HIDE DEF s
  <2> QED
    BY <2>1, <2>2, <2>3 DEF ErasedRows
<1>3. CASE UNCHANGED <<sessionVars, jobVars, result, upload, workerVars>>
  BY <1>3 DEF ErasedRows
<1> QED
  BY <1>1, <1>2, <1>3, PipelineKeepsErased, RowSteps

(* The moves of a session outside erasure.                                 *)
Moved(s) ==
  \/ state[s] = "absent" /\ state'[s] = "ASSIGNED"
  \/ state'[s] \in ClientTargets /\ CanTransition(state[s], state'[s])
  \/ state[s] \in {"UPLOADING", "SUBMITTED", "PROCESSING", "FAILED"}
     /\ state'[s] \in {"SUBMITTED", "PROCESSING"}
  \/ state'[s] \in {"READY_FOR_REVIEW", "FAILED"} /\ CanTransition(state[s], state'[s])

LEMMA RequeueMoves ==
  ASSUME GovInv, NEW w \in Workers, phase[w] # "idle", RequeueValidationJob(w, task[w]),
         NEW s \in Sessions
  PROVE  state'[s] = state[s] \/ Moved(s)
  BY DEF GovInv, GovTypeOK, TypeOK, Links, RequeueValidationJob, Requeued, DeadLettered,
     RequeueRefused, Moved

LEMMA PipelineMoves ==
  ASSUME GovInv, PipelineStep, NEW s \in Sessions
  PROVE  state'[s] = state[s] \/ Moved(s)
<1> USE DEF GovInv, GovTypeOK, TypeOK, Links
<1>1. ASSUME NEW t \in Sessions, SessionStep(t) PROVE state'[s] = state[s] \/ Moved(s)
  <2>1. CASE UNCHANGED state
    BY <2>1
  <2>2. ASSUME NEW to, state' = [state EXCEPT ![t] = to]
        PROVE  state'[s] = state[s] \/ (t = s /\ state'[s] = to)
    BY <2>2
  <2>3. CASE AssignTask(t)
    BY <2>2, <2>3 DEF AssignTask, Moved
  <2>4. ASSUME NEW to \in ClientTargets, TransitionSession(t, to)
        PROVE  state'[s] = state[s] \/ Moved(s)
    BY <2>2, <2>4 DEF TransitionSession, Moved
  <2>5. ASSUME NEW j \in Jobs, SubmitSession(t, j) PROVE state'[s] = state[s] \/ Moved(s)
    BY <2>2, <2>5 DEF SubmitSession, Moved
  <2> QED
    BY <1>1, <2>1, <2>3, <2>4, <2>5
    DEF SessionStep, AcceptConsent, EnsureArtifactUploadAllowed, PutRaw, RegisterArtifact,
        UploadInterrupted
<1>2. ASSUME NEW j \in Jobs, JobStep(j) PROVE state'[s] = state[s] \/ Moved(s)
  BY <1>2 DEF JobStep, BackoffElapses, LeaseExpires, RetryDeadLetterJob, Moved
<1>3. ASSUME NEW w \in Workers, WorkerStep(w) PROVE state'[s] = state[s] \/ Moved(s)
  <2>1. ASSUME NEW j \in Jobs, ClaimValidationJob(w, j) PROVE state'[s] = state[s] \/ Moved(s)
    BY <2>1 DEF ClaimValidationJob, Moved
  <2>2. CASE CompleteValidationJob(w)
    <3>1. VerdictState(verdict[w]) \in {"READY_FOR_REVIEW", "FAILED"}
      BY DEF VerdictState
    <3> QED
      BY <2>2, <3>1 DEF CompleteValidationJob, Moved
  <2> QED
    BY <1>3, <2>1, <2>2 DEF WorkerStep, Validate, PutTrajectory, PutActions, CompletionRefused
<1>4. ASSUME NEW w \in Workers, WorkerFault(w) PROVE state'[s] = state[s] \/ Moved(s)
  BY <1>4, RequeueMoves DEF WorkerFault, StepFails, InspectionFails, Crash
<1> QED
  BY <1>1, <1>2, <1>3, <1>4 DEF PipelineStep

LEMMA SessionMoves ==
  ASSUME GovInv, [GovNext]_allVars, NEW s \in Sessions
  PROVE  \/ state'[s] = state[s]
         \/ Moved(s)
         \/ /\ state'[s] = "DELETED"
            /\ \E w \in Workers : CompleteDeletionRequest(w) /\ req[duty[w]].session = s
<1>1. ASSUME NEW w \in Workers, ValidateFindsNoObject(w) PROVE state'[s] = state[s] \/ Moved(s)
  BY <1>1, RequeueMoves DEF ValidateFindsNoObject
<1> QED
  BY <1>1, PipelineMoves, ErasureErases, RowSteps

LEMMA DeletedSteps ==
  ASSUME GovInv, [GovNext]_allVars, NEW s \in Sessions
  PROVE  /\ state[s] = "DELETED" => state'[s] = "DELETED"
         /\ state'[s] = "DELETED" =>
              \/ state[s] = "DELETED"
              \/ \E w \in Workers : CompleteDeletionRequest(w) /\ req[duty[w]].session = s
  BY SessionMoves, DeletedIsFinal DEF Moved

(* A hold is placed on a session that is not erased.                       *)
HoldsOnLiving == \A s \in Sessions : state[s] = "DELETED" => held[s] = FALSE

LEMMA HoldSteps ==
  ASSUME GovInv, [GovNext]_allVars, NEW s \in Sessions
  PROVE  held'[s] = held[s] \/ held'[s] = FALSE \/ (UNCHANGED state /\ state[s] # "DELETED")
<1> USE DEF GovInv, GovTypeOK
<1>1. CASE PipelineStep
  BY <1>1 DEF PipelineStep
<1>2. CASE AdminStep
  BY <1>2
  DEF AdminStep, UpsertRetentionPolicy, PlaceLegalHold, ReleaseLegalHold,
      RequestSessionDeletion, RetryDeadLetterDeletionRequest, RetryDeadLetterRetentionPurge,
      vars
<1>3. CASE TimeStep
  BY <1>3 DEF TimeStep, Age, RequestBackoffElapses, RequestLeaseExpires
<1>4. ASSUME NEW w \in Workers, PurgerStep(w) \/ PurgeFails(w) \/ PurgerCrashes(w)
      PROVE  held' = held
  BY <1>4
  DEF PurgerStep, FindsNothing, ClaimDeletionRequest, ClaimRetentionPurge,
      QueueExpiredRetention, PurgeObject, CompleteDeletionRequest, CompleteRetentionPurge,
      RequestCompletionRefused, ValidateFindsNoObject, PurgeFails, PurgerCrashes
<1>5. ASSUME NEW w \in Workers, NEW r \in Requests, PlaceLegalHoldBehindClaim(w, r)
      PROVE  held'[s] = held[s] \/ (UNCHANGED state /\ state[s] # "DELETED")
  BY <1>5 DEF PlaceLegalHoldBehindClaim, LeaseDeletion, Deletable, vars
<1> QED
  BY <1>1, <1>2, <1>3, <1>4, <1>5 DEF GovNext, allVars

(* An erasure is completed when its session is erased, and not before.     *)
ErasuresErase ==
  \A r \in Requests : req[r].kind = "deletion" /\ req[r].state = "completed"
                      => state[req[r].session] = "DELETED"

ErasureInv == ErasedRows /\ HoldsOnLiving /\ ErasuresErase

LEMMA ErasureInvStep == GovInv /\ ErasureInv /\ [GovNext]_allVars => ErasureInv'
<1> SUFFICES ASSUME GovInv, ErasureInv, [GovNext]_allVars PROVE ErasureInv'
  OBVIOUS
<1>1. ErasedRows'
  BY ErasedRowsStep DEF ErasureInv
<1>2. ASSUME NEW s \in Sessions, state'[s] = "DELETED" PROVE held'[s] = FALSE
  <2>1. held \in [Sessions -> BOOLEAN]
    BY DEF GovInv, GovTypeOK
  <2>2. CASE state[s] = "DELETED"
    BY <2>2, HoldSteps DEF ErasureInv, HoldsOnLiving
  <2>3. CASE state[s] # "DELETED"
    <3>1. ~held[s] /\ UNCHANGED held
      BY <1>2, <2>3, DeletedSteps, ErasureErases
    <3> QED
      BY <2>1, <3>1
  <2> QED
    BY <2>2, <2>3
<1>3. ASSUME NEW r \in Requests, req'[r].kind = "deletion", req'[r].state = "completed"
      PROVE  state'[req'[r].session] = "DELETED"
  <2>1. ASSUME NEW s \in Sessions, RequestSessionDeletion(s, r) PROVE FALSE
    BY <1>3, <2>1 DEF RequestSessionDeletion, NewRequest, NoRequest, GovInv, GovTypeOK
  <2>2. ASSUME NEW w \in Workers, NEW s \in Sessions, QueueExpiredRetention(w, s, r) PROVE FALSE
    BY <1>3, <2>2 DEF QueueExpiredRetention, NewRequest, NoRequest, GovInv, GovTypeOK
  <2>3. SameOrder(r)
    BY <2>1, <2>2, RequestSteps
  <2>4. CASE req[r].state = "completed"
    <3>1. req[r].session \in Sessions /\ state[req[r].session] = "DELETED"
      BY <1>3, <2>3, <2>4 DEF SameOrder, ErasureInv, ErasuresErase, GovInv, GovLinks
    <3> QED
      BY <2>3, <3>1, DeletedSteps DEF SameOrder
  <2>5. ASSUME NEW w \in Workers, duty[w] = r, CompleteDeletionRequest(w)
        PROVE  state'[req'[r].session] = "DELETED"
    BY <2>3, <2>5, ErasureErases DEF SameOrder
  <2>6. ASSUME NEW w \in Workers, duty[w] = r, CompleteRetentionPurge(w) PROVE FALSE
    BY <1>3, <2>3, <2>6 DEF CompleteRetentionPurge, SameOrder
  <2> QED
    BY <1>3, <2>1, <2>2, <2>4, <2>5, <2>6, RequestSteps
<1> QED
  BY <1>1, <1>2, <1>3 DEF ErasureInv, HoldsOnLiving, ErasuresErase

LEMMA ErasureInvHolds == GovSpec => [](GovInv /\ ErasureInv)
<1>1. GovInit => ErasureInv
  BY DEF GovInit, Init, NoRequest, ErasureInv, ErasedRows, HoldsOnLiving, ErasuresErase
<1> QED
  BY <1>1, GovInvInit, GovInvStep, ErasureInvStep, PTL DEF GovSpec

(* Nothing comes back to an erased session, whatever was under way when it *)
(* was erased and whatever targets clients ask for                         *)
(* (CompleteDeletionRequest against every writer of the pipeline).         *)
THEOREM ErasedSessionsStayErased == GovSpec => []DeletedStaysErased
<1>1. ErasureInv => DeletedStaysErased
  BY DEF ErasureInv, ErasedRows, HoldsOnLiving, ErasuresErase, DeletedStaysErased
<1> QED
  BY <1>1, ErasureInvHolds, PTL

-----------------------------------------------------------------------------
(* Expired evidence, when clients ask for contributors' states only *)

(* A session that has been submitted, or erased, never uploads again.      *)
Late == Submitted \cup {"DELETED"}
Quiet(states, uploads, s) ==
  states[s] \in Late /\ \A n \in RawNames : uploads[s][n] = "none"

LEMMA LateMoves ==
  ASSUME ContributorClients, GovInv, [GovNext]_allVars, NEW s \in Sessions
  PROVE  /\ state[s] \in Late => state'[s] \in Late
         /\ state[s] = "UPLOADING" => state'[s] \in Late \cup {"UPLOADING"}
<1>1. ASSUME state'[s] \in ClientTargets, CanTransition(state[s], state'[s])
      PROVE  state[s] \notin Late \cup {"UPLOADING"}
  <2>1. state'[s] \in ContributorStates
    BY <1>1 DEF ContributorClients
  <2> QED
    BY <1>1, <2>1 DEF CanTransition, allowedTransitions, ContributorStates, Late, Submitted
<1> QED
  BY <1>1, SessionMoves DEF Moved, Late, Submitted

(* An upload call begins, and an artifact is registered, in UPLOADING.     *)
LEMMA UploadMoves ==
  ASSUME GovInv, [GovNext]_allVars, NEW s \in Sessions
  PROVE  /\ \A n \in RawNames : upload'[s][n] # "none" =>
              upload[s][n] # "none" \/ state'[s] = "UPLOADING"
         /\ \/ artifacts'[s] \subseteq artifacts[s]
            \/ state[s] = "UPLOADING" /\ state'[s] = "UPLOADING"
<1> USE DEF GovInv, GovTypeOK, TypeOK
<1>1. CASE UNCHANGED <<upload, artifacts>>
  BY <1>1
<1>2. ASSUME NEW t \in Sessions, SessionStep(t)
      PROVE  /\ \A n \in RawNames : upload'[s][n] # "none" =>
                  upload[s][n] # "none" \/ state'[s] = "UPLOADING"
             /\ \/ artifacts'[s] \subseteq artifacts[s]
                \/ state[s] = "UPLOADING" /\ state'[s] = "UPLOADING"
  <2>1. ASSUME NEW m \in RawNames, EnsureArtifactUploadAllowed(t, m)
        PROVE  /\ \A n \in RawNames : upload'[s][n] # "none" =>
                    upload[s][n] # "none" \/ state'[s] = "UPLOADING"
               /\ artifacts' = artifacts
    BY <2>1 DEF EnsureArtifactUploadAllowed
  <2>2. ASSUME NEW m \in RawNames, PutRaw(t, m)
        PROVE  /\ \A n \in RawNames : upload'[s][n] # "none" => upload[s][n] # "none"
               /\ artifacts' = artifacts
    BY <2>2 DEF PutRaw
  <2>3. ASSUME NEW m \in RawNames, RegisterArtifact(t, m)
        PROVE  /\ \A n \in RawNames : upload'[s][n] # "none" => upload[s][n] # "none"
               /\ \/ artifacts'[s] \subseteq artifacts[s]
                  \/ state[s] = "UPLOADING" /\ state'[s] = "UPLOADING"
    BY <2>3 DEF RegisterArtifact
  <2>4. ASSUME NEW m \in RawNames, UploadInterrupted(t, m)
        PROVE  /\ \A n \in RawNames : upload'[s][n] # "none" => upload[s][n] # "none"
               /\ artifacts' = artifacts
    BY <2>4 DEF UploadInterrupted
  <2>5. ASSUME \/ AssignTask(t) \/ AcceptConsent(t)
               \/ \E to \in ClientTargets : TransitionSession(t, to)
               \/ \E j \in Jobs : SubmitSession(t, j)
        PROVE  UNCHANGED <<upload, artifacts>>
    BY <2>5 DEF AssignTask, AcceptConsent, TransitionSession, SubmitSession
  <2> QED
    BY <1>1, <1>2, <2>1, <2>2, <2>3, <2>4, <2>5 DEF SessionStep
<1>3. ASSUME NEW j \in Jobs, JobStep(j) PROVE UNCHANGED <<upload, artifacts>>
  BY <1>3 DEF JobStep, BackoffElapses, LeaseExpires, RetryDeadLetterJob
<1>4. ASSUME NEW w \in Workers, WorkerStep(w) \/ WorkerFault(w) \/ ValidateFindsNoObject(w)
      PROVE  UNCHANGED <<upload, artifacts>>
  BY <1>4
  DEF WorkerStep, ClaimValidationJob, Validate, PutTrajectory, PutActions,
      CompleteValidationJob, CompletionRefused, WorkerFault, StepFails, InspectionFails,
      Crash, RequeueValidationJob, ValidateFindsNoObject
<1>5. ASSUME NEW w \in Workers, CompleteDeletionRequest(w)
      PROVE  upload' = upload /\ artifacts'[s] \subseteq artifacts[s]
  BY <1>5 DEF CompleteDeletionRequest
<1> QED
  BY <1>1, <1>2, <1>3, <1>4, <1>5, RowSteps DEF PipelineStep

LEMMA QuietStays ==
  ASSUME ContributorClients, GovInv, [GovNext]_allVars, NEW s \in Sessions, Quiet(state, upload, s)
  PROVE  Quiet(state', upload', s) /\ artifacts'[s] \subseteq artifacts[s]
<1>1. state'[s] # "UPLOADING"
  BY LateMoves DEF Quiet, Late, Submitted
<1> QED
  BY <1>1, LateMoves, UploadMoves DEF Quiet

(* Raw objects are stored by upload calls only.                            *)
LEMMA RawPuts ==
  ASSUME GovInv, [GovNext]_allVars, NEW s \in Sessions, NEW n \in RawNames,
         <<s, n>> \notin blobs, <<s, n>> \in blobs'
  PROVE  upload[s][n] # "none"
<1>0. n \notin DerivedNames
  BY NamesAssumption
<1>1. ASSUME NEW t \in Sessions, SessionStep(t) PROVE upload[s][n] # "none"
  BY <1>1
  DEF SessionStep, AssignTask, AcceptConsent, TransitionSession, EnsureArtifactUploadAllowed,
      PutRaw, RegisterArtifact, UploadInterrupted, SubmitSession
<1>2. ASSUME NEW j \in Jobs, JobStep(j) PROVE FALSE
  BY <1>2 DEF JobStep, BackoffElapses, LeaseExpires, RetryDeadLetterJob
<1>3. ASSUME NEW w \in Workers, WorkerStep(w) PROVE FALSE
  BY <1>0, <1>3
  DEF WorkerStep, ClaimValidationJob, Validate, PutTrajectory, PutActions,
      CompleteValidationJob, CompletionRefused
<1>4. ASSUME NEW w \in Workers, WorkerFault(w) PROVE FALSE
  BY <1>0, <1>4 DEF WorkerFault, StepFails, InspectionFails, Crash
<1>5. CASE AdminStep \/ TimeStep
  BY <1>5
  DEF AdminStep, UpsertRetentionPolicy, PlaceLegalHold, ReleaseLegalHold,
      RequestSessionDeletion, RetryDeadLetterDeletionRequest, RetryDeadLetterRetentionPurge,
      TimeStep, Age, RequestBackoffElapses, RequestLeaseExpires, vars
<1>6. ASSUME NEW w \in Workers, PurgerStep(w) PROVE FALSE
  BY <1>6
  DEF PurgerStep, FindsNothing, ClaimDeletionRequest, LeaseDeletion, SetDeletionAside,
      ClaimRetentionPurge, QueueExpiredRetention, PurgeObject, CompleteDeletionRequest,
      CompleteRetentionPurge, RequestCompletionRefused, ValidateFindsNoObject, vars
<1>7. ASSUME NEW w \in Workers,
             PurgeFails(w) \/ PurgerCrashes(w) \/ \E r \in Requests : PlaceLegalHoldBehindClaim(w, r)
      PROVE  FALSE
  BY <1>7 DEF PurgeFails, PurgerCrashes, PlaceLegalHoldBehindClaim, LeaseDeletion, vars
<1> QED
  BY <1>1, <1>2, <1>3, <1>4, <1>5, <1>6, <1>7 DEF GovNext, PipelineStep, allVars, vars

(* The retention period runs out while nothing is uploaded, and starts     *)
(* over with every move.                                                   *)
LEMMA AgeSteps ==
  ASSUME GovInv, [GovNext]_allVars, NEW s \in Sessions, old'[s]
  PROVE  /\ state'[s] = state[s]
         /\ old[s] \/ \A n \in RawNames : upload'[s][n] = "none"
<1> USE DEF GovInv, GovTypeOK
<1>1. CASE RowsTouched
  BY <1>1 DEF RowsTouched
<1>2. CASE UNCHANGED <<old, state>>
  BY <1>2
<1>3. CASE PipelineStep
  BY <1>1, <1>3 DEF PipelineStep
<1>4. CASE AdminStep
  <2>1. CASE UpsertRetentionPolicy
    <3>1. old[s]
      BY <2>1 DEF UpsertRetentionPolicy
    <3> QED
      BY <2>1, <3>1 DEF UpsertRetentionPolicy, vars
  <2> QED
    BY <1>2, <1>4, <2>1
    DEF AdminStep, PlaceLegalHold, ReleaseLegalHold, RequestSessionDeletion,
        RetryDeadLetterDeletionRequest, RetryDeadLetterRetentionPurge, vars
<1>5. CASE TimeStep
  BY <1>2, <1>5 DEF TimeStep, Age, RequestBackoffElapses, RequestLeaseExpires, vars
<1>6. ASSUME NEW w \in Workers, PurgerStep(w) PROVE RowsTouched \/ UNCHANGED <<old, state>>
  BY <1>6
  DEF PurgerStep, FindsNothing, ClaimDeletionRequest, LeaseDeletion, SetDeletionAside,
      ClaimRetentionPurge, QueueExpiredRetention, PurgeObject, CompleteDeletionRequest,
      CompleteRetentionPurge, RequestCompletionRefused, ValidateFindsNoObject, vars
<1>7. ASSUME NEW w \in Workers,
             PurgeFails(w) \/ PurgerCrashes(w) \/ \E r \in Requests : PlaceLegalHoldBehindClaim(w, r)
      PROVE  UNCHANGED <<old, state>>
  BY <1>7 DEF PurgeFails, PurgerCrashes, PlaceLegalHoldBehindClaim, LeaseDeletion, vars
<1> QED
  BY <1>1, <1>2, <1>3, <1>4, <1>5, <1>6, <1>7 DEF GovNext, allVars, vars

(* What a purging worker has still to do after a step.                     *)
LEMMA DutyMoves ==
  ASSUME GovInv, [GovNext]_allVars, NEW w \in Workers
  PROVE  \/ duty'[w] = NoOne
         \/ duty'[w] = duty[w] /\ todo'[w] = todo[w]
         \/ /\ duty'[w] = duty[w]
            /\ \E key \in todo[w] : blobs' = blobs \ {key} /\ todo'[w] = todo[w] \ {key}
         \/ \E r \in Requests : /\ req[r].state # "absent"
                                /\ duty'[w] = r /\ todo'[w] = req[r].keys
<1> DEFINE Kept == duty'[w] = duty[w] /\ todo'[w] = todo[w]
           Starts == \E r \in Requests : /\ req[r].state # "absent"
                                         /\ duty'[w] = r /\ todo'[w] = req[r].keys
<1>0. duty \in [Workers -> Requests \cup {NoOne}] /\ DOMAIN todo = Workers
  BY DEF GovInv, GovTypeOK
<1>1. ASSUME UNCHANGED <<duty, todo>> PROVE Kept
  BY <1>1
<1>2. ASSUME NEW v \in Workers, DutyDone(v) PROVE duty'[w] = NoOne \/ Kept
  BY <1>0, <1>2 DEF DutyDone
<1>3. ASSUME NEW v \in Workers, NEW r \in Requests, StartPurging(v, r), Claimable(r)
      PROVE  Kept \/ Starts
  <2>1. CASE v = w
    BY <1>0, <1>3, <2>1 DEF StartPurging, Claimable
  <2>2. CASE v # w
    BY <1>0, <1>3, <2>2 DEF StartPurging
  <2> QED
    BY <2>1, <2>2
<1>4. ASSUME NEW v \in Workers, PurgeObject(v)
      PROVE  \/ Kept
             \/ /\ duty'[w] = duty[w]
                /\ \E key \in todo[w] : blobs' = blobs \ {key} /\ todo'[w] = todo[w] \ {key}
  <2>1. PICK key \in todo[v] : /\ blobs' = blobs \ {key}
                               /\ todo' = [todo EXCEPT ![v] = @ \ {key}]
    BY <1>4 DEF PurgeObject
  <2>2. CASE v = w
    BY <1>0, <1>4, <2>1, <2>2 DEF PurgeObject
  <2>3. CASE v # w
    BY <1>0, <1>4, <2>1, <2>3 DEF PurgeObject
  <2> QED
    BY <2>2, <2>3
<1>5. CASE PipelineStep \/ AdminStep \/ TimeStep \/ UNCHANGED allVars
  BY <1>1, <1>5
  DEF PipelineStep, AdminStep, UpsertRetentionPolicy, PlaceLegalHold, ReleaseLegalHold,
      RequestSessionDeletion, RetryDeadLetterDeletionRequest, RetryDeadLetterRetentionPurge,
      TimeStep, Age, RequestBackoffElapses, RequestLeaseExpires, allVars
<1>6. ASSUME NEW v \in Workers, NEW r \in Requests, LeaseDeletion(v, r) PROVE Kept \/ Starts
  BY <1>3, <1>6 DEF LeaseDeletion
<1>7. ASSUME NEW v \in Workers, NEW r \in Requests, ClaimRetentionPurge(v, r)
      PROVE  Kept \/ Starts
  BY <1>1, <1>3, <1>7 DEF ClaimRetentionPurge
<1>8. ASSUME NEW v \in Workers,
             \/ CompleteDeletionRequest(v) \/ CompleteRetentionPurge(v)
             \/ RequestCompletionRefused(v) \/ PurgeFails(v) \/ PurgerCrashes(v)
      PROVE  duty'[w] = NoOne \/ Kept
  BY <1>2, <1>8
  DEF CompleteDeletionRequest, CompleteRetentionPurge, RequestCompletionRefused, PurgeFails,
      PurgerCrashes, RequeueRequest
<1>9. ASSUME NEW v \in Workers,
             \/ FindsNothing(v) \/ ValidateFindsNoObject(v)
             \/ \E r \in Requests : SetDeletionAside(v, r)
             \/ \E s \in Sessions, r \in Requests : QueueExpiredRetention(v, s, r)
      PROVE  Kept
  BY <1>1, <1>9 DEF FindsNothing, ValidateFindsNoObject, SetDeletionAside, QueueExpiredRetention
<1> HIDE DEF Kept, Starts
<1>10. ASSUME NEW v \in Workers, PurgerStep(v)
       PROVE  \/ duty'[w] = NoOne \/ Kept \/ Starts
              \/ /\ duty'[w] = duty[w]
                 /\ \E key \in todo[w] : blobs' = blobs \ {key} /\ todo'[w] = todo[w] \ {key}
  BY <1>4, <1>6, <1>7, <1>8, <1>9, <1>10 DEF PurgerStep, ClaimDeletionRequest
<1>11. ASSUME NEW v \in Workers, NEW r \in Requests, PlaceLegalHoldBehindClaim(v, r)
       PROVE  Kept \/ Starts
  BY <1>6, <1>11 DEF PlaceLegalHoldBehindClaim
<1> QED
  BY <1>5, <1>8, <1>10, <1>11 DEF GovNext, Kept, Starts

(* Tombstones come from a completed purge and go with the session.         *)
LEMMA TombstoneSteps ==
  ASSUME GovInv, [GovNext]_allVars, NEW s \in Sessions
  PROVE  \/ purged'[s] = purged[s] \/ (purged'[s] = {} /\ artifacts'[s] = {})
         \/ \E w \in Workers : /\ CompleteRetentionPurge(w) /\ req[duty[w]].session = s
                               /\ purged'[s] = artifacts[s]
<1> USE DEF GovInv, GovTypeOK, TypeOK
<1>1. CASE UNCHANGED purged
  BY <1>1
<1>2. CASE PipelineStep \/ AdminStep \/ TimeStep \/ UNCHANGED allVars
  BY <1>1, <1>2
  DEF PipelineStep, AdminStep, UpsertRetentionPolicy, PlaceLegalHold, ReleaseLegalHold,
      RequestSessionDeletion, RetryDeadLetterDeletionRequest, RetryDeadLetterRetentionPurge,
      TimeStep, Age, RequestBackoffElapses, RequestLeaseExpires, allVars
<1>3. ASSUME NEW w \in Workers, CompleteDeletionRequest(w)
      PROVE  purged'[s] = purged[s] \/ (purged'[s] = {} /\ artifacts'[s] = {})
  BY <1>3 DEF CompleteDeletionRequest
<1>4. ASSUME NEW w \in Workers, CompleteRetentionPurge(w)
      PROVE  purged'[s] = purged[s] \/ (req[duty[w]].session = s /\ purged'[s] = artifacts[s])
  BY <1>4 DEF CompleteRetentionPurge
<1>5. ASSUME NEW w \in Workers, PurgerStep(w)
      PROVE  CompleteDeletionRequest(w) \/ CompleteRetentionPurge(w) \/ UNCHANGED purged
  BY <1>5
  DEF PurgerStep, FindsNothing, ClaimDeletionRequest, LeaseDeletion, SetDeletionAside,
      ClaimRetentionPurge, QueueExpiredRetention, PurgeObject, RequestCompletionRefused,
      ValidateFindsNoObject
<1>6. ASSUME NEW w \in Workers,
             PurgeFails(w) \/ PurgerCrashes(w) \/ \E r \in Requests : PlaceLegalHoldBehindClaim(w, r)
      PROVE  UNCHANGED purged
  BY <1>6 DEF PurgeFails, PurgerCrashes, PlaceLegalHoldBehindClaim, LeaseDeletion
<1> QED
  BY <1>1, <1>2, <1>3, <1>4, <1>5, <1>6 DEF GovNext

(* Evidence is uploaded before it can be old.                              *)
EvidenceOrder ==
  \A s \in Sessions :
    /\ \A n \in RawNames : upload[s][n] # "none" => state[s] \in Late \cup {"UPLOADING"}
    /\ artifacts[s] # {} => state[s] \in Late \cup {"UPLOADING"}
    /\ old[s] /\ state[s] \in Late => Quiet(state, upload, s)
    /\ purged[s] # {} => Quiet(state, upload, s)

(* A purge of raw evidence names every artifact that is not purged yet, of *)
(* a session that uploads no more.                                         *)
RawRequests ==
  \A r \in Requests : req[r].kind = "session_raw" =>
    LET s == req[r].session IN
    /\ req[r].state # "absent" /\ Quiet(state, upload, s)
    /\ req[r].keys \subseteq {s} \X RawNames
    /\ \A n \in artifacts[s] : <<s, n>> \in req[r].keys \/ n \in purged[s]

(* What a purging worker has behind it is gone, whether or not it still    *)
(* has its lease.                                                          *)
GoneBehindPurger ==
  \A w \in Workers : duty[w] \in Requests /\ req[duty[w]].kind = "session_raw" =>
    \A key \in req[duty[w]].keys \ todo[w] : key \notin blobs

RetentionInv == EvidenceOrder /\ RawRequests /\ GoneBehindPurger /\ TombstoneMeansGone

LEMMA EvidenceOrderStep ==
  ContributorClients /\ GovInv /\ RetentionInv /\ [GovNext]_allVars => EvidenceOrder'
<1> SUFFICES ASSUME ContributorClients, GovInv, RetentionInv, [GovNext]_allVars,
                    NEW s \in Sessions
             PROVE  /\ \A n \in RawNames :
                         upload'[s][n] # "none" => state'[s] \in Late \cup {"UPLOADING"}
                    /\ artifacts'[s] # {} => state'[s] \in Late \cup {"UPLOADING"}
                    /\ old'[s] /\ state'[s] \in Late => Quiet(state', upload', s)
                    /\ purged'[s] # {} => Quiet(state', upload', s)
  BY DEF EvidenceOrder
<1> USE DEF RetentionInv, EvidenceOrder
<1>1. state[s] \in Late \cup {"UPLOADING"} => state'[s] \in Late \cup {"UPLOADING"}
  BY LateMoves
<1>2. ASSUME NEW n \in RawNames, upload'[s][n] # "none"
      PROVE  state'[s] \in Late \cup {"UPLOADING"}
  BY <1>1, <1>2, UploadMoves
<1>3. artifacts'[s] # {} => state'[s] \in Late \cup {"UPLOADING"}
  BY <1>1, UploadMoves
<1>4. ASSUME Quiet(state, upload, s) PROVE Quiet(state', upload', s)
  BY <1>4, QuietStays
<1>5. ASSUME old'[s], state'[s] \in Late PROVE Quiet(state', upload', s)
  <2>1. CASE old[s]
    BY <1>4, <1>5, <2>1, AgeSteps
  <2>2. CASE \A n \in RawNames : upload'[s][n] = "none"
    BY <1>5, <2>2 DEF Quiet
  <2> QED
    BY <1>5, <2>1, <2>2, AgeSteps
<1>6. ASSUME purged'[s] # {} PROVE Quiet(state', upload', s)
  <2>1. ASSUME NEW w \in Workers, CompleteRetentionPurge(w), req[duty[w]].session = s
        PROVE  Quiet(state, upload, s)
    BY <2>1 DEF CompleteRetentionPurge, MayComplete, GovInv, GovTypeOK, RawRequests
  <2> QED
    BY <1>4, <1>6, <2>1, TombstoneSteps
<1> QED
  BY <1>2, <1>3, <1>5, <1>6

LEMMA RawRequestsStep ==
  ContributorClients /\ GovInv /\ RetentionInv /\ [GovNext]_allVars => RawRequests'
<1> SUFFICES ASSUME ContributorClients, GovInv, RetentionInv, [GovNext]_allVars,
                    NEW r \in Requests, req'[r].kind = "session_raw"
             PROVE  /\ req'[r].state # "absent" /\ Quiet(state', upload', req'[r].session)
                    /\ req'[r].keys \subseteq {req'[r].session} \X RawNames
                    /\ \A n \in artifacts'[req'[r].session] :
                         \/ <<req'[r].session, n>> \in req'[r].keys
                         \/ n \in purged'[req'[r].session]
  BY DEF RawRequests
<1>1. ASSUME NEW s \in Sessions, RequestSessionDeletion(s, r) PROVE FALSE
  BY <1>1 DEF RequestSessionDeletion, NewRequest, NoRequest, GovInv, GovTypeOK
<1>2. ASSUME NEW w \in Workers, NEW s \in Sessions, QueueExpiredRetention(w, s, r)
      PROVE  /\ req'[r].state # "absent" /\ Quiet(state', upload', req'[r].session)
             /\ req'[r].keys \subseteq {req'[r].session} \X RawNames
             /\ \A n \in artifacts'[req'[r].session] :
                  \/ <<req'[r].session, n>> \in req'[r].keys
                  \/ n \in purged'[req'[r].session]
  <2>1. /\ req'[r].state = "queued" /\ req'[r].session = s
        /\ req'[r].keys = {s} \X Unpurged(s)
    BY <1>2 DEF QueueExpiredRetention, NewRequest, NoRequest, GovInv, GovTypeOK
  <2>2. UNCHANGED <<state, upload, artifacts, purged>>
    BY <1>2 DEF QueueExpiredRetention, vars
  <2>3. Quiet(state, upload, s)
    <3>1. old[s] /\ state[s] \in RawExpirable /\ artifacts[s] # {}
      BY <1>2 DEF QueueExpiredRetention, Expired, Unpurged
    <3>2. state[s] \in Late
      BY <3>1 DEF RawExpirable, RetentionInv, EvidenceOrder
    <3> QED
      BY <3>1, <3>2 DEF RetentionInv, EvidenceOrder
  <2> QED
    BY <2>1, <2>2, <2>3 DEF Unpurged, GovInv, GovTypeOK, TypeOK
<1>3. CASE SameOrder(r)
  <2> DEFINE s == req[r].session
  <2>1. /\ req[r].kind = "session_raw" /\ req'[r].session = s /\ req'[r].keys = req[r].keys
        /\ req'[r].state # "absent" /\ Quiet(state, upload, s) /\ s \in Sessions
        /\ req[r].keys \subseteq {s} \X RawNames
        /\ \A n \in artifacts[s] : <<s, n>> \in req[r].keys \/ n \in purged[s]
    BY <1>3 DEF SameOrder, RetentionInv, RawRequests, GovInv, GovLinks
  <2> HIDE DEF s
  <2>2. Quiet(state', upload', s) /\ artifacts'[s] \subseteq artifacts[s]
    BY <2>1, QuietStays
  <2>3. \A n \in artifacts'[s] : <<s, n>> \in req[r].keys \/ n \in purged'[s]
    BY <2>1, <2>2, TombstoneSteps
  <2> QED
    BY <2>1, <2>2, <2>3
<1> QED
  BY <1>1, <1>2, <1>3, RequestSteps

(* A raw object that is gone stays gone when its session is quiet.         *)
LEMMA GoneRawStays ==
  ASSUME GovInv, [GovNext]_allVars, NEW s \in Sessions, Quiet(state, upload, s),
         NEW n \in RawNames, <<s, n>> \notin blobs
  PROVE  <<s, n>> \notin blobs'
  BY RawPuts DEF Quiet

LEMMA GoneBehindStep ==
  ContributorClients /\ GovInv /\ RetentionInv /\ [GovNext]_allVars => GoneBehindPurger'
<1> SUFFICES ASSUME ContributorClients, GovInv, RetentionInv, [GovNext]_allVars,
                    NEW w \in Workers, duty'[w] \in Requests,
                    req'[duty'[w]].kind = "session_raw",
                    NEW key \in req'[duty'[w]].keys \ todo'[w]
             PROVE  key \notin blobs'
  BY DEF GoneBehindPurger
<1> DEFINE r == duty'[w]
<1>0. r # NoOne
  BY RequestsAssumption
<1>1. ASSUME req[r].state # "absent" PROVE SameOrder(r)
  BY <1>1, RequestSteps DEF RequestSessionDeletion, QueueExpiredRetention
<1>2. ASSUME duty'[w] = duty[w], key \notin todo[w] PROVE key \notin blobs'
  <2>1. SameOrder(r)
    BY <1>1, <1>2 DEF GovInv, GovLinks
  <2>2. req[r].kind = "session_raw" /\ key \in req[r].keys
    BY <2>1 DEF SameOrder
  <2>3. /\ req[r].session \in Sessions /\ Quiet(state, upload, req[r].session)
        /\ key \in {req[r].session} \X RawNames
    BY <2>2 DEF RetentionInv, RawRequests, GovInv, GovLinks
  <2>4. key \notin blobs
    BY <1>2, <2>2 DEF RetentionInv, GoneBehindPurger
  <2> QED
    BY <2>3, <2>4, GoneRawStays
<1>3. ASSUME duty'[w] = duty[w], NEW x \in todo[w], blobs' = blobs \ {x},
             todo'[w] = todo[w] \ {x}
      PROVE  key \notin blobs'
  BY <1>2, <1>3
<1>4. ASSUME NEW q \in Requests, req[q].state # "absent", duty'[w] = q, todo'[w] = req[q].keys
      PROVE  FALSE
  BY <1>1, <1>4 DEF SameOrder
<1> QED
  BY <1>0, <1>2, <1>3, <1>4, DutyMoves

LEMMA TombstoneStep ==
  ContributorClients /\ GovInv /\ RetentionInv /\ [GovNext]_allVars => TombstoneMeansGone'
<1> SUFFICES ASSUME ContributorClients, GovInv, RetentionInv, [GovNext]_allVars,
                    NEW s \in Sessions, NEW n \in RawNames, n \in purged'[s]
             PROVE  <<s, n>> \notin blobs'
  BY DEF TombstoneMeansGone
<1>1. CASE n \in purged[s]
  BY <1>1, GoneRawStays DEF RetentionInv, EvidenceOrder, TombstoneMeansGone
<1>2. ASSUME NEW w \in Workers, CompleteRetentionPurge(w), req[duty[w]].session = s,
             n \in artifacts[s]
      PROVE  <<s, n>> \notin blobs'
  <2>1. /\ duty[w] \in Requests /\ todo[w] = {} /\ req[duty[w]].kind = "session_raw"
        /\ blobs' = blobs
    BY <1>2 DEF CompleteRetentionPurge, MayComplete, GovInv, GovTypeOK, vars
  <2>2. <<s, n>> \in req[duty[w]].keys \/ n \in purged[s]
    BY <1>2, <2>1 DEF RetentionInv, RawRequests
  <2> QED
    BY <2>1, <2>2 DEF RetentionInv, GoneBehindPurger, TombstoneMeansGone
<1> QED
  BY <1>1, <1>2, TombstoneSteps

LEMMA RetentionInvInit == GovInit => RetentionInv
  BY RequestsAssumption
  DEF GovInit, Init, NoRequest, RetentionInv, EvidenceOrder, RawRequests, GoneBehindPurger,
      TombstoneMeansGone

(* An artifact that is marked purged is gone from the store for good, when *)
(* clients ask for contributors' states only: no upload call still under   *)
(* way and no retry of the validation job brings it back, and a purge that *)
(* was requeued, overtaken or cancelled half way does not mark what it has *)
(* not removed (CompleteRetentionPurge after the purges of                 *)
(* processRetention).                                                      *)
THEOREM TombstonesAreGone == ContributorClients /\ GovSpec => []TombstoneMeansGone
<1> SUFFICES ASSUME ContributorClients PROVE GovSpec => []TombstoneMeansGone
  OBVIOUS
<1>1. GovInv /\ RetentionInv /\ [GovNext]_allVars => RetentionInv'
  BY EvidenceOrderStep, RawRequestsStep, GoneBehindStep, TombstoneStep DEF RetentionInv
<1>2. RetentionInv => TombstoneMeansGone
  BY DEF RetentionInv
<1> QED
  BY <1>1, <1>2, GovInvInit, GovInvStep, RetentionInvInit, PTL DEF GovSpec

-----------------------------------------------------------------------------
(* Sessions and jobs, through erasures and purges *)

(* The correspondence of PipelineProofs, with erased sessions, and with    *)
(* nothing said of results: evidence may be purged under a validating      *)
(* worker. An erased session leaves the id of its job unused.              *)
JobsFollowSessions ==
  /\ \A j \in Jobs :
       LET s == jobSession[j] IN
       /\ jobState[j] = "absent" => s = NoOne \/ state[s] = "DELETED"
       /\ jobState[j] = "queued" => state[s] \in InPipeline
       /\ jobState[j] = "leased" => state[s] = "PROCESSING"
       /\ jobState[j] = "dead_letter" => state[s] = "FAILED"
       /\ jobState[j] = "completed" => state[s] \in {"READY_FOR_REVIEW", "FAILED"}
  /\ \A s \in Sessions : state[s] \in Submitted => \E j \in Jobs : jobSession[j] = s

FollowInv == JobsFollowSessions /\ OneJob

LEMMA NoJobYet ==
  ASSUME GovInv, FollowInv, NEW s \in Sessions, state[s] \notin Late, NEW j \in Jobs
  PROVE  jobSession[j] # s
<1> USE DEF FollowInv, JobsFollowSessions, Late, Submitted, InPipeline
<1>1. jobState[j] = "absent" => jobSession[j] = NoOne \/ state[jobSession[j]] = "DELETED"
  OBVIOUS
<1>2. jobState[j] # "absent" => state[jobSession[j]] \in Submitted
  BY DEF GovInv, GovTypeOK, TypeOK
<1> QED
  BY <1>1, <1>2, NoOneAssumption

LEMMA RequeueFollows ==
  ASSUME GovInv, FollowInv, NEW w \in Workers, phase[w] # "idle",
         RequeueValidationJob(w, task[w])
  PROVE  FollowInv'
<1> USE DEF GovInv, GovTypeOK, TypeOK, Links, FollowInv, JobsFollowSessions, OneJob, Submitted,
            InPipeline, RequeueValidationJob
<1>1. CASE Requeued(w, task[w])
  BY <1>1 DEF Requeued, HoldsLease
<1>2. CASE DeadLettered(w, task[w])
  BY <1>2 DEF DeadLettered, HoldsLease
<1>3. CASE RequeueRefused(w, task[w])
  BY <1>3 DEF RequeueRefused
<1> QED
  BY <1>1, <1>2, <1>3

LEMMA PipelineFollows ==
  ASSUME ContributorClients, GovInv, FollowInv, PipelineStep
  PROVE  FollowInv'
<1> USE DEF GovInv, GovTypeOK, TypeOK, Links, FollowInv, JobsFollowSessions, OneJob, Submitted,
            InPipeline
<1>1. ASSUME NEW s \in Sessions, SessionStep(s) PROVE FollowInv'
  <2>1. CASE AssignTask(s)
    <3>1. /\ state[s] = "absent" /\ state' = [state EXCEPT ![s] = "ASSIGNED"]
          /\ UNCHANGED <<jobState, jobSession>>
      BY <2>1 DEF AssignTask
    <3>2. \A j \in Jobs : jobSession[j] # s
      BY <3>1, NoJobYet DEF Late
    <3> QED
      BY <3>1, <3>2
  <2>0. CASE AcceptConsent(s)
    BY <2>0 DEF AcceptConsent
  <2>2. ASSUME NEW to \in ClientTargets, TransitionSession(s, to) PROVE FollowInv'
    <3>1. to \in ContributorStates /\ to \notin Submitted /\ state[s] \notin Submitted
      BY <2>2, TransitionFacts DEF TransitionSession, ContributorClients, ContributorStates
    <3>2. state[s] # "DELETED"
      BY <2>2, DeletedIsFinal DEF TransitionSession
    <3> QED
      BY <2>2, <3>1, <3>2 DEF TransitionSession
  <2>3. ASSUME NEW n \in RawNames,
               \/ EnsureArtifactUploadAllowed(s, n) \/ PutRaw(s, n) \/ RegisterArtifact(s, n)
               \/ UploadInterrupted(s, n)
        PROVE  FollowInv'
    BY <2>3 DEF EnsureArtifactUploadAllowed, PutRaw, RegisterArtifact, UploadInterrupted
  <2>4. ASSUME NEW j \in Jobs, SubmitSession(s, j) PROVE FollowInv'
    <3>1. \A k \in Jobs : jobSession[k] # s
      BY <2>4, NoJobYet DEF SubmitSession, Late
    <3>2. JobsFollowSessions'
      BY <2>4, <3>1, NoOneAssumption DEF SubmitSession
    <3>3. OneJob'
      BY <2>4, <3>1, NoOneAssumption DEF SubmitSession
    <3> QED
      BY <3>2, <3>3
  <2> QED
    BY <1>1, <2>0, <2>1, <2>2, <2>3, <2>4 DEF SessionStep
<1>2. ASSUME NEW j \in Jobs, JobStep(j) PROVE FollowInv'
  <2>1. CASE BackoffElapses(j) \/ LeaseExpires(j)
    BY <2>1 DEF BackoffElapses, LeaseExpires
  <2>2. CASE RetryDeadLetterJob(j)
    BY <2>2 DEF RetryDeadLetterJob
  <2> QED
    BY <1>2, <2>1, <2>2 DEF JobStep
<1>3. ASSUME NEW w \in Workers, WorkerStep(w) PROVE FollowInv'
  <2>1. ASSUME NEW j \in Jobs, ClaimValidationJob(w, j) PROVE FollowInv'
    BY <2>1 DEF ClaimValidationJob
  <2>2. CASE Validate(w) \/ PutTrajectory(w) \/ PutActions(w) \/ CompletionRefused(w)
    BY <2>2 DEF Validate, PutTrajectory, PutActions, CompletionRefused
  <2>3. CASE CompleteValidationJob(w)
    <3>1. VerdictState(verdict[w]) \in {"READY_FOR_REVIEW", "FAILED"}
      BY DEF VerdictState
    <3> QED
      BY <2>3, <3>1 DEF CompleteValidationJob, HoldsLease
  <2> QED
    BY <1>3, <2>1, <2>2, <2>3 DEF WorkerStep
<1>4. ASSUME NEW w \in Workers, WorkerFault(w) PROVE FollowInv'
  <2>1. CASE StepFails(w)
    BY <2>1, RequeueFollows DEF StepFails
  <2>2. CASE InspectionFails(w) \/ Crash(w)
    BY <2>2 DEF InspectionFails, Crash
  <2> QED
    BY <1>4, <2>1, <2>2 DEF WorkerFault
<1> QED
  BY <1>1, <1>2, <1>3, <1>4 DEF PipelineStep

LEMMA FollowInvStep ==
  ContributorClients /\ GovInv /\ FollowInv /\ [GovNext]_allVars => FollowInv'
<1> SUFFICES ASSUME ContributorClients, GovInv, FollowInv, [GovNext]_allVars PROVE FollowInv'
  OBVIOUS
<1>1. ASSUME NEW w \in Workers, ValidateFindsNoObject(w) PROVE FollowInv'
  BY <1>1, RequeueFollows DEF ValidateFindsNoObject
<1>2. ASSUME NEW w \in Workers, CompleteDeletionRequest(w) PROVE FollowInv'
  <2> DEFINE s == req[duty[w]].session
  <2>1. /\ s \in Sessions /\ state'[s] = "DELETED"
        /\ \A t \in Sessions \ {s} : state'[t] = state[t]
    BY <1>2, ErasureErases
  <2>2. \A j \in Jobs :
          /\ jobSession'[j] = jobSession[j]
          /\ IF jobSession[j] = s THEN jobState'[j] = "absent" ELSE jobState'[j] = jobState[j]
    BY <1>2 DEF CompleteDeletionRequest
  <2>3. \A j \in Jobs : jobSession[j] \in Sessions \cup {NoOne}
                        /\ (jobState[j] # "absent" => jobSession[j] \in Sessions)
    BY DEF GovInv, GovTypeOK, TypeOK, Links
  <2> HIDE DEF s
  <2>4. JobsFollowSessions'
    BY <2>1, <2>2, <2>3, NoOneAssumption
    DEF FollowInv, JobsFollowSessions, InPipeline, Submitted
  <2>5. OneJob'
    BY <2>2 DEF FollowInv, OneJob
  <2> QED
    BY <2>4, <2>5 DEF FollowInv
<1>3. CASE UNCHANGED <<sessionVars, jobVars, result, upload, workerVars>>
  BY <1>3 DEF FollowInv, JobsFollowSessions, OneJob
<1> QED
  BY <1>1, <1>2, <1>3, PipelineFollows, RowSteps

(* Erasures, purges and holds strand no session and no job: with           *)
(* contributors' clients a session waits for a verdict exactly as long as  *)
(* one active job works towards it, though its objects may be purged under *)
(* the worker and its rows erased (CompleteDeletionRequest,                *)
(* ValidateFindsNoObject against the pipeline).                            *)
THEOREM ActiveJobsMatchUnderErasure ==
  ContributorClients /\ GovSpec => []ActiveJobsMatchSessions
<1> SUFFICES ASSUME ContributorClients PROVE GovSpec => []ActiveJobsMatchSessions
  OBVIOUS
<1>1. GovInit => FollowInv
  BY NoOneAssumption DEF GovInit, Init, FollowInv, JobsFollowSessions, OneJob, Submitted
<1>2. GovInv /\ FollowInv /\ [GovNext]_allVars => FollowInv'
  BY FollowInvStep
<1>3. GovInv /\ FollowInv => ActiveJobsMatchSessions
  <2> SUFFICES ASSUME GovInv, FollowInv PROVE ActiveJobsMatchSessions
    OBVIOUS
  <2> USE DEF GovInv, GovTypeOK, TypeOK, Links, FollowInv, JobsFollowSessions, Submitted,
              InPipeline, Active
  <2>1. ASSUME NEW s \in Sessions, state[s] \in InPipeline
        PROVE  \E j \in Jobs : jobSession[j] = s /\ Active(j)
    <3>1. PICK j \in Jobs : jobSession[j] = s
      BY <2>1
    <3>2. jobState[j] \in JobStates /\ s # NoOne
      BY NoOneAssumption
    <3>3. jobState[j] \notin {"absent", "dead_letter", "completed"}
      BY <2>1, <3>1, <3>2
    <3> QED
      BY <3>1, <3>2, <3>3
  <2>2. ASSUME NEW j \in Jobs, Active(j)
        PROVE  /\ state[jobSession[j]] \in InPipeline
               /\ jobState[j] = "leased" => state[jobSession[j]] = "PROCESSING"
    BY <2>2
  <2>3. ASSUME NEW j \in Jobs, NEW k \in Jobs, Active(j), Active(k),
               jobSession[j] = jobSession[k]
        PROVE  j = k
    BY <2>3 DEF OneJob
  <2> QED
    BY <2>1, <2>2, <2>3 DEF ActiveJobsMatchSessions
<1> QED
  BY <1>1, <1>2, <1>3, GovInvInit, GovInvStep, PTL DEF GovSpec
=============================================================================
