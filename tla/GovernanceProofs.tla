-------------------------- MODULE GovernanceProofs --------------------------
(***************************************************************************)
(* Theorems about Governance, for every number of sessions, jobs, workers, *)
(* requests, attempts and faults, and whatever targets clients ask for.    *)
(***************************************************************************)
EXTENDS Governance, PipelineProofs

USE DEF SessionStates, JobStates, UploadSteps, Phases, Verdicts, DerivedNames,
        Objects, sessionVars, jobVars, workerVars, govVars, purgerVars,
        Kinds, RequestStates, Queues

(* A request that exists is for a session, and a worker purges for a       *)
(* request that exists.                                                    *)
GovLinks ==
  /\ \A r \in Requests : req[r].state # "absent" => req[r].session \in Sessions
  /\ \A w \in Workers : duty[w] \in Requests => req[duty[w]].state # "absent"
  /\ \A w \in Workers : todo[w] # {} => duty[w] \in Requests

GovInv == GovTypeOK /\ Links /\ GovLinks /\ NoHoldUnderRetentionLease

LEMMA GovInvInit == GovInit => GovInv
<1> SUFFICES ASSUME GovInit PROVE GovInv
  OBVIOUS
<1>1. TypeOK /\ Links
  BY TypeInit DEF GovInit
<1>2. NoRequest \in RequestRows
  BY DEF NoRequest, RequestRows
<1>3. GovTypeOK
  BY <1>1, <1>2 DEF GovInit, GovTypeOK
<1>4. GovLinks /\ NoHoldUnderRetentionLease
  BY RequestsAssumption DEF GovInit, GovLinks, NoHoldUnderRetentionLease, NoRequest
<1> QED
  BY <1>1, <1>3, <1>4 DEF GovInv

(* A row keeps its type and its session when it becomes available again.   *)
LEMMA AvailableRow ==
  ASSUME NEW row \in RequestRows, NEW to \in RequestStates
  PROVE  LET new == [row EXCEPT !.state = to, !.ripe = TRUE]
         IN  /\ new \in RequestRows /\ new.state = to
             /\ new.session = row.session /\ new.kind = row.kind
  BY DEF RequestRows

(* ... and when its lease ends.                                            *)
LEMMA UnleasedRow ==
  ASSUME NEW row \in RequestRows, NEW to \in RequestStates
  PROVE  LET new == [row EXCEPT !.state = to, !.leasedBy = NoOne, !.ripe = FALSE]
         IN  /\ new \in RequestRows /\ new.state = to
             /\ new.session = row.session /\ new.kind = row.kind
  BY DEF RequestRows

(* A step keeps every request's kind and session, deletes no row and       *)
(* leases none.                                                            *)
RequestsKept ==
  \A q \in Requests :
    /\ req'[q].session = req[q].session /\ req'[q].kind = req[q].kind
    /\ req'[q].state = "absent" <=> req[q].state = "absent"
    /\ req'[q].state = "leased" => req[q].state = "leased"

(* What a claim or a requeue that ends the lease does to the table.        *)
LEMMA FinishFacts ==
  ASSUME GovTypeOK, NEW r \in Requests, NEW to \in RequestStates, Finish(r, to)
  PROVE  /\ req' \in [Requests -> RequestRows]
         /\ req'[r].state = to
         /\ req'[r].session = req[r].session /\ req'[r].kind = req[r].kind
         /\ \A q \in Requests \ {r} : req'[q] = req[q]
<1> DEFINE row == [req[r] EXCEPT !.state = to, !.leasedBy = NoOne, !.ripe = FALSE]
<1>0. req[r] \in RequestRows /\ to \in RequestStates
  BY DEF GovTypeOK
<1>1. req' = [req EXCEPT ![r] = row]
  BY DEF Finish, GovTypeOK
<1>2. /\ row \in RequestRows /\ row.state = to
      /\ row.session = req[r].session /\ row.kind = req[r].kind
  BY ONLY <1>0, UnleasedRow
<1> HIDE DEF row
<1> QED
  BY <1>1, <1>2 DEF GovTypeOK

(* The worker's local variables after it is done with a request.           *)
LEMMA DoneFacts ==
  ASSUME GovTypeOK, NEW w \in Workers, DutyDone(w)
  PROVE  /\ duty' \in [Workers -> Requests \cup {NoOne}]
         /\ todo' \in [Workers -> SUBSET Objects]
         /\ queue' \in [Workers -> Queues]
         /\ duty'[w] \notin Requests /\ todo'[w] = {}
         /\ \A v \in Workers \ {w} : duty'[v] = duty[v] /\ todo'[v] = todo[v]
  BY RequestsAssumption DEF GovTypeOK, DutyDone

(* A requeue keeps the table well formed and makes no request leased.      *)
LEMMA RequeueFacts ==
  ASSUME GovTypeOK, NEW w \in Workers, NEW r \in Requests, RequeueRequest(w, r)
  PROVE  /\ req' \in [Requests -> RequestRows]
         /\ RequestsKept
<1>1. CASE HoldsRequest(w, r)
  <2>1. \E to \in {"queued", "dead_letter"} : Finish(r, to)
    BY <1>1 DEF RequeueRequest
  <2> QED
    BY <1>1, <2>1, FinishFacts DEF RequestsKept, HoldsRequest
<1>2. CASE ~HoldsRequest(w, r)
  BY <1>2 DEF RequeueRequest, GovTypeOK, RequestsKept
<1> QED
  BY <1>1, <1>2

(* A worker that leaves a request behind keeps the links and the exclusion. *)
LEMMA DoneLinks ==
  ASSUME GovInv, NEW w \in Workers, DutyDone(w), RequestsKept, UNCHANGED held
  PROVE  GovLinks' /\ NoHoldUnderRetentionLease'
<1> USE DEF GovInv, GovLinks, RequestsKept
<1>1. ASSUME NEW r \in Requests, req'[r].state # "absent" PROVE req'[r].session \in Sessions
  <2>1. req[r].state # "absent" /\ req'[r].session = req[r].session
    BY <1>1
  <2> QED
    BY <2>1
<1>2. ASSUME NEW v \in Workers, duty'[v] \in Requests PROVE req'[duty'[v]].state # "absent"
  <2>1. duty'[v] = duty[v]
    BY <1>2, DoneFacts
  <2> QED
    BY <1>2, <2>1
<1>3. ASSUME NEW v \in Workers, todo'[v] # {} PROVE duty'[v] \in Requests
  BY <1>3, DoneFacts
<1>4. NoHoldUnderRetentionLease'
  BY DEF NoHoldUnderRetentionLease
<1> QED
  BY <1>1, <1>2, <1>3, <1>4

(* Leasing an erasure keeps the invariant, with or without a hold that     *)
(* comes right behind it.                                                  *)
LEMMA LeaseDeletionStep ==
  ASSUME GovInv, NEW w \in Workers, NEW r \in Requests, LeaseDeletion(w, r),
         \/ NoneLeased(req[r].session) /\ held' = [held EXCEPT ![req[r].session] = TRUE]
         \/ UNCHANGED held
  PROVE  GovInv'
<1> USE DEF GovInv, GovTypeOK, GovLinks
<1>1. TypeOK' /\ Links'
  BY TypeStep DEF LeaseDeletion
<1>2. held' \in [Sessions -> BOOLEAN]
  OBVIOUS
<1> QED
  BY <1>1, <1>2 DEF LeaseDeletion, Claimable, GoesOnTo, Lease, StartPurging, NextAttempt,
     RequestRows, NoneLeased, NoHoldUnderRetentionLease

LEMMA GovInvStep == GovInv /\ [GovNext]_allVars => GovInv'
<1> SUFFICES ASSUME GovInv, [GovNext]_allVars PROVE GovInv'
  OBVIOUS
<1> USE DEF GovInv
<1>1. CASE PipelineStep
  <2>1. Next
    BY <1>1 DEF PipelineStep, Next
  <2>2. TypeOK' /\ Links'
    BY <2>1, TypeStep DEF GovTypeOK
  <2>3. old' \in [Sessions -> BOOLEAN]
    BY <1>1 DEF PipelineStep, RowsTouched
  <2> QED
    BY <1>1, <2>2, <2>3 DEF PipelineStep, GovTypeOK, GovLinks, NoHoldUnderRetentionLease
<1>2. CASE AdminStep
  <2>1. UNCHANGED vars
    BY <1>2 DEF AdminStep, UpsertRetentionPolicy, PlaceLegalHold, ReleaseLegalHold,
       RequestSessionDeletion, RetryDeadLetterDeletionRequest, RetryDeadLetterRetentionPurge
  <2>2. TypeOK' /\ Links'
    BY <2>1, TypeStep DEF GovTypeOK
  <2> USE DEF GovTypeOK, GovLinks, NoHoldUnderRetentionLease
  <2>3. CASE UpsertRetentionPolicy
    <3>1. policy' \in Nat /\ old' \in [Sessions -> BOOLEAN]
      <4>1. policy' \in Nat
        BY <2>3 DEF UpsertRetentionPolicy
      <4>2. PICK young \in SUBSET Sessions : old' = [s \in Sessions |-> old[s] /\ s \notin young]
        BY <2>3 DEF UpsertRetentionPolicy
      <4> QED
        BY <4>1, <4>2
    <3> QED
      BY <2>2, <2>3, <3>1 DEF UpsertRetentionPolicy
  <2>4. ASSUME NEW s \in Sessions, PlaceLegalHold(s) PROVE GovInv'
    BY <2>2, <2>4 DEF PlaceLegalHold, NoneLeased
  <2>5. ASSUME NEW s \in Sessions, ReleaseLegalHold(s) PROVE GovInv'
    <3>1. ASSUME NEW r \in Requests
          PROVE  /\ req'[r] \in RequestRows
                 /\ req'[r].session = req[r].session /\ req'[r].kind = req[r].kind
                 /\ req'[r].state = "absent" <=> req[r].state = "absent"
                 /\ req'[r].state = "leased" => req[r].state = "leased"
      <4> DEFINE row == [req[r] EXCEPT !.state = "queued", !.ripe = TRUE]
      <4>0. req[r] \in RequestRows
        OBVIOUS
      <4>1. /\ row \in RequestRows /\ row.state = "queued"
            /\ row.session = req[r].session /\ row.kind = req[r].kind
        BY ONLY <4>0, AvailableRow
      <4>2. \/ req[r].state = "blocked" /\ req'[r] = row
            \/ req'[r] = req[r]
        BY <2>5 DEF ReleaseLegalHold
      <4> HIDE DEF row
      <4> QED
        BY ONLY <4>0, <4>1, <4>2
    <3>2. req' \in [Requests -> RequestRows]
      BY <2>5, <3>1 DEF ReleaseLegalHold
    <3>3. GovTypeOK'
      BY <2>2, <2>5, <3>2 DEF ReleaseLegalHold
    <3>4. GovLinks'
      BY <2>5, <3>1 DEF ReleaseLegalHold
    <3>5. NoHoldUnderRetentionLease'
      BY <2>5, <3>1 DEF ReleaseLegalHold
    <3> QED
      BY <2>2, <3>3, <3>4, <3>5
  <2>6. ASSUME NEW s \in Sessions, NEW r \in Requests, RequestSessionDeletion(s, r)
        PROVE  GovInv'
    <3>1. sessionObjectKeys(s) \subseteq Objects
      <4>1. RegisteredObjects(s) \subseteq Objects
        BY DEF RegisteredObjects, TypeOK
      <4>2. {s} \X DerivedNames \subseteq Objects
        OBVIOUS
      <4> QED
        BY <4>1, <4>2 DEF sessionObjectKeys
    <3> QED
      BY <2>2, <2>6, <3>1 DEF RequestSessionDeletion, NewRequest, NoRequest, RequestRows
  <2>7. ASSUME NEW r \in Requests, RetryDeadLetterDeletionRequest(r) PROVE GovInv'
    BY <2>2, <2>7 DEF RetryDeadLetterDeletionRequest, RequestRows
  <2>8. ASSUME NEW r \in Requests, RetryDeadLetterRetentionPurge(r) PROVE GovInv'
    BY <2>2, <2>8 DEF RetryDeadLetterRetentionPurge, RequestRows
  <2> QED
    BY <1>2, <2>3, <2>4, <2>5, <2>6, <2>7, <2>8 DEF AdminStep
<1>3. CASE TimeStep
  <2>1. UNCHANGED vars
    BY <1>3 DEF TimeStep, Age, RequestBackoffElapses, RequestLeaseExpires
  <2>2. TypeOK' /\ Links'
    BY <2>1, TypeStep DEF GovTypeOK
  <2> USE DEF GovTypeOK, GovLinks, NoHoldUnderRetentionLease
  <2>3. ASSUME NEW s \in Sessions, Age(s) PROVE GovInv'
    BY <2>2, <2>3 DEF Age
  <2>4. ASSUME NEW r \in Requests, RequestBackoffElapses(r) \/ RequestLeaseExpires(r)
        PROVE  GovInv'
    <3>1. req' = [req EXCEPT ![r].ripe = TRUE]
      BY <2>4 DEF RequestBackoffElapses, RequestLeaseExpires
    <3>2. /\ req' \in [Requests -> RequestRows]
          /\ \A q \in Requests : /\ req'[q].state = req[q].state /\ req'[q].kind = req[q].kind
                                 /\ req'[q].session = req[q].session
      <4> DEFINE row == [req[r] EXCEPT !.state = req[r].state, !.ripe = TRUE]
      <4>0. req[r] \in RequestRows /\ req[r].state \in RequestStates
        BY DEF RequestRows
      <4>1. /\ row \in RequestRows /\ row.state = req[r].state
            /\ row.session = req[r].session /\ row.kind = req[r].kind
        BY ONLY <4>0, AvailableRow
      <4>2. req' = [req EXCEPT ![r] = row]
        BY <3>1, <4>0 DEF RequestRows
      <4> HIDE DEF row
      <4> QED
        BY <4>1, <4>2
    <3> QED
      BY <2>2, <2>4, <3>2 DEF RequestBackoffElapses, RequestLeaseExpires
  <2> QED
    BY <1>3, <2>3, <2>4 DEF TimeStep
<1>4. ASSUME NEW w \in Workers, PurgerStep(w) PROVE GovInv'
  <2> USE DEF GovTypeOK, GovLinks, NoHoldUnderRetentionLease
  <2>1. ASSUME NEW r \in Requests, ClaimDeletionRequest(w, r) PROVE GovInv'
    <3>1. CASE LeaseDeletion(w, r)
      BY <2>1, <3>1, LeaseDeletionStep DEF ClaimDeletionRequest
    <3>2. CASE SetDeletionAside(w, r)
      <4>1. TypeOK' /\ Links'
        BY <3>2, TypeStep DEF SetDeletionAside
      <4> QED
        BY <2>1, <3>2, <4>1 DEF ClaimDeletionRequest, SetDeletionAside, Claimable, GoesOnTo,
           Finish, RequestRows
    <3> QED
      BY <2>1, <3>1, <3>2 DEF ClaimDeletionRequest
  <2>2. ASSUME NEW r \in Requests, ClaimRetentionPurge(w, r) PROVE GovInv'
    <3>1. TypeOK' /\ Links'
      BY <2>2, TypeStep DEF ClaimRetentionPurge
    <3> QED
      BY <2>2, <3>1 DEF ClaimRetentionPurge, Claimable, GoesOnTo, Finish, Lease, StartPurging, NextAttempt,
         RequestRows
  <2>3. ASSUME NEW s \in Sessions, NEW r \in Requests, QueueExpiredRetention(w, s, r)
        PROVE  GovInv'
    <3>1. TypeOK' /\ Links'
      BY <2>3, TypeStep DEF QueueExpiredRetention
    <3>2. {s} \X Unpurged(s) \subseteq Objects
      BY DEF Unpurged, TypeOK
    <3> QED
      BY <2>3, <3>1, <3>2 DEF QueueExpiredRetention, NewRequest, NoRequest, RequestRows
  <2>4. CASE PurgeObject(w)
    <3>1. PICK key \in todo[w] : /\ blobs' = blobs \ {key}
                                 /\ todo' = [todo EXCEPT ![w] = @ \ {key}]
      BY <2>4 DEF PurgeObject
    <3>2. /\ todo' \in [Workers -> SUBSET Objects]
          /\ \A v \in Workers : todo'[v] # {} => todo[v] # {}
      BY <3>1
    <3>3. TypeOK' /\ Links'
      BY <2>4, <3>1 DEF PurgeObject, TypeOK, Links
    <3> QED
      BY <2>4, <3>2, <3>3 DEF PurgeObject
  <2>5. CASE CompleteDeletionRequest(w)
    <3> DEFINE r == duty[w]
    <3>0. /\ r \in Requests /\ req[r].session \in Sessions
          /\ Finish(r, "completed") /\ DutyDone(w)
      BY <2>5 DEF CompleteDeletionRequest, MayComplete, HoldsRequest
    <3>1. TypeOK' /\ Links'
      <4>1. /\ state' \in [Sessions -> SessionStates \cup {"absent"}]
            /\ consent' \in [Sessions -> BOOLEAN]
            /\ artifacts' \in [Sessions -> SUBSET RawNames]
        BY <2>5, <3>0 DEF CompleteDeletionRequest, TypeOK
      <4>2. /\ jobState' \in [Jobs -> JobStates]
            /\ leasedBy' \in [Jobs -> Workers \cup {NoOne}]
            /\ ripe' \in [Jobs -> BOOLEAN]
            /\ result' \in [Jobs -> Verdicts]
            /\ \A j \in Jobs : jobState'[j] # "absent" => jobState[j] # "absent"
        BY <2>5 DEF CompleteDeletionRequest, TypeOK
      <4> QED
        BY <2>5, <4>1, <4>2 DEF CompleteDeletionRequest, TypeOK, Links
    <3>2. old' \in [Sessions -> BOOLEAN]
      BY <2>5 DEF CompleteDeletionRequest, RowsTouched
    <3> QED
      <4>1. purged' \in [Sessions -> SUBSET RawNames]
        BY <2>5 DEF CompleteDeletionRequest
      <4>2. GovTypeOK'
        BY <2>5, <3>0, <3>1, <3>2, <4>1, FinishFacts, DoneFacts DEF CompleteDeletionRequest
      <4>3. GovLinks' /\ NoHoldUnderRetentionLease'
        <5>1. RequestsKept
          BY <3>0, FinishFacts DEF RequestsKept
        <5> QED
          BY <2>5, <3>0, <5>1, DoneLinks DEF CompleteDeletionRequest
      <4> QED
        BY <3>1, <4>2, <4>3
  <2>6. CASE CompleteRetentionPurge(w)
    <3>1. TypeOK' /\ Links'
      BY <2>6, TypeStep DEF CompleteRetentionPurge
    <3> QED
      <4>0. /\ duty[w] \in Requests
            /\ Finish(duty[w], "completed") /\ DutyDone(w)
        BY <2>6 DEF CompleteRetentionPurge, MayComplete
      <4>1. purged' \in [Sessions -> SUBSET RawNames]
        BY <2>6 DEF CompleteRetentionPurge, TypeOK
      <4>2. GovTypeOK'
        BY <2>6, <3>1, <4>0, <4>1, FinishFacts, DoneFacts DEF CompleteRetentionPurge
      <4>3. GovLinks' /\ NoHoldUnderRetentionLease'
        <5>1. RequestsKept
          BY <4>0, FinishFacts DEF RequestsKept
        <5> QED
          BY <2>6, <4>0, <5>1, DoneLinks DEF CompleteRetentionPurge
      <4> QED
        BY <3>1, <4>2, <4>3
  <2>7. CASE RequestCompletionRefused(w)
    <3>1. TypeOK' /\ Links'
      BY <2>7, TypeStep DEF RequestCompletionRefused
    <3> QED
      <4>1. duty[w] \in Requests /\ RequeueRequest(w, duty[w]) /\ DutyDone(w)
        BY <2>7 DEF RequestCompletionRefused, RequeueRequest
      <4>2. GovTypeOK'
        BY <2>7, <3>1, <4>1, RequeueFacts, DoneFacts DEF RequestCompletionRefused
      <4>3. GovLinks' /\ NoHoldUnderRetentionLease'
        BY <2>7, <4>1, RequeueFacts, DoneLinks DEF RequestCompletionRefused
      <4> QED
        BY <3>1, <4>2, <4>3
  <2>8. CASE ValidateFindsNoObject(w)
    <3>1. TypeOK' /\ Links'
      <4>1. /\ blobs' \subseteq Objects /\ faults' \in Nat /\ phase[w] # "idle"
            /\ RequeueValidationJob(w, task[w])
        BY <2>8 DEF ValidateFindsNoObject, TypeOK
      <4> QED
        BY <4>1, RequeueJobTypes
    <3>2. old' \in [Sessions -> BOOLEAN]
      BY <2>8 DEF ValidateFindsNoObject, RowsTouched
    <3> QED
      BY <2>8, <3>1, <3>2 DEF ValidateFindsNoObject
  <2>9. CASE FindsNothing(w)
    <3>1. TypeOK' /\ Links'
      BY <2>9, TypeStep DEF FindsNothing
    <3>2. queue' \in [Workers -> Queues]
      BY <2>9 DEF FindsNothing, GoesOnTo
    <3> QED
      BY <2>9, <3>1, <3>2 DEF FindsNothing
  <2> QED
    BY <1>4, <2>1, <2>2, <2>3, <2>4, <2>5, <2>6, <2>7, <2>8, <2>9 DEF PurgerStep
<1>5. ASSUME NEW w \in Workers, PurgeFails(w) \/ PurgerCrashes(w) PROVE GovInv'
  <2>1. TypeOK' /\ Links'
    <3>1. /\ blobs' \subseteq Objects /\ faults' \in Nat
          /\ UNCHANGED <<sessionVars, jobVars, result, upload, workerVars>>
      BY <1>5 DEF PurgeFails, PurgerCrashes, GovTypeOK, TypeOK
    <3> QED
      BY <3>1 DEF GovTypeOK, TypeOK, Links
  <2> USE DEF GovTypeOK, GovLinks, NoHoldUnderRetentionLease
  <2>2. CASE PurgeFails(w)
    <3>1. duty[w] \in Requests /\ RequeueRequest(w, duty[w]) /\ DutyDone(w)
      BY <2>2 DEF PurgeFails, RequeueRequest
    <3>2. GovTypeOK'
      BY <2>1, <2>2, <3>1, RequeueFacts, DoneFacts DEF PurgeFails
    <3>3. GovLinks' /\ NoHoldUnderRetentionLease'
      BY <2>2, <3>1, RequeueFacts, DoneLinks DEF PurgeFails
    <3> QED
      BY <2>1, <3>2, <3>3
  <2>3. CASE PurgerCrashes(w)
    <3>1. DutyDone(w)
      BY <2>3 DEF PurgerCrashes
    <3> QED
      BY <2>1, <2>3, <3>1, DoneFacts DEF PurgerCrashes
  <2> QED
    BY <1>5, <2>2, <2>3
<1>6. ASSUME NEW w \in Workers, NEW r \in Requests, PlaceLegalHoldBehindClaim(w, r)
      PROVE  GovInv'
  BY <1>6, LeaseDeletionStep DEF PlaceLegalHoldBehindClaim
<1>7. CASE UNCHANGED allVars
  <2>1. TypeOK' /\ Links'
    BY <1>7, TypeStep DEF allVars, GovTypeOK
  <2> QED
    BY <1>7, <2>1 DEF allVars, GovTypeOK, GovLinks, NoHoldUnderRetentionLease
<1> QED
  BY <1>1, <1>2, <1>3, <1>4, <1>5, <1>6, <1>7 DEF GovNext

(* The columns of the governance tables and of the pipeline beneath them   *)
(* keep their types through every purge and completion.                    *)
THEOREM GovTypeCorrect == GovSpec => []GovTypeOK
<1>1. GovInv => GovTypeOK
  BY DEF GovInv
<1> QED
  BY <1>1, GovInvInit, GovInvStep, PTL DEF GovSpec

(* A legal hold and a leased retention purge of the same session exclude   *)
(* each other at all times.                                                *)
THEOREM HoldsExcludeRetentionPurges == GovSpec => []NoHoldUnderRetentionLease
<1>1. GovInv => NoHoldUnderRetentionLease
  BY DEF GovInv
<1> QED
  BY <1>1, GovInvInit, GovInvStep, PTL DEF GovSpec
=============================================================================
