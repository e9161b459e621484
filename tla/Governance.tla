----------------------------- MODULE Governance -----------------------------
(***************************************************************************)
(* Legal holds, explicit erasure and retention expiry of raw evidence, on  *)
(* top of the pipeline they delete from. The same worker processes purge:  *)
(* ProcessNext turns to a deletion request when no validation job can be   *)
(* claimed, and to a retention purge when no deletion request can.         *)
(*                                                                         *)
(*   legal_holds               held (at most one active hold a session)    *)
(*   deletion_requests and                                                 *)
(*   retention_purge_requests  req, one row type with a kind               *)
(*   retention_policies        policy, the version (updated_at); 0: no row *)
(*   artifacts.purged_at       purged                                      *)
(* old[s]: sessions.updated_at lies more than raw_days in the past.        *)
(* duty[w], todo[w]: the request the worker is purging, keys still to go.  *)
(* queue[w]: the queue in which ProcessNext looks for work next.           *)
(***************************************************************************)
EXTENDS Pipeline

CONSTANTS
  Requests,      \* rows of the two request tables that may come to exist
  MaxPolicies    \* bound: edits of the retention policy

ASSUME RequestsAssumption == NoOne \notin Requests
ASSUME PoliciesAssumption == MaxPolicies \in Nat

VARIABLES held, req, policy, old, purged, duty, todo, queue

purgerVars == <<duty, todo, queue>>
govVars == <<held, req, policy, old, purged, purgerVars>>
allVars == <<vars, govVars>>

Kinds == {"deletion", "session_raw"}
RequestStates ==
  {"absent", "queued", "leased", "blocked", "completed", "dead_letter", "cancelled"}
Pending == {"queued", "leased", "blocked"}
Queues == {"validation", "deletion", "retention"}

RequestRows ==
  [kind : Kinds, session : Sessions \cup {NoOne}, state : RequestStates,
   keys : SUBSET Objects, policy : Nat, attempt : Nat,
   leasedBy : Workers \cup {NoOne}, ripe : BOOLEAN, requeues : Nat]

NoRequest ==
  [kind |-> "deletion", session |-> NoOne, state |-> "absent", keys |-> {},
   policy |-> 0, attempt |-> 0, leasedBy |-> NoOne, ripe |-> FALSE, requeues |-> 0]

GovTypeOK ==
  /\ TypeOK
  /\ held \in [Sessions -> BOOLEAN]
  /\ req \in [Requests -> RequestRows]
  /\ policy \in Nat
  /\ old \in [Sessions -> BOOLEAN]
  /\ purged \in [Sessions -> SUBSET RawNames]
  /\ duty \in [Workers -> Requests \cup {NoOne}]
  /\ todo \in [Workers -> SUBSET Objects]
  /\ queue \in [Workers -> Queues]

GovInit ==
  /\ Init
  /\ held = [s \in Sessions |-> FALSE]
  /\ req = [r \in Requests |-> NoRequest]
  /\ policy = 0
  /\ old = [s \in Sessions |-> FALSE]
  /\ purged = [s \in Sessions |-> {}]
  /\ duty = [w \in Workers |-> NoOne]
  /\ todo = [w \in Workers |-> {}]
  /\ queue = [w \in Workers |-> "validation"]

-----------------------------------------------------------------------------
(* Time and the organization's retention policy *)

(* A step that moves a session sets its updated_at. (So does AcceptConsent, *)
(* in ASSIGNED, where nothing expires.)                                     *)
RowsTouched == old' = [s \in Sessions |-> old[s] /\ state'[s] = state[s]]

(* The retention period runs out for a session: it is counted in days, so  *)
(* no upload call and no worker step of the session outlives it.           *)
Age(s) ==
  /\ ~old[s]
  /\ \A n \in RawNames : upload[s][n] = "none"
  /\ \A w \in Workers : /\ task[w] \in Jobs => jobSession[task[w]] # s
                        /\ duty[w] \in Requests => req[duty[w]].session # s
  /\ old' = [old EXCEPT ![s] = TRUE]
  /\ UNCHANGED <<vars, held, req, policy, purged, purgerVars>>

(* A retention policy is never edited while a purge is leased. A longer    *)
(* period makes sessions young again, the ones that are not older than it; *)
(* what a shorter one makes old is what Age takes next.                    *)
UpsertRetentionPolicy ==
  /\ policy < MaxPolicies
  /\ \A r \in Requests : req[r].kind = "session_raw" => req[r].state # "leased"
  /\ policy' = policy + 1
  /\ \E young \in SUBSET Sessions : old' = [s \in Sessions |-> old[s] /\ s \notin young]
  /\ UNCHANGED <<vars, held, req, purged, purgerVars>>

-----------------------------------------------------------------------------
(* Legal holds *)

(* No purge of the session is under way.                                   *)
NoneLeased(s) == \A r \in Requests : req[r].session = s => req[r].state # "leased"

(* Mutant of PlaceLegalHold: leased purges do not stand in the way.        *)
PlaceUnchecked(s) ==
  /\ state[s] \notin {"absent", "DELETED"}
  /\ ~held[s]
  /\ held' = [held EXCEPT ![s] = TRUE]
  /\ UNCHANGED <<vars, req, policy, old, purged, purgerVars>>

PlaceLegalHold(s) ==
  /\ state[s] \notin {"absent", "DELETED"}
  /\ NoneLeased(s)
  /\ ~held[s]
  /\ held' = [held EXCEPT ![s] = TRUE]
  /\ UNCHANGED <<vars, req, policy, old, purged, purgerVars>>

(* Mutant of ReleaseLegalHold: a request state the tables do not have.     *)
ReleaseAsUnblocked(s) ==
  /\ held[s]
  /\ held' = [held EXCEPT ![s] = FALSE]
  /\ req' = [r \in Requests |->
               IF req[r].session = s /\ req[r].state = "blocked"
               THEN [req[r] EXCEPT !.state = "unblocked"]
               ELSE req[r]]
  /\ UNCHANGED <<vars, policy, old, purged, purgerVars>>

(* Releasing a hold requeues everything it blocked, available at once.     *)
ReleaseLegalHold(s) ==
  /\ held[s]
  /\ held' = [held EXCEPT ![s] = FALSE]
  /\ req' = [r \in Requests |->
               IF req[r].session = s /\ req[r].state = "blocked"
               THEN [req[r] EXCEPT !.state = "queued", !.ripe = TRUE]
               ELSE req[r]]
  /\ UNCHANGED <<vars, policy, old, purged, purgerVars>>

-----------------------------------------------------------------------------
(* Requests *)

NewRequest(kind, s, keys, version) ==
  [NoRequest EXCEPT !.kind = kind, !.session = s, !.state = "queued",
                    !.keys = keys, !.policy = version, !.ripe = TRUE]

(* The unique indexes: one pending request of a kind for a session.        *)
NonePending(kind, s) ==
  \A r \in Requests :
    req[r].kind = kind /\ req[r].session = s => req[r].state \notin Pending

(* Registered raw keys; derived keys only when a valid result names them.  *)
sessionObjectKeys(s) ==
  RegisteredObjects(s) \cup
    IF \E j \in Jobs : jobSession[j] = s /\ result[j] = "valid"
    THEN {s} \X DerivedNames
    ELSE {}

RequestSessionDeletion(s, r) ==
  /\ req[r].state = "absent"
  /\ state[s] \in Deletable
  /\ ~held[s]
  /\ NonePending("deletion", s)
  /\ req' = [req EXCEPT ![r] = NewRequest("deletion", s, sessionObjectKeys(s), 0)]
  /\ UNCHANGED <<vars, held, policy, old, purged, purgerVars>>

RetryDeadLetterDeletionRequest(r) ==
  /\ req[r].kind = "deletion" /\ req[r].state = "dead_letter"
  /\ state[req[r].session] \in Deletable
  /\ ~held[req[r].session]
  /\ NonePending("deletion", req[r].session)
  /\ req[r].requeues < MaxRequeues
  /\ req' = [req EXCEPT ![r].state = "queued", ![r].attempt = 0, ![r].ripe = TRUE,
                        ![r].requeues = @ + 1]
  /\ UNCHANGED <<vars, held, policy, old, purged, purgerVars>>

(* The retention retry looks at nothing but the request: the next claim    *)
(* decides about policy, eligibility and holds again.                      *)
RetryDeadLetterRetentionPurge(r) ==
  /\ req[r].kind = "session_raw" /\ req[r].state = "dead_letter"
  /\ NonePending("session_raw", req[r].session)
  /\ req[r].requeues < MaxRequeues
  /\ req' = [req EXCEPT ![r].state = "queued", ![r].attempt = 0, ![r].ripe = TRUE,
                        ![r].requeues = @ + 1]
  /\ UNCHANGED <<vars, held, policy, old, purged, purgerVars>>

RequestBackoffElapses(r) ==
  /\ req[r].state = "queued" /\ ~req[r].ripe
  /\ req' = [req EXCEPT ![r].ripe = TRUE]
  /\ UNCHANGED <<vars, held, policy, old, purged, purgerVars>>

RequestLeaseExpires(r) ==
  /\ req[r].state = "leased" /\ ~req[r].ripe
  /\ req' = [req EXCEPT ![r].ripe = TRUE]
  /\ UNCHANGED <<vars, held, policy, old, purged, purgerVars>>

-----------------------------------------------------------------------------
(* The purging worker: processDeletion and processRetention *)

(* Mutant of Claimable: a lease that ran out is not taken over.            *)
QueuedOnly(r) == req[r].state = "queued" /\ req[r].ripe

Claimable(r) == req[r].state \in {"queued", "leased"} /\ req[r].ripe

(* ProcessNext looks for a validation job first, for a deletion request    *)
(* when it finds none, for a retention purge when it finds neither, and    *)
(* then starts over. Each look is a transaction of its own: work that      *)
(* turns up behind the worker waits until it comes round again.            *)
Looking(w, at) == phase[w] = "idle" /\ duty[w] = NoOne /\ queue[w] = at
GoesOnTo(w, next) == queue' = [queue EXCEPT ![w] = next]

FindsNothing(w) ==
  /\ \/ /\ Looking(w, "validation")
        /\ \A j \in Jobs : ~(Active(j) /\ ripe[j])
        /\ GoesOnTo(w, "deletion")
     \/ /\ Looking(w, "deletion")
        /\ \A r \in Requests : ~(Claimable(r) /\ req[r].kind = "deletion")
        /\ GoesOnTo(w, "retention")
     \/ /\ Looking(w, "retention")
        /\ \A r \in Requests : ~(Claimable(r) /\ req[r].kind = "session_raw")
        /\ GoesOnTo(w, "validation")
  /\ UNCHANGED <<vars, held, req, policy, old, purged, duty, todo>>

(* The lease that every claim writes.                                      *)
Lease(w, r) ==
  req' = [req EXCEPT ![r].state = "leased", ![r].attempt = NextAttempt(@),
                     ![r].leasedBy = w, ![r].ripe = FALSE]

(* A claim that ends the request without purging.                          *)
Finish(r, to) ==
  req' = [req EXCEPT ![r].state = to, ![r].leasedBy = NoOne, ![r].ripe = FALSE]

(* The worker goes on to purge the snapshotted keys.                       *)
StartPurging(w, r) ==
  /\ duty' = [duty EXCEPT ![w] = r]
  /\ todo' = [todo EXCEPT ![w] = req[r].keys]

(* The worker finds a request it may carry out and leases it.              *)
LeaseDeletion(w, r) ==
  /\ Looking(w, "deletion")
  /\ req[r].kind = "deletion" /\ Claimable(r)
  /\ state[req[r].session] \in Deletable /\ ~held[req[r].session]
  /\ GoesOnTo(w, "validation")
  /\ Lease(w, r) /\ StartPurging(w, r)
  /\ UNCHANGED <<vars, policy, old, purged>>

(* It finds one that it may not carry out (any more).                      *)
SetDeletionAside(w, r) ==
  LET s == req[r].session IN
  /\ Looking(w, "deletion")
  /\ req[r].kind = "deletion" /\ Claimable(r)
  /\ state[s] \notin Deletable \/ held[s]
  /\ GoesOnTo(w, "validation")
  /\ Finish(r, IF state[s] \in Deletable THEN "blocked" ELSE "dead_letter")
  /\ UNCHANGED <<vars, policy, old, purged, duty, todo>>

ClaimDeletionRequest(w, r) ==
  /\ LeaseDeletion(w, r) \/ SetDeletionAside(w, r)
  /\ UNCHANGED held

(* Two transactions, the second right behind the first. The claim runs     *)
(* read committed, and locks the session's row without writing it. The     *)
(* hold is a serializable transaction that waits for this lock with its    *)
(* snapshot already taken: it goes on with the snapshot and does not see   *)
(* the lease. (Of a hold and a ClaimRetentionPurge that overlap, both      *)
(* serializable, only one commits: they are as good as one after the       *)
(* other.)                                                                 *)
PlaceLegalHoldBehindClaim(w, r) ==
  /\ LeaseDeletion(w, r)
  /\ NoneLeased(req[r].session)
  /\ held' = [held EXCEPT ![req[r].session] = TRUE]

(* The sweep of processRetention for one expired session.                  *)
Unpurged(s) == artifacts[s] \ purged[s]
Expired(s) == state[s] \in RawExpirable /\ old[s] /\ Unpurged(s) # {}

QueueExpiredRetention(w, s, r) ==
  /\ Looking(w, "retention")
  /\ req[r].state = "absent"
  /\ policy > 0
  /\ Expired(s)
  /\ ~held[s]
  /\ \A q \in Requests : req[q].kind = "session_raw" /\ req[q].session = s
                         => req[q].state \notin Pending \cup {"completed"}
  /\ req' = [req EXCEPT ![r] = NewRequest("session_raw", s, {s} \X Unpurged(s), policy)]
  /\ UNCHANGED <<vars, held, policy, old, purged, purgerVars>>

(* A claim that cancels or blocks the request still returns the row as it  *)
(* was read; processRetention sees State "leased" in a request whose lease *)
(* ran out and purges it.                                                  *)
ClaimRetentionPurge(w, r) ==
  LET s == req[r].session
      current == req[r].policy = policy /\ Expired(s)
  IN
  /\ Looking(w, "retention")
  /\ req[r].kind = "session_raw" /\ Claimable(r)
  /\ GoesOnTo(w, "validation")
  /\ \/ /\ ~current \/ held[s]
        /\ Finish(r, IF current THEN "blocked" ELSE "cancelled")
        /\ IF req[r].state = "leased" THEN StartPurging(w, r)
                                      ELSE UNCHANGED <<duty, todo>>
     \/ /\ current /\ ~held[s]
        /\ Lease(w, r) /\ StartPurging(w, r)
  /\ UNCHANGED <<vars, held, policy, old, purged>>

(* Purge removes the object or finds it gone already.                      *)
PurgeObject(w) ==
  \E key \in todo[w] :
    /\ blobs' = blobs \ {key}
    /\ todo' = [todo EXCEPT ![w] = @ \ {key}]
    /\ UNCHANGED <<sessionVars, jobVars, result, upload, workerVars, faults,
                   held, req, policy, old, purged, duty, queue>>

DutyDone(w) ==
  /\ duty' = [duty EXCEPT ![w] = NoOne]
  /\ todo' = [todo EXCEPT ![w] = {}]
  /\ UNCHANGED queue

(* Mutant of HoldsRequest: any worker may settle a leased request.         *)
RequestIsLeased(w, r) == req[r].state = "leased"

HoldsRequest(w, r) == req[r].state = "leased" /\ req[r].leasedBy = w

(* RequeueDeletionRequest and RequeueRetentionPurge: refused without the   *)
(* lease.                                                                  *)
RequeueRequest(w, r) ==
  /\ IF HoldsRequest(w, r)
     THEN Finish(r, IF req[r].attempt >= MaxAttempts THEN "dead_letter" ELSE "queued")
     ELSE UNCHANGED req
  /\ DutyDone(w)

(* A purge fails; the object may be gone nevertheless.                     *)
PurgeFails(w) ==
  /\ faults < MaxFaults
  /\ faults' = faults + 1
  /\ \E key \in todo[w] : blobs' \in {blobs, blobs \ {key}}
  /\ RequeueRequest(w, duty[w])
  /\ UNCHANGED <<sessionVars, jobVars, result, upload, workerVars,
                 held, policy, old, purged>>

PurgerCrashes(w) ==
  /\ duty[w] # NoOne
  /\ faults < MaxFaults
  /\ faults' = faults + 1
  /\ DutyDone(w)
  /\ UNCHANGED <<sessionVars, jobVars, result, blobs, upload, workerVars,
                 held, req, policy, old, purged>>

(* Mutant of MayComplete: keys may be left to purge.                       *)
MayCompleteEarly(w) ==
  /\ duty[w] # NoOne
  /\ HoldsRequest(w, duty[w])
  /\ ~held[req[duty[w]].session]

(* Every key is gone and the worker still owns the request.                *)
MayComplete(w) ==
  /\ duty[w] # NoOne /\ todo[w] = {}
  /\ HoldsRequest(w, duty[w])
  /\ ~held[req[duty[w]].session]

(* Mutant of CompleteDeletionRequest: processing_jobs is left alone.       *)
CompleteKeepingJobs(w) ==
  LET r == duty[w]
      s == req[r].session
  IN
  /\ MayComplete(w) /\ req[r].kind = "deletion"
  /\ state' = [state EXCEPT ![s] = "DELETED"]
  /\ consent' = [consent EXCEPT ![s] = FALSE]
  /\ artifacts' = [artifacts EXCEPT ![s] = {}]
  /\ purged' = [purged EXCEPT ![s] = {}]
  /\ Finish(r, "completed")
  /\ DutyDone(w)
  /\ RowsTouched
  /\ UNCHANGED <<jobVars, result, blobs, upload, workerVars, faults, held, policy>>

(* One transaction marks the session DELETED and deletes its rows. A row   *)
(* of processing_jobs that is gone keeps its jobSession here: identifiers  *)
(* are not reused.                                                         *)
CompleteDeletionRequest(w) ==
  LET r == duty[w]
      s == req[r].session
      gone == {j \in Jobs : jobSession[j] = s}
  IN
  /\ MayComplete(w) /\ req[r].kind = "deletion"
  /\ state' = [state EXCEPT ![s] = "DELETED"]
  /\ consent' = [consent EXCEPT ![s] = FALSE]
  /\ artifacts' = [artifacts EXCEPT ![s] = {}]
  /\ purged' = [purged EXCEPT ![s] = {}]
  /\ jobState' = [j \in Jobs |-> IF j \in gone THEN "absent" ELSE jobState[j]]
  /\ leasedBy' = [j \in Jobs |-> IF j \in gone THEN NoOne ELSE leasedBy[j]]
  /\ ripe' = [j \in Jobs |-> IF j \in gone THEN FALSE ELSE ripe[j]]
  /\ result' = [j \in Jobs |-> IF j \in gone THEN "none" ELSE result[j]]
  /\ Finish(r, "completed")
  /\ DutyDone(w)
  /\ RowsTouched
  /\ UNCHANGED <<jobSession, attempt, requeues, blobs, upload, workerVars, faults,
                 held, policy>>

(* The session stays; all its artifact rows get a purged_at.               *)
CompleteRetentionPurge(w) ==
  LET r == duty[w]
      s == req[r].session
  IN
  /\ MayComplete(w) /\ req[r].kind = "session_raw"
  /\ purged' = [purged EXCEPT ![s] = artifacts[s]]
  /\ Finish(r, "completed")
  /\ DutyDone(w)
  /\ UNCHANGED <<vars, held, policy, old>>

(* A completion that is refused goes through the requeue.                  *)
RequestCompletionRefused(w) ==
  /\ duty[w] # NoOne /\ todo[w] = {}
  /\ ~MayComplete(w)
  /\ RequeueRequest(w, duty[w])
  /\ UNCHANGED <<vars, held, policy, old, purged>>

(* Validate finds that a registered object was purged: it fails and the    *)
(* job is requeued or dead-lettered.                                       *)
ValidateFindsNoObject(w) ==
  /\ phase[w] = "validate"
  /\ ~(RegisteredObjects(jobSession[task[w]]) \subseteq blobs)
  /\ RequeueValidationJob(w, task[w])
  /\ RowsTouched
  /\ UNCHANGED <<blobs, faults, held, req, policy, purged, purgerVars>>

-----------------------------------------------------------------------------
(* The pipeline's own steps, for a worker that is not purging.             *)
PipelineStep ==
  /\ \/ \E s \in Sessions : SessionStep(s)
     \/ \E j \in Jobs : JobStep(j)
     \/ \E w \in Workers : /\ duty[w] = NoOne
                           /\ queue[w] = "validation"
                           /\ WorkerStep(w) \/ WorkerFault(w)
  /\ RowsTouched
  /\ UNCHANGED <<held, req, policy, purged, purgerVars>>

AdminStep ==
  \/ UpsertRetentionPolicy
  \/ \E s \in Sessions : \/ PlaceLegalHold(s)
                         \/ ReleaseLegalHold(s)
                         \/ \E r \in Requests : RequestSessionDeletion(s, r)
  \/ \E r \in Requests : \/ RetryDeadLetterDeletionRequest(r)
                         \/ RetryDeadLetterRetentionPurge(r)

TimeStep ==
  \/ \E s \in Sessions : Age(s)
  \/ \E r \in Requests : RequestBackoffElapses(r) \/ RequestLeaseExpires(r)

PurgerStep(w) ==
  \/ FindsNothing(w)
  \/ \E r \in Requests : ClaimDeletionRequest(w, r) \/ ClaimRetentionPurge(w, r)
  \/ \E s \in Sessions, r \in Requests : QueueExpiredRetention(w, s, r)
  \/ PurgeObject(w)
  \/ CompleteDeletionRequest(w)
  \/ CompleteRetentionPurge(w)
  \/ RequestCompletionRefused(w)
  \/ ValidateFindsNoObject(w)

GovNext ==
  \/ PipelineStep
  \/ AdminStep
  \/ TimeStep
  \/ \E w \in Workers : \/ PurgerStep(w)
                        \/ PurgeFails(w)
                        \/ PurgerCrashes(w)
                        \/ \E r \in Requests : PlaceLegalHoldBehindClaim(w, r)

GovSpec == GovInit /\ [][GovNext]_allVars

(* The pipeline's fairness, for workers that also purge.                   *)
GovFairness ==
  /\ \A w \in Workers :
       WF_allVars(\/ /\ duty[w] = NoOne /\ queue[w] = "validation"
                     /\ WorkerStep(w) /\ RowsTouched
                     /\ UNCHANGED <<held, req, policy, purged, purgerVars>>
                  \/ PurgerStep(w))
  /\ \A j \in Jobs :
       WF_allVars((BackoffElapses(j) \/ LeaseExpires(j)) /\ UNCHANGED govVars)
  /\ \A r \in Requests : WF_allVars(RequestBackoffElapses(r) \/ RequestLeaseExpires(r))

GovFairSpec == GovSpec /\ GovFairness

-----------------------------------------------------------------------------
(* Properties *)

(* A hold and a leased retention purge exclude each other: of a hold and a *)
(* claim that overlap only one commits, and a request of a held session is *)
(* blocked instead of leased. (PlaceLegalHold against ClaimRetentionPurge) *)
NoHoldUnderRetentionLease ==
  \A r \in Requests : req[r].kind = "session_raw" /\ req[r].state = "leased"
                      => ~held[req[r].session]

(* The same for every leased purge, erasure included. (PlaceLegalHold      *)
(* against ClaimDeletionRequest)                                           *)
NoHoldUnderLease ==
  \A r \in Requests : req[r].state = "leased" => ~held[req[r].session]

(* Nothing comes back to an erased session: no late upload registers an    *)
(* artifact, no overtaken validation worker records a result or moves the  *)
(* session, no retry revives a job. (CompleteDeletionRequest against every *)
(* writer of the pipeline)                                                 *)
DeletedStaysErased ==
  /\ \A s \in Sessions : state[s] = "DELETED" =>
       /\ ~consent[s] /\ ~held[s]
       /\ artifacts[s] = {}
       /\ \A j \in Jobs : jobSession[j] = s => jobState[j] = "absent" /\ result[j] = "none"
  /\ \A r \in Requests : req[r].kind = "deletion" /\ req[r].state = "completed"
                         => state[req[r].session] = "DELETED"

(* An artifact that is marked purged is gone from the store and stays      *)
(* gone: no upload call still under way, no retry of the validation job    *)
(* brings the object back. (CompleteRetentionPurge after the purges of     *)
(* processRetention)                                                       *)
TombstoneMeansGone ==
  \A s \in Sessions, n \in RawNames : n \in purged[s] => <<s, n>> \notin blobs

(* A purging worker that lost its lease settles nothing: when it ends its  *)
(* work on the request, no row changes.                                    *)
StalePurgerIsInert ==
  [][\A w \in Workers :
       /\ duty[w] # NoOne /\ req[duty[w]].leasedBy # w
       /\ duty'[w] # duty[w]
       => UNCHANGED <<sessionVars, jobVars, result, req, purged>>]_allVars

(* From some time on no request lease runs out under its worker.           *)
RequestLeasesSuffice ==
  <>[][\A r \in Requests, w \in Workers :
         HoldsRequest(w, r) /\ duty[w] = r => ~RequestLeaseExpires(r)]_allVars

(* An erasure request that is queued is carried out, blocked by a hold or  *)
(* given up into the dead-letter queue; validation jobs and retention      *)
(* purges do not starve it.                                                *)
DeletionSettles ==
  LeasesSuffice /\ RequestLeasesSuffice =>
    \A r \in Requests :
      req[r].kind = "deletion" /\ req[r].state = "queued"
      ~> req[r].state \in {"completed", "blocked", "dead_letter"}

(* A retention purge takes no object of a session under legal hold.        *)
HoldStopsRetention ==
  [][\A w \in Workers, key \in blobs \ blobs' :
       key \in todo[w] /\ req[duty[w]].kind = "session_raw" => ~held[key[1]]]_allVars

(* An object is purged only for a request that is leased and names it.     *)
OnlyLeasedPurges ==
  [][\A key \in blobs \ blobs' :
       \E r \in Requests : req[r].state = "leased" /\ key \in req[r].keys]_allVars

(* A new erasure request names every object the session has in the store. *)
SnapshotIsComplete ==
  [][\A r \in Requests :
       req[r].state = "absent" /\ req'[r].state = "queued" /\ req'[r].kind = "deletion"
       => \A key \in blobs : key[1] = req'[r].session => key \in req'[r].keys]_allVars
=============================================================================
