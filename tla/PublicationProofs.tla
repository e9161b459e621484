------------------------- MODULE PublicationProofs -------------------------
(***************************************************************************)
(* Proofs about Release: its types, that a session is decided once, and    *)
(* that what is published is what was reviewed, for every number of        *)
(* sessions, reviewers, workers, plans, requests, calls, names, attempts   *)
(* and faults.                                                             *)
(*                                                                         *)
(* A review, the state of its session, its successor and its plans belong  *)
(* together (DecisionInv). An export picks its plans one call after        *)
(* another and commits long after (Picks): what it picked stays picked,    *)
(* for a plan keeps its session and version, and a completed job stays     *)
(* completed until its session is erased, which the commit finds out.      *)
(***************************************************************************)
EXTENDS ReleaseProofs, FiniteSetTheorems

(* The columns and local variables that ReviewInv leaves out.              *)
RestTyped ==
  /\ claim \in [Sessions -> [by : Reviewers \cup {NoOne}, live : BOOLEAN]]
  /\ reviews \subseteq Reviews
  /\ reworkOf \in [Sessions -> Sessions \cup {NoOne}]
  /\ plan \in [Plans -> [session : Sessions \cup {NoOne}, version : Nat]]
  /\ held \in [Sessions -> BOOLEAN]
  /\ blobs \subseteq Objects /\ strays \subseteq blobs
  /\ todo \in [Workers -> SUBSET Objects]
  /\ reading \in [Workers -> Segments \cup {NoOne}]
  /\ faults \in Nat

Versions(s) == {0} \cup {plan[q].version : q \in {p \in Plans : plan[p].session = s}}

(* The versions of a session's plans have a greatest element. Nothing is   *)
(* assumed of the number of plans: a plan that is inserted comes out on    *)
(* top.                                                                    *)
VersionsTopped ==
  \A s \in Sessions : \E m \in Versions(s) : \A k \in Versions(s) : m >= k

VersionsDiffer ==
  \A p, q \in Plans :
    /\ plan[p].session = plan[q].session /\ plan[p].session \in Sessions
    /\ plan[p].version = plan[q].version
    => p = q

LEMMA NextVersionFacts ==
  ASSUME RestTyped, VersionsTopped, NEW s \in Sessions
  PROVE  /\ NextVersion(s) \in Nat
         /\ \A k \in Versions(s) : k < NextVersion(s)
<1>1. Versions(s) \subseteq Nat
  BY DEF Versions, RestTyped
<1>2. \E m \in Versions(s) : \A k \in Versions(s) : m >= k
  BY DEF VersionsTopped
<1>3. Max(Versions(s)) \in Versions(s) /\ \A k \in Versions(s) : Max(Versions(s)) >= k
  BY <1>2 DEF Max
<1>4. NextVersion(s) = 1 + Max(Versions(s))
  BY DEF NextVersion, Versions
<1> QED
  BY <1>1, <1>3, <1>4

LEMMA InsertPlanVersions ==
  ASSUME RestTyped, VersionsTopped, VersionsDiffer,
         NEW s \in Sessions, NEW p \in Plans, InsertPlan(s, p)
  PROVE  /\ plan' \in [Plans -> [session : Sessions \cup {NoOne}, version : Nat]]
         /\ VersionsTopped' /\ VersionsDiffer'
<1> DEFINE v == NextVersion(s)
<1>1. v \in Nat /\ \A k \in Versions(s) : k < v
  BY NextVersionFacts
<1>2. plan' = [plan EXCEPT ![p] = [session |-> s, version |-> v]] /\ plan[p].session = NoOne
  BY DEF InsertPlan
<1> HIDE DEF v
<1>3. plan' \in [Plans -> [session : Sessions \cup {NoOne}, version : Nat]]
  BY <1>1, <1>2 DEF RestTyped
<1>4. /\ plan'[p].session = s /\ plan'[p].version = v
      /\ \A q \in Plans \ {p} : plan'[q] = plan[q]
  BY <1>2 DEF RestTyped
<1>5. NoOne \notin Sessions
  BY NoOneAssumption
<1>6. \A t \in Sessions \ {s} : Versions(t)' = Versions(t)
  BY <1>2, <1>4, <1>5 DEF Versions
<1>7. Versions(s)' = Versions(s) \cup {v}
  BY <1>2, <1>4, <1>5 DEF Versions
<1>8. Versions(s) \subseteq Nat
  BY DEF Versions, RestTyped
<1>9. VersionsTopped'
  <2>1. \A k \in Versions(s)' : v >= k
    BY <1>1, <1>7, <1>8
  <2>2. \E m \in Versions(s)' : \A k \in Versions(s)' : m >= k
    BY <1>7, <2>1
  <2> QED
    BY <1>6, <2>2 DEF VersionsTopped
<1>10. VersionsDiffer'
  <2>1. \A q \in Plans : plan[q].session = s => plan[q].version # v
    BY <1>1, <1>8 DEF Versions
  <2> QED
    BY <1>4, <2>1 DEF VersionsDiffer
<1> QED
  BY <1>3, <1>9, <1>10

-----------------------------------------------------------------------------
(* Types *)

TypeInv == RestTyped /\ VersionsTopped /\ VersionsDiffer

(* Steps that insert no plan.                                              *)
LEMMA PlansUntouched ==
  ASSUME TypeInv, UNCHANGED plan
  PROVE  VersionsTopped' /\ VersionsDiffer'
  BY DEF TypeInv, VersionsTopped, VersionsDiffer, Versions

LEMMA ReviewerTypes ==
  ASSUME IInv, TypeInv, ReviewerStep
  PROVE  TypeInv'
<1> USE DEF sessionVars, redactionVars, erasureVars, storeVars, workerVars, TypeInv
<1>1. PICK s \in Sessions :
        \/ ClaimExpires(s)
        \/ \E v \in Reviewers :
             \/ ClaimReview(s, v)
             \/ ReleaseReview(s, v)
             \/ \E decision \in Decisions, passed \in BOOLEAN,
                  p \in Plans \cup {NoOne}, n \in Sessions \cup {NoOne} :
                  SubmitReview(s, v, decision, passed, p, n)
        \/ \E p \in Plans : CreateRedactionPlan(s, p)
  BY DEF ReviewerStep
<1>2. CASE ClaimExpires(s)
  BY <1>2, PlansUntouched DEF ClaimExpires, RestTyped
<1>3. ASSUME NEW v \in Reviewers, ClaimReview(s, v) \/ ReleaseReview(s, v) PROVE TypeInv'
  <2>1. claim' \in [Sessions -> [by : Reviewers \cup {NoOne}, live : BOOLEAN]]
    <3>1. {[by |-> v, live |-> TRUE], NoClaim}
            \subseteq [by : Reviewers \cup {NoOne}, live : BOOLEAN]
      BY DEF NoClaim
    <3>2. \E c \in {[by |-> v, live |-> TRUE], NoClaim} : claim' = [claim EXCEPT ![s] = c]
      BY <1>3 DEF ClaimReview, ReleaseReview
    <3> QED
      BY <3>1, <3>2 DEF RestTyped
  <2> QED
    BY <1>3, <2>1, PlansUntouched DEF ClaimReview, ReleaseReview, RestTyped
<1>4. ASSUME NEW v \in Reviewers, NEW decision \in Decisions, NEW passed \in BOOLEAN,
             NEW p \in Plans \cup {NoOne}, NEW n \in Sessions \cup {NoOne},
             SubmitReview(s, v, decision, passed, p, n)
      PROVE  TypeInv'
  <2>1. /\ claim' \in [Sessions -> [by : Reviewers \cup {NoOne}, live : BOOLEAN]]
        /\ reviews' \subseteq Reviews
    BY <1>4 DEF SubmitReview, NoClaim, Reviews, RestTyped
  <2>2. reworkOf' \in [Sessions -> Sessions \cup {NoOne}]
    BY <1>4 DEF SubmitReview, Decide, RestTyped
  <2>3. CASE UNCHANGED redactionVars
    BY <1>4, <2>1, <2>2, <2>3, PlansUntouched DEF SubmitReview, RestTyped
  <2>4. CASE p \in Plans /\ InsertPlan(s, p)
    BY <1>4, <2>1, <2>2, <2>4, InsertPlanVersions DEF SubmitReview, RestTyped
  <2> QED
    BY <1>4, <2>3, <2>4 DEF SubmitReview, ApprovePlan
<1>5. ASSUME NEW p \in Plans, CreateRedactionPlan(s, p) PROVE TypeInv'
  BY <1>5, InsertPlanVersions DEF CreateRedactionPlan, RestTyped
<1> QED
  BY <1>1, <1>2, <1>3, <1>4, <1>5

LEMMA OutputTypes ==
  ASSUME Typed, RestTyped, NEW w \in Workers, MayWrite(w)
  PROVE  NextOutput(w) \in Objects
<1>1. NextOutput(w) \in Outputs(duty[w]) /\ duty[w] \in Plans
  BY DEF MayWrite, NextOutput, Outputs, RestTyped
<1> QED
  BY <1>1 DEF Objects

LEMMA WorkerTypes ==
  ASSUME IInv, TypeInv, NEW w \in Workers,
         WorkerStep(w) \/ RedactionFails(w) \/ PurgeFails(w) \/ WorkerCrashes(w)
  PROVE  TypeInv'
<1> USE DEF sessionVars, redactionVars, erasureVars, storeVars, workerVars, TypeInv
<1>0. Typed
  BY DEF IInv, ReviewInv
<1>1. IsFree(w) => /\ todo' \in [Workers -> SUBSET Objects]
                   /\ reading' \in [Workers -> Segments \cup {NoOne}]
  BY DEF IsFree, RestTyped
<1>2. ASSUME NEW p \in Plans, ClaimRedactionJob(w, p) PROVE TypeInv'
  <2>1. Outputs(p) \subseteq Objects
    BY DEF Objects
  <2> QED
    BY <1>2, <2>1, PlansUntouched DEF ClaimRedactionJob, TakesOn, RestTyped
<1>3. CASE ReadSource(w)
  BY <1>3, PlansUntouched DEF ReadSource, SegmentsLeft, RestTyped
<1>4. CASE WriteOutput(w)
  BY <1>0, <1>4, PlansUntouched, OutputTypes DEF WriteOutput, Written, RestTyped
<1>5. CASE CompleteRedactionJob(w)
  BY <1>1, <1>5, PlansUntouched DEF CompleteRedactionJob, RequeueRedactionJob, RestTyped
<1>6. ASSUME NEW r \in Requests, ClaimDeletionRequest(w, r) PROVE TypeInv'
  <2>1. req[r].keys \subseteq Objects
    BY <1>0 DEF Typed, Erasures
  <2> QED
    BY <1>6, <2>1, PlansUntouched DEF ClaimDeletionRequest, TakesOn, RestTyped
<1>7. CASE PurgeObject(w)
  BY <1>7, PlansUntouched DEF PurgeObject, RestTyped
<1>8. CASE CompleteDeletionRequest(w)
  BY <1>1, <1>8, PlansUntouched DEF CompleteDeletionRequest, NoClaim, RestTyped
<1>9. CASE EraserIsRefused(w)
  BY <1>1, <1>9, PlansUntouched DEF EraserIsRefused, RequeueDeletionRequest, RestTyped
<1>10. CASE RedactionFails(w)
  <2>1. blobs' \subseteq Objects /\ strays' \subseteq blobs' /\ faults' \in Nat
    BY <1>0, <1>10, OutputTypes DEF RedactionFails, Fault, Written, RestTyped
  <2> QED
    BY <1>1, <1>10, <2>1, PlansUntouched DEF RedactionFails, RequeueRedactionJob, RestTyped
<1>11. CASE PurgeFails(w)
  <2>1. blobs' \subseteq Objects /\ strays' \subseteq blobs' /\ faults' \in Nat
    BY <1>11 DEF PurgeFails, Fault, RestTyped
  <2> QED
    BY <1>1, <1>11, <2>1, PlansUntouched DEF PurgeFails, RequeueDeletionRequest, RestTyped
<1>12. CASE WorkerCrashes(w)
  BY <1>1, <1>12, PlansUntouched DEF WorkerCrashes, Fault, RestTyped
<1> QED
  BY <1>2, <1>3, <1>4, <1>5, <1>6, <1>7, <1>8, <1>9, <1>10, <1>11, <1>12 DEF WorkerStep

LEMMA ReviewTypes ==
  ASSUME IInv, TypeInv, ReviewNext
  PROVE  TypeInv'
<1> USE DEF sessionVars, redactionVars, erasureVars, storeVars, workerVars, TypeInv
<1>1. CASE AdministratorStep
  <2>1. UNCHANGED <<sessionVars, plan, storeVars, workerVars, faults>>
    BY <1>1 DEF AdministratorStep, RetryDeadLetterRedactionJob, PlaceLegalHold,
       ReleaseLegalHold, RequestSessionDeletion, RetryDeadLetterDeletionRequest
  <2>2. held' \in [Sessions -> BOOLEAN]
    BY <1>1 DEF AdministratorStep, RetryDeadLetterRedactionJob, PlaceLegalHold,
       ReleaseLegalHold, RequestSessionDeletion, RetryDeadLetterDeletionRequest, RestTyped
  <2> QED
    BY <2>1, <2>2, PlansUntouched DEF RestTyped
<1>2. CASE ClockStep
  BY <1>2, PlansUntouched DEF ClockStep, JobRipens, RequestRipens, RestTyped
<1> QED
  BY <1>1, <1>2, ReviewerTypes, WorkerTypes DEF ReviewNext

(* What a call has still to do belongs to its release.                     *)
CallsTyped ==
  /\ \A c \in Calls :
       /\ call[c].phase \in Exporting \cup {"idle", "done"}
       /\ call[c].phase = "loading" => call[c].todo \subseteq call[c].id.sessions
       /\ call[c].phase = "writing" => call[c].todo \subseteq Items(call[c].id)
       /\ call[c].phase \notin {"loading", "writing"} => call[c].todo = {}
  /\ \A f \in files : f[1] \in ReleaseIDs /\ f[2] \in Items(f[1])

LEMMA CallStaysTyped ==
  ASSUME IInv, CallsTyped, NEW c \in Calls, NEW phase, NEW id, NEW todo1,
         Goes(c, phase, id, todo1),
         phase \in Exporting \cup {"idle", "done"},
         phase = "loading" => todo1 \subseteq id.sessions,
         phase = "writing" => todo1 \subseteq Items(id),
         phase \notin {"loading", "writing"} => todo1 = {},
         \A f \in files' \ files : f[1] \in ReleaseIDs /\ f[2] \in Items(f[1])
  PROVE  CallsTyped'
<1>1. /\ \A d \in Calls \ {c} : call'[d] = call[d]
      /\ call'[c].phase = phase /\ call'[c].id = id /\ call'[c].todo = todo1
  BY GoesFacts DEF IInv, Exports
<1>2. ASSUME NEW f \in files' PROVE f[1] \in ReleaseIDs /\ f[2] \in Items(f[1])
  BY DEF CallsTyped
<1> QED
  BY <1>1, <1>2 DEF CallsTyped, Items

LEMMA CallTypes ==
  ASSUME IInv, CallsTyped, NEW c \in Calls, ReleaseStep(c)
  PROVE  CallsTyped'
<1> DEFINE id == call[c].id
<1>0. call[c].phase \in Exporting => id \in ReleaseIDs
  BY DEF IInv, Exports
<1>1. ASSUME Ends(c), files' = files PROVE CallsTyped'
  BY <1>1, CallStaysTyped DEF Ends
<1>2. ASSUME NEW name, NEW profile, NEW wanted, StartRelease(c, name, profile, wanted)
      PROVE  CallsTyped'
  <2>1. CASE Ends(c)
    BY <1>1, <1>2, <2>1 DEF StartRelease
  <2>2. CASE Goes(c, "listing", [name |-> name, profile |-> profile, sessions |-> wanted,
                                 plans |-> {}], {})
    BY <1>2, <2>2, CallStaysTyped DEF StartRelease, Exporting
  <2> QED
    BY <1>2, <2>1, <2>2 DEF StartRelease
<1>3. CASE ListReleaseCandidates(c)
  <2> DEFINE listed == IF id.sessions = {} THEN Candidates ELSE id.sessions
             named == [id EXCEPT !.sessions = listed]
  <2>1. named.sessions = listed /\ Items(named) = listed \cup {"manifest", "bundle"}
    BY <1>0, <1>3 DEF ListReleaseCandidates, ReleaseIDs, Exporting, Items
  <2>2. \/ Ends(c)
        \/ Goes(c, "loading", named, listed)
        \/ Goes(c, "writing", named, listed \cup {"manifest", "bundle"})
    BY <1>3 DEF ListReleaseCandidates
  <2>3. files' = files
    BY <1>3 DEF ListReleaseCandidates
  <2> HIDE DEF named, listed
  <2>4. CASE Goes(c, "loading", named, listed)
    BY <2>1, <2>3, <2>4, CallStaysTyped DEF Exporting
  <2>5. CASE Goes(c, "writing", named, listed \cup {"manifest", "bundle"})
    BY <2>1, <2>3, <2>5, CallStaysTyped DEF Exporting
  <2> QED
    BY <1>1, <2>2, <2>3, <2>4, <2>5
<1>4. CASE loadRedaction(c)
  <2>1. files' = files /\ call[c].todo \subseteq id.sessions /\ id \in ReleaseIDs
    BY <1>0, <1>4 DEF loadRedaction, CallsTyped, Exporting
  <2>2. ASSUME NEW s, NEW p \in Plans,
               \/ Goes(c, "loading", [id EXCEPT !.plans = @ \cup {p}], call[c].todo \ {s})
               \/ Goes(c, "writing", [id EXCEPT !.plans = @ \cup {p}], Items(id))
        PROVE  CallsTyped'
    <3> DEFINE loaded == [id EXCEPT !.plans = @ \cup {p}]
    <3>1. loaded.sessions = id.sessions /\ Items(loaded) = Items(id)
      BY <2>1 DEF ReleaseIDs, Items
    <3> HIDE DEF loaded, id
    <3>2. CASE Goes(c, "loading", loaded, call[c].todo \ {s})
      BY <2>1, <3>1, <3>2, CallStaysTyped DEF Exporting
    <3>3. CASE Goes(c, "writing", loaded, Items(id))
      BY <2>1, <3>1, <3>3, CallStaysTyped DEF Exporting
    <3> QED
      BY <2>2, <3>2, <3>3 DEF loaded, id
  <2> QED
    BY <1>1, <1>4, <2>1, <2>2 DEF loadRedaction
<1>5. \A item \in NextItems(c) : item \in call[c].todo
  BY DEF NextItems
<1>6. CASE WriteReleaseFile(c)
  <2>1. call[c].todo \subseteq Items(id) /\ id \in ReleaseIDs
    BY <1>0, <1>6 DEF WriteReleaseFile, CallsTyped, Exporting
  <2>2. ASSUME NEW item \in NextItems(c), files' = files \cup {<<id, item>>},
               Goes(c, "writing", id, call[c].todo \ {item})
        PROVE  CallsTyped'
    <3>1. \A f \in files' \ files : f[1] \in ReleaseIDs /\ f[2] \in Items(f[1])
      BY <1>5, <2>1, <2>2
    <3> QED
      BY <2>1, <2>2, <3>1, CallStaysTyped DEF Exporting
  <2> QED
    BY <1>1, <1>6, <2>2 DEF WriteReleaseFile
<1>7. CASE ExportFails(c)
  <2>1. \A f \in files' \ files : f[1] \in ReleaseIDs /\ f[2] \in Items(f[1])
    BY <1>0, <1>5, <1>7 DEF ExportFails, CallsTyped, Exporting
  <2> QED
    BY <1>7, <2>1, CallStaysTyped DEF ExportFails, Ends
<1>8. CASE CommitRelease(c)
  BY <1>1, <1>8 DEF CommitRelease
<1> QED
  BY <1>2, <1>3, <1>4, <1>6, <1>7, <1>8 DEF ReleaseStep

LEMMA ReleaseStepTypes ==
  ASSUME TypeInv, NEW c \in Calls, ReleaseStep(c)
  PROVE  TypeInv'
<1> USE DEF reviewVars, sessionVars, redactionVars, erasureVars, storeVars, workerVars, TypeInv
<1>1. /\ UNCHANGED <<claim, reviews, reworkOf, plan, held, blobs, strays, todo, reading>>
      /\ faults' = faults \/ Fault
  <2>1. CASE \E name \in Names, profile \in Profiles, wanted \in SUBSET Reviewable :
               StartRelease(c, name, profile, wanted)
    BY <2>1 DEF StartRelease
  <2>2. CASE ListReleaseCandidates(c) \/ loadRedaction(c) \/ WriteReleaseFile(c)
    BY <2>2 DEF ListReleaseCandidates, loadRedaction, WriteReleaseFile
  <2>3. CASE ExportFails(c) \/ CommitRelease(c)
    BY <2>3 DEF ExportFails, CommitRelease
  <2> QED
    BY <2>1, <2>2, <2>3 DEF ReleaseStep
<1>2. faults' \in Nat
  BY <1>1 DEF Fault, RestTyped
<1> QED
  BY <1>1, <1>2, PlansUntouched DEF RestTyped

LEMMA TypesInit == Init => TypeInv /\ CallsTyped
<1> SUFFICES ASSUME Init PROVE TypeInv /\ CallsTyped
  OBVIOUS
<1>1. \A s \in Sessions : Versions(s) = {0}
  BY NoOneAssumption DEF Init, ReviewInit, NoPlan, Versions
<1>2. VersionsTopped /\ VersionsDiffer
  BY <1>1, NoOneAssumption DEF Init, ReviewInit, NoPlan, VersionsTopped, VersionsDiffer
<1>3. plan \in [Plans -> [session : Sessions \cup {NoOne}, version : Nat]]
  BY DEF Init, ReviewInit, NoPlan
<1>4. blobs \subseteq Objects
  BY DEF Init, ReviewInit, Objects
<1>5. RestTyped
  BY <1>3, <1>4 DEF Init, ReviewInit, NoClaim, RestTyped
<1>6. CallsTyped
  BY DEF Init, NoCall, CallsTyped, Exporting
<1> QED
  BY <1>2, <1>5, <1>6 DEF TypeInv

LEMMA TypesStep == IInv /\ TypeInv /\ CallsTyped /\ [Next]_vars => TypeInv' /\ CallsTyped'
<1> SUFFICES ASSUME IInv, TypeInv, CallsTyped, [Next]_vars PROVE TypeInv' /\ CallsTyped'
  OBVIOUS
<1>1. CASE ReviewNext /\ UNCHANGED releaseVars
  BY <1>1, ReviewTypes DEF releaseVars, CallsTyped
<1>2. CASE UNCHANGED vars
  BY <1>2, PlansUntouched
  DEF vars, reviewVars, sessionVars, redactionVars, erasureVars, storeVars, workerVars,
      releaseVars, CallsTyped, TypeInv, RestTyped
<1> QED
  BY <1>1, <1>2, ReleaseStepTypes, CallTypes DEF Next

LEMMA TypesHold == Spec => [](IInv /\ TypeInv /\ CallsTyped)
  BY IInvHolds, TypesInit, TypesStep, PTL DEF Spec

(* Every table, the store, the workers and the calls keep their types      *)
(* through every order of steps. NextVersion is the one that needs an      *)
(* argument: the highest version exists however many plans there are.      *)
THEOREM ReleaseTypeCorrect == Spec => []TypeOK
<1>1. IInv /\ TypeInv /\ CallsTyped => TypeOK
  <2> SUFFICES ASSUME IInv, TypeInv, CallsTyped PROVE TypeOK
    OBVIOUS
  <2>1. ReviewTypeOK
    BY DEF IInv, ReviewInv, Typed, Jobs, Erasures, TypeInv, RestTyped, ReviewTypeOK
  <2>2. ASSUME NEW c \in Calls
        PROVE  /\ call[c].phase \in {"idle", "listing", "loading", "writing", "done"}
               /\ Running(c) => call[c].id \in ReleaseIDs
               /\ call[c].todo \subseteq Sessions \cup {"manifest", "bundle"}
    <3>1. /\ call[c].phase \in {"idle", "listing", "loading", "writing", "done"}
          /\ Running(c) => call[c].id \in ReleaseIDs
      BY DEF IInv, Exports, CallsTyped, Exporting, Running
    <3>2. CASE call[c].phase \in {"loading", "writing"}
      <4>1. call[c].id.sessions \subseteq Sessions
        BY <3>1, <3>2 DEF Running, ReleaseIDs
      <4> QED
        BY <3>1, <3>2, <4>1 DEF CallsTyped, Items
    <3>3. CASE call[c].phase \notin {"loading", "writing"}
      BY <3>1, <3>3 DEF CallsTyped
    <3> QED
      BY <3>1, <3>2, <3>3
  <2> QED
    BY <2>1, <2>2 DEF TypeOK, IInv, CallsTyped
<1> QED
  BY <1>1, TypesHold, PTL

(* Two plans of a session never share a version, however reviews,          *)
(* corrections and erasures interleave: the completed plan of the highest  *)
(* version is one plan (CreateRedactionPlan, LatestCompletedRedaction).    *)
THEOREM PlanVersionsAreUnique == Spec => []VersionsDiffer
<1>1. TypeInv => VersionsDiffer
  BY DEF TypeInv
<1> QED
  BY <1>1, TypesHold, PTL

-----------------------------------------------------------------------------
(* Decisions *)

(* One review a session, of the decision that its state shows.             *)
Decided ==
  /\ \A u, v \in reviews : u.session = v.session => u = v
  /\ \A v \in reviews :
       /\ v.decision = "accepted" => v.passed
       /\ \/ state[v.session] = Target[v.decision]
          \/ v.decision = "accepted" /\ state[v.session] = "RELEASED"
  /\ \A s \in Sessions :
       state[s] \in {"ACCEPTED", "RELEASED", "REJECTED", "REWORK_REQUIRED"}
       => \E v \in reviews : v.session = s

(* A successor comes with the decision and is nobody else's. The erasure   *)
(* of the session leaves its successor.                                    *)
Reworked ==
  /\ \A n \in Sessions :
       /\ state[n] = "absent" => reworkOf[n] = NoOne
       /\ reworkOf[n] \in Sessions => state[reworkOf[n]] \in {"REWORK_REQUIRED", "DELETED"}
       /\ state[n] = "REWORK_REQUIRED" => \E m \in Sessions : reworkOf[m] = n
  /\ \A m, n \in Sessions : reworkOf[m] = reworkOf[n] /\ reworkOf[m] \in Sessions => m = n

PlansOfAccepted ==
  \A p \in Plans :
    plan[p].session \in Sessions => state[plan[p].session] \in {"ACCEPTED", "RELEASED", "DELETED"}

DecisionInv == Decided /\ Reworked /\ PlansOfAccepted

(* The steps that decide, plan, erase or publish; no other step touches    *)
(* these columns.                                                          *)
LEMMA DecidingSteps ==
  ASSUME [Next]_vars
  PROVE  \/ \E s \in Sessions, v \in Reviewers, decision \in Decisions, passed \in BOOLEAN,
               p \in Plans \cup {NoOne}, n \in Sessions \cup {NoOne} :
               SubmitReview(s, v, decision, passed, p, n) /\ UNCHANGED releaseVars
         \/ \E s \in Sessions, p \in Plans : CreateRedactionPlan(s, p) /\ UNCHANGED releaseVars
         \/ \E w \in Workers : CompleteDeletionRequest(w) /\ UNCHANGED releaseVars
         \/ \E c \in Calls : CommitRelease(c)
         \/ UNCHANGED <<state, reviews, reworkOf, plan>>
<1> USE DEF sessionVars, redactionVars
<1>1. CASE ReviewNext /\ UNCHANGED releaseVars
  <2>1. CASE ReviewerStep
    BY <1>1, <2>1 DEF ReviewerStep, ClaimExpires, ClaimReview, ReleaseReview
  <2>2. CASE AdministratorStep
    BY <2>2 DEF AdministratorStep, RetryDeadLetterRedactionJob, PlaceLegalHold,
       ReleaseLegalHold, RequestSessionDeletion, RetryDeadLetterDeletionRequest
  <2>3. CASE ClockStep
    BY <2>3 DEF ClockStep, JobRipens, RequestRipens
  <2>4. ASSUME NEW w \in Workers, WorkerStep(w), ~CompleteDeletionRequest(w)
        PROVE  UNCHANGED <<state, reviews, reworkOf, plan>>
    BY <2>4 DEF WorkerStep, ClaimRedactionJob, ReadSource, WriteOutput, CompleteRedactionJob,
       ClaimDeletionRequest, PurgeObject, EraserIsRefused
  <2>5. ASSUME NEW w \in Workers, RedactionFails(w) \/ PurgeFails(w) \/ WorkerCrashes(w)
        PROVE  UNCHANGED <<state, reviews, reworkOf, plan>>
    BY <2>5 DEF RedactionFails, PurgeFails, WorkerCrashes
  <2> QED
    BY <1>1, <2>1, <2>2, <2>3, <2>4, <2>5 DEF ReviewNext
<1>2. ASSUME NEW c \in Calls, ReleaseStep(c), ~CommitRelease(c)
      PROVE  UNCHANGED <<state, reviews, reworkOf, plan>>
  BY <1>2 DEF ReleaseStep, StartRelease, ListReleaseCandidates, loadRedaction,
     WriteReleaseFile, ExportFails, reviewVars
<1>3. CASE UNCHANGED vars
  BY <1>3 DEF vars, reviewVars
<1> QED
  BY <1>1, <1>2, <1>3 DEF Next

LEMMA SubmitReviewDecides ==
  ASSUME IInv, TypeInv, DecisionInv, NEW s \in Sessions, NEW v \in Reviewers,
         NEW decision \in Decisions, NEW passed \in BOOLEAN,
         NEW p \in Plans \cup {NoOne}, NEW n \in Sessions \cup {NoOne},
         SubmitReview(s, v, decision, passed, p, n)
  PROVE  DecisionInv'
<1> USE DEF DecisionInv
<1> DEFINE new == [session |-> s, by |-> v, decision |-> decision, passed |-> passed]
<1>1. /\ state \in [Sessions -> SessionStates \cup {"absent"}] /\ reviews \subseteq Reviews
      /\ reworkOf \in [Sessions -> Sessions \cup {NoOne}]
  BY DEF IInv, ReviewInv, Typed, TypeInv, RestTyped
<1>2. /\ state[s] = "READY_FOR_REVIEW" /\ reviews' = reviews \cup {new}
      /\ decision = "accepted" => passed
      /\ Decide(s, decision, n) /\ ApprovePlan(s, decision, p)
  BY DEF SubmitReview
<1>3. /\ Target[decision] \in {"ACCEPTED", "REJECTED", "REWORK_REQUIRED"}
      /\ Target[decision] = "ACCEPTED" <=> decision = "accepted"
      /\ Target[decision] = "REWORK_REQUIRED" <=> decision = "rework_required"
  BY DEF Target, Decisions
<1>4. \/ /\ decision # "rework_required" /\ reworkOf' = reworkOf
         /\ state' = [state EXCEPT ![s] = Target[decision]]
      \/ /\ decision = "rework_required" /\ n \in Sessions /\ state[n] = "absent" /\ n # s
         /\ state' = [state EXCEPT ![s] = Target[decision], ![n] = "ASSIGNED"]
         /\ reworkOf' = [reworkOf EXCEPT ![n] = s]
  BY <1>2 DEF Decide
<1>5. /\ state'[s] = Target[decision]
      /\ \A t \in Sessions \ {s} :
           state'[t] = state[t] \/ (state[t] = "absent" /\ state'[t] = "ASSIGNED")
  BY <1>1, <1>4
<1>6. \A u \in reviews : /\ Target[u.decision] \in {"ACCEPTED", "REJECTED", "REWORK_REQUIRED"}
                         /\ u.session \in Sessions
  BY <1>1 DEF Reviews, Target, Decisions
<1>7. \A u \in reviews : u.session # s
  BY <1>2, <1>6 DEF Decided
<1>8. Decided'
  <2>1. new.session = s /\ new.decision = decision /\ new.passed = passed
    OBVIOUS
  <2> HIDE DEF new
  <2>2. \A x, y \in reviews' : x.session = y.session => x = y
    BY <1>2, <1>7, <2>1 DEF Decided
  <2>3. ASSUME NEW x \in reviews'
        PROVE  /\ x.decision = "accepted" => x.passed
               /\ \/ state'[x.session] = Target[x.decision]
                  \/ x.decision = "accepted" /\ state'[x.session] = "RELEASED"
    <3>1. CASE x = new
      BY <1>2, <1>5, <2>1, <3>1
    <3>2. CASE x \in reviews
      BY <1>5, <1>6, <1>7, <3>2 DEF Decided
    <3> QED
      BY <1>2, <3>1, <3>2
  <2>4. ASSUME NEW t \in Sessions,
               state'[t] \in {"ACCEPTED", "RELEASED", "REJECTED", "REWORK_REQUIRED"}
        PROVE  \E x \in reviews' : x.session = t
    BY <1>2, <1>5, <2>1, <2>4 DEF Decided
  <2> QED
    BY <2>2, <2>3, <2>4 DEF Decided
<1>9. Reworked'
  <2>1. \A m \in Sessions : reworkOf[m] # s
    BY <1>2 DEF Reworked
  <2>2. CASE decision # "rework_required"
    BY <1>2, <1>3, <1>4, <1>5, <2>1, <2>2 DEF Reworked
  <2>3. CASE decision = "rework_required"
    <3>1. /\ n \in Sessions /\ state[n] = "absent" /\ n # s
          /\ state'[n] = "ASSIGNED" /\ state'[s] = "REWORK_REQUIRED"
          /\ \A t \in Sessions \ {s, n} : state'[t] = state[t]
          /\ reworkOf'[n] = s /\ \A m \in Sessions \ {n} : reworkOf'[m] = reworkOf[m]
      BY <1>1, <1>3, <1>4, <2>3
    <3>2. reworkOf[n] = NoOne /\ NoOne \notin Sessions
      BY <3>1, NoOneAssumption DEF Reworked
    <3>3. \A m \in Sessions : reworkOf[m] # n \/ m = n
      BY <3>1 DEF Reworked
    <3>4. ASSUME NEW t \in Sessions
          PROVE  /\ state'[t] = "absent" => reworkOf'[t] = NoOne
                 /\ reworkOf'[t] \in Sessions
                    => state'[reworkOf'[t]] \in {"REWORK_REQUIRED", "DELETED"}
                 /\ state'[t] = "REWORK_REQUIRED" => \E m \in Sessions : reworkOf'[m] = t
      <4>1. CASE t = n
        BY <3>1, <4>1
      <4>2. CASE t = s
        BY <2>1, <3>1, <3>2, <3>3, <4>2 DEF Reworked
      <4>3. CASE t \notin {s, n}
        <5>1. /\ state'[t] = "absent" => reworkOf'[t] = NoOne
              /\ reworkOf'[t] \in Sessions
                 => state'[reworkOf'[t]] \in {"REWORK_REQUIRED", "DELETED"}
          BY <2>1, <3>1, <3>3, <4>3 DEF Reworked
        <5>2. ASSUME state'[t] = "REWORK_REQUIRED" PROVE \E m \in Sessions : reworkOf'[m] = t
          <6>1. PICK m \in Sessions : reworkOf[m] = t
            BY <3>1, <4>3, <5>2 DEF Reworked
          <6>2. m # n
            BY <3>2, <6>1
          <6> QED
            BY <3>1, <6>1, <6>2
        <5> QED
          BY <5>1, <5>2
      <4> QED
        BY <4>1, <4>2, <4>3
    <3>5. \A m, k \in Sessions :
            reworkOf'[m] = reworkOf'[k] /\ reworkOf'[m] \in Sessions => m = k
      BY <2>1, <3>1 DEF Reworked
    <3> QED
      BY <3>4, <3>5 DEF Reworked
  <2> QED
    BY <2>2, <2>3
<1>10. PlansOfAccepted'
  <2>1. \A q \in Plans : plan[q].session # s
    BY <1>2 DEF PlansOfAccepted
  <2>2. CASE plan' = plan
    BY <1>5, <2>1, <2>2 DEF PlansOfAccepted
  <2>3. CASE p \in Plans /\ decision = "accepted" /\ InsertPlan(s, p)
    <3>1. plan'[p].session = s /\ \A q \in Plans \ {p} : plan'[q] = plan[q]
      BY <2>3 DEF InsertPlan, TypeInv, RestTyped
    <3> QED
      BY <1>3, <1>5, <2>1, <2>3, <3>1 DEF PlansOfAccepted
  <2> QED
    BY <1>2, <2>2, <2>3 DEF ApprovePlan, redactionVars
<1> QED
  BY <1>8, <1>9, <1>10

LEMMA CreateRedactionPlanDecides ==
  ASSUME TypeInv, DecisionInv, NEW s \in Sessions, NEW p \in Plans, CreateRedactionPlan(s, p)
  PROVE  DecisionInv'
<1>1. /\ UNCHANGED <<state, reviews, reworkOf>> /\ state[s] = "ACCEPTED"
      /\ plan'[p].session = s /\ \A q \in Plans \ {p} : plan'[q] = plan[q]
  BY DEF CreateRedactionPlan, InsertPlan, sessionVars, TypeInv, RestTyped
<1> QED
  BY <1>1 DEF DecisionInv, Decided, Reworked, PlansOfAccepted

(* What the end of an erasure does to the session.                         *)
LEMMA ErasesSession ==
  ASSUME IInv, NEW w \in Workers, CompleteDeletionRequest(w)
  PROVE  LET s == req[duty[w]].session IN
         /\ duty[w] \in Requests /\ s \in Sessions /\ req[duty[w]].state = "leased"
         /\ state'[s] = "DELETED" /\ \A t \in Sessions \ {s} : state'[t] = state[t]
         /\ reviews' = {v \in reviews : v.session # s}
         /\ UNCHANGED <<reworkOf, plan>>
<1>1. duty[w] \in Requests /\ req[duty[w]].state = "leased"
  BY DEF CompleteDeletionRequest, MayErase, LeasedTo
<1>2. req[duty[w]].session \in Sessions
  BY <1>1 DEF IInv, ReviewInv, NotReleasedUnderErasure, Pending
<1> QED
  BY <1>1, <1>2 DEF CompleteDeletionRequest, IInv, ReviewInv, Typed

LEMMA CompleteDeletionDecides ==
  ASSUME IInv, TypeInv, DecisionInv, NEW w \in Workers, CompleteDeletionRequest(w)
  PROVE  DecisionInv'
<1> DEFINE s == req[duty[w]].session
<1>1. /\ s \in Sessions
      /\ state'[s] = "DELETED" /\ \A t \in Sessions \ {s} : state'[t] = state[t]
      /\ reviews' = {v \in reviews : v.session # s}
      /\ UNCHANGED <<reworkOf, plan>>
  BY ErasesSession
<1> HIDE DEF s
<1>2. \A v \in reviews : v.session \in Sessions
  BY DEF TypeInv, RestTyped, Reviews
<1>3. Decided'
  BY <1>1, <1>2 DEF DecisionInv, Decided
<1>4. Reworked' /\ PlansOfAccepted'
  BY <1>1 DEF DecisionInv, Reworked, PlansOfAccepted
<1> QED
  BY <1>3, <1>4 DEF DecisionInv

(* What a commit does to the sessions.                                     *)
LEMMA PublishesSessions ==
  ASSUME IInv, NEW c \in Calls, CommitRelease(c)
  PROVE  /\ \A t \in Sessions :
              state'[t] = state[t] \/ (state[t] = "ACCEPTED" /\ state'[t] = "RELEASED")
         /\ UNCHANGED <<reviews, reworkOf, plan, job>>
  BY DEF CommitRelease, Committable, redactionVars

LEMMA CommitDecides ==
  ASSUME IInv, TypeInv, DecisionInv, NEW c \in Calls, CommitRelease(c)
  PROVE  DecisionInv'
<1>1. /\ \A t \in Sessions :
           state'[t] = state[t] \/ (state[t] = "ACCEPTED" /\ state'[t] = "RELEASED")
      /\ UNCHANGED <<reviews, reworkOf, plan>>
  BY PublishesSessions
<1>2. \A v \in reviews : /\ v.session \in Sessions /\ v.decision \in Decisions
                         /\ Target[v.decision] = "ACCEPTED" => v.decision = "accepted"
  BY DEF TypeInv, RestTyped, Reviews, Decisions, Target
<1>3. Decided'
  BY <1>1, <1>2 DEF DecisionInv, Decided
<1>4. Reworked' /\ PlansOfAccepted'
  BY <1>1 DEF DecisionInv, Reworked, PlansOfAccepted
<1> QED
  BY <1>3, <1>4 DEF DecisionInv

LEMMA DecisionStep == IInv /\ TypeInv /\ DecisionInv /\ [Next]_vars => DecisionInv'
<1> SUFFICES ASSUME IInv, TypeInv, DecisionInv, [Next]_vars PROVE DecisionInv'
  OBVIOUS
<1>1. CASE UNCHANGED <<state, reviews, reworkOf, plan>>
  BY <1>1 DEF DecisionInv, Decided, Reworked, PlansOfAccepted
<1> QED
  BY <1>1, DecidingSteps, SubmitReviewDecides, CreateRedactionPlanDecides,
     CompleteDeletionDecides, CommitDecides

LEMMA DecisionHolds == Spec => [](IInv /\ TypeInv /\ CallsTyped /\ DecisionInv)
<1>1. Init => DecisionInv
  BY NoOneAssumption
  DEF Init, ReviewInit, NoPlan, DecisionInv, Decided, Reworked, PlansOfAccepted
<1> QED
  BY <1>1, TypesHold, DecisionStep, PTL DEF Spec

(* A set in which any two elements are equal has at most one.              *)
LEMMA AtMostOne ==
  ASSUME NEW S, \A x, y \in S : x = y
  PROVE  Cardinality(S) <= 1 /\ (S # {} => Cardinality(S) = 1)
<1>1. CASE S = {}
  BY <1>1, FS_EmptySet
<1>2. CASE S # {}
  <2>1. PICK x \in S : S = {x}
    BY <1>2
  <2> QED
    BY <2>1, FS_Singleton
<1> QED
  BY <1>1, <1>2

(* In every behaviour a session is decided once, by one review that its    *)
(* state shows, has a successor exactly when it is to be reworked, and has *)
(* redaction plans only when it was accepted, whoever held the claim       *)
(* (ClaimReview, SubmitReview).                                            *)
THEOREM SessionsAreDecidedOnce == Spec => []DecidedOnce
<1>1. TypeInv /\ DecisionInv => DecidedOnce
  <2> SUFFICES ASSUME TypeInv, DecisionInv, NEW s \in Sessions
               PROVE  LET own == {v \in reviews : v.session = s}
                          successors == {n \in Sessions : reworkOf[n] = s}
                      IN
                      /\ Cardinality(own) <= 1
                      /\ \A v \in own : \/ state[s] = Target[v.decision]
                                        \/ v.decision = "accepted" /\ state[s] = "RELEASED"
                      /\ state[s] \in {"ACCEPTED", "RELEASED", "REJECTED", "REWORK_REQUIRED"}
                         => own # {}
                      /\ state[s] = "REWORK_REQUIRED" => Cardinality(successors) = 1
                      /\ (\E p \in Plans : plan[p].session = s)
                         => state[s] \in {"ACCEPTED", "RELEASED", "DELETED"}
    BY DEF DecidedOnce
  <2> DEFINE own == {v \in reviews : v.session = s}
             successors == {n \in Sessions : reworkOf[n] = s}
  <2>1. Cardinality(own) <= 1
    <3>1. \A u, v \in own : u = v
      BY DEF DecisionInv, Decided
    <3> HIDE DEF own
    <3> QED
      BY <3>1, AtMostOne
  <2>2. state[s] = "REWORK_REQUIRED" => Cardinality(successors) = 1
    <3>1. \A m, n \in successors : m = n
      BY DEF DecisionInv, Reworked
    <3>2. state[s] = "REWORK_REQUIRED" => successors # {}
      BY DEF DecisionInv, Reworked
    <3> HIDE DEF successors
    <3> QED
      BY <3>1, <3>2, AtMostOne
  <2>3. /\ \A v \in own : \/ state[s] = Target[v.decision]
                          \/ v.decision = "accepted" /\ state[s] = "RELEASED"
        /\ state[s] \in {"ACCEPTED", "RELEASED", "REJECTED", "REWORK_REQUIRED"} => own # {}
        /\ (\E p \in Plans : plan[p].session = s)
           => state[s] \in {"ACCEPTED", "RELEASED", "DELETED"}
    BY DEF DecisionInv, Decided, PlansOfAccepted
  <2> QED
    BY <2>1, <2>2, <2>3
<1> QED
  BY <1>1, DecisionHolds, PTL

-----------------------------------------------------------------------------
(* What is published *)

(* A plan keeps its session and its version once it has them.              *)
LEMMA PlansStay ==
  ASSUME IInv, [Next]_vars, NEW p \in Plans, plan[p].session \in Sessions
  PROVE  plan'[p] = plan[p]
<1>1. plan[p].session # NoOne
  BY NoOneAssumption
<1>2. ASSUME NEW s \in Sessions, NEW q \in Plans, InsertPlan(s, q) PROVE plan'[p] = plan[p]
  BY <1>1, <1>2 DEF InsertPlan, IInv, ReviewInv, Typed
<1>3. CASE plan' = plan
  BY <1>3
<1> QED
  BY <1>2, <1>3, DecidingSteps
  DEF SubmitReview, ApprovePlan, CreateRedactionPlan, CompleteDeletionRequest, CommitRelease,
      redactionVars

(* Erasure is for good.                                                    *)
LEMMA DeletedStays ==
  ASSUME IInv, [Next]_vars, NEW s \in Sessions, state[s] = "DELETED"
  PROVE  state'[s] = "DELETED"
<1>1. ASSUME NEW t \in Sessions, NEW v, NEW decision \in Decisions, NEW passed,
             NEW p, NEW n \in Sessions \cup {NoOne}, SubmitReview(t, v, decision, passed, p, n)
      PROVE  state'[s] = "DELETED"
  <2>1. /\ state[t] = "READY_FOR_REVIEW"
        /\ \A u \in Sessions \ {t} :
             state'[u] = state[u] \/ (state[u] = "absent" /\ state'[u] = "ASSIGNED")
    BY <1>1, DecisionFacts DEF IInv, ReviewInv, Typed, SubmitReview
  <2> QED
    BY <2>1
<1>2. ASSUME NEW w \in Workers, CompleteDeletionRequest(w) PROVE state'[s] = "DELETED"
  BY <1>2, ErasesSession
<1>3. ASSUME NEW c \in Calls, CommitRelease(c) PROVE state'[s] = "DELETED"
  BY <1>3, PublishesSessions
<1> QED
  BY <1>1, <1>2, <1>3, DecidingSteps DEF CreateRedactionPlan, sessionVars

(* The jobs a step settles: all but the one it is about stay as they are,  *)
(* and that one was not completed. Only the end of an erasure takes jobs   *)
(* away.                                                                   *)
LEMMA CompletedStays ==
  ASSUME IInv, [Next]_vars, NEW p \in Plans, plan[p].session \in Sessions,
         job[p].state = "completed"
  PROVE  job'[p].state = "completed" \/ state'[plan[p].session] = "DELETED"
<1>0. job \in [Plans -> Jobs] /\ plan[p].session # NoOne
  BY NoOneAssumption DEF IInv, ReviewInv, Typed
<1>1. ASSUME job' = job PROVE job'[p].state = "completed"
  BY <1>1
<1>2. ASSUME NEW q \in Plans, NEW new, job' = [job EXCEPT ![q] = new], q # p
      PROVE  job'[p].state = "completed"
  BY <1>0, <1>2
<1>3. ASSUME NEW s \in Sessions, NEW q \in Plans, InsertPlan(s, q)
      PROVE  job'[p].state = "completed"
  BY <1>0, <1>2, <1>3 DEF InsertPlan
<1>4. ASSUME NEW w \in Workers, RequeueRedactionJob(w), duty[w] \in Plans
      PROVE  job'[p].state = "completed"
  BY <1>0, <1>1, <1>2, <1>4 DEF RequeueRedactionJob, LeasedTo
<1>5. CASE ReviewNext
  <2>1. CASE ReviewerStep
    BY <1>1, <1>3, <2>1
    DEF ReviewerStep, ClaimExpires, ClaimReview, ReleaseReview, SubmitReview, ApprovePlan,
        CreateRedactionPlan, redactionVars
  <2>2. CASE AdministratorStep
    <3>1. ASSUME NEW q \in Plans, RetryDeadLetterRedactionJob(q)
          PROVE  job'[p].state = "completed"
      BY <1>2, <3>1 DEF RetryDeadLetterRedactionJob
    <3> QED
      BY <1>1, <2>2, <3>1
      DEF AdministratorStep, PlaceLegalHold, ReleaseLegalHold, RequestSessionDeletion,
          RetryDeadLetterDeletionRequest, redactionVars
  <2>3. CASE ClockStep
    <3>1. ASSUME NEW q \in Plans, JobRipens(q) PROVE job'[p].state = "completed"
      BY <1>0, <3>1 DEF JobRipens
    <3> QED
      BY <1>1, <2>3, <3>1 DEF ClockStep, RequestRipens, redactionVars
  <2>4. ASSUME NEW w \in Workers, WorkerStep(w)
        PROVE  job'[p].state = "completed" \/ state'[plan[p].session] = "DELETED"
    <3>1. ASSUME NEW q \in Plans, ClaimRedactionJob(w, q) PROVE job'[p].state = "completed"
      BY <1>2, <3>1 DEF ClaimRedactionJob, Due
    <3>2. CASE CompleteRedactionJob(w)
      BY <1>2, <1>4, <3>2 DEF CompleteRedactionJob, AllWritten, LeasedTo
    <3>3. CASE CompleteDeletionRequest(w)
      BY <3>3, ErasesSession DEF CompleteDeletionRequest
    <3> QED
      BY <1>1, <2>4, <3>1, <3>2, <3>3
      DEF WorkerStep, ReadSource, WriteOutput, ClaimDeletionRequest, PurgeObject,
          EraserIsRefused, redactionVars
  <2>5. ASSUME NEW w \in Workers, RedactionFails(w) \/ PurgeFails(w) \/ WorkerCrashes(w)
        PROVE  job'[p].state = "completed"
    BY <1>1, <1>4, <2>5 DEF RedactionFails, PurgeFails, WorkerCrashes, redactionVars
  <2> QED
    BY <1>5, <2>1, <2>2, <2>3, <2>4, <2>5 DEF ReviewNext
<1>6. ASSUME NEW c \in Calls, ReleaseStep(c) PROVE job' = job
  BY <1>6
  DEF ReleaseStep, StartRelease, ListReleaseCandidates, loadRedaction, WriteReleaseFile,
      ExportFails, CommitRelease, reviewVars, redactionVars
<1> QED
  BY <1>1, <1>5, <1>6 DEF Next, vars, reviewVars, redactionVars

(* What a call has picked: for every session whose redaction it has        *)
(* loaded, one plan, which is completed unless the session was erased      *)
(* meanwhile; nothing when it does not publish video.                      *)
Picked(plans, jobs, states, id, left) ==
  /\ \A p \in id.plans :
       /\ plans[p].session \in id.sessions \ left
       /\ jobs[p].state = "completed" \/ states[plans[p].session] = "DELETED"
  /\ \A p, q \in id.plans : plans[p].session = plans[q].session => p = q
  /\ id.profile = "redacted_video"
     => \A s \in id.sessions \ left : \E p \in id.plans : plans[p].session = s
  /\ id.profile = "trajectory_only" => id.plans = {}

Picks ==
  /\ \A c \in Calls :
       /\ call[c].phase = "listing" => call[c].id.plans = {}
       /\ call[c].phase = "loading" => /\ call[c].id.profile = "redacted_video"
                                       /\ Picked(plan, job, state, call[c].id, call[c].todo)
       /\ call[c].phase = "writing" => Picked(plan, job, state, call[c].id, {})
  /\ \A id \in releases : Picked(plan, job, state, id, {})

LEMMA PickedStays ==
  ASSUME IInv, [Next]_vars, NEW id \in ReleaseIDs, NEW left, Picked(plan, job, state, id, left)
  PROVE  Picked(plan', job', state', id, left)
<1>1. id.plans \subseteq Plans /\ id.sessions \subseteq Sessions
  BY DEF ReleaseIDs
<1>2. ASSUME NEW p \in id.plans
      PROVE  /\ plan'[p] = plan[p]
             /\ job'[p].state = "completed" \/ state'[plan'[p].session] = "DELETED"
  <2>1. p \in Plans /\ plan[p].session \in Sessions
    BY <1>1 DEF Picked
  <2>2. plan'[p] = plan[p]
    BY <2>1, PlansStay
  <2>3. CASE state[plan[p].session] = "DELETED"
    BY <2>1, <2>2, <2>3, DeletedStays
  <2>4. CASE job[p].state = "completed"
    BY <2>1, <2>2, <2>4, CompletedStays
  <2> QED
    BY <2>2, <2>3, <2>4 DEF Picked
<1> QED
  BY <1>2 DEF Picked

(* A call that goes on: the other calls and the releases keep what they    *)
(* have picked.                                                            *)
LEMMA PicksGoOn ==
  ASSUME IInv, Picks, [Next]_vars, UNCHANGED releases,
         NEW c \in Calls, NEW phase, NEW id, NEW todo1, Goes(c, phase, id, todo1),
         phase = "listing" => id.plans = {},
         phase = "loading" => id.profile = "redacted_video" /\ Picked(plan', job', state', id, todo1),
         phase = "writing" => Picked(plan', job', state', id, {})
  PROVE  Picks'
<1>1. /\ \A d \in Calls \ {c} : call'[d] = call[d]
      /\ call'[c].phase = phase /\ call'[c].id = id /\ call'[c].todo = todo1
  BY GoesFacts DEF IInv, Exports
<1>2. ASSUME NEW d \in Calls \ {c}
      PROVE  /\ call'[d].phase = "listing" => call'[d].id.plans = {}
             /\ call'[d].phase = "loading" => /\ call'[d].id.profile = "redacted_video"
                                              /\ Picked(plan', job', state', call[d].id, call[d].todo)
             /\ call'[d].phase = "writing" => Picked(plan', job', state', call[d].id, {})
  <2>1. call'[d] = call[d]
    BY <1>1
  <2>2. call[d].phase \in Exporting => call[d].id \in ReleaseIDs
    BY DEF IInv, Exports
  <2>3. ASSUME call[d].phase = "loading" PROVE Picked(plan', job', state', call[d].id, call[d].todo)
    <3> DEFINE i == call[d].id
               t == call[d].todo
    <3>1. i \in ReleaseIDs /\ Picked(plan, job, state, i, t) /\ call'[d].id = i /\ call'[d].todo = t
      BY <2>1, <2>2, <2>3 DEF Picks, Exporting
    <3> QED
      BY <3>1, PickedStays
  <2>4. ASSUME call[d].phase = "writing" PROVE Picked(plan', job', state', call[d].id, {})
    <3> DEFINE i == call[d].id
    <3>1. i \in ReleaseIDs /\ Picked(plan, job, state, i, {}) /\ call'[d].id = i
      BY <2>1, <2>2, <2>4 DEF Picks, Exporting
    <3> QED
      BY <3>1, PickedStays
  <2> QED
    BY <2>1, <2>3, <2>4 DEF Picks
<1>3. \A i \in releases' : Picked(plan', job', state', i, {})
  BY PickedStays DEF Picks, IInv
<1> QED
  BY <1>1, <1>2, <1>3 DEF Picks

(* Steps of everyone else.                                                 *)
LEMMA PicksStay ==
  ASSUME IInv, Picks, [Next]_vars, UNCHANGED <<releases, call>>
  PROVE  Picks'
<1>1. \A c \in Calls : call[c].phase \in Exporting => call[c].id \in ReleaseIDs
  BY DEF IInv, Exports
<1>2. \A c \in Calls :
        /\ call[c].phase = "loading" => Picked(plan', job', state', call[c].id, call[c].todo)
        /\ call[c].phase = "writing" => Picked(plan', job', state', call[c].id, {})
  BY <1>1, PickedStays DEF Picks, Exporting
<1>3. \A id \in releases : Picked(plan', job', state', id, {})
  BY PickedStays DEF Picks, IInv
<1> QED
  BY <1>2, <1>3 DEF Picks

(* The plan of one more session is loaded.                                 *)
LEMMA PicksOneMore ==
  ASSUME NEW id \in ReleaseIDs, NEW left, left \subseteq id.sessions,
         id.profile = "redacted_video", Picked(plan, job, state, id, left),
         NEW s \in left, NEW p \in Plans, LatestCompletedRedaction(s, p)
  PROVE  LET loaded == [id EXCEPT !.plans = @ \cup {p}]
         IN  /\ Picked(plan, job, state, loaded, left \ {s})
             /\ loaded \in ReleaseIDs /\ loaded.profile = "redacted_video"
<1> DEFINE loaded == [id EXCEPT !.plans = @ \cup {p}]
<1>1. /\ loaded \in ReleaseIDs /\ loaded.profile = id.profile
      /\ loaded.sessions = id.sessions /\ loaded.plans = id.plans \cup {p}
  BY DEF ReleaseIDs
<1>2. plan[p].session = s /\ job[p].state = "completed"
  BY DEF LatestCompletedRedaction, CompletedPlans
<1> HIDE DEF loaded
<1>3. Picked(plan, job, state, loaded, left \ {s})
  <2>1. ASSUME NEW q \in loaded.plans
        PROVE  /\ plan[q].session \in loaded.sessions \ (left \ {s})
               /\ job[q].state = "completed" \/ state[plan[q].session] = "DELETED"
    BY <1>1, <1>2 DEF Picked
  <2>2. \A q, r \in loaded.plans : plan[q].session = plan[r].session => q = r
    BY <1>1, <1>2 DEF Picked
  <2>3. \A t \in loaded.sessions \ (left \ {s}) : \E q \in loaded.plans : plan[q].session = t
    BY <1>1, <1>2 DEF Picked
  <2> QED
    BY <1>1, <2>1, <2>2, <2>3 DEF Picked
<1> QED
  BY <1>1, <1>3 DEF loaded

LEMMA PicksStep == IInv /\ TypeInv /\ CallsTyped /\ Picks /\ [Next]_vars => Picks'
<1> SUFFICES ASSUME IInv, TypeInv, CallsTyped, Picks, [Next]_vars PROVE Picks'
  OBVIOUS
<1>1. CASE UNCHANGED <<releases, call>>
  BY <1>1, PicksStay
<1>2. ASSUME NEW c \in Calls, Ends(c), UNCHANGED releases PROVE Picks'
  BY <1>2, PicksGoOn DEF Ends
<1>3. ASSUME NEW c \in Calls, NEW name, NEW profile, NEW wanted,
             StartRelease(c, name, profile, wanted)
      PROVE  Picks'
  <2>1. CASE Goes(c, "listing", [name |-> name, profile |-> profile, sessions |-> wanted,
                                 plans |-> {}], {})
    BY <1>3, <2>1, PicksGoOn DEF StartRelease
  <2> QED
    BY <1>2, <1>3, <2>1 DEF StartRelease
<1>4. ASSUME NEW c \in Calls, ListReleaseCandidates(c) PROVE Picks'
  <2> DEFINE id == call[c].id
             listed == IF id.sessions = {} THEN Candidates ELSE id.sessions
             named == [id EXCEPT !.sessions = listed]
  <2>1. id \in ReleaseIDs /\ id.plans = {} /\ id.profile \in Profiles
    BY <1>4 DEF ListReleaseCandidates, IInv, Exports, Exporting, Picks, ReleaseIDs
  <2>2. named.plans = {} /\ named.sessions = listed /\ named.profile = id.profile
    BY <2>1 DEF ReleaseIDs
  <2>3. \/ Ends(c)
        \/ id.profile = "redacted_video" /\ Goes(c, "loading", named, listed)
        \/ /\ id.profile # "redacted_video"
           /\ Goes(c, "writing", named, listed \cup {"manifest", "bundle"})
    BY <1>4 DEF ListReleaseCandidates
  <2>4. UNCHANGED releases
    BY <1>4 DEF ListReleaseCandidates
  <2> HIDE DEF id, listed, named
  <2>5. CASE id.profile = "redacted_video" /\ Goes(c, "loading", named, listed)
    <3>1. Picked(plan', job', state', named, listed)
      BY <2>2, <2>5 DEF Picked
    <3> QED
      BY <2>2, <2>4, <2>5, <3>1, PicksGoOn
  <2>6. CASE /\ id.profile # "redacted_video"
             /\ Goes(c, "writing", named, listed \cup {"manifest", "bundle"})
    <3>1. Picked(plan', job', state', named, {})
      BY <2>2, <2>6 DEF Picked
    <3> QED
      BY <2>4, <2>6, <3>1, PicksGoOn
  <2> QED
    BY <1>2, <2>3, <2>4, <2>5, <2>6
<1>5. ASSUME NEW c \in Calls, loadRedaction(c) PROVE Picks'
  <2> DEFINE id == call[c].id
             left == call[c].todo
  <2>1. /\ id \in ReleaseIDs /\ left \subseteq id.sessions /\ id.profile = "redacted_video"
        /\ Picked(plan, job, state, id, left)
    BY <1>5 DEF loadRedaction, IInv, Exports, Exporting, Picks, CallsTyped
  <2>2. UNCHANGED releases /\ UNCHANGED <<plan, job, state>>
    BY <1>5 DEF loadRedaction, reviewVars, sessionVars, redactionVars
  <2>3. ASSUME NEW s \in left, NEW p \in Plans, LatestCompletedRedaction(s, p),
               \/ Goes(c, "loading", [id EXCEPT !.plans = @ \cup {p}], left \ {s})
               \/ /\ left \ {s} = {}
                  /\ Goes(c, "writing", [id EXCEPT !.plans = @ \cup {p}], Items(id))
        PROVE  Picks'
    <3> DEFINE loaded == [id EXCEPT !.plans = @ \cup {p}]
    <3>1. /\ Picked(plan, job, state, loaded, left \ {s})
          /\ loaded.profile = "redacted_video"
      BY <2>1, <2>3, PicksOneMore
    <3>2. Picked(plan', job', state', loaded, left \ {s})
      BY <2>2, <3>1
    <3> HIDE DEF loaded
    <3>3. CASE Goes(c, "loading", loaded, left \ {s})
      BY <2>2, <3>1, <3>2, <3>3, PicksGoOn
    <3>4. CASE left \ {s} = {} /\ Goes(c, "writing", loaded, Items(id))
      BY <2>2, <3>2, <3>4, PicksGoOn
    <3> QED
      BY <2>3, <3>3, <3>4 DEF loaded
  <2> QED
    BY <1>2, <1>5, <2>2, <2>3 DEF loadRedaction
<1>6. ASSUME NEW c \in Calls, WriteReleaseFile(c) PROVE Picks'
  <2>1. /\ call[c].id \in ReleaseIDs /\ Picked(plan, job, state, call[c].id, {})
        /\ UNCHANGED releases
    BY <1>6 DEF WriteReleaseFile, IInv, Exports, Exporting, Picks
  <2>2. Picked(plan', job', state', call[c].id, {})
    BY <2>1, PickedStays
  <2>3. ASSUME NEW left, Goes(c, "writing", call[c].id, left) PROVE Picks'
    BY <2>1, <2>2, <2>3, PicksGoOn
  <2> QED
    BY <1>2, <1>6, <2>1, <2>3 DEF WriteReleaseFile
<1>7. ASSUME NEW c \in Calls, ExportFails(c) PROVE Picks'
  BY <1>2, <1>7 DEF ExportFails
<1>8. ASSUME NEW c \in Calls, CommitRelease(c) PROVE Picks'
  <2> DEFINE id == call[c].id
  <2>1. id \in ReleaseIDs /\ Picked(plan, job, state, id, {}) /\ Ends(c)
    BY <1>8 DEF CommitRelease, IInv, Exports, Exporting, Picks
  <2>2. Picked(plan', job', state', id, {})
    BY <2>1, PickedStays
  <2>3. releases' \subseteq releases \cup {id}
    BY <1>8 DEF CommitRelease
  <2>4. \A i \in releases' : Picked(plan', job', state', i, {})
    BY <2>2, <2>3, PickedStays DEF Picks, IInv
  <2>5. /\ \A d \in Calls \ {c} : call'[d] = call[d]
        /\ call'[c].phase = "done"
    BY <2>1, GoesFacts DEF Ends, IInv, Exports
  <2>6. \A d \in Calls : call[d].phase \in Exporting => call[d].id \in ReleaseIDs
    BY DEF IInv, Exports
  <2>7. \A d \in Calls :
          /\ call[d].phase = "loading" => Picked(plan', job', state', call[d].id, call[d].todo)
          /\ call[d].phase = "writing" => Picked(plan', job', state', call[d].id, {})
    BY <2>6, PickedStays DEF Picks, Exporting
  <2> QED
    BY <2>4, <2>5, <2>7 DEF Picks
<1> QED
  BY <1>1, <1>3, <1>4, <1>5, <1>6, <1>7, <1>8 DEF Next, ReleaseStep, releaseVars, vars

(* In every behaviour a committed release holds what was reviewed: its     *)
(* sessions are RELEASED on a passed, accepting review, no erasure of them *)
(* is under way, and redacted video comes from exactly one completed plan  *)
(* of each, though candidates, plans and files were read in transactions   *)
(* of their own before (CreateWithProfile, loadRedaction, CommitRelease).  *)
THEOREM PublicationIsAsReviewed == Spec => []PublishedAsReviewed
<1>1. Init => Picks
  BY DEF Init, NoCall, Picks
<1>2. IInv /\ TypeInv /\ DecisionInv /\ Picks => PublishedAsReviewed
  <2> SUFFICES ASSUME IInv, TypeInv, DecisionInv, Picks, NEW id \in releases
               PROVE  /\ \A s \in id.sessions :
                           /\ state[s] = "RELEASED" /\ ~ErasureUnderWay(s)
                           /\ \E v \in reviews :
                                v.session = s /\ v.decision = "accepted" /\ v.passed
                           /\ Cardinality({p \in id.plans : plan[p].session = s})
                                = IF id.profile = "redacted_video" THEN 1 ELSE 0
                      /\ \A p \in id.plans :
                           plan[p].session \in id.sessions /\ job[p].state = "completed"
    BY DEF PublishedAsReviewed
  <2>1. /\ id \in ReleaseIDs /\ id.sessions \subseteq Sessions
        /\ id.profile \in Profiles /\ Picked(plan, job, state, id, {})
    BY DEF IInv, Picks, ReleaseIDs
  <2>2. ASSUME NEW s \in id.sessions
        PROVE  /\ state[s] = "RELEASED" /\ ~ErasureUnderWay(s)
               /\ \E v \in reviews : v.session = s /\ v.decision = "accepted" /\ v.passed
    <3>1. s \in Sessions /\ state[s] = "RELEASED"
      BY <2>1 DEF IInv, StaysReleased
    <3>2. ~ErasureUnderWay(s)
      BY <3>1 DEF ErasureUnderWay, IInv, ReviewInv, NotReleasedUnderErasure, UnderWay
    <3>3. PICK v \in reviews : v.session = s
      BY <3>1 DEF DecisionInv, Decided
    <3>4. v.decision \in Decisions
      BY DEF TypeInv, RestTyped, Reviews
    <3>5. v.decision = "accepted" /\ v.passed
      BY <3>1, <3>3, <3>4 DEF DecisionInv, Decided, Decisions, Target
    <3> QED
      BY <3>1, <3>2, <3>3, <3>5
  <2>3. ASSUME NEW s \in id.sessions
        PROVE  Cardinality({p \in id.plans : plan[p].session = s})
                 = IF id.profile = "redacted_video" THEN 1 ELSE 0
    <3> DEFINE chosen == {p \in id.plans : plan[p].session = s}
    <3>1. \A p, q \in chosen : p = q
      BY <2>1 DEF Picked
    <3>2. IF id.profile = "redacted_video" THEN chosen # {} ELSE chosen = {}
      BY <2>1 DEF Picked, Profiles
    <3> HIDE DEF chosen
    <3>3. Cardinality(chosen) = IF id.profile = "redacted_video" THEN 1 ELSE 0
      BY <3>1, <3>2, AtMostOne, FS_EmptySet
    <3> QED
      BY <3>3 DEF chosen
  <2>4. ASSUME NEW p \in id.plans
        PROVE  plan[p].session \in id.sessions /\ job[p].state = "completed"
    BY <2>1, <2>2 DEF Picked
  <2> QED
    BY <2>2, <2>3, <2>4
<1> QED
  BY <1>1, <1>2, DecisionHolds, PicksStep, PTL DEF Spec
=============================================================================
