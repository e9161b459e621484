--------------------------- MODULE ReleaseProofs ---------------------------
(***************************************************************************)
(* Proofs about Release: redaction and erasure exclude each other, a       *)
(* committed release is whole and published once, and the system           *)
(* implements ReleaseContract, for every number of sessions, reviewers,    *)
(* workers, plans, requests, calls, names, attempts and faults.            *)
(*                                                                         *)
(* The argument for publication: a session under erasure is never RELEASED *)
(* (NotReleasedUnderErasure), for a request starts from another state and  *)
(* a commit looks for one; hence the eraser, which does not look at the    *)
(* state when it ends, finds no released session, and the sessions of a    *)
(* release stay RELEASED (StaysReleased).                                  *)
(***************************************************************************)
EXTENDS Release, TLAPS

Jobs == [state : LeaseStates, attempt : Nat, ripe : BOOLEAN,
         leasedBy : Workers \cup {NoOne}, requeues : Nat]
Erasures == [state : LeaseStates, attempt : Nat, ripe : BOOLEAN,
             leasedBy : Workers \cup {NoOne}, requeues : Nat,
             session : Sessions \cup {NoOne}, keys : SUBSET Objects]

UnderWay == {"queued", "leased", "blocked"}
Pending == {"queued", "leased", "blocked", "dead_letter"}
InProgress == {"queued", "leased"}

(* The types the argument rests on.                                        *)
Typed ==
  /\ state \in [Sessions -> SessionStates \cup {"absent"}]
  /\ DOMAIN plan = Plans /\ \A p \in Plans : plan[p].session \in Sessions \cup {NoOne}
  /\ job \in [Plans -> Jobs]
  /\ req \in [Requests -> Erasures]
  /\ duty \in [Workers -> Plans \cup Requests \cup {NoOne}]

Excluded ==
  \A p \in Plans, r \in Requests :
    /\ job[p].state \in InProgress
    /\ plan[p].session = req[r].session
    /\ plan[p].session \in Sessions
    => req[r].state \notin Pending

NotReleasedUnderErasure ==
  \A r \in Requests :
    /\ req[r].state \in Pending => req[r].session \in Sessions
    /\ req[r].state \in UnderWay => state[req[r].session] # "RELEASED"

ReviewInv == Typed /\ Excluded /\ NotReleasedUnderErasure

StaysReleased ==
  \A id \in releases : id.sessions \subseteq Sessions /\ \A s \in id.sessions : state[s] = "RELEASED"

-----------------------------------------------------------------------------
(* Rows *)

LEMMA JobRowFacts ==
  ASSUME NEW row \in Jobs, NEW w \in Workers
  PROVE  /\ Leased(row, w) \in Jobs /\ Leased(row, w).state = "leased"
         /\ \A to \in LeaseStates : Settled(row, to) \in Jobs /\ Settled(row, to).state = to
         /\ Requeued(row) \in Jobs /\ Requeued(row).state \in {"queued", "dead_letter"}
         /\ [row EXCEPT !.ripe = TRUE] \in Jobs
         /\ [row EXCEPT !.ripe = TRUE].state = row.state
<1> USE BoundsAssumption DEF Jobs, LeaseStates
<1>1. Leased(row, w) \in Jobs /\ Leased(row, w).state = "leased"
  <2> DEFINE a == IF row.attempt < MaxAttempts THEN row.attempt + 1 ELSE row.attempt
  <2>1. a \in Nat
    OBVIOUS
  <2>2. Leased(row, w) = [row EXCEPT !.state = "leased", !.leasedBy = w, !.ripe = FALSE,
                                     !.attempt = a]
    BY DEF Leased
  <2> HIDE DEF a
  <2> QED
    BY <2>1, <2>2
<1>2. ASSUME NEW to \in LeaseStates
      PROVE  Settled(row, to) \in Jobs /\ Settled(row, to).state = to
  BY DEF Settled
<1>3. Requeued(row) \in Jobs /\ Requeued(row).state \in {"queued", "dead_letter"}
  BY <1>2 DEF Requeued
<1>4. /\ [row EXCEPT !.ripe = TRUE] \in Jobs
      /\ [row EXCEPT !.ripe = TRUE].state = row.state
  OBVIOUS
<1> QED
  BY <1>1, <1>2, <1>3, <1>4

LEMMA NewJobFacts ==
  /\ NoRow \in Jobs /\ NoRow.state = "absent"
  /\ QueuedRow \in Jobs
  /\ \A row \in Jobs : Revived(row) \in Jobs
<1> USE DEF Jobs, LeaseStates
<1>1. NoRow \in Jobs /\ NoRow.state = "absent"
  BY DEF NoRow
<1>2. QueuedRow \in Jobs
  BY <1>1 DEF QueuedRow
<1>3. ASSUME NEW row \in Jobs PROVE Revived(row) \in Jobs
  <2> DEFINE n == row.requeues + 1
  <2>1. n \in Nat
    OBVIOUS
  <2>2. Revived(row) = [row EXCEPT !.state = "queued", !.attempt = 0, !.ripe = TRUE,
                                   !.requeues = n]
    BY DEF Revived
  <2>3. 0 \in Nat
    OBVIOUS
  <2> HIDE DEF n
  <2> QED
    BY <2>1, <2>2, <2>3
<1> QED
  BY <1>1, <1>2, <1>3

LEMMA RequestRowFacts ==
  ASSUME NEW row \in Erasures, NEW w \in Workers
  PROVE  /\ /\ Leased(row, w) \in Erasures /\ Leased(row, w).state = "leased"
            /\ Leased(row, w).session = row.session
         /\ \A to \in LeaseStates :
              /\ Settled(row, to) \in Erasures /\ Settled(row, to).state = to
              /\ Settled(row, to).session = row.session
         /\ /\ Requeued(row) \in Erasures /\ Requeued(row).state \in {"queued", "dead_letter"}
            /\ Requeued(row).session = row.session
         /\ /\ [row EXCEPT !.ripe = TRUE] \in Erasures
            /\ [row EXCEPT !.ripe = TRUE].state = row.state
            /\ [row EXCEPT !.ripe = TRUE].session = row.session
<1> USE BoundsAssumption DEF Erasures, LeaseStates
<1>1. /\ Leased(row, w) \in Erasures /\ Leased(row, w).state = "leased"
      /\ Leased(row, w).session = row.session
  <2> DEFINE a == IF row.attempt < MaxAttempts THEN row.attempt + 1 ELSE row.attempt
  <2>1. a \in Nat
    OBVIOUS
  <2>2. Leased(row, w) = [row EXCEPT !.state = "leased", !.leasedBy = w, !.ripe = FALSE,
                                     !.attempt = a]
    BY DEF Leased
  <2> HIDE DEF a
  <2> QED
    BY <2>1, <2>2
<1>2. ASSUME NEW to \in LeaseStates
      PROVE  /\ Settled(row, to) \in Erasures /\ Settled(row, to).state = to
             /\ Settled(row, to).session = row.session
  BY DEF Settled
<1>3. /\ Requeued(row) \in Erasures /\ Requeued(row).state \in {"queued", "dead_letter"}
      /\ Requeued(row).session = row.session
  BY <1>2 DEF Requeued
<1>4. /\ [row EXCEPT !.ripe = TRUE] \in Erasures
      /\ [row EXCEPT !.ripe = TRUE].state = row.state
      /\ [row EXCEPT !.ripe = TRUE].session = row.session
  OBVIOUS
<1> QED
  BY <1>1, <1>2, <1>3, <1>4

LEMMA NewRequestFacts ==
  /\ NoRequest \in Erasures /\ NoRequest.state = "absent"
  /\ \A s \in Sessions, keys \in SUBSET Objects :
       Request(s, keys) \in Erasures /\ Request(s, keys).session = s
  /\ \A row \in Erasures : Revived(row) \in Erasures /\ Revived(row).session = row.session
<1> USE DEF Erasures, LeaseStates
<1>1. NoRequest \in Erasures /\ NoRequest.state = "absent"
  BY DEF NoRequest, Request
<1>2. ASSUME NEW s \in Sessions, NEW keys \in SUBSET Objects
      PROVE  Request(s, keys) \in Erasures /\ Request(s, keys).session = s
  BY DEF Request
<1>3. ASSUME NEW row \in Erasures
      PROVE  Revived(row) \in Erasures /\ Revived(row).session = row.session
  <2> DEFINE n == row.requeues + 1
  <2>1. n \in Nat
    OBVIOUS
  <2>2. Revived(row) = [row EXCEPT !.state = "queued", !.attempt = 0, !.ripe = TRUE,
                                   !.requeues = n]
    BY DEF Revived
  <2>3. 0 \in Nat
    OBVIOUS
  <2> HIDE DEF n
  <2> QED
    BY <2>1, <2>2, <2>3
<1> QED
  BY <1>1, <1>2, <1>3

-----------------------------------------------------------------------------
(* Steps by what they change *)

LEMMA RowsUntouched ==
  ASSUME ReviewInv, UNCHANGED <<state, plan, job, req>>,
         duty' \in [Workers -> Plans \cup Requests \cup {NoOne}]
  PROVE  ReviewInv'
  BY DEF ReviewInv, Typed, Excluded, NotReleasedUnderErasure

LEMMA JobsSettle ==
  ASSUME ReviewInv, UNCHANGED <<state, plan, req>>, job' \in [Plans -> Jobs],
         \A p \in Plans : job'[p].state \in InProgress => job[p].state \in InProgress,
         duty' \in [Workers -> Plans \cup Requests \cup {NoOne}]
  PROVE  ReviewInv'
  BY DEF ReviewInv, Typed, Excluded, NotReleasedUnderErasure

LEMMA RequestsSettle ==
  ASSUME ReviewInv, UNCHANGED <<state, plan, job>>, req' \in [Requests -> Erasures],
         \A r \in Requests :
           /\ req'[r].session = req[r].session
           /\ req'[r].state \in Pending => req[r].state \in Pending
           /\ req'[r].state \in UnderWay => req[r].state \in UnderWay,
         duty' \in [Workers -> Plans \cup Requests \cup {NoOne}]
  PROVE  ReviewInv'
  BY DEF ReviewInv, Typed, Excluded, NotReleasedUnderErasure, Pending, UnderWay

LEMMA FreeIsTyped ==
  ASSUME Typed, NEW w \in Workers, IsFree(w)
  PROVE  duty' \in [Workers -> Plans \cup Requests \cup {NoOne}]
  BY DEF Typed, IsFree

-----------------------------------------------------------------------------
(* Reviewers and administrators *)

(* A plan goes only where no erasure is pending.                           *)
LEMMA InsertPlanKeeps ==
  ASSUME Typed, Excluded, NEW s \in Sessions, NEW p \in Plans, InsertPlan(s, p),
         UNCHANGED req
  PROVE  /\ DOMAIN plan' = Plans /\ \A q \in Plans : plan'[q].session \in Sessions \cup {NoOne}
         /\ job' \in [Plans -> Jobs]
         /\ Excluded'
<1>1. /\ DOMAIN plan' = Plans /\ plan'[p].session = s
      /\ \A q \in Plans \ {p} : plan'[q] = plan[q]
  BY DEF Typed, InsertPlan
<1>2. job' \in [Plans -> Jobs] /\ \A q \in Plans \ {p} : job'[q] = job[q]
  BY NewJobFacts DEF Typed, InsertPlan
<1>3. \A r \in Requests : req[r].session = s => req[r].state \notin Pending
  BY DEF InsertPlan, ErasurePending, Pending
<1> QED
  BY <1>1, <1>2, <1>3 DEF Typed, Excluded

LEMMA SubmitReviewStep ==
  ASSUME ReviewInv, NEW s \in Sessions, NEW v, NEW decision \in Decisions, NEW passed,
         NEW p \in Plans \cup {NoOne}, NEW n \in Sessions \cup {NoOne},
         SubmitReview(s, v, decision, passed, p, n)
  PROVE  /\ ReviewInv'
         /\ \A t \in Sessions : state[t] \in {"RELEASED", "DELETED"} => state'[t] = state[t]
         /\ \A t \in Sessions : state'[t] \in {"RELEASED", "DELETED"} => state'[t] = state[t]
<1> USE DEF ReviewInv
<1>1. Target[decision] \in {"ACCEPTED", "REJECTED", "REWORK_REQUIRED"}
  BY DEF Target, Decisions
<1>2. /\ state' \in [Sessions -> SessionStates \cup {"absent"}]
      /\ \A t \in Sessions : \/ state'[t] = state[t]
                             \/ /\ state[t] \in {"READY_FOR_REVIEW", "absent"}
                                /\ state'[t] \in {"ACCEPTED", "REJECTED", "REWORK_REQUIRED", "ASSIGNED"}
  <2>1. CASE state' = [state EXCEPT ![s] = Target[decision]]
    BY <1>1, <2>1 DEF Typed, SubmitReview, SessionStates
  <2>2. CASE /\ n \in Sessions /\ state[n] = "absent"
             /\ state' = [state EXCEPT ![s] = Target[decision], ![n] = "ASSIGNED"]
    BY <1>1, <2>2 DEF Typed, SubmitReview, SessionStates
  <2> QED
    BY <2>1, <2>2 DEF SubmitReview, Decide
<1>3. /\ DOMAIN plan' = Plans /\ \A q \in Plans : plan'[q].session \in Sessions \cup {NoOne}
      /\ job' \in [Plans -> Jobs]
      /\ Excluded'
  <2>1. UNCHANGED req
    BY DEF SubmitReview, erasureVars
  <2>2. CASE UNCHANGED redactionVars
    BY <2>1, <2>2 DEF Typed, Excluded, redactionVars
  <2>3. CASE p \in Plans /\ InsertPlan(s, p)
    BY <2>1, <2>3, InsertPlanKeeps
  <2> QED
    BY <2>2, <2>3 DEF SubmitReview, ApprovePlan
<1>4. Typed'
  BY <1>2, <1>3 DEF Typed, SubmitReview, erasureVars, workerVars
<1>5. NotReleasedUnderErasure'
  BY <1>2 DEF NotReleasedUnderErasure, SubmitReview, erasureVars, Pending, UnderWay
<1> QED
  BY <1>2, <1>3, <1>4, <1>5

LEMMA CreateRedactionPlanStep ==
  ASSUME ReviewInv, NEW s \in Sessions, NEW p \in Plans, CreateRedactionPlan(s, p)
  PROVE  ReviewInv'
<1>1. UNCHANGED <<state, req, duty>>
  BY DEF CreateRedactionPlan, sessionVars, erasureVars, workerVars
<1>2. /\ DOMAIN plan' = Plans /\ \A q \in Plans : plan'[q].session \in Sessions \cup {NoOne}
      /\ job' \in [Plans -> Jobs]
      /\ Excluded'
  BY <1>1, InsertPlanKeeps DEF ReviewInv, CreateRedactionPlan
<1> QED
  BY <1>1, <1>2 DEF ReviewInv, Typed, NotReleasedUnderErasure

LEMMA RetryDeadLetterRedactionJobStep ==
  ASSUME ReviewInv, NEW p \in Plans, RetryDeadLetterRedactionJob(p)
  PROVE  ReviewInv'
<1>1. UNCHANGED <<state, plan, req, duty>>
  BY DEF RetryDeadLetterRedactionJob, sessionVars, erasureVars, workerVars
<1>2. job' \in [Plans -> Jobs] /\ \A q \in Plans \ {p} : job'[q] = job[q]
  BY NewJobFacts DEF ReviewInv, Typed, RetryDeadLetterRedactionJob
<1>3. \A r \in Requests : req[r].session = plan[p].session => req[r].state \notin Pending
  BY DEF RetryDeadLetterRedactionJob, ErasurePending, Pending
<1> QED
  BY <1>1, <1>2, <1>3 DEF ReviewInv, Typed, Excluded, NotReleasedUnderErasure

LEMMA InventoryType ==
  ASSUME NEW s \in Sessions
  PROVE  sessionObjectKeys(s) \in SUBSET Objects
<1>1. Evidence(s) \subseteq Objects
  BY DEF Objects
<1>2. \A p \in Plans : Outputs(p) \subseteq Objects
  BY DEF Objects
<1> QED
  BY <1>1, <1>2 DEF sessionObjectKeys

(* An erasure is requested only where no redaction is in progress and in a *)
(* state that is not RELEASED.                                             *)
LEMMA RequestSessionDeletionStep ==
  ASSUME ReviewInv, NEW s \in Sessions, NEW r \in Requests, RequestSessionDeletion(s, r)
  PROVE  ReviewInv'
<1>1. UNCHANGED <<state, plan, job, duty>>
  BY DEF RequestSessionDeletion, sessionVars, redactionVars, workerVars
<1>2. /\ req' \in [Requests -> Erasures] /\ req'[r].session = s
      /\ \A q \in Requests \ {r} : req'[q] = req[q]
  BY NewRequestFacts, InventoryType DEF ReviewInv, Typed, RequestSessionDeletion
<1>3. \A p \in Plans : plan[p].session = s => job[p].state \notin InProgress
  BY DEF RequestSessionDeletion, RedactionInProgress, InProgress
<1>4. state[s] # "RELEASED"
  BY DEF RequestSessionDeletion, Deletable
<1>5. Typed' /\ Excluded'
  BY <1>1, <1>2, <1>3 DEF ReviewInv, Typed, Excluded
<1>6. NotReleasedUnderErasure'
  BY <1>1, <1>2, <1>4 DEF ReviewInv, NotReleasedUnderErasure
<1> QED
  BY <1>5, <1>6 DEF ReviewInv

LEMMA RetryDeadLetterDeletionRequestStep ==
  ASSUME ReviewInv, NEW r \in Requests, RetryDeadLetterDeletionRequest(r)
  PROVE  ReviewInv'
<1>1. UNCHANGED <<state, plan, job, duty>>
  BY DEF RetryDeadLetterDeletionRequest, sessionVars, redactionVars, workerVars
<1>2. /\ req' \in [Requests -> Erasures] /\ req'[r].session = req[r].session
      /\ \A q \in Requests \ {r} : req'[q] = req[q]
  BY NewRequestFacts DEF ReviewInv, Typed, RetryDeadLetterDeletionRequest
<1>3. req[r].state \in Pending /\ state[req[r].session] \in Deletable
  BY DEF RetryDeadLetterDeletionRequest, Pending
<1>4. Typed' /\ Excluded'
  BY <1>1, <1>2, <1>3 DEF ReviewInv, Typed, Excluded
<1>5. NotReleasedUnderErasure'
  BY <1>1, <1>2, <1>3 DEF ReviewInv, NotReleasedUnderErasure, Deletable
<1> QED
  BY <1>4, <1>5 DEF ReviewInv

LEMMA ReleaseLegalHoldStep ==
  ASSUME ReviewInv, NEW s \in Sessions, ReleaseLegalHold(s)
  PROVE  ReviewInv'
<1>1. UNCHANGED <<state, plan, job, duty>>
  BY DEF ReleaseLegalHold, sessionVars, redactionVars, workerVars
<1>2. ASSUME NEW r \in Requests
      PROVE  /\ req'[r] \in Erasures /\ req'[r].session = req[r].session
             /\ \/ req'[r].state = req[r].state
                \/ req'[r].state = "queued" /\ req[r].state = "blocked"
  <2>1. req[r] \in Erasures
    BY DEF ReviewInv, Typed
  <2>2. req'[r] = req[r] \/ (/\ req'[r] = [req[r] EXCEPT !.state = "queued", !.ripe = TRUE]
                            /\ req[r].state = "blocked")
    BY DEF ReleaseLegalHold
  <2> QED
    BY <2>1, <2>2 DEF Erasures, LeaseStates
<1>3. req' \in [Requests -> Erasures]
  BY <1>2 DEF ReleaseLegalHold
<1> QED
  BY <1>1, <1>2, <1>3, RequestsSettle DEF ReviewInv, Typed, Pending, UnderWay

-----------------------------------------------------------------------------
(* Workers and the clock *)

LEMMA RequeueRedactionJobFacts ==
  ASSUME Typed, NEW w \in Workers, duty[w] \in Plans, RequeueRedactionJob(w)
  PROVE  /\ job' \in [Plans -> Jobs]
         /\ \A p \in Plans : job'[p].state \in InProgress => job[p].state \in InProgress
         /\ duty' \in [Workers -> Plans \cup Requests \cup {NoOne}]
<1>1. duty' \in [Workers -> Plans \cup Requests \cup {NoOne}]
  BY FreeIsTyped DEF RequeueRedactionJob
<1>2. job \in [Plans -> Jobs] /\ job[duty[w]] \in Jobs
  BY DEF Typed
<1>3. CASE job' = job
  BY <1>1, <1>2, <1>3
<1>4. CASE /\ LeasedTo(job[duty[w]], w)
           /\ job' = [job EXCEPT ![duty[w]] = Requeued(job[duty[w]])]
  BY <1>1, <1>2, <1>4, JobRowFacts DEF LeasedTo, InProgress
<1> QED
  BY <1>3, <1>4 DEF RequeueRedactionJob

LEMMA RequeueDeletionRequestFacts ==
  ASSUME Typed, NEW w \in Workers, duty[w] \in Requests, RequeueDeletionRequest(w)
  PROVE  /\ req' \in [Requests -> Erasures]
         /\ \A r \in Requests :
              /\ req'[r].session = req[r].session
              /\ req'[r].state \in Pending => req[r].state \in Pending
              /\ req'[r].state \in UnderWay => req[r].state \in UnderWay
         /\ duty' \in [Workers -> Plans \cup Requests \cup {NoOne}]
<1>1. duty' \in [Workers -> Plans \cup Requests \cup {NoOne}]
  BY FreeIsTyped DEF RequeueDeletionRequest
<1>2. req \in [Requests -> Erasures] /\ req[duty[w]] \in Erasures
  BY DEF Typed
<1>3. CASE req' = req
  BY <1>1, <1>2, <1>3
<1>4. CASE /\ LeasedTo(req[duty[w]], w)
           /\ req' = [req EXCEPT ![duty[w]] = Requeued(req[duty[w]])]
  BY <1>1, <1>2, <1>4, RequestRowFacts DEF LeasedTo, Pending, UnderWay
<1> QED
  BY <1>3, <1>4 DEF RequeueDeletionRequest

LEMMA ClaimRedactionJobStep ==
  ASSUME ReviewInv, NEW w \in Workers, NEW p \in Plans, ClaimRedactionJob(w, p)
  PROVE  ReviewInv'
<1>1. job' \in [Plans -> Jobs]
      /\ \A q \in Plans : job'[q].state \in InProgress => job[q].state \in InProgress
  <2>1. job \in [Plans -> Jobs] /\ job[p].state \in InProgress
    BY DEF ReviewInv, Typed, ClaimRedactionJob, Due, InProgress
  <2>2. job' = [job EXCEPT ![p] = Leased(job[p], w)] /\ Leased(job[p], w) \in Jobs
    BY <2>1, JobRowFacts DEF ClaimRedactionJob
  <2> QED
    BY <2>1, <2>2
<1>2. duty' \in [Workers -> Plans \cup Requests \cup {NoOne}]
  BY DEF ReviewInv, Typed, ClaimRedactionJob, TakesOn
<1> QED
  BY <1>1, <1>2, JobsSettle DEF ClaimRedactionJob, sessionVars, erasureVars

LEMMA CompleteRedactionJobStep ==
  ASSUME ReviewInv, NEW w \in Workers, CompleteRedactionJob(w)
  PROVE  ReviewInv'
<1>1. duty[w] \in Plans /\ UNCHANGED <<state, plan, req>>
  BY DEF CompleteRedactionJob, AllWritten, sessionVars, erasureVars
<1>2. CASE RequeueRedactionJob(w)
  BY <1>1, <1>2, RequeueRedactionJobFacts, JobsSettle DEF ReviewInv
<1>3. CASE job' = [job EXCEPT ![duty[w]] = Settled(job[duty[w]], "completed")] /\ IsFree(w)
  <2>1. job \in [Plans -> Jobs] /\ job[duty[w]] \in Jobs
    BY <1>1 DEF ReviewInv, Typed
  <2>2. /\ Settled(job[duty[w]], "completed") \in Jobs
        /\ Settled(job[duty[w]], "completed").state = "completed"
    BY <2>1, JobRowFacts DEF LeaseStates
  <2>3. /\ job' \in [Plans -> Jobs]
        /\ \A p \in Plans : job'[p].state \in InProgress => job[p].state \in InProgress
    BY <1>1, <1>3, <2>1, <2>2 DEF InProgress
  <2> QED
    BY <1>1, <1>3, <2>3, FreeIsTyped, JobsSettle DEF ReviewInv
<1> QED
  BY <1>2, <1>3 DEF CompleteRedactionJob

LEMMA ClaimDeletionRequestStep ==
  ASSUME ReviewInv, NEW w \in Workers, NEW r \in Requests, ClaimDeletionRequest(w, r)
  PROVE  ReviewInv'
<1>1. UNCHANGED <<state, plan, job>>
  BY DEF ClaimDeletionRequest, sessionVars, redactionVars
<1>2. req \in [Requests -> Erasures] /\ req[r] \in Erasures /\ req[r].state \in UnderWay
  BY DEF ReviewInv, Typed, ClaimDeletionRequest, Due, UnderWay
<1>3. PICK new \in Erasures : /\ req' = [req EXCEPT ![r] = new]
                              /\ new.session = req[r].session
  <2>1. ASSUME NEW new \in {Settled(req[r], "dead_letter"), Settled(req[r], "blocked"),
                            Leased(req[r], w)}
        PROVE  new \in Erasures /\ new.session = req[r].session
    <3>1. "dead_letter" \in LeaseStates /\ "blocked" \in LeaseStates
      BY DEF LeaseStates
    <3>2. \A to \in LeaseStates : /\ Settled(req[r], to) \in Erasures
                                  /\ Settled(req[r], to).session = req[r].session
      BY <1>2, RequestRowFacts
    <3>3. Leased(req[r], w) \in Erasures /\ Leased(req[r], w).session = req[r].session
      BY <1>2, RequestRowFacts
    <3> QED
      BY <3>1, <3>2, <3>3
  <2>2. \E new \in {Settled(req[r], "dead_letter"), Settled(req[r], "blocked"),
                    Leased(req[r], w)} : req' = [req EXCEPT ![r] = new]
    BY DEF ClaimDeletionRequest
  <2> QED
    BY <2>1, <2>2
<1>4. duty' \in [Workers -> Plans \cup Requests \cup {NoOne}]
  BY DEF ReviewInv, Typed, ClaimDeletionRequest, TakesOn, workerVars
<1>5. req' \in [Requests -> Erasures]
  BY <1>2, <1>3
<1>6. ASSUME NEW q \in Requests
      PROVE  /\ req'[q].session = req[q].session
             /\ req'[q].state \in Pending => req[q].state \in Pending
             /\ req'[q].state \in UnderWay => req[q].state \in UnderWay
  BY <1>2, <1>3 DEF Pending, UnderWay
<1> QED
  BY <1>1, <1>4, <1>5, <1>6, RequestsSettle

(* The session of a leased request is not RELEASED: the eraser need not    *)
(* look.                                                                   *)
LEMMA CompleteDeletionRequestStep ==
  ASSUME ReviewInv, NEW w \in Workers, CompleteDeletionRequest(w)
  PROVE  /\ ReviewInv'
         /\ \E s \in Sessions : state[s] # "RELEASED" /\ state' = [state EXCEPT ![s] = "DELETED"]
<1> DEFINE r == duty[w]
           s == req[r].session
<1>1. /\ r \in Requests /\ req[r] \in Erasures /\ req[r].state = "leased"
      /\ state' = [state EXCEPT ![s] = "DELETED"]
  BY DEF ReviewInv, Typed, CompleteDeletionRequest, MayErase, LeasedTo
<1>2. s \in Sessions /\ state[s] # "RELEASED"
  BY <1>1 DEF ReviewInv, NotReleasedUnderErasure, Pending, UnderWay
<1>3. /\ req' \in [Requests -> Erasures] /\ req'[r].state = "completed"
      /\ req'[r].session = req[r].session
      /\ \A q \in Requests \ {r} : req'[q] = req[q]
  <2>1. /\ Settled(req[r], "completed") \in Erasures
        /\ Settled(req[r], "completed").state = "completed"
        /\ Settled(req[r], "completed").session = req[r].session
    BY <1>1, RequestRowFacts DEF LeaseStates
  <2> QED
    BY <1>1, <2>1 DEF ReviewInv, Typed, CompleteDeletionRequest
<1>4. /\ job' \in [Plans -> Jobs]
      /\ \A p \in Plans : job'[p] \in {job[p], NoRow}
  BY NewJobFacts DEF ReviewInv, Typed, CompleteDeletionRequest
<1>5. duty' \in [Workers -> Plans \cup Requests \cup {NoOne}] /\ plan' = plan
  BY FreeIsTyped DEF ReviewInv, CompleteDeletionRequest
<1>6. /\ state' \in [Sessions -> SessionStates \cup {"absent"}]
      /\ \A t \in Sessions : state'[t] \in {state[t], "DELETED"}
  BY <1>1, <1>2 DEF ReviewInv, Typed, SessionStates
<1> HIDE DEF r, s
<1>7. Typed'
  BY <1>3, <1>4, <1>5, <1>6 DEF ReviewInv, Typed
<1>8. Excluded'
  BY <1>3, <1>4, <1>5, NewJobFacts DEF ReviewInv, Excluded, InProgress, Pending
<1>9. NotReleasedUnderErasure'
  BY <1>3, <1>6 DEF ReviewInv, NotReleasedUnderErasure, Pending, UnderWay
<1> QED
  BY <1>1, <1>2, <1>7, <1>8, <1>9 DEF ReviewInv

LEMMA WorkerStepStep ==
  ASSUME ReviewInv, NEW w \in Workers, WorkerStep(w)
  PROVE  /\ ReviewInv'
         /\ \/ UNCHANGED state
            \/ \E s \in Sessions : state[s] # "RELEASED" /\ state' = [state EXCEPT ![s] = "DELETED"]
<1>1. ASSUME NEW p \in Plans, ClaimRedactionJob(w, p) PROVE ReviewInv' /\ UNCHANGED state
  BY <1>1, ClaimRedactionJobStep DEF ClaimRedactionJob, sessionVars
<1>2. CASE ReadSource(w)
  BY <1>2, RowsUntouched
  DEF ReviewInv, Typed, ReadSource, sessionVars, redactionVars, erasureVars
<1>3. CASE WriteOutput(w)
  BY <1>3, RowsUntouched
  DEF ReviewInv, Typed, WriteOutput, sessionVars, redactionVars, erasureVars
<1>4. CASE CompleteRedactionJob(w)
  BY <1>4, CompleteRedactionJobStep DEF CompleteRedactionJob, sessionVars
<1>5. ASSUME NEW r \in Requests, ClaimDeletionRequest(w, r) PROVE ReviewInv' /\ UNCHANGED state
  BY <1>5, ClaimDeletionRequestStep DEF ClaimDeletionRequest, sessionVars
<1>6. CASE PurgeObject(w)
  BY <1>6, RowsUntouched
  DEF ReviewInv, Typed, PurgeObject, sessionVars, redactionVars, erasureVars
<1>7. CASE EraserIsRefused(w)
  <2>1. duty[w] \in Requests /\ UNCHANGED <<state, plan, job>>
    BY <1>7 DEF EraserIsRefused, sessionVars, redactionVars
  <2> QED
    BY <1>7, <2>1, RequeueDeletionRequestFacts, RequestsSettle DEF ReviewInv, EraserIsRefused
<1> QED
  BY <1>1, <1>2, <1>3, <1>4, <1>5, <1>6, <1>7, CompleteDeletionRequestStep DEF WorkerStep

LEMMA WorkerFaultStep ==
  ASSUME ReviewInv, NEW w \in Workers, RedactionFails(w) \/ PurgeFails(w) \/ WorkerCrashes(w)
  PROVE  ReviewInv' /\ UNCHANGED state
<1>1. CASE RedactionFails(w)
  <2>1. duty[w] \in Plans /\ UNCHANGED <<state, plan, req>>
    BY <1>1 DEF RedactionFails, sessionVars, erasureVars
  <2> QED
    BY <1>1, <2>1, RequeueRedactionJobFacts, JobsSettle DEF ReviewInv, RedactionFails
<1>2. CASE PurgeFails(w)
  <2>1. duty[w] \in Requests /\ UNCHANGED <<state, plan, job>>
    BY <1>2 DEF PurgeFails, sessionVars, redactionVars
  <2> QED
    BY <1>2, <2>1, RequeueDeletionRequestFacts, RequestsSettle DEF ReviewInv, PurgeFails
<1>3. CASE WorkerCrashes(w)
  BY <1>3, FreeIsTyped, RowsUntouched
  DEF ReviewInv, WorkerCrashes, sessionVars, redactionVars, erasureVars
<1> QED
  BY <1>1, <1>2, <1>3

LEMMA ClockStepStep ==
  ASSUME ReviewInv, ClockStep
  PROVE  ReviewInv' /\ UNCHANGED state
<1> USE DEF sessionVars, redactionVars, erasureVars, workerVars
<1>1. ASSUME NEW p \in Plans, JobRipens(p) PROVE ReviewInv' /\ UNCHANGED state
  <2>1. job \in [Plans -> Jobs] /\ job' = [job EXCEPT ![p].ripe = TRUE]
    BY <1>1 DEF ReviewInv, Typed, JobRipens
  <2>2. job' \in [Plans -> Jobs] /\ \A q \in Plans : job'[q].state = job[q].state
    BY <2>1 DEF Jobs
  <2> QED
    BY <1>1, <2>2, JobsSettle DEF ReviewInv, Typed, JobRipens
<1>2. ASSUME NEW r \in Requests, RequestRipens(r) PROVE ReviewInv' /\ UNCHANGED state
  <2>1. req \in [Requests -> Erasures] /\ req' = [req EXCEPT ![r].ripe = TRUE]
    BY <1>2 DEF ReviewInv, Typed, RequestRipens
  <2>2. /\ req' \in [Requests -> Erasures]
        /\ \A q \in Requests : req'[q].state = req[q].state /\ req'[q].session = req[q].session
    BY <2>1 DEF Erasures
  <2> QED
    BY <1>2, <2>2, RequestsSettle DEF ReviewInv, Typed, RequestRipens
<1> QED
  BY <1>1, <1>2 DEF ClockStep

LEMMA AdministratorStepStep ==
  ASSUME ReviewInv, AdministratorStep
  PROVE  ReviewInv' /\ UNCHANGED state
<1> USE DEF sessionVars, redactionVars, erasureVars, workerVars
<1>1. ASSUME NEW s \in Sessions, PlaceLegalHold(s) PROVE ReviewInv' /\ UNCHANGED state
  BY <1>1, RowsUntouched DEF ReviewInv, Typed, PlaceLegalHold
<1>2. UNCHANGED state
  BY DEF AdministratorStep, RetryDeadLetterRedactionJob, PlaceLegalHold, ReleaseLegalHold,
         RequestSessionDeletion, RetryDeadLetterDeletionRequest
<1> QED
  BY <1>1, <1>2, RetryDeadLetterRedactionJobStep, ReleaseLegalHoldStep,
     RequestSessionDeletionStep, RetryDeadLetterDeletionRequestStep
  DEF AdministratorStep

LEMMA ReviewerStepStep ==
  ASSUME ReviewInv, ReviewerStep
  PROVE  /\ ReviewInv'
         /\ \A t \in Sessions : state[t] \in {"RELEASED", "DELETED"} => state'[t] = state[t]
         /\ \A t \in Sessions : state'[t] \in {"RELEASED", "DELETED"} => state'[t] = state[t]
<1> USE DEF sessionVars, redactionVars, erasureVars, workerVars
<1>1. PICK s \in Sessions :
        \/ ClaimExpires(s)
        \/ \E v \in Reviewers :
             \/ ClaimReview(s, v)
             \/ ReleaseReview(s, v)
             \/ \E decision \in Decisions, passed \in BOOLEAN,
                  p \in Plans \cup {NoOne}, n \in Sessions \cup {NoOne} :
                  SubmitReview(s, v, decision, passed, p, n)
        \/ \E p \in Plans : CreateRedactionPlan(s, p)
  BY DEF ReviewerStep
<1>2. CASE ClaimExpires(s) \/ \E v \in Reviewers : ClaimReview(s, v) \/ ReleaseReview(s, v)
  BY <1>2, RowsUntouched DEF ReviewInv, Typed, ClaimExpires, ClaimReview, ReleaseReview
<1>3. ASSUME NEW p \in Plans, CreateRedactionPlan(s, p) PROVE ReviewInv' /\ UNCHANGED state
  BY <1>3, CreateRedactionPlanStep DEF CreateRedactionPlan
<1> QED
  BY <1>1, <1>2, <1>3, SubmitReviewStep

(* Reviewers, administrators, workers and the clock neither publish nor    *)
(* take back.                                                              *)
LEMMA ReviewNextStep ==
  ASSUME ReviewInv, ReviewNext
  PROVE  /\ ReviewInv'
         /\ \A s \in Sessions : state[s] = "RELEASED" => state'[s] = "RELEASED"
<1>1. ASSUME NEW w \in Workers, WorkerStep(w)
      PROVE  \A s \in Sessions : state[s] = "RELEASED" => state'[s] = "RELEASED"
  BY <1>1, WorkerStepStep DEF ReviewInv, Typed
<1> QED
  BY <1>1, ReviewerStepStep, AdministratorStepStep, ClockStepStep, WorkerStepStep,
     WorkerFaultStep
  DEF ReviewNext

-----------------------------------------------------------------------------
(* Exports *)

Exporting == {"listing", "loading", "writing"}

(* What an export has done: what it has not still to write, it has.        *)
Exports ==
  /\ DOMAIN call = Calls
  /\ \A c \in Calls :
       /\ call[c].phase \in Exporting => call[c].id \in ReleaseIDs
       /\ call[c].phase \in {"loading", "writing"} => call[c].id.sessions # {}
       /\ call[c].phase = "writing" =>
            \A item \in Items(call[c].id) \ call[c].todo : <<call[c].id, item>> \in files

Whole == \A id \in releases : \A item \in Items(id) : <<id, item>> \in files

IInv ==
  /\ ReviewInv /\ Exports
  /\ releases \subseteq ReleaseIDs /\ StaysReleased /\ Whole /\ PublishedOnce

LEMMA GoesFacts ==
  ASSUME DOMAIN call = Calls, NEW c \in Calls, NEW phase, NEW id, NEW todo1,
         Goes(c, phase, id, todo1)
  PROVE  /\ DOMAIN call' = Calls
         /\ \A d \in Calls \ {c} : call'[d] = call[d]
         /\ call'[c].phase = phase /\ call'[c].id = id /\ call'[c].todo = todo1
  BY DEF Goes

(* A call that goes on, while files are at most added.                     *)
LEMMA CallGoesOn ==
  ASSUME Exports, NEW c \in Calls, NEW phase, NEW id, NEW todo1, Goes(c, phase, id, todo1),
         files \subseteq files',
         phase \in Exporting => id \in ReleaseIDs,
         phase \in {"loading", "writing"} => id.sessions # {},
         phase = "writing" => \A item \in Items(id) \ todo1 : <<id, item>> \in files'
  PROVE  Exports'
<1>1. /\ DOMAIN call' = Calls
      /\ \A d \in Calls \ {c} : call'[d] = call[d]
      /\ call'[c].phase = phase /\ call'[c].id = id /\ call'[c].todo = todo1
  BY GoesFacts DEF Exports
<1> QED
  BY <1>1 DEF Exports, Items

LEMMA CallEnds ==
  ASSUME Exports, NEW c \in Calls, Ends(c), files \subseteq files'
  PROVE  Exports'
<1>1. Goes(c, "done", NoOne, {})
  BY DEF Ends
<1> QED
  BY <1>1, CallGoesOn DEF Exporting

(* Everything but the commit leaves the rows alone.                        *)
LEMMA ExportKeepsInv ==
  ASSUME IInv, Exports', UNCHANGED <<sessionVars, redactionVars, erasureVars, workerVars>>,
         UNCHANGED releases, files \subseteq files'
  PROVE  IInv'
<1>1. ReviewInv'
  BY RowsUntouched
  DEF IInv, ReviewInv, Typed, sessionVars, redactionVars, erasureVars, workerVars
<1> QED
  BY <1>1 DEF IInv, StaysReleased, Whole, PublishedOnce, sessionVars

LEMMA StartReleaseStep ==
  ASSUME IInv, NEW c \in Calls, NEW name \in Names, NEW profile \in Profiles,
         NEW wanted \in SUBSET Reviewable, StartRelease(c, name, profile, wanted)
  PROVE  IInv'
<1>1. [name |-> name, profile |-> profile, sessions |-> wanted, plans |-> {}] \in ReleaseIDs
  BY ReviewableAssumption DEF ReleaseIDs
<1>2. files' = files
  BY DEF StartRelease
<1>3. Exports'
  BY <1>1, <1>2, CallEnds, CallGoesOn DEF IInv, StartRelease
<1> QED
  BY <1>2, <1>3, ExportKeepsInv DEF StartRelease, reviewVars

LEMMA ListReleaseCandidatesStep ==
  ASSUME IInv, NEW c \in Calls, ListReleaseCandidates(c)
  PROVE  IInv'
<1> DEFINE id == call[c].id
           listed == IF id.sessions = {} THEN Candidates ELSE id.sessions
           named == [id EXCEPT !.sessions = listed]
<1>1. id \in ReleaseIDs /\ files' = files
  BY DEF IInv, Exports, Exporting, ListReleaseCandidates
<1>2. Candidates \subseteq Sessions
  BY DEF Candidates
<1>3. listed \subseteq Candidates => named \in ReleaseIDs /\ named.sessions = listed
  BY <1>1, <1>2 DEF ReleaseIDs
<1>4. \/ Ends(c)
      \/ /\ listed # {} /\ listed \subseteq Candidates
         /\ \/ Goes(c, "loading", named, listed)
            \/ Goes(c, "writing", named, listed \cup {"manifest", "bundle"})
  BY DEF ListReleaseCandidates
<1> HIDE DEF named, listed, id
<1>5. Exports'
  <2>1. CASE Ends(c)
    BY <1>1, <2>1, CallEnds DEF IInv
  <2>2. CASE listed # {} /\ listed \subseteq Candidates /\ Goes(c, "loading", named, listed)
    BY <1>1, <1>3, <2>2, CallGoesOn DEF IInv
  <2>3. CASE /\ listed # {} /\ listed \subseteq Candidates
             /\ Goes(c, "writing", named, listed \cup {"manifest", "bundle"})
    <3>1. Items(named) = listed \cup {"manifest", "bundle"}
      BY <1>3, <2>3 DEF Items
    <3> QED
      BY <1>1, <1>3, <2>3, <3>1, CallGoesOn DEF IInv
  <2> QED
    BY <1>4, <2>1, <2>2, <2>3
<1> QED
  BY <1>1, <1>5, ExportKeepsInv DEF ListReleaseCandidates, reviewVars

LEMMA loadRedactionStep ==
  ASSUME IInv, NEW c \in Calls, loadRedaction(c)
  PROVE  IInv'
<1> DEFINE id == call[c].id
<1>1. id \in ReleaseIDs /\ id.sessions # {} /\ files' = files
  BY DEF IInv, Exports, Exporting, loadRedaction
<1>2. Exports'
  <2>1. CASE Ends(c)
    BY <1>1, <2>1, CallEnds DEF IInv
  <2>2. ASSUME NEW p \in Plans, NEW left,
               \/ Goes(c, "loading", [id EXCEPT !.plans = @ \cup {p}], left)
               \/ Goes(c, "writing", [id EXCEPT !.plans = @ \cup {p}], Items(id))
        PROVE  Exports'
    <3> DEFINE loaded == [id EXCEPT !.plans = @ \cup {p}]
    <3>1. loaded \in ReleaseIDs /\ loaded.sessions = id.sessions
      BY <1>1 DEF ReleaseIDs
    <3>2. Items(loaded) = Items(id)
      BY <3>1 DEF Items
    <3> HIDE DEF loaded
    <3>3. Goes(c, "loading", loaded, left) \/ Goes(c, "writing", loaded, Items(id))
      BY <2>2 DEF loaded
    <3> QED
      BY <1>1, <3>1, <3>2, <3>3, CallGoesOn DEF IInv
  <2> QED
    BY <2>1, <2>2 DEF loadRedaction
<1> QED
  BY <1>1, <1>2, ExportKeepsInv DEF loadRedaction, reviewVars

LEMMA WriteReleaseFileStep ==
  ASSUME IInv, NEW c \in Calls, WriteReleaseFile(c)
  PROVE  IInv'
<1> DEFINE id == call[c].id
<1>1. /\ id \in ReleaseIDs /\ id.sessions # {} /\ files \subseteq files'
      /\ \A item \in Items(id) \ call[c].todo : <<id, item>> \in files
  BY DEF IInv, Exports, Exporting, WriteReleaseFile
<1>2. Exports'
  <2>1. CASE Ends(c)
    BY <1>1, <2>1, CallEnds DEF IInv
  <2>2. ASSUME NEW item, files' = files \cup {<<id, item>>},
               Goes(c, "writing", id, call[c].todo \ {item})
        PROVE  Exports'
    <3>1. \A x \in Items(id) \ (call[c].todo \ {item}) : <<id, x>> \in files'
      BY <1>1, <2>2
    <3> HIDE DEF id
    <3> QED
      BY <1>1, <2>2, <3>1, CallGoesOn DEF IInv
  <2> QED
    BY <2>1, <2>2 DEF WriteReleaseFile
<1> QED
  BY <1>1, <1>2, ExportKeepsInv DEF WriteReleaseFile, reviewVars

LEMMA ExportFailsStep ==
  ASSUME IInv, NEW c \in Calls, ExportFails(c)
  PROVE  IInv'
<1>1. files \subseteq files'
  BY DEF ExportFails
<1>2. Exports'
  BY <1>1, CallEnds DEF IInv, ExportFails
<1> QED
  BY <1>1, <1>2, ExportKeepsInv DEF ExportFails

(* The commit publishes sessions that are in no other release.             *)
LEMMA CommitReleaseStep ==
  ASSUME IInv, NEW c \in Calls, CommitRelease(c)
  PROVE  IInv'
<1> DEFINE id == call[c].id
<1>1. /\ id \in ReleaseIDs /\ id.sessions # {} /\ files' = files
      /\ \A item \in Items(id) : <<id, item>> \in files
  BY DEF IInv, Exports, Exporting, CommitRelease
<1>2. Exports'
  BY <1>1, CallEnds DEF IInv, CommitRelease
<1>3. UNCHANGED <<plan, job, req, duty>>
  BY DEF CommitRelease, redactionVars, erasureVars, workerVars
<1>4. CASE UNCHANGED <<releases, state>>
  <2>1. ReviewInv'
    BY <1>3, <1>4, RowsUntouched DEF IInv, ReviewInv, Typed
  <2> QED
    BY <1>1, <1>2, <1>4, <2>1 DEF IInv, StaysReleased, Whole, PublishedOnce
<1>5. CASE /\ Committable(id)
           /\ releases' = releases \cup {id}
           /\ state' = [s \in Sessions |-> IF s \in id.sessions THEN "RELEASED" ELSE state[s]]
  <2>1. id.sessions \subseteq Sessions
    BY <1>1 DEF ReleaseIDs
  <2>2. /\ \A r \in releases : r.name # id.name
        /\ \A s \in id.sessions : state[s] = "ACCEPTED"
        /\ \A r \in Requests : req[r].session \in id.sessions => req[r].state \notin UnderWay
    BY <1>5 DEF Committable, ErasureUnderWay, UnderWay
  <2> HIDE DEF id
  <2>3. state' \in [Sessions -> SessionStates \cup {"absent"}]
    BY <1>5 DEF IInv, ReviewInv, Typed, SessionStates
  <2>4. Typed' /\ Excluded'
    BY <1>3, <2>3 DEF IInv, ReviewInv, Typed, Excluded
  <2>5. NotReleasedUnderErasure'
    BY <1>3, <1>5, <2>2 DEF IInv, ReviewInv, NotReleasedUnderErasure, Pending, UnderWay
  <2>6. StaysReleased'
    BY <1>5, <2>1 DEF IInv, StaysReleased
  <2>7. PublishedOnce'
    <3>1. \A r \in releases : r.sessions \cap id.sessions = {}
      BY <2>2 DEF IInv, StaysReleased
    <3> QED
      BY <1>5, <2>2, <3>1 DEF IInv, PublishedOnce
  <2>8. Whole' /\ releases' \subseteq ReleaseIDs
    BY <1>1, <1>5 DEF IInv, Whole
  <2> QED
    BY <1>2, <2>4, <2>5, <2>6, <2>7, <2>8 DEF IInv, ReviewInv
<1> QED
  BY <1>4, <1>5 DEF CommitRelease

LEMMA ReleaseStepStep ==
  ASSUME IInv, NEW c \in Calls, ReleaseStep(c)
  PROVE  IInv'
  BY StartReleaseStep, ListReleaseCandidatesStep, loadRedactionStep, WriteReleaseFileStep,
     ExportFailsStep, CommitReleaseStep
  DEF ReleaseStep

-----------------------------------------------------------------------------
(* The invariant holds *)

LEMMA InitIInv == Init => IInv
<1> SUFFICES ASSUME Init PROVE IInv
  OBVIOUS
<1>1. Typed
  <2>1. state \in [Sessions -> SessionStates \cup {"absent"}]
    BY DEF Init, ReviewInit, SessionStates
  <2>2. DOMAIN plan = Plans /\ \A p \in Plans : plan[p].session \in Sessions \cup {NoOne}
    BY DEF Init, ReviewInit, NoPlan
  <2>3. job \in [Plans -> Jobs]
    BY NewJobFacts DEF Init, ReviewInit
  <2>4. req \in [Requests -> Erasures]
    BY NewRequestFacts DEF Init, ReviewInit
  <2>5. duty \in [Workers -> Plans \cup Requests \cup {NoOne}]
    BY DEF Init, ReviewInit
  <2> QED
    BY <2>1, <2>2, <2>3, <2>4, <2>5 DEF Typed
<1>2. \A r \in Requests : req[r].state = "absent"
  BY NewRequestFacts DEF Init, ReviewInit
<1>3. Excluded /\ NotReleasedUnderErasure
  BY <1>2 DEF Excluded, NotReleasedUnderErasure, Pending, UnderWay
<1>4. Exports
  BY DEF Init, NoCall, Exports, Exporting
<1> QED
  BY <1>1, <1>3, <1>4 DEF Init, IInv, ReviewInv, StaysReleased, Whole, PublishedOnce

LEMMA IInvStep == IInv /\ [Next]_vars => IInv'
<1> SUFFICES ASSUME IInv, [Next]_vars PROVE IInv'
  OBVIOUS
<1>1. CASE ReviewNext /\ UNCHANGED releaseVars
  <2>1. /\ ReviewInv'
        /\ \A s \in Sessions : state[s] = "RELEASED" => state'[s] = "RELEASED"
    BY <1>1, ReviewNextStep DEF IInv
  <2>2. UNCHANGED <<releases, files, call>>
    BY <1>1 DEF releaseVars
  <2>3. Exports'
    BY <2>2 DEF IInv, Exports
  <2>4. StaysReleased'
    BY <2>1, <2>2 DEF IInv, StaysReleased
  <2> QED
    BY <2>1, <2>2, <2>3, <2>4 DEF IInv, Whole, PublishedOnce
<1>2. CASE UNCHANGED vars
  <2>1. /\ UNCHANGED <<state, plan, job, req, duty>>
        /\ UNCHANGED <<releases, files, call>>
    BY <1>2 DEF vars, reviewVars, sessionVars, redactionVars, erasureVars, workerVars, releaseVars
  <2>2. ReviewInv'
    BY <2>1, RowsUntouched DEF IInv, ReviewInv, Typed
  <2>3. Exports' /\ StaysReleased'
    BY <2>1 DEF IInv, Exports, StaysReleased
  <2> QED
    BY <2>1, <2>2, <2>3 DEF IInv, Whole, PublishedOnce
<1> QED
  BY <1>1, <1>2, ReleaseStepStep DEF Next

LEMMA IInvHolds == Spec => []IInv
  BY InitIInv, IInvStep, PTL DEF Spec

(* In every behaviour, redaction and erasure of a session exclude each     *)
(* other (RequestSessionDeletion, CreateRedactionPlan and the two retries  *)
(* of dead-letter rows).                                                   *)
THEOREM RedactionAndErasureExclude == Spec => []RedactionExcludesErasure
<1>1. IInv => RedactionExcludesErasure
  BY DEF IInv, ReviewInv, Excluded, RedactionExcludesErasure, RedactionInProgress,
         InProgress, Pending
<1> QED
  BY <1>1, IInvHolds, PTL

(* In every behaviour, the row of a release is there only when all of its  *)
(* files are (CreateWithProfile).                                          *)
THEOREM ReleasesAreWhole == Spec => []ReleaseIsWhole
<1>1. IInv => ReleaseIsWhole
  BY DEF IInv, Whole, ReleaseIsWhole
<1> QED
  BY <1>1, IInvHolds, PTL

(* In every behaviour, no session and no name is published twice, however  *)
(* exports overlap (CommitRelease).                                        *)
THEOREM PublicationIsOnce == Spec => []PublishedOnce
<1>1. IInv => PublishedOnce
  BY DEF IInv
<1> QED
  BY <1>1, IInvHolds, PTL

-----------------------------------------------------------------------------
(* Refinement *)

acceptedOf == {s \in Sessions : state[s] \in {"ACCEPTED", "RELEASED"}}
publishedOf == {[name |-> id.name, sessions |-> id.sessions] : id \in releases}
erasedOf == {s \in Sessions : state[s] = "DELETED"}

(* What a decision does to the states.                                     *)
LEMMA DecisionFacts ==
  ASSUME state \in [Sessions -> SessionStates \cup {"absent"}], NEW s \in Sessions,
         state[s] = "READY_FOR_REVIEW", NEW decision \in Decisions,
         NEW n \in Sessions \cup {NoOne}, Decide(s, decision, n)
  PROVE  /\ state'[s] \in {"ACCEPTED", "REJECTED", "REWORK_REQUIRED"}
         /\ \A t \in Sessions \ {s} :
              state'[t] = state[t] \/ (state[t] = "absent" /\ state'[t] = "ASSIGNED")
  BY DEF Decide, Decisions, Target

(* No step of a reviewer but an acceptance is seen.                        *)
LEMMA ReviewerContract ==
  ASSUME ReviewInv, ReviewerStep, UNCHANGED releaseVars
  PROVE  [Contract!Next]_(Contract!contractVars)
<1>1. publishedOf' = publishedOf
  BY DEF publishedOf, releaseVars
<1>2. CASE UNCHANGED state
  BY <1>1, <1>2 DEF Contract!contractVars, acceptedOf, publishedOf, erasedOf
<1>3. ASSUME NEW s \in Sessions, NEW v \in Reviewers, NEW decision \in Decisions,
             NEW passed \in BOOLEAN, NEW p \in Plans \cup {NoOne},
             NEW n \in Sessions \cup {NoOne}, SubmitReview(s, v, decision, passed, p, n)
      PROVE  [Contract!Next]_(Contract!contractVars)
  <2>1. /\ state[s] = "READY_FOR_REVIEW"
        /\ state'[s] \in {"ACCEPTED", "REJECTED", "REWORK_REQUIRED"}
        /\ \A t \in Sessions \ {s} :
             state'[t] = state[t] \/ (state[t] = "absent" /\ state'[t] = "ASSIGNED")
    BY <1>3, DecisionFacts DEF ReviewInv, Typed, SubmitReview
  <2>2. s \notin acceptedOf \cup erasedOf /\ erasedOf' = erasedOf
    BY <2>1 DEF acceptedOf, erasedOf
  <2>3. CASE state'[s] = "ACCEPTED"
    <3>1. acceptedOf' = acceptedOf \cup {s}
      BY <2>1, <2>3 DEF acceptedOf
    <3>2. Contract!Accept(s)
      BY <1>1, <2>2, <3>1 DEF Contract!Accept, acceptedOf, publishedOf, erasedOf
    <3> QED
      BY <3>2 DEF Contract!Next
  <2>4. CASE state'[s] # "ACCEPTED"
    <3>1. acceptedOf' = acceptedOf
      BY <2>1, <2>4 DEF acceptedOf
    <3> QED
      BY <1>1, <2>2, <3>1 DEF Contract!contractVars, acceptedOf, publishedOf, erasedOf
  <2> QED
    BY <2>3, <2>4
<1> QED
  BY <1>2, <1>3
  DEF ReviewerStep, ClaimExpires, ClaimReview, ReleaseReview, CreateRedactionPlan, sessionVars

(* The end of an erasure: the session is in no publication.                *)
LEMMA WorkerContract ==
  ASSUME IInv, NEW w \in Workers, WorkerStep(w), UNCHANGED releaseVars
  PROVE  [Contract!Next]_(Contract!contractVars)
<1>1. publishedOf' = publishedOf
  BY DEF publishedOf, releaseVars
<1>2. CASE UNCHANGED state
  BY <1>1, <1>2 DEF Contract!contractVars, acceptedOf, publishedOf, erasedOf
<1>3. ASSUME NEW s \in Sessions, state[s] # "RELEASED", state' = [state EXCEPT ![s] = "DELETED"]
      PROVE  [Contract!Next]_(Contract!contractVars)
  <2>1. state'[s] = "DELETED" /\ \A t \in Sessions \ {s} : state'[t] = state[t]
    BY <1>3 DEF IInv, ReviewInv, Typed
  <2>2. acceptedOf' = acceptedOf \ {s} /\ erasedOf' = erasedOf \cup {s}
    BY <2>1 DEF acceptedOf, erasedOf
  <2>3. \A x \in publishedOf : s \notin x.sessions
    BY <1>3 DEF IInv, StaysReleased, publishedOf
  <2>4. CASE state[s] = "DELETED"
    <3>1. acceptedOf' = acceptedOf /\ erasedOf' = erasedOf
      BY <2>2, <2>4 DEF acceptedOf, erasedOf
    <3> QED
      BY <1>1, <3>1 DEF Contract!contractVars, acceptedOf, publishedOf, erasedOf
  <2>5. CASE state[s] # "DELETED"
    <3>1. s \notin erasedOf
      BY <2>5 DEF erasedOf
    <3>2. s \notin UNION {x.sessions : x \in publishedOf}
      BY <2>3
    <3>3. Contract!Erase(s)
      BY <1>1, <2>2, <3>1, <3>2
      DEF Contract!Erase, Contract!InPublication, acceptedOf, publishedOf, erasedOf
    <3> QED
      BY <3>3 DEF Contract!Next
  <2> QED
    BY <2>4, <2>5
<1> QED
  BY <1>2, <1>3, WorkerStepStep DEF IInv

(* The commit publishes accepted sessions that are in no publication.      *)
LEMMA CommitContract ==
  ASSUME IInv, NEW c \in Calls, CommitRelease(c)
  PROVE  [Contract!Next]_(Contract!contractVars)
<1> DEFINE id == call[c].id
           x == [name |-> id.name, sessions |-> id.sessions]
<1>1. CASE UNCHANGED <<releases, state>>
  BY <1>1 DEF Contract!contractVars
<1>2. CASE /\ Committable(id)
           /\ releases' = releases \cup {id}
           /\ state' = [s \in Sessions |-> IF s \in id.sessions THEN "RELEASED" ELSE state[s]]
  <2>1. id \in ReleaseIDs /\ id.sessions # {}
    BY DEF IInv, Exports, Exporting, CommitRelease
  <2>2. id.name \in Names /\ id.sessions \subseteq Sessions
    BY <2>1 DEF ReleaseIDs
  <2>3. /\ \A r \in releases : r.name # id.name
        /\ \A s \in id.sessions : state[s] = "ACCEPTED"
    BY <1>2 DEF Committable
  <2>4. x \in Contract!Publications /\ x.name = id.name /\ x.sessions = id.sessions
    BY <2>2 DEF Contract!Publications
  <2>5. publishedOf' = publishedOf \cup {x}
    BY <1>2 DEF publishedOf
  <2> HIDE DEF id, x
  <2>6. acceptedOf' = acceptedOf /\ erasedOf' = erasedOf
    BY <1>2, <2>2, <2>3 DEF acceptedOf, erasedOf
  <2>7. \A y \in publishedOf : y.name # x.name /\ y.sessions \cap x.sessions = {}
    BY <2>3, <2>4 DEF publishedOf, IInv, StaysReleased
  <2>8. x.sessions \subseteq acceptedOf \ (erasedOf \cup UNION {y.sessions : y \in publishedOf})
    BY <2>2, <2>3, <2>4, <2>7 DEF acceptedOf, erasedOf
  <2>9. PICK y \in Contract!Publications : y = x
    BY <2>4
  <2>10. Contract!Publish(y)
    BY <2>1, <2>4, <2>5, <2>6, <2>7, <2>8, <2>9
    DEF Contract!Publish, Contract!InPublication, acceptedOf, publishedOf, erasedOf
  <2> QED
    BY <2>10 DEF Contract!Next
<1> QED
  BY <1>1, <1>2 DEF CommitRelease

LEMMA ContractStep == IInv /\ [Next]_vars => [Contract!Next]_(Contract!contractVars)
<1> SUFFICES ASSUME IInv, [Next]_vars PROVE [Contract!Next]_(Contract!contractVars)
  OBVIOUS
<1>1. ASSUME UNCHANGED <<state, releases>> PROVE [Contract!Next]_(Contract!contractVars)
  BY <1>1 DEF Contract!contractVars
<1>2. CASE ReviewNext /\ UNCHANGED releaseVars
  <2>1. ReviewInv /\ UNCHANGED releases
    BY <1>2 DEF IInv, releaseVars
  <2>2. CASE AdministratorStep \/ ClockStep
    BY <1>1, <2>1, <2>2, AdministratorStepStep, ClockStepStep
  <2>3. ASSUME NEW w \in Workers, RedactionFails(w) \/ PurgeFails(w) \/ WorkerCrashes(w)
        PROVE  [Contract!Next]_(Contract!contractVars)
    BY <1>1, <2>1, <2>3, WorkerFaultStep
  <2> QED
    BY <1>2, <2>1, <2>2, <2>3, ReviewerContract, WorkerContract DEF ReviewNext
<1>3. ASSUME NEW c \in Calls, ReleaseStep(c)
      PROVE  [Contract!Next]_(Contract!contractVars)
  <2>1. CASE CommitRelease(c)
    BY <2>1, CommitContract
  <2>2. CASE ~CommitRelease(c)
    BY <1>1, <1>3, <2>2
    DEF ReleaseStep, StartRelease, ListReleaseCandidates, loadRedaction, WriteReleaseFile,
        ExportFails, reviewVars, sessionVars
  <2> QED
    BY <2>1, <2>2
<1>4. CASE UNCHANGED vars
  BY <1>1, <1>4 DEF vars, reviewVars, sessionVars, releaseVars
<1> QED
  BY <1>2, <1>3, <1>4 DEF Next

(* Every behaviour of review, redaction, erasure and publication is one of *)
(* ReleaseContract: what is published was accepted, is published in one    *)
(* step and once, and is never erased.                                     *)
THEOREM ReleaseImplementsContract == Spec => ImplementsContract
<1>1. Init => Contract!Init
  <2> SUFFICES ASSUME Init PROVE Contract!Init
    OBVIOUS
  <2>1. \A s \in Sessions : state[s] \in {"READY_FOR_REVIEW", "absent"}
    BY DEF Init, ReviewInit
  <2>2. acceptedOf = {} /\ erasedOf = {}
    BY <2>1 DEF acceptedOf, erasedOf
  <2>3. publishedOf = {}
    BY DEF Init, publishedOf
  <2> QED
    BY <2>2, <2>3 DEF Contract!Init, acceptedOf, erasedOf, publishedOf
<1> QED
  BY <1>1, IInvHolds, ContractStep, PTL DEF Spec, ImplementsContract, Contract!Spec
=============================================================================
