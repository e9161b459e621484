------------------------------- MODULE Review -------------------------------
(***************************************************************************)
(* Human review, video redaction and the erasure that excludes it.         *)
(*                                                                         *)
(* A reviewer claims a session under a lease and decides it. With an       *)
(* acceptance, or later as a correction, the reviewer approves a redaction *)
(* plan; the plan and its job are inserted together, and a worker masks    *)
(* the session's video segment by segment. An administrator may erase the  *)
(* session, but not while redaction is queued or leased.                   *)
(*                                                                         *)
(*   sessions.state        state; "absent": no row                         *)
(*   review_claims         claim (by, live: expires_at lies ahead)         *)
(*   reviews               reviews                                         *)
(*   rework_of_session_id  reworkOf                                        *)
(*   redaction_plans       plan (session, version)                         *)
(*   redaction_jobs        job, the row of the same plan                   *)
(*   deletion_requests     req;  legal_holds  held                         *)
(* A plan is named by the request ID that creates it, which is unique: a   *)
(* call repeated with its request ID finds the plan and changes nothing.   *)
(* An erased plan keeps its session here and its job becomes absent.       *)
(* duty[w], todo[w]: the plan or request a worker is carrying out, and the *)
(* objects it has still to write or purge. reading[w]: the segment whose   *)
(* source it has opened. strays: objects last written by a worker that no  *)
(* longer held the lease of its job.                                       *)
(*                                                                         *)
(* The transactions of this module are atomic: each is serializable, or    *)
(* locks the rows it decides on. The one exception, a legal hold placed    *)
(* behind a claim, is in module Governance.                                *)
(***************************************************************************)
EXTENDS Naturals, FiniteSets, FiniteSetsExt, SessionStates

CONSTANTS
  Sessions, Reviewable,  \* rows that may exist; those ready for review at first
  Reviewers, Workers,
  Plans,                 \* redaction plans that may come to exist
  Segments,              \* video segments of a session
  Requests,              \* erasure requests that may come to exist
  NoOne,                 \* SQL NULL
  MaxAttempts,           \* maxAttempts of the processor
  MaxFaults,             \* bound: crashes and storage failures
  MaxRequeues            \* bound: manual retries of one row

ASSUME ReviewableAssumption == Reviewable \subseteq Sessions
ASSUME NoOneAssumption ==
  NoOne \notin Sessions \cup Reviewers \cup Workers \cup Plans \cup Requests
ASSUME DutiesAssumption == Plans \cap Requests = {}
ASSUME BoundsAssumption ==
  /\ MaxAttempts \in Nat \ {0} /\ MaxFaults \in Nat /\ MaxRequeues \in Nat
  /\ Segments # {}

VARIABLES state, claim, reviews, reworkOf, plan, job, held, req,
          blobs, strays, duty, todo, reading, faults

sessionVars == <<state, claim, reviews, reworkOf>>
redactionVars == <<plan, job>>
erasureVars == <<held, req>>
storeVars == <<blobs, strays>>
workerVars == <<duty, todo, reading>>
reviewVars == <<sessionVars, redactionVars, erasureVars, storeVars, workerVars, faults>>

-----------------------------------------------------------------------------
(* Objects: the raw video of a session (every segment), its normalized     *)
(* trajectory, and what a redaction plan produces.                         *)
Video(s) == <<"raw", s>>
Trajectory(s) == <<"derived", s>>
Output(p, g) == <<"segment", p, g>>
Manifest(p) == <<"manifest", p>>
Outputs(p) == {Output(p, g) : g \in Segments} \cup {Manifest(p)}

(* Of the sessions here, the reviewable ones were recorded and validated.  *)
Evidence(s) == IF s \in Reviewable THEN {Video(s), Trajectory(s)} ELSE {}
Objects == (UNION {Evidence(s) : s \in Sessions}) \cup (UNION {Outputs(p) : p \in Plans})

-----------------------------------------------------------------------------
(* Rows that workers lease: redaction_jobs and deletion_requests. ripe: a  *)
(* queued row is available, the lease of a leased row has run out.         *)
LeaseStates == {"absent", "queued", "leased", "blocked", "completed", "dead_letter"}

NoRow == [state |-> "absent", attempt |-> 0, leasedBy |-> NoOne, ripe |-> FALSE,
          requeues |-> 0]
QueuedRow == [NoRow EXCEPT !.state = "queued", !.ripe = TRUE]

Due(row) == row.state \in {"queued", "leased"} /\ row.ripe

(* Mutant of LeasedTo: whoever comes settles the row.                      *)
LeasedToSomeone(row, w) == row.state = "leased"

LeasedTo(row, w) == row.state = "leased" /\ row.leasedBy = w

(* Every claim counts as an attempt; how far above the maximum does not    *)
(* matter.                                                                 *)
Leased(row, w) ==
  [row EXCEPT !.state = "leased", !.leasedBy = w, !.ripe = FALSE,
              !.attempt = IF @ < MaxAttempts THEN @ + 1 ELSE @]
Settled(row, to) == [row EXCEPT !.state = to, !.leasedBy = NoOne, !.ripe = FALSE]
Requeued(row) ==
  Settled(row, IF row.attempt < MaxAttempts THEN "queued" ELSE "dead_letter")
Revived(row) ==
  [row EXCEPT !.state = "queued", !.attempt = 0, !.ripe = TRUE, !.requeues = @ + 1]

Request(s, keys) ==
  [state |-> "queued", attempt |-> 0, leasedBy |-> NoOne, ripe |-> TRUE,
   requeues |-> 0, session |-> s, keys |-> keys]
NoRequest == [Request(NoOne, {}) EXCEPT !.state = "absent", !.ripe = FALSE]

Decisions == {"accepted", "rejected", "rework_required"}
Reviews == [session : Sessions, by : Reviewers, decision : Decisions, passed : BOOLEAN]
NoClaim == [by |-> NoOne, live |-> FALSE]
NoPlan == [session |-> NoOne, version |-> 0]

ReviewTypeOK ==
  /\ state \in [Sessions -> SessionStates \cup {"absent"}]
  /\ claim \in [Sessions -> [by : Reviewers \cup {NoOne}, live : BOOLEAN]]
  /\ reviews \subseteq Reviews
  /\ reworkOf \in [Sessions -> Sessions \cup {NoOne}]
  /\ plan \in [Plans -> [session : Sessions \cup {NoOne}, version : Nat]]
  /\ job \in [Plans -> [state : LeaseStates, attempt : Nat, ripe : BOOLEAN,
                        leasedBy : Workers \cup {NoOne}, requeues : Nat]]
  /\ held \in [Sessions -> BOOLEAN]
  /\ req \in [Requests -> [state : LeaseStates, attempt : Nat, ripe : BOOLEAN,
                           leasedBy : Workers \cup {NoOne}, requeues : Nat,
                           session : Sessions \cup {NoOne}, keys : SUBSET Objects]]
  /\ blobs \subseteq Objects /\ strays \subseteq blobs
  /\ duty \in [Workers -> Plans \cup Requests \cup {NoOne}]
  /\ todo \in [Workers -> SUBSET Objects]
  /\ reading \in [Workers -> Segments \cup {NoOne}]
  /\ faults \in Nat

(* Sessions come out of validation with their evidence in the store.       *)
ReviewInit ==
  /\ state = [s \in Sessions |-> IF s \in Reviewable THEN "READY_FOR_REVIEW" ELSE "absent"]
  /\ claim = [s \in Sessions |-> NoClaim]
  /\ reviews = {}
  /\ reworkOf = [s \in Sessions |-> NoOne]
  /\ plan = [p \in Plans |-> NoPlan]
  /\ job = [p \in Plans |-> NoRow]
  /\ held = [s \in Sessions |-> FALSE]
  /\ req = [r \in Requests |-> NoRequest]
  /\ blobs = UNION {Evidence(s) : s \in Sessions}
  /\ strays = {}
  /\ duty = [w \in Workers |-> NoOne]
  /\ todo = [w \in Workers |-> {}]
  /\ reading = [w \in Workers |-> NoOne]
  /\ faults = 0

-----------------------------------------------------------------------------
(* Review claims *)

(* A claim is taken when there is none, when it ran out, or renewed.       *)
ClaimReview(s, v) ==
  /\ state[s] = "READY_FOR_REVIEW"
  /\ claim[s].by \in {NoOne, v} \/ ~claim[s].live
  /\ claim' = [claim EXCEPT ![s] = [by |-> v, live |-> TRUE]]
  /\ UNCHANGED <<state, reviews, reworkOf, redactionVars, erasureVars, storeVars,
                 workerVars, faults>>

ClaimExpires(s) ==
  /\ claim[s].live
  /\ claim' = [claim EXCEPT ![s].live = FALSE]
  /\ UNCHANGED <<state, reviews, reworkOf, redactionVars, erasureVars, storeVars,
                 workerVars, faults>>

(* Releasing looks at the owner only, not at the lease nor the session.    *)
ReleaseReview(s, v) ==
  /\ claim[s].by = v
  /\ claim' = [claim EXCEPT ![s] = NoClaim]
  /\ UNCHANGED <<state, reviews, reworkOf, redactionVars, erasureVars, storeVars,
                 workerVars, faults>>

-----------------------------------------------------------------------------
(* Decisions and redaction plans *)

(* Mutant of ErasurePending: a dead-letter erasure is taken for settled.   *)
ErasureActive(s) ==
  \E r \in Requests :
    req[r].session = s /\ req[r].state \in {"queued", "leased", "blocked"}

(* An erasure that is not over, a dead-letter one included, stands in the  *)
(* way of redaction.                                                       *)
ErasurePending(s) ==
  \E r \in Requests :
    /\ req[r].session = s
    /\ req[r].state \in {"queued", "leased", "blocked", "dead_letter"}

NextVersion(s) == 1 + Max({0} \cup {plan[q].version : q \in {p \in Plans : plan[p].session = s}})

(* A plan covers exactly the session's video segments (any other document  *)
(* is refused); its version is the next one, its job is queued with it.    *)
InsertPlan(s, p) ==
  /\ plan[p].session = NoOne
  /\ ~ErasurePending(s)
  /\ plan' = [plan EXCEPT ![p] = [session |-> s, version |-> NextVersion(s)]]
  /\ job' = [job EXCEPT ![p] = QueuedRow]

(* Mutant of Target: a state that the table does not know.                 *)
MisspeltTarget == [accepted |-> "ACCEPTED", rejected |-> "REJECTED",
                   rework_required |-> "REWORK"]

Target == [accepted |-> "ACCEPTED", rejected |-> "REJECTED",
           rework_required |-> "REWORK_REQUIRED"]

(* Mutant of ApprovePlan: a plan may come with any decision.               *)
ApproveAnyPlan(s, decision, p) ==
  \/ p = NoOne /\ UNCHANGED redactionVars
  \/ p \in Plans /\ InsertPlan(s, p)

(* An acceptance may come with a plan (p).                                 *)
ApprovePlan(s, decision, p) ==
  \/ p = NoOne /\ UNCHANGED redactionVars
  \/ p \in Plans /\ decision = "accepted" /\ InsertPlan(s, p)

(* The session moves; a rework assigns a fresh session (n) in its place.   *)
Decide(s, decision, n) ==
  \/ /\ decision # "rework_required" /\ n = NoOne
     /\ state' = [state EXCEPT ![s] = Target[decision]]
     /\ UNCHANGED reworkOf
  \/ /\ decision = "rework_required" /\ n \in Sessions /\ state[n] = "absent"
     /\ state' = [state EXCEPT ![s] = Target[decision], ![n] = "ASSIGNED"]
     /\ reworkOf' = [reworkOf EXCEPT ![n] = s]

(* The holder of a live claim decides. The review, the new state, the plan *)
(* or the successor and the end of the claim are one serializable          *)
(* transaction. An acceptance needs a passed PII review.                   *)
SubmitReview(s, v, decision, passed, p, n) ==
  /\ decision = "accepted" => passed
  /\ state[s] = "READY_FOR_REVIEW"
  /\ claim[s].by = v /\ claim[s].live
  /\ reviews' = reviews \cup {[session |-> s, by |-> v, decision |-> decision, passed |-> passed]}
  /\ ApprovePlan(s, decision, p)
  /\ Decide(s, decision, n)
  /\ claim' = [claim EXCEPT ![s] = NoClaim]
  /\ UNCHANGED <<erasureVars, storeVars, workerVars, faults>>

(* A correction: a new version for a session that is still accepted.       *)
CreateRedactionPlan(s, p) ==
  /\ state[s] = "ACCEPTED"
  /\ \E v \in reviews : v.session = s /\ v.decision = "accepted" /\ v.passed
  /\ InsertPlan(s, p)
  /\ UNCHANGED <<sessionVars, erasureVars, storeVars, workerVars, faults>>

(* An administrator revives a job whose attempts are used up.              *)
RetryDeadLetterRedactionJob(p) ==
  /\ job[p].state = "dead_letter" /\ job[p].requeues < MaxRequeues
  /\ state[plan[p].session] = "ACCEPTED"
  /\ ~ErasurePending(plan[p].session)
  /\ job' = [job EXCEPT ![p] = Revived(@)]
  /\ UNCHANGED <<sessionVars, plan, erasureVars, storeVars, workerVars, faults>>

-----------------------------------------------------------------------------
(* The worker between two pieces of work *)

(* ProcessNext looks for redaction work first and, when there is none, for *)
(* an erasure (nothing is to be validated here, and nothing expires). The  *)
(* two looks are taken at once: what makes a redaction job due between     *)
(* them might as well have happened behind the second.                     *)
NothingToRedact == \A p \in Plans : ~Due(job[p])

TakesOn(w, d, objects) ==
  /\ duty' = [duty EXCEPT ![w] = d]
  /\ todo' = [todo EXCEPT ![w] = objects]
  /\ UNCHANGED reading

IsFree(w) ==
  /\ duty' = [duty EXCEPT ![w] = NoOne]
  /\ todo' = [todo EXCEPT ![w] = {}]
  /\ reading' = [reading EXCEPT ![w] = NoOne]

Fault == faults < MaxFaults /\ faults' = faults + 1

(* The process dies; a lease it holds has to run out.                      *)
WorkerCrashes(w) ==
  /\ duty[w] # NoOne
  /\ Fault
  /\ IsFree(w)
  /\ UNCHANGED <<sessionVars, redactionVars, erasureVars, storeVars>>

(* Time passes: a queued job becomes available, or a lease runs out,       *)
(* whether or not its worker is still at it.                               *)
JobRipens(p) ==
  /\ job[p].state \in {"queued", "leased"} /\ ~job[p].ripe
  /\ job' = [job EXCEPT ![p].ripe = TRUE]
  /\ UNCHANGED <<sessionVars, plan, erasureVars, storeVars, workerVars, faults>>

RequestRipens(r) ==
  /\ req[r].state \in {"queued", "leased"} /\ ~req[r].ripe
  /\ req' = [req EXCEPT ![r].ripe = TRUE]
  /\ UNCHANGED <<sessionVars, redactionVars, held, storeVars, workerVars, faults>>

-----------------------------------------------------------------------------
(* Redaction *)

(* A due job whose session has left ACCEPTED, or is to be erased, makes    *)
(* the claim an error: nothing changes, and ProcessNext returns without    *)
(* looking any further, as NothingToRedact says. Which due job comes first *)
(* (available_at, rows locked by others skipped) is left open.             *)
ClaimRedactionJob(w, p) ==
  /\ duty[w] = NoOne
  /\ Due(job[p])
  /\ state[plan[p].session] = "ACCEPTED"
  /\ ~ErasurePending(plan[p].session)
  /\ job' = [job EXCEPT ![p] = Leased(@, w)]
  /\ TakesOn(w, p, Outputs(p))
  /\ UNCHANGED <<sessionVars, plan, erasureVars, storeVars, faults>>

SegmentsLeft(w) == {g \in Segments : Output(duty[w], g) \in todo[w]}
SourceIsThere(p) == Video(plan[p].session) \in blobs

(* The source is inspected and opened. Reading goes on if the object is    *)
(* purged meanwhile.                                                       *)
ReadSource(w) ==
  /\ duty[w] \in Plans /\ reading[w] = NoOne
  /\ SourceIsThere(duty[w])
  /\ \E g \in SegmentsLeft(w) : reading' = [reading EXCEPT ![w] = g]
  /\ UNCHANGED <<sessionVars, redactionVars, erasureVars, storeVars, duty, todo, faults>>

(* The object that the worker is about to write: the segment it reads, or  *)
(* the manifest behind the last segment.                                   *)
NextOutput(w) ==
  IF reading[w] # NoOne THEN Output(duty[w], reading[w]) ELSE Manifest(duty[w])

Written(w, o) ==
  /\ blobs' = blobs \cup {o}
  /\ strays' = IF LeasedTo(job[duty[w]], w) THEN strays \ {o} ELSE strays \cup {o}

MayWrite(w) ==
  /\ duty[w] \in Plans
  /\ reading[w] # NoOne \/ todo[w] = {Manifest(duty[w])}

(* Put replaces what an earlier attempt left; nothing is asked of the      *)
(* lease before the work is done.                                          *)
WriteOutput(w) ==
  /\ MayWrite(w)
  /\ Written(w, NextOutput(w))
  /\ todo' = [todo EXCEPT ![w] = @ \ {NextOutput(w)}]
  /\ reading' = [reading EXCEPT ![w] = NoOne]
  /\ UNCHANGED <<sessionVars, redactionVars, erasureVars, duty, faults>>

(* retryRedaction: refused when the job is leased to someone else.         *)
RequeueRedactionJob(w) ==
  /\ job' = IF LeasedTo(job[duty[w]], w) THEN [job EXCEPT ![duty[w]] = Requeued(@)]
                                         ELSE job
  /\ IsFree(w)

(* The source is gone; or probing, masking or the store fails, or a region *)
(* starts behind the video's end. The object may be written nevertheless.  *)
RedactionFails(w) ==
  /\ duty[w] \in Plans /\ todo[w] # {}
  /\ \/ /\ reading[w] = NoOne /\ SegmentsLeft(w) # {}
        /\ ~SourceIsThere(duty[w])
        /\ UNCHANGED <<storeVars, faults>>
     \/ /\ Fault
        /\ UNCHANGED storeVars \/ (MayWrite(w) /\ Written(w, NextOutput(w)))
  /\ RequeueRedactionJob(w)
  /\ UNCHANGED <<sessionVars, plan, erasureVars>>

(* Mutant of AllWritten: the manifest is not waited for.                   *)
SegmentsWritten(w) == duty[w] \in Plans /\ todo[w] \subseteq {Manifest(duty[w])}

AllWritten(w) == duty[w] \in Plans /\ todo[w] = {}

(* Only the lease is looked at, not the session.                           *)
CompleteRedactionJob(w) ==
  /\ AllWritten(w)
  /\ IF LeasedTo(job[duty[w]], w)
     THEN /\ job' = [job EXCEPT ![duty[w]] = Settled(@, "completed")]
          /\ IsFree(w)
     ELSE RequeueRedactionJob(w)
  /\ UNCHANGED <<sessionVars, plan, erasureVars, storeVars, faults>>

-----------------------------------------------------------------------------
(* Legal holds and erasure *)

Leases(s) == {r \in Requests : req[r].session = s /\ req[r].state = "leased"}

PlaceLegalHold(s) ==
  /\ state[s] \notin {"absent", "DELETED"}
  /\ Leases(s) = {}
  /\ ~held[s]
  /\ held' = [held EXCEPT ![s] = TRUE]
  /\ UNCHANGED <<sessionVars, redactionVars, req, storeVars, workerVars, faults>>

ReleaseLegalHold(s) ==
  /\ held[s]
  /\ held' = [held EXCEPT ![s] = FALSE]
  /\ req' = [r \in Requests |->
               IF req[r].session = s /\ req[r].state = "blocked"
               THEN [req[r] EXCEPT !.state = "queued", !.ripe = TRUE] ELSE req[r]]
  /\ UNCHANGED <<sessionVars, redactionVars, storeVars, workerVars, faults>>

(* Mutant of sessionObjectKeys: dead-letter plans are left out.            *)
CompletedObjectKeys(s) ==
  Evidence(s) \cup
  UNION {Outputs(p) : p \in {q \in Plans : plan[q].session = s /\ job[q].state = "completed"}}

(* The inventory of an erasure, as rows name the objects at this moment.   *)
sessionObjectKeys(s) ==
  Evidence(s) \cup
  UNION {Outputs(p) : p \in {q \in Plans : /\ plan[q].session = s
                                           /\ job[q].state \in {"completed", "dead_letter"}}}

RedactionInProgress(s) ==
  \E p \in Plans : plan[p].session = s /\ job[p].state \in {"queued", "leased"}

RequestSessionDeletion(s, r) ==
  /\ req[r].state = "absent"
  /\ state[s] \in Deletable /\ ~held[s]
  /\ ~RedactionInProgress(s)
  /\ \A q \in Requests : req[q].session = s
                         => req[q].state \notin {"queued", "leased", "blocked"}
  /\ req' = [req EXCEPT ![r] = Request(s, sessionObjectKeys(s))]
  /\ UNCHANGED <<sessionVars, redactionVars, held, storeVars, workerVars, faults>>

(* The claim looks at the session again: a request that may not be carried *)
(* out any more is set aside, and the worker starts over.                  *)
ClaimDeletionRequest(w, r) ==
  LET s == req[r].session IN
  /\ duty[w] = NoOne /\ NothingToRedact
  /\ Due(req[r])
  /\ \/ /\ state[s] \notin Deletable
        /\ req' = [req EXCEPT ![r] = Settled(@, "dead_letter")]
        /\ UNCHANGED workerVars
     \/ /\ state[s] \in Deletable /\ held[s]
        /\ req' = [req EXCEPT ![r] = Settled(@, "blocked")]
        /\ UNCHANGED workerVars
     \/ /\ state[s] \in Deletable /\ ~held[s]
        /\ req' = [req EXCEPT ![r] = Leased(@, w)]
        /\ TakesOn(w, r, req[r].keys)
  /\ UNCHANGED <<sessionVars, redactionVars, held, storeVars, faults>>

PurgeObject(w) ==
  /\ duty[w] \in Requests
  /\ \E o \in todo[w] :
       /\ blobs' = blobs \ {o}
       /\ strays' = strays \ {o}
       /\ todo' = [todo EXCEPT ![w] = @ \ {o}]
  /\ UNCHANGED <<sessionVars, redactionVars, erasureVars, duty, reading, faults>>

(* retryDeletion: refused when the request is leased to someone else.      *)
RequeueDeletionRequest(w) ==
  /\ req' = IF LeasedTo(req[duty[w]], w) THEN [req EXCEPT ![duty[w]] = Requeued(@)]
                                         ELSE req
  /\ IsFree(w)

(* The object may be gone nevertheless.                                    *)
PurgeFails(w) ==
  /\ duty[w] \in Requests
  /\ Fault
  /\ \E o \in todo[w] :
       \/ blobs' = blobs \ {o} /\ strays' = strays \ {o}
       \/ UNCHANGED storeVars
  /\ RequeueDeletionRequest(w)
  /\ UNCHANGED <<sessionVars, redactionVars, held>>

MayErase(w) ==
  /\ duty[w] \in Requests /\ todo[w] = {}
  /\ LeasedTo(req[duty[w]], w)
  /\ ~held[req[duty[w]].session]

(* The state the session has reached meanwhile is not looked at.           *)
CompleteDeletionRequest(w) ==
  LET s == req[duty[w]].session IN
  /\ MayErase(w)
  /\ state' = [state EXCEPT ![s] = "DELETED"]
  /\ claim' = [claim EXCEPT ![s] = NoClaim]
  /\ reviews' = {v \in reviews : v.session # s}
  /\ job' = [p \in Plans |-> IF plan[p].session = s THEN NoRow ELSE job[p]]
  /\ req' = [req EXCEPT ![duty[w]] = Settled(@, "completed")]
  /\ IsFree(w)
  /\ UNCHANGED <<reworkOf, plan, held, storeVars, faults>>

EraserIsRefused(w) ==
  /\ duty[w] \in Requests /\ todo[w] = {}
  /\ ~MayErase(w)
  /\ RequeueDeletionRequest(w)
  /\ UNCHANGED <<sessionVars, redactionVars, held, storeVars, faults>>

RetryDeadLetterDeletionRequest(r) ==
  /\ req[r].state = "dead_letter" /\ req[r].requeues < MaxRequeues
  /\ state[req[r].session] \in Deletable /\ ~held[req[r].session]
  /\ \A q \in Requests \ {r} : req[q].session = req[r].session
                         => req[q].state \notin {"queued", "leased", "blocked"}
  /\ req' = [req EXCEPT ![r] = Revived(@)]
  /\ UNCHANGED <<sessionVars, redactionVars, held, storeVars, workerVars, faults>>

-----------------------------------------------------------------------------
ReviewerStep ==
  \E s \in Sessions :
    \/ ClaimExpires(s)
    \/ \E v \in Reviewers :
         \/ ClaimReview(s, v)
         \/ ReleaseReview(s, v)
         \/ \E decision \in Decisions, passed \in BOOLEAN,
              p \in Plans \cup {NoOne}, n \in Sessions \cup {NoOne} :
              SubmitReview(s, v, decision, passed, p, n)
    \/ \E p \in Plans : CreateRedactionPlan(s, p)

AdministratorStep ==
  \/ \E p \in Plans : RetryDeadLetterRedactionJob(p)
  \/ \E s \in Sessions :
       \/ PlaceLegalHold(s)
       \/ ReleaseLegalHold(s)
       \/ \E r \in Requests : RequestSessionDeletion(s, r)
  \/ \E r \in Requests : RetryDeadLetterDeletionRequest(r)

(* What a worker does when nothing goes wrong.                             *)
WorkerStep(w) ==
  \/ \E p \in Plans : ClaimRedactionJob(w, p)
  \/ ReadSource(w) \/ WriteOutput(w) \/ CompleteRedactionJob(w)
  \/ \E r \in Requests : ClaimDeletionRequest(w, r)
  \/ PurgeObject(w) \/ CompleteDeletionRequest(w) \/ EraserIsRefused(w)

ClockStep ==
  \/ \E p \in Plans : JobRipens(p)
  \/ \E r \in Requests : RequestRipens(r)

ReviewNext ==
  \/ ReviewerStep \/ AdministratorStep \/ ClockStep
  \/ \E w \in Workers : WorkerStep(w) \/ RedactionFails(w) \/ PurgeFails(w) \/ WorkerCrashes(w)

=============================================================================
