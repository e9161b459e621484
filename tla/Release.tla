------------------------------ MODULE Release -------------------------------
(***************************************************************************)
(* Publication: createRelease and the exporter.                            *)
(*                                                                         *)
(* A call looks the name up, lists the eligible sessions, verifies their   *)
(* redacted video, writes the files of the release and only then commits   *)
(* the row, in a transaction that looks at the sessions again. Reviewers,  *)
(* workers and administrators (module Review) go on meanwhile.             *)
(*                                                                         *)
(* A release ID is a hash of the configuration: it is that configuration   *)
(* here (name, profile, sessions, plans), so two calls may write the same  *)
(* keys. A file of a release is <<ID, item>>: what it holds of a session,  *)
(* the manifest, or the bundle. README, schema, JSONL and checksums, which *)
(* read nothing from the store, are counted with the manifest. The bytes   *)
(* are functions of the ID: trajectory and masks are deterministic.        *)
(*   dataset_releases, release_sessions   releases                         *)
(*   objects under releases/ and bundles/ files                            *)
(***************************************************************************)
EXTENDS Review

CONSTANTS Calls,      \* calls of createRelease, each made once
          Names       \* release names of the project

VARIABLES releases, files, call

releaseVars == <<releases, files, call>>
vars == <<reviewVars, releaseVars>>

Profiles == {"trajectory_only", "redacted_video"}
ReleaseIDs == [name : Names, profile : Profiles, sessions : SUBSET Sessions,
               plans : SUBSET Plans]

NoCall == [phase |-> "idle", id |-> NoOne, todo |-> {}]
Running(c) == call[c].phase \notin {"idle", "done"}

(* todo: sessions to load the redaction of, then items to write.           *)
Items(id) == id.sessions \cup {"manifest", "bundle"}

TypeOK ==
  /\ ReviewTypeOK
  /\ releases \subseteq ReleaseIDs
  /\ \A f \in files : f[1] \in ReleaseIDs /\ f[2] \in Items(f[1])
  /\ \A c \in Calls :
       /\ call[c].phase \in {"idle", "listing", "loading", "writing", "done"}
       /\ Running(c) => call[c].id \in ReleaseIDs
       /\ call[c].todo \subseteq Sessions \cup {"manifest", "bundle"}

Init ==
  /\ ReviewInit
  /\ releases = {}
  /\ files = {}
  /\ call = [c \in Calls |-> NoCall]

-----------------------------------------------------------------------------
Goes(c, phase, id, todo1) ==
  call' = [call EXCEPT ![c] = [phase |-> phase, id |-> id, todo |-> todo1]]
Ends(c) == Goes(c, "done", NoOne, {})

(* A call with the name of a release ends at once: it returns that release *)
(* or a conflict.                                                          *)
StartRelease(c, name, profile, wanted) ==
  /\ call[c].phase = "idle"
  /\ IF \E id \in releases : id.name = name
     THEN Ends(c)
     ELSE Goes(c, "listing",
               [name |-> name, profile |-> profile, sessions |-> wanted, plans |-> {}], {})
  /\ UNCHANGED <<reviewVars, releases, files>>

ErasureUnderWay(s) ==
  \E r \in Requests : req[r].session = s /\ req[r].state \in {"queued", "leased", "blocked"}

Accepted(s) ==
  /\ state[s] = "ACCEPTED"
  /\ \E v \in reviews : v.session = s /\ v.decision = "accepted" /\ v.passed

Candidates == {s \in Sessions : Accepted(s) /\ ~ErasureUnderWay(s)}

(* No sessions asked for means every candidate; each one asked for must be *)
(* a candidate.                                                            *)
ListReleaseCandidates(c) ==
  LET id == call[c].id
      listed == IF id.sessions = {} THEN Candidates ELSE id.sessions
  IN
  /\ call[c].phase = "listing"
  /\ IF listed = {} \/ ~(listed \subseteq Candidates)
     THEN Ends(c)
     ELSE IF id.profile = "redacted_video"
     THEN Goes(c, "loading", [id EXCEPT !.sessions = listed], listed)
     ELSE Goes(c, "writing", [id EXCEPT !.sessions = listed], listed \cup {"manifest", "bundle"})
  /\ UNCHANGED <<reviewVars, releases, files>>

(* Mutant of CompletedPlans: a plan that is still being carried out counts *)
(* as well.                                                                *)
InsertedPlans(s) ==
  {p \in Plans : plan[p].session = s /\ job[p].state \in {"leased", "completed"}}

(* The code also asks that the outputs were not purged; nothing purges     *)
(* them here, retention of derived data being left out.                    *)
CompletedPlans(s) == {p \in Plans : plan[p].session = s /\ job[p].state = "completed"}

(* The completed plan of the highest version; a later one that is queued,  *)
(* leased or dead is passed over.                                          *)
LatestCompletedRedaction(s, p) ==
  /\ p \in CompletedPlans(s)
  /\ \A q \in CompletedPlans(s) : plan[q].version <= plan[p].version

(* The plan's outputs are verified against its manifest, or the call ends. *)
loadRedaction(c) ==
  LET id == call[c].id IN
  /\ call[c].phase = "loading"
  /\ \E s \in call[c].todo :
       \/ \E p \in Plans :
            LET left == call[c].todo \ {s}
                loaded == [id EXCEPT !.plans = @ \cup {p}]
            IN
            /\ LatestCompletedRedaction(s, p) /\ Outputs(p) \subseteq blobs
            /\ IF left # {} THEN Goes(c, "loading", loaded, left)
               ELSE Goes(c, "writing", loaded, Items(id))
       \/ /\ ~\E p \in Plans : LatestCompletedRedaction(s, p) /\ Outputs(p) \subseteq blobs
          /\ Ends(c)
  /\ UNCHANGED <<reviewVars, releases, files>>

(* What a release holds of a session is copied from these.                 *)
Sources(id, s) ==
  {Trajectory(s)} \cup
  UNION {{Output(p, g) : g \in Segments} : p \in {q \in id.plans : plan[q].session = s}}

(* The sessions' files come first, then the manifest, then the bundle.     *)
NextItems(c) ==
  LET sessions == call[c].todo \cap Sessions IN
  IF sessions # {} THEN sessions
  ELSE IF "manifest" \in call[c].todo THEN {"manifest"} ELSE call[c].todo

(* Every source, and for the bundle every file, must be there.             *)
Readable(id, item) ==
  /\ item \in Sessions => Sources(id, item) \subseteq blobs
  /\ item = "bundle" => {id} \X (Items(id) \ {"bundle"}) \subseteq files

WriteReleaseFile(c) ==
  LET id == call[c].id IN
  /\ call[c].phase = "writing"
  /\ \E item \in NextItems(c) :
       \/ /\ Readable(id, item)
          /\ files' = files \cup {<<id, item>>}
          /\ Goes(c, "writing", id, call[c].todo \ {item})
       \/ /\ ~Readable(id, item)
          /\ Ends(c) /\ UNCHANGED files
  /\ UNCHANGED <<reviewVars, releases>>

(* A write fails or the process dies; files stay where they are.           *)
ExportFails(c) ==
  /\ Running(c)
  /\ Fault
  /\ Ends(c)
  /\ \/ UNCHANGED files
     \/ /\ call[c].phase = "writing"
        /\ \E item \in NextItems(c) : files' = files \cup {<<call[c].id, item>>}
  /\ UNCHANGED <<sessionVars, redactionVars, erasureVars, storeVars, workerVars, releases>>

(* Mutant of Committable: erasure is not looked at a second time.          *)
StillAccepted(id) ==
  /\ \A r \in releases : r.name # id.name
  /\ \A s \in id.sessions : state[s] = "ACCEPTED"

(* Mutant of Committable: the sessions are not looked at a second time.    *)
FreshName(id) == \A r \in releases : r.name # id.name

Committable(id) ==
  /\ \A r \in releases : r.name # id.name
  /\ \A s \in id.sessions : state[s] = "ACCEPTED" /\ ~ErasureUnderWay(s)

(* Mutant of CommitRelease: the row is committed before the bundle.        *)
CommitBeforeBundle(c) ==
  LET id == call[c].id IN
  /\ call[c].phase = "writing" /\ call[c].todo \subseteq {"bundle"}
  /\ IF Committable(id)
     THEN /\ releases' = releases \cup {id}
          /\ state' = [s \in Sessions |-> IF s \in id.sessions THEN "RELEASED" ELSE state[s]]
     ELSE UNCHANGED <<releases, state>>
  /\ Ends(c)
  /\ UNCHANGED <<claim, reviews, reworkOf, redactionVars, erasureVars, storeVars,
                 workerVars, faults, files>>

(* One serializable transaction. A release of this name ends the call: it  *)
(* is returned when it has the same ID, and is a conflict otherwise.       *)
CommitRelease(c) ==
  LET id == call[c].id IN
  /\ call[c].phase = "writing" /\ call[c].todo = {}
  /\ IF Committable(id)
     THEN /\ releases' = releases \cup {id}
          /\ state' = [s \in Sessions |-> IF s \in id.sessions THEN "RELEASED" ELSE state[s]]
     ELSE UNCHANGED <<releases, state>>
  /\ Ends(c)
  /\ UNCHANGED <<claim, reviews, reworkOf, redactionVars, erasureVars, storeVars,
                 workerVars, faults, files>>

-----------------------------------------------------------------------------
ReleaseStep(c) ==
  \/ \E name \in Names, profile \in Profiles, wanted \in SUBSET Reviewable :
       StartRelease(c, name, profile, wanted)
  \/ ListReleaseCandidates(c) \/ loadRedaction(c) \/ WriteReleaseFile(c)
  \/ ExportFails(c) \/ CommitRelease(c)

Next ==
  \/ ReviewNext /\ UNCHANGED releaseVars
  \/ \E c \in Calls : ReleaseStep(c)

Spec == Init /\ [][Next]_vars

-----------------------------------------------------------------------------
(* Properties *)

(* Redaction and erasure exclude each other: as long as a redaction job is *)
(* queued or leased, no erasure of its session is queued, leased, blocked  *)
(* or waiting for an administrator, whatever order plans, retries, holds   *)
(* and requests come in (RequestSessionDeletion, CreateRedactionPlan,      *)
(* RetryDeadLetterRedactionJob, RetryDeadLetterDeletionRequest).           *)
RedactionExcludesErasure ==
  \A s \in Sessions : RedactionInProgress(s) => ~\E r \in Requests :
    req[r].session = s /\ req[r].state \in {"queued", "leased", "blocked", "dead_letter"}

(* A session is decided once: a decided session has one review, of that    *)
(* decision, however claims ran out and changed hands before; only a       *)
(* rework has a successor, and exactly one; only an accepted session has   *)
(* redaction plans (ClaimReview, SubmitReview).                            *)
DecidedOnce ==
  \A s \in Sessions :
    LET own == {v \in reviews : v.session = s}
        successors == {n \in Sessions : reworkOf[n] = s}
    IN
    /\ Cardinality(own) <= 1
    /\ \A v \in own : state[s] = Target[v.decision] \/ (v.decision = "accepted" /\ state[s] = "RELEASED")
    /\ state[s] \in {"ACCEPTED", "RELEASED", "REJECTED", "REWORK_REQUIRED"} => own # {}
    /\ state[s] = "REWORK_REQUIRED" => Cardinality(successors) = 1
    /\ (\E p \in Plans : plan[p].session = s) => state[s] \in {"ACCEPTED", "RELEASED", "DELETED"}

(* A job that is completed has all of its outputs in the store until an    *)
(* erasure of its session begins to purge: attempts that failed half way,  *)
(* crashed or were overtaken leave no gap (processRedaction).              *)
CompletedIsComplete ==
  \A p \in Plans : job[p].state = "completed" =>
    \/ Outputs(p) \subseteq blobs
    \/ \E r \in Requests : /\ req[r].session = plan[p].session
                           /\ req[r].attempt + req[r].requeues > 0

(* An erased session leaves nothing behind that a row names: no claim, no  *)
(* review, no redaction job, no object of its own. What may survive was    *)
(* written by a redaction worker that had lost its lease                   *)
(* (sessionObjectKeys, CompleteDeletionRequest).                           *)
ErasureIsComplete ==
  \A s \in Sessions : state[s] = "DELETED" =>
    /\ claim[s] = NoClaim
    /\ \A v \in reviews : v.session # s
    /\ Evidence(s) \cap blobs = {}
    /\ \A p \in Plans : plan[p].session = s =>
         job[p].state = "absent" /\ Outputs(p) \cap blobs \subseteq strays

(* A committed release holds what was reviewed and stays so: its sessions  *)
(* are RELEASED with a passed, accepting review, none is about to be       *)
(* erased, and redacted video comes from one completed plan per session,   *)
(* though all of that was read long before CommitRelease.                  *)
PublishedAsReviewed ==
  \A id \in releases :
    /\ \A s \in id.sessions :
         /\ state[s] = "RELEASED" /\ ~ErasureUnderWay(s)
         /\ \E v \in reviews : v.session = s /\ v.decision = "accepted" /\ v.passed
         /\ Cardinality({p \in id.plans : plan[p].session = s})
              = IF id.profile = "redacted_video" THEN 1 ELSE 0
    /\ \A p \in id.plans : plan[p].session \in id.sessions /\ job[p].state = "completed"

(* No session is published twice and no name is used twice, however calls  *)
(* of createRelease overlap.                                               *)
PublishedOnce ==
  \A x, y \in releases : x # y => x.name # y.name /\ x.sessions \cap y.sessions = {}

(* The row of a release is there only when every file of it is: a failed   *)
(* export leaves files without a row, never a row without files            *)
(* (CreateWithProfile).                                                    *)
ReleaseIsWhole == \A id \in releases : {id} \X Items(id) \subseteq files

(* A worker whose lease was taken over changes no row when it comes to its *)
(* end: neither job nor request, nor the session (CompleteRedactionJob,    *)
(* RequeueRedactionJob, CompleteDeletionRequest, RequeueDeletionRequest).  *)
OvertakenWorkerIsInert ==
  [][\A w \in Workers : duty[w] # NoOne /\ duty'[w] = NoOne =>
       LET row == IF duty[w] \in Plans THEN job[duty[w]] ELSE req[duty[w]] IN
       row.state # "leased" \/ row.leasedBy # w => UNCHANGED <<job, req, state>>]_vars

(* Publication, acceptance and erasure are as good as atomic.              *)
Contract == INSTANCE ReleaseContract WITH
  accepted <- {s \in Sessions : state[s] \in {"ACCEPTED", "RELEASED"}},
  published <- {[name |-> id.name, sessions |-> id.sessions] : id \in releases},
  erased <- {s \in Sessions : state[s] = "DELETED"}

(* Every step of reviewers, workers, administrators and exports is a step  *)
(* of the contract or changes nothing it speaks of.                        *)
ImplementsContract == Contract!Spec

(* An erasure that was requested is carried out, blocked by a hold, or set *)
(* aside for an administrator: the worker "handles all available jobs".    *)
ErasureSettles ==
  \A r \in Requests : req[r].state = "queued" ~>
                       req[r].state \in {"completed", "blocked", "dead_letter"}

(* The scheduler starts a worker every minute: whatever a worker can do is *)
(* done. Leases run out and retries become available as time passes.       *)
Fairness ==
  /\ \A w \in Workers : WF_vars(WorkerStep(w) /\ UNCHANGED releaseVars)
  /\ WF_vars(ClockStep /\ UNCHANGED releaseVars)

FairSpec == Spec /\ Fairness
=============================================================================
