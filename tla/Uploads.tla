------------------------------ MODULE Uploads -------------------------------
(***************************************************************************)
(* Resumable uploads: the multipart endpoints for one artifact path of a   *)
(* session that stays in UPLOADING.                                        *)
(*                                                                         *)
(* The bytes go from the client to the object store, part by part, under a *)
(* random staging key. Completing an upload assembles the parts, hashes    *)
(* the result, copies it to the raw key, registers the artifact and closes *)
(* the row: every arrow is a call of its own to the store or the database, *)
(* and nothing locks the path. Clients repeat calls, several at a time.    *)
(*                                                                         *)
(*   artifact_multipart_uploads, .._parts   row (one per path; its ID      *)
(*                                          survives a restart)            *)
(*   artifacts                              artifact                       *)
(*   multipart uploads of the store         up (state, stored parts, and   *)
(*                                          whether a URL was handed out)  *)
(*   objects                                stage, by upload, and raw      *)
(* Bytes are named by their hash, and so is an ETag: equal parts have      *)
(* equal ETags, whichever upload they belong to. call[c]: a request being  *)
(* handled, with what the handler has read. misread: a handler could not   *)
(* read back the bytes it had just assembled.                              *)
(***************************************************************************)
EXTENDS Naturals

CONSTANTS Contents,    \* what clients declare and send
          Garbled,     \* parts of several contents put together
          Parts,       \* part numbers of the upload
          Uploads,     \* multipart uploads that the store may create
          Calls,       \* requests being handled at one time
          NoOne,
          MaxFaults    \* bound: crashes and storage failures

ASSUME UploadsAssumption ==
  /\ Garbled \notin Contents /\ NoOne \notin Contents \cup Uploads \cup {Garbled}
  /\ Parts # {} /\ MaxFaults \in Nat

VARIABLES row, artifact, up, stage, raw, call, misread, faults

dbVars == <<row, artifact>>
storageVars == <<up, stage, raw>>
vars == <<dbVars, storageVars, call, misread, faults>>

NoETags == [n \in Parts |-> NoOne]
NoUpload == [state |-> "none", live |-> FALSE, sha |-> NoOne, up |-> NoOne, etags |-> NoETags]
Idle == [at |-> "idle", sha |-> NoOne, up |-> NoOne, etags |-> NoETags]

Steps == {"idle", "find", "expire", "insert", "inserting", "renew", "renewing",
          "list", "raw", "staged", "assemble", "check", "promote", "verify",
          "register", "finish", "abort", "giveUp"}

ETags == [Parts -> Contents \cup {NoOne}]
Rows == [state : {"none", "active", "completed", "aborted"}, live : BOOLEAN,
         sha : Contents \cup {NoOne}, up : Uploads \cup {NoOne}, etags : ETags]
StorageUploads == [state : {"none", "open", "done", "aborted"}, url : BOOLEAN, parts : ETags]
Requests == [at : Steps, sha : Contents \cup {NoOne}, up : Uploads \cup {NoOne}, etags : ETags]

TypeOK ==
  /\ row \in Rows
  /\ artifact \in Contents \cup {NoOne}
  /\ up \in [Uploads -> StorageUploads]
  /\ stage \in [Uploads -> Contents \cup {NoOne, Garbled}]
  /\ raw \in Contents \cup {NoOne}
  /\ call \in [Calls -> Requests]
  /\ misread \in BOOLEAN
  /\ faults \in 0..MaxFaults

Init ==
  /\ row = NoUpload
  /\ artifact = NoOne
  /\ up = [u \in Uploads |-> [state |-> "none", url |-> FALSE, parts |-> NoETags]]
  /\ stage = [u \in Uploads |-> NoOne]
  /\ raw = NoOne
  /\ call = [c \in Calls |-> Idle]
  /\ misread = FALSE
  /\ faults = 0

-----------------------------------------------------------------------------
At(c, step) == call[c].at = step

(* A handler that goes on forgets what it has no more use for.             *)
Kept(r, step) ==
  CASE step \in {"expire", "insert", "renew"} -> [Idle EXCEPT !.sha = r.sha]
    [] step \in {"staged", "assemble"} -> r
    [] step \in {"finish", "giveUp"} -> Idle
    [] OTHER -> [r EXCEPT !.etags = NoETags]

GoesTo(c, step) == call' = [call EXCEPT ![c] = [Kept(@, step) EXCEPT !.at = step]]
Ends(c) == call' = [call EXCEPT ![c] = Idle]
Fault == faults < MaxFaults /\ faults' = faults + 1
NoFault == UNCHANGED <<misread, faults>>

(* An upload that was completed or aborted is not found: the call is an    *)
(* error.                                                                  *)
AbortStorage(u) == up' = IF up[u].state = "open" THEN [up EXCEPT ![u].state = "aborted"] ELSE up

(* Mutant of SetState: a status that the table does not have.              *)
SetExpired(to) ==
  row' = [row EXCEPT !.state = IF to = "aborted" THEN "expired" ELSE to, !.live = FALSE]

(* SetMultipartUploadState by row ID. The row may have been restarted with *)
(* another storage upload since the handler read it.                       *)
SetState(to) == row' = [row EXCEPT !.state = to, !.live = FALSE]

Active == row.state = "active" /\ row.live

-----------------------------------------------------------------------------
(* Start *)

(* A path that is registered is answered at once.                          *)
StartUpload(c, d) ==
  /\ At(c, "idle")
  /\ artifact = NoOne
  /\ call' = [call EXCEPT ![c] = [Idle EXCEPT !.at = "find", !.sha = d]]
  /\ NoFault /\ UNCHANGED <<dbVars, storageVars>>

(* An active upload is returned (or is a conflict), a completed one is a   *)
(* conflict. An expired one is aborted in the store, as well as may be.    *)
FindUpload(c) ==
  /\ At(c, "find")
  /\ \/ (Active \/ row.state = "completed") /\ Ends(c) /\ UNCHANGED up
     \/ row.state = "active" /\ ~row.live /\ GoesTo(c, "expire") /\ AbortStorage(row.up)
     \/ row.state = "aborted" /\ GoesTo(c, "renew") /\ UNCHANGED up
     \/ row.state = "none" /\ GoesTo(c, "insert") /\ UNCHANGED up
  /\ NoFault /\ UNCHANGED <<dbVars, stage, raw>>

ExpireUpload(c) ==
  /\ At(c, "expire")
  /\ \/ row.state = "active" /\ SetState("aborted") /\ GoesTo(c, "renew")
     \/ row.state # "active" /\ UNCHANGED row /\ Ends(c)
  /\ NoFault /\ UNCHANGED <<artifact, storageVars>>

CreateStorageUpload(c, u) ==
  /\ At(c, "insert") \/ At(c, "renew")
  /\ up[u].state = "none"
  /\ up' = [up EXCEPT ![u].state = "open"]
  /\ call' = [call EXCEPT ![c].up = u, ![c].at = IF @ = "insert" THEN "inserting" ELSE "renewing"]
  /\ NoFault /\ UNCHANGED <<dbVars, stage, raw>>

(* The row, as it is written by an insert and by a restart.                *)
Fresh(c) == [state |-> "active", live |-> TRUE, sha |-> call[c].sha, up |-> call[c].up,
             etags |-> NoETags]

(* CreateMultipartUpload (ON CONFLICT DO NOTHING) and RestartMultipartUpload*)
(* (only an aborted row): whoever comes second aborts its storage upload.  *)
SaveUpload(c) ==
  LET expected == IF At(c, "inserting") THEN "none" ELSE "aborted" IN
  /\ At(c, "inserting") \/ At(c, "renewing")
  /\ \/ row.state = expected /\ row' = Fresh(c) /\ UNCHANGED up
     \/ row.state # expected /\ AbortStorage(call[c].up) /\ UNCHANGED row
  /\ Ends(c)
  /\ NoFault /\ UNCHANGED <<artifact, stage, raw>>

UploadExpires ==
  /\ Active
  /\ row' = [row EXCEPT !.live = FALSE]
  /\ NoFault /\ UNCHANGED <<artifact, storageVars, call>>

-----------------------------------------------------------------------------
(* Parts *)

(* A presigned URL for the storage upload of the row; it works as long as  *)
(* that upload is open.                                                    *)
AuthorizePart ==
  /\ Active
  /\ up' = [up EXCEPT ![row.up].url = TRUE]
  /\ NoFault /\ UNCHANGED <<dbVars, stage, raw, call>>

(* The client sends a part to the store; sending it again replaces it.     *)
PutPart(u, n, x) ==
  /\ up[u].url /\ up[u].state = "open"
  /\ up' = [up EXCEPT ![u].parts[n] = x]
  /\ NoFault /\ UNCHANGED <<dbVars, stage, raw, call>>

(* The client reports the ETag that the store gave it, perhaps for the     *)
(* storage upload of before a restart: the row cannot tell.                *)
RecordPart(u, n) ==
  /\ Active
  /\ up[u].parts[n] # NoOne
  /\ row' = [row EXCEPT !.etags[n] = up[u].parts[n]]
  /\ NoFault /\ UNCHANGED <<artifact, storageVars, call>>

-----------------------------------------------------------------------------
(* Complete *)

CompleteUpload(c) ==
  /\ At(c, "idle")
  /\ Active
  /\ call' = [call EXCEPT ![c] = [Idle EXCEPT !.at = "list", !.sha = row.sha, !.up = row.up]]
  /\ NoFault /\ UNCHANGED <<dbVars, storageVars>>

ListParts(c) ==
  /\ At(c, "list")
  /\ IF \A n \in Parts : row.etags[n] # NoOne
     THEN call' = [call EXCEPT ![c].at = "raw", ![c].etags = row.etags]
     ELSE Ends(c)
  /\ NoFault /\ UNCHANGED <<dbVars, storageVars>>

(* An object that cannot be read counts as missing.                        *)
StatRaw(c) ==
  /\ At(c, "raw")
  /\ \/ raw = NoOne /\ GoesTo(c, "staged") /\ NoFault
     \/ raw # NoOne /\ GoesTo(c, "staged") /\ Fault /\ UNCHANGED misread
     \/ raw = call[c].sha /\ GoesTo(c, "verify") /\ NoFault
     \/ raw \notin {NoOne, call[c].sha} /\ Ends(c) /\ NoFault
  /\ UNCHANGED <<dbVars, storageVars>>

Remove(c) == stage' = [stage EXCEPT ![call[c].up] = NoOne]

(* An error of Delete is ignored: the staged object may stay.              *)
Discard(c) == Remove(c) \/ UNCHANGED stage

StatStaged(c) ==
  LET staged == stage[call[c].up] IN
  /\ At(c, "staged")
  /\ \/ staged = NoOne /\ GoesTo(c, "assemble") /\ NoFault /\ UNCHANGED stage
     \/ staged # NoOne /\ GoesTo(c, "assemble") /\ Fault /\ UNCHANGED <<stage, misread>>
     \/ staged = call[c].sha /\ GoesTo(c, "promote") /\ NoFault /\ UNCHANGED stage
     \/ staged \notin {NoOne, call[c].sha} /\ GoesTo(c, "giveUp") /\ NoFault /\ Discard(c)
  /\ UNCHANGED <<dbVars, up, raw>>

(* Whole is the content all parts belong to.                               *)
Whole(parts) ==
  IF \E x \in Contents : \A n \in Parts : parts[n] = x
  THEN CHOOSE x \in Contents : \A n \in Parts : parts[n] = x ELSE Garbled

(* The store assembles an open upload whose parts have these ETags.        *)
Assemble(c) ==
  LET u == call[c].up IN
  /\ At(c, "assemble")
  /\ IF up[u].state = "open" /\ up[u].parts = call[c].etags
     THEN /\ up' = [up EXCEPT ![u].state = "done"]
          /\ stage' = [stage EXCEPT ![u] = Whole(up[u].parts)]
          /\ GoesTo(c, "check")
     ELSE Ends(c) /\ UNCHANGED <<up, stage>>
  /\ NoFault /\ UNCHANGED <<dbVars, raw>>

(* Mutant of Verified: any assembled object will do.                       *)
Assembled(c) == stage[call[c].up] # NoOne

Verified(c) == stage[call[c].up] = call[c].sha

(* Bytes that are gone, do not match or cannot be read are given up.       *)
CheckAssembled(c) ==
  /\ At(c, "check")
  /\ \/ Verified(c) /\ GoesTo(c, "promote") /\ NoFault /\ UNCHANGED stage
     \/ ~Verified(c) /\ GoesTo(c, "giveUp") /\ NoFault /\ Discard(c)
     \/ Verified(c) /\ GoesTo(c, "giveUp") /\ Fault /\ misread' = TRUE /\ Discard(c)
  /\ UNCHANGED <<dbVars, up, raw>>

GiveUp(c) ==
  /\ At(c, "giveUp")
  /\ IF row.state = "active" THEN SetState("aborted") ELSE UNCHANGED row
  /\ Ends(c)
  /\ NoFault /\ UNCHANGED <<artifact, storageVars>>

(* Mutant of Promote: the source is deleted before it is copied.           *)
PromoteLast(c) ==
  /\ At(c, "promote")
  /\ \/ raw # NoOne /\ GoesTo(c, "verify") /\ NoFault /\ UNCHANGED raw
     \/ raw = NoOne /\ raw' = stage[call[c].up] /\ GoesTo(c, "verify") /\ NoFault
     \/ raw = NoOne /\ Ends(c) /\ Fault /\ UNCHANGED <<raw, misread>>
  /\ Remove(c)
  /\ UNCHANGED <<dbVars, up>>

(* PromoteMultipartUpload: copy unless there is a raw object, which is not *)
(* an error, then delete the source. Either call may fail.                 *)
Promote(c) ==
  LET u == call[c].up IN
  /\ At(c, "promote")
  /\ \/ stage[u] = NoOne /\ Ends(c) /\ NoFault /\ UNCHANGED <<stage, raw>>
     \/ stage[u] # NoOne /\ raw # NoOne /\ GoesTo(c, "verify") /\ NoFault /\ UNCHANGED <<stage, raw>>
     \/ stage[u] # NoOne /\ raw = NoOne /\ raw' = stage[u] /\ GoesTo(c, "verify") /\ NoFault /\ Remove(c)
     \/ stage[u] # NoOne /\ raw = NoOne /\ raw' = stage[u] /\ Ends(c) /\ Fault /\ UNCHANGED <<stage, misread>>
  /\ UNCHANGED <<dbVars, up>>

VerifyRaw(c) ==
  /\ At(c, "verify")
  /\ IF raw = call[c].sha THEN GoesTo(c, "register") /\ Discard(c)
                          ELSE Ends(c) /\ UNCHANGED stage
  /\ NoFault /\ UNCHANGED <<dbVars, up, raw>>

(* Mutant of RegisterArtifact: a registration that fails is not noticed.   *)
RegisterOrNot(c) ==
  /\ At(c, "register")
  /\ \/ artifact = NoOne /\ artifact' = call[c].sha
     \/ UNCHANGED artifact
  /\ GoesTo(c, "finish")
  /\ NoFault /\ UNCHANGED <<row, storageVars>>

RegisterArtifact(c) ==
  /\ At(c, "register")
  /\ \/ artifact = NoOne /\ artifact' = call[c].sha /\ GoesTo(c, "finish")
     \/ artifact = call[c].sha /\ UNCHANGED artifact /\ GoesTo(c, "finish")
     \/ artifact \notin {NoOne, call[c].sha} /\ UNCHANGED artifact /\ Ends(c)
  /\ NoFault /\ UNCHANGED <<row, storageVars>>

FinishUpload(c) ==
  /\ At(c, "finish")
  /\ IF row.state = "active" THEN SetState("completed") ELSE UNCHANGED row
  /\ Ends(c)
  /\ NoFault /\ UNCHANGED <<artifact, storageVars>>

-----------------------------------------------------------------------------
(* Abort, and the end of a process *)

AbortUpload(c) ==
  /\ At(c, "idle")
  /\ row.state = "active"
  /\ call' = [call EXCEPT ![c] = [Idle EXCEPT !.at = "abort", !.up = row.up]]
  /\ NoFault /\ UNCHANGED <<dbVars, storageVars>>

AbortAtStorage(c) ==
  /\ At(c, "abort")
  /\ AbortStorage(call[c].up)
  /\ IF up[call[c].up].state = "open" THEN GoesTo(c, "giveUp") ELSE Ends(c)
  /\ NoFault /\ UNCHANGED <<dbVars, stage, raw>>

HandlerDies(c) ==
  /\ ~At(c, "idle")
  /\ Fault
  /\ Ends(c)
  /\ UNCHANGED <<dbVars, storageVars, misread>>

-----------------------------------------------------------------------------
HandlerStep(c) ==
  \/ FindUpload(c) \/ ExpireUpload(c) \/ SaveUpload(c)
  \/ \E u \in Uploads : CreateStorageUpload(c, u)
  \/ ListParts(c) \/ StatRaw(c) \/ StatStaged(c) \/ Assemble(c) \/ CheckAssembled(c)
  \/ GiveUp(c) \/ Promote(c) \/ VerifyRaw(c) \/ RegisterArtifact(c) \/ FinishUpload(c)
  \/ AbortAtStorage(c)

ClientStep ==
  \/ \E c \in Calls : \/ CompleteUpload(c) \/ AbortUpload(c)
                      \/ \E d \in Contents : StartUpload(c, d)
  \/ AuthorizePart
  \/ \E u \in Uploads, n \in Parts : RecordPart(u, n) \/ \E x \in Contents : PutPart(u, n, x)

Next ==
  \/ ClientStep \/ UploadExpires
  \/ \E c \in Calls : HandlerStep(c) \/ HandlerDies(c)

Spec == Init /\ [][Next]_vars

-----------------------------------------------------------------------------
(* Properties *)

(* A row is completed only when the artifact is registered, even if the    *)
(* row was restarted, for other bytes, while a handler was completing the  *)
(* upload of before: "this upload completed but its artifact registration  *)
(* is unavailable" is never true (startMultipartArtifactUpload).           *)
CompletedIsRegistered == row.state = "completed" => artifact # NoOne

(* Once the store has assembled the declared bytes of an upload that is    *)
(* still active, they stay: in staging or as the raw object. Handlers that *)
(* complete, abort or restart it at the same time, and die, do not lose    *)
(* them; only a failure to read them back does                             *)
(* (completeMultipartArtifactUpload).                                      *)
AssembledBytesSurvive ==
  row.state = "active" /\ ~misread =>
    LET u == up[row.up] IN
    u.state = "done" /\ Whole(u.parts) = row.sha => stage[row.up] = row.sha \/ raw # NoOne

Contract == INSTANCE ArtifactContract WITH object <- raw, entry <- artifact

(* The raw object is written once, with declared bytes only, and the       *)
(* artifact row describes it.                                              *)
ImplementsContract == Contract!Spec
=============================================================================
