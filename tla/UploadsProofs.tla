--------------------------- MODULE UploadsProofs ---------------------------
(***************************************************************************)
(* Proofs about Uploads: its type invariant, the safety invariants and the *)
(* refinement of ArtifactContract, for every set of contents, parts,       *)
(* storage uploads and handlers.                                           *)
(*                                                                         *)
(* None of the properties is inductive by itself. Sound says what a        *)
(* handler may still rely on at each step although other handlers have     *)
(* moved since it read; Exclusive that a storage upload belongs to its     *)
(* creator until it is in the row, so that it has one declared hash; and   *)
(* StagedIsDone that assembled bytes are frozen. A step of one handler     *)
(* then changes the shared state only in ways (Stable) that keep every     *)
(* other handler sound: OthersStaySound is proved once for all steps.      *)
(***************************************************************************)
EXTENDS Uploads, TLAPS

Starting == {"find", "expire", "insert", "renew"}
Saving == {"inserting", "renewing"}
Completing == {"list", "raw", "staged", "assemble", "check", "promote", "verify", "register"}

(* What handler d may rely on.                                             *)
Sound(d) ==
  LET r == call[d] IN
  /\ r.at \in Starting \cup Saving \cup Completing => r.sha \in Contents
  /\ r.at \in Saving \cup Completing \cup {"abort"} => r.up \in Uploads
  /\ r.up # NoOne => up[r.up].state # "none"
  /\ r.at \in Saving => row.up # r.up /\ up[r.up].state # "done"
  /\ r.at \in Completing /\ r.up = row.up => r.sha = row.sha
  /\ r.at \in {"check", "promote"} => up[r.up].state = "done"
  /\ r.at = "promote" => stage[r.up] \in {NoOne, r.sha}
  /\ r.at = "register" => raw = r.sha
  /\ r.at = "finish" => artifact # NoOne

Exclusive ==
  \A c, d \in Calls : c # d /\ call[c].at \in Saving => call[d].up # call[c].up

RowSound ==
  /\ row.state = "active" => row.up \in Uploads /\ row.sha \in Contents
  /\ row.up # NoOne => up[row.up].state # "none"

StagedIsDone == \A u \in Uploads : stage[u] # NoOne => up[u].state = "done"

IInv ==
  /\ TypeOK
  /\ \A c \in Calls : Sound(c)
  /\ Exclusive /\ RowSound /\ StagedIsDone
  /\ CompletedIsRegistered /\ AssembledBytesSurvive

-----------------------------------------------------------------------------
(* How a step of a handler changes what handlers share. A storage upload   *)
(* is assembled once, staged bytes are not replaced, and what is in raw    *)
(* storage or registered stays.                                            *)

Grows(u) ==
  /\ up[u].state # "none" => up'[u].state # "none"
  /\ up[u].state = "done" => up'[u].state = "done" /\ up'[u].parts = up[u].parts
  /\ stage[u] # NoOne => stage'[u] \in {NoOne, stage[u]}
  /\ stage[u] = NoOne /\ stage'[u] # NoOne => up[u].state # "done" /\ up'[u].state = "done"

Stable(c) ==
  /\ row'.up = row.up /\ row'.sha = row.sha
  /\ \A u \in Uploads : Grows(u)
  /\ \A u \in Uploads : up[u].state # "done" /\ up'[u].state = "done" =>
                          u = call[c].up /\ call[c].at \notin Saving
  /\ raw # NoOne => raw' = raw
  /\ artifact # NoOne => artifact' = artifact

(* The other handlers have not moved, and this one holds no upload that is *)
(* not in the row.                                                         *)
Moves(c) ==
  /\ \A d \in Calls \ {c} : call'[d] = call[d]
  /\ call'[c].up \in {call[c].up, row.up, NoOne}
  /\ call'[c].at \notin Saving

LEMMA OthersStaySound ==
  ASSUME IInv, TypeOK', NEW c \in Calls, Moves(c), Stable(c)
  PROVE  /\ \A d \in Calls \ {c} : Sound(d)'
         /\ Exclusive'
         /\ row'.up # NoOne => up'[row'.up].state # "none"
<1> USE UploadsAssumption DEF IInv, Moves
<1>1. Exclusive'
  <2>1. \A d \in Calls : call[d].at \in Saving =>
                           call[d].up \in Uploads /\ call[d].up # row.up
    BY DEF Sound
  <2> QED
    BY <2>1 DEF Exclusive
<1>2. row'.up # NoOne => up'[row'.up].state # "none"
  <2>1. row.up \in Uploads \cup {NoOne}
    BY DEF TypeOK, Rows
  <2> QED
    BY <2>1 DEF RowSound, Stable, Grows
<1>3. ASSUME NEW d \in Calls \ {c} PROVE Sound(d)'
  <2>1. call'[d] = call[d] /\ Sound(d) /\ call[d] \in Requests /\ c \in Calls /\ c # d
    BY DEF TypeOK
  <2>2. call[d].up \in Uploads \cup {NoOne}
    BY <2>1 DEF Requests
  <2>3. call[d].at \in Saving => call[c].up # call[d].up
    BY <2>1 DEF Exclusive
  <2>4. raw \in Contents \cup {NoOne}
    BY DEF TypeOK
  <2> HIDE DEF IInv, Moves
  <2> QED
    BY <2>1, <2>2, <2>3, <2>4 DEF Sound, Stable, Grows, Starting, Saving, Completing
<1> QED
  BY <1>1, <1>2, <1>3

-----------------------------------------------------------------------------
(* Helpers of the actions *)

LEMMA WholeType == \A parts : Whole(parts) \in Contents \cup {Garbled}
  BY DEF Whole

LEMMA NoETagsType == NoETags \in ETags
  BY DEF NoETags, ETags

LEMMA IdleType == Idle \in Requests
  BY NoETagsType DEF Idle, Requests, Steps

(* A handler that goes on keeps what it holds, or forgets it.              *)
LEMMA GoesToFacts ==
  ASSUME TypeOK, NEW c \in Calls, NEW step \in Steps \ Saving, GoesTo(c, step)
  PROVE  /\ call' \in [Calls -> Requests]
         /\ Moves(c)
         /\ call'[c].at = step
         /\ step \notin {"finish", "giveUp"} => call'[c].sha = call[c].sha
         /\ step \notin {"finish", "giveUp", "expire", "insert", "renew"} =>
              call'[c].up = call[c].up
         /\ step \in {"finish", "giveUp", "expire", "insert", "renew"} => call'[c].up = NoOne
<1> DEFINE r == [Kept(call[c], step) EXCEPT !.at = step]
<1>1. call[c] \in Requests /\ call \in [Calls -> Requests]
  BY DEF TypeOK
<1>2. /\ r \in Requests
      /\ r.at = step /\ r.up \in {call[c].up, NoOne}
      /\ step \notin {"finish", "giveUp"} => r.sha = call[c].sha
      /\ step \notin {"finish", "giveUp", "expire", "insert", "renew"} => r.up = call[c].up
      /\ step \in {"finish", "giveUp", "expire", "insert", "renew"} => r.up = NoOne
  <2> USE <1>1 DEF Requests
  <2>1. CASE step \in {"expire", "insert", "renew"}
    BY <2>1, NoETagsType DEF Kept, Idle
  <2>2. CASE step \in {"staged", "assemble"}
    BY <2>2 DEF Kept
  <2>3. CASE step \in {"finish", "giveUp"}
    BY <2>3, NoETagsType DEF Kept, Idle
  <2>4. CASE step \notin {"expire", "insert", "renew", "staged", "assemble", "finish", "giveUp"}
    <3>1. r = [[call[c] EXCEPT !.etags = NoETags] EXCEPT !.at = step]
      BY <2>4 DEF Kept
    <3> HIDE DEF r
    <3> QED
      BY <2>4, <3>1, NoETagsType
  <2> QED
    BY <2>1, <2>2, <2>3, <2>4
<1>3. call' = [call EXCEPT ![c] = r]
  BY DEF GoesTo
<1> HIDE DEF r
<1> QED
  BY <1>1, <1>2, <1>3 DEF Moves

LEMMA EndsFacts ==
  ASSUME TypeOK, NEW c \in Calls, Ends(c)
  PROVE  /\ call' \in [Calls -> Requests]
         /\ Moves(c)
         /\ call'[c].at = "idle" /\ call'[c].up = NoOne
<1>1. Idle.at = "idle" /\ Idle.up = NoOne
  BY DEF Idle
<1>2. call \in [Calls -> Requests] /\ call' = [call EXCEPT ![c] = Idle]
  BY DEF TypeOK, Ends
<1> QED
  BY <1>1, <1>2, IdleType DEF Moves, Saving

(* A handler that is idle, or that goes on for a client it has no          *)
(* obligations to, relies on nothing.                                      *)
LEMMA IdleIsSound ==
  ASSUME NEW c \in Calls, call'[c].at \in {"idle", "giveUp"}, call'[c].up = NoOne
  PROVE  Sound(c)'
  BY DEF Sound, Starting, Saving, Completing

(* Aborting in the store never touches an assembled upload.                *)
LEMMA AbortFacts ==
  ASSUME TypeOK, NEW u \in Uploads, AbortStorage(u)
  PROVE  /\ up' \in [Uploads -> StorageUploads]
         /\ \A v \in Uploads :
              /\ up'[v].parts = up[v].parts
              /\ \/ up'[v].state = up[v].state
                 \/ up[v].state = "open" /\ up'[v].state = "aborted"
<1>1. up \in [Uploads -> StorageUploads]
  BY DEF TypeOK
<1>2. CASE up[u].state = "open"
  <2>1. up' = [up EXCEPT ![u].state = "aborted"]
    BY <1>2 DEF AbortStorage
  <2> QED
    BY <1>1, <1>2, <2>1 DEF StorageUploads
<1>3. CASE up[u].state # "open"
  <2>1. up' = up
    BY <1>3 DEF AbortStorage
  <2> QED
    BY <1>1, <2>1
<1> QED
  BY <1>2, <1>3

(* Closing a row.                                                          *)
LEMMA SetStateFacts ==
  ASSUME TypeOK, NEW to \in {"completed", "aborted"}, SetState(to)
  PROVE  row' \in Rows /\ row'.state = to /\ row'.up = row.up /\ row'.sha = row.sha
<1>1. row \in Rows
  BY DEF TypeOK
<1> QED
  BY <1>1 DEF SetState, Rows

-----------------------------------------------------------------------------
(* What a handler's step must show *)

LEMMA HandlerStepKeepsInv ==
  ASSUME IInv, TypeOK', NEW c \in Calls, Moves(c), Stable(c), Sound(c)',
         row'.state = "active" => row.state = "active",
         row'.state = "completed" => artifact' # NoOne,
         AssembledBytesSurvive'
  PROVE  IInv'
<1>1. /\ \A d \in Calls : Sound(d)'
      /\ Exclusive'
      /\ row'.up # NoOne => up'[row'.up].state # "none"
  BY OthersStaySound
<1>2. RowSound'
  BY <1>1 DEF IInv, RowSound, Stable
<1>3. StagedIsDone'
  BY DEF IInv, StagedIsDone, Stable, Grows
<1> QED
  BY <1>1, <1>2, <1>3 DEF IInv, CompletedIsRegistered

(* A step that does not touch the store.                                   *)
LEMMA QuietStepKeepsInv ==
  ASSUME IInv, NEW c \in Calls, Moves(c), Sound(c)',
         call' \in [Calls -> Requests], row' \in Rows,
         artifact' \in Contents \cup {NoOne}, faults' \in 0..MaxFaults,
         UNCHANGED <<storageVars, misread>>,
         row'.up = row.up, row'.sha = row.sha,
         row'.state = "active" => row.state = "active",
         row'.state = "completed" => artifact' # NoOne,
         artifact # NoOne => artifact' = artifact
  PROVE  IInv'
<1>1. TypeOK'
  BY DEF IInv, TypeOK, storageVars
<1>2. Stable(c)
  BY DEF Stable, Grows, storageVars
<1>3. AssembledBytesSurvive'
  BY DEF IInv, AssembledBytesSurvive, storageVars
<1> QED
  BY <1>1, <1>2, <1>3, HandlerStepKeepsInv

-----------------------------------------------------------------------------
(* The actions *)

LEMMA StartUploadStep ==
  ASSUME IInv, NEW c \in Calls, NEW d \in Contents, StartUpload(c, d)
  PROVE  IInv'
<1> DEFINE r == [Idle EXCEPT !.at = "find", !.sha = d]
<1>1. r \in Requests /\ r.at = "find" /\ r.sha = d /\ r.up = NoOne
  BY NoETagsType DEF Idle, Requests, Steps
<1> HIDE DEF r
<1>2. call \in [Calls -> Requests] /\ call' = [call EXCEPT ![c] = r]
  BY DEF IInv, TypeOK, StartUpload, r
<1>3. Moves(c) /\ call' \in [Calls -> Requests]
  BY <1>1, <1>2 DEF Moves, Saving
<1>4. Sound(c)'
  BY <1>1, <1>2 DEF Sound, Starting, Saving, Completing
<1> QED
  BY <1>3, <1>4, QuietStepKeepsInv
  DEF IInv, TypeOK, CompletedIsRegistered, StartUpload, NoFault, dbVars

LEMMA CompleteUploadStep ==
  ASSUME IInv, NEW c \in Calls, CompleteUpload(c)
  PROVE  IInv'
<1> DEFINE r == [Idle EXCEPT !.at = "list", !.sha = row.sha, !.up = row.up]
<1>1. /\ row \in Rows /\ row.up \in Uploads /\ row.sha \in Contents
      /\ up[row.up].state # "none"
  BY UploadsAssumption DEF IInv, TypeOK, RowSound, CompleteUpload, Active
<1>2. r \in Requests /\ r.at = "list" /\ r.sha = row.sha /\ r.up = row.up
  BY <1>1, NoETagsType DEF Idle, Requests, Steps
<1> HIDE DEF r
<1>3. call \in [Calls -> Requests] /\ call' = [call EXCEPT ![c] = r]
  BY DEF IInv, TypeOK, CompleteUpload, r
<1>4. Moves(c) /\ call' \in [Calls -> Requests]
  BY <1>2, <1>3 DEF Moves, Saving
<1>5. Sound(c)'
  BY <1>1, <1>2, <1>3
  DEF Sound, Starting, Saving, Completing, CompleteUpload, dbVars, storageVars
<1> QED
  BY <1>4, <1>5, QuietStepKeepsInv
  DEF IInv, TypeOK, CompletedIsRegistered, CompleteUpload, NoFault, dbVars

LEMMA AbortUploadStep ==
  ASSUME IInv, NEW c \in Calls, AbortUpload(c)
  PROVE  IInv'
<1> DEFINE r == [Idle EXCEPT !.at = "abort", !.up = row.up]
<1>1. row.up \in Uploads /\ up[row.up].state # "none"
  BY UploadsAssumption DEF IInv, RowSound, AbortUpload
<1>2. r \in Requests /\ r.at = "abort" /\ r.up = row.up
  BY <1>1, NoETagsType DEF Idle, Requests, Steps
<1> HIDE DEF r
<1>3. call \in [Calls -> Requests] /\ call' = [call EXCEPT ![c] = r]
  BY DEF IInv, TypeOK, AbortUpload, r
<1>4. Moves(c) /\ call' \in [Calls -> Requests]
  BY <1>2, <1>3 DEF Moves, Saving
<1>5. Sound(c)'
  BY <1>1, <1>2, <1>3
  DEF Sound, Starting, Saving, Completing, AbortUpload, dbVars, storageVars
<1> QED
  BY <1>4, <1>5, QuietStepKeepsInv
  DEF IInv, TypeOK, CompletedIsRegistered, AbortUpload, NoFault, dbVars

LEMMA HandlerDiesStep ==
  ASSUME IInv, NEW c \in Calls, HandlerDies(c)
  PROVE  IInv'
<1>1. Moves(c) /\ call' \in [Calls -> Requests] /\ Sound(c)'
  BY EndsFacts, IdleIsSound DEF IInv, HandlerDies
<1>2. faults' \in 0..MaxFaults
  BY UploadsAssumption DEF IInv, TypeOK, HandlerDies, Fault
<1> QED
  BY <1>1, <1>2, QuietStepKeepsInv
  DEF IInv, TypeOK, CompletedIsRegistered, HandlerDies, dbVars

LEMMA ExpireUploadStep ==
  ASSUME IInv, NEW c \in Calls, ExpireUpload(c)
  PROVE  IInv'
<1>1. CASE row.state = "active" /\ SetState("aborted") /\ GoesTo(c, "renew")
  <2>1. row' \in Rows /\ row'.state = "aborted" /\ row'.up = row.up /\ row'.sha = row.sha
    BY <1>1, SetStateFacts DEF IInv
  <2>2. /\ Moves(c) /\ call' \in [Calls -> Requests]
        /\ call'[c].at = "renew" /\ call'[c].sha = call[c].sha /\ call'[c].up = NoOne
    BY <1>1, GoesToFacts DEF IInv, Steps, Saving
  <2>3. Sound(c)'
    BY <2>2 DEF IInv, Sound, Starting, Saving, Completing, ExpireUpload, At
  <2> QED
    BY <2>1, <2>2, <2>3, QuietStepKeepsInv DEF IInv, TypeOK, ExpireUpload, NoFault
<1>2. CASE row.state # "active" /\ UNCHANGED row /\ Ends(c)
  <2>1. Moves(c) /\ call' \in [Calls -> Requests] /\ Sound(c)'
    BY <1>2, EndsFacts, IdleIsSound DEF IInv
  <2> QED
    BY <1>2, <2>1, QuietStepKeepsInv
    DEF IInv, TypeOK, CompletedIsRegistered, ExpireUpload, NoFault
<1> QED
  BY <1>1, <1>2 DEF ExpireUpload

LEMMA ListPartsStep ==
  ASSUME IInv, NEW c \in Calls, ListParts(c)
  PROVE  IInv'
<1>1. Moves(c) /\ call' \in [Calls -> Requests] /\ Sound(c)'
  <2>1. CASE Ends(c)
    BY <2>1, EndsFacts, IdleIsSound DEF IInv
  <2>2. CASE call' = [call EXCEPT ![c].at = "raw", ![c].etags = row.etags]
    <3>1. call \in [Calls -> Requests] /\ row.etags \in ETags
      BY DEF IInv, TypeOK, Rows
    <3>2. /\ call' \in [Calls -> Requests] /\ Moves(c)
          /\ call'[c].at = "raw" /\ call'[c].up = call[c].up /\ call'[c].sha = call[c].sha
      BY <2>2, <3>1 DEF Requests, Steps, Moves, Saving
    <3>3. Sound(c)'
      BY <3>2
      DEF IInv, Sound, Starting, Saving, Completing, ListParts, At, dbVars, storageVars
    <3> QED
      BY <3>2, <3>3
  <2> QED
    BY <2>1, <2>2 DEF ListParts
<1> QED
  BY <1>1, QuietStepKeepsInv
  DEF IInv, TypeOK, CompletedIsRegistered, ListParts, NoFault, dbVars

LEMMA StatRawStep ==
  ASSUME IInv, NEW c \in Calls, StatRaw(c)
  PROVE  IInv'
<1>1. faults' \in 0..MaxFaults
  BY UploadsAssumption DEF IInv, TypeOK, StatRaw, Fault, NoFault
<1>2. Moves(c) /\ call' \in [Calls -> Requests] /\ Sound(c)'
  <2>1. ASSUME NEW step \in {"staged", "verify"}, GoesTo(c, step)
        PROVE  Moves(c) /\ call' \in [Calls -> Requests] /\ Sound(c)'
    <3>1. /\ call' \in [Calls -> Requests] /\ Moves(c)
          /\ call'[c].at = step /\ call'[c].up = call[c].up /\ call'[c].sha = call[c].sha
      BY <2>1, GoesToFacts DEF IInv, Steps, Saving
    <3>2. Sound(c)'
      BY <3>1
      DEF IInv, Sound, Starting, Saving, Completing, StatRaw, At, dbVars, storageVars
    <3> QED
      BY <3>1, <3>2
  <2>2. CASE Ends(c)
    BY <2>2, EndsFacts, IdleIsSound DEF IInv
  <2> QED
    BY <2>1, <2>2 DEF StatRaw
<1> QED
  BY <1>1, <1>2, QuietStepKeepsInv
  DEF IInv, TypeOK, CompletedIsRegistered, StatRaw, NoFault, dbVars

LEMMA GiveUpStep ==
  ASSUME IInv, NEW c \in Calls, GiveUp(c)
  PROVE  IInv'
<1>1. Moves(c) /\ call' \in [Calls -> Requests] /\ Sound(c)'
  BY EndsFacts, IdleIsSound DEF IInv, GiveUp
<1>2. /\ row' \in Rows /\ row'.up = row.up /\ row'.sha = row.sha
      /\ row'.state = "active" => row.state = "active"
      /\ row'.state = "completed" => artifact' # NoOne
  BY SetStateFacts DEF IInv, TypeOK, CompletedIsRegistered, GiveUp
<1> QED
  BY <1>1, <1>2, QuietStepKeepsInv DEF IInv, TypeOK, GiveUp, NoFault

LEMMA FinishUploadStep ==
  ASSUME IInv, NEW c \in Calls, FinishUpload(c)
  PROVE  IInv'
<1>1. Moves(c) /\ call' \in [Calls -> Requests] /\ Sound(c)'
  BY EndsFacts, IdleIsSound DEF IInv, FinishUpload
<1>2. artifact # NoOne
  BY DEF IInv, Sound, FinishUpload, At
<1>3. /\ row' \in Rows /\ row'.up = row.up /\ row'.sha = row.sha
      /\ row'.state = "active" => row.state = "active"
  BY SetStateFacts DEF IInv, TypeOK, FinishUpload
<1> QED
  BY <1>1, <1>2, <1>3, QuietStepKeepsInv DEF IInv, TypeOK, FinishUpload, NoFault

LEMMA RegisterArtifactStep ==
  ASSUME IInv, NEW c \in Calls, RegisterArtifact(c)
  PROVE  IInv'
<1>1. call[c].sha \in Contents
  BY DEF IInv, Sound, RegisterArtifact, At, Completing
<1>2. Moves(c) /\ call' \in [Calls -> Requests] /\ Sound(c)'
  <2>1. CASE GoesTo(c, "finish")
    <3>1. /\ call' \in [Calls -> Requests] /\ Moves(c)
          /\ call'[c].at = "finish" /\ call'[c].up = NoOne
      BY <2>1, GoesToFacts DEF IInv, Steps, Saving
    <3>2. artifact' # NoOne
      BY <1>1, <2>1, <3>1, UploadsAssumption, EndsFacts DEF IInv, RegisterArtifact
    <3> QED
      BY <3>1, <3>2 DEF Sound, Starting, Saving, Completing
  <2>2. CASE Ends(c)
    BY <2>2, EndsFacts, IdleIsSound DEF IInv
  <2> QED
    BY <2>1, <2>2 DEF RegisterArtifact
<1> QED
  BY <1>1, <1>2, UploadsAssumption, QuietStepKeepsInv
  DEF IInv, TypeOK, CompletedIsRegistered, RegisterArtifact, NoFault

-----------------------------------------------------------------------------
(* The actions that touch the store *)

(* Clients and the clock: no handler moves, no upload is assembled.        *)
LEMMA ClientStepKeepsInv ==
  ASSUME IInv, row' \in Rows, up' \in [Uploads -> StorageUploads],
         UNCHANGED <<artifact, stage, raw, call, misread, faults>>,
         row'.up = row.up, row'.sha = row.sha, row'.state = row.state,
         \A u \in Uploads : /\ up'[u].state = up[u].state
                            /\ up[u].state = "done" => up'[u].parts = up[u].parts
  PROVE  IInv'
<1>1. TypeOK'
  BY DEF IInv, TypeOK
<1>2. ASSUME NEW c \in Calls PROVE Sound(c)'
  <2>1. Sound(c) /\ call[c].up \in Uploads \cup {NoOne}
    BY DEF IInv, TypeOK, Requests
  <2> QED
    BY <2>1, UploadsAssumption DEF Sound, Starting, Saving, Completing
<1>3. row.up \in Uploads \cup {NoOne}
  BY DEF IInv, TypeOK, Rows
<1>4. Exclusive' /\ RowSound' /\ StagedIsDone' /\ CompletedIsRegistered'
  BY <1>3 DEF IInv, Exclusive, RowSound, StagedIsDone, CompletedIsRegistered
<1>5. AssembledBytesSurvive'
  <2>1. row.state = "active" => row.up \in Uploads
    BY DEF IInv, RowSound
  <2> QED
    BY <2>1 DEF IInv, AssembledBytesSurvive
<1> QED
  BY <1>1, <1>2, <1>4, <1>5 DEF IInv

LEMMA ClientStepStep == IInv /\ ClientStep => IInv'
<1> SUFFICES ASSUME IInv, ClientStep PROVE IInv'
  OBVIOUS
<1>1. row \in Rows /\ up \in [Uploads -> StorageUploads]
  BY DEF IInv, TypeOK
<1>2. CASE AuthorizePart
  <2>1. row.up \in Uploads
    BY <1>2 DEF IInv, RowSound, AuthorizePart, Active
  <2>2. up' = [up EXCEPT ![row.up].url = TRUE]
    BY <1>2 DEF AuthorizePart
  <2>3. /\ up' \in [Uploads -> StorageUploads]
        /\ \A u \in Uploads : up'[u].state = up[u].state /\ up'[u].parts = up[u].parts
    BY <1>1, <2>1, <2>2 DEF StorageUploads
  <2> QED
    BY <1>1, <1>2, <2>3, ClientStepKeepsInv DEF AuthorizePart, NoFault, dbVars
<1>3. ASSUME NEW u \in Uploads, NEW n \in Parts, RecordPart(u, n) PROVE IInv'
  <2>1. up[u].parts[n] \in Contents \cup {NoOne}
    BY <1>1 DEF StorageUploads, ETags
  <2>2. row' = [row EXCEPT !.etags[n] = up[u].parts[n]]
    BY <1>3 DEF RecordPart
  <2>3. row' \in Rows /\ row'.up = row.up /\ row'.sha = row.sha /\ row'.state = row.state
    BY <1>1, <2>1, <2>2 DEF Rows, ETags
  <2> QED
    BY <1>1, <1>3, <2>3, ClientStepKeepsInv DEF RecordPart, NoFault, storageVars
<1>4. ASSUME NEW u \in Uploads, NEW n \in Parts, NEW x \in Contents, PutPart(u, n, x)
      PROVE  IInv'
  <2>1. up' = [up EXCEPT ![u].parts[n] = x] /\ up[u].state = "open"
    BY <1>4 DEF PutPart
  <2>2. /\ up' \in [Uploads -> StorageUploads]
        /\ \A v \in Uploads : /\ up'[v].state = up[v].state
                              /\ up[v].state = "done" => up'[v].parts = up[v].parts
    BY <1>1, <2>1 DEF StorageUploads, ETags
  <2> QED
    BY <1>1, <1>4, <2>2, ClientStepKeepsInv DEF PutPart, NoFault, dbVars
<1> QED
  BY <1>2, <1>3, <1>4, StartUploadStep, CompleteUploadStep, AbortUploadStep DEF ClientStep

LEMMA UploadExpiresStep == IInv /\ UploadExpires => IInv'
<1> SUFFICES ASSUME IInv, UploadExpires PROVE IInv'
  OBVIOUS
<1>1. row \in Rows /\ up \in [Uploads -> StorageUploads]
  BY DEF IInv, TypeOK
<1>2. row' \in Rows /\ row'.up = row.up /\ row'.sha = row.sha /\ row'.state = row.state
  BY <1>1 DEF Rows, UploadExpires
<1> QED
  BY <1>1, <1>2, ClientStepKeepsInv DEF UploadExpires, NoFault, storageVars

(* A step that at most aborts an upload in the store.                      *)
LEMMA AbortingStepKeepsInv ==
  ASSUME IInv, NEW c \in Calls, Moves(c), Sound(c)', call' \in [Calls -> Requests],
         UNCHANGED <<dbVars, stage, raw, misread, faults>>,
         up' = up \/ \E u \in Uploads : AbortStorage(u)
  PROVE  IInv'
<1>1. /\ up' \in [Uploads -> StorageUploads]
      /\ \A v \in Uploads : /\ up'[v].parts = up[v].parts
                            /\ \/ up'[v].state = up[v].state
                               \/ up[v].state = "open" /\ up'[v].state = "aborted"
  BY AbortFacts DEF IInv, TypeOK
<1>2. TypeOK'
  BY <1>1 DEF IInv, TypeOK, dbVars
<1>3. Stable(c)
  BY <1>1 DEF Stable, Grows, dbVars
<1>4. AssembledBytesSurvive'
  <2>1. row.state = "active" => row.up \in Uploads
    BY DEF IInv, RowSound
  <2> QED
    BY <1>1, <2>1 DEF IInv, AssembledBytesSurvive, dbVars
<1> QED
  BY <1>2, <1>3, <1>4, HandlerStepKeepsInv DEF IInv, CompletedIsRegistered, dbVars

LEMMA FindUploadStep ==
  ASSUME IInv, NEW c \in Calls, FindUpload(c)
  PROVE  IInv'
<1>1. Moves(c) /\ call' \in [Calls -> Requests] /\ Sound(c)'
  <2>1. ASSUME NEW step \in {"expire", "renew", "insert"}, GoesTo(c, step)
        PROVE  Moves(c) /\ call' \in [Calls -> Requests] /\ Sound(c)'
    <3>1. /\ call' \in [Calls -> Requests] /\ Moves(c)
          /\ call'[c].at = step /\ call'[c].up = NoOne /\ call'[c].sha = call[c].sha
      BY <2>1, GoesToFacts DEF IInv, Steps, Saving
    <3> QED
      BY <3>1 DEF IInv, Sound, Starting, Saving, Completing, FindUpload, At
  <2>2. CASE Ends(c)
    BY <2>2, EndsFacts, IdleIsSound DEF IInv
  <2> QED
    BY <2>1, <2>2 DEF FindUpload
<1>2. up' = up \/ \E u \in Uploads : AbortStorage(u)
  BY DEF IInv, RowSound, FindUpload
<1> QED
  BY <1>1, <1>2, AbortingStepKeepsInv DEF FindUpload, NoFault

LEMMA AbortAtStorageStep ==
  ASSUME IInv, NEW c \in Calls, AbortAtStorage(c)
  PROVE  IInv'
<1>1. Moves(c) /\ call' \in [Calls -> Requests] /\ Sound(c)'
  BY GoesToFacts, EndsFacts, IdleIsSound DEF IInv, AbortAtStorage, Steps, Saving
<1>2. \E u \in Uploads : AbortStorage(u)
  BY DEF IInv, Sound, AbortAtStorage, At
<1> QED
  BY <1>1, <1>2, AbortingStepKeepsInv DEF AbortAtStorage, NoFault

(* Staged bytes are removed only when the row does not miss them.          *)
Misreads == UNCHANGED misread \/ misread' = TRUE

Harmless(c) ==
  \/ UNCHANGED stage
  \/ raw' # NoOne
  \/ misread' = TRUE
  \/ row.up = call[c].up => stage[call[c].up] # row.sha

LEMMA RemovingStepKeepsInv ==
  ASSUME IInv, NEW c \in Calls, Moves(c), Sound(c)', call' \in [Calls -> Requests],
         UNCHANGED <<dbVars, up>>,
         raw' \in Contents \cup {NoOne}, raw # NoOne => raw' = raw,
         call[c].up \in Uploads, UNCHANGED stage \/ Remove(c),
         Misreads, faults' \in 0..MaxFaults, Harmless(c)
  PROVE  IInv'
<1>1. stage \in [Uploads -> Contents \cup {NoOne, Garbled}]
  BY DEF IInv, TypeOK
<1>2. /\ stage' \in [Uploads -> Contents \cup {NoOne, Garbled}]
      /\ \A u \in Uploads : /\ stage'[u] \in {stage[u], NoOne}
                            /\ u # call[c].up => stage'[u] = stage[u]
  BY <1>1 DEF Remove
<1>3. TypeOK'
  BY <1>2 DEF IInv, TypeOK, dbVars, Misreads
<1>4. Stable(c)
  <2>1. row' = row /\ artifact' = artifact /\ up' = up
    BY DEF dbVars
  <2>2. ASSUME NEW u \in Uploads PROVE Grows(u)
    BY <1>2, <2>1 DEF Grows
  <2> QED
    BY <2>1, <2>2 DEF Stable
<1>5. AssembledBytesSurvive'
  <2>1. CASE misread' = TRUE
    BY <2>1, Zenon DEF AssembledBytesSurvive
  <2>2. CASE misread' # TRUE
    <3>1. UNCHANGED misread /\ (row.state = "active" => row.up \in Uploads)
      BY <2>2 DEF Misreads, IInv, RowSound
    <3>2. \/ UNCHANGED stage
          \/ raw' # NoOne
          \/ row.up = call[c].up => stage[call[c].up] # row.sha
      BY <2>2 DEF Harmless
    <3> QED
      BY <1>2, <3>1, <3>2 DEF IInv, AssembledBytesSurvive, dbVars
  <2> QED
    BY <2>1, <2>2
<1> QED
  BY <1>3, <1>4, <1>5, HandlerStepKeepsInv DEF IInv, CompletedIsRegistered, dbVars

LEMMA StatStagedStep ==
  ASSUME IInv, NEW c \in Calls, StatStaged(c)
  PROVE  IInv'
<1>1. Sound(c) /\ call[c].at = "staged" /\ call[c].up \in Uploads
  BY DEF IInv, Sound, StatStaged, At, Completing
<1>2. Moves(c) /\ call' \in [Calls -> Requests] /\ Sound(c)'
  <2>1. CASE GoesTo(c, "assemble") /\ UNCHANGED stage
    <3>1. /\ call' \in [Calls -> Requests] /\ Moves(c)
          /\ call'[c].at = "assemble" /\ call'[c].up = call[c].up /\ call'[c].sha = call[c].sha
      BY <2>1, GoesToFacts DEF IInv, Steps, Saving
    <3> QED
      BY <1>1, <3>1 DEF Sound, Starting, Saving, Completing, StatStaged, dbVars
  <2>2. CASE stage[call[c].up] = call[c].sha /\ GoesTo(c, "promote") /\ UNCHANGED stage
    <3>1. /\ call' \in [Calls -> Requests] /\ Moves(c)
          /\ call'[c].at = "promote" /\ call'[c].up = call[c].up /\ call'[c].sha = call[c].sha
      BY <2>2, GoesToFacts DEF IInv, Steps, Saving
    <3>2. up[call[c].up].state = "done"
      BY <1>1, <2>2, UploadsAssumption DEF IInv, StagedIsDone, Sound, Completing
    <3> QED
      BY <1>1, <2>2, <3>1, <3>2 DEF Sound, Starting, Saving, Completing, StatStaged, dbVars
  <2>3. CASE GoesTo(c, "giveUp")
    BY <2>3, GoesToFacts, IdleIsSound DEF IInv, Steps, Saving
  <2> QED
    BY <2>1, <2>2, <2>3 DEF StatStaged
<1>3. /\ UNCHANGED stage \/ Remove(c)
      /\ \/ UNCHANGED stage
         \/ row.up = call[c].up => stage[call[c].up] # row.sha
  BY <1>1 DEF Sound, Completing, StatStaged, Discard
<1>4. faults' \in 0..MaxFaults
  BY UploadsAssumption DEF IInv, TypeOK, StatStaged, Fault, NoFault
<1> QED
  BY <1>1, <1>2, <1>3, <1>4, RemovingStepKeepsInv DEF Misreads, Harmless, IInv, TypeOK, StatStaged, NoFault

LEMMA CheckAssembledStep ==
  ASSUME IInv, NEW c \in Calls, CheckAssembled(c)
  PROVE  IInv'
<1>1. Sound(c) /\ call[c].at = "check" /\ call[c].up \in Uploads
  BY DEF IInv, Sound, CheckAssembled, At, Completing
<1>2. Moves(c) /\ call' \in [Calls -> Requests] /\ Sound(c)'
  <2>1. CASE Verified(c) /\ GoesTo(c, "promote") /\ UNCHANGED stage
    <3>1. /\ call' \in [Calls -> Requests] /\ Moves(c)
          /\ call'[c].at = "promote" /\ call'[c].up = call[c].up /\ call'[c].sha = call[c].sha
      BY <2>1, GoesToFacts DEF IInv, Steps, Saving
    <3> QED
      BY <1>1, <2>1, <3>1
      DEF Sound, Starting, Saving, Completing, CheckAssembled, Verified, dbVars
  <2>2. CASE GoesTo(c, "giveUp")
    BY <2>2, GoesToFacts, IdleIsSound DEF IInv, Steps, Saving
  <2> QED
    BY <2>1, <2>2 DEF CheckAssembled
<1>3. faults' \in 0..MaxFaults
  BY UploadsAssumption DEF IInv, TypeOK, CheckAssembled, Fault, NoFault
<1>4. CASE NoFault /\ Remove(c) /\ ~Verified(c)
  <2>1. row.up = call[c].up => stage[call[c].up] # row.sha
    BY <1>1, <1>4 DEF Sound, Completing, Verified
  <2> QED
    BY <1>1, <1>2, <1>3, <1>4, <2>1, RemovingStepKeepsInv
    DEF Misreads, Harmless, IInv, TypeOK, CheckAssembled, NoFault
<1>5. CASE NoFault /\ UNCHANGED stage
  BY <1>1, <1>2, <1>3, <1>5, RemovingStepKeepsInv
  DEF Misreads, Harmless, IInv, TypeOK, CheckAssembled, NoFault
<1>6. CASE misread' = TRUE /\ (UNCHANGED stage \/ Remove(c))
  BY <1>1, <1>2, <1>3, <1>6, RemovingStepKeepsInv DEF Misreads, Harmless, IInv, TypeOK, CheckAssembled
<1> QED
  BY <1>4, <1>5, <1>6 DEF CheckAssembled, Discard

LEMMA PromoteStep ==
  ASSUME IInv, NEW c \in Calls, Promote(c)
  PROVE  IInv'
<1>1. /\ Sound(c) /\ call[c].at = "promote" /\ call[c].up \in Uploads
      /\ call[c].sha \in Contents /\ stage[call[c].up] \in {NoOne, call[c].sha}
  BY DEF IInv, Sound, Promote, At, Completing
<1>2. /\ raw' \in Contents \cup {NoOne}
      /\ raw # NoOne => raw' = raw
      /\ UNCHANGED stage \/ (Remove(c) /\ raw' # NoOne)
  BY <1>1 DEF IInv, TypeOK, Promote
<1>3. Moves(c) /\ call' \in [Calls -> Requests] /\ Sound(c)'
  <2>1. CASE GoesTo(c, "verify")
    <3>1. /\ call' \in [Calls -> Requests] /\ Moves(c)
          /\ call'[c].at = "verify" /\ call'[c].up = call[c].up /\ call'[c].sha = call[c].sha
      BY <2>1, GoesToFacts DEF IInv, Steps, Saving
    <3> QED
      BY <1>1, <3>1 DEF Sound, Starting, Saving, Completing, Promote, dbVars
  <2>2. CASE Ends(c)
    BY <2>2, EndsFacts, IdleIsSound DEF IInv
  <2> QED
    BY <2>1, <2>2 DEF Promote
<1>4. faults' \in 0..MaxFaults /\ UNCHANGED misread
  BY UploadsAssumption DEF IInv, TypeOK, Promote, Fault, NoFault
<1> QED
  BY <1>1, <1>2, <1>3, <1>4, RemovingStepKeepsInv DEF Misreads, Harmless, IInv, TypeOK, Promote

LEMMA VerifyRawStep ==
  ASSUME IInv, NEW c \in Calls, VerifyRaw(c)
  PROVE  IInv'
<1>1. /\ Sound(c) /\ call[c].at = "verify" /\ call[c].up \in Uploads
      /\ call[c].sha \in Contents
  BY DEF IInv, Sound, VerifyRaw, At, Completing
<1>2. Moves(c) /\ call' \in [Calls -> Requests] /\ Sound(c)'
  <2>1. CASE raw = call[c].sha /\ GoesTo(c, "register")
    <3>1. /\ call' \in [Calls -> Requests] /\ Moves(c)
          /\ call'[c].at = "register" /\ call'[c].up = call[c].up /\ call'[c].sha = call[c].sha
      BY <2>1, GoesToFacts DEF IInv, Steps, Saving
    <3> QED
      BY <1>1, <2>1, <3>1 DEF Sound, Starting, Saving, Completing, VerifyRaw, dbVars
  <2>2. CASE Ends(c)
    BY <2>2, EndsFacts, IdleIsSound DEF IInv
  <2> QED
    BY <2>1, <2>2 DEF VerifyRaw
<1>3. UNCHANGED stage \/ (Remove(c) /\ raw' # NoOne)
  BY <1>1, UploadsAssumption DEF VerifyRaw, Discard
<1> QED
  BY <1>1, <1>2, <1>3, RemovingStepKeepsInv DEF Misreads, Harmless, IInv, TypeOK, VerifyRaw, NoFault

LEMMA AssembleStep ==
  ASSUME IInv, NEW c \in Calls, Assemble(c)
  PROVE  IInv'
<1> DEFINE u == call[c].up
<1>1. Sound(c) /\ call[c].at = "assemble" /\ u \in Uploads
  BY DEF IInv, Sound, Assemble, At, Completing
<1>2. CASE Ends(c) /\ UNCHANGED <<up, stage>>
  <2>1. Moves(c) /\ call' \in [Calls -> Requests] /\ Sound(c)'
    BY <1>2, EndsFacts, IdleIsSound DEF IInv
  <2> QED
    BY <1>2, <2>1, QuietStepKeepsInv
    DEF IInv, TypeOK, CompletedIsRegistered, Assemble, NoFault, dbVars, storageVars
<1>3. CASE /\ up[u].state = "open"
           /\ up' = [up EXCEPT ![u].state = "done"]
           /\ stage' = [stage EXCEPT ![u] = Whole(up[u].parts)]
           /\ GoesTo(c, "check")
  <2>1. /\ up \in [Uploads -> StorageUploads]
        /\ stage \in [Uploads -> Contents \cup {NoOne, Garbled}]
    BY DEF IInv, TypeOK
  <2>2. /\ up' \in [Uploads -> StorageUploads]
        /\ up'[u].state = "done" /\ up'[u].parts = up[u].parts
        /\ \A v \in Uploads \ {u} : up'[v] = up[v]
    BY <1>1, <1>3, <2>1 DEF StorageUploads
  <2>3. /\ stage' \in [Uploads -> Contents \cup {NoOne, Garbled}]
        /\ stage'[u] = Whole(up[u].parts)
        /\ \A v \in Uploads \ {u} : stage'[v] = stage[v]
    BY <1>1, <1>3, <2>1, WholeType
  <2>4. /\ Moves(c) /\ call' \in [Calls -> Requests] /\ call'[c].at = "check"
        /\ call'[c].up = call[c].up /\ call'[c].sha = call[c].sha
    BY <1>3, GoesToFacts DEF IInv, Steps, Saving
  <2>5. stage[u] = NoOne
    BY <1>1, <1>3 DEF IInv, StagedIsDone
  <2>6. row' = row /\ artifact' = artifact /\ raw' = raw
    BY DEF Assemble, dbVars
  <2>7. TypeOK'
    BY <2>2, <2>3, <2>4 DEF IInv, TypeOK, Assemble, NoFault, dbVars
  <2>8. Sound(c)'
    BY <1>1, <2>2, <2>4, <2>6 DEF Sound, Starting, Saving, Completing
  <2>9. Stable(c)
    <3>1. ASSUME NEW v \in Uploads PROVE Grows(v)
      BY <1>3, <2>2, <2>3, <2>5 DEF Grows
    <3> QED
      BY <1>1, <2>2, <2>6, <3>1 DEF Stable, Saving
  <2>10. AssembledBytesSurvive'
    <3>1. (row.state = "active" => row.up \in Uploads) /\ UNCHANGED misread
      BY DEF IInv, RowSound, Assemble, NoFault
    <3> QED
      BY <2>2, <2>3, <2>6, <3>1 DEF IInv, AssembledBytesSurvive
  <2> QED
    BY <2>4, <2>6, <2>7, <2>8, <2>9, <2>10, HandlerStepKeepsInv DEF IInv, CompletedIsRegistered
<1> QED
  BY <1>2, <1>3 DEF Assemble

(* A new storage upload is named by nobody: whoever names an upload names  *)
(* one that was created.                                                   *)
LEMMA CreateStorageUploadStep ==
  ASSUME IInv, NEW c \in Calls, NEW u \in Uploads, CreateStorageUpload(c, u)
  PROVE  IInv'
<1>1. /\ up \in [Uploads -> StorageUploads] /\ call \in [Calls -> Requests]
      /\ up[u].state = "none" /\ u # NoOne
  BY UploadsAssumption DEF IInv, TypeOK, CreateStorageUpload
<1>2. /\ row.up # u
      /\ \A d \in Calls : call[d].up # u
  BY <1>1 DEF IInv, RowSound, Sound
<1>3. /\ up' \in [Uploads -> StorageUploads] /\ up'[u].state = "open"
      /\ \A v \in Uploads \ {u} : up'[v] = up[v]
  BY <1>1 DEF StorageUploads, CreateStorageUpload
<1>4. PICK step \in Saving : call' = [call EXCEPT ![c].up = u, ![c].at = step]
  BY <1>1 DEF CreateStorageUpload, At, Saving
<1>5. /\ call' \in [Calls -> Requests]
      /\ call'[c].at = step /\ call'[c].up = u /\ call'[c].sha = call[c].sha
      /\ \A d \in Calls \ {c} : call'[d] = call[d]
  BY <1>1, <1>4 DEF Requests, Steps, Saving
<1>6. row' = row /\ artifact' = artifact /\ stage' = stage /\ raw' = raw
  BY DEF CreateStorageUpload, dbVars
<1>7. TypeOK'
  BY <1>3, <1>5, <1>6 DEF IInv, TypeOK, CreateStorageUpload, NoFault
<1>8. ASSUME NEW d \in Calls PROVE Sound(d)'
  <2>1. CASE d = c
    <3>1. call[c].sha \in Contents
      BY DEF IInv, Sound, CreateStorageUpload, At, Starting
    <3> QED
      BY <1>1, <1>2, <1>3, <1>5, <1>6, <2>1, <3>1 DEF Sound, Starting, Saving, Completing
  <2>2. CASE d # c
    <3>1. Sound(d) /\ call'[d] = call[d] /\ call[d].up \in Uploads \cup {NoOne}
      BY <1>5, <2>2 DEF IInv, TypeOK, Requests
    <3> QED
      BY <1>2, <1>3, <1>6, <3>1, UploadsAssumption DEF Sound, Starting, Saving, Completing
  <2> QED
    BY <2>1, <2>2
<1>9. Exclusive'
  BY <1>2, <1>5 DEF IInv, Exclusive
<1>10. row.up \in Uploads \cup {NoOne}
  BY DEF IInv, TypeOK, Rows
<1>11. RowSound' /\ StagedIsDone' /\ CompletedIsRegistered'
  BY <1>1, <1>2, <1>3, <1>6, <1>10
  DEF IInv, RowSound, StagedIsDone, CompletedIsRegistered
<1>12. AssembledBytesSurvive'
  <2>1. (row.state = "active" => row.up \in Uploads) /\ UNCHANGED misread
    BY DEF IInv, RowSound, CreateStorageUpload, NoFault
  <2> QED
    BY <1>2, <1>3, <1>6, <2>1 DEF IInv, AssembledBytesSurvive
<1> QED
  BY <1>7, <1>8, <1>9, <1>11, <1>12 DEF IInv

LEMMA SaveUploadStep ==
  ASSUME IInv, NEW c \in Calls, SaveUpload(c)
  PROVE  IInv'
<1>1. /\ Sound(c) /\ call[c].at \in Saving
      /\ call[c].up \in Uploads /\ call[c].sha \in Contents
  BY DEF IInv, Sound, SaveUpload, At, Saving
<1>2. /\ Moves(c) /\ call' \in [Calls -> Requests] /\ Sound(c)'
      /\ call'[c].at = "idle" /\ call'[c].up = NoOne
  BY EndsFacts, IdleIsSound DEF IInv, SaveUpload
<1>3. CASE AbortStorage(call[c].up) /\ UNCHANGED row
  BY <1>1, <1>2, <1>3, AbortingStepKeepsInv DEF SaveUpload, NoFault, dbVars
<1>4. CASE row' = Fresh(c) /\ UNCHANGED up
  <2>1. /\ row' \in Rows /\ row'.state = "active"
        /\ row'.up = call[c].up /\ row'.sha = call[c].sha
    BY <1>1, <1>4, NoETagsType DEF Fresh, Rows
  <2>2. artifact' = artifact /\ up' = up /\ stage' = stage /\ raw' = raw
    BY <1>4 DEF SaveUpload
  <2>3. TypeOK'
    BY <1>2, <2>1, <2>2 DEF IInv, TypeOK, SaveUpload, NoFault
  <2>4. ASSUME NEW d \in Calls \ {c} PROVE Sound(d)'
    <3>1. Sound(d) /\ call'[d] = call[d] /\ call[d].up # call[c].up
      BY <1>1, <1>2 DEF IInv, Moves, Exclusive
    <3> QED
      BY <2>1, <2>2, <3>1 DEF Sound
  <2>5. \A d, e \in Calls : d # e /\ call'[d].at \in Saving => call'[e].up # call'[d].up
    <3>1. \A d \in Calls : call[d].at \in Saving => call[d].up \in Uploads
      BY DEF IInv, Sound
    <3> QED
      BY <1>2, <3>1, UploadsAssumption DEF IInv, Moves, Exclusive, Saving
  <2>6. Exclusive' /\ RowSound' /\ StagedIsDone' /\ CompletedIsRegistered'
    BY <1>1, <2>1, <2>2, <2>5, UploadsAssumption
    DEF IInv, Exclusive, RowSound, StagedIsDone, CompletedIsRegistered, Sound
  <2>7. AssembledBytesSurvive'
    BY <1>1, <2>1, <2>2 DEF AssembledBytesSurvive, Sound
  <2> QED
    BY <1>2, <2>3, <2>4, <2>6, <2>7 DEF IInv
<1> QED
  BY <1>3, <1>4 DEF SaveUpload

-----------------------------------------------------------------------------
(* The theorems *)

LEMMA InitIInv == Init => IInv
<1> SUFFICES ASSUME Init PROVE IInv
  OBVIOUS
<1> USE UploadsAssumption DEF Init
<1>1. TypeOK
  <2>1. row \in Rows
    BY NoETagsType DEF NoUpload, Rows
  <2>2. up \in [Uploads -> StorageUploads]
    BY NoETagsType DEF StorageUploads
  <2>3. call \in [Calls -> Requests]
    BY IdleType
  <2>4. stage \in [Uploads -> Contents \cup {NoOne, Garbled}]
    OBVIOUS
  <2>5. misread \in BOOLEAN
    OBVIOUS
  <2>6. faults \in 0..MaxFaults
    OBVIOUS
  <2>7. artifact \in Contents \cup {NoOne} /\ raw \in Contents \cup {NoOne}
    OBVIOUS
  <2> HIDE DEF Init
  <2> QED
    BY <2>1, <2>2, <2>3, <2>4, <2>5, <2>6, <2>7 DEF TypeOK
<1>2. \A c \in Calls : call[c].at = "idle" /\ call[c].up = NoOne
  BY DEF Idle
<1>3. (\A c \in Calls : Sound(c)) /\ Exclusive
  BY <1>2 DEF Sound, Exclusive, Starting, Saving, Completing
<1>4. row.state = "none" /\ row.up = NoOne
  BY DEF NoUpload
<1>5. RowSound /\ StagedIsDone /\ CompletedIsRegistered /\ AssembledBytesSurvive
  BY <1>4 DEF RowSound, StagedIsDone, CompletedIsRegistered, AssembledBytesSurvive
<1> QED
  BY <1>1, <1>3, <1>5 DEF IInv

LEMMA HandlerStepStep ==
  ASSUME IInv, NEW c \in Calls, HandlerStep(c)
  PROVE  IInv'
  BY FindUploadStep, ExpireUploadStep, SaveUploadStep, CreateStorageUploadStep, ListPartsStep,
     StatRawStep, StatStagedStep, AssembleStep, CheckAssembledStep, GiveUpStep, PromoteStep,
     VerifyRawStep, RegisterArtifactStep, FinishUploadStep, AbortAtStorageStep
  DEF HandlerStep

LEMMA IInvStep == IInv /\ [Next]_vars => IInv'
<1> SUFFICES ASSUME IInv, [Next]_vars PROVE IInv'
  OBVIOUS
<1>1. CASE UNCHANGED vars
  <2>1. \A c \in Calls : Sound(c)'
    BY <1>1 DEF IInv, Sound, vars, dbVars, storageVars
  <2> QED
    BY <1>1, <2>1
    DEF IInv, TypeOK, Exclusive, RowSound, StagedIsDone, CompletedIsRegistered,
        AssembledBytesSurvive, vars, dbVars, storageVars
<1> QED
  BY <1>1, ClientStepStep, UploadExpiresStep, HandlerStepStep, HandlerDiesStep DEF Next

LEMMA IInvHolds == Spec => []IInv
  BY InitIInv, IInvStep, PTL DEF Spec

(* Every value is of its type; in particular the raw object never holds    *)
(* parts of several contents (completeMultipartArtifactUpload).            *)
THEOREM TypeCorrect == Spec => []TypeOK
<1>1. IInv => TypeOK
  BY DEF IInv
<1> QED
  BY <1>1, IInvHolds, PTL

(* A completed row has its artifact, whoever restarted the upload while it *)
(* was being completed (startMultipartArtifactUpload).                     *)
THEOREM CompletedRowsAreRegistered == Spec => []CompletedIsRegistered
<1>1. IInv => CompletedIsRegistered
  BY DEF IInv
<1> QED
  BY <1>1, IInvHolds, PTL

(* Concurrent, repeated and interrupted completions, aborts and restarts   *)
(* do not lose assembled bytes (completeMultipartArtifactUpload).          *)
THEOREM BytesAreNotLost == Spec => []AssembledBytesSurvive
<1>1. IInv => AssembledBytesSurvive
  BY DEF IInv
<1> QED
  BY <1>1, IInvHolds, PTL

(* Only Promote writes the raw object, once, with verified bytes, and only *)
(* RegisterArtifact the artifact, for the object that is there.            *)
LEMMA ContractStep == IInv /\ [Next]_vars => [Contract!Next]_(Contract!contractVars)
<1> SUFFICES ASSUME IInv, [Next]_vars PROVE [Contract!Next]_(Contract!contractVars)
  OBVIOUS
<1> USE DEF Contract!Next, Contract!contractVars
<1>1. CASE UNCHANGED vars
  BY <1>1 DEF vars, dbVars, storageVars
<1>2. CASE ClientStep \/ UploadExpires
  BY <1>2
  DEF ClientStep, UploadExpires, CompleteUpload, AbortUpload, StartUpload, AuthorizePart,
      RecordPart, PutPart, dbVars, storageVars
<1>3. ASSUME NEW c \in Calls, Promote(c) PROVE [Contract!Next]_(Contract!contractVars)
  <2>1. call[c].sha \in Contents /\ stage[call[c].up] \in {NoOne, call[c].sha}
    BY <1>3 DEF IInv, Sound, Promote, At, Completing
  <2> QED
    BY <1>3, <2>1 DEF Promote, dbVars, Contract!Store
<1>4. ASSUME NEW c \in Calls, RegisterArtifact(c) PROVE [Contract!Next]_(Contract!contractVars)
  <2>1. call[c].sha \in Contents /\ raw = call[c].sha
    BY <1>4 DEF IInv, Sound, RegisterArtifact, At, Completing
  <2> QED
    BY <1>4, <2>1, UploadsAssumption DEF RegisterArtifact, storageVars, Contract!Register
<1>5. ASSUME NEW c \in Calls, HandlerStep(c) \/ HandlerDies(c), ~Promote(c), ~RegisterArtifact(c)
      PROVE  UNCHANGED Contract!contractVars
  BY <1>5
  DEF HandlerStep, FindUpload, ExpireUpload, SaveUpload, CreateStorageUpload, ListParts,
      StatRaw, StatStaged, Assemble, CheckAssembled, GiveUp, VerifyRaw, FinishUpload,
      AbortAtStorage, HandlerDies, dbVars, storageVars
<1> QED
  BY <1>1, <1>2, <1>3, <1>4, <1>5 DEF Next

(* The protocol implements ArtifactContract: the raw object is written     *)
(* once with declared bytes, and the artifact row describes it.            *)
THEOREM UploadsImplementContract == Spec => ImplementsContract
<1>1. Init => Contract!Init
  BY DEF Init, Contract!Init
<1> QED
  BY <1>1, InitIInv, IInvStep, ContractStep, PTL DEF Spec, ImplementsContract, Contract!Spec
=============================================================================
