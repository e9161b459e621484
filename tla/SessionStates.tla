--------------------------- MODULE SessionStates ---------------------------
(***************************************************************************)
(* The session state machine shared by every component of the control      *)
(* plane: the states of sessions.state and the transitions that            *)
(* Session.Transition accepts (internal/domain/session.go).                *)
(***************************************************************************)

SessionStates ==
  {"CREATED", "ASSIGNED", "READY", "RECORDING", "FINALIZING", "UPLOADING",
   "SUBMITTED", "PROCESSING", "READY_FOR_REVIEW", "ACCEPTED", "RELEASED",
   "FAILED", "REJECTED", "REWORK_REQUIRED", "CANCELLED", "DELETED"}

(* The states that Session.Transition may move a session to, by the state  *)
(* it is in. RELEASED, FAILED, REJECTED, CANCELLED and DELETED have no     *)
(* entry in the table.                                                     *)
allowedTransitions ==
  [s \in SessionStates |->
     CASE s = "CREATED"          -> {"ASSIGNED", "CANCELLED"}
       [] s = "ASSIGNED"         -> {"READY", "CANCELLED"}
       [] s = "READY"            -> {"RECORDING", "CANCELLED"}
       [] s = "RECORDING"        -> {"FINALIZING", "FAILED", "CANCELLED"}
       [] s = "FINALIZING"       -> {"UPLOADING", "FAILED"}
       [] s = "UPLOADING"        -> {"SUBMITTED", "FAILED"}
       [] s = "SUBMITTED"        -> {"PROCESSING", "FAILED"}
       [] s = "PROCESSING"       -> {"READY_FOR_REVIEW", "FAILED"}
       [] s = "READY_FOR_REVIEW" -> {"ACCEPTED", "REJECTED", "REWORK_REQUIRED"}
       [] s = "REWORK_REQUIRED"  -> {"READY", "CANCELLED"}
       [] s = "ACCEPTED"         -> {"RELEASED"}
       [] OTHER                  -> {}]

(* Session.Transition succeeds: the move is in the table.                  *)
CanTransition(from, to) ==
  /\ from \in SessionStates
  /\ to \in allowedTransitions[from]

(* Erasure may be requested, leased and retried only in these states       *)
(* (deletableSessionState in internal/database/erasure.go).                *)
Deletable ==
  {"CREATED", "ASSIGNED", "READY", "READY_FOR_REVIEW", "ACCEPTED", "FAILED",
   "REJECTED", "REWORK_REQUIRED", "CANCELLED"}

(* States in which raw evidence may expire (the state lists of             *)
(* QueueExpiredRetention and retentionStillEligible).                      *)
RawExpirable ==
  {"ACCEPTED", "RELEASED", "FAILED", "REJECTED", "REWORK_REQUIRED", "CANCELLED"}
=============================================================================
