------------------------- MODULE SubmissionContract -------------------------
(***************************************************************************)
(* What the validation pipeline promises for each submitted session: one   *)
(* verdict, the one its raw capture deserves; or a rejection for good of a *)
(* capture it could not inspect; or an explicit giving up that an          *)
(* administrator can reverse. No worker, lease or retry is visible.        *)
(***************************************************************************)
CONSTANTS Sessions, Sound

VARIABLE outcome  \* by session: open, pending, valid, invalid,
                  \* uninspected or gaveUp

Init == outcome = [s \in Sessions |-> "open"]

Submit(s) ==
  /\ outcome[s] = "open"
  /\ outcome' = [outcome EXCEPT ![s] = "pending"]

Decide(s) ==
  /\ outcome[s] = "pending"
  /\ outcome' = [outcome EXCEPT ![s] = IF s \in Sound THEN "valid" ELSE "invalid"]

(* Whatever the capture deserves.                                          *)
RejectUninspected(s) ==
  /\ outcome[s] = "pending"
  /\ outcome' = [outcome EXCEPT ![s] = "uninspected"]

GiveUp(s) ==
  /\ outcome[s] = "pending"
  /\ outcome' = [outcome EXCEPT ![s] = "gaveUp"]

Recover(s) ==
  /\ outcome[s] = "gaveUp"
  /\ outcome' = [outcome EXCEPT ![s] = "pending"]

Next == \E s \in Sessions :
          Submit(s) \/ Decide(s) \/ RejectUninspected(s) \/ GiveUp(s) \/ Recover(s)

Spec == Init /\ [][Next]_outcome
=============================================================================
