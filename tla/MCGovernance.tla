---------------------------- MODULE MCGovernance ----------------------------
(* Finite instances of Governance for TLC. *)
EXTENDS Governance, TLC

CONSTANTS s1, j1, w1, w2, r1, r2

(* The targets the shipped Collector posts (CollectorApp.tsx).             *)
CollectorTargets == {"READY", "RECORDING", "FINALIZING", "UPLOADING"}

(* No worker is special; used where no liveness is checked.                *)
Symmetry == Permutations({w1, w2})
=============================================================================
