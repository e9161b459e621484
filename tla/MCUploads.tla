----------------------------- MODULE MCUploads -----------------------------
(* Finite instances of Uploads for TLC. *)
EXTENDS Uploads, TLC

CONSTANTS x1, x2, u1, u2, c1, c2

(* No content, storage upload or handler is special.                       *)
Symmetry == Permutations({x1, x2}) \cup Permutations({u1, u2}) \cup Permutations({c1, c2})
=============================================================================
