--------------------------- MODULE MCPublication ---------------------------
(* Finite instances of Release for TLC. *)
EXTENDS Release, TLC

CONSTANTS s1, s2, v1, v2, w1, w2, p1, p2, r1, c1, c2, g1, n1, n2,
          MaxEffort   \* bound on Effort

(* Every plan, request, hold and call that is made and every fault costs   *)
(* one. TLC looks at all behaviours that cost at most MaxEffort, whatever  *)
(* they spend it on.                                                       *)
Effort ==
  faults
  + Cardinality({p \in Plans : plan[p].session # NoOne})
  + Cardinality({r \in Requests : req[r].session # NoOne})
  + Cardinality({c \in Calls : call[c].phase # "idle"})
  + Cardinality({s \in Sessions : held[s]})

WithinBudget == Effort <= MaxEffort

(* No reviewer, worker, call or name is special; used where no liveness is *)
(* checked.                                                                *)
Symmetry == Permutations({v1, v2}) \cup Permutations({w1, w2}) \cup Permutations({p1, p2})
            \cup Permutations({c1, c2}) \cup Permutations({n1, n2})
=============================================================================
