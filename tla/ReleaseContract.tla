-------------------------- MODULE ReleaseContract --------------------------
(***************************************************************************)
(* What review, publication and erasure promise together, without claims,  *)
(* leases, files or retries: sessions are accepted, a set of accepted      *)
(* sessions is published in one step under a fresh name, and a session is  *)
(* erased at most once and never after it was published.                   *)
(*                                                                         *)
(*   published   set of records (name, sessions)                           *)
(***************************************************************************)
CONSTANTS Sessions, Names

VARIABLES accepted, published, erased

contractVars == <<accepted, published, erased>>

Publications == [name : Names, sessions : SUBSET Sessions]
InPublication == UNION {x.sessions : x \in published}

Init == accepted = {} /\ published = {} /\ erased = {}

Accept(s) ==
  /\ s \notin accepted \cup erased
  /\ accepted' = accepted \cup {s}
  /\ UNCHANGED <<published, erased>>

Publish(x) ==
  /\ x.sessions # {}
  /\ x.sessions \subseteq accepted \ (erased \cup InPublication)
  /\ \A y \in published : y.name # x.name
  /\ published' = published \cup {x}
  /\ UNCHANGED <<accepted, erased>>

Erase(s) ==
  /\ s \notin erased \cup InPublication
  /\ erased' = erased \cup {s}
  /\ accepted' = accepted \ {s}
  /\ UNCHANGED published

Next ==
  \/ \E s \in Sessions : Accept(s) \/ Erase(s)
  \/ \E x \in Publications : Publish(x)

Spec == Init /\ [][Next]_contractVars
=============================================================================
