-------------------------- MODULE ArtifactContract --------------------------
(***************************************************************************)
(* What an upload promises, whatever protocol moves the bytes: the raw     *)
(* object is written once, with bytes whose hash a client declared, and    *)
(* the artifact row, once it exists, describes exactly that object.        *)
(***************************************************************************)
CONSTANTS Contents, NoOne

VARIABLES object, entry

contractVars == <<object, entry>>

Init == object = NoOne /\ entry = NoOne

Store(x) ==
  /\ object = NoOne
  /\ object' = x
  /\ UNCHANGED entry

Register ==
  /\ object # NoOne /\ entry = NoOne
  /\ entry' = object
  /\ UNCHANGED object

Next == Register \/ \E x \in Contents : Store(x)

Spec == Init /\ [][Next]_contractVars
=============================================================================
