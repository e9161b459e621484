----------------------------- MODULE MCPipeline -----------------------------
(* Finite instances of Pipeline for TLC. *)
EXTENDS Pipeline

CONSTANTS s1, s2, j1, j2, w1, w2

SessionsMC == {s1, s2}
JobsMC     == {j1, j2}
WorkersMC  == {w1, w2}
SoundMC    == {s1}

(* The targets the shipped Collector posts (CollectorApp.tsx).             *)
CollectorTargets == {"READY", "RECORDING", "FINALIZING", "UPLOADING"}

(* Every target the transitions endpoint accepts.                         *)
ServerTargets == SessionStates
=============================================================================
