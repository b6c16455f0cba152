--------------------------- MODULE MCEvaluations ---------------------------
(***************************************************************************)
(* A merchant and two buyer identities; any number of tasks, drivers,      *)
(* resets, turns of other clients, kills and crashes.                      *)
(***************************************************************************)
EXTENDS Evaluations
=============================================================================
