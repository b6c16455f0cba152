------------------------- MODULE MCAnalysisSandbox -------------------------
(***************************************************************************)
(* Three runs compete for the two slots of the code; each may be cancelled,*)
(* time out or fail at any await, and the host may be shut down meanwhile. *)
(***************************************************************************)
EXTENDS AnalysisSandbox
=============================================================================
