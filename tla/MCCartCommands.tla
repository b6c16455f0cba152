--------------------------- MODULE MCCartCommands ---------------------------
(***************************************************************************)
(* One buyer with two request keys and two concurrent handlers, one        *)
(* addition and one versioned change, at most one change of the cart made  *)
(* elsewhere.                                                              *)
(***************************************************************************)
EXTENDS CartCommands
=============================================================================
