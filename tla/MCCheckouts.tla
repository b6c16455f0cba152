----------------------------- MODULE MCCheckouts -----------------------------
(***************************************************************************)
(* A checkout of two orders, two concurrent handlers and at most one       *)
(* request at a time that Java may carry out for nobody.                   *)
(***************************************************************************)
EXTENDS Checkouts
=============================================================================
