-------------------------- MODULE MCMerchantDrafts --------------------------
(***************************************************************************)
(* One intent, under the second of two bindings, and two handlers.  A      *)
(* second request key is there for a host that would draw one.             *)
(***************************************************************************)
EXTENDS MerchantDrafts, TLC

CONSTANTS i1

SecondBinding == i1 :> 2
=============================================================================
