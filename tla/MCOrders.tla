------------------------------ MODULE MCOrders ------------------------------
(***************************************************************************)
(* Two handlers pay an order, prepare its refund and confirm it.           *)
(***************************************************************************)
EXTENDS Orders
=============================================================================
