--------------------------- MODULE OrderPayments ---------------------------
(***************************************************************************)
(* What paying its orders one after the other promises a buyer: every      *)
(* order is tried under one key and carried out under that key once, it is *)
(* tried only while it is unpaid and after every earlier order has been    *)
(* answered, and nothing but carrying it out makes it paid.  An answer may *)
(* also decline the payment; the next order is then tried all the same.    *)
(* An order may close at any time, and is never tried or paid afterwards.  *)
(* Checkouts and Orders implement this module, whatever their requests     *)
(* repeat or give up.                                                      *)
(***************************************************************************)
EXTENDS Naturals

CONSTANTS
  Payable,  \* the orders, as numbers in the order of their payment
  Keys      \* the keys a payment may carry

VARIABLES
  tried,    \* the keys of the attempts made for every order
  carried,  \* the keys of the callbacks carried out for every order
  declined, \* the orders of which a callback was answered without paying them
  state     \* the state of every order

vars == <<tried, carried, declined, state>>

Init ==
  /\ tried = [o \in Payable |-> {}]
  /\ carried = [o \in Payable |-> {}]
  /\ declined = {}
  /\ state = [o \in Payable |-> "UNPAID"]

Try(o, k) ==
  /\ tried[o] = {} /\ state[o] = "UNPAID"
  /\ \A p \in Payable : p < o => carried[p] # {} \/ p \in declined
  /\ tried' = [tried EXCEPT ![o] = {k}]
  /\ UNCHANGED <<carried, declined, state>>

CarryOut(o, k) ==
  /\ k \in tried[o] /\ carried[o] = {} /\ state[o] = "UNPAID"
  /\ carried' = [carried EXCEPT ![o] = {k}]
  /\ state' = [state EXCEPT ![o] = "PAID"]
  /\ UNCHANGED <<tried, declined>>

Decline(o) ==
  /\ tried[o] # {} /\ carried[o] = {}
  /\ declined' = declined \cup {o}
  /\ UNCHANGED <<tried, carried, state>>

Close(o) ==
  /\ state[o] # "CLOSED"
  /\ state' = [state EXCEPT ![o] = "CLOSED"]
  /\ UNCHANGED <<tried, carried, declined>>

Next ==
  \E o \in Payable :
    \/ \E k \in Keys : Try(o, k) \/ CarryOut(o, k)
    \/ Decline(o) \/ Close(o)

Spec == Init /\ [][Next]_vars
=============================================================================
