--------------------------- MODULE ChangeRegister ---------------------------
(***************************************************************************)
(* What a merchant's changes promise their operator: an intent is recorded *)
(* before anything is asked, becomes one change at most, also after it was *)
(* refused, and nothing else does; the change is decided once; its record  *)
(* once drafted stays so; and the operator is told of a decision only when *)
(* it stands.  Repeats, pages, lost and late answers change none of this.  *)
(* MerchantDrafts implements this module.                                  *)
(***************************************************************************)
CONSTANTS
  Intents,
  Keys      \* the request keys a change may have

VARIABLES
  record,   \* "none", "recorded", "rejected" or "drafted" for every intent
  change,   \* its changes: the key and the state of each
  reported  \* the decisions the operator was told of

vars == <<record, change, reported>>

Decided == {"APPLIED", "CANCELLED", "REJECTED"}

Init ==
  /\ record = [i \in Intents |-> "none"]
  /\ change = [i \in Intents |-> {}]
  /\ reported = {}

Moves(i, from, to) == record[i] \in from /\ record' = [record EXCEPT ![i] = to]

Register(i) == Moves(i, {"none"}, "recorded") /\ UNCHANGED <<change, reported>>

Reject(i) == Moves(i, {"recorded"}, "rejected") /\ UNCHANGED <<change, reported>>

Draft(i) ==
  /\ change[i] # {}
  /\ Moves(i, {"recorded", "rejected"}, "drafted")
  /\ UNCHANGED <<change, reported>>

Commit(i, k) ==
  /\ record[i] \in {"recorded", "rejected"} /\ change[i] = {}
  /\ change' = [change EXCEPT ![i] = {<<k, "PREPARED">>}]
  /\ UNCHANGED <<record, reported>>

Decide(i, k, state) ==
  /\ change[i] = {<<k, "PREPARED">>}
  /\ change' = [change EXCEPT ![i] = {<<k, state>>}]
  /\ UNCHANGED <<record, reported>>

Report(i, k, state) ==
  /\ state # "REJECTED" /\ change[i] = {<<k, state>>}
  /\ reported' = reported \cup {<<<<i, k>>, state>>}
  /\ UNCHANGED <<record, change>>

Next ==
  \E i \in Intents :
    \/ Register(i) \/ Reject(i) \/ Draft(i)
    \/ \E k \in Keys : \/ Commit(i, k)
                       \/ \E state \in Decided : Decide(i, k, state) \/ Report(i, k, state)

Spec == Init /\ [][Next]_vars
=============================================================================
