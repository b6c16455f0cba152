---------------------------- MODULE CartIntents ----------------------------
(***************************************************************************)
(* What the cart commands of a buyer promise, whatever the order in which  *)
(* requests, replies, retries and restarts happen: an intent is recorded   *)
(* before it can take effect, one owner never has two intents whose        *)
(* outcome is open, an intent takes effect at most once and exactly as it  *)
(* was recorded, it is reported as confirmed only when it did, and a       *)
(* confirmation is never taken back.  CartCommands implements this module. *)
(***************************************************************************)
CONSTANTS
  Keys,       \* request keys, one per intent
  Body,       \* what an intent says: records with an owner field
  NoCommand   \* the value of a key that carries no intent

VARIABLES
  intent,     \* the recorded intent of every key
  effect,     \* what took effect under every key
  outcome     \* what the buyer is told

vars == <<intent, effect, outcome>>

Outcomes == {"open", "confirmed", "refused"}

Open(k) == intent[k] # NoCommand /\ outcome[k] = "open"

Init ==
  /\ intent = [k \in Keys |-> NoCommand]
  /\ effect = [k \in Keys |-> NoCommand]
  /\ outcome = [k \in Keys |-> "open"]

Record(k) ==
  /\ intent[k] = NoCommand
  /\ intent'[k] \in Body
  /\ intent' = [intent EXCEPT ![k] = intent'[k]]
  /\ \A other \in Keys : Open(other) => intent[other].owner # intent'[k].owner
  /\ UNCHANGED <<effect, outcome>>

TakeEffect(k) ==
  /\ intent[k] # NoCommand
  /\ effect[k] = NoCommand
  /\ effect' = [effect EXCEPT ![k] = intent[k]]
  /\ UNCHANGED <<intent, outcome>>

\* A refusal may be overtaken by the effect of an earlier attempt.
Confirm(k) ==
  /\ effect[k] # NoCommand
  /\ outcome' = [outcome EXCEPT ![k] = "confirmed"]
  /\ UNCHANGED <<intent, effect>>

Refuse(k) ==
  /\ Open(k)
  /\ outcome' = [outcome EXCEPT ![k] = "refused"]
  /\ UNCHANGED <<intent, effect>>

Next ==
  \E k \in Keys :
    \/ Record(k)
    \/ TakeEffect(k)
    \/ Confirm(k)
    \/ Refuse(k)

Spec == Init /\ [][Next]_vars
=============================================================================
