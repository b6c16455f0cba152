-------------------------- MODULE MemoryRevisions --------------------------
(***************************************************************************)
(* The memory of one user (memory.py, memory_routes.py): facts a turn      *)
(* saves by a tool or extracts when it is complete, against the user who   *)
(* edits, deletes and clears them from another screen.  Every change of    *)
(* the user advances a stored generation; a turn writes only while the     *)
(* generation it started from is current.  Rows of other roles and owners  *)
(* share nothing with these.                                               *)
(***************************************************************************)
EXTENDS Naturals

CONSTANTS
  Turns,       \* slots of concurrent turns of the user
  FactKeys,    \* keys of facts
  MaxChanges   \* bound: changes made by the user

ASSUME MemoryAssumption == MaxChanges \in Nat

VARIABLES
  generation,   \* table memory_generations: the row of the user
  facts,        \* table memory_facts: the keys with a fact
  pc,           \* a turn: "idle", "running", or "extracting" its memory
  started,      \* the generation a turn holds in its context
  seen,         \* the generation read when its extraction began
  memoryStatus, \* the status of its last extraction
  changes,      \* history: changes made by the user
  touched,      \* history: the change that last concerned a key
  since,        \* history: the change a stored fact was formed after
  begun         \* history: the last change before a turn began

storeVars == <<generation, facts>>
turnVars == <<pc, started, seen, memoryStatus>>
historyVars == <<changes, touched, since, begun>>
vars == <<storeVars, turnVars, historyVars>>

Statuses == {"none", "saved", "unchanged", "revoked", "unavailable"}

Init ==
  /\ generation = 0
  /\ facts = {}
  /\ pc = [t \in Turns |-> "idle"]
  /\ started = [t \in Turns |-> 0]
  /\ seen = [t \in Turns |-> 0]
  /\ memoryStatus = [t \in Turns |-> "none"]
  /\ changes = 0
  /\ touched = [k \in FactKeys |-> 0]
  /\ since = [k \in FactKeys |-> 0]
  /\ begun = [t \in Turns |-> 0]

-----------------------------------------------------------------------------
(* Writes of a turn. *)

Begin(t) ==
  /\ pc[t] = "idle"
  /\ pc' = [pc EXCEPT ![t] = "running"]
  /\ started' = [started EXCEPT ![t] = generation]
  /\ memoryStatus' = [memoryStatus EXCEPT ![t] = "none"]
  /\ begun' = [begun EXCEPT ![t] = changes]
  /\ UNCHANGED <<storeVars, seen, changes, touched, since>>

\* Fault: the purge check of the extraction is taken for enough.
CurrentAlways(t) == TRUE

Current(t) == started[t] = generation

\* Fault: every write advances the generation, also one of a turn.
upsert_factsAdvancing(t, keys) ==
  /\ facts' = facts \cup keys
  /\ since' = [k \in FactKeys |-> IF k \in keys THEN begun[t] ELSE since[k]]
  /\ generation' = generation + 1

\* The check and the write are one operation of the event loop.
upsert_facts(t, keys) ==
  /\ facts' = facts \cup keys
  /\ since' = [k \in FactKeys |-> IF k \in keys THEN begun[t] ELSE since[k]]
  /\ UNCHANGED generation

\* The tool of the agent; MemoryChanged is an answer to the model, and writes
\* nothing.
SaveTool(t) ==
  /\ pc[t] = "running"
  /\ Current(t)
  /\ \E k \in FactKeys : upsert_facts(t, {k})
  /\ UNCHANGED <<turnVars, changes, touched, begun>>

\* extract_and_store reads the generation and the facts, then asks the model.
StartExtraction(t) ==
  /\ pc[t] = "running"
  /\ pc' = [pc EXCEPT ![t] = "extracting"]
  /\ seen' = [seen EXCEPT ![t] = generation]
  /\ UNCHANGED <<storeVars, started, memoryStatus, historyVars>>

Settle(t, outcome) ==
  /\ pc[t] = "extracting"
  /\ pc' = [pc EXCEPT ![t] = "idle"]
  /\ memoryStatus' = [memoryStatus EXCEPT ![t] = outcome]
  /\ UNCHANGED <<started, seen, changes, touched, begun>>

\* The model found nothing new, or the memory changed while it was asked.
Unchanged(t) ==
  /\ Settle(t, "unchanged")
  /\ UNCHANGED <<storeVars, since>>

Extracted(t) ==
  /\ seen[t] = generation
  /\ \/ /\ Current(t)
        /\ Settle(t, "saved")
        /\ \E keys \in SUBSET FactKeys \ {{}} : upsert_facts(t, keys)
     \/ /\ ~Current(t)
        /\ Settle(t, "revoked")
        /\ UNCHANGED <<storeVars, since>>

\* Twenty seconds passed, or the model call failed.
Unavailable(t) ==
  /\ Settle(t, "unavailable")
  /\ UNCHANGED <<storeVars, since>>

\* The turn fails, is cancelled, or its budget refuses the extraction.
End(t) ==
  /\ pc[t] # "idle"
  /\ pc' = [pc EXCEPT ![t] = "idle"]
  /\ UNCHANGED <<storeVars, started, seen, memoryStatus, historyVars>>

-----------------------------------------------------------------------------
(* Changes of the user, each one transaction. *)

Advance(keys) ==
  /\ changes < MaxChanges
  /\ generation' = generation + 1
  /\ changes' = changes + 1
  /\ touched' = [k \in FactKeys |-> IF k \in keys THEN changes' ELSE touched[k]]
  /\ UNCHANGED <<turnVars, begun>>

edit_memory(k) ==
  /\ k \in facts
  /\ Advance({k})
  /\ since' = [since EXCEPT ![k] = changes']
  /\ UNCHANGED facts

\* Deleting an absent fact advances the generation too.
delete_fact(k) ==
  /\ Advance({k})
  /\ facts' = facts \ {k}
  /\ UNCHANGED since

clear ==
  /\ Advance(FactKeys)
  /\ facts' = {}
  /\ UNCHANGED since

\* The rows survive the process, the turns do not.
Restart ==
  /\ pc' = [t \in Turns |-> "idle"]
  /\ UNCHANGED <<storeVars, started, seen, memoryStatus, historyVars>>

TurnStep(t) ==
  \/ Begin(t) \/ SaveTool(t) \/ StartExtraction(t)
  \/ Unchanged(t) \/ Extracted(t) \/ Unavailable(t) \/ End(t)

Next ==
  \/ \E t \in Turns : TurnStep(t)
  \/ \E k \in FactKeys : edit_memory(k) \/ delete_fact(k)
  \/ clear
  \/ Restart

Spec == Init /\ [][Next]_vars

-----------------------------------------------------------------------------
\* The shape of the rows and turns.  Only the user advances the generation, so
\* it stays within the number of changes made (memory.py:52-57, 79-111).
TypeOK ==
  /\ generation \in 0..MaxChanges
  /\ facts \subseteq FactKeys
  /\ pc \in [Turns -> {"idle", "running", "extracting"}]
  /\ started \in [Turns -> 0..MaxChanges]
  /\ seen \in [Turns -> 0..MaxChanges]
  /\ memoryStatus \in [Turns -> Statuses]
  /\ changes \in 0..MaxChanges
  /\ touched \in [FactKeys -> 0..MaxChanges]
  /\ since \in [FactKeys -> 0..MaxChanges]
  /\ begun \in [Turns -> 0..MaxChanges]

\* What a user edited, deleted or cleared never comes back from a turn that
\* began before: every stored fact was formed after the last change of its key,
\* whichever turn, tool or extraction wrote it (memory.py:79-92, 97-111).
NothingOutlivesAChange == \A k \in facts : since[k] >= touched[k]

\* Saves of one turn never revoke another, nor its own extraction: a turn is
\* told that the memory was revoked only if the user changed it since the turn
\* began (memory.py:79-92, 149-150).
RevokedOnlyByUser ==
  \A t \in Turns : memoryStatus[t] = "revoked" => changes > begun[t]
=============================================================================
