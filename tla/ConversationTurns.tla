-------------------------- MODULE ConversationTurns --------------------------
(***************************************************************************)
(* Chat turns of the host: admission and release of conversations in       *)
(* memory (acquire, release and run_chat of app.py) and the turn record in *)
(* SQLite, written by compare-and-set on its version (sessions.py).  A     *)
(* request works on the record it read first; requests interleave at every *)
(* await, a client may vanish at any of them, and the process may restart. *)
(***************************************************************************)
EXTENDS Integers, Sequences, FiniteSets

LOCAL INSTANCE FiniteSetsExt

CONSTANTS
  Owners,         \* buyers and operators
  Conversations,  \* their conversations
  OwnerOf,        \* whose conversation it is
  Requests,       \* concurrent chat requests
  Asks,           \* bound: the conversations a request may be for
  MaxActive,      \* settings.max_active_tasks
  MaxUser,        \* settings.max_user_tasks
  MaxTurns        \* bound: turns of all conversations

ASSUME TurnsAssumption ==
  /\ IsFiniteSet(Conversations) /\ Conversations # {}
  /\ OwnerOf \in [Conversations -> Owners]
  /\ Asks \in [Requests -> SUBSET Conversations]
  /\ MaxUser \in Nat \ {0} /\ MaxActive \in Nat /\ MaxUser <= MaxActive
  /\ MaxTurns \in Nat

VARIABLES
  stored,   \* table sessions: the record of every conversation
  busy,     \* the set busy
  active,   \* the dictionary active_users
  phase,    \* where a request is suspended
  conv,     \* its conversation
  record,   \* its copy of the record
  outcome,  \* the local variable status of its generator
  deprived  \* history: the requests whose slot another request has given back

requestVars == <<phase, conv, record, outcome>>
slotVars == <<busy, active, deprived>>
vars == <<stored, slotVars, requestVars>>

Statuses == {"idle", "running", "completed", "interrupted", "failed"}

\* An assistant item: being written, answered, or ended by an error text.
Items == {"pending", "answered", "cut"}

Record == [status : Statuses, version : Nat, items : Seq(Items)]

blank == [status |-> "idle", version |-> 0, items |-> <<>>]

\* "loaded": the record is read, cart commands are being recovered (buyer).
\* "acquired": drafts are being refreshed (merchant).  "begun": the response
\* exists and its generator has not started.  "inside": the generator awaits
\* the model or a tool.  "greeting", "sending", "failing": it is suspended at
\* a yield and the response sends what it yielded.  "orphan", "cut": so it is,
\* and the response has ended.  "lingering": the background task has run too.
Phases == {"none", "loaded", "acquired", "begun", "inside", "greeting", "sending",
           "failing", "orphan", "cut", "lingering"}

nobody == CHOOSE c \in Conversations : TRUE  \* of a request that does not exist

\* The request was admitted and has not ended.
Occupies(r) == phase[r] \notin {"none", "loaded", "lingering"}

Go(r, place) == phase' = [phase EXCEPT ![r] = place]

End(r) ==
  /\ phase' = [phase EXCEPT ![r] = "none"]
  /\ conv' = [conv EXCEPT ![r] = nobody]
  /\ record' = [record EXCEPT ![r] = blank]
  /\ outcome' = [outcome EXCEPT ![r] = "interrupted"]

Init ==
  /\ stored = [c \in Conversations |-> blank]
  /\ busy = {}
  /\ active = [o \in Owners |-> 0]
  /\ phase = [r \in Requests |-> "none"]
  /\ conv = [r \in Requests |-> nobody]
  /\ record = [r \in Requests |-> blank]
  /\ outcome = [r \in Requests |-> "interrupted"]
  /\ deprived = {}

-----------------------------------------------------------------------------
(* The record. *)

\* Fault: the record is written whatever version the row has.
saveBlindly(r, new) ==
  stored' = [stored EXCEPT ![conv[r]] = [new EXCEPT !.version = @ + 1]]

\* save: a stale copy is refused with 409 and writes nothing.
save(r, new) ==
  stored' = IF new.version = stored[conv[r]].version
              THEN [stored EXCEPT ![conv[r]] = [new EXCEPT !.version = @ + 1]]
              ELSE stored

\* record.version += 1, if the row was written.
copyAfter(r, new) ==
  IF new.version = stored[conv[r]].version THEN [new EXCEPT !.version = @ + 1] ELSE new

settled(rec, status, item) ==
  [rec EXCEPT !.status = status, !.items[Len(rec.items)] = item]

\* Fault: the status changes and the item keeps its pending mark.
finish_turnStatusOnly(r, status, item) ==
  save(r, [record[r] EXCEPT !.status = status])

finish_turn(r, status, item) == save(r, settled(record[r], status, item))

\* Whoever gives a conversation back frees it under any other request in it.
release(r) ==
  LET c == conv[r] IN
    /\ busy' = busy \ {c}
    /\ active' = IF c \in busy THEN [active EXCEPT ![OwnerOf[c]] = @ - 1] ELSE active
    /\ deprived' = (deprived \cup {q \in Requests : Occupies(q) /\ conv[q] = c}) \ {r}

-----------------------------------------------------------------------------
(* Admission. *)

TurnsLeft == MapThenSumSet(LAMBDA c : Len(stored[c].items), Conversations) < MaxTurns

Load(r, c) ==
  /\ phase[r] = "none"
  /\ c \in Asks[r] /\ TurnsLeft
  /\ Go(r, "loaded")
  /\ conv' = [conv EXCEPT ![r] = c]
  /\ record' = [record EXCEPT ![r] = stored[c]]
  /\ UNCHANGED <<stored, slotVars, outcome>>

\* Fault: nobody counts the tasks of all users.
acquireUncounted(r) ==
  /\ phase[r] = "loaded"
  /\ conv[r] \notin busy
  /\ record[r].status # "running"
  /\ active[OwnerOf[conv[r]]] < MaxUser
  /\ busy' = busy \cup {conv[r]}
  /\ active' = [active EXCEPT ![OwnerOf[conv[r]]] = @ + 1]
  /\ Go(r, "acquired")
  /\ UNCHANGED <<stored, deprived, conv, record, outcome>>

acquire(r) ==
  /\ phase[r] = "loaded"
  /\ conv[r] \notin busy
  /\ record[r].status # "running"
  /\ Cardinality(busy) < MaxActive
  /\ active[OwnerOf[conv[r]]] < MaxUser
  /\ busy' = busy \cup {conv[r]}
  /\ active' = [active EXCEPT ![OwnerOf[conv[r]]] = @ + 1]
  /\ Go(r, "acquired")
  /\ UNCHANGED <<stored, deprived, conv, record, outcome>>

\* Refused by acquire with 409 or 429, or an exception before it.
Refused(r) ==
  /\ phase[r] = "loaded"
  /\ End(r)
  /\ UNCHANGED <<stored, slotVars>>

\* Fault: the turn begins on whatever copy the request was admitted with.
begin_turnOnAnyCopy(r) ==
  /\ phase[r] = "acquired" /\ TurnsLeft
  /\ LET new == [record[r] EXCEPT !.status = "running",
                                  !.items = Append(@, "pending")] IN
       /\ saveBlindly(r, new)
       /\ record' = [record EXCEPT ![r] = [new EXCEPT !.version = @ + 1]]
  /\ Go(r, "begun")
  /\ UNCHANGED <<slotVars, conv, outcome>>

\* Both messages of the turn are appended, and begin_turn saves them.
begin_turn(r) ==
  /\ phase[r] = "acquired" /\ TurnsLeft
  /\ record[r].version = stored[conv[r]].version
  /\ LET new == [record[r] EXCEPT !.status = "running",
                                  !.items = Append(@, "pending")] IN
       /\ save(r, new)
       /\ record' = [record EXCEPT ![r] = copyAfter(r, new)]
  /\ Go(r, "begun")
  /\ UNCHANGED <<slotVars, conv, outcome>>

\* Fault: an exception before the response exists keeps the slot.
NotBegunKeepsSlot(r) ==
  /\ phase[r] = "acquired"
  /\ End(r)
  /\ UNCHANGED <<stored, slotVars>>

\* A draft cannot be refreshed, or the copy turns out stale: the slot is free.
NotBegun(r) ==
  /\ phase[r] = "acquired"
  /\ release(r)
  /\ End(r)
  /\ UNCHANGED stored

-----------------------------------------------------------------------------
(* The stream. *)

\* The server iterates the response: a buyer's generator yields turn_started
\* first, a merchant's starts the agent.
Start(r) ==
  /\ phase[r] = "begun"
  /\ Go(r, "greeting") \/ Go(r, "inside")
  /\ UNCHANGED <<stored, slotVars, conv, record, outcome>>

Yield(r) ==
  /\ phase[r] = "inside"
  /\ Go(r, "sending")
  /\ UNCHANGED <<stored, slotVars, conv, record, outcome>>

Sent(r) ==
  /\ phase[r] \in {"greeting", "sending"}
  /\ Go(r, "inside")
  /\ UNCHANGED <<stored, slotVars, conv, record, outcome>>

\* The event turn_complete is handled; memory extraction is awaited next.
TurnComplete(r) ==
  /\ phase[r] = "inside"
  /\ outcome[r] = "interrupted"
  /\ outcome' = [outcome EXCEPT ![r] = "completed"]
  /\ UNCHANGED <<stored, slotVars, phase, conv, record>>

\* The model, a tool, the budget or the deadline fails.
Fail(r) ==
  /\ phase[r] = "inside"
  /\ outcome' = [outcome EXCEPT ![r] = "failed"]
  /\ Go(r, "failing")
  /\ UNCHANGED <<stored, slotVars, conv, record>>

\* The finally clause of the generator, then the response is over.
Finally(r, item) ==
  /\ finish_turn(r, outcome[r], item)
  /\ release(r)
  /\ End(r)

StreamEnds(r) == phase[r] = "inside" /\ Finally(r, "answered")

FailureSent(r) == phase[r] = "failing" /\ Finally(r, "cut")

\* The client is gone: CancelledError where the generator awaits.
Disconnected(r) == phase[r] = "inside" /\ Finally(r, "cut")

\* Fault: nothing runs after a response that was never iterated.
NeverStartedForgotten(r) ==
  /\ phase[r] = "begun"
  /\ End(r)
  /\ UNCHANGED <<stored, slotVars>>

\* The client is gone before the generator has started: the background task
\* finishes the turn.
NeverStarted(r) ==
  /\ phase[r] = "begun"
  /\ finish_turn(r, "interrupted", "cut")
  /\ release(r)
  /\ End(r)

\* The client is gone, or the deadline expires, while the response sends: the
\* generator stays suspended at its yield.
Vanish(r) ==
  /\ phase[r] \in {"greeting", "sending", "failing"}
  /\ Go(r, IF phase[r] = "sending" THEN "cut" ELSE "orphan")
  /\ UNCHANGED <<stored, slotVars, conv, record, outcome>>

\* finish_unstarted_stream.  A generator inside its context managers cannot be
\* finalized (the context of its variables is another one) and is lost.
Background(r) ==
  /\ phase[r] \in {"cut", "orphan"}
  /\ finish_turn(r, "interrupted", "cut")
  /\ release(r)
  /\ IF phase[r] = "cut"
       THEN End(r)
       ELSE /\ record' = [record EXCEPT ![r] =
                  copyAfter(r, settled(record[r], "interrupted", "cut"))]
            /\ Go(r, "lingering")
            /\ UNCHANGED <<conv, outcome>>

\* Any other generator is finalized later: GeneratorExit, then its finally
\* clause, which does not ask whether the turn is finished.
Finalized(r) == phase[r] = "lingering" /\ Finally(r, "cut")

\* A new process: no request, no slot, and running turns become interrupted.
Restart ==
  /\ stored' = [c \in Conversations |->
       IF stored[c].status = "running"
         THEN [settled(stored[c], "interrupted", "cut") EXCEPT !.version = @ + 1]
         ELSE stored[c]]
  /\ busy' = {}
  /\ active' = [o \in Owners |-> 0]
  /\ phase' = [r \in Requests |-> "none"]
  /\ conv' = [r \in Requests |-> nobody]
  /\ record' = [r \in Requests |-> blank]
  /\ outcome' = [r \in Requests |-> "interrupted"]
  /\ deprived' = {}

-----------------------------------------------------------------------------
Stream(r) ==
  \/ Start(r) \/ Yield(r) \/ Sent(r) \/ TurnComplete(r) \/ Fail(r)
  \/ StreamEnds(r) \/ FailureSent(r) \/ Disconnected(r) \/ NeverStarted(r)
  \/ Vanish(r) \/ Background(r) \/ Finalized(r)

Next ==
  \/ \E r \in Requests, c \in Conversations : Load(r, c)
  \/ \E r \in Requests : acquire(r) \/ Refused(r) \/ begin_turn(r) \/ NotBegun(r)
  \/ \E r \in Requests : Stream(r)
  \/ Restart

Spec == Init /\ [][Next]_vars

\* Token exchanges and reads time out, a client reads on or goes away, tasks
\* run, and the deadline of the task budget ends every stream.
Fairness ==
  \A r \in Requests :
    /\ WF_vars(Refused(r))
    /\ WF_vars(NotBegun(r))
    /\ WF_vars(Start(r) \/ NeverStarted(r))
    /\ WF_vars(Sent(r) \/ FailureSent(r) \/ Vanish(r))
    /\ SF_vars(StreamEnds(r) \/ Fail(r) \/ Disconnected(r))
    /\ WF_vars(Background(r))
    /\ WF_vars(Finalized(r))

FairSpec == Spec /\ Fairness

-----------------------------------------------------------------------------
(* Properties. *)

TypeOK ==
  /\ stored \in [Conversations -> Record]
  /\ busy \subseteq Conversations
  /\ active \in [Owners -> Nat]
  /\ phase \in [Requests -> Phases]
  /\ conv \in [Requests -> Conversations]
  /\ record \in [Requests -> Record]
  /\ outcome \in [Requests -> {"interrupted", "completed", "failed"}]
  /\ deprived \subseteq Requests

\* The request works on a turn that is not finished.
Live(r) ==
  phase[r] \in {"begun", "inside", "greeting", "sending", "failing", "orphan", "cut"}

\* A conversation never runs two turns at once, however stale the copies are
\* that requests were admitted with, and even if a slot is released twice.
OneTurn ==
  \A r, s \in Requests : (Live(r) /\ Live(s) /\ conv[r] = conv[s]) => r = s

\* A conversation is stored as running exactly while a request works on its
\* turn with the current copy, so its last save cannot fail as stale and no
\* conversation stays busy for want of a writer.
RunningHasWriter ==
  \A c \in Conversations :
    stored[c].status = "running" <=>
      \E r \in Requests : Live(r) /\ conv[r] = c /\ record[r] = stored[c]

\* Only the last item of a conversation can be pending, and is while it runs:
\* a restored chat never shows an answer that nobody writes any more.
PendingWhileRunning ==
  \A c \in Conversations : \A i \in 1 .. Len(stored[c].items) :
    stored[c].items[i] = "pending" <=>
      (i = Len(stored[c].items) /\ stored[c].status = "running")

\* The counts of users agree with the occupied conversations.
CountsAgree ==
  \A o \in Owners : active[o] = Cardinality({c \in busy : OwnerOf[c] = o})

Counted == {r \in Requests : Occupies(r)} \ deprived

CountedOf(o) == {r \in Counted : OwnerOf[conv[r]] = o}

\* The tasks at work are within both limits, but for those whose slot somebody else
\* gave back, and nobody but a lost generator finalized late begins with that: it
\* frees the conversation under a newer turn.  Then more tasks work than the "at
\* most 8 active chat tasks and 2 per user" of RUNTIME.md:59.
WithinLimits ==
  /\ [](/\ CountsAgree
        /\ Cardinality(Counted) <= MaxActive
        /\ \A o \in Owners : Cardinality(CountedOf(o)) <= MaxUser)
  /\ [][(deprived = {} /\ deprived' # {}) =>
          \E r \in Requests : phase[r] = "lingering" /\ phase'[r] = "none"]_vars

\* What is stored of earlier turns is never lost or rewritten by a later save,
\* and a finished turn never becomes pending again.
HistoryKept ==
  [][\A c \in Conversations :
       LET old == stored[c].items  new == stored'[c].items IN
         /\ Len(new) \in {Len(old), Len(old) + 1}
         /\ \A i \in 1 .. Len(old) :
              /\ i < Len(new) => new[i] = old[i]
              /\ new[i] = "pending" => old[i] = "pending"]_vars

\* Every turn ends, and every slot is given back.
TurnsEnd ==
  \A c \in Conversations :
    (stored[c].status = "running" \/ c \in busy)
      ~> (stored[c].status # "running" /\ c \notin busy)

-----------------------------------------------------------------------------
\* The requests that serve the turn of a conversation.
Serving(c) == {r \in Requests : Live(r) /\ conv[r] = c}

turnsOf == [c \in Conversations |-> stored[c].items]

verdictOf == [c \in Conversations |-> stored[c].status]

servingOf == [c \in Conversations |-> Serving(c)]

History == INSTANCE TurnHistory WITH
  turns <- turnsOf, verdict <- verdictOf, serving <- servingOf

\* The record keeps the promise of TurnHistory: turns run one after the other, are
\* settled once, by the request that serves them or at start-up, and the verdict on
\* one stays, but that an interrupted turn may be found to have failed when a lost
\* generator is finalized late (app.py:560-643, sessions.py:276-316).
KeepsTurns == History!Spec
=============================================================================
