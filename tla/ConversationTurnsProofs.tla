----------------------- MODULE ConversationTurnsProofs -----------------------
(***************************************************************************)
(* Theorems about ConversationTurns for any number of owners,              *)
(* conversations, requests and turns, and any limits.                      *)
(***************************************************************************)
EXTENDS ConversationTurns, FiniteSetTheorems, SequenceTheorems, TLAPS

\* A copy never runs ahead of the row, and equals it if the versions agree: the
\* version alone decides whether a copy is stale.  While the turn of the request
\* is not finished its copy is the row, and runs; the copies of the others that
\* may still save do not run.
RequestSound(r) ==
  LET row == stored[conv[r]] IN
    /\ phase[r] # "none" => /\ record[r].version <= row.version
                            /\ record[r].version = row.version => record[r] = row
    /\ Live(r) => record[r] = row /\ row.status = "running"
    /\ phase[r] \in {"acquired", "lingering"} => record[r].status # "running"
    /\ phase[r] = "lingering" => record[r].items # <<>>

RequestsSound == \A r \in Requests : RequestSound(r)

\* A running turn has an item that it is writing.
RunningHasItem ==
  \A c \in Conversations : stored[c].status = "running" => stored[c].items # <<>>

\* The counters agree, and what they count is within the limits.
SlotsCounted ==
  /\ CountsAgree
  /\ Cardinality(busy) <= MaxActive
  /\ \A o \in Owners : active[o] <= MaxUser

IInv ==
  /\ TypeOK
  /\ SlotsCounted
  /\ RequestsSound
  /\ RunningHasItem
  /\ OneTurn
  /\ RunningHasWriter
  /\ PendingWhileRunning

-----------------------------------------------------------------------------
(* Slots. *)

CountsOf(o) == {c \in busy : OwnerOf[c] = o}

\* Occupying a conversation that is free adds one to the count of its owner,
\* as acquire does, and to nobody else's.
LEMMA Acquires ==
  ASSUME IInv, NEW c \in Conversations, c \notin busy,
         Cardinality(busy) < MaxActive, active[OwnerOf[c]] < MaxUser,
         busy' = busy \cup {c}, active' = [active EXCEPT ![OwnerOf[c]] = @ + 1]
  PROVE  /\ busy' \subseteq Conversations /\ active' \in [Owners -> Nat]
         /\ SlotsCounted'
<1>1. IsFiniteSet(busy) /\ OwnerOf[c] \in Owners
  BY FS_Subset, TurnsAssumption DEF IInv, TypeOK
<1>2. /\ busy' \subseteq Conversations /\ active' \in [Owners -> Nat]
  BY <1>1 DEF IInv, TypeOK
<1>3. Cardinality(busy') <= MaxActive
  <2>1. Cardinality(busy \cup {c}) = Cardinality(busy) + 1
    BY <1>1, FS_AddElement
  <2>2. Cardinality(busy) \in Nat
    BY <1>1, FS_CardinalityType
  <2> QED BY <2>1, <2>2, TurnsAssumption
<1>4. ASSUME NEW o \in Owners
      PROVE  active'[o] = Cardinality(CountsOf(o)') /\ active'[o] <= MaxUser
  <2>1. /\ IsFiniteSet(CountsOf(o)) /\ c \notin CountsOf(o)
        /\ active[o] = Cardinality(CountsOf(o)) /\ active[o] <= MaxUser
    BY <1>1, FS_Subset DEF CountsOf, IInv, SlotsCounted, CountsAgree
  <2>2. CASE o = OwnerOf[c]
    <3>1. CountsOf(o)' = CountsOf(o) \cup {c}
      BY <2>2 DEF CountsOf
    <3>2. Cardinality(CountsOf(o)') = Cardinality(CountsOf(o)) + 1
      BY <2>1, <3>1, FS_AddElement
    <3> QED BY <2>1, <2>2, <3>2, TurnsAssumption DEF IInv, TypeOK
  <2>3. CASE o # OwnerOf[c]
    <3>1. CountsOf(o)' = CountsOf(o)
      BY <2>3 DEF CountsOf
    <3> QED BY <2>1, <2>3, <3>1 DEF IInv, TypeOK
  <2> QED BY <2>2, <2>3
<1> QED BY <1>2, <1>3, <1>4 DEF SlotsCounted, CountsAgree, CountsOf

\* A release takes the count back once, however often it is repeated.
LEMMA Releases ==
  ASSUME IInv, NEW r \in Requests, release(r)
  PROVE  /\ busy' \subseteq Conversations /\ active' \in [Owners -> Nat]
         /\ deprived' \subseteq Requests
         /\ SlotsCounted'
<1> DEFINE c == conv[r]
<1>4. c \in Conversations /\ deprived' \subseteq Requests
  BY DEF release, IInv, TypeOK
<1>1. IsFiniteSet(busy) /\ OwnerOf[c] \in Owners
  BY <1>4, FS_Subset, TurnsAssumption DEF IInv, TypeOK
<1>2. CASE c \notin busy
  <2>1. busy' = busy /\ active' = active
    BY <1>2 DEF release
  <2> QED BY <1>4, <2>1 DEF IInv, TypeOK, SlotsCounted, CountsAgree
<1>3. CASE c \in busy
  <2>1. busy' = busy \ {c} /\ active' = [active EXCEPT ![OwnerOf[c]] = @ - 1]
    BY <1>3 DEF release
  <2>2. Cardinality(busy') <= MaxActive
    <3>1. Cardinality(busy \ {c}) = Cardinality(busy) - 1
      BY <1>1, <1>3, FS_RemoveElement
    <3>2. Cardinality(busy) \in Nat
      BY <1>1, FS_CardinalityType
    <3> QED BY <2>1, <3>1, <3>2, TurnsAssumption DEF IInv, SlotsCounted
  <2>3. ASSUME NEW o \in Owners
        PROVE  /\ active'[o] = Cardinality(CountsOf(o)')
               /\ active'[o] \in Nat /\ active'[o] <= MaxUser
    <3>1. /\ IsFiniteSet(CountsOf(o)) /\ CountsOf(o)' = CountsOf(o) \ {c}
          /\ active[o] = Cardinality(CountsOf(o)) /\ active[o] <= MaxUser
      BY <1>1, <2>1, FS_Subset DEF CountsOf, IInv, SlotsCounted, CountsAgree
    <3>2. Cardinality(CountsOf(o)') \in Nat
      BY <3>1, FS_RemoveElement, FS_CardinalityType
    <3>3. CASE o = OwnerOf[c]
      <4>1. c \in CountsOf(o)
        BY <1>3, <3>3 DEF CountsOf, IInv, TypeOK
      <4>2. Cardinality(CountsOf(o)') = Cardinality(CountsOf(o)) - 1
        BY <3>1, <4>1, FS_RemoveElement
      <4> QED BY <2>1, <3>1, <3>2, <3>3, <4>2, TurnsAssumption DEF IInv, TypeOK
    <3>4. CASE o # OwnerOf[c]
      <4>1. CountsOf(o)' = CountsOf(o)
        BY <2>1, <3>4 DEF CountsOf
      <4> QED BY <2>1, <3>1, <3>4, <4>1 DEF IInv, TypeOK
    <3> QED BY <3>3, <3>4
  <2>4. active' \in [Owners -> Nat]
    BY <1>1, <2>1, <2>3 DEF IInv, TypeOK
  <2> QED BY <1>4, <2>1, <2>2, <2>3, <2>4 DEF SlotsCounted, CountsAgree, CountsOf, IInv, TypeOK
<1> QED BY <1>2, <1>3, <1>4

-----------------------------------------------------------------------------
(* Records. *)

\* Settling replaces the last item and leaves the others.
LEMMA SettledRecord ==
  ASSUME NEW rec \in Record, rec.items # <<>>,
         NEW status \in Statuses, NEW item \in Items
  PROVE  LET new == settled(rec, status, item) IN
           /\ new \in Record
           /\ new.status = status /\ new.version = rec.version
           /\ Len(new.items) = Len(rec.items) /\ Len(rec.items) \in Nat \ {0}
           /\ \A i \in 1 .. Len(rec.items) :
                new.items[i] = IF i = Len(rec.items) THEN item ELSE rec.items[i]
<1>1. rec.items \in Seq(Items) /\ Len(rec.items) \in 1 .. Len(rec.items)
  BY LenProperties, EmptySeq DEF Record
<1>2. /\ [rec.items EXCEPT ![Len(rec.items)] = item] \in Seq(Items)
      /\ Len([rec.items EXCEPT ![Len(rec.items)] = item]) = Len(rec.items)
      /\ \A i \in 1 .. Len(rec.items) :
           [rec.items EXCEPT ![Len(rec.items)] = item][i]
             = IF i = Len(rec.items) THEN item ELSE rec.items[i]
  BY <1>1, ExceptSeq
<1> DEFINE items == [rec.items EXCEPT ![Len(rec.items)] = item]
<1>3. settled(rec, status, item) = [rec EXCEPT !.status = status, !.items = items]
  BY DEF settled, Record
<1> HIDE DEF items
<1>4. [rec EXCEPT !.status = status, !.items = items] \in Record
  BY <1>2 DEF Record, items
<1> QED BY <1>1, <1>2, <1>3, <1>4 DEF items, Record

\* Beginning a turn appends an item and leaves the others.
LEMMA BegunRecord ==
  ASSUME NEW rec \in Record
  PROVE  LET new == [rec EXCEPT !.status = "running", !.items = Append(@, "pending")] IN
           /\ new \in Record
           /\ new.status = "running" /\ new.version = rec.version
           /\ Len(rec.items) \in Nat /\ Len(new.items) = Len(rec.items) + 1
           /\ \A i \in 1 .. Len(rec.items) : new.items[i] = rec.items[i]
           /\ new.items[Len(new.items)] = "pending"
<1>1. rec.items \in Seq(Items) /\ Len(rec.items) \in Nat /\ "pending" \in Items
  BY LenProperties DEF Record, Items
<1> DEFINE items == Append(rec.items, "pending")
           new == [rec EXCEPT !.status = "running", !.items = Append(@, "pending")]
<1>2. /\ items \in Seq(Items) /\ Len(items) = Len(rec.items) + 1
      /\ \A i \in 1 .. Len(rec.items) : items[i] = rec.items[i]
      /\ items[Len(rec.items) + 1] = "pending"
  BY <1>1, AppendProperties
<1>3. new = [rec EXCEPT !.status = "running", !.items = items]
  BY DEF Record
<1> HIDE DEF items, new
<1>4. new \in Record /\ new.status = "running" /\ new.version = rec.version /\ new.items = items
  BY <1>2, <1>3 DEF Record, Statuses
<1> QED BY <1>1, <1>2, <1>4 DEF new

\* The row that a save writes.
Written(new) == [new EXCEPT !.version = @ + 1]

LEMMA WrittenRecord ==
  ASSUME NEW rec \in Record
  PROVE  /\ Written(rec) \in Record
         /\ Written(rec).status = rec.status /\ Written(rec).items = rec.items
         /\ Written(rec).version = rec.version + 1 /\ rec.version \in Nat
BY DEF Written, Record

-----------------------------------------------------------------------------
(* What a step of one request leaves alone. *)

Others(r) ==
  \A q \in Requests \ {r} :
    phase'[q] = phase[q] /\ conv'[q] = conv[q] /\ record'[q] = record[q]

\* A step that writes no record keeps the invariant, if the request keeps its
\* live turn, or had none and gets none.
LEMMA NothingWritten ==
  ASSUME IInv, NEW r \in Requests, Others(r), UNCHANGED stored,
         TypeOK', SlotsCounted', RequestSound(r)',
         \/ Live(r) /\ Live(r)' /\ conv'[r] = conv[r] /\ record'[r] = record[r]
         \/ ~Live(r) /\ ~Live(r)'
  PROVE  IInv'
<1>1. RequestsSound'
  BY DEF IInv, RequestsSound, RequestSound, Live, Others
<1>2. OneTurn'
  BY DEF IInv, OneTurn, Live, Others
<1>3. RunningHasWriter'
  <2>1. \A q \in Requests : /\ Live(q)' <=> Live(q)
                            /\ Live(q) => conv'[q] = conv[q] /\ record'[q] = record[q]
    BY DEF Live, Others
  <2> QED BY <2>1 DEF IInv, RunningHasWriter
<1> QED BY <1>1, <1>2, <1>3 DEF IInv, RunningHasItem, PendingWhileRunning

\* A turn that is finished: the row is settled if the copy is the current one,
\* which it always is as long as the turn is live, and stays otherwise.
LEMMA FinishEffect ==
  ASSUME IInv, NEW r \in Requests, Live(r) \/ phase[r] = "lingering",
         NEW status \in Statuses \ {"running"}, NEW item \in Items \ {"pending"},
         finish_turn(r, status, item)
  PROVE  /\ stored' \in [Conversations -> Record]
         /\ \A c \in Conversations \ {conv[r]} : stored'[c] = stored[c]
         /\ \/ /\ stored' = stored /\ ~Live(r)
               /\ record[r].version # stored[conv[r]].version
            \/ /\ record[r] = stored[conv[r]]
               /\ stored[conv[r]].items # <<>>
               /\ stored'[conv[r]] = Written(settled(stored[conv[r]], status, item))
<1>1. /\ conv[r] \in Conversations /\ record[r] \in Record
      /\ stored \in [Conversations -> Record] /\ RequestSound(r)
  BY DEF IInv, TypeOK, RequestsSound
<1>2. record[r].items # <<>>
  BY <1>1 DEF IInv, RequestSound, RunningHasItem
<1> DEFINE new == settled(record[r], status, item)
<1>3. new \in Record /\ new.version = record[r].version
  BY <1>1, <1>2, SettledRecord
<1>4. CASE record[r].version = stored[conv[r]].version
  <2>1. record[r] = stored[conv[r]]
    BY <1>1, <1>4 DEF RequestSound, Live
  <2>2. stored' = [stored EXCEPT ![conv[r]] = Written(new)]
    BY <1>3, <1>4 DEF finish_turn, save, Written
  <2>3. Written(new) \in Record
    BY <1>3, WrittenRecord
  <2> HIDE DEF new
  <2>4. /\ stored' \in [Conversations -> Record]
        /\ \A c \in Conversations \ {conv[r]} : stored'[c] = stored[c]
        /\ stored'[conv[r]] = Written(new)
    BY <1>1, <2>2, <2>3
  <2> QED BY <1>2, <2>1, <2>4 DEF new
<1>5. CASE record[r].version # stored[conv[r]].version
  <2>1. stored' = stored
    BY <1>3, <1>5 DEF finish_turn, save
  <2> QED BY <1>1, <1>5, <2>1 DEF RequestSound
<1> QED BY <1>4, <1>5

\* Finishing a turn keeps the invariant: nobody else works on it, and every
\* other copy of the conversation is stale from then on.
LEMMA Finishes ==
  ASSUME IInv, NEW r \in Requests, Live(r) \/ phase[r] = "lingering",
         NEW status \in Statuses \ {"running"}, NEW item \in Items \ {"pending"},
         finish_turn(r, status, item), Others(r),
         TypeOK', SlotsCounted', RequestSound(r)', ~Live(r)'
  PROVE  IInv'
<1> DEFINE row == stored[conv[r]]
<1>1. /\ conv[r] \in Conversations /\ row \in Record /\ RequestSound(r)
      /\ stored \in [Conversations -> Record]
  BY DEF IInv, TypeOK, RequestsSound
<1>2. CASE stored' = stored /\ ~Live(r)
  BY <1>2, NothingWritten
<1>3. CASE /\ record[r] = row /\ row.items # <<>>
           /\ stored'[conv[r]] = Written(settled(row, status, item))
           /\ \A c \in Conversations \ {conv[r]} : stored'[c] = stored[c]
  <2> DEFINE new == settled(row, status, item)
  <2>1. /\ new \in Record /\ new.status = status /\ new.version = row.version
        /\ Len(new.items) = Len(row.items) /\ Len(row.items) \in Nat \ {0}
        /\ \A i \in 1 .. Len(row.items) :
             new.items[i] = IF i = Len(row.items) THEN item ELSE row.items[i]
    BY <1>1, <1>3, SettledRecord
  <2> HIDE DEF new
  <2>2. /\ stored'[conv[r]].status = status /\ stored'[conv[r]].items = new.items
        /\ stored'[conv[r]].version = row.version + 1 /\ row.version \in Nat
    BY <1>3, <2>1, WrittenRecord DEF new
  <2>3. \A q \in Requests \ {r} : Live(q) => conv[q] # conv[r]
    BY <1>1, <1>3 DEF IInv, OneTurn, RequestsSound, RequestSound
  <2>4. ASSUME NEW q \in Requests \ {r} PROVE RequestSound(q)'
    <3>1. /\ RequestSound(q) /\ conv[q] \in Conversations /\ record[q] \in Record
          /\ phase'[q] = phase[q] /\ conv'[q] = conv[q] /\ record'[q] = record[q]
          /\ Live(q)' <=> Live(q)
      BY DEF IInv, TypeOK, RequestsSound, Others, Live
    <3>2. CASE conv[q] # conv[r]
      BY <1>3, <3>1, <3>2 DEF RequestSound
    <3>3. CASE conv[q] = conv[r]
      BY <2>2, <2>3, <3>1, <3>3 DEF RequestSound, Record
    <3> QED BY <3>2, <3>3
  <2>5. RequestsSound'
    BY <2>4 DEF RequestsSound
  <2>6. RunningHasItem'
    BY <1>3, <2>2 DEF IInv, RunningHasItem
  <2>7. OneTurn'
    BY DEF IInv, OneTurn, Live, Others
  <2>8. RunningHasWriter'
    <3>1. \A q \in Requests : Live(q)' <=> Live(q) /\ q # r
      BY DEF Live, Others
    <3>2. ASSUME NEW c \in Conversations, c # conv[r]
          PROVE  stored'[c].status = "running" <=>
                   \E q \in Requests : Live(q)' /\ conv'[q] = c /\ record'[q] = stored'[c]
      BY <1>3, <3>1, <3>2 DEF IInv, RunningHasWriter, Others
    <3>3. \A q \in Requests : Live(q)' => conv'[q] # conv[r]
      BY <2>3, <3>1 DEF Others
    <3> QED BY <2>2, <3>2, <3>3 DEF RunningHasWriter
  <2>9. PendingWhileRunning'
    BY <1>1, <1>3, <2>1, <2>2 DEF IInv, PendingWhileRunning
  <2> QED BY <2>5, <2>6, <2>7, <2>8, <2>9 DEF IInv
<1> QED BY <1>2, <1>3, FinishEffect

-----------------------------------------------------------------------------
(* Admission. *)

LEMMA InitInv == Init => IInv
<1> SUFFICES ASSUME Init PROVE IInv
  OBVIOUS
<1> USE DEF Init
<1>1. blank \in Record /\ nobody \in Conversations
  BY EmptySeq, TurnsAssumption DEF blank, Record, Statuses, nobody
<1>2. TypeOK
  BY <1>1 DEF TypeOK, Phases
<1>3. SlotsCounted
  <2>1. Cardinality({}) = 0 /\ \A o \in Owners : {c \in busy : OwnerOf[c] = o} = {}
    BY FS_EmptySet
  <2> QED BY <2>1, TurnsAssumption DEF SlotsCounted, CountsAgree
<1>4. RequestsSound /\ RunningHasItem /\ OneTurn /\ RunningHasWriter
  BY DEF RequestsSound, RequestSound, Live, RunningHasItem, OneTurn, RunningHasWriter,
         blank
<1>5. PendingWhileRunning
  BY EmptySeq DEF PendingWhileRunning, blank
<1> QED BY <1>2, <1>3, <1>4, <1>5 DEF IInv

\* The record of a request that has ended, or was never made.
LEMMA Ended ==
  ASSUME IInv, NEW r \in Requests, End(r)
  PROVE  /\ Others(r) /\ RequestSound(r)' /\ ~Live(r)'
         /\ phase' \in [Requests -> Phases] /\ conv' \in [Requests -> Conversations]
         /\ record' \in [Requests -> Record]
         /\ outcome' \in [Requests -> {"interrupted", "completed", "failed"}]
<1>1. blank \in Record /\ nobody \in Conversations
  BY EmptySeq, TurnsAssumption DEF blank, Record, Statuses, nobody
<1> QED BY <1>1 DEF IInv, TypeOK, End, Others, RequestSound, Live, Phases

LEMMA LoadInv ==
  ASSUME IInv, NEW r \in Requests, NEW c \in Conversations, Load(r, c)
  PROVE  IInv'
<1> USE DEF Load, Go
<1>1. TypeOK' /\ SlotsCounted' /\ Others(r)
  BY DEF IInv, TypeOK, SlotsCounted, CountsAgree, Others, slotVars, Phases
<1>2. record'[r] = stored[c] /\ conv'[r] = c /\ phase'[r] = "loaded" /\ stored' = stored
  BY DEF IInv, TypeOK
<1>3. RequestSound(r)' /\ ~Live(r) /\ ~Live(r)'
  BY <1>2 DEF IInv, TypeOK, Record, RequestSound, Live
<1> QED BY <1>1, <1>2, <1>3, NothingWritten

LEMMA AcquireInv ==
  ASSUME IInv, NEW r \in Requests, acquire(r)
  PROVE  IInv'
<1> USE DEF acquire, Go
<1>1. conv[r] \in Conversations /\ RequestSound(r)
  BY DEF IInv, TypeOK, RequestsSound
<1>2. /\ busy' \subseteq Conversations /\ active' \in [Owners -> Nat]
      /\ SlotsCounted'
  BY <1>1, Acquires
<1>3. TypeOK' /\ Others(r)
  BY <1>2 DEF IInv, TypeOK, Others, Phases
<1>4. RequestSound(r)' /\ ~Live(r) /\ ~Live(r)'
  BY <1>1 DEF IInv, TypeOK, RequestSound, Live
<1> QED BY <1>2, <1>3, <1>4, NothingWritten

LEMMA RefusedInv ==
  ASSUME IInv, NEW r \in Requests, Refused(r)
  PROVE  IInv'
<1>1. TypeOK' /\ SlotsCounted'
  BY Ended DEF Refused, IInv, TypeOK, SlotsCounted, CountsAgree, slotVars
<1>2. ~Live(r) /\ UNCHANGED stored
  BY DEF Refused, Live
<1> QED BY <1>1, <1>2, Ended, NothingWritten DEF Refused

LEMMA NotBegunInv ==
  ASSUME IInv, NEW r \in Requests, NotBegun(r)
  PROVE  IInv'
<1>1. conv[r] \in Conversations
  BY DEF IInv, TypeOK
<1>2. TypeOK' /\ SlotsCounted'
  BY <1>1, Ended, Releases DEF NotBegun, IInv, TypeOK
<1>3. ~Live(r) /\ UNCHANGED stored
  BY DEF NotBegun, Live
<1> QED BY <1>2, <1>3, Ended, NothingWritten DEF NotBegun

\* A turn begins: the copy is the row, which does not run, so nobody else works
\* on a turn of the conversation.
LEMMA BeginEffect ==
  ASSUME IInv, NEW r \in Requests, begin_turn(r)
  PROVE  LET row == stored[conv[r]]  new == stored'[conv[r]] IN
           /\ stored' \in [Conversations -> Record]
           /\ \A c \in Conversations \ {conv[r]} : stored'[c] = stored[c]
           /\ record[r] = row /\ row.status # "running"
           /\ new.status = "running" /\ new.version = row.version + 1
           /\ row.version \in Nat /\ Len(row.items) \in Nat
           /\ Len(new.items) = Len(row.items) + 1
           /\ \A i \in 1 .. Len(row.items) : new.items[i] = row.items[i]
           /\ new.items[Len(new.items)] = "pending"
           /\ record' = [record EXCEPT ![r] = new]
<1> DEFINE row == stored[conv[r]]
           new == [record[r] EXCEPT !.status = "running", !.items = Append(@, "pending")]
<1>1. /\ conv[r] \in Conversations /\ record[r] \in Record /\ RequestSound(r)
      /\ stored \in [Conversations -> Record]
  BY DEF IInv, TypeOK, RequestsSound
<1>2. record[r] = row /\ row.status # "running"
  BY <1>1 DEF begin_turn, RequestSound
<1>3. /\ new \in Record /\ new.status = "running" /\ new.version = row.version
      /\ Len(row.items) \in Nat /\ Len(new.items) = Len(row.items) + 1
      /\ \A i \in 1 .. Len(row.items) : new.items[i] = row.items[i]
      /\ new.items[Len(new.items)] = "pending"
  <2>1. /\ new \in Record /\ new.status = "running" /\ new.version = record[r].version
        /\ Len(record[r].items) \in Nat /\ Len(new.items) = Len(record[r].items) + 1
        /\ \A i \in 1 .. Len(record[r].items) : new.items[i] = record[r].items[i]
        /\ new.items[Len(new.items)] = "pending"
    BY <1>1, BegunRecord
  <2> HIDE DEF new
  <2> QED BY <1>2, <2>1
<1>4. /\ stored' = [stored EXCEPT ![conv[r]] = Written(new)]
      /\ record' = [record EXCEPT ![r] = Written(new)]
  BY <1>2, <1>3 DEF begin_turn, save, copyAfter, Written
<1> HIDE DEF new
<1>5. /\ Written(new) \in Record /\ Written(new).status = new.status
      /\ Written(new).items = new.items /\ Written(new).version = new.version + 1
      /\ new.version \in Nat
  BY <1>3, WrittenRecord
<1>6. stored'[conv[r]] = Written(new)
  BY <1>1, <1>4
<1>7. /\ stored' \in [Conversations -> Record]
      /\ \A c \in Conversations \ {conv[r]} : stored'[c] = stored[c]
  BY <1>1, <1>4, <1>5
<1>8. /\ stored'[conv[r]].status = "running" /\ stored'[conv[r]].version = row.version + 1
      /\ row.version \in Nat /\ Len(row.items) \in Nat
      /\ stored'[conv[r]].items = new.items
      /\ record' = [record EXCEPT ![r] = stored'[conv[r]]]
  BY <1>3, <1>4, <1>5, <1>6
<1>9. /\ Len(stored'[conv[r]].items) = Len(row.items) + 1
      /\ \A i \in 1 .. Len(row.items) : stored'[conv[r]].items[i] = row.items[i]
      /\ stored'[conv[r]].items[Len(stored'[conv[r]].items)] = "pending"
  BY <1>3, <1>8
<1> QED BY <1>2, <1>7, <1>8, <1>9

LEMMA BeginTurnInv ==
  ASSUME IInv, NEW r \in Requests, begin_turn(r)
  PROVE  IInv'
<1> DEFINE row == stored[conv[r]]
           new == stored'[conv[r]]
<1>1. /\ stored' \in [Conversations -> Record]
      /\ \A c \in Conversations \ {conv[r]} : stored'[c] = stored[c]
      /\ record[r] = row /\ row.status # "running"
      /\ new.status = "running" /\ new.version = row.version + 1
      /\ row.version \in Nat /\ Len(row.items) \in Nat
      /\ Len(new.items) = Len(row.items) + 1
      /\ \A i \in 1 .. Len(row.items) : new.items[i] = row.items[i]
      /\ new.items[Len(new.items)] = "pending"
      /\ record' = [record EXCEPT ![r] = new]
  BY BeginEffect
<1>2. /\ phase' = [phase EXCEPT ![r] = "begun"]
      /\ UNCHANGED <<busy, active, deprived, conv, outcome>>
  BY DEF begin_turn, Go, slotVars
<1> HIDE DEF new
<1>3. new \in Record /\ conv[r] \in Conversations
  BY <1>1 DEF IInv, TypeOK, new
<1>4. TypeOK' /\ SlotsCounted' /\ Others(r)
  BY <1>1, <1>2, <1>3 DEF IInv, TypeOK, SlotsCounted, CountsAgree, Others, Phases
<1>5. stored'[conv[r]] = new /\ record'[r] = new /\ conv'[r] = conv[r] /\ Live(r)'
  BY <1>1, <1>2 DEF IInv, TypeOK, Live, new
<1>6. \A q \in Requests \ {r} : Live(q) => conv[q] # conv[r]
  BY <1>1 DEF IInv, RequestsSound, RequestSound
<1>7. ASSUME NEW q \in Requests \ {r} PROVE RequestSound(q)'
  <2>1. /\ RequestSound(q) /\ conv[q] \in Conversations /\ record[q] \in Record
        /\ phase'[q] = phase[q] /\ conv'[q] = conv[q] /\ record'[q] = record[q]
        /\ Live(q)' <=> Live(q)
    BY <1>4 DEF IInv, TypeOK, RequestsSound, Others, Live
  <2>2. CASE conv[q] # conv[r]
    BY <1>1, <2>1, <2>2 DEF RequestSound
  <2>3. CASE conv[q] = conv[r]
    BY <1>1, <1>5, <1>6, <2>1, <2>3 DEF RequestSound, Record
  <2> QED BY <2>2, <2>3
<1>8. RequestSound(r)'
  BY <1>1, <1>2, <1>3, <1>5 DEF RequestSound, Record, IInv, TypeOK
<1>9. RequestsSound'
  BY <1>7, <1>8 DEF RequestsSound
<1>10. \A q \in Requests \ {r} : Live(q)' <=> Live(q)
  BY <1>4 DEF Others, Live
<1>11. OneTurn'
  BY <1>4, <1>5, <1>6, <1>10 DEF IInv, OneTurn, Others
<1>12. RunningHasWriter'
  <2>1. ASSUME NEW c \in Conversations, c # conv[r]
        PROVE  stored'[c].status = "running" <=>
                 \E q \in Requests : Live(q)' /\ conv'[q] = c /\ record'[q] = stored'[c]
    BY <1>1, <1>4, <1>5, <1>10, <2>1 DEF IInv, RunningHasWriter, Others
  <2> QED BY <1>1, <1>5, <2>1 DEF RunningHasWriter
<1>13. RunningHasItem'
  BY <1>1, <1>3, <1>5, EmptySeq DEF IInv, RunningHasItem
<1>14. PendingWhileRunning'
  <2>1. \A i \in 1 .. Len(new.items) : new.items[i] = "pending" <=> i = Len(new.items)
    BY <1>1, <1>3 DEF IInv, PendingWhileRunning
  <2> QED BY <1>1, <1>5, <2>1 DEF IInv, PendingWhileRunning
<1> QED BY <1>4, <1>9, <1>11, <1>12, <1>13, <1>14 DEF IInv

-----------------------------------------------------------------------------
(* The stream. *)

\* A step of the response that neither begins nor finishes the turn.
LEMMA Moves ==
  ASSUME IInv, NEW r \in Requests, NEW place, Live(r), Go(r, place),
         place \in {"inside", "greeting", "sending", "failing", "orphan", "cut"},
         UNCHANGED <<stored, slotVars, conv, record>>,
         outcome' \in [Requests -> {"interrupted", "completed", "failed"}]
  PROVE  IInv'
<1>1. TypeOK' /\ SlotsCounted' /\ Others(r)
  BY DEF Go, IInv, TypeOK, SlotsCounted, CountsAgree, slotVars, Others, Phases
<1>2. Live(r)' /\ phase'[r] = place
  BY DEF Go, IInv, TypeOK, Live
<1>3. RequestSound(r)'
  BY <1>2 DEF IInv, RequestsSound, RequestSound, Live
<1> QED BY <1>1, <1>2, <1>3, NothingWritten

LEMMA StreamMovesInv ==
  ASSUME IInv, NEW r \in Requests,
         Start(r) \/ Yield(r) \/ Sent(r) \/ TurnComplete(r) \/ Fail(r) \/ Vanish(r)
  PROVE  IInv'
<1>1. outcome \in [Requests -> {"interrupted", "completed", "failed"}]
  BY DEF IInv, TypeOK
<1>2. CASE Start(r)
  BY <1>1, <1>2, Moves DEF Start, Live
<1>3. CASE Yield(r)
  BY <1>1, <1>3, Moves DEF Yield, Live
<1>4. CASE Sent(r)
  BY <1>1, <1>4, Moves DEF Sent, Live
<1>5. CASE TurnComplete(r)
  <2>1. Go(r, "inside")
    BY <1>5 DEF TurnComplete, Go, IInv, TypeOK
  <2> QED BY <1>1, <1>5, <2>1, Moves DEF TurnComplete, Live
<1>6. CASE Fail(r)
  BY <1>1, <1>6, Moves DEF Fail, Live
<1>7. CASE Vanish(r)
  BY <1>1, <1>7, Moves DEF Vanish, Live
<1> QED BY <1>2, <1>3, <1>4, <1>5, <1>6, <1>7

\* The turn is finished, the slot released, and the request is gone.
LEMMA FinishAndEnd ==
  ASSUME IInv, NEW r \in Requests, Live(r) \/ phase[r] = "lingering",
         NEW status \in Statuses \ {"running"}, NEW item \in Items \ {"pending"},
         finish_turn(r, status, item), release(r), End(r)
  PROVE  IInv'
<1>1. conv[r] \in Conversations
  BY DEF IInv, TypeOK
<1>2. TypeOK' /\ SlotsCounted'
  BY <1>1, Ended, Releases, FinishEffect DEF TypeOK
<1> QED BY <1>2, Ended, Finishes

LEMMA FinallyInv ==
  ASSUME IInv, NEW r \in Requests, Live(r) \/ phase[r] = "lingering",
         NEW item \in Items \ {"pending"}, Finally(r, item)
  PROVE  IInv'
<1>1. outcome[r] \in Statuses \ {"running"}
  BY DEF IInv, TypeOK, Statuses
<1> QED BY <1>1, FinishAndEnd DEF Finally

\* The background task: a generator that cannot be finalized is forgotten, any
\* other keeps a copy that does not run.
LEMMA BackgroundInv ==
  ASSUME IInv, NEW r \in Requests, Background(r)
  PROVE  IInv'
<1>1. "interrupted" \in Statuses \ {"running"} /\ "cut" \in Items \ {"pending"}
  BY DEF Statuses, Items
<1>2. Live(r) /\ finish_turn(r, "interrupted", "cut") /\ release(r)
  BY DEF Background, Live
<1>3. CASE phase[r] = "cut"
  BY <1>1, <1>2, <1>3, FinishAndEnd DEF Background
<1>4. CASE phase[r] # "cut"
  <2> DEFINE new == settled(record[r], "interrupted", "cut")
  <2>1. /\ conv[r] \in Conversations /\ record[r] \in Record /\ RequestSound(r)
        /\ record[r] = stored[conv[r]] /\ record[r].items # <<>>
    BY <1>2 DEF IInv, TypeOK, RequestsSound, RequestSound, RunningHasItem
  <2>2. /\ new \in Record /\ new.status = "interrupted"
        /\ new.version = record[r].version /\ new.items # <<>>
    <3>1. /\ new \in Record /\ new.status = "interrupted"
          /\ new.version = record[r].version
          /\ Len(new.items) = Len(record[r].items) /\ Len(record[r].items) \in Nat \ {0}
      BY <1>1, <2>1, SettledRecord
    <3> HIDE DEF new
    <3> QED BY <3>1, EmptySeq
  <2>3. /\ stored' \in [Conversations -> Record]
        /\ stored'[conv[r]] = Written(new)
    BY <1>1, <1>2, <2>1, FinishEffect
  <2>4. /\ record' = [record EXCEPT ![r] = Written(new)]
        /\ phase' = [phase EXCEPT ![r] = "lingering"]
        /\ UNCHANGED <<conv, outcome>>
    BY <1>4, <2>1, <2>2 DEF Background, copyAfter, Written, Go
  <2> HIDE DEF new
  <2>5. /\ Written(new) \in Record /\ Written(new).status = "interrupted"
        /\ Written(new).items # <<>>
    BY <2>2, WrittenRecord
  <2>6. TypeOK' /\ SlotsCounted' /\ Others(r)
    BY <1>2, <2>1, <2>3, <2>4, <2>5, Releases DEF IInv, TypeOK, Phases, Others
  <2>7. phase'[r] = "lingering" /\ record'[r] = Written(new) /\ conv'[r] = conv[r]
    BY <2>4 DEF IInv, TypeOK
  <2>8. ~Live(r)'
    BY <2>7 DEF Live
  <2>9. RequestSound(r)'
    BY <2>3, <2>5, <2>7, <2>8 DEF RequestSound, Record
  <2> QED BY <1>1, <1>2, <2>6, <2>8, <2>9, Finishes
<1> QED BY <1>3, <1>4

LEMMA StreamInv ==
  ASSUME IInv, NEW r \in Requests, Stream(r)
  PROVE  IInv'
<1>1. /\ "answered" \in Items \ {"pending"} /\ "cut" \in Items \ {"pending"}
      /\ "interrupted" \in Statuses \ {"running"}
  BY DEF Items, Statuses
<1>2. CASE StreamEnds(r)
  BY <1>1, <1>2, FinallyInv DEF StreamEnds, Live
<1>3. CASE FailureSent(r) \/ Disconnected(r) \/ Finalized(r)
  BY <1>1, <1>3, FinallyInv DEF FailureSent, Disconnected, Finalized, Live
<1>4. CASE NeverStarted(r)
  BY <1>1, <1>4, FinishAndEnd DEF NeverStarted, Live
<1> QED BY <1>2, <1>3, <1>4, StreamMovesInv, BackgroundInv DEF Stream

\* A new process: every running turn becomes an interrupted one, and there is
\* nobody any more who could write.
LEMMA RestartEffect ==
  ASSUME IInv, Restart, NEW c \in Conversations
  PROVE  /\ stored'[c] \in Record /\ stored'[c].status # "running"
         /\ \/ stored'[c] = stored[c]
            \/ /\ stored[c].items # <<>>
               /\ Len(stored'[c].items) = Len(stored[c].items)
               /\ \A i \in 1 .. Len(stored[c].items) : stored'[c].items[i] =
                    IF i = Len(stored[c].items) THEN "cut" ELSE stored[c].items[i]
<1>1. stored[c] \in Record
  BY DEF IInv, TypeOK
<1>2. CASE stored[c].status # "running"
  BY <1>1, <1>2 DEF Restart
<1>3. CASE stored[c].status = "running"
  <2> DEFINE new == settled(stored[c], "interrupted", "cut")
  <2>1. "interrupted" \in Statuses /\ "cut" \in Items /\ stored[c].items # <<>>
    BY <1>3 DEF Statuses, Items, IInv, RunningHasItem
  <2>2. /\ new \in Record /\ new.status = "interrupted"
        /\ Len(new.items) = Len(stored[c].items)
        /\ \A i \in 1 .. Len(stored[c].items) :
             new.items[i] = IF i = Len(stored[c].items) THEN "cut" ELSE stored[c].items[i]
    BY <1>1, <2>1, SettledRecord
  <2>3. stored'[c] = Written(new)
    BY <1>3 DEF Restart, Written
  <2> HIDE DEF new
  <2>4. /\ Written(new) \in Record /\ Written(new).status = "interrupted"
        /\ Written(new).items = new.items
    BY <2>2, WrittenRecord
  <2> QED BY <2>1, <2>2, <2>3, <2>4
<1> QED BY <1>2, <1>3

LEMMA RestartInv ==
  ASSUME IInv, Restart
  PROVE  IInv'
<1>1. blank \in Record /\ nobody \in Conversations
  BY EmptySeq, TurnsAssumption DEF blank, Record, Statuses, nobody
<1>2. stored' \in [Conversations -> Record]
  <2>1. \A c \in Conversations : stored'[c] \in Record
    BY RestartEffect
  <2>2. stored' = [c \in Conversations |-> stored'[c]]
    BY DEF Restart
  <2> QED BY <2>1, <2>2
<1>3. TypeOK'
  BY <1>1, <1>2 DEF Restart, TypeOK, Phases
<1>4. SlotsCounted'
  <2>1. Cardinality({}) = 0 /\ \A o \in Owners : {c \in busy' : OwnerOf[c] = o} = {}
    BY FS_EmptySet DEF Restart
  <2> QED BY <2>1, TurnsAssumption DEF SlotsCounted, CountsAgree, Restart
<1>5. \A r \in Requests : phase'[r] = "none"
  BY DEF Restart
<1>6. \A c \in Conversations : stored'[c].status # "running"
  BY RestartEffect
<1>7. RequestsSound' /\ RunningHasItem' /\ OneTurn' /\ RunningHasWriter'
  BY <1>5, <1>6
  DEF RequestsSound, RequestSound, Live, RunningHasItem, OneTurn, RunningHasWriter
<1>8. ASSUME NEW c \in Conversations, NEW i \in 1 .. Len(stored'[c].items)
      PROVE  stored'[c].items[i] # "pending"
  <2>1. stored[c] \in Record /\ stored[c].items \in Seq(Items)
    BY DEF IInv, TypeOK, Record
  <2>2. Len(stored[c].items) \in Nat
    BY <2>1, LenProperties
  <2> QED BY <1>6, <2>1, <2>2, RestartEffect DEF IInv, PendingWhileRunning
<1>9. PendingWhileRunning'
  BY <1>6, <1>8 DEF PendingWhileRunning
<1> QED BY <1>3, <1>4, <1>7, <1>9 DEF IInv

LEMMA Inductive ==
  ASSUME IInv, [Next]_vars
  PROVE  IInv'
<1>1. CASE Next
  BY <1>1, LoadInv, AcquireInv, RefusedInv, BeginTurnInv, NotBegunInv, StreamInv,
     RestartInv
  DEF Next
<1>2. CASE UNCHANGED vars
  <2> USE <1>2 DEF vars, slotVars, requestVars
  <2>1. TypeOK' /\ SlotsCounted' /\ RequestsSound' /\ RunningHasItem'
    BY DEF IInv, TypeOK, SlotsCounted, CountsAgree, RequestsSound, RequestSound, Live, RunningHasItem
  <2>2. OneTurn' /\ RunningHasWriter' /\ PendingWhileRunning'
    BY DEF IInv, OneTurn, RunningHasWriter, PendingWhileRunning, Live
  <2> QED BY <2>1, <2>2 DEF IInv
<1> QED BY <1>1, <1>2

LEMMA Invariant == Spec => []IInv
BY InitInv, Inductive, PTL DEF Spec

-----------------------------------------------------------------------------
(* Who holds the slots. *)

\* A task that has not been deprived of its slot is the only such task in its
\* conversation, which is occupied.
SlotsHeld ==
  /\ deprived \subseteq {r \in Requests : Occupies(r)}
  /\ \A r \in Counted : conv[r] \in busy
  /\ \A r, q \in Counted : conv[r] = conv[q] => r = q

LimitsKept ==
  /\ CountsAgree
  /\ Cardinality(Counted) <= MaxActive
  /\ \A o \in Owners : Cardinality(CountedOf(o)) <= MaxUser

LostToLingering ==
  (deprived = {} /\ deprived' # {}) =>
    \E r \in Requests : phase[r] = "lingering" /\ phase'[r] = "none"

\* So there are no more such tasks than occupied conversations.
LEMMA CountedFit ==
  ASSUME IInv, SlotsHeld
  PROVE  /\ Cardinality(Counted) <= MaxActive
         /\ \A o \in Owners : Cardinality(CountedOf(o)) <= MaxUser
<1>1. IsFiniteSet(busy)
  BY FS_Subset, TurnsAssumption DEF IInv, TypeOK
<1>2. ASSUME NEW R \in SUBSET Counted, NEW B \in SUBSET busy, \A r \in R : conv[r] \in B
      PROVE  /\ IsFiniteSet(R) /\ IsFiniteSet(B)
             /\ Cardinality(R) <= Cardinality(B)
             /\ Cardinality(R) \in Nat /\ Cardinality(B) \in Nat
  <2>1. IsFiniteSet(B)
    BY <1>1, FS_Subset
  <2> DEFINE f == [r \in R |-> conv[r]]
  <2>2. f \in Injection(R, B)
    <3>1. f \in [R -> B]
      BY <1>2
    <3>2. \A r, q \in R : f[r] = f[q] => r = q
      BY DEF SlotsHeld
    <3> QED BY <3>1, <3>2 DEF Injection, IsInjective
  <2> HIDE DEF f
  <2>3. IsFiniteSet(R) /\ Cardinality(R) <= Cardinality(B)
    BY <2>1, <2>2, FS_Injection
  <2> QED BY <2>1, <2>3, FS_CardinalityType
<1>3. Cardinality(Counted) <= MaxActive
  <2>1. /\ Cardinality(Counted) <= Cardinality(busy)
        /\ Cardinality(Counted) \in Nat /\ Cardinality(busy) \in Nat
    BY <1>2 DEF SlotsHeld
  <2> QED BY <2>1, TurnsAssumption DEF IInv, SlotsCounted
<1>4. ASSUME NEW o \in Owners
      PROVE  Cardinality(CountedOf(o)) <= MaxUser
  <2> DEFINE R == CountedOf(o)
             B == {c \in busy : OwnerOf[c] = o}
  <2>1. R \in SUBSET Counted /\ B \in SUBSET busy /\ \A r \in R : conv[r] \in B
    BY DEF CountedOf, SlotsHeld
  <2>2. Cardinality(B) <= MaxUser
    BY DEF IInv, SlotsCounted, CountsAgree
  <2> HIDE DEF R, B
  <2>3. /\ Cardinality(R) <= Cardinality(B)
        /\ Cardinality(R) \in Nat /\ Cardinality(B) \in Nat
    BY <1>2, <2>1
  <2>4. Cardinality(R) <= MaxUser
    BY <2>2, <2>3, TurnsAssumption
  <2> QED BY <2>4 DEF R
<1> QED BY <1>3, <1>4

\* Nobody is admitted and nobody gives a conversation back.
LEMMA HeldOn ==
  ASSUME SlotsHeld, UNCHANGED slotVars,
         \A q \in Requests : /\ Occupies(q)' <=> Occupies(q)
                             /\ Occupies(q) => conv'[q] = conv[q]
  PROVE  SlotsHeld' /\ LostToLingering
<1>1. Counted' = Counted
  BY DEF Counted, slotVars
<1>2. \A q \in Counted : conv'[q] = conv[q]
  BY DEF Counted
<1>3. \A r \in deprived' : r \in Requests /\ Occupies(r)'
  BY DEF SlotsHeld, slotVars
<1> QED BY <1>1, <1>2, <1>3 DEF SlotsHeld, LostToLingering, slotVars

LEMMA HeldAfterAcquire ==
  ASSUME IInv, SlotsHeld, NEW r \in Requests, acquire(r)
  PROVE  SlotsHeld' /\ LostToLingering
<1>1. /\ phase[r] = "loaded" /\ conv[r] \notin busy /\ busy' = busy \cup {conv[r]}
      /\ phase' = [phase EXCEPT ![r] = "acquired"] /\ UNCHANGED <<deprived, conv>>
  BY DEF acquire, Go
<1>2. ~Occupies(r) /\ Occupies(r)' /\ \A q \in Requests \ {r} : Occupies(q)' <=> Occupies(q)
  BY <1>1 DEF Occupies, IInv, TypeOK
<1>3. r \notin deprived
  BY <1>2 DEF SlotsHeld
<1>4. Counted' = Counted \cup {r}
  BY <1>1, <1>2, <1>3 DEF Counted
<1>5. \A q \in Counted : conv[q] # conv[r]
  BY <1>1 DEF SlotsHeld
<1>6. \A q \in deprived : q \in Requests /\ Occupies(q)'
  BY <1>2, <1>3 DEF SlotsHeld
<1> QED BY <1>1, <1>4, <1>5, <1>6 DEF SlotsHeld, LostToLingering

\* A request that gives its conversation back while its slot is its own takes it
\* from nobody; so the first to take one has none any more.
LEMMA HeldAfterRelease ==
  ASSUME IInv, SlotsHeld, NEW r \in Requests, release(r), Others(r), ~Occupies(r)',
         Occupies(r) \/ (phase[r] = "lingering" /\ phase'[r] = "none")
  PROVE  SlotsHeld' /\ LostToLingering
<1> DEFINE c == conv[r]
           under == {q \in Requests : Occupies(q) /\ conv[q] = c}
<1>1. busy' = busy \ {c} /\ deprived' = (deprived \cup under) \ {r}
  BY DEF release
<1>2. \A q \in Requests \ {r} : (Occupies(q)' <=> Occupies(q)) /\ conv'[q] = conv[q]
  BY DEF Others, Occupies
<1>3. \A q \in Counted' : q \in Counted /\ q # r /\ conv'[q] = conv[q] /\ conv[q] # c
  BY <1>1, <1>2 DEF Counted
<1>4. \A q \in deprived' : q \in Requests /\ Occupies(q)'
  BY <1>1, <1>2 DEF SlotsHeld
<1>5. SlotsHeld'
  BY <1>1, <1>3, <1>4 DEF SlotsHeld
<1>6. LostToLingering
  <2>1. CASE phase[r] = "lingering" /\ phase'[r] = "none"
    BY <2>1 DEF LostToLingering
  <2>2. CASE Occupies(r) /\ deprived = {}
    <3>1. under \subseteq {r}
      BY <2>2 DEF SlotsHeld, Counted
    <3> QED BY <1>1, <2>2, <3>1 DEF LostToLingering
  <2> QED BY <2>1, <2>2 DEF LostToLingering
<1> QED BY <1>5, <1>6

LEMMA StreamHeld ==
  ASSUME IInv, SlotsHeld, NEW r \in Requests, Stream(r)
  PROVE  SlotsHeld' /\ LostToLingering
<1>1. CASE Start(r) \/ Yield(r) \/ Sent(r) \/ TurnComplete(r) \/ Fail(r) \/ Vanish(r)
  <2>1. /\ UNCHANGED slotVars /\ UNCHANGED conv
        /\ \A q \in Requests : Occupies(q)' <=> Occupies(q)
    BY <1>1 DEF Start, Yield, Sent, TurnComplete, Fail, Vanish, Go, Occupies, IInv, TypeOK
  <2> QED BY <2>1, HeldOn
<1>2. CASE StreamEnds(r) \/ FailureSent(r) \/ Disconnected(r) \/ NeverStarted(r) \/ Finalized(r)
  <2>1. release(r) /\ End(r) /\ Others(r)
    BY <1>2, Ended
    DEF StreamEnds, FailureSent, Disconnected, NeverStarted, Finalized, Finally
  <2>2. phase'[r] = "none" /\ ~Occupies(r)'
    BY <2>1 DEF End, Occupies, IInv, TypeOK
  <2>3. Occupies(r) \/ phase[r] = "lingering"
    BY <1>2 DEF StreamEnds, FailureSent, Disconnected, NeverStarted, Finalized, Occupies
  <2> QED BY <2>1, <2>2, <2>3, HeldAfterRelease
<1>3. CASE Background(r)
  <2>1. release(r) /\ Occupies(r)
    BY <1>3 DEF Background, Occupies
  <2>2. CASE phase[r] = "cut"
    <3>1. End(r) /\ Others(r) /\ ~Occupies(r)'
      BY <1>3, <2>2, Ended DEF Background, End, Occupies, IInv, TypeOK
    <3> QED BY <2>1, <3>1, HeldAfterRelease
  <2>3. CASE phase[r] # "cut"
    <3>1. Others(r) /\ ~Occupies(r)'
      BY <1>3, <2>3 DEF Background, Go, Others, Occupies, IInv, TypeOK
    <3> QED BY <2>1, <3>1, HeldAfterRelease
  <2> QED BY <2>2, <2>3
<1> QED BY <1>1, <1>2, <1>3 DEF Stream

LEMMA StepHeld ==
  ASSUME IInv, SlotsHeld, [Next]_vars
  PROVE  SlotsHeld' /\ LostToLingering
<1>1. ASSUME NEW r \in Requests, NEW c \in Conversations, Load(r, c)
      PROVE  SlotsHeld' /\ LostToLingering
  <2>1. /\ UNCHANGED slotVars
        /\ \A q \in Requests : /\ Occupies(q)' <=> Occupies(q)
                               /\ Occupies(q) => conv'[q] = conv[q]
    BY <1>1 DEF Load, Go, Occupies, IInv, TypeOK
  <2> QED BY <2>1, HeldOn
<1>2. ASSUME NEW r \in Requests, Refused(r)
      PROVE  SlotsHeld' /\ LostToLingering
  <2>1. /\ UNCHANGED slotVars
        /\ \A q \in Requests : /\ Occupies(q)' <=> Occupies(q)
                               /\ Occupies(q) => conv'[q] = conv[q]
    BY <1>2 DEF Refused, End, Occupies, IInv, TypeOK
  <2> QED BY <2>1, HeldOn
<1>3. ASSUME NEW r \in Requests, begin_turn(r)
      PROVE  SlotsHeld' /\ LostToLingering
  <2>1. /\ UNCHANGED slotVars /\ UNCHANGED conv
        /\ \A q \in Requests : Occupies(q)' <=> Occupies(q)
    BY <1>3 DEF begin_turn, Go, Occupies, IInv, TypeOK
  <2> QED BY <2>1, HeldOn
<1>4. ASSUME NEW r \in Requests, NotBegun(r)
      PROVE  SlotsHeld' /\ LostToLingering
  <2>1. release(r) /\ End(r) /\ Others(r) /\ Occupies(r)
    BY <1>4, Ended DEF NotBegun, Occupies
  <2>2. ~Occupies(r)'
    BY <2>1 DEF End, Occupies, IInv, TypeOK
  <2> QED BY <2>1, <2>2, HeldAfterRelease
<1>5. CASE Restart
  BY <1>5 DEF Restart, SlotsHeld, Counted, Occupies, LostToLingering
<1>6. CASE UNCHANGED vars
  <2>1. /\ UNCHANGED slotVars /\ UNCHANGED conv
        /\ \A q \in Requests : Occupies(q)' <=> Occupies(q)
    BY <1>6 DEF vars, requestVars, Occupies
  <2> QED BY <2>1, HeldOn
<1> QED BY <1>1, <1>2, <1>3, <1>4, <1>5, <1>6, HeldAfterAcquire, StreamHeld DEF Next

LEMMA HeldInvariant == Spec => []SlotsHeld
<1>1. Init => SlotsHeld
  BY DEF Init, SlotsHeld, Counted, Occupies
<1>2. IInv /\ SlotsHeld /\ [Next]_vars => SlotsHeld'
  BY StepHeld
<1> QED BY <1>1, <1>2, Invariant, PTL DEF Spec

-----------------------------------------------------------------------------
(* What is stored of earlier turns. *)

ItemsKept(c) ==
  LET old == stored[c].items  new == stored'[c].items IN
    /\ Len(new) \in {Len(old), Len(old) + 1}
    /\ \A i \in 1 .. Len(old) :
         /\ i < Len(new) => new[i] = old[i]
         /\ new[i] = "pending" => old[i] = "pending"

LEMMA FinishKeepsItems ==
  ASSUME IInv, NEW r \in Requests, Live(r) \/ phase[r] = "lingering",
         NEW status \in Statuses \ {"running"}, NEW item \in Items \ {"pending"},
         finish_turn(r, status, item), NEW c \in Conversations
  PROVE  ItemsKept(c)
<1>1. CASE stored'[c] = stored[c]
  BY <1>1 DEF ItemsKept
<1>2. CASE stored'[c] # stored[c]
  <2> DEFINE new == settled(stored[c], status, item)
  <2>1. stored'[c] = Written(new) /\ stored[c].items # <<>>
    BY <1>2, FinishEffect
  <2>2. stored[c] \in Record
    BY DEF IInv, TypeOK
  <2>3. /\ new \in Record
        /\ Len(new.items) = Len(stored[c].items) /\ Len(stored[c].items) \in Nat \ {0}
        /\ \A i \in 1 .. Len(stored[c].items) :
             new.items[i] = IF i = Len(stored[c].items) THEN item ELSE stored[c].items[i]
    BY <2>1, <2>2, SettledRecord
  <2> HIDE DEF new
  <2>4. stored'[c].items = new.items
    BY <2>1, <2>3, WrittenRecord
  <2> QED BY <2>3, <2>4 DEF ItemsKept
<1> QED BY <1>1, <1>2

LEMMA StepKeepsItems ==
  ASSUME IInv, [Next]_vars, NEW c \in Conversations
  PROVE  ItemsKept(c)
<1>1. CASE UNCHANGED stored
  BY <1>1 DEF ItemsKept
<1>2. ASSUME NEW r \in Requests, begin_turn(r) PROVE ItemsKept(c)
  BY <1>2, BeginEffect DEF ItemsKept
<1>3. ASSUME NEW r \in Requests, Stream(r), stored' # stored PROVE ItemsKept(c)
  <2>1. /\ "answered" \in Items \ {"pending"} /\ "cut" \in Items \ {"pending"}
        /\ "interrupted" \in Statuses \ {"running"} /\ outcome[r] \in Statuses \ {"running"}
    BY DEF IInv, TypeOK, Items, Statuses
  <2>2. CASE StreamEnds(r)
    BY <2>1, <2>2, FinishKeepsItems DEF StreamEnds, Finally, Live
  <2>3. CASE FailureSent(r) \/ Disconnected(r) \/ Finalized(r)
    BY <2>1, <2>3, FinishKeepsItems DEF FailureSent, Disconnected, Finalized, Finally, Live
  <2>4. CASE NeverStarted(r) \/ Background(r)
    BY <2>1, <2>4, FinishKeepsItems DEF NeverStarted, Background, Live
  <2>5. CASE Start(r) \/ Yield(r) \/ Sent(r) \/ TurnComplete(r) \/ Fail(r) \/ Vanish(r)
    BY <1>3, <2>5 DEF Start, Yield, Sent, TurnComplete, Fail, Vanish
  <2> QED BY <1>3, <2>2, <2>3, <2>4, <2>5 DEF Stream
<1>4. CASE Restart
  <2>1. stored[c].items \in Seq(Items)
    BY DEF IInv, TypeOK, Record
  <2>2. Len(stored[c].items) \in Nat
    BY <2>1, LenProperties
  <2> QED BY <1>4, <2>2, RestartEffect DEF ItemsKept
<1> QED BY <1>1, <1>2, <1>3, <1>4
  DEF Next, Load, acquire, Refused, NotBegun, vars

-----------------------------------------------------------------------------
(* What a request will record of its turn. *)

\* A generator that has failed can only record that, and one that is suspended
\* where it yielded first, or its error, never that the turn is completed.  What a
\* lingering one would write again is the interruption its background task wrote.
OutcomeFits(r) ==
  /\ phase[r] \in {"none", "loaded", "acquired", "begun", "greeting"} =>
       outcome[r] = "interrupted"
  /\ phase[r] \in {"inside", "sending"} => outcome[r] # "failed"
  /\ phase[r] = "failing" => outcome[r] = "failed"
  /\ phase[r] \in {"orphan", "lingering"} => outcome[r] # "completed"
  /\ phase[r] = "lingering" =>
       /\ record[r].status = "interrupted"
       /\ record[r].items[Len(record[r].items)] = "cut"

OutcomesFit == \A r \in Requests : OutcomeFits(r)

LEMMA OthersFit ==
  ASSUME OutcomesFit, NEW r \in Requests, Others(r),
         \A q \in Requests \ {r} : outcome'[q] = outcome[q],
         OutcomeFits(r)'
  PROVE  OutcomesFit'
BY DEF OutcomesFit, OutcomeFits, Others

LEMMA BackgroundFits ==
  ASSUME IInv, OutcomesFit, NEW r \in Requests, Background(r)
  PROVE  OutcomesFit'
<1>1. CASE phase[r] = "cut"
  <2>1. End(r)
    BY <1>1 DEF Background
  <2> QED BY <2>1, OthersFit DEF End, Others, OutcomeFits, IInv, TypeOK
<1>2. CASE phase[r] # "cut"
  <2> DEFINE new == settled(record[r], "interrupted", "cut")
  <2>1. Live(r) /\ record[r] \in Record /\ conv[r] \in Conversations /\ RequestSound(r)
        /\ "interrupted" \in Statuses /\ "cut" \in Items
    BY DEF Background, Live, IInv, TypeOK, RequestsSound, Statuses, Items
  <2>2. record[r].items # <<>>
    BY <2>1 DEF RequestSound, IInv, RunningHasItem
  <2>3. /\ new \in Record /\ new.status = "interrupted"
        /\ Len(new.items) = Len(record[r].items) /\ Len(record[r].items) \in Nat \ {0}
        /\ \A i \in 1 .. Len(record[r].items) :
             new.items[i] = IF i = Len(record[r].items) THEN "cut" ELSE record[r].items[i]
    BY <2>1, <2>2, SettledRecord
  <2>4. /\ phase' = [phase EXCEPT ![r] = "lingering"]
        /\ record' = [record EXCEPT ![r] = copyAfter(r, new)]
        /\ UNCHANGED <<conv, outcome>> /\ phase[r] = "orphan"
    BY <1>2 DEF Background, Go
  <2> HIDE DEF new
  <2>5. new.items[Len(new.items)] = "cut"
    BY <2>3
  <2>6. copyAfter(r, new) \in {new, Written(new)}
    BY DEF copyAfter, Written
  <2>7. Written(new).status = new.status /\ Written(new).items = new.items
    BY <2>3, WrittenRecord
  <2>8. record'[r].status = "interrupted" /\ record'[r].items = new.items
    BY <2>3, <2>4, <2>6, <2>7 DEF IInv, TypeOK
  <2>9. phase'[r] = "lingering" /\ outcome'[r] # "completed"
    BY <2>4 DEF IInv, TypeOK, OutcomesFit, OutcomeFits
  <2>10. OutcomeFits(r)'
    BY <2>5, <2>8, <2>9 DEF OutcomeFits
  <2>11. Others(r)
    BY <2>4 DEF Others
  <2> QED BY <2>4, <2>10, <2>11, OthersFit
<1> QED BY <1>1, <1>2

LEMMA StepFits ==
  ASSUME IInv, OutcomesFit, [Next]_vars
  PROVE  OutcomesFit'
<1> USE DEF Go
<1>1. ASSUME NEW r \in Requests, End(r) PROVE OutcomesFit'
  BY <1>1, OthersFit DEF End, Others, OutcomeFits, IInv, TypeOK
<1>2. ASSUME NEW r \in Requests, NEW c \in Conversations, Load(r, c) PROVE OutcomesFit'
  BY <1>2, OthersFit DEF Load, Others, OutcomesFit, OutcomeFits, IInv, TypeOK
<1>3. ASSUME NEW r \in Requests, acquire(r) PROVE OutcomesFit'
  BY <1>3, OthersFit DEF acquire, Others, OutcomesFit, OutcomeFits, IInv, TypeOK
<1>4. ASSUME NEW r \in Requests, begin_turn(r) PROVE OutcomesFit'
  <2>1. /\ phase' = [phase EXCEPT ![r] = "begun"] /\ UNCHANGED <<conv, outcome>>
        /\ \A q \in Requests \ {r} : record'[q] = record[q]
    BY <1>4 DEF begin_turn, IInv, TypeOK
  <2>2. phase[r] = "acquired"
    BY <1>4 DEF begin_turn
  <2> QED BY <2>1, <2>2, OthersFit DEF Others, OutcomesFit, OutcomeFits, IInv, TypeOK
<1>5. ASSUME NEW r \in Requests,
             Start(r) \/ Yield(r) \/ Sent(r) \/ TurnComplete(r) \/ Fail(r) \/ Vanish(r)
      PROVE  OutcomesFit'
  BY <1>5, OthersFit DEF Start, Yield, Sent, TurnComplete, Fail, Vanish, Others, OutcomesFit,
     OutcomeFits, IInv, TypeOK
<1>6. ASSUME NEW r \in Requests, Stream(r) PROVE OutcomesFit'
  BY <1>1, <1>5, <1>6, BackgroundFits
  DEF Stream, StreamEnds, FailureSent, Disconnected, NeverStarted, Finalized, Finally
<1>7. CASE Restart
  BY <1>7 DEF Restart, OutcomesFit, OutcomeFits
<1>8. CASE UNCHANGED vars
  BY <1>8 DEF vars, requestVars, OutcomesFit, OutcomeFits
<1> QED BY <1>1, <1>2, <1>3, <1>4, <1>6, <1>7, <1>8 DEF Next, Refused, NotBegun

LEMMA OutcomeInvariant == Spec => []OutcomesFit
<1>1. Init => OutcomesFit
  BY DEF Init, OutcomesFit, OutcomeFits
<1> QED BY <1>1, StepFits, Invariant, PTL DEF Spec

-----------------------------------------------------------------------------
(* ConversationTurns implements TurnHistory. *)

\* Who serves a conversation is known from its record.
LEMMA ServedRuns ==
  ASSUME IInv, NEW c \in Conversations
  PROVE  /\ Serving(c) = {} <=> stored[c].status # "running"
         /\ \A r \in Requests : Live(r) /\ conv[r] = c => Serving(c) = {r}
BY DEF IInv, RunningHasWriter, RequestsSound, RequestSound, OneTurn, Serving

LEMMA InitHistory == Init => History!Init
<1> SUFFICES ASSUME Init PROVE History!Init
  OBVIOUS
<1>1. \A c \in Conversations : Serving(c) = {}
  BY DEF Init, Serving, Live
<1> QED BY <1>1 DEF Init, History!Init, turnsOf, verdictOf, servingOf, blank

\* A step that writes nothing and neither begins nor ends a turn.
LEMMA NoHistory ==
  ASSUME NEW r \in Requests, Others(r), UNCHANGED stored,
         Live(r)' <=> Live(r), Live(r) => conv'[r] = conv[r]
  PROVE  UNCHANGED History!vars
<1>1. \A c \in Conversations : Serving(c)' = Serving(c)
  BY DEF Serving, Live, Others
<1> QED BY <1>1 DEF History!vars, turnsOf, verdictOf, servingOf

LEMMA BeginsTurn ==
  ASSUME IInv, NEW r \in Requests, begin_turn(r)
  PROVE  History!Begin(conv[r], r)
<1> DEFINE c == conv[r]
           row == stored[c]
           new == stored'[c]
<1>1. /\ stored' \in [Conversations -> Record]
      /\ \A d \in Conversations \ {c} : stored'[d] = stored[d]
      /\ row.status # "running" /\ new.status = "running"
      /\ Len(row.items) \in Nat /\ Len(new.items) = Len(row.items) + 1
      /\ \A i \in 1 .. Len(row.items) : new.items[i] = row.items[i]
      /\ new.items[Len(new.items)] = "pending"
  BY BeginEffect
<1>2. c \in Conversations /\ row \in Record /\ row.items \in Seq(Items) /\ "pending" \in Items
  BY DEF IInv, TypeOK, Record, Items
<1>3. new.items \in Seq(Items)
  BY <1>1, <1>2 DEF Record
<1> HIDE DEF c, row, new
<1>4. new.items = Append(row.items, "pending")
  <2>1. /\ Append(row.items, "pending") \in Seq(Items)
        /\ Len(Append(row.items, "pending")) = Len(row.items) + 1
        /\ Append(row.items, "pending")[Len(row.items) + 1] = "pending"
        /\ \A i \in 1 .. Len(row.items) : Append(row.items, "pending")[i] = row.items[i]
    BY <1>2, AppendProperties
  <2>2. \A i \in 1 .. Len(new.items) : new.items[i] = Append(row.items, "pending")[i]
    BY <1>1, <2>1
  <2> QED BY <1>1, <1>3, <2>1, <2>2, SeqEqual
<1>5. /\ phase' = [phase EXCEPT ![r] = "begun"] /\ UNCHANGED conv /\ phase[r] = "acquired"
  BY DEF begin_turn, Go
<1>6. \A q \in Requests : /\ Live(q)' <=> (Live(q) \/ q = r)
                          /\ q = r => ~Live(q)
  BY <1>5 DEF Live, IInv, TypeOK
<1>7. Serving(c) = {} /\ \A d \in Conversations : r \notin Serving(d)
  BY <1>1, <1>2, <1>6, ServedRuns DEF Serving, row
<1>8. \A d \in Conversations : Serving(d)' = IF d = c THEN {r} ELSE Serving(d)
  BY <1>5, <1>6, <1>7 DEF Serving, c
<1>9. turnsOf' = [turnsOf EXCEPT ![c] = Append(turnsOf[c], "pending")]
  BY <1>1, <1>2, <1>4 DEF turnsOf, row, new
<1>10. verdictOf' = [verdictOf EXCEPT ![c] = "running"]
  BY <1>1, <1>2 DEF verdictOf, new
<1>11. servingOf' = [servingOf EXCEPT ![c] = {r}]
  BY <1>2, <1>8 DEF servingOf
<1>12. servingOf[c] = {} /\ \A d \in Conversations : r \notin servingOf[d]
  BY <1>2, <1>7 DEF servingOf
<1> QED BY <1>9, <1>10, <1>11, <1>12 DEF History!Begin, c

\* Finishing a turn that is served settles it.
LEMMA SettlesTurn ==
  ASSUME IInv, NEW r \in Requests, Live(r),
         NEW status \in {"completed", "interrupted", "failed"},
         NEW item \in {"answered", "cut"}, status = "failed" => item = "cut",
         finish_turn(r, status, item), Others(r), ~Live(r)'
  PROVE  History!Settle(conv[r], item, status)
<1> DEFINE c == conv[r]
           row == stored[c]
           new == settled(row, status, item)
<1>1. /\ status \in Statuses \ {"running"} /\ item \in Items \ {"pending"}
      /\ status \in Statuses /\ item \in Items
  BY DEF Statuses, Items
<1>2. c \in Conversations /\ row \in Record /\ stored[c].status = "running"
  BY DEF IInv, TypeOK, RequestsSound, RequestSound
<1>3. /\ stored' \in [Conversations -> Record]
      /\ \A d \in Conversations \ {c} : stored'[d] = stored[d]
      /\ row.items # <<>> /\ stored'[c] = Written(new)
  BY <1>1, FinishEffect
<1>4. new \in Record /\ new.status = status
  BY <1>1, <1>2, <1>3, SettledRecord
<1>5. new.items = [row.items EXCEPT ![Len(row.items)] = item]
  BY <1>2 DEF settled, Record
<1> HIDE DEF c, row, new
<1>6. stored'[c].status = status
      /\ stored'[c].items = [row.items EXCEPT ![Len(row.items)] = item]
  BY <1>3, <1>4, <1>5, WrittenRecord
<1>7. Serving(c) = {r} /\ \A q \in Requests : Live(q)' <=> Live(q) /\ q # r
  BY <1>2, ServedRuns DEF Live, Others, c
<1>8. \A d \in Conversations : Serving(d)' = IF d = c THEN {} ELSE Serving(d)
  <2>1. \A q \in Requests \ {r} : conv'[q] = conv[q]
    BY DEF Others
  <2>2. Serving(c) = {q \in Requests : Live(q) /\ conv[q] = c} /\ conv[r] = c
    BY DEF Serving, c
  <2>3. ASSUME NEW d \in Conversations
        PROVE  Serving(d)' = {q \in Requests \ {r} : Live(q) /\ conv[q] = d}
    BY <1>7, <2>1 DEF Serving
  <2>4. ASSUME NEW d \in Conversations, d # c
        PROVE  Serving(d) = {q \in Requests \ {r} : Live(q) /\ conv[q] = d}
    BY <2>2, <2>4 DEF Serving
  <2>5. {q \in Requests \ {r} : Live(q) /\ conv[q] = c} = {}
    BY <1>7, <2>2
  <2> QED BY <2>3, <2>4, <2>5
<1>9. turnsOf' = [turnsOf EXCEPT ![c] = [turnsOf[c] EXCEPT ![Len(turnsOf[c])] = item]]
  BY <1>2, <1>3, <1>6 DEF turnsOf, row
<1>10. verdictOf' = [verdictOf EXCEPT ![c] = status]
  BY <1>2, <1>3, <1>6 DEF verdictOf
<1>11. servingOf' = [servingOf EXCEPT ![c] = {}] /\ servingOf[c] # {}
  BY <1>2, <1>7, <1>8 DEF servingOf
<1> QED BY <1>9, <1>10, <1>11 DEF History!Settle, History!Ended, c

\* A generator that is finalized late finds the turn of another, and writes nothing,
\* or its own, which it may find to have failed.
LEMMA FinalizedAmends ==
  ASSUME IInv, OutcomesFit, NEW r \in Requests, Finalized(r)
  PROVE  History!Amend(conv[r]) \/ UNCHANGED History!vars
<1> DEFINE c == conv[r]
           row == stored[c]
           new == settled(row, outcome[r], "cut")
<1>1. /\ phase[r] = "lingering" /\ finish_turn(r, outcome[r], "cut") /\ End(r)
      /\ outcome[r] \in {"interrupted", "failed"}
  BY DEF Finalized, Finally, OutcomesFit, OutcomeFits, IInv, TypeOK
<1>2. /\ outcome[r] \in Statuses \ {"running"} /\ "cut" \in Items \ {"pending"}
      /\ outcome[r] \in Statuses /\ "cut" \in Items
  BY <1>1 DEF Statuses, Items
<1>3. Others(r) /\ ~Live(r)' /\ ~Live(r)
  BY <1>1, Ended DEF Live
<1>4. CASE stored' = stored
  BY <1>3, <1>4, NoHistory
<1>5. CASE stored' # stored
  <2>1. c \in Conversations /\ row \in Record /\ row.items \in Seq(Items)
    BY DEF IInv, TypeOK, Record
  <2>2. /\ stored' \in [Conversations -> Record]
        /\ \A d \in Conversations \ {c} : stored'[d] = stored[d]
        /\ record[r] = row /\ row.items # <<>> /\ stored'[c] = Written(new)
    BY <1>1, <1>2, <1>5, FinishEffect
  <2>3. row.status = "interrupted" /\ row.items[Len(row.items)] = "cut"
    BY <1>1, <2>2 DEF OutcomesFit, OutcomeFits
  <2>4. /\ new \in Record /\ new.status = outcome[r]
        /\ Len(new.items) = Len(row.items)
        /\ \A i \in 1 .. Len(row.items) :
             new.items[i] = IF i = Len(row.items) THEN "cut" ELSE row.items[i]
    BY <1>2, <2>1, <2>2, SettledRecord
  <2> HIDE DEF c, row, new
  <2>5. new.items = row.items
    <3>1. new.items \in Seq(Items) /\ \A i \in 1 .. Len(row.items) : new.items[i] = row.items[i]
      BY <2>3, <2>4 DEF Record
    <3> QED BY <2>1, <2>4, <3>1, SeqEqual
  <2>6. stored'[c].status = outcome[r] /\ stored'[c].items = row.items
    BY <2>2, <2>4, <2>5, WrittenRecord
  <2>7. \A d \in Conversations : Serving(d)' = Serving(d)
    BY <1>3 DEF Serving, Others, Live
  <2>8. turnsOf' = turnsOf /\ servingOf' = servingOf
    BY <2>2, <2>6, <2>7 DEF turnsOf, servingOf, row
  <2>9. verdictOf' = [verdictOf EXCEPT ![c] = outcome[r]]
    BY <2>1, <2>2, <2>6 DEF verdictOf
  <2>10. /\ verdictOf[c] = "interrupted" /\ turnsOf[c][Len(turnsOf[c])] = "cut"
         /\ verdictOf = [verdictOf EXCEPT ![c] = "interrupted"]
    BY <2>1, <2>3 DEF verdictOf, turnsOf, row
  <2>11. CASE outcome[r] = "failed"
    BY <2>8, <2>9, <2>10, <2>11 DEF History!Amend, c
  <2>12. CASE outcome[r] = "interrupted"
    BY <2>8, <2>9, <2>10, <2>12 DEF History!vars
  <2> QED BY <1>1, <2>11, <2>12
<1> QED BY <1>4, <1>5

\* A new process settles every turn that runs.
LEMMA RestartStops ==
  ASSUME IInv, Restart
  PROVE  History!Stop
<1>1. ASSUME NEW c \in Conversations
      PROVE  /\ stored'[c].items = IF Serving(c) = {} THEN stored[c].items
                                   ELSE [stored[c].items EXCEPT ![Len(stored[c].items)] = "cut"]
             /\ stored'[c].status = IF Serving(c) = {} THEN stored[c].status ELSE "interrupted"
             /\ Serving(c)' = {}
  <2>1. stored[c] \in Record /\ "interrupted" \in Statuses /\ "cut" \in Items
    BY DEF IInv, TypeOK, Statuses, Items
  <2>2. Serving(c)' = {}
    BY DEF Restart, Serving, Live
  <2>3. CASE stored[c].status # "running"
    <3>1. stored'[c] = stored[c]
      BY <2>3 DEF Restart
    <3> QED BY <2>2, <2>3, <3>1, ServedRuns
  <2>4. CASE stored[c].status = "running"
    <3> DEFINE new == settled(stored[c], "interrupted", "cut")
    <3>1. stored[c].items # <<>> /\ stored'[c] = Written(new)
      BY <2>4 DEF Restart, Written, IInv, RunningHasItem
    <3>2. new \in Record /\ new.status = "interrupted"
      BY <2>1, <3>1, SettledRecord
    <3>3. new.items = [stored[c].items EXCEPT ![Len(stored[c].items)] = "cut"]
      BY <2>1 DEF settled, Record
    <3> HIDE DEF new
    <3>4. stored'[c].items = new.items /\ stored'[c].status = new.status
      BY <3>1, <3>2, WrittenRecord
    <3> QED BY <2>2, <2>4, <3>2, <3>3, <3>4, ServedRuns
  <2> QED BY <2>3, <2>4
<1>2. turnsOf' = [c \in Conversations |-> IF servingOf[c] = {} THEN turnsOf[c]
                    ELSE [turnsOf[c] EXCEPT ![Len(turnsOf[c])] = "cut"]]
  BY <1>1 DEF turnsOf, servingOf
<1>3. verdictOf' = [c \in Conversations |->
                      IF servingOf[c] = {} THEN verdictOf[c] ELSE "interrupted"]
  BY <1>1 DEF verdictOf, servingOf
<1>4. servingOf' = [c \in Conversations |-> {}]
  BY <1>1 DEF servingOf
<1> QED BY <1>2, <1>3, <1>4 DEF History!Stop, History!Ended

LEMMA StreamHistory ==
  ASSUME IInv, OutcomesFit, NEW r \in Requests, Stream(r)
  PROVE  [History!Next]_History!vars
<1>1. conv[r] \in Conversations /\ OutcomeFits(r)
      /\ outcome[r] \in {"interrupted", "completed", "failed"}
  BY DEF IInv, TypeOK, OutcomesFit
<1>2. CASE Start(r) \/ Yield(r) \/ Sent(r) \/ TurnComplete(r) \/ Fail(r) \/ Vanish(r)
  <2>1. Others(r) /\ Live(r) /\ Live(r)' /\ UNCHANGED <<stored, conv>>
    BY <1>2 DEF Start, Yield, Sent, TurnComplete, Fail, Vanish, Go, Live, Others, IInv, TypeOK
  <2> QED BY <2>1, NoHistory
<1>3. ASSUME NEW item \in {"answered", "cut"}, NEW status \in {"completed", "interrupted", "failed"},
             status = "failed" => item = "cut",
             Live(r), finish_turn(r, status, item), Others(r), ~Live(r)'
      PROVE  History!Next
  <2>1. History!Settle(conv[r], item, status)
    BY <1>3, SettlesTurn
  <2> QED BY <1>1, <2>1 DEF History!Next, History!Answers, History!Verdicts
<1>4. CASE StreamEnds(r)
  <2>1. phase[r] = "inside" /\ outcome[r] # "failed"
    BY <1>1, <1>4 DEF StreamEnds, OutcomeFits
  <2>2. Live(r) /\ finish_turn(r, outcome[r], "answered") /\ End(r)
    BY <1>4, <2>1 DEF StreamEnds, Finally, Live
  <2> QED BY <1>1, <1>3, <2>1, <2>2, Ended
<1>5. CASE FailureSent(r) \/ Disconnected(r)
  <2>1. Live(r) /\ finish_turn(r, outcome[r], "cut") /\ End(r)
    BY <1>5 DEF FailureSent, Disconnected, Finally, Live
  <2> QED BY <1>1, <1>3, <2>1, Ended
<1>6. CASE NeverStarted(r)
  <2>1. Live(r) /\ finish_turn(r, "interrupted", "cut") /\ End(r)
    BY <1>6 DEF NeverStarted, Live
  <2> QED BY <1>3, <2>1, Ended
<1>7. CASE Background(r)
  <2>1. Live(r) /\ finish_turn(r, "interrupted", "cut")
    BY <1>7 DEF Background, Live
  <2>2. Others(r) /\ ~Live(r)'
    <3>1. CASE phase[r] = "cut"
      BY <1>7, <3>1, Ended DEF Background
    <3>2. CASE phase[r] # "cut"
      BY <1>7, <3>2 DEF Background, Go, Others, Live, IInv, TypeOK
    <3> QED BY <3>1, <3>2
  <2> QED BY <1>3, <2>1, <2>2
<1>8. CASE Finalized(r)
  BY <1>1, <1>8, FinalizedAmends DEF History!Next
<1> QED BY <1>2, <1>4, <1>5, <1>6, <1>7, <1>8 DEF Stream

LEMMA StepHistory ==
  ASSUME IInv, OutcomesFit, [Next]_vars
  PROVE  [History!Next]_History!vars
<1>1. ASSUME NEW r \in Requests, NEW c \in Conversations, Load(r, c)
      PROVE  UNCHANGED History!vars
  <2>1. Others(r) /\ ~Live(r) /\ ~Live(r)' /\ UNCHANGED stored
    BY <1>1 DEF Load, Go, Live, Others, IInv, TypeOK
  <2> QED BY <2>1, NoHistory
<1>2. ASSUME NEW r \in Requests, acquire(r) \/ Refused(r) \/ NotBegun(r)
      PROVE  UNCHANGED History!vars
  <2>1. Others(r) /\ ~Live(r) /\ ~Live(r)' /\ UNCHANGED stored
    BY <1>2, Ended DEF acquire, Refused, NotBegun, Go, Live, Others, IInv, TypeOK
  <2> QED BY <2>1, NoHistory
<1>3. ASSUME NEW r \in Requests, begin_turn(r) PROVE History!Next
  <2>1. History!Begin(conv[r], r) /\ conv[r] \in Conversations
    BY <1>3, BeginsTurn DEF IInv, TypeOK
  <2> QED BY <2>1 DEF History!Next
<1>4. CASE Restart
  BY <1>4, RestartStops DEF History!Next
<1>5. CASE UNCHANGED vars
  <2>1. \A c \in Conversations : Serving(c)' = Serving(c)
    BY <1>5 DEF vars, requestVars, Serving, Live
  <2> QED BY <1>5, <2>1 DEF vars, History!vars, turnsOf, verdictOf, servingOf
<1> QED BY <1>1, <1>2, <1>3, <1>4, <1>5, StreamHistory DEF Next

-----------------------------------------------------------------------------
(* The properties. *)

\* Records, slots and requests stay within their types, whatever the number of
\* concurrent requests and of restarts.
THEOREM TypeCorrect == Spec => []TypeOK
<1>1. IInv => TypeOK
  BY DEF IInv
<1> QED BY <1>1, Invariant, PTL

\* No two requests ever work on unfinished turns of one conversation, although
\* slots are released by requests that no longer hold them (run_chat of app.py).
THEOREM OneTurnAtOnce == Spec => []OneTurn
<1>1. IInv => OneTurn
  BY DEF IInv
<1> QED BY <1>1, Invariant, PTL

\* A conversation is stored as running exactly while some request still works
\* on its turn and holds the current copy, so that its save (sessions.py) is not
\* refused as stale.
THEOREM RunningIsWritten == Spec => []RunningHasWriter
<1>1. IInv => RunningHasWriter
  BY DEF IInv
<1> QED BY <1>1, Invariant, PTL

\* An item is stored as pending exactly if it is the last of a running turn
\* (begin_turn, finish_turn and the start-up of sessions.py).
THEOREM PendingIsRunning == Spec => []PendingWhileRunning
<1>1. IInv => PendingWhileRunning
  BY DEF IInv
<1> QED BY <1>1, Invariant, PTL

\* The counters agree, the tasks that work on a slot of their own are within both
\* limits, and the first slot that anybody loses to another request goes to a lost
\* generator finalized late (acquire and release of app.py).
THEOREM LimitsHold == Spec => WithinLimits
<1>1. IInv /\ SlotsHeld => LimitsKept
  BY CountedFit DEF LimitsKept, IInv, SlotsCounted
<1>2. IInv /\ SlotsHeld /\ [Next]_vars => [LostToLingering]_vars
  BY StepHeld
<1>3. WithinLimits <=> []LimitsKept /\ [][LostToLingering]_vars
  BY DEF WithinLimits, LimitsKept, LostToLingering
<1> QED BY <1>1, <1>2, <1>3, Invariant, HeldInvariant, PTL DEF Spec

\* Every write of a record (save of sessions.py, and the update at start-up)
\* keeps the items of earlier turns and leaves none pending that was not.
THEOREM EarlierTurnsKept == Spec => HistoryKept
<1>1. IInv /\ [Next]_vars => [\A c \in Conversations : ItemsKept(c)]_vars
  BY StepKeepsItems
<1>2. HistoryKept <=> [][\A c \in Conversations : ItemsKept(c)]_vars
  BY DEF HistoryKept, ItemsKept
<1> QED BY <1>1, <1>2, Invariant, PTL DEF Spec

\* Requests, streams, background tasks and restarts together keep the promise of
\* TurnHistory: turns one after the other, each served by one request and settled
\* once, and no verdict that changes but the one of an interrupted turn that failed
\* (run_chat of app.py over sessions.py).
THEOREM ImplementsHistory == Spec => KeepsTurns
<1>1. Init => History!Init
  BY InitHistory
<1>2. IInv /\ OutcomesFit /\ [Next]_vars => [History!Next]_History!vars
  BY StepHistory
<1> QED BY <1>1, <1>2, Invariant, OutcomeInvariant, PTL DEF Spec, KeepsTurns, History!Spec
=============================================================================
