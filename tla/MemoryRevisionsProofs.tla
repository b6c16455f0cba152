----------------------- MODULE MemoryRevisionsProofs -----------------------
(***************************************************************************)
(* Proofs about MemoryRevisions for any number of turns, facts and changes.*)
(* The strengthening says that the stored generation counts the changes of *)
(* the user and that a turn holds the count of the moment it began.  Then  *)
(* about ModelCalls, the model calls of one turn, for any streams, calls   *)
(* beside them and limits.                                                 *)
(***************************************************************************)
EXTENDS MemoryRevisions, ModelCalls, SequenceTheorems, WellFoundedInduction, TLAPS

Counted ==
  /\ generation = changes
  /\ \A t \in Turns : started[t] = begun[t] /\ begun[t] <= changes
  /\ \A k \in FactKeys : touched[k] <= changes

IInv == TypeOK /\ Counted /\ NothingOutlivesAChange /\ RevokedOnlyByUser

\* A change of the user is counted, whichever keys it concerns.
LEMMA AdvanceCounts ==
  ASSUME IInv, NEW keys \in SUBSET FactKeys, Advance(keys)
  PROVE  /\ generation' = changes' /\ changes' = changes + 1
         /\ changes' \in 0..MaxChanges /\ generation' \in 0..MaxChanges
         /\ touched' \in [FactKeys -> 0..MaxChanges]
         /\ \A k \in FactKeys : touched'[k] <= changes'
         /\ \A k \in FactKeys \ keys : touched'[k] = touched[k]
         /\ UNCHANGED <<turnVars, begun>>
         /\ Counted'
         /\ RevokedOnlyByUser'
  <1> USE DEF IInv, TypeOK, Counted, Advance, turnVars
  <1>1. /\ generation' = changes' /\ changes' = changes + 1
        /\ changes' \in 0..MaxChanges /\ generation' \in 0..MaxChanges
    BY MemoryAssumption
  <1>2. touched' \in [FactKeys -> 0..MaxChanges]
    BY <1>1
  <1>3. \A k \in FactKeys : touched'[k] <= changes'
    BY <1>1
  <1>4. \A k \in FactKeys \ keys : touched'[k] = touched[k]
    OBVIOUS
  <1>5. Counted'
    BY <1>1, <1>3, MemoryAssumption
  <1>6. RevokedOnlyByUser'
    BY <1>1, MemoryAssumption DEF RevokedOnlyByUser
  <1> QED BY <1>1, <1>2, <1>3, <1>4, <1>5, <1>6

\* What a current turn writes was formed after every change made so far.
LEMMA UpsertIsCurrent ==
  ASSUME IInv, NEW t \in Turns, NEW keys \in SUBSET FactKeys, Current(t),
         upsert_facts(t, keys), UNCHANGED <<changes, touched, begun>>
  PROVE  /\ facts' \subseteq FactKeys
         /\ since' \in [FactKeys -> 0..MaxChanges]
         /\ NothingOutlivesAChange'
  <1> USE DEF IInv, TypeOK, Counted, Current, upsert_facts
  <1>1. begun[t] = changes
    OBVIOUS
  <1>2. /\ facts' \subseteq FactKeys
        /\ since' \in [FactKeys -> 0..MaxChanges]
    OBVIOUS
  <1>3. ASSUME NEW k \in FactKeys, k \in facts'
        PROVE  since'[k] >= touched'[k]
    <2>1. CASE k \in keys
      BY <1>1, <2>1, MemoryAssumption
    <2>2. CASE k \notin keys
      <3>1. k \in facts /\ since'[k] = since[k] /\ touched'[k] = touched[k]
        BY <1>3, <2>2
      <3> QED BY <3>1 DEF NothingOutlivesAChange
    <2> QED BY <2>1, <2>2
  <1>4. NothingOutlivesAChange'
    BY <1>2, <1>3 DEF NothingOutlivesAChange
  <1> QED BY <1>2, <1>4

LEMMA InitInv == Init => IInv
  BY MemoryAssumption
  DEF Init, IInv, TypeOK, Counted, NothingOutlivesAChange, RevokedOnlyByUser,
      Statuses

LEMMA TurnStepInv ==
  ASSUME IInv, NEW t \in Turns, TurnStep(t)
  PROVE  IInv'
  <1> USE DEF IInv, TypeOK, Counted, Statuses, storeVars, turnVars, historyVars
  <1>1. CASE Begin(t)
    <2> USE <1>1 DEF Begin
    <2>1. TypeOK'
      OBVIOUS
    <2>2. Counted'
      BY MemoryAssumption
    <2>3. NothingOutlivesAChange' /\ RevokedOnlyByUser'
      BY DEF NothingOutlivesAChange, RevokedOnlyByUser
    <2> QED BY <2>1, <2>2, <2>3
  <1>2. CASE SaveTool(t)
    <2> USE <1>2 DEF SaveTool
    <2>1. PICK k \in FactKeys : upsert_facts(t, {k})
      OBVIOUS
    <2>2. facts' \subseteq FactKeys /\ since' \in [FactKeys -> 0..MaxChanges]
          /\ NothingOutlivesAChange'
      BY <2>1, UpsertIsCurrent
    <2>3. generation' = generation
      BY <2>1 DEF upsert_facts
    <2>4. TypeOK'
      BY <2>2, <2>3
    <2>5. Counted'
      BY <2>3
    <2>6. RevokedOnlyByUser'
      BY DEF RevokedOnlyByUser
    <2> QED BY <2>2, <2>4, <2>5, <2>6
  <1>3. CASE StartExtraction(t) \/ End(t)
    <2> USE <1>3 DEF StartExtraction, End
    <2>1. TypeOK'
      OBVIOUS
    <2>2. Counted'
      OBVIOUS
    <2>3. NothingOutlivesAChange' /\ RevokedOnlyByUser'
      BY DEF NothingOutlivesAChange, RevokedOnlyByUser
    <2> QED BY <2>1, <2>2, <2>3
  <1>4. CASE Unchanged(t) \/ Unavailable(t)
    <2> USE <1>4 DEF Unchanged, Unavailable, Settle
    <2>1. TypeOK'
      OBVIOUS
    <2>2. Counted'
      OBVIOUS
    <2>3. NothingOutlivesAChange' /\ RevokedOnlyByUser'
      BY DEF NothingOutlivesAChange, RevokedOnlyByUser
    <2> QED BY <2>1, <2>2, <2>3
  <1>5. CASE Extracted(t) /\ Current(t)
    <2> USE <1>5 DEF Extracted, Settle
    <2>1. PICK keys \in SUBSET FactKeys : upsert_facts(t, keys)
      OBVIOUS
    <2>2. memoryStatus' = [memoryStatus EXCEPT ![t] = "saved"]
      OBVIOUS
    <2>3. facts' \subseteq FactKeys /\ since' \in [FactKeys -> 0..MaxChanges]
          /\ NothingOutlivesAChange'
      BY <2>1, UpsertIsCurrent
    <2>4. generation' = generation
      BY <2>1 DEF upsert_facts
    <2>5. TypeOK'
      BY <2>2, <2>3, <2>4
    <2>6. Counted'
      BY <2>4
    <2>7. RevokedOnlyByUser'
      BY <2>2 DEF RevokedOnlyByUser
    <2> QED BY <2>3, <2>5, <2>6, <2>7
  <1>6. CASE Extracted(t) /\ ~Current(t)
    <2> USE <1>6 DEF Extracted, Settle
    <2>1. memoryStatus' = [memoryStatus EXCEPT ![t] = "revoked"]
      OBVIOUS
    <2>2. begun[t] < changes
      BY MemoryAssumption DEF Current
    <2>3. TypeOK'
      BY <2>1
    <2>4. Counted' /\ NothingOutlivesAChange'
      BY DEF NothingOutlivesAChange
    <2>5. RevokedOnlyByUser'
      BY <2>1, <2>2 DEF RevokedOnlyByUser
    <2> QED BY <2>3, <2>4, <2>5
  <1> QED BY <1>1, <1>2, <1>3, <1>4, <1>5, <1>6 DEF TurnStep

LEMMA EditInv ==
  ASSUME IInv, NEW k \in FactKeys, edit_memory(k)
  PROVE  IInv'
  <1> USE DEF edit_memory
  <1>1. Advance({k})
    OBVIOUS
  <1> HIDE DEF IInv
  <1>2. /\ Counted' /\ RevokedOnlyByUser'
        /\ changes' \in 0..MaxChanges /\ generation' \in 0..MaxChanges
        /\ touched' \in [FactKeys -> 0..MaxChanges]
        /\ \A j \in FactKeys : touched'[j] <= changes'
        /\ \A j \in FactKeys \ {k} : touched'[j] = touched[j]
        /\ UNCHANGED <<turnVars, begun>>
    BY <1>1, AdvanceCounts
  <1>3. TypeOK'
    BY <1>2 DEF IInv, TypeOK, turnVars
  <1>4. NothingOutlivesAChange'
    BY <1>2 DEF IInv, TypeOK, NothingOutlivesAChange
  <1> QED BY <1>2, <1>3, <1>4 DEF IInv

LEMMA DeleteInv ==
  ASSUME IInv, NEW k \in FactKeys, delete_fact(k)
  PROVE  IInv'
  <1> USE DEF delete_fact
  <1>2. /\ Counted' /\ RevokedOnlyByUser'
        /\ changes' \in 0..MaxChanges /\ generation' \in 0..MaxChanges
        /\ touched' \in [FactKeys -> 0..MaxChanges]
        /\ \A j \in FactKeys \ {k} : touched'[j] = touched[j]
        /\ UNCHANGED <<turnVars, begun>>
    BY AdvanceCounts
  <1>3. TypeOK'
    BY <1>2 DEF IInv, TypeOK, turnVars
  <1>4. NothingOutlivesAChange'
    BY <1>2 DEF IInv, TypeOK, NothingOutlivesAChange
  <1> QED BY <1>2, <1>3, <1>4 DEF IInv

LEMMA ClearInv == ASSUME IInv, clear PROVE IInv'
  <1> USE DEF clear
  <1>2. /\ Counted' /\ RevokedOnlyByUser'
        /\ changes' \in 0..MaxChanges /\ generation' \in 0..MaxChanges
        /\ touched' \in [FactKeys -> 0..MaxChanges]
        /\ UNCHANGED <<turnVars, begun>>
    BY AdvanceCounts
  <1>3. TypeOK'
    BY <1>2 DEF IInv, TypeOK, turnVars
  <1>4. NothingOutlivesAChange'
    BY DEF NothingOutlivesAChange
  <1> QED BY <1>2, <1>3, <1>4 DEF IInv

\* A restart, and a step that changes nothing.
LEMMA RestartInv == ASSUME IInv, Restart \/ UNCHANGED vars PROVE IInv'
  <1> USE DEF IInv, Restart, vars, storeVars, turnVars, historyVars
  <1>1. TypeOK'
    BY DEF TypeOK
  <1>2. Counted'
    BY DEF Counted
  <1>3. NothingOutlivesAChange' /\ RevokedOnlyByUser'
    BY DEF NothingOutlivesAChange, RevokedOnlyByUser
  <1> QED BY <1>1, <1>2, <1>3

LEMMA Inductive == Spec => []IInv
  <1>1. IInv /\ [Next]_vars => IInv'
    <2> SUFFICES ASSUME IInv, [Next]_vars PROVE IInv'
      OBVIOUS
    <2>1. CASE \E t \in Turns : TurnStep(t)
      BY <2>1, TurnStepInv
    <2>2. CASE \E k \in FactKeys : edit_memory(k) \/ delete_fact(k)
      BY <2>2, EditInv, DeleteInv
    <2>3. CASE clear
      BY <2>3, ClearInv
    <2>4. CASE Restart \/ UNCHANGED vars
      BY <2>4, RestartInv
    <2> QED BY <2>1, <2>2, <2>3, <2>4 DEF Next
  <1> QED BY InitInv, <1>1, PTL DEF Spec

\* The rows and turns keep their shape, and the generation stays within the
\* changes the user made, for any number of turns and facts.
THEOREM TypeCorrect == Spec => []TypeOK
  <1>1. IInv => TypeOK
    BY DEF IInv
  <1> QED BY Inductive, <1>1, PTL

\* No turn brings back what the user edited, deleted or cleared after the turn
\* began, however many turns run at once (memory.py:79-111).
THEOREM DeletedStaysDeleted == Spec => []NothingOutlivesAChange
  <1>1. IInv => NothingOutlivesAChange
    BY DEF IInv
  <1> QED BY Inductive, <1>1, PTL

\* A turn is told of a revoked memory only after a change of the user
\* (memory.py:149-150).
THEOREM RevocationHasCause == Spec => []RevokedOnlyByUser
  <1>1. IInv => RevokedOnlyByUser
    BY DEF IInv
  <1> QED BY Inductive, <1>1, PTL

-----------------------------------------------------------------------------
(* The model calls of a turn, among them the call that extracts its facts. *)

CallTools ==
  [id : Ids \cup {None}, name : Names \cup {None}, pieces : Seq(Pieces),
   buffer : Seq(Pieces), delivered : Seq(Pieces), index : Nat]

\* What was received of the arguments is what was delivered and what waits; an
\* open call has its block, its id and its name.
CallSound(bs, k, tool) ==
  /\ tool \in CallTools
  /\ tool.delivered \o tool.pieces = tool.buffer
  /\ tool.index = 0 => tool.delivered = <<>>
  /\ tool.index # 0 =>
       /\ tool.pieces = <<>> /\ tool.index \in 1 .. Len(bs) /\ bs[tool.index] = k
       /\ tool.id \in Ids /\ tool.name \in Names

\* Every request was counted when it was sent, and usage when it was reported.
CallsCounted ==
  /\ calls \in Nat /\ known \in Nat /\ calls <= MaxCalls
  /\ sent = calls /\ reported = known

StreamSound ==
  /\ blocks \in Seq(ToolKeys \cup {"text"}) /\ DOMAIN tools \subseteq ToolKeys
  /\ \A k \in DOMAIN tools : CallSound(blocks, k, tools[k])

\* Nothing is closed before the checks, and what they found stays true after them.
ClosingChecked ==
  /\ closed \in Nat /\ (closed > 0 => main = "closing")
  /\ main = "closing" => Stop(finish, tools # <<>>) /\ Whole /\ usage # "invalid"

CallsInv == CallsCounted /\ StreamSound /\ ClosingChecked

LEMMA EmptyStream ==
  /\ <<>> \in Seq(ToolKeys \cup {"text"}) /\ DOMAIN <<>> = {}
<1>1. <<>> \in Seq(ToolKeys \cup {"text"}) /\ Len(<<>>) = 0
  BY EmptySeq
<1>2. DOMAIN <<>> = 1 .. 0
  BY <1>1, LenProperties
<1> QED BY <1>1, <1>2

LEMMA InitCalls == CallsInit => CallsInv
BY EmptyStream, BudgetAssumption DEF CallsInit, CallsInv, CallsCounted, StreamSound, ClosingChecked

\* A fragment leaves its tool call sound, whether or not it opens the block.
LEMMA FragmentSound ==
  ASSUME StreamSound, NEW key \in ToolKeys, NEW id \in Ids \cup {None},
         NEW name \in Names \cup {None}, NEW piece \in Pieces \cup {None},
         NEW tool, tool = Received(Tool(key), id, name, piece)
  PROVE  /\ tool.index > Len(blocks) => CallSound(Append(blocks, key), key, tool)
         /\ ~(tool.index > Len(blocks)) => CallSound(blocks, key, tool)
<1> DEFINE old == Tool(key)
           arrived == IF piece = None THEN <<>> ELSE <<piece>>
           P == Pieces
           taken == [old EXCEPT !.id = Latest(@, id), !.name = Latest(@, name),
                                !.pieces = @ \o arrived, !.buffer = @ \o arrived]
           opened == Opened(taken)
<1>1. CallSound(blocks, key, old)
  <2>1. CASE key \in DOMAIN tools
    BY <2>1 DEF StreamSound, Tool
  <2>2. CASE key \notin DOMAIN tools
    <3>1. old = [id |-> None, name |-> None, pieces |-> <<>>, buffer |-> <<>>,
                 delivered |-> <<>>, index |-> 0]
      BY <2>2 DEF Tool
    <3>2. <<>> \in Seq(P) /\ <<>> \o <<>> = <<>>
      BY EmptySeq, ConcatEmptySeq
    <3> QED BY <3>1, <3>2 DEF CallSound, CallTools
  <2> QED BY <2>1, <2>2
<1>2. arrived \in Seq(P)
  BY EmptySeq
<1>3. tool = Delivered(opened)
  BY DEF Received
<1>4. blocks \in Seq(ToolKeys \cup {"text"}) /\ Len(blocks) \in Nat
  BY LenProperties DEF StreamSound
<1> HIDE DEF old, arrived
<1>5. /\ old \in CallTools /\ old.pieces \in Seq(P) /\ old.buffer \in Seq(P)
      /\ old.delivered \in Seq(P) /\ old.index \in Nat
  BY <1>1 DEF CallSound, CallTools
<1>6. /\ old.pieces \o arrived \in Seq(P) /\ old.buffer \o arrived \in Seq(P)
      /\ old.delivered \o (old.pieces \o arrived) = old.buffer \o arrived
  <2>1. old.pieces \o arrived \in Seq(P) /\ old.buffer \o arrived \in Seq(P)
    BY <1>2, <1>5, ConcatProperties
  <2>2. old.delivered \o old.pieces = old.buffer
    BY <1>1 DEF CallSound
  <2>3. (old.delivered \o old.pieces) \o arrived = old.delivered \o (old.pieces \o arrived)
    <3>1. \A a, b, c \in Seq(P) : (a \o b) \o c = a \o (b \o c)
      BY ConcatAssociative
    <3> HIDE DEF P
    <3> QED BY <1>2, <1>5, <3>1
  <2> QED BY <2>1, <2>2, <2>3
<1>7. /\ Latest(old.id, id) \in Ids \cup {None}
      /\ Latest(old.name, name) \in Names \cup {None}
      /\ old.id \in Ids => Latest(old.id, id) \in Ids
      /\ old.name \in Names => Latest(old.name, name) \in Names
  BY <1>5 DEF Latest, CallTools
<1>8. /\ taken \in CallTools /\ taken.id = Latest(old.id, id)
      /\ taken.name = Latest(old.name, name)
      /\ taken.pieces = old.pieces \o arrived /\ taken.buffer = old.buffer \o arrived
      /\ taken.delivered = old.delivered /\ taken.index = old.index
  BY <1>5, <1>6, <1>7 DEF CallTools
<1> HIDE DEF taken
<1>9. /\ opened \in CallTools /\ opened.id = taken.id /\ opened.name = taken.name
      /\ opened.pieces = taken.pieces /\ opened.buffer = taken.buffer
      /\ opened.delivered = taken.delivered
      /\ \/ opened.index = taken.index /\ (opened.index # 0 => taken.index # 0)
         \/ /\ opened.index = Len(blocks) + 1 /\ taken.index = 0
            /\ None \notin {taken.id, taken.name}
  <2>1. CASE taken.index = 0 /\ None \notin {taken.id, taken.name}
    <3>1. opened = [taken EXCEPT !.index = Len(blocks) + 1] /\ Len(blocks) + 1 \in Nat
      BY <1>4, <2>1 DEF Opened
    <3> QED BY <1>8, <2>1, <3>1 DEF CallTools
  <2>2. CASE ~(taken.index = 0 /\ None \notin {taken.id, taken.name})
    <3>1. opened = taken
      BY <2>2 DEF Opened
    <3> QED BY <1>8, <3>1
  <2> QED BY <2>1, <2>2
<1> HIDE DEF opened
<1>10. CASE opened.index = 0
  <2>1. tool = opened /\ old.index = 0
    BY <1>3, <1>4, <1>8, <1>9, <1>10 DEF Delivered
  <2> QED BY <1>1, <1>4, <1>6, <1>8, <1>9, <1>10, <2>1 DEF CallSound
<1>11. CASE opened.index # 0
  <2>1. opened.delivered \o opened.pieces = opened.buffer /\ opened.buffer \in Seq(P)
    BY <1>6, <1>8, <1>9
  <2>2. /\ tool \in CallTools /\ tool.id = opened.id /\ tool.name = opened.name
        /\ tool.pieces = <<>> /\ tool.buffer = opened.buffer
        /\ tool.delivered = opened.buffer /\ tool.index = opened.index
    BY <1>3, <1>9, <1>11, <2>1, EmptySeq DEF Delivered, CallTools
  <2>3. tool.delivered \o tool.pieces = tool.buffer
    BY <2>1, <2>2, ConcatEmptySeq
  <2>4. CASE opened.index = taken.index
    <3>1. /\ tool.index \in 1 .. Len(blocks) /\ blocks[tool.index] = key
          /\ tool.id \in Ids /\ tool.name \in Names
      BY <1>1, <1>7, <1>8, <1>9, <1>11, <2>2, <2>4 DEF CallSound
    <3> QED BY <1>4, <1>11, <2>2, <2>3, <3>1 DEF CallSound
  <2>5. CASE opened.index = Len(blocks) + 1 /\ None \notin {taken.id, taken.name}
    <3>1. tool.id \in Ids /\ tool.name \in Names
      BY <1>7, <1>8, <1>9, <2>2, <2>5
    <3>2. tool.index \in 1 .. Len(Append(blocks, key)) /\ Append(blocks, key)[tool.index] = key
      BY <1>4, <2>2, <2>5
    <3> QED BY <1>4, <1>11, <2>2, <2>3, <2>5, <3>1, <3>2 DEF CallSound
  <2> QED BY <1>9, <2>4, <2>5
<1> QED BY <1>10, <1>11

\* A block more leaves the other tool calls sound.
LEMMA AppendSound ==
  ASSUME NEW bs \in Seq(ToolKeys \cup {"text"}), NEW b \in ToolKeys \cup {"text"},
         NEW k, NEW tool, CallSound(bs, k, tool)
  PROVE  CallSound(Append(bs, b), k, tool)
<1>1. Len(bs) \in Nat /\ Len(Append(bs, b)) = Len(bs) + 1
  BY LenProperties
<1>2. ASSUME NEW i \in 1 .. Len(bs) PROVE i \in 1 .. Len(bs) + 1 /\ Append(bs, b)[i] = bs[i]
  BY <1>1
<1> QED BY <1>1, <1>2 DEF CallSound

LEMMA FragmentKeeps ==
  ASSUME CallsInv, Fragment
  PROVE  CallsInv'
<1>1. PICK key \in ToolKeys, id \in Ids \cup {None}, name \in Names \cup {None},
           piece \in Pieces \cup {None} :
        LET new == Received(Tool(key), id, name, piece)
        IN /\ tools' = [k \in DOMAIN tools \cup {key} |-> IF k = key THEN new ELSE tools[k]]
           /\ blocks' = IF new.index > Len(blocks) THEN Append(blocks, key) ELSE blocks
  BY DEF Fragment
<1> DEFINE new == Received(Tool(key), id, name, piece)
<1>2. StreamSound
  BY DEF CallsInv
<1>3. blocks \in Seq(ToolKeys \cup {"text"})
  BY <1>2 DEF StreamSound
<1>4. /\ new.index > Len(blocks) => CallSound(Append(blocks, key), key, new)
      /\ ~(new.index > Len(blocks)) => CallSound(blocks, key, new)
  BY <1>2, FragmentSound
<1>5. /\ tools' = [k \in DOMAIN tools \cup {key} |-> IF k = key THEN new ELSE tools[k]]
      /\ blocks' = IF new.index > Len(blocks) THEN Append(blocks, key) ELSE blocks
  BY <1>1
<1> HIDE DEF new
<1>6. blocks' \in Seq(ToolKeys \cup {"text"})
  BY <1>3, <1>5
<1>7. ASSUME NEW k \in DOMAIN tools'
      PROVE  CallSound(blocks', k, tools'[k])
  <2>1. CASE k = key
    BY <1>4, <1>5, <2>1
  <2>2. CASE k # key
    <3>1. k \in DOMAIN tools /\ tools'[k] = tools[k] /\ CallSound(blocks, k, tools[k])
      BY <1>2, <1>5, <2>2 DEF StreamSound
    <3> QED BY <1>3, <1>5, <3>1, AppendSound
  <2> QED BY <2>1, <2>2
<1>8. DOMAIN tools' \subseteq ToolKeys
  BY <1>2, <1>5 DEF StreamSound
<1>9. StreamSound'
  BY <1>6, <1>7, <1>8 DEF StreamSound
<1>10. CallsCounted' /\ ClosingChecked'
  BY DEF CallsInv, CallsCounted, ClosingChecked, Fragment, budgetVars, callVars
<1> QED BY <1>9, <1>10 DEF CallsInv

\* Steps that touch neither the blocks nor the tool calls of the stream.
LEMMA StreamKept ==
  ASSUME StreamSound, UNCHANGED <<blocks, tools>>
  PROVE  StreamSound'
BY DEF StreamSound

LEMMA StreamCleared ==
  ASSUME NoStream
  PROVE  StreamSound'
BY EmptyStream DEF NoStream, StreamSound

LEMMA StreamingKeeps ==
  ASSUME CallsInv, TextDelta \/ FinishReason \/ UsageChunk \/ EndOfStream
  PROVE  CallsInv'
<1>1. CASE TextDelta
  <2>1. CallsCounted' /\ ClosingChecked'
    BY <1>1 DEF CallsInv, CallsCounted, ClosingChecked, TextDelta, budgetVars,
       callVars
  <2>2. tools' = tools /\ (blocks' = blocks \/ blocks' = Append(blocks, "text"))
        /\ blocks \in Seq(ToolKeys \cup {"text"})
    BY <1>1 DEF TextDelta, CallsInv, StreamSound
  <2>3. \A k \in DOMAIN tools : CallSound(blocks', k, tools[k])
    BY <2>2, AppendSound DEF CallsInv, StreamSound
  <2>4. StreamSound'
    BY <2>2, <2>3 DEF StreamSound, CallsInv
  <2> QED BY <2>1, <2>4 DEF CallsInv
<1>2. CASE FinishReason \/ UsageChunk
  BY <1>2, StreamKept DEF CallsInv, CallsCounted, ClosingChecked, FinishReason,
     UsageChunk, budgetVars, callVars
<1>3. CASE EndOfStream
  <2>1. CallsCounted'
    BY <1>3 DEF CallsInv, CallsCounted, EndOfStream, Measured
  <2>2. ClosingChecked'
    BY <1>3 DEF CallsInv, ClosingChecked, EndOfStream, streamVars, Whole
  <2>3. StreamSound'
    BY <1>3, StreamKept DEF CallsInv, EndOfStream, streamVars
  <2> QED BY <2>1, <2>2, <2>3 DEF CallsInv
<1> QED BY <1>1, <1>2, <1>3

LEMMA MainKeeps ==
  ASSUME CallsInv,
         \/ Translate \/ SendMain \/ RefuseMain \/ Headers
         \/ Fail \/ CloseBlock \/ MessageStop
  PROVE  CallsInv'
<1> USE DEF CallsInv
<1>1. CASE Translate \/ SendMain \/ RefuseMain \/ Headers
  <2>1. CallsCounted'
    BY <1>1, BudgetAssumption DEF CallsCounted, Translate, SendMain, RefuseMain, Headers,
       consume, Refused, budgetVars
  <2>2. ClosingChecked'
    BY <1>1 DEF ClosingChecked, Translate, SendMain, RefuseMain, Headers,
       Leave, streamVars
  <2>3. StreamSound'
    BY <1>1, StreamKept DEF Translate, SendMain, RefuseMain, Headers,
       streamVars
  <2> QED BY <2>1, <2>2, <2>3
<1>2. CASE CloseBlock
  <2>1. CallsCounted' /\ ClosingChecked'
    BY <1>2 DEF CallsCounted, ClosingChecked, CloseBlock, budgetVars, callVars,
       Whole
  <2> QED BY <1>2, <2>1, StreamKept DEF CloseBlock
<1>3. CASE Fail \/ MessageStop
  <2>1. CallsCounted' /\ ClosingChecked'
    BY <1>3 DEF CallsCounted, ClosingChecked, Fail, MessageStop, NoStream,
       budgetVars
  <2> QED BY <1>3, <2>1, StreamCleared DEF Fail, MessageStop
<1> QED BY <1>1, <1>2, <1>3

LEMMA OtherKeeps ==
  ASSUME CallsInv, NEW c \in Others,
         \/ SendOther(c) \/ SendSearch(c) \/ RefuseSearch(c)
         \/ Answered(c) \/ Searched(c) \/ OtherFails(c)
  PROVE  CallsInv'
<1>1. UNCHANGED <<main, finish, usage, closed, blocks, tools>>
  BY DEF SendOther, SendSearch, RefuseSearch, Answered, Searched,
     OtherFails, streamVars, callVars
<1>2. CallsCounted'
  BY BudgetAssumption DEF CallsInv, CallsCounted, SendOther, SendSearch, RefuseSearch,
     Answered, Searched, OtherFails, consume, Refused,
     Measured, budgetVars
<1>3. ClosingChecked'
  BY <1>1 DEF CallsInv, ClosingChecked, Whole
<1> QED BY <1>1, <1>2, <1>3, StreamKept DEF CallsInv

LEMMA CallsInvariant == CallsSpec => []CallsInv
<1>1. ASSUME CallsInv, [CallsNext]_modelVars PROVE CallsInv'
  <2>1. CASE Deadline \/ UNCHANGED modelVars
    BY <1>1, <2>1, StreamKept DEF CallsInv, CallsCounted, ClosingChecked, Deadline,
       Whole, modelVars, budgetVars, callVars, streamVars
  <2>2. CASE Streaming
    BY <1>1, <2>2, FragmentKeeps, StreamingKeeps DEF Streaming
  <2>3. CASE \/ Translate \/ SendMain \/ RefuseMain \/ Headers
             \/ Fail \/ CloseBlock \/ MessageStop
    BY <1>1, <2>3, MainKeeps
  <2>4. ASSUME NEW c \in Others,
               \/ SendOther(c) \/ SendSearch(c) \/ RefuseSearch(c)
               \/ Answered(c) \/ Searched(c) \/ OtherFails(c)
        PROVE  CallsInv'
    BY <1>1, <2>4, OtherKeeps
  <2> QED BY <1>1, <2>1, <2>2, <2>3, <2>4 DEF CallsNext
<1> QED BY <1>1, InitCalls, PTL DEF CallsSpec

\* A tool runs only of an answer that is known to be whole: it ended for its tool
\* calls, and each is open, complete and has an id of its own
\* (chat_to_messages.py:418-436).
THEOREM ToolsRunWhole == CallsSpec => []ToolsWhole
<1>1. CallsInv => ToolsWhole
  <2> SUFFICES ASSUME CallsInv, closed > 0, tools # <<>> PROVE ToolsWhole
    BY DEF ToolsWhole
  <2>1. Stop(finish, TRUE) /\ Whole /\ usage # "invalid"
    BY DEF CallsInv, ClosingChecked
  <2>2. finish = "tool_calls"
    BY <2>1 DEF Stop
  <2>3. ASSUME NEW k \in DOMAIN tools
        PROVE  /\ tools[k].index \in 1 .. Len(blocks) /\ blocks[tools[k].index] = k
               /\ {tools[k].id, tools[k].name} \subseteq Ids \cup Names
               /\ tools[k].buffer \in {<<>>, <<"open", "close">>}
    <3>1. tools[k].index # 0 /\ IsObject(tools[k].buffer)
      BY <2>1 DEF Whole
    <3>2. CallSound(blocks, k, tools[k])
      BY DEF CallsInv, StreamSound
    <3> QED BY <3>1, <3>2 DEF CallSound, IsObject
  <2>4. \A j, k \in DOMAIN tools : tools[j].id = tools[k].id => j = k
    BY <2>1 DEF Whole
  <2> QED BY <2>1, <2>2, <2>3, <2>4 DEF ToolsWhole
<1> QED BY <1>1, CallsInvariant, PTL

\* Of the arguments of a tool call the client receives every piece, in order and
\* once, and none before the block of the call is open (chat_to_messages.py:382-415).
THEOREM DeltasArriveWhole == CallsSpec => []DeltasWhole
<1>1. CallsInv => DeltasWhole
  BY DEF CallsInv, StreamSound, CallSound, DeltasWhole
<1> QED BY <1>1, CallsInvariant, PTL

\* No request of a turn escapes the limit its calls share, and usage is called
\* complete only if every request reported it (provider.py:31-38, 54-83).
THEOREM CallsWithinBudget == CallsSpec => []UsageHonest
<1>1. CallsInv => UsageHonest
  BY DEF CallsInv, CallsCounted, UsageHonest
<1> QED BY <1>1, CallsInvariant, PTL
-----------------------------------------------------------------------------
(* Induction over numbers, and what the folds of ModelCalls compute.  The   *)
(* induction is over a set of numbers: there is a least one it lacks, or it *)
(* is all of them.                                                          *)

LEMMA NumbersInduct ==
  ASSUME NEW T \in SUBSET Nat, 0 \in T, \A i \in T : i + 1 \in T
  PROVE  T = Nat
<1> SUFFICES ASSUME Nat \ T # {} PROVE FALSE
  OBVIOUS
<1>1. PICK m \in Nat \ T : \A y \in Nat \ T : <<y, m>> \notin OpToRel(<, Nat)
  BY WFMin, NatLessThanWellFounded
<1>2. m - 1 \in Nat \ T
  <2>1. m # 0 /\ m - 1 \in Nat /\ (m - 1) + 1 = m
    OBVIOUS
  <2> QED BY <2>1
<1>3. <<m - 1, m>> \in OpToRel(<, Nat)
  <2>1. <<m - 1, m>> \in Nat \X Nat /\ <<m - 1, m>>[1] = m - 1 /\ <<m - 1, m>>[2] = m
    BY <1>2
  <2>2. <<m - 1, m>>[1] < <<m - 1, m>>[2]
    BY <2>1
  <2> QED BY <2>1, <2>2, Zenon DEF OpToRel
<1> QED BY <1>1, <1>2, <1>3

\* Induction over the numbers up to n.
LEMMA UpToInduct ==
  ASSUME NEW n \in Nat, NEW T \in SUBSET (0 .. n), 0 \in T,
         \A i \in 1 .. n : i - 1 \in T => i \in T
  PROVE  T = 0 .. n
<1> DEFINE W == {i \in Nat : i <= n => i \in T}
<1>1. 0 \in W /\ W \in SUBSET Nat
  OBVIOUS
<1>2. ASSUME NEW i \in W PROVE i + 1 \in W
  <2>1. CASE i + 1 <= n
    <3>1. i + 1 \in 1 .. n /\ (i + 1) - 1 = i /\ i \in T
      BY <2>1
    <3>2. i + 1 \in T
      BY <3>1
    <3> QED BY <3>1, <3>2
  <2>2. CASE ~(i + 1 <= n)
    BY <2>2
  <2> QED BY <2>1, <2>2
<1> HIDE DEF W
<1>3. W = Nat
  BY <1>1, <1>2, NumbersInduct
<1>4. \A i \in 0 .. n : i \in T
  BY <1>3 DEF W
<1> QED BY <1>4

\* A set of numbers up to k has a greatest one.
LEMMA GreatestNumber ==
  ASSUME NEW k \in Nat, NEW S \in SUBSET (1 .. k), S # {}
  PROVE  Max(S) \in S /\ \A x \in S : x <= Max(S)
<1> DEFINE T == {i \in Nat : \A A \in SUBSET (1 .. i) :
                               A # {} => \E x \in A : \A y \in A : x >= y}
<1>1. 0 \in T
  <2>1. 1 .. 0 = {}
    OBVIOUS
  <2> QED BY <2>1
<1>2. ASSUME NEW i \in T PROVE i + 1 \in T
  <2> SUFFICES ASSUME NEW A \in SUBSET (1 .. i + 1), A # {}
               PROVE  \E x \in A : \A y \in A : x >= y
    OBVIOUS
  <2>1. CASE i + 1 \in A
    BY <2>1
  <2>2. CASE i + 1 \notin A
    <3>1. A \in SUBSET (1 .. i)
      BY <2>2
    <3> QED BY <3>1
  <2> QED BY <2>1, <2>2
<1> HIDE DEF T
<1>3. T \in SUBSET Nat
  BY DEF T
<1>4. T = Nat
  BY <1>1, <1>2, <1>3, NumbersInduct
<1>5. \E x \in S : \A y \in S : x >= y
  BY <1>4 DEF T
<1>6. Max(S) \in S /\ \A y \in S : Max(S) >= y
  BY <1>5 DEF Max
<1> QED BY <1>6

LEMMA Prefix ==
  ASSUME NEW i \in Nat \ {0}
  PROVE  Max(1 .. i) = i /\ (1 .. i) \ {i} = 1 .. i - 1 /\ 1 .. i # {}
<1>1. i \in 1 .. i
  OBVIOUS
<1>2. Max(1 .. i) \in 1 .. i /\ i <= Max(1 .. i)
  BY <1>1, GreatestNumber
<1> QED BY <1>1, <1>2

\* g is the function that FoldLeft iterates over the sets of positions up to k, with
\* the step G on accumulators.
Iterates(g, k, G, base, c) ==
  g = [s \in SUBSET (1 .. k) |->
         IF s = {} THEN base ELSE G[<<g[s \ {Max(s)}], c[Max(s)]>>]]

LEMMA FoldExtends ==
  ASSUME NEW A, NEW B, NEW G \in [A \X B -> A], NEW base \in A, NEW n \in Nat,
         NEW c \in [1 .. n -> B], NEW k \in 0 .. n - 1,
         NEW g \in [SUBSET (1 .. k) -> A], Iterates(g, k, G, base, c)
  PROVE  \E h \in [SUBSET (1 .. k + 1) -> A] : Iterates(h, k + 1, G, base, c)
<1> DEFINE h == [s \in SUBSET (1 .. k + 1) |->
                   IF s = {} THEN base ELSE G[<<g[s \ {Max(s)}], c[Max(s)]>>]]
<1>1. ASSUME NEW s \in SUBSET (1 .. k + 1), s # {}
      PROVE  s \ {Max(s)} \in SUBSET (1 .. k) /\ Max(s) \in 1 .. n
  <2>1. k + 1 \in Nat
    OBVIOUS
  <2>2. Max(s) \in s /\ \A x \in s : x <= Max(s)
    BY <1>1, <2>1, GreatestNumber
  <2>3. ASSUME NEW x \in s, x # Max(s) PROVE x \in 1 .. k
    <3>1. x <= Max(s) /\ x \in 1 .. k + 1 /\ Max(s) \in 1 .. k + 1
      BY <2>2
    <3> QED BY <2>3, <3>1
  <2>4. Max(s) \in 1 .. n
    <3>1. Max(s) \in 1 .. k + 1
      BY <2>2
    <3> QED BY <3>1
  <2> QED BY <2>3, <2>4
<1>2. \A t \in SUBSET (1 .. k) : h[t] = g[t]
  <2>1. SUBSET (1 .. k) \subseteq SUBSET (1 .. k + 1)
    OBVIOUS
  <2> QED BY <2>1 DEF Iterates
<1>3. h \in [SUBSET (1 .. k + 1) -> A]
  <2> SUFFICES ASSUME NEW s \in SUBSET (1 .. k + 1), s # {}
               PROVE  G[<<g[s \ {Max(s)}], c[Max(s)]>>] \in A
    OBVIOUS
  <2>1. g[s \ {Max(s)}] \in A /\ c[Max(s)] \in B
    BY <1>1
  <2> QED BY <2>1
<1>4. Iterates(h, k + 1, G, base, c)
  <2>1. \A s \in SUBSET (1 .. k + 1) : s # {} => h[s \ {Max(s)}] = g[s \ {Max(s)}]
    BY <1>1, <1>2
  <2> QED BY <2>1 DEF Iterates
<1> HIDE DEF h
<1> QED BY <1>3, <1>4

LEMMA FoldExists ==
  ASSUME NEW A, NEW B, NEW G \in [A \X B -> A], NEW base \in A, NEW n \in Nat,
         NEW c \in [1 .. n -> B]
  PROVE  \E g \in [SUBSET (1 .. n) -> A] : Iterates(g, n, G, base, c)
<1> DEFINE Found(k) == \E g \in [SUBSET (1 .. k) -> A] : Iterates(g, k, G, base, c)
           T == {k \in Nat : k <= n => Found(k)}
<1>1. Found(0)
  <2> DEFINE g == [s \in SUBSET (1 .. 0) |-> base]
  <2>1. g \in [SUBSET (1 .. 0) -> A] /\ \A s \in SUBSET (1 .. 0) : s = {}
    OBVIOUS
  <2>2. Iterates(g, 0, G, base, c)
    BY <2>1 DEF Iterates
  <2> QED BY <2>1, <2>2
<1>2. ASSUME NEW k \in 0 .. n - 1, Found(k) PROVE Found(k + 1)
  BY <1>2, FoldExtends
<1> HIDE DEF Found
<1>3. 0 \in T /\ \A k \in T : k + 1 \in T
  BY <1>1, <1>2
<1>4. T \in SUBSET Nat /\ (n \in T => Found(n))
  OBVIOUS
<1> HIDE DEF T
<1>5. n \in T
  BY <1>3, <1>4, NumbersInduct
<1> QED BY <1>4, <1>5 DEF Found

\* f holds what has been flattened up to every position.
Flattens(f, k, s) ==
  f[0] = <<>> /\ \A i \in 1 .. k : f[i] = f[i - 1] \o s[i]

LEMMA FlattenExists ==
  ASSUME NEW S, NEW s \in Seq(Seq(S))
  PROVE  \E f \in [0 .. Len(s) -> Seq(S)] : Flattens(f, Len(s), s)
<1> DEFINE n == Len(s)
           Found(k) == \E f \in [0 .. k -> Seq(S)] : Flattens(f, k, s)
           T == {k \in Nat : k <= n => Found(k)}
<1>1. n \in Nat /\ \A i \in 1 .. n : s[i] \in Seq(S)
  BY LenProperties, ElementOfSeq
<1>2. Found(0)
  <2> DEFINE f == [i \in 0 .. 0 |-> <<>>]
  <2>1. f \in [0 .. 0 -> Seq(S)] /\ Flattens(f, 0, s)
    BY EmptySeq DEF Flattens
  <2> QED BY <2>1
<1>3. ASSUME NEW k \in 0 .. n - 1, Found(k) PROVE Found(k + 1)
  <2>1. PICK f \in [0 .. k -> Seq(S)] : Flattens(f, k, s)
    BY <1>3
  <2> DEFINE h == [i \in 0 .. k + 1 |-> IF i = k + 1 THEN f[k] \o s[i] ELSE f[i]]
  <2>2. k \in Nat /\ f[k] \in Seq(S) /\ k + 1 \in 1 .. n /\ s[k + 1] \in Seq(S)
    BY <1>1
  <2>3. f[k] \o s[k + 1] \in Seq(S)
    BY <2>2, ConcatProperties
  <2>4. h \in [0 .. k + 1 -> Seq(S)]
    BY <2>2, <2>3
  <2>5. h[0] = <<>>
    BY <2>1, <2>2 DEF Flattens
  <2>6. ASSUME NEW i \in 1 .. k + 1 PROVE h[i] = h[i - 1] \o s[i]
    <3>1. CASE i = k + 1
      <4>1. k + 1 \in 0 .. k + 1 /\ k \in 0 .. k + 1 /\ k # k + 1
        BY <2>2
      <4>2. h[k + 1] = f[k] \o s[k + 1] /\ h[k] = f[k]
        BY <4>1
      <4>3. i - 1 = k
        BY <2>2, <3>1
      <4> HIDE DEF h
      <4> QED BY <3>1, <4>2, <4>3
    <3>2. CASE i # k + 1
      <4>1. i \in 1 .. k /\ i - 1 \in 0 .. k + 1 /\ i \in 0 .. k + 1 /\ i - 1 # k + 1
        BY <2>2, <3>2
      <4>2. h[i] = f[i] /\ h[i - 1] = f[i - 1]
        BY <3>2, <4>1
      <4> HIDE DEF h
      <4> QED BY <2>1, <4>1, <4>2 DEF Flattens
    <3> QED BY <3>1, <3>2
  <2> HIDE DEF h
  <2>7. Flattens(h, k + 1, s)
    BY <2>5, <2>6 DEF Flattens
  <2> QED BY <2>4, <2>7
<1> HIDE DEF Found
<1>4. 0 \in T /\ \A k \in T : k + 1 \in T
  BY <1>1, <1>2, <1>3
<1>5. T \in SUBSET Nat /\ (n \in T => Found(n))
  BY <1>1
<1> HIDE DEF T
<1>6. n \in T
  BY <1>1, <1>4, <1>5, NumbersInduct
<1> QED BY <1>5, <1>6 DEF Found

\* There is one of them.
LEMMA FlattensUnique ==
  ASSUME NEW n \in Nat, NEW s, NEW f, NEW g, Flattens(f, n, s), Flattens(g, n, s)
  PROVE  f[n] = g[n]
<1> DEFINE T == {i \in Nat : i <= n => f[i] = g[i]}
<1>1. 0 \in T
  BY DEF Flattens
<1>2. ASSUME NEW i \in T PROVE i + 1 \in T
  <2>1. CASE i + 1 <= n
    <3>1. i + 1 \in 1 .. n /\ (i + 1) - 1 = i /\ f[i] = g[i]
      BY <2>1
    <3> HIDE DEF T
    <3>2. f[i + 1] = f[(i + 1) - 1] \o s[i + 1] /\ g[i + 1] = g[(i + 1) - 1] \o s[i + 1]
      BY <3>1 DEF Flattens
    <3>3. f[i + 1] = g[i + 1]
      BY <3>1, <3>2
    <3>4. i + 1 \in Nat
      BY <3>1
    <3> QED BY <3>3, <3>4 DEF T
  <2>2. CASE ~(i + 1 <= n)
    BY <2>2
  <2>3. i + 1 \in Nat
    OBVIOUS
  <2>4. i + 1 <= n => f[i + 1] = g[i + 1]
    BY <2>1, <2>2
  <2> QED BY <2>3, <2>4
<1>3. T \in SUBSET Nat
  OBVIOUS
<1> HIDE DEF T
<1>4. T = Nat
  BY <1>1, <1>2, <1>3, NumbersInduct
<1> QED BY <1>4 DEF T

LEMMA FlattenLoop ==
  ASSUME NEW S, NEW s \in Seq(Seq(S))
  PROVE  \E f \in [0 .. Len(s) -> Seq(S)] :
           Flattens(f, Len(s), s) /\ FlattenSeq(s) = f[Len(s)]
<1> DEFINE n == Len(s)
           flatten == CHOOSE h : h = [i \in 1 .. n |->
                        IF i = 1 THEN s[i] ELSE h[i - 1] \o s[i]]
<1>1. n \in Nat /\ \A i \in 1 .. n : s[i] \in Seq(S)
  BY LenProperties, ElementOfSeq
<1>2. PICK f \in [0 .. n -> Seq(S)] : Flattens(f, n, s)
  BY FlattenExists
<1>3. CASE n = 0
  <2>1. s = <<>>
    BY <1>3, EmptySeq
  <2> QED BY <1>2, <1>3, <2>1 DEF FlattenSeq, Flattens
<1>4. CASE n # 0
  <2>1. FlattenSeq(s) = flatten[n]
    BY <1>4 DEF FlattenSeq
  <2> DEFINE h == [i \in 1 .. n |-> f[i]]
  <2>2. ASSUME NEW i \in 1 .. n
        PROVE  h[i] = IF i = 1 THEN s[i] ELSE h[i - 1] \o s[i]
    <3>1. f[i] = f[i - 1] \o s[i]
      BY <1>2 DEF Flattens
    <3>2. CASE i = 1
      <4>1. f[i] = <<>> \o s[i]
        <5>1. f[0] = <<>> /\ i - 1 = 0
          BY <1>2, <3>2 DEF Flattens
        <5> QED BY <3>1, <5>1
      <4>2. s[i] \in Seq(S)
        BY <1>1
      <4>3. <<>> \o s[i] = s[i]
        BY <4>2, ConcatEmptySeq
      <4> QED BY <3>2, <4>1, <4>3
    <3>3. CASE i # 1
      <4>1. i - 1 \in 1 .. n
        BY <1>1, <3>3
      <4> QED BY <3>1, <3>3, <4>1
    <3> QED BY <3>2, <3>3
  <2>3. h = [i \in 1 .. n |-> IF i = 1 THEN s[i] ELSE h[i - 1] \o s[i]]
    BY <2>2
  <2> HIDE DEF h
  <2>4. flatten = [i \in 1 .. n |-> IF i = 1 THEN s[i] ELSE flatten[i - 1] \o s[i]]
    BY <2>3
  <2> HIDE DEF flatten
  <2> DEFINE g == [i \in 0 .. n |-> IF i = 0 THEN <<>> ELSE flatten[i]]
  <2>5. ASSUME NEW i \in 1 .. n PROVE g[i] = g[i - 1] \o s[i]
    <3>1. i \in 0 .. n /\ i - 1 \in 0 .. n /\ s[i] \in Seq(S)
      BY <1>1
    <3>2. CASE i = 1
      <4>1. <<>> \o s[i] = s[i]
        BY <3>1, ConcatEmptySeq
      <4>2. flatten[i] = s[i]
        BY <2>4, <3>2
      <4>3. g[i] = flatten[i]
        BY <3>1, <3>2
      <4>4. g[i - 1] = <<>>
        BY <3>1, <3>2
      <4> HIDE DEF g
      <4> QED BY <4>1, <4>2, <4>3, <4>4
    <3>3. CASE i # 1
      <4>1. flatten[i] = flatten[i - 1] \o s[i]
        BY <2>4, <3>3
      <4>2. g[i] = flatten[i]
        BY <3>1
      <4>3. i - 1 # 0
        BY <3>3
      <4>4. g[i - 1] = flatten[i - 1]
        BY <3>1, <4>3
      <4> HIDE DEF g
      <4> QED BY <4>1, <4>2, <4>4
    <3> QED BY <3>2, <3>3
  <2>6. g[0] = <<>> /\ g[n] = flatten[n]
    BY <1>1, <1>4
  <2> HIDE DEF g
  <2>7. Flattens(g, n, s)
    BY <2>5, <2>6 DEF Flattens
  <2>8. f[n] = g[n]
    <3> HIDE DEF n
    <3> QED BY <1>1, <1>2, <2>7, FlattensUnique
  <2> QED BY <1>2, <2>1, <2>6, <2>8
<1> QED BY <1>3, <1>4

\* Flattening works from the left.
LEMMA FlattenAppend ==
  ASSUME NEW S, NEW s \in Seq(Seq(S)), NEW x \in Seq(S)
  PROVE  /\ FlattenSeq(s) \in Seq(S)
         /\ FlattenSeq(Append(s, x)) = FlattenSeq(s) \o x
         /\ FlattenSeq(<<>>) = <<>>
<1> DEFINE n == Len(s)
           longer == Append(s, x)
<1>1. n \in Nat /\ longer \in Seq(Seq(S)) /\ Len(longer) = n + 1 /\ longer[n + 1] = x
      /\ \A i \in 1 .. n : longer[i] = s[i]
  BY AppendProperties, LenProperties
<1>2. PICK f \in [0 .. n -> Seq(S)] : Flattens(f, n, s) /\ FlattenSeq(s) = f[n]
  BY FlattenLoop
<1> HIDE DEF longer
<1>3. PICK g \in [0 .. Len(longer) -> Seq(S)] : Flattens(g, Len(longer), longer) /\ FlattenSeq(longer) = g[Len(longer)]
  BY <1>1, FlattenLoop
<1>4. g[n + 1] = g[n] \o x /\ Flattens(g, n, s)
  <2>1. n + 1 \in 1 .. Len(longer) /\ (n + 1) - 1 = n /\ 1 .. n \subseteq 1 .. Len(longer)
    BY <1>1
  <2>2. g[n + 1] = g[(n + 1) - 1] \o longer[n + 1]
    BY <1>3, <2>1 DEF Flattens
  <2>3. g[0] = <<>> /\ \A i \in 1 .. n : g[i] = g[i - 1] \o longer[i]
    BY <1>3, <2>1 DEF Flattens
  <2>4. Flattens(g, n, s)
    <3>1. \A i \in 1 .. n : longer[i] = s[i]
      BY <1>1
    <3> QED BY <2>3, <3>1 DEF Flattens
  <2> QED BY <1>1, <2>1, <2>2, <2>4
<1>5. f[n] = g[n]
  <2> HIDE DEF n
  <2> QED BY <1>1, <1>2, <1>4, FlattensUnique
<1>6. FlattenSeq(s) \in Seq(S)
  <2>1. n \in 0 .. n
    BY <1>1
  <2> QED BY <1>2, <2>1
<1>7. FlattenSeq(<<>>) = <<>>
  BY DEF FlattenSeq
<1>8. FlattenSeq(longer) = FlattenSeq(s) \o x
  BY <1>1, <1>2, <1>3, <1>4, <1>5
<1> QED BY <1>6, <1>7, <1>8 DEF longer

-----------------------------------------------------------------------------
(* What the translation of a message keeps of its blocks. *)

Block == [kind : Kinds, place : Nat]

UserMessage == [role : {"user", "tool"}, blocks : Seq(Block)]

UserAcc == [out : Seq(UserMessage), pending : Seq(Block)]

NoUser == [out |-> <<>>, pending |-> <<>>]

LEMMA UserBlockType ==
  ASSUME NEW acc \in UserAcc, NEW block \in Block
  PROVE  /\ UserBlock(acc, block) \in UserAcc
         /\ Flushed(acc) \in Seq(UserMessage)
<1>1. /\ acc.pending \in Seq(Block) /\ acc.out \in Seq(UserMessage)
      /\ acc = [out |-> acc.out, pending |-> acc.pending]
  BY DEF UserAcc
<1>2. Flushed(acc) \in Seq(UserMessage)
  <2>1. [role |-> "user", blocks |-> acc.pending] \in UserMessage
    BY <1>1 DEF UserMessage
  <2> DEFINE m == [role |-> "user", blocks |-> acc.pending]
  <2>2. Flushed(acc) = IF acc.pending = <<>> THEN acc.out ELSE Append(acc.out, m)
    BY DEF Flushed
  <2> HIDE DEF m
  <2> QED BY <1>1, <2>1, <2>2 DEF m
<1>3. <<block>> \in Seq(Block) /\ <<>> \in Seq(Block)
  BY EmptySeq
<1> DEFINE tool == [role |-> "tool", blocks |-> <<block>>]
<1>4. tool \in UserMessage
  BY <1>3 DEF UserMessage
<1>5. UserBlock(acc, block) = IF block.kind = "text"
        THEN [acc EXCEPT !.pending = Append(acc.pending, block)]
        ELSE [out |-> Append(Flushed(acc), tool), pending |-> <<>>]
  BY DEF UserBlock
<1> HIDE DEF tool
<1>6. Append(acc.pending, block) \in Seq(Block) /\ Append(Flushed(acc), tool) \in Seq(UserMessage)
  BY <1>1, <1>2, <1>4
<1>7. UserBlock(acc, block) \in UserAcc
  <2>1. CASE block.kind = "text"
    <3>1. UserBlock(acc, block) = [out |-> acc.out, pending |-> Append(acc.pending, block)]
      BY <1>1, <1>5, <2>1
    <3> QED BY <1>1, <1>6, <3>1 DEF UserAcc
  <2>2. CASE block.kind # "text"
    BY <1>3, <1>5, <1>6, <2>2 DEF UserAcc
  <2> QED BY <2>1, <2>2
<1> QED BY <1>2, <1>7

\* The fold over the blocks of a message of the user is a loop over its positions.
LEMMA UserLoop ==
  ASSUME NEW c \in Seq(Block)
  PROVE  \E acc \in [0 .. Len(c) -> UserAcc] :
           /\ acc[0] = NoUser
           /\ \A i \in 1 .. Len(c) : acc[i] = UserBlock(acc[i - 1], c[i])
           /\ FoldLeft(UserBlock, NoUser, c) = acc[Len(c)]
<1> DEFINE n == Len(c)
           G == [p \in UserAcc \X Block |-> UserBlock(p[1], p[2])]
           iter == CHOOSE it : it = [s \in SUBSET (1 .. n) |->
                     IF s = {} THEN NoUser ELSE UserBlock(it[s \ {Max(s)}], c[Max(s)])]
<1>1. n \in Nat /\ DOMAIN c = 1 .. n /\ c \in [1 .. n -> Block]
  BY LenProperties
<1>2. NoUser \in UserAcc
  BY EmptySeq DEF NoUser, UserAcc
<1>3. G \in [UserAcc \X Block -> UserAcc]
  BY UserBlockType
<1>4. FoldLeft(UserBlock, NoUser, c) = iter[1 .. n]
  BY <1>1 DEF FoldLeft, MapThenFoldSet
<1>5. PICK g \in [SUBSET (1 .. n) -> UserAcc] : Iterates(g, n, G, NoUser, c)
  <2> HIDE DEF G, n
  <2> QED BY <1>1, <1>2, <1>3, FoldExists
<1>6. ASSUME NEW s \in SUBSET (1 .. n), s # {}
      PROVE  s \ {Max(s)} \in SUBSET (1 .. n) /\ c[Max(s)] \in Block
  <2>1. Max(s) \in s
    BY <1>1, <1>6, GreatestNumber
  <2> QED BY <1>1, <2>1
<1>7. \A s \in SUBSET (1 .. n) : s # {} =>
        G[<<g[s \ {Max(s)}], c[Max(s)]>>] = UserBlock(g[s \ {Max(s)}], c[Max(s)])
  <2> SUFFICES ASSUME NEW s \in SUBSET (1 .. n), s # {}
               PROVE  G[<<g[s \ {Max(s)}], c[Max(s)]>>] = UserBlock(g[s \ {Max(s)}], c[Max(s)])
    OBVIOUS
  <2>1. <<g[s \ {Max(s)}], c[Max(s)]>> \in UserAcc \X Block
    BY <1>6
  <2> QED BY <2>1
<1>8. g = [s \in SUBSET (1 .. n) |->
             IF s = {} THEN NoUser ELSE UserBlock(g[s \ {Max(s)}], c[Max(s)])]
  <2> HIDE DEF G
  <2> QED BY <1>5, <1>7 DEF Iterates
<1>9. iter = [s \in SUBSET (1 .. n) |->
             IF s = {} THEN NoUser ELSE UserBlock(iter[s \ {Max(s)}], c[Max(s)])]
  BY <1>8
<1> HIDE DEF iter
<1>10. iter[{}] = NoUser /\ 1 .. 0 = {}
  BY <1>1, <1>9
<1>11. ASSUME NEW i \in 1 .. n PROVE iter[1 .. i] = UserBlock(iter[1 .. i - 1], c[i])
  <2>1. 1 .. i \in SUBSET (1 .. n) /\ i \in Nat \ {0}
    BY <1>1
  <2>2. Max(1 .. i) = i /\ (1 .. i) \ {i} = 1 .. i - 1 /\ 1 .. i # {}
    BY <2>1, Prefix
  <2>3. iter[1 .. i] = UserBlock(iter[(1 .. i) \ {Max(1 .. i)}], c[Max(1 .. i)])
    BY <1>9, <2>1, <2>2
  <2> QED BY <2>2, <2>3
<1> DEFINE T == {i \in 0 .. n : iter[1 .. i] \in UserAcc}
<1>12. 0 \in T
  BY <1>1, <1>2, <1>10
<1>13. ASSUME NEW i \in 1 .. n, i - 1 \in T PROVE i \in T
  <2>1. iter[1 .. i - 1] \in UserAcc /\ c[i] \in Block /\ i \in 0 .. n
    BY <1>1, <1>13
  <2>2. iter[1 .. i] \in UserAcc
    BY <1>11, <2>1, UserBlockType
  <2> QED BY <2>1, <2>2
<1>14. \A i \in 0 .. n : iter[1 .. i] \in UserAcc
  <2>1. T \in SUBSET (0 .. n)
    OBVIOUS
  <2> HIDE DEF T, n
  <2>2. T = 0 .. n
    BY <1>1, <1>12, <1>13, <2>1, UpToInduct
  <2> QED BY <2>2 DEF T
<1> DEFINE acc == [i \in 0 .. n |-> iter[1 .. i]]
<1>15. acc \in [0 .. n -> UserAcc] /\ acc[0] = NoUser /\ acc[n] = iter[1 .. n]
  BY <1>1, <1>10, <1>14
<1>16. \A i \in 1 .. n : acc[i] = UserBlock(acc[i - 1], c[i])
  <2> SUFFICES ASSUME NEW i \in 1 .. n PROVE acc[i] = UserBlock(acc[i - 1], c[i])
    OBVIOUS
  <2>1. acc[i] = iter[1 .. i] /\ acc[i - 1] = iter[1 .. i - 1]
    BY <1>1
  <2> QED BY <1>11, <2>1
<1> HIDE DEF acc
<1> QED BY <1>4, <1>15, <1>16

AssistantAcc == [texts : Seq(Block), calls : Seq(Block)]

NoAssistant == [texts |-> <<>>, calls |-> <<>>]

LEMMA AssistantBlockType ==
  ASSUME NEW acc \in AssistantAcc, NEW block \in Block
  PROVE  AssistantBlock(acc, block) \in AssistantAcc
<1>1. acc.texts \in Seq(Block) /\ acc.calls \in Seq(Block)
  BY DEF AssistantAcc
<1>2. Append(acc.texts, block) \in Seq(Block) /\ Append(acc.calls, block) \in Seq(Block)
  BY <1>1
<1> QED BY <1>1, <1>2 DEF AssistantBlock, AssistantAcc

\* The fold over the blocks of a message of the assistant is a loop over its positions.
LEMMA AssistantLoop ==
  ASSUME NEW c \in Seq(Block)
  PROVE  \E acc \in [0 .. Len(c) -> AssistantAcc] :
           /\ acc[0] = NoAssistant
           /\ \A i \in 1 .. Len(c) : acc[i] = AssistantBlock(acc[i - 1], c[i])
           /\ FoldLeft(AssistantBlock, NoAssistant, c) = acc[Len(c)]
<1> DEFINE n == Len(c)
           G == [p \in AssistantAcc \X Block |-> AssistantBlock(p[1], p[2])]
           iter == CHOOSE it : it = [s \in SUBSET (1 .. n) |->
                     IF s = {} THEN NoAssistant ELSE AssistantBlock(it[s \ {Max(s)}], c[Max(s)])]
<1>1. n \in Nat /\ DOMAIN c = 1 .. n /\ c \in [1 .. n -> Block]
  BY LenProperties
<1>2. NoAssistant \in AssistantAcc
  BY EmptySeq DEF NoAssistant, AssistantAcc
<1>3. G \in [AssistantAcc \X Block -> AssistantAcc]
  BY AssistantBlockType
<1>4. FoldLeft(AssistantBlock, NoAssistant, c) = iter[1 .. n]
  BY <1>1 DEF FoldLeft, MapThenFoldSet
<1>5. PICK g \in [SUBSET (1 .. n) -> AssistantAcc] : Iterates(g, n, G, NoAssistant, c)
  <2> HIDE DEF G, n
  <2> QED BY <1>1, <1>2, <1>3, FoldExists
<1>6. ASSUME NEW s \in SUBSET (1 .. n), s # {}
      PROVE  s \ {Max(s)} \in SUBSET (1 .. n) /\ c[Max(s)] \in Block
  <2>1. Max(s) \in s
    BY <1>1, <1>6, GreatestNumber
  <2> QED BY <1>1, <2>1
<1>7. \A s \in SUBSET (1 .. n) : s # {} =>
        G[<<g[s \ {Max(s)}], c[Max(s)]>>] = AssistantBlock(g[s \ {Max(s)}], c[Max(s)])
  <2> SUFFICES ASSUME NEW s \in SUBSET (1 .. n), s # {}
               PROVE  G[<<g[s \ {Max(s)}], c[Max(s)]>>] = AssistantBlock(g[s \ {Max(s)}], c[Max(s)])
    OBVIOUS
  <2>1. <<g[s \ {Max(s)}], c[Max(s)]>> \in AssistantAcc \X Block
    BY <1>6
  <2> QED BY <2>1
<1>8. g = [s \in SUBSET (1 .. n) |->
             IF s = {} THEN NoAssistant ELSE AssistantBlock(g[s \ {Max(s)}], c[Max(s)])]
  <2> HIDE DEF G
  <2> QED BY <1>5, <1>7 DEF Iterates
<1>9. iter = [s \in SUBSET (1 .. n) |->
             IF s = {} THEN NoAssistant ELSE AssistantBlock(iter[s \ {Max(s)}], c[Max(s)])]
  BY <1>8
<1> HIDE DEF iter
<1>10. iter[{}] = NoAssistant /\ 1 .. 0 = {}
  BY <1>1, <1>9
<1>11. ASSUME NEW i \in 1 .. n PROVE iter[1 .. i] = AssistantBlock(iter[1 .. i - 1], c[i])
  <2>1. 1 .. i \in SUBSET (1 .. n) /\ i \in Nat \ {0}
    BY <1>1
  <2>2. Max(1 .. i) = i /\ (1 .. i) \ {i} = 1 .. i - 1 /\ 1 .. i # {}
    BY <2>1, Prefix
  <2>3. iter[1 .. i] = AssistantBlock(iter[(1 .. i) \ {Max(1 .. i)}], c[Max(1 .. i)])
    BY <1>9, <2>1, <2>2
  <2> QED BY <2>2, <2>3
<1> DEFINE T == {i \in 0 .. n : iter[1 .. i] \in AssistantAcc}
<1>12. 0 \in T
  BY <1>1, <1>2, <1>10
<1>13. ASSUME NEW i \in 1 .. n, i - 1 \in T PROVE i \in T
  <2>1. iter[1 .. i - 1] \in AssistantAcc /\ c[i] \in Block /\ i \in 0 .. n
    BY <1>1, <1>13
  <2>2. iter[1 .. i] \in AssistantAcc
    BY <1>11, <2>1, AssistantBlockType
  <2> QED BY <2>1, <2>2
<1>14. \A i \in 0 .. n : iter[1 .. i] \in AssistantAcc
  <2>1. T \in SUBSET (0 .. n)
    OBVIOUS
  <2> HIDE DEF T, n
  <2>2. T = 0 .. n
    BY <1>1, <1>12, <1>13, <2>1, UpToInduct
  <2> QED BY <2>2 DEF T
<1> DEFINE acc == [i \in 0 .. n |-> iter[1 .. i]]
<1>15. acc \in [0 .. n -> AssistantAcc] /\ acc[0] = NoAssistant /\ acc[n] = iter[1 .. n]
  BY <1>1, <1>10, <1>14
<1>16. \A i \in 1 .. n : acc[i] = AssistantBlock(acc[i - 1], c[i])
  <2> SUFFICES ASSUME NEW i \in 1 .. n PROVE acc[i] = AssistantBlock(acc[i - 1], c[i])
    OBVIOUS
  <2>1. acc[i] = iter[1 .. i] /\ acc[i - 1] = iter[1 .. i - 1]
    BY <1>1
  <2> QED BY <1>11, <2>1
<1> HIDE DEF acc
<1> QED BY <1>4, <1>15, <1>16

\* What the messages written so far hold, in order.
Written(out) == FlattenSeq([i \in DOMAIN out |-> out[i].blocks])

LEMMA WrittenAppend ==
  ASSUME NEW out \in Seq(UserMessage), NEW m \in UserMessage
  PROVE  /\ Written(out) \in Seq(Block)
         /\ Written(Append(out, m)) = Written(out) \o m.blocks
         /\ Written(<<>>) = <<>>
<1> DEFINE held(o) == [i \in DOMAIN o |-> o[i].blocks]
<1>1. m.blocks \in Seq(Block) /\ \A u \in UserMessage : u.blocks \in Seq(Block)
  BY DEF UserMessage
<1>2. ASSUME NEW o \in Seq(UserMessage)
      PROVE  held(o) \in Seq(Seq(Block)) /\ Len(held(o)) = Len(o)
  <2>1. DOMAIN o = 1 .. Len(o) /\ Len(o) \in Nat /\ \A i \in 1 .. Len(o) : o[i] \in UserMessage
    BY LenProperties, ElementOfSeq
  <2>2. held(o) \in [1 .. Len(o) -> Seq(Block)]
    BY <1>1, <2>1
  <2> QED BY <2>1, <2>2, SeqDef, LenProperties
<1>3. held(Append(out, m)) = Append(held(out), m.blocks)
  <2>1. Append(out, m) \in Seq(UserMessage) /\ Len(Append(out, m)) = Len(out) + 1
        /\ Len(out) \in Nat /\ DOMAIN out = 1 .. Len(out)
        /\ DOMAIN Append(out, m) = 1 .. Len(out) + 1
        /\ Append(out, m)[Len(out) + 1] = m
        /\ \A i \in 1 .. Len(out) : Append(out, m)[i] = out[i]
    BY AppendProperties, LenProperties
  <2>2. held(out) \in Seq(Seq(Block)) /\ Len(held(out)) = Len(out)
    BY <1>2
  <2>3. held(Append(out, m)) \in Seq(Seq(Block)) /\ Len(held(Append(out, m))) = Len(out) + 1
    BY <1>2, <2>1
  <2>4. \A i \in 1 .. Len(out) : held(out)[i] = out[i].blocks
    BY <2>1
  <2>5. \A i \in 1 .. Len(out) + 1 : held(Append(out, m))[i] = Append(out, m)[i].blocks
    BY <2>1
  <2> HIDE DEF held
  <2>6. /\ Append(held(out), m.blocks) \in Seq(Seq(Block))
        /\ Len(Append(held(out), m.blocks)) = Len(out) + 1
        /\ Append(held(out), m.blocks)[Len(out) + 1] = m.blocks
        /\ \A i \in 1 .. Len(out) : Append(held(out), m.blocks)[i] = held(out)[i]
    BY <1>1, <2>2, AppendProperties
  <2>7. ASSUME NEW i \in 1 .. Len(out) + 1
        PROVE  held(Append(out, m))[i] = Append(held(out), m.blocks)[i]
    <3>1. CASE i = Len(out) + 1
      BY <2>1, <2>5, <2>6, <3>1
    <3>2. CASE i # Len(out) + 1
      <4>1. i \in 1 .. Len(out)
        BY <2>1, <3>2
      <4> QED BY <2>1, <2>4, <2>5, <2>6, <4>1
    <3> QED BY <3>1, <3>2
  <2> QED BY <2>3, <2>6, <2>7, SeqEqual
<1>4. held(<<>>) = <<>>
  <2>1. <<>> \in Seq(UserMessage)
    BY EmptySeq
  <2>2. Len(held(<<>>)) = 0 /\ held(<<>>) \in Seq(Seq(Block))
    BY <1>2, <2>1, EmptySeq
  <2> HIDE DEF held
  <2> QED BY <2>2, EmptySeq
<1>5. \A o : Written(o) = FlattenSeq(held(o))
  BY DEF Written
<1>6. held(out) \in Seq(Seq(Block))
  BY <1>2
<1> HIDE DEF held
<1> QED BY <1>1, <1>3, <1>4, <1>5, <1>6, FlattenAppend

\* What a translation has kept so far.
Kept(acc) == Written(acc.out) \o acc.pending

LEMMA KeptGrows ==
  ASSUME NEW acc \in UserAcc, NEW block \in Block
  PROVE  /\ Kept(acc) \in Seq(Block) /\ Kept(NoUser) = <<>>
         /\ Written(Flushed(acc)) = Kept(acc)
         /\ Kept(UserBlock(acc, block)) = Append(Kept(acc), block)
<1>1. acc.out \in Seq(UserMessage) /\ acc.pending \in Seq(Block)
  BY DEF UserAcc
<1> DEFINE user == [role |-> "user", blocks |-> acc.pending]
           tool == [role |-> "tool", blocks |-> <<block>>]
<1>2. <<block>> \in Seq(Block) /\ <<>> \in Seq(Block) /\ <<>> \in Seq(UserMessage)
  BY EmptySeq
<1>3. user \in UserMessage /\ tool \in UserMessage
      /\ user.blocks = acc.pending /\ tool.blocks = <<block>>
  BY <1>1, <1>2 DEF UserMessage
<1>4. Flushed(acc) \in Seq(UserMessage)
      /\ Flushed(acc) = IF acc.pending = <<>> THEN acc.out ELSE Append(acc.out, user)
  BY UserBlockType DEF Flushed
<1>5. UserBlock(acc, block) = IF block.kind = "text"
        THEN [acc EXCEPT !.pending = Append(acc.pending, block)]
        ELSE [out |-> Append(Flushed(acc), tool), pending |-> <<>>]
  BY DEF UserBlock
<1> HIDE DEF user, tool
<1>6. Written(acc.out) \in Seq(Block) /\ Written(<<>>) = <<>>
      /\ Written(Append(acc.out, user)) = Written(acc.out) \o acc.pending
      /\ Written(Append(Flushed(acc), tool)) = Written(Flushed(acc)) \o <<block>>
  BY <1>1, <1>3, <1>4, WrittenAppend
<1>7. Kept(acc) \in Seq(Block)
  BY <1>1, <1>6, ConcatProperties DEF Kept
<1>8. Kept(NoUser) = <<>>
  <2>1. <<>> \o <<>> = <<>>
    BY <1>2, ConcatEmptySeq
  <2> QED BY <1>6, <2>1 DEF Kept, NoUser
<1>9. Written(Flushed(acc)) = Kept(acc)
  <2>1. Written(acc.out) \o <<>> = Written(acc.out)
    BY <1>6, ConcatEmptySeq
  <2> QED BY <1>4, <1>6, <2>1 DEF Kept
<1>10. \A s \in Seq(Block) : s \o <<block>> = Append(s, block)
  BY AppendIsConcat
<1>11. CASE block.kind = "text"
  <2>1. UserBlock(acc, block) = [out |-> acc.out, pending |-> Append(acc.pending, block)]
    BY <1>5, <1>11 DEF UserAcc
  <2>2. Kept(UserBlock(acc, block)) = Written(acc.out) \o (acc.pending \o <<block>>)
    <3>1. /\ UserBlock(acc, block).out = acc.out
          /\ UserBlock(acc, block).pending = Append(acc.pending, block)
      BY <2>1
    <3>2. Append(acc.pending, block) = acc.pending \o <<block>>
      BY <1>1, <1>10
    <3> QED BY <3>1, <3>2, Zenon DEF Kept
  <2>3. \A a, b, c \in Seq(Block) : a \o (b \o c) = (a \o b) \o c
    BY ConcatAssociative
  <2>4. Kept(UserBlock(acc, block)) = Kept(acc) \o <<block>>
    BY <1>1, <1>2, <1>6, <2>2, <2>3 DEF Kept
  <2> QED BY <1>7, <1>8, <1>9, <1>10, <2>4
<1>12. CASE block.kind # "text"
  <2>1. UserBlock(acc, block) = [out |-> Append(Flushed(acc), tool), pending |-> <<>>]
    BY <1>5, <1>12
  <2>2. Kept(UserBlock(acc, block)) = (Kept(acc) \o <<block>>) \o <<>>
    <3>1. /\ UserBlock(acc, block).out = Append(Flushed(acc), tool)
          /\ UserBlock(acc, block).pending = <<>>
      BY <2>1
    <3>2. Written(Append(Flushed(acc), tool)) = Kept(acc) \o <<block>>
      BY <1>6, <1>9
    <3> QED BY <3>1, <3>2, Zenon DEF Kept
  <2>3. Append(Kept(acc), block) \o <<>> = Append(Kept(acc), block)
    BY <1>7, AppendProperties, ConcatEmptySeq
  <2> QED BY <1>7, <1>8, <1>9, <1>10, <2>2, <2>3
<1> QED BY <1>11, <1>12

LEMMA AppendedAt ==
  ASSUME NEW S, NEW s \in Seq(S), NEW x \in S, NEW i \in Nat \ {0}, Len(s) = i - 1
  PROVE  /\ Len(Append(s, x)) = i /\ Append(s, x)[i] = x
         /\ \A j \in 1 .. i - 1 : Append(s, x)[j] = s[j]
<1>1. /\ Len(Append(s, x)) = Len(s) + 1 /\ Append(s, x)[Len(s) + 1] = x
      /\ \A j \in 1 .. Len(s) : Append(s, x)[j] = s[j]
  BY AppendProperties
<1> QED BY <1>1

\* A sequence that takes the elements of c one by one is c.
LEMMA TakesAll ==
  ASSUME NEW S, NEW c \in Seq(S), NEW kept \in [0 .. Len(c) -> Seq(S)],
         kept[0] = <<>>, \A i \in 1 .. Len(c) : kept[i] = Append(kept[i - 1], c[i])
  PROVE  kept[Len(c)] = c
<1> DEFINE n == Len(c)
           T == {i \in 0 .. n : Len(kept[i]) = i /\ \A j \in 1 .. i : kept[i][j] = c[j]}
<1>1. n \in Nat
  BY LenProperties
<1>2. 0 \in T
  BY <1>1, EmptySeq
<1>3. ASSUME NEW i \in 1 .. n, i - 1 \in T PROVE i \in T
  <2>1. i \in 0 .. n /\ i - 1 \in 0 .. n /\ i \in Nat /\ i - 1 \in Nat /\ (i - 1) + 1 = i
    BY <1>1
  <2>2. Len(kept[i - 1]) = i - 1 /\ \A j \in 1 .. i - 1 : kept[i - 1][j] = c[j]
    BY <1>3
  <2>3. kept[i - 1] \in Seq(S) /\ c[i] \in S /\ kept[i] = Append(kept[i - 1], c[i])
    BY <2>1, ElementOfSeq
  <2>4. Len(kept[i]) = i /\ kept[i][i] = c[i]
        /\ \A j \in 1 .. i - 1 : kept[i][j] = kept[i - 1][j]
    <3>1. i \in Nat \ {0} /\ Len(kept[i - 1]) = i - 1
      BY <2>1, <2>2
    <3>2. ASSUME NEW s \in Seq(S), NEW x \in S, Len(s) = i - 1
          PROVE /\ Len(Append(s, x)) = i /\ Append(s, x)[i] = x
                /\ \A j \in 1 .. i - 1 : Append(s, x)[j] = s[j]
      BY <3>1, <3>2, AppendedAt
    <3>3. /\ Len(Append(kept[i - 1], c[i])) = i /\ Append(kept[i - 1], c[i])[i] = c[i]
          /\ \A j \in 1 .. i - 1 : Append(kept[i - 1], c[i])[j] = kept[i - 1][j]
      BY <2>3, <3>1, <3>2, Zenon
    <3> QED BY <2>3, <3>3, Zenon
  <2>5. \A j \in 1 .. i : kept[i][j] = c[j]
    <3> SUFFICES ASSUME NEW j \in 1 .. i PROVE kept[i][j] = c[j]
      OBVIOUS
    <3>1. j = i \/ j \in 1 .. i - 1
      BY <2>1
    <3> QED BY <2>2, <2>4, <3>1
  <2> QED BY <2>1, <2>4, <2>5
<1>4. T \in SUBSET (0 .. n)
  OBVIOUS
<1> HIDE DEF T
<1>5. T = 0 .. n
  <2> HIDE DEF n
  <2> QED BY <1>1, <1>2, <1>3, <1>4, UpToInduct
<1>6. Len(kept[n]) = n /\ \A j \in 1 .. n : kept[n][j] = c[j]
  <2>1. n \in T
    BY <1>1, <1>5
  <2> QED BY <2>1 DEF T
<1>7. kept[n] \in Seq(S)
  BY <1>1
<1> QED BY <1>6, <1>7, SeqEqual

\* The messages written for one of the user hold its blocks, in order.
LEMMA UserKeepsBlocks ==
  ASSUME NEW c \in Seq(Block)
  PROVE  Written(Flushed(FoldLeft(UserBlock, NoUser, c))) = c
<1> DEFINE n == Len(c)
<1>1. n \in Nat /\ \A i \in 1 .. n : c[i] \in Block
  BY LenProperties, ElementOfSeq
<1>2. PICK acc \in [0 .. n -> UserAcc] :
        /\ acc[0] = NoUser
        /\ \A i \in 1 .. n : acc[i] = UserBlock(acc[i - 1], c[i])
        /\ FoldLeft(UserBlock, NoUser, c) = acc[n]
  BY UserLoop
<1> DEFINE kept == [i \in 0 .. n |-> Kept(acc[i])]
<1>3. ASSUME NEW i \in 1 .. n PROVE kept[i] = Append(kept[i - 1], c[i])
  <2>1. i \in 0 .. n /\ i - 1 \in 0 .. n
    BY <1>1
  <2>2. kept[i] = Kept(acc[i]) /\ kept[i - 1] = Kept(acc[i - 1])
    BY <2>1
  <2>3. acc[i - 1] \in UserAcc /\ c[i] \in Block /\ acc[i] = UserBlock(acc[i - 1], c[i])
    BY <1>1, <1>2, <2>1
  <2> HIDE DEF kept
  <2> QED BY <2>2, <2>3, KeptGrows
<1>4. kept \in [0 .. n -> Seq(Block)]
  <2> SUFFICES ASSUME NEW i \in 0 .. n PROVE Kept(acc[i]) \in Seq(Block)
    OBVIOUS
  <2>1. acc[i] \in UserAcc /\ acc[i].out \in Seq(UserMessage) /\ acc[i].pending \in Seq(Block)
    BY DEF UserAcc
  <2>2. [role |-> "user", blocks |-> acc[i].pending] \in UserMessage
    BY <2>1 DEF UserMessage
  <2>3. Written(acc[i].out) \in Seq(Block)
    BY <2>1, <2>2, WrittenAppend
  <2> QED BY <2>1, <2>3, ConcatProperties DEF Kept
<1>5. kept[0] = <<>> /\ kept[n] = Kept(acc[n])
  <2>1. Kept(NoUser) = <<>>
    <3>1. <<>> \in Seq(Block) /\ [role |-> "user", blocks |-> <<>>] \in UserMessage
          /\ <<>> \in Seq(UserMessage)
      BY EmptySeq DEF UserMessage
    <3>2. Written(<<>>) = <<>>
      BY <3>1, WrittenAppend
    <3> QED BY <3>1, <3>2, ConcatEmptySeq DEF Kept, NoUser
  <2> QED BY <1>1, <1>2, <2>1
<1> HIDE DEF kept
<1>6. kept[n] = c
  BY <1>3, <1>4, <1>5, TakesAll
<1>7. Written(Flushed(acc[n])) = Kept(acc[n])
  <2>1. acc[n] \in UserAcc
    BY <1>1
  <2>2. [kind |-> "text", place |-> 0] \in Block
    BY DEF Block, Kinds
  <2> QED BY <2>1, <2>2, KeptGrows
<1> QED BY <1>2, <1>5, <1>6, <1>7

\* s holds the blocks of one kind among the first i of c, in order.
Picked(s, kind, c, i) ==
  /\ s \in Seq(Block)
  /\ Range(s) = {c[j] : j \in {k \in 1 .. i : c[k].kind = kind}}
  /\ \A p, q \in DOMAIN s : p < q => s[p].place < s[q].place

\* A message is a sequence of blocks that know their places.
Placed(c) == c \in Seq(Block) /\ \A i \in 1 .. Len(c) : c[i].place = i

LEMMA PickedStep ==
  ASSUME NEW c, Placed(c), NEW i \in 1 .. Len(c), NEW kind, NEW s, Picked(s, kind, c, i - 1)
  PROVE  Picked(IF c[i].kind = kind THEN Append(s, c[i]) ELSE s, kind, c, i)
<1>1. Len(c) \in Nat /\ c \in Seq(Block) /\ c[i] \in Block /\ c[i].place = i
      /\ \A k \in 1 .. Len(c) : c[k].place = k
  BY LenProperties, ElementOfSeq DEF Placed
<1>2. s \in Seq(Block) /\ Len(s) \in Nat /\ DOMAIN s = 1 .. Len(s)
      /\ Range(s) = {c[j] : j \in {k \in 1 .. i - 1 : c[k].kind = kind}}
      /\ \A p, q \in 1 .. Len(s) : p < q => s[p].place < s[q].place
  BY LenProperties DEF Picked
<1>3. 1 .. i = (1 .. i - 1) \cup {i} /\ 1 .. i \subseteq 1 .. Len(c)
  BY <1>1
<1>4. CASE c[i].kind = kind
  <2> DEFINE t == Append(s, c[i])
  <2>1. t \in Seq(Block) /\ Len(t) = Len(s) + 1 /\ t[Len(s) + 1] = c[i]
        /\ \A j \in 1 .. Len(s) : t[j] = s[j]
    BY <1>1, <1>2, AppendProperties
  <2>2. DOMAIN t = 1 .. Len(s) + 1
    BY <2>1, LenProperties
  <2> HIDE DEF t
  <2>3. Range(t) = Range(s) \cup {c[i]}
    <3>1. Range(t) = {t[j] : j \in 1 .. Len(s) + 1} /\ Range(s) = {s[j] : j \in 1 .. Len(s)}
      BY <1>2, <2>2 DEF Range
    <3>2. 1 .. Len(s) + 1 = (1 .. Len(s)) \cup {Len(s) + 1}
      BY <1>2
    <3> QED BY <2>1, <3>1, <3>2
  <2>4. {k \in 1 .. i : c[k].kind = kind} = {k \in 1 .. i - 1 : c[k].kind = kind} \cup {i}
    BY <1>3, <1>4
  <2>5. Range(t) = {c[j] : j \in {k \in 1 .. i : c[k].kind = kind}}
    <3> DEFINE older == {k \in 1 .. i - 1 : c[k].kind = kind}
    <3>1. Range(t) = {c[j] : j \in older} \cup {c[i]}
      BY <1>2, <2>3
    <3> HIDE DEF older
    <3>2. {c[j] : j \in older \cup {i}} = {c[j] : j \in older} \cup {c[i]}
      OBVIOUS
    <3> QED BY <2>4, <3>1, <3>2 DEF older
  <2>6. \A p \in 1 .. Len(s) : s[p].place < i
    <3> SUFFICES ASSUME NEW p \in 1 .. Len(s) PROVE s[p].place < i
      OBVIOUS
    <3>1. s[p] \in Range(s)
      BY <1>2 DEF Range
    <3>2. PICK k \in 1 .. i - 1 : s[p] = c[k]
      BY <1>2, <3>1
    <3>3. k \in 1 .. Len(c) /\ k < i
      BY <1>1, <3>2
    <3> QED BY <1>1, <3>2, <3>3
  <2>7. ASSUME NEW p \in DOMAIN t, NEW q \in DOMAIN t, p < q
        PROVE  t[p].place < t[q].place
    <3>1. p \in 1 .. Len(s)
      BY <1>2, <2>2, <2>7
    <3>2. CASE q \in 1 .. Len(s)
      BY <1>2, <2>1, <2>7, <3>1, <3>2
    <3>3. CASE q = Len(s) + 1
      BY <1>1, <2>1, <2>6, <3>1, <3>3
    <3> QED BY <1>2, <2>2, <3>2, <3>3
  <2>8. Picked(t, kind, c, i)
    BY <2>1, <2>5, <2>7 DEF Picked
  <2> QED BY <1>4, <2>8 DEF t
<1>5. CASE c[i].kind # kind
  <2>1. {k \in 1 .. i : c[k].kind = kind} = {k \in 1 .. i - 1 : c[k].kind = kind}
    BY <1>3, <1>5
  <2>2. Picked(s, kind, c, i)
    BY <2>1 DEF Picked
  <2> QED BY <1>5, <2>2
<1> QED BY <1>4, <1>5

\* The fold over a message of the assistant picks its texts and its calls.
LEMMA AssistantPicks ==
  ASSUME NEW c, Placed(c)
  PROVE  LET acc == FoldLeft(AssistantBlock, NoAssistant, c)
         IN Picked(acc.texts, "text", c, Len(c)) /\ Picked(acc.calls, "tool_use", c, Len(c))
<1> DEFINE n == Len(c)
<1>1. n \in Nat /\ c \in Seq(Block)
  BY LenProperties DEF Placed
<1>2. PICK acc \in [0 .. n -> AssistantAcc] :
        /\ acc[0] = NoAssistant
        /\ \A i \in 1 .. n : acc[i] = AssistantBlock(acc[i - 1], c[i])
        /\ FoldLeft(AssistantBlock, NoAssistant, c) = acc[n]
  BY <1>1, AssistantLoop
<1> DEFINE Good(i) == Picked(acc[i].texts, "text", c, i) /\ Picked(acc[i].calls, "tool_use", c, i)
           T == {i \in 0 .. n : Good(i)}
<1>3. 0 \in T
  <2>1. \A kind : {c[j] : j \in {k \in 1 .. 0 : c[k].kind = kind}} = {}
    OBVIOUS
  <2>2. <<>> \in Seq(Block) /\ DOMAIN <<>> = {} /\ Range(<<>>) = {}
    BY EmptySeq DEF Range
  <2>3. \A kind : Picked(<<>>, kind, c, 0)
    BY <2>1, <2>2 DEF Picked
  <2>4. acc[0].texts = <<>> /\ acc[0].calls = <<>>
    BY <1>2 DEF NoAssistant
  <2>5. Good(0)
    BY <2>3, <2>4
  <2> QED BY <1>1, <2>5
<1>4. ASSUME NEW i \in 1 .. n, i - 1 \in T PROVE i \in T
  <2>1. Good(i - 1) /\ i \in 0 .. n
    BY <1>1, <1>4
  <2>2. /\ acc[i].texts = IF c[i].kind = "text" THEN Append(acc[i - 1].texts, c[i])
                          ELSE acc[i - 1].texts
        /\ acc[i].calls = IF c[i].kind = "tool_use" THEN Append(acc[i - 1].calls, c[i])
                          ELSE acc[i - 1].calls
    <3>1. acc[i] = AssistantBlock(acc[i - 1], c[i])
      BY <1>2
    <3> QED BY <3>1 DEF AssistantBlock
  <2>3. Picked(acc[i].texts, "text", c, i)
    BY <2>1, <2>2, PickedStep
  <2>4. Picked(acc[i].calls, "tool_use", c, i)
    BY <2>1, <2>2, PickedStep
  <2> QED BY <2>1, <2>3, <2>4
<1>5. T \in SUBSET (0 .. n)
  OBVIOUS
<1> HIDE DEF T
<1>6. T = 0 .. n
  <2> HIDE DEF n
  <2> QED BY <1>1, <1>3, <1>4, <1>5, UpToInduct
<1>7. Good(n)
  <2>1. n \in T
    BY <1>1, <1>6
  <2> QED BY <2>1 DEF T
<1> QED BY <1>2, <1>7

LEMMA ContentPlaced ==
  ASSUME NEW b \in Bodies
  PROVE  Placed(Content(b))
<1>1. b.kinds \in Seq(Kinds)
  BY BodiesAssumption
<1>2. Len(b.kinds) \in Nat /\ DOMAIN b.kinds = 1 .. Len(b.kinds)
      /\ \A i \in 1 .. Len(b.kinds) : b.kinds[i] \in Kinds
  BY <1>1, LenProperties, ElementOfSeq
<1>3. Content(b) = [i \in 1 .. Len(b.kinds) |-> [kind |-> b.kinds[i], place |-> i]]
  BY <1>2 DEF Content
<1>4. \A i \in 1 .. Len(b.kinds) : [kind |-> b.kinds[i], place |-> i] \in Block
  BY <1>2 DEF Block
<1>5. Content(b) \in [1 .. Len(b.kinds) -> Block]
  BY <1>3, <1>4
<1>6. Content(b) \in Seq(Block) /\ Len(Content(b)) = Len(b.kinds)
  BY <1>2, <1>5, SeqDef, LenProperties
<1>7. \A i \in 1 .. Len(b.kinds) : Content(b)[i].place = i
  BY <1>3
<1> QED BY <1>6, <1>7 DEF Placed

\* The texts of a message of the assistant, then its calls: all of them, each kind in
\* order.
LEMMA JoinedPicks ==
  ASSUME NEW c, Placed(c), NEW x, NEW y,
         Picked(x, "text", c, Len(c)), Picked(y, "tool_use", c, Len(c)),
         NEW written \in Seq(Block), Len(written) = Len(x) + Len(y),
         \A i \in 1 .. Len(x) : written[i] = x[i],
         \A i \in 1 .. Len(y) : written[Len(x) + i] = y[i]
  PROVE  /\ Range(written) = {block \in Range(c) : block.kind \in {"text", "tool_use"}}
         /\ \A i, j \in DOMAIN written :
              i < j /\ written[i].kind = written[j].kind => written[i].place < written[j].place
<1> DEFINE n == Len(c)
<1>1. Picked(x, "text", c, n) /\ Picked(y, "tool_use", c, n)
  OBVIOUS
<1>2. c \in Seq(Block) /\ n \in Nat /\ DOMAIN c = 1 .. n
  BY LenProperties DEF Placed
<1>3. /\ x \in Seq(Block) /\ Len(x) \in Nat /\ DOMAIN x = 1 .. Len(x)
      /\ y \in Seq(Block) /\ Len(y) \in Nat /\ DOMAIN y = 1 .. Len(y)
  BY <1>1, LenProperties DEF Picked
<1> HIDE DEF n
<1>5. DOMAIN written = 1 .. Len(x) + Len(y)
  BY LenProperties
<1>6. /\ \A i \in 1 .. Len(x) : x[i].kind = "text"
      /\ \A i \in 1 .. Len(y) : y[i].kind = "tool_use"
  <2>1. /\ \A i \in 1 .. Len(x) : x[i] \in Range(x)
        /\ \A i \in 1 .. Len(y) : y[i] \in Range(y)
    BY <1>3 DEF Range
  <2>2. /\ \A block \in Range(x) : block.kind = "text"
        /\ \A block \in Range(y) : block.kind = "tool_use"
    BY <1>1 DEF Picked
  <2> QED BY <2>1, <2>2
<1>4. ASSUME NEW i \in DOMAIN written
      PROVE  \/ i \in 1 .. Len(x) /\ written[i] = x[i]
             \/ i - Len(x) \in 1 .. Len(y) /\ written[i] = y[i - Len(x)]
  <2>1. CASE i <= Len(x)
    BY <1>3, <1>5, <2>1
  <2>2. CASE ~(i <= Len(x))
    <3>1. i - Len(x) \in 1 .. Len(y) /\ Len(x) + (i - Len(x)) = i
      BY <1>3, <1>5, <2>2
    <3> QED BY <3>1
  <2> QED BY <2>1, <2>2
<1>7. Range(written) = Range(x) \cup Range(y)
  <2>1. ASSUME NEW i \in 1 .. Len(y) PROVE y[i] \in Range(written)
    <3>1. Len(x) + i \in DOMAIN written /\ written[Len(x) + i] = y[i]
      BY <1>3, <1>5
    <3> QED BY <3>1 DEF Range
  <2>2. ASSUME NEW i \in 1 .. Len(x) PROVE x[i] \in Range(written)
    <3>1. i \in DOMAIN written /\ written[i] = x[i]
      BY <1>3, <1>5
    <3> QED BY <3>1 DEF Range
  <2>3. ASSUME NEW i \in DOMAIN written PROVE written[i] \in Range(x) \cup Range(y)
    BY <1>3, <1>4 DEF Range
  <2>4. Range(x) \subseteq Range(written) /\ Range(y) \subseteq Range(written)
    BY <1>3, <2>1, <2>2 DEF Range
  <2>5. Range(written) \subseteq Range(x) \cup Range(y)
    <3>1. Range(written) = {written[i] : i \in DOMAIN written}
      BY DEF Range
    <3> QED BY <2>3, <3>1
  <2> QED BY <2>4, <2>5
<1>8. Range(x) \cup Range(y) = {block \in Range(c) : block.kind \in {"text", "tool_use"}}
  <2>1. Range(x) = {c[j] : j \in {k \in 1 .. n : c[k].kind = "text"}}
        /\ Range(y) = {c[j] : j \in {k \in 1 .. n : c[k].kind = "tool_use"}}
    BY <1>1 DEF Picked
  <2>2. Range(c) = {c[j] : j \in 1 .. n}
    BY <1>2 DEF Range
  <2> QED BY <2>1, <2>2
<1>9. ASSUME NEW i \in DOMAIN written, NEW j \in DOMAIN written, i < j,
             written[i].kind = written[j].kind
      PROVE  written[i].place < written[j].place
  <2>1. CASE j <= Len(x)
    <3>1. i \in 1 .. Len(x) /\ j \in 1 .. Len(x)
      BY <1>3, <1>5, <1>9, <2>1
    <3>2. x[i].place < x[j].place
      BY <1>1, <1>3, <1>9, <3>1 DEF Picked
    <3> QED BY <3>1, <3>2
  <2>2. CASE i > Len(x)
    <3>1. i - Len(x) \in 1 .. Len(y) /\ j - Len(x) \in 1 .. Len(y) /\ i - Len(x) < j - Len(x)
      BY <1>3, <1>5, <1>9, <2>2
    <3>2. y[i - Len(x)].place < y[j - Len(x)].place
      BY <1>1, <1>3, <3>1 DEF Picked
    <3>3. written[i] = y[i - Len(x)] /\ written[j] = y[j - Len(x)]
      <4>1. i \notin 1 .. Len(x) /\ j \notin 1 .. Len(x)
        BY <1>3, <1>5, <1>9, <2>2
      <4> QED BY <1>4, <4>1
    <3> QED BY <3>2, <3>3
  <2>3. CASE ~(j <= Len(x)) /\ ~(i > Len(x))
    <3>1. i \in 1 .. Len(x) /\ j \notin 1 .. Len(x) /\ i - Len(x) \notin 1 .. Len(y)
      BY <1>3, <1>5, <1>9, <2>3
    <3>2. written[i].kind = "text" /\ written[j].kind = "tool_use"
      BY <1>4, <1>6, <3>1
    <3> QED BY <1>9, <3>2
  <2> QED BY <1>3, <1>5, <2>1, <2>2, <2>3
<1> QED BY <1>7, <1>8, <1>9

\* What the provider is sent of a message of the assistant.
LEMMA AssistantKeepsBlocks ==
  ASSUME NEW c, Placed(c)
  PROVE  LET acc == FoldLeft(AssistantBlock, NoAssistant, c)
             written == acc.texts \o acc.calls
         IN /\ written \in Seq(Block)
            /\ Range(written) = {block \in Range(c) : block.kind \in {"text", "tool_use"}}
            /\ \A i, j \in DOMAIN written :
                 i < j /\ written[i].kind = written[j].kind =>
                   written[i].place < written[j].place
<1> DEFINE acc == FoldLeft(AssistantBlock, NoAssistant, c)
           x == acc.texts
           y == acc.calls
           written == x \o y
<1>1. Picked(x, "text", c, Len(c)) /\ Picked(y, "tool_use", c, Len(c))
  BY AssistantPicks
<1> HIDE DEF acc
<1>2. x \in Seq(Block) /\ y \in Seq(Block) /\ Len(x) \in Nat /\ Len(y) \in Nat
  BY <1>1, LenProperties DEF Picked
<1>3. /\ written \in Seq(Block) /\ Len(written) = Len(x) + Len(y)
      /\ \A i \in 1 .. Len(x) : written[i] = x[i]
      /\ \A i \in Len(x) + 1 .. Len(x) + Len(y) : written[i] = y[i - Len(x)]
  <2> HIDE DEF x, y
  <2>1. \A s, t \in Seq(Block) :
          /\ s \o t \in Seq(Block) /\ Len(s \o t) = Len(s) + Len(t)
          /\ \A i \in 1 .. Len(s) : (s \o t)[i] = s[i]
          /\ \A i \in Len(s) + 1 .. Len(s) + Len(t) : (s \o t)[i] = t[i - Len(s)]
    BY ConcatProperties
  <2> QED BY <1>2, <2>1, Zenon
<1> HIDE DEF x, y, written
<1>4. ASSUME NEW i \in 1 .. Len(y) PROVE written[Len(x) + i] = y[i]
  <2>1. Len(x) + i \in Len(x) + 1 .. Len(x) + Len(y) /\ (Len(x) + i) - Len(x) = i
    BY <1>2
  <2> QED BY <1>3, <2>1
<1>5. /\ Range(written) = {block \in Range(c) : block.kind \in {"text", "tool_use"}}
      /\ \A i, j \in DOMAIN written :
           i < j /\ written[i].kind = written[j].kind => written[i].place < written[j].place
  BY <1>1, <1>3, <1>4, JoinedPicks
<1> QED BY <1>3, <1>5, Zenon DEF acc, x, y, written

\* A request that has been translated is the translation of an allowed message.
Translated == main = "translated" => body \in Bodies /\ request = translate_request(body)

LEMMA TranslatedInvariant == CallsSpec => []Translated
<1>1. CallsInit => Translated
  BY DEF CallsInit, Translated
<1>2. ASSUME Translated, [CallsNext]_modelVars PROVE Translated'
  <2>1. ASSUME NEW c \in Others,
               \/ SendOther(c) \/ SendSearch(c) \/ RefuseSearch(c)
               \/ Answered(c) \/ Searched(c) \/ OtherFails(c)
        PROVE  UNCHANGED callVars
    BY <2>1 DEF SendOther, SendSearch, RefuseSearch, Answered, Searched, OtherFails
  <2>2. CASE Translate
    BY <2>2 DEF Translate, Translated
  <2>3. CASE SendMain \/ RefuseMain \/ Headers \/ Fail \/ MessageStop \/ EndOfStream
    BY <2>3 DEF SendMain, RefuseMain, Headers, Fail, MessageStop, EndOfStream, Leave, Translated
  <2>4. CASE UNCHANGED callVars
    <3>1. translate_request(body)' = translate_request(body)
      BY <2>4 DEF callVars, translate_request, Content
    <3> QED BY <1>2, <2>4 DEF callVars, Translated
  <2>5. CASE Deadline \/ CloseBlock \/ UNCHANGED modelVars
    BY <2>4, <2>5 DEF Deadline, CloseBlock, modelVars
  <2>6. CASE Streaming
    BY <2>3, <2>4, <2>6 DEF Streaming, TextDelta, Fragment, FinishReason, UsageChunk
  <2> QED BY <1>2, <2>1, <2>2, <2>3, <2>4, <2>5, <2>6 DEF CallsNext
<1> QED BY <1>1, <1>2, PTL DEF CallsSpec

\* A request that is sent holds every text, result and call of the message it was
\* translated from, whatever its length, in the order the provider needs
\* (chat_to_messages.py:66-114).
THEOREM RequestsKeepBlocks == CallsSpec => []RequestKeepsBlocks
<1>1. Translated => RequestKeepsBlocks
  <2> SUFFICES ASSUME body \in Bodies, request = translate_request(body), main = "translated"
               PROVE  RequestKeepsBlocks
    BY DEF Translated, RequestKeepsBlocks
  <2> DEFINE c == Content(body)
  <2>1. Placed(c) /\ body.role \in {"user", "assistant"}
    BY ContentPlaced, BodiesAssumption
  <2>2. CASE body.role = "user"
    <3>1. request = Flushed(FoldLeft(UserBlock, NoUser, c))
      BY <2>2 DEF translate_request, NoUser
    <3>2. Written(request) = c
      BY <2>1, <3>1, UserKeepsBlocks DEF Placed
    <3> QED BY <2>2, <3>2 DEF RequestKeepsBlocks, Written
  <2>3. CASE body.role = "assistant"
    <3> DEFINE acc == FoldLeft(AssistantBlock, NoAssistant, c)
               whole == acc.texts \o acc.calls
    <3>1. /\ whole \in Seq(Block)
          /\ Range(whole) = {block \in Range(c) : block.kind \in {"text", "tool_use"}}
          /\ \A i, j \in DOMAIN whole :
               i < j /\ whole[i].kind = whole[j].kind => whole[i].place < whole[j].place
      BY <2>1, AssistantKeepsBlocks
    <3>2. request = << [role |-> "assistant", blocks |-> whole] >>
      BY <2>3 DEF translate_request, NoAssistant
    <3> HIDE DEF acc, c, whole
    <3>3. [i \in DOMAIN request |-> request[i].blocks] = <<whole>>
      BY <3>2
    <3>4. FlattenSeq(<<whole>>) = whole
      <4>1. <<>> \in Seq(Seq(Block)) /\ Append(<<>>, whole) = <<whole>>
        BY <3>1, EmptySeq
      <4>2. FlattenSeq(Append(<<>>, whole)) = <<>> \o whole
        BY <3>1, <4>1, FlattenAppend
      <4> QED BY <3>1, <4>1, <4>2, ConcatEmptySeq
    <3>5. Len(request) = 1 /\ body.role # "user"
      BY <2>3, <3>2
    <3>6. FlattenSeq([i \in DOMAIN request |-> request[i].blocks]) = whole
      BY <3>3, <3>4
    <3> QED BY <3>1, <3>5, <3>6 DEF RequestKeepsBlocks, c
  <2> QED BY <2>1, <2>2, <2>3
<1> QED BY <1>1, TranslatedInvariant, PTL
=============================================================================
