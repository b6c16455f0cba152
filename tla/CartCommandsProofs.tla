------------------------- MODULE CartCommandsProofs -------------------------
(***************************************************************************)
(* Theorems about CartCommands for every number of buyers, keys and        *)
(* handlers, and the proof that it implements CartIntents.                 *)
(***************************************************************************)
EXTENDS CartCommands, TLAPS

\* Every suspended handler works on a registered row, and so does every
\* request that Java still holds.
RowsFirst ==
  /\ \A h \in Handlers : pc[h] # "idle" =>
       at[h] \in Keys /\ command[at[h]] # NoCommand
  /\ \A k \in late : command[k] # NoCommand

\* Java carried out what the row says, and a result is a receipt of Java.
LedgerMatchesRows ==
  /\ \A k \in Keys : ledger[k] # NoCommand => ledger[k] = command[k]
  /\ \A k \in result : ledger[k] # NoCommand

\* No body is ahead of its cart: versions only grow.
NotAhead ==
  \A k \in Keys : command[k] # NoCommand =>
    command[k].expected <= version[command[k].owner]

\* The row k lost the race for its version: nothing can carry it out any more.
Overtaken(k) ==
  /\ command[k] # NoCommand
  /\ ledger[k] = NoCommand
  /\ command[k].operation \in Versioned
  /\ command[k].expected < version[command[k].owner]

\* What an answer on its way to a handler says is still true when it arrives.
AnswersStayTrue ==
  \A h \in Handlers :
    /\ pc[h] \in {"found", "accepted"} => ledger[at[h]] # NoCommand
    /\ pc[h] = "conflict" => Overtaken(at[h])

ConflictsOvertaken ==
  \A k \in Keys : rejection[k] = "VERSION_CONFLICT" => Overtaken(k)

IInv ==
  /\ TypeOK
  /\ RowsFirst
  /\ LedgerMatchesRows
  /\ NotAhead
  /\ AnswersStayTrue
  /\ ConflictsOvertaken
  /\ AtMostOneUnknown
  /\ OneOutcome
-----------------------------------------------------------------------------
(* Facts about the operators of the model. *)

LEMMA FormedBodies ==
  ASSUME TypeOK, NEW o \in Owners, NEW b \in Formed(o)
  PROVE  b \in Body /\ b.owner = o /\ b.expected <= version[o]
BY CartAssumption DEF TypeOK, Formed, Body, Versioned

\* A row keeps its version behind the cart, and an overtaken row stays so, as
\* long as rows and receipts stand still and versions do not shrink.
LEMMA StayBehind ==
  ASSUME TypeOK, TypeOK', UNCHANGED command,
         \A o \in Owners : version[o] <= version'[o]
  PROVE  /\ NotAhead => NotAhead'
         /\ \A k \in Keys :
              (Overtaken(k) /\ ledger'[k] = ledger[k]) => Overtaken(k)'
<1> USE NoCommandAssumption DEF TypeOK, Body
<1>1. \A k \in Keys : command[k] # NoCommand =>
        /\ command[k].owner \in Owners
        /\ command[k].expected \in Nat
        /\ version[command[k].owner] \in Nat
        /\ version'[command[k].owner] \in Nat
        /\ version[command[k].owner] <= version'[command[k].owner]
  OBVIOUS
<1>2. NotAhead => NotAhead'
  BY <1>1 DEF NotAhead
<1>3. \A k \in Keys :
        (Overtaken(k) /\ ledger'[k] = ledger[k]) => Overtaken(k)'
  BY <1>1 DEF Overtaken
<1> QED BY <1>2, <1>3

\* Java carries out a row that is not overtaken, and only that receipt is new.
LEMMA ApplyEffect ==
  ASSUME TypeOK, NotAhead, NEW k \in Keys, command[k] # NoCommand, Apply(k)
  PROVE  /\ ~Overtaken(k)
         /\ ledger' \in [Keys -> Body \cup {NoCommand}]
         /\ version' \in [Owners -> Nat]
         /\ ledger'[k] = command[k]
         /\ \A l \in Keys : l # k => ledger'[l] = ledger[l]
         /\ \A o \in Owners : version[o] <= version'[o]
<1> USE NoCommandAssumption DEF TypeOK, Apply
<1>1. command[k].owner \in Owners /\ command[k].expected \in Nat
  BY DEF Body
<1>2. ~Overtaken(k)
  BY <1>1 DEF Overtaken, Current
<1>3. /\ version' \in [Owners -> Nat]
      /\ \A o \in Owners : version[o] <= version'[o]
  BY <1>1
<1> QED BY <1>2, <1>3

LEMMA InitInv == Init => IInv
BY NoCommandAssumption
   DEF Init, IInv, TypeOK, RowsFirst, LedgerMatchesRows, NotAhead, AnswersStayTrue,
       ConflictsOvertaken, AtMostOneUnknown, OneOutcome, Unknown, Categories, Places

-----------------------------------------------------------------------------
(* Every action preserves the inductive invariant. *)

LEMMA RegisterInv ==
  ASSUME IInv, NEW h \in Handlers, NEW k \in Keys,
         NEW o \in Owners, NEW b \in Formed(o), Register(h, k, b)
  PROVE  IInv'
<1> USE NoCommandAssumption, FormedBodies
       DEF IInv, Register, Suspend, unknown_cart, rowVars, handlerVars, javaVars
<1>1. TypeOK'
  BY DEF TypeOK, Places, Categories, RowsFirst
<1>2. RowsFirst'
  BY DEF TypeOK, RowsFirst
<1>3. LedgerMatchesRows'
  BY DEF TypeOK, LedgerMatchesRows, RowsFirst, AnswersStayTrue
<1>4. NotAhead'
  BY DEF TypeOK, NotAhead
<1>5. AnswersStayTrue'
  BY DEF TypeOK, AnswersStayTrue, RowsFirst, Overtaken
<1>6. ConflictsOvertaken'
  BY DEF TypeOK, ConflictsOvertaken, AnswersStayTrue, RowsFirst, Overtaken
<1>7. AtMostOneUnknown'
  BY DEF TypeOK, AtMostOneUnknown, Unknown
<1>8. OneOutcome'
  BY DEF TypeOK, OneOutcome, RowsFirst
<1> QED BY <1>1, <1>2, <1>3, <1>4, <1>5, <1>6, <1>7, <1>8 DEF IInv

LEMMA CheckInv ==
  ASSUME IInv, NEW h \in Handlers, NEW k \in Keys, NEW retry \in BOOLEAN, Check(h, k, retry)
  PROVE  IInv'
<1> USE NoCommandAssumption
       DEF IInv, Check, Suspend, Unknown, rowVars, handlerVars, javaVars
<1>1. TypeOK'
  BY DEF TypeOK, Places, Categories, RowsFirst
<1>2. RowsFirst'
  BY DEF TypeOK, RowsFirst
<1>3. LedgerMatchesRows'
  BY DEF TypeOK, LedgerMatchesRows, RowsFirst, AnswersStayTrue
<1>4. NotAhead'
  BY DEF TypeOK, NotAhead
<1>5. AnswersStayTrue'
  BY DEF TypeOK, AnswersStayTrue, RowsFirst, Overtaken
<1>6. ConflictsOvertaken'
  BY DEF TypeOK, ConflictsOvertaken, AnswersStayTrue, RowsFirst, Overtaken
<1>7. AtMostOneUnknown'
  BY DEF TypeOK, AtMostOneUnknown, Unknown
<1>8. OneOutcome'
  BY DEF TypeOK, OneOutcome, RowsFirst
<1> QED BY <1>1, <1>2, <1>3, <1>4, <1>5, <1>6, <1>7, <1>8 DEF IInv

LEMMA ReadReceiptInv ==
  ASSUME IInv, NEW h \in Handlers, ReadReceipt(h)
  PROVE  IInv'
<1> USE NoCommandAssumption
       DEF IInv, ReadReceipt, Suspend, rowVars, handlerVars, javaVars
<1>1. TypeOK'
  BY DEF TypeOK, Places, Categories, RowsFirst
<1>2. RowsFirst'
  BY DEF TypeOK, RowsFirst
<1>3. LedgerMatchesRows'
  BY DEF TypeOK, LedgerMatchesRows, RowsFirst, AnswersStayTrue
<1>4. NotAhead'
  BY DEF TypeOK, NotAhead
<1>5. AnswersStayTrue'
  BY DEF TypeOK, AnswersStayTrue, RowsFirst, Overtaken
<1>6. ConflictsOvertaken'
  BY DEF TypeOK, ConflictsOvertaken, AnswersStayTrue, RowsFirst, Overtaken
<1>7. AtMostOneUnknown'
  BY DEF TypeOK, AtMostOneUnknown, Unknown
<1>8. OneOutcome'
  BY DEF TypeOK, OneOutcome, RowsFirst
<1> QED BY <1>1, <1>2, <1>3, <1>4, <1>5, <1>6, <1>7, <1>8 DEF IInv

LEMMA RecoverFoundInv ==
  ASSUME IInv, NEW h \in Handlers, RecoverFound(h)
  PROVE  IInv'
<1> USE NoCommandAssumption
       DEF IInv, RecoverFound, Finish, complete, rowVars, handlerVars, javaVars
<1>1. TypeOK'
  BY DEF TypeOK, Places, Categories, RowsFirst
<1>2. RowsFirst'
  BY DEF TypeOK, RowsFirst
<1>3. LedgerMatchesRows'
  BY DEF TypeOK, LedgerMatchesRows, RowsFirst, AnswersStayTrue
<1>4. NotAhead'
  BY DEF TypeOK, NotAhead
<1>5. AnswersStayTrue'
  BY DEF TypeOK, AnswersStayTrue, RowsFirst, Overtaken
<1>6. ConflictsOvertaken'
  BY DEF TypeOK, ConflictsOvertaken, AnswersStayTrue, RowsFirst, Overtaken
<1>7. AtMostOneUnknown'
  BY DEF TypeOK, AtMostOneUnknown, Unknown
<1>8. OneOutcome'
  BY DEF TypeOK, OneOutcome, RowsFirst
<1> QED BY <1>1, <1>2, <1>3, <1>4, <1>5, <1>6, <1>7, <1>8 DEF IInv

LEMMA RecoverMissingInv ==
  ASSUME IInv, NEW h \in Handlers, RecoverMissing(h)
  PROVE  IInv'
<1> USE NoCommandAssumption
       DEF IInv, RecoverMissing, Finish, Suspend, rowVars, handlerVars, javaVars
<1>1. TypeOK'
  BY DEF TypeOK, Places, Categories, RowsFirst
<1>2. RowsFirst'
  BY DEF TypeOK, RowsFirst
<1>3. LedgerMatchesRows'
  BY DEF TypeOK, LedgerMatchesRows, RowsFirst, AnswersStayTrue
<1>4. NotAhead'
  BY DEF TypeOK, NotAhead
<1>5. AnswersStayTrue'
  BY DEF TypeOK, AnswersStayTrue, RowsFirst, Overtaken
<1>6. ConflictsOvertaken'
  BY DEF TypeOK, ConflictsOvertaken, AnswersStayTrue, RowsFirst, Overtaken
<1>7. AtMostOneUnknown'
  BY DEF TypeOK, AtMostOneUnknown, Unknown
<1>8. OneOutcome'
  BY DEF TypeOK, OneOutcome, RowsFirst
<1> QED BY <1>1, <1>2, <1>3, <1>4, <1>5, <1>6, <1>7, <1>8 DEF IInv

LEMMA SendWriteInv ==
  ASSUME IInv, NEW h \in Handlers, SendWrite(h)
  PROVE  IInv'
<1> USE NoCommandAssumption
       DEF IInv, SendWrite, Suspend, rowVars, handlerVars, javaVars
<1>1. TypeOK'
  BY DEF TypeOK, Places, Categories, RowsFirst
<1>2. RowsFirst'
  BY DEF TypeOK, RowsFirst
<1>3. LedgerMatchesRows'
  BY DEF TypeOK, LedgerMatchesRows, RowsFirst, AnswersStayTrue
<1>4. NotAhead'
  BY DEF TypeOK, NotAhead
<1>5. AnswersStayTrue'
  BY DEF TypeOK, AnswersStayTrue, RowsFirst, Overtaken
<1>6. ConflictsOvertaken'
  BY DEF TypeOK, ConflictsOvertaken, AnswersStayTrue, RowsFirst, Overtaken
<1>7. AtMostOneUnknown'
  BY DEF TypeOK, AtMostOneUnknown, Unknown
<1>8. OneOutcome'
  BY DEF TypeOK, OneOutcome, RowsFirst
<1> QED BY <1>1, <1>2, <1>3, <1>4, <1>5, <1>6, <1>7, <1>8 DEF IInv

LEMMA WriteAcceptedInv ==
  ASSUME IInv, NEW h \in Handlers, WriteAccepted(h)
  PROVE  IInv'
<1> USE NoCommandAssumption
       DEF IInv, WriteAccepted, Finish, complete, rowVars, handlerVars, javaVars
<1>1. TypeOK'
  BY DEF TypeOK, Places, Categories, RowsFirst
<1>2. RowsFirst'
  BY DEF TypeOK, RowsFirst
<1>3. LedgerMatchesRows'
  BY DEF TypeOK, LedgerMatchesRows, RowsFirst, AnswersStayTrue
<1>4. NotAhead'
  BY DEF TypeOK, NotAhead
<1>5. AnswersStayTrue'
  BY DEF TypeOK, AnswersStayTrue, RowsFirst, Overtaken
<1>6. ConflictsOvertaken'
  BY DEF TypeOK, ConflictsOvertaken, AnswersStayTrue, RowsFirst, Overtaken
<1>7. AtMostOneUnknown'
  BY DEF TypeOK, AtMostOneUnknown, Unknown
<1>8. OneOutcome'
  BY DEF TypeOK, OneOutcome, RowsFirst
<1> QED BY <1>1, <1>2, <1>3, <1>4, <1>5, <1>6, <1>7, <1>8 DEF IInv

LEMMA WriteRefusedInv ==
  ASSUME IInv, NEW h \in Handlers, WriteRefused(h)
  PROVE  IInv'
<1> USE NoCommandAssumption
       DEF IInv, WriteRefused, Finish, reject, rowVars, handlerVars, javaVars
<1>1. TypeOK'
  BY DEF TypeOK, Places, Categories, RowsFirst
<1>2. RowsFirst'
  BY DEF TypeOK, RowsFirst
<1>3. LedgerMatchesRows'
  BY DEF TypeOK, LedgerMatchesRows, RowsFirst, AnswersStayTrue
<1>4. NotAhead'
  BY DEF TypeOK, NotAhead
<1>5. AnswersStayTrue'
  BY DEF TypeOK, AnswersStayTrue, RowsFirst, Overtaken
<1>6. ConflictsOvertaken'
  BY DEF TypeOK, ConflictsOvertaken, AnswersStayTrue, RowsFirst, Overtaken
<1>7. AtMostOneUnknown'
  BY DEF TypeOK, AtMostOneUnknown, Unknown
<1>8. OneOutcome'
  BY DEF TypeOK, OneOutcome, RowsFirst
<1> QED BY <1>1, <1>2, <1>3, <1>4, <1>5, <1>6, <1>7, <1>8 DEF IInv

LEMMA GiveUpInv ==
  ASSUME IInv, NEW h \in Handlers, GiveUp(h)
  PROVE  IInv'
<1> USE NoCommandAssumption
       DEF IInv, GiveUp, Finish, rowVars, handlerVars, javaVars
<1>1. TypeOK'
  BY DEF TypeOK, Places, Categories, RowsFirst
<1>2. RowsFirst'
  BY DEF TypeOK, RowsFirst
<1>3. LedgerMatchesRows'
  BY DEF TypeOK, LedgerMatchesRows, RowsFirst, AnswersStayTrue
<1>4. NotAhead'
  BY DEF TypeOK, NotAhead
<1>5. AnswersStayTrue'
  BY DEF TypeOK, AnswersStayTrue, RowsFirst, Overtaken
<1>6. ConflictsOvertaken'
  BY DEF TypeOK, ConflictsOvertaken, AnswersStayTrue, RowsFirst, Overtaken
<1>7. AtMostOneUnknown'
  BY DEF TypeOK, AtMostOneUnknown, Unknown
<1>8. OneOutcome'
  BY DEF TypeOK, OneOutcome, RowsFirst
<1> QED BY <1>1, <1>2, <1>3, <1>4, <1>5, <1>6, <1>7, <1>8 DEF IInv

LEMMA JavaAcceptsInv ==
  ASSUME IInv, NEW h \in Handlers, JavaAccepts(h)
  PROVE  IInv'
<1> USE NoCommandAssumption DEF IInv, rowVars, handlerVars, javaVars
<1> DEFINE k == at[h]
<1>0. /\ pc[h] = "sent" /\ k \in Keys /\ command[k] # NoCommand
      /\ UNCHANGED <<rowVars, at, again, late, moves>>
      /\ pc' = [pc EXCEPT ![h] = "accepted"]
      /\ Apply(k) \/ Replay(k)
  BY DEF JavaAccepts, RowsFirst, Suspend
<1>a. /\ ledger' \in [Keys -> Body \cup {NoCommand}]
      /\ version' \in [Owners -> Nat]
      /\ ledger'[k] = command[k]
      /\ \A l \in Keys : (l # k \/ Overtaken(l)) => ledger'[l] = ledger[l]
      /\ \A o \in Owners : version[o] <= version'[o]
  <2>1. CASE Apply(k)
    BY <1>0, <2>1, ApplyEffect
  <2>2. CASE Replay(k)
    BY <1>0, <2>2 DEF Replay, TypeOK, LedgerMatchesRows, Overtaken
  <2> QED BY <1>0, <2>1, <2>2
<1> HIDE DEF k
<1>1. TypeOK'
  BY <1>0, <1>a DEF TypeOK, Places
<1>2. RowsFirst'
  BY <1>0, <1>a DEF TypeOK, RowsFirst
<1>3. LedgerMatchesRows'
  BY <1>0, <1>a DEF TypeOK, LedgerMatchesRows
<1>4. NotAhead'
  BY <1>0, <1>a, <1>1, StayBehind
<1>b. \A l \in Keys : Overtaken(l) => Overtaken(l)'
  BY <1>0, <1>a, <1>1, StayBehind
<1>5. AnswersStayTrue'
  <2>1. ASSUME NEW g \in Handlers, g # h
        PROVE  /\ pc'[g] \in {"found", "accepted"} => ledger'[at'[g]] # NoCommand
               /\ pc'[g] = "conflict" => Overtaken(at[g])'
    BY <2>1, <1>0, <1>a, <1>b DEF TypeOK, AnswersStayTrue, RowsFirst
  <2>2. /\ pc'[h] = "accepted"
        /\ ledger'[at'[h]] # NoCommand
    BY <1>0, <1>a DEF TypeOK, k
  <2> QED BY <2>1, <2>2, <1>0 DEF AnswersStayTrue
<1>6. ConflictsOvertaken'
  BY <1>0, <1>a, <1>b DEF ConflictsOvertaken
<1>7. AtMostOneUnknown'
  BY <1>0, <1>a DEF AtMostOneUnknown, Unknown
<1>8. OneOutcome'
  BY <1>0, <1>a DEF OneOutcome
<1> QED BY <1>1, <1>2, <1>3, <1>4, <1>5, <1>6, <1>7, <1>8 DEF IInv

LEMMA JavaRefusesInv ==
  ASSUME IInv, NEW h \in Handlers, JavaRefuses(h)
  PROVE  IInv'
<1> USE NoCommandAssumption
       DEF IInv, JavaRefuses, Current, Suspend, rowVars, handlerVars, javaVars
<1>1. TypeOK'
  BY DEF TypeOK, Places, Categories, RowsFirst
<1>2. RowsFirst'
  BY DEF TypeOK, RowsFirst
<1>3. LedgerMatchesRows'
  BY DEF TypeOK, LedgerMatchesRows, RowsFirst, AnswersStayTrue
<1>4. NotAhead'
  BY DEF TypeOK, NotAhead
<1>5. AnswersStayTrue'
  <2>1. ~Current(at[h]) /\ ledger[at[h]] = NoCommand => Overtaken(at[h])
    <3>1. at[h] \in Keys /\ command[at[h]] # NoCommand
      BY DEF RowsFirst
    <3>2. /\ command[at[h]].owner \in Owners
          /\ command[at[h]].expected \in Nat
          /\ version[command[at[h]].owner] \in Nat
          /\ command[at[h]].expected <= version[command[at[h]].owner]
      BY <3>1 DEF NotAhead, TypeOK, Body
    <3> QED BY <3>1, <3>2 DEF Overtaken
  <2>2. \A l \in Keys : Overtaken(l)' <=> Overtaken(l)
    BY DEF Overtaken
  <2> QED BY <2>1, <2>2 DEF TypeOK, AnswersStayTrue, RowsFirst
<1>6. ConflictsOvertaken'
  BY DEF TypeOK, ConflictsOvertaken, AnswersStayTrue, RowsFirst, Overtaken
<1>7. AtMostOneUnknown'
  BY DEF TypeOK, AtMostOneUnknown, Unknown
<1>8. OneOutcome'
  BY DEF TypeOK, OneOutcome, RowsFirst
<1> QED BY <1>1, <1>2, <1>3, <1>4, <1>5, <1>6, <1>7, <1>8 DEF IInv

LEMMA LateAcceptsInv ==
  ASSUME IInv, NEW k \in Keys, LateAccepts(k)
  PROVE  IInv'
<1> USE NoCommandAssumption DEF IInv, rowVars, handlerVars, javaVars
<1>0. /\ k \in late /\ command[k] # NoCommand
      /\ UNCHANGED <<rowVars, handlerVars, moves>>
      /\ late' = late \ {k}
      /\ Apply(k)
  BY DEF LateAccepts, RowsFirst
<1>a. /\ ledger' \in [Keys -> Body \cup {NoCommand}]
      /\ version' \in [Owners -> Nat]
      /\ ledger'[k] = command[k]
      /\ \A l \in Keys : (l # k \/ Overtaken(l)) => ledger'[l] = ledger[l]
      /\ \A o \in Owners : version[o] <= version'[o]
  BY <1>0, ApplyEffect
<1>1. TypeOK'
  BY <1>0, <1>a DEF TypeOK, Places
<1>2. RowsFirst'
  BY <1>0, <1>a DEF TypeOK, RowsFirst
<1>3. LedgerMatchesRows'
  BY <1>0, <1>a DEF TypeOK, LedgerMatchesRows
<1>4. NotAhead'
  BY <1>0, <1>a, <1>1, StayBehind
<1>b. \A l \in Keys : Overtaken(l) => Overtaken(l)'
  BY <1>0, <1>a, <1>1, StayBehind
<1>5. AnswersStayTrue'
  BY <1>0, <1>a, <1>b DEF TypeOK, AnswersStayTrue, RowsFirst
<1>6. ConflictsOvertaken'
  BY <1>0, <1>a, <1>b DEF ConflictsOvertaken
<1>7. AtMostOneUnknown'
  BY <1>0, <1>a DEF AtMostOneUnknown, Unknown
<1>8. OneOutcome'
  BY <1>0, <1>a DEF OneOutcome
<1> QED BY <1>1, <1>2, <1>3, <1>4, <1>5, <1>6, <1>7, <1>8 DEF IInv

LEMMA LateDroppedInv ==
  ASSUME IInv, NEW k \in Keys, LateDropped(k)
  PROVE  IInv'
<1> USE NoCommandAssumption
       DEF IInv, LateDropped, rowVars, handlerVars, javaVars
<1>1. TypeOK'
  BY DEF TypeOK, Places, Categories, RowsFirst
<1>2. RowsFirst'
  BY DEF TypeOK, RowsFirst
<1>3. LedgerMatchesRows'
  BY DEF TypeOK, LedgerMatchesRows, RowsFirst, AnswersStayTrue
<1>4. NotAhead'
  BY DEF TypeOK, NotAhead
<1>5. AnswersStayTrue'
  BY DEF TypeOK, AnswersStayTrue, RowsFirst, Overtaken
<1>6. ConflictsOvertaken'
  BY DEF TypeOK, ConflictsOvertaken, AnswersStayTrue, RowsFirst, Overtaken
<1>7. AtMostOneUnknown'
  BY DEF TypeOK, AtMostOneUnknown, Unknown
<1>8. OneOutcome'
  BY DEF TypeOK, OneOutcome, RowsFirst
<1> QED BY <1>1, <1>2, <1>3, <1>4, <1>5, <1>6, <1>7, <1>8 DEF IInv

LEMMA CartMovesInv ==
  ASSUME IInv, NEW o \in Owners, CartMoves(o)
  PROVE  IInv'
<1> USE NoCommandAssumption DEF IInv, rowVars, handlerVars, javaVars
<1>0. /\ UNCHANGED <<rowVars, handlerVars, late, ledger>>
      /\ moves' = moves + 1
      /\ version' = [version EXCEPT ![o] = @ + 1]
  BY DEF CartMoves
<1>a. /\ version' \in [Owners -> Nat]
      /\ \A p \in Owners : version[p] <= version'[p]
  BY <1>0 DEF TypeOK
<1>1. TypeOK'
  BY <1>0, <1>a DEF TypeOK, Places
<1>2. RowsFirst'
  BY <1>0, <1>a DEF TypeOK, RowsFirst
<1>3. LedgerMatchesRows'
  BY <1>0, <1>a DEF TypeOK, LedgerMatchesRows
<1>4. NotAhead'
  BY <1>0, <1>a, <1>1, StayBehind
<1>b. \A l \in Keys : Overtaken(l) => Overtaken(l)'
  BY <1>0, <1>a, <1>1, StayBehind
<1>5. AnswersStayTrue'
  BY <1>0, <1>a, <1>b DEF TypeOK, AnswersStayTrue, RowsFirst
<1>6. ConflictsOvertaken'
  BY <1>0, <1>a, <1>b DEF ConflictsOvertaken
<1>7. AtMostOneUnknown'
  BY <1>0, <1>a DEF AtMostOneUnknown, Unknown
<1>8. OneOutcome'
  BY <1>0, <1>a DEF OneOutcome
<1> QED BY <1>1, <1>2, <1>3, <1>4, <1>5, <1>6, <1>7, <1>8 DEF IInv

LEMMA RestartInv ==
  ASSUME IInv, Restart
  PROVE  IInv'
<1> USE NoCommandAssumption
       DEF IInv, Restart, rowVars, handlerVars, javaVars
<1>1. TypeOK'
  BY DEF TypeOK, Places, Categories, RowsFirst
<1>2. RowsFirst'
  BY DEF TypeOK, RowsFirst
<1>3. LedgerMatchesRows'
  BY DEF TypeOK, LedgerMatchesRows, RowsFirst, AnswersStayTrue
<1>4. NotAhead'
  BY DEF TypeOK, NotAhead
<1>5. AnswersStayTrue'
  BY DEF TypeOK, AnswersStayTrue, RowsFirst, Overtaken
<1>6. ConflictsOvertaken'
  BY DEF TypeOK, ConflictsOvertaken, AnswersStayTrue, RowsFirst, Overtaken
<1>7. AtMostOneUnknown'
  BY DEF TypeOK, AtMostOneUnknown, Unknown
<1>8. OneOutcome'
  BY DEF TypeOK, OneOutcome, RowsFirst
<1> QED BY <1>1, <1>2, <1>3, <1>4, <1>5, <1>6, <1>7, <1>8 DEF IInv

-----------------------------------------------------------------------------
(* The theorems. *)

LEMMA StepInv == IInv /\ [Next]_vars => IInv'
<1> SUFFICES ASSUME IInv, [Next]_vars PROVE IInv'
  OBVIOUS
<1>1. CASE UNCHANGED vars
  BY <1>1 DEF vars, rowVars, handlerVars, javaVars, IInv, TypeOK, RowsFirst, LedgerMatchesRows,
     NotAhead, AnswersStayTrue, ConflictsOvertaken, Overtaken, AtMostOneUnknown, OneOutcome,
     Unknown
<1>2. ASSUME NEW h \in Handlers, Handle(h) PROVE IInv'
  BY <1>2, RegisterInv, CheckInv, ReadReceiptInv, RecoverFoundInv, RecoverMissingInv,
     SendWriteInv, WriteAcceptedInv, WriteRefusedInv, GiveUpInv DEF Handle
<1>3. CASE Java
  BY <1>3, JavaAcceptsInv, JavaRefusesInv, LateAcceptsInv, LateDroppedInv, CartMovesInv DEF Java
<1> QED BY <1>1, <1>2, <1>3, RestartInv DEF Next

LEMMA Invariance == Spec => []IInv
BY InitInv, StepInv, PTL DEF Spec

\* Every variable keeps its type, in every interleaving and after every restart.
THEOREM TypeCorrect == Spec => []TypeOK
BY Invariance, PTL DEF IInv

\* A buyer never has two cart commands of unknown outcome (register).
THEOREM OneUnknownCommand == Spec => []AtMostOneUnknown
BY Invariance, PTL DEF IInv

\* No row carries a receipt and a rejection (complete, reject).
THEOREM ReceiptOrRejection == Spec => []OneOutcome
BY Invariance, PTL DEF IInv

\* A version conflict reported to the buyer is final: Java has not carried the
\* command out and cannot do so any more.
THEOREM ConflictsAreFinal == Spec => []ConflictIsFinal
<1>1. IInv => ConflictIsFinal
  BY DEF IInv, TypeOK, Body, ConflictsOvertaken, Overtaken, ConflictIsFinal, Current
<1> QED BY <1>1, Invariance, PTL

-----------------------------------------------------------------------------
(* CartCommands implements CartIntents. *)

LEMMA InitIntents == Init => Intents!Init
BY DEF Init, Intents!Init, Outcome

LEMMA RowsStill ==
  ASSUME UNCHANGED <<command, result, rejection, ledger>>
  PROVE  UNCHANGED Intents!vars
BY DEF Intents!vars, Outcome

LEMMA RegisterRecords ==
  ASSUME IInv, IInv', NEW h \in Handlers, NEW k \in Keys,
         NEW o \in Owners, NEW b \in Formed(o), Register(h, k, b)
  PROVE  Intents!Record(k)
<1>1. b \in Body
  BY FormedBodies DEF IInv
<1>2. /\ command[k] = NoCommand
      /\ command' = [command EXCEPT ![k] = b]
      /\ command'[k] = b
      /\ UNCHANGED <<result, rejection, ledger>>
  BY DEF Register, javaVars, IInv, TypeOK
<1>3. \A other \in Keys : Intents!Open(other) => command[other].owner # b.owner
  BY DEF Register, unknown_cart, Unknown, Intents!Open, Outcome
<1> QED BY <1>1, <1>2, <1>3 DEF Intents!Record, Outcome

LEMMA CompleteConfirms ==
  ASSUME TypeOK, NEW k \in Keys, ledger[k] # NoCommand, complete(k),
         UNCHANGED <<command, ledger>>
  PROVE  Intents!Confirm(k)
BY DEF TypeOK, complete, Intents!Confirm, Outcome

LEMMA RejectRefuses ==
  ASSUME TypeOK, NEW k \in Keys, command[k] # NoCommand,
         NEW c \in Categories \ {"none"}, reject(k, c),
         UNCHANGED <<command, ledger>>
  PROVE  Intents!Refuse(k) \/ UNCHANGED Intents!vars
<1>1. CASE Unknown(k)
  BY <1>1 DEF TypeOK, reject, Unknown, Intents!Refuse, Intents!Open, Outcome, Categories
<1>2. CASE ~Unknown(k)
  BY <1>2 DEF TypeOK, reject, Unknown, Intents!vars, Outcome, Categories
<1> QED BY <1>1, <1>2

LEMMA ApplyTakesEffect ==
  ASSUME NEW k \in Keys, command[k] # NoCommand, Apply(k), UNCHANGED rowVars
  PROVE  Intents!TakeEffect(k)
BY DEF Apply, rowVars, Intents!TakeEffect, Outcome

LEMMA StepIntents ==
  ASSUME IInv, IInv', [Next]_vars
  PROVE  [Intents!Next]_Intents!vars
<1> USE DEF IInv, TypeOK, rowVars, javaVars, handlerVars
<1>1. CASE UNCHANGED vars
  BY <1>1, RowsStill DEF vars
<1>2. ASSUME NEW h \in Handlers, Handle(h) PROVE [Intents!Next]_Intents!vars
  <2>1. ASSUME NEW k \in Keys, NEW o \in Owners, NEW b \in Formed(o), Register(h, k, b)
        PROVE  [Intents!Next]_Intents!vars
    BY <2>1, RegisterRecords DEF Intents!Next
  <2>2. ASSUME RecoverFound(h) \/ WriteAccepted(h)
        PROVE  [Intents!Next]_Intents!vars
    <3>1. /\ at[h] \in Keys /\ ledger[at[h]] # NoCommand /\ complete(at[h])
          /\ UNCHANGED <<command, ledger>>
      BY <2>2 DEF RecoverFound, WriteAccepted, RowsFirst, AnswersStayTrue
    <3> QED BY <3>1, CompleteConfirms DEF Intents!Next
  <2>3. ASSUME WriteRefused(h)
        PROVE  [Intents!Next]_Intents!vars
    <3> DEFINE c == IF pc[h] = "conflict" THEN "VERSION_CONFLICT" ELSE "OTHER"
    <3>1. /\ at[h] \in Keys /\ command[at[h]] # NoCommand
          /\ c \in Categories \ {"none"} /\ reject(at[h], c)
          /\ UNCHANGED <<command, ledger>>
      BY <2>3 DEF WriteRefused, RowsFirst, Categories
    <3> HIDE DEF c
    <3> QED BY <3>1, RejectRefuses DEF Intents!Next
  <2>4. ASSUME \/ \E k \in Keys, retry \in BOOLEAN : Check(h, k, retry)
               \/ ReadReceipt(h) \/ RecoverMissing(h) \/ SendWrite(h) \/ GiveUp(h)
        PROVE  [Intents!Next]_Intents!vars
    <3>1. UNCHANGED <<command, result, rejection, ledger>>
      BY <2>4 DEF Check, ReadReceipt, RecoverMissing, SendWrite, GiveUp
    <3> QED BY <3>1, RowsStill
  <2> QED BY <1>2, <2>1, <2>2, <2>3, <2>4 DEF Handle
<1>3. CASE Java
  <2>1. ASSUME NEW k \in Keys, command[k] # NoCommand, Apply(k), UNCHANGED rowVars
        PROVE  [Intents!Next]_Intents!vars
    BY <2>1, ApplyTakesEffect DEF Intents!Next
  <2>2. ASSUME NEW h \in Handlers, JavaAccepts(h)
        PROVE  [Intents!Next]_Intents!vars
    <3>1. /\ at[h] \in Keys /\ command[at[h]] # NoCommand /\ UNCHANGED rowVars
          /\ Apply(at[h]) \/ Replay(at[h])
      BY <2>2 DEF JavaAccepts, RowsFirst
    <3>2. CASE Apply(at[h])
      BY <3>1, <3>2, <2>1
    <3>3. CASE Replay(at[h])
      BY <3>1, <3>3, RowsStill DEF Replay
    <3> QED BY <3>1, <3>2, <3>3
  <2>3. ASSUME NEW k \in Keys, LateAccepts(k)
        PROVE  [Intents!Next]_Intents!vars
    BY <2>1, <2>3 DEF LateAccepts, RowsFirst
  <2>4. ASSUME \/ \E h \in Handlers : JavaRefuses(h)
               \/ \E k \in Keys : LateDropped(k)
               \/ \E o \in Owners : CartMoves(o)
        PROVE  [Intents!Next]_Intents!vars
    <3>1. UNCHANGED <<command, result, rejection, ledger>>
      BY <2>4 DEF JavaRefuses, LateDropped, CartMoves
    <3> QED BY <3>1, RowsStill
  <2> QED BY <1>3, <2>2, <2>3, <2>4 DEF Java
<1>4. CASE Restart
  BY <1>4, RowsStill DEF Restart
<1> QED BY <1>1, <1>2, <1>3, <1>4 DEF Next

\* The host and Java together keep the promise of CartIntents: recorded before
\* the effect, one open intent per buyer, one effect per key, confirmations for
\* good.
THEOREM ImplementsIntents == Spec => KeepsIntents
<1>1. Init => Intents!Init
  BY InitIntents
<1>2. IInv /\ IInv' /\ [Next]_vars => [Intents!Next]_Intents!vars
  BY StepIntents
<1> QED BY <1>1, <1>2, Invariance, PTL DEF Spec, KeepsIntents, Intents!Spec
=============================================================================
