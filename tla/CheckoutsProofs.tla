--------------------------- MODULE CheckoutsProofs ---------------------------
(***************************************************************************)
(* Theorems about Checkouts for any number of orders, handlers and late    *)
(* requests.                                                               *)
(***************************************************************************)
EXTENDS Checkouts, WellFoundedInduction, TLAPS

Paying == {"starting", "started", "calling", "succeeded", "declined"}

Attempted(o) == \E a \in attempts : a.order = o

Paid(o) == \E e \in events : e.order = o

Declined(o) == \E d \in declined : d.order = o

Answered(o) == Paid(o) \/ Declined(o)

AnsweredBefore(o) == \A p \in 1 .. o - 1 : Answered(p)

\* A set of payment records that claims nothing Java does not have.
TrueRecords(records) ==
  \A o \in Orders :
    /\ records[o] # "none" => Attempted(o)
    /\ records[o] = "succeeded" => Paid(o)
    /\ records[o] = "declined" => Declined(o)

\* What a handler has read is true, what it was answered still holds, and if it
\* pays, all orders before the one at hand are answered.
Sound(h) ==
  /\ \A o \in Orders : seen[h][o] = "PAID" => Paid(o)
  /\ TrueRecords(progress[h])
  /\ pc[h] \in Paying => pos[h] \in Orders /\ AnsweredBefore(pos[h])
  /\ pc[h] = "started" => Attempted(pos[h])
  /\ pc[h] = "succeeded" => Attempted(pos[h]) /\ Paid(pos[h])
  /\ pc[h] = "declined" => Attempted(pos[h]) /\ Declined(pos[h])
  /\ pc[h] \in Paying \cup {"looking", "seen"} => row = "confirmed"
  /\ pc[h] = "accepted" => created

\* A request that Java may still carry out concerns its order alone, and an
\* attempt comes after the answers of all earlier orders.
Harmless(r) ==
  r[1] \in Paying =>
    /\ row = "confirmed"
    /\ r[2] \in Orders /\ r[3] = r[2]
    /\ r[1] = "starting" => AnsweredBefore(r[2])

HandlersSound == \A h \in Handlers : Sound(h)

LateHarmless == \A r \in late : Harmless(r)

\* Java: the identity of a payment is its order, only a payment makes an order PAID,
\* none leaves it UNPAID, and what the host has confirmed exists.
JavaSound ==
  /\ \A a \in attempts : a.identity = a.order
  /\ events \subseteq attempts /\ declined \subseteq attempts
  /\ \A o \in Orders : status[o] = "PAID" => Paid(o)
  /\ \A o \in Orders : status[o] = "UNPAID" => ~Paid(o)
  /\ row = "confirmed" => created

StoredTrue == TrueRecords(receipt)

IInv ==
  /\ TypeOK
  /\ HandlersSound
  /\ LateHarmless
  /\ JavaSound
  /\ StoredTrue
  /\ AnsweredInOrder
  /\ PaidIsConfirmed
-----------------------------------------------------------------------------
(* Facts about the operators of the model. *)

LEMMA MinOfNaturals ==
  ASSUME NEW S \in SUBSET Nat, S # {}
  PROVE  Min(S) \in S /\ \A x \in S : Min(S) <= x
<1>1. PICK m \in S : \A y \in S : <<y, m>> \notin OpToRel(<, Nat)
  BY WFMin, NatLessThanWellFounded
<1>2. ASSUME NEW y \in S, y < m
      PROVE  <<y, m>> \in OpToRel(<, Nat)
  <2>1. <<y, m>> \in Nat \X Nat /\ <<y, m>>[1] = y /\ <<y, m>>[2] = m
    OBVIOUS
  <2>2. <<y, m>>[1] < <<y, m>>[2]
    BY <1>2, <2>1
  <2> QED BY <2>1, <2>2, Zenon DEF OpToRel
<1>3. \A y \in S : ~ (y < m)
  BY <1>1, <1>2, Zenon
<1>4. \A y \in S : m <= y
  BY <1>3
<1> QED BY <1>4 DEF Min

\* The loop stops at the next order that is not paid, or after the last one.
LEMMA NextOrder ==
  ASSUME NEW orders \in [Orders -> Statuses], NEW from \in 1 .. OrderCount + 1
  PROVE  /\ nextOrder(orders, from) \in from .. OrderCount + 1
         /\ \A o \in from .. nextOrder(orders, from) - 1 : orders[o] = "PAID"
<1> DEFINE S == {o \in from .. OrderCount : orders[o] # "PAID"} \cup {OrderCount + 1}
<1> USE CheckoutAssumption
<1>1. S \in SUBSET Nat /\ S # {} /\ S \subseteq from .. OrderCount + 1
  OBVIOUS
<1>2. Min(S) \in S /\ \A x \in S : Min(S) <= x
  BY <1>1, MinOfNaturals
<1>3. nextOrder(orders, from) = Min(S)
  BY DEF nextOrder
<1>4. ASSUME NEW o \in from .. Min(S) - 1
      PROVE  orders[o] = "PAID"
  <2>1. o \in from .. OrderCount /\ o \notin S
    BY <1>1, <1>2
  <2> QED BY <2>1
<1> HIDE DEF S
<1> QED BY <1>1, <1>2, <1>3, <1>4

\* Nothing known of Java is lost if it only adds payments.
LEMMA JavaKeeps ==
  ASSUME attempts \subseteq attempts', events \subseteq events', declined \subseteq declined'
  PROVE  /\ \A o : Attempted(o) => Attempted(o)'
         /\ \A o : Paid(o) => Paid(o)'
         /\ \A o : Declined(o) => Declined(o)'
         /\ \A o : AnsweredBefore(o) => AnsweredBefore(o)'
<1>1. \A o : Attempted(o) => Attempted(o)'
  BY DEF Attempted
<1>2. \A o : Paid(o) => Paid(o)'
  BY DEF Paid
<1>3. \A o : Declined(o) => Declined(o)'
  BY DEF Declined
<1>4. \A o : AnsweredBefore(o) => AnsweredBefore(o)'
  BY DEF AnsweredBefore, Answered, Paid, Declined
<1> QED BY <1>1, <1>2, <1>3, <1>4, Zenon

\* So what does not move stays sound.
LEMMA StaySound ==
  ASSUME attempts \subseteq attempts', events \subseteq events', declined \subseteq declined',
         row = "confirmed" => row' = "confirmed",
         created => created'
  PROVE  /\ \A h \in Handlers :
              /\ Sound(h)
              /\ pc'[h] = pc[h] /\ seen'[h] = seen[h]
              /\ progress'[h] = progress[h] /\ pos'[h] = pos[h]
              => Sound(h)'
         /\ \A r : Harmless(r) => Harmless(r)'
         /\ StoredTrue /\ receipt' = receipt => StoredTrue'
<1> USE JavaKeeps
<1>1. \A h \in Handlers :
        /\ Sound(h)
        /\ pc'[h] = pc[h] /\ seen'[h] = seen[h]
        /\ progress'[h] = progress[h] /\ pos'[h] = pos[h]
        => Sound(h)'
  BY DEF Sound, TrueRecords
<1>2. \A r : Harmless(r) => Harmless(r)'
  BY DEF Harmless
<1>3. StoredTrue /\ receipt' = receipt => StoredTrue'
  BY DEF StoredTrue, TrueRecords
<1> QED BY <1>1, <1>2, <1>3

LEMMA InitInv == Init => IInv
<1> SUFFICES ASSUME Init PROVE IInv
  OBVIOUS
<1> USE CheckoutAssumption DEF Init, unseen, unrecorded
<1>1. TypeOK
  BY DEF TypeOK, Records, Statuses, Places
<1>2. HandlersSound /\ StoredTrue
  BY DEF HandlersSound, Sound, StoredTrue, TrueRecords, Paying
<1>3. LateHarmless /\ JavaSound /\ AnsweredInOrder /\ PaidIsConfirmed
  BY DEF LateHarmless, JavaSound, Paid, Declined, AnsweredInOrder, PaidIsConfirmed
<1> QED BY <1>1, <1>2, <1>3 DEF IInv
-----------------------------------------------------------------------------
(* Steps of a handler: Java does not move. *)

Locals(h) == <<pc[h], seen[h], progress[h], pos[h]>>

\* What remains to be shown of a step of one handler.
LEMMA HandlerStep ==
  ASSUME IInv, NEW h \in Handlers, UNCHANGED javaVars, TypeOK',
         \A g \in Handlers : g # h => UNCHANGED Locals(g),
         row = "confirmed" => row' = "confirmed",
         row' = "confirmed" => created,
         Sound(h)', StoredTrue',
         \A r \in late' : r \in late \/ Harmless(r)
  PROVE  IInv'
<1> USE DEF javaVars, IInv
<1>1. HandlersSound'
  BY StaySound DEF HandlersSound, Locals
<1>2. LateHarmless'
  BY StaySound DEF LateHarmless
<1>3. JavaSound'
  BY DEF JavaSound, Paid, Declined
<1>4. AnsweredInOrder' /\ PaidIsConfirmed'
  BY DEF AnsweredInOrder, PaidIsConfirmed
<1> QED BY <1>1, <1>2, <1>3, <1>4

\* A handler that ends works with nothing.
LEMMA FinishEffect ==
  ASSUME IInv, NEW h \in Handlers, Finish(h)
  PROVE  /\ pc' \in [Handlers -> Places]
         /\ seen' \in [Handlers -> [Orders -> Statuses]]
         /\ progress' \in [Handlers -> [Orders -> Records]]
         /\ pos' \in [Handlers -> Nat]
         /\ \A g \in Handlers : g # h => UNCHANGED Locals(g)
         /\ Sound(h)'
<1> USE DEF IInv, TypeOK, Finish, unseen, unrecorded
<1>1. /\ pc' \in [Handlers -> Places]
      /\ seen' \in [Handlers -> [Orders -> Statuses]]
      /\ progress' \in [Handlers -> [Orders -> Records]]
      /\ pos' \in [Handlers -> Nat]
      /\ \A g \in Handlers : g # h => UNCHANGED Locals(g)
  BY DEF Places, Statuses, Records, Locals
<1>2. Sound(h)'
  BY DEF Sound, TrueRecords, Paying
<1> QED BY <1>1, <1>2

LEMMA SubmitInv ==
  ASSUME IInv, NEW h \in Handlers, Submit(h)
  PROVE  IInv'
<1> USE DEF Submit, Suspend, payVars, javaVars
<1>1. TypeOK' /\ \A g \in Handlers : g # h => UNCHANGED Locals(g)
  BY DEF IInv, TypeOK, Places, Locals
<1>2. Sound(h)'
  BY DEF IInv, TypeOK, HandlersSound, Sound, TrueRecords, Attempted, Paid, Declined, Paying
<1>3. StoredTrue'
  BY DEF IInv, StoredTrue, TrueRecords, Attempted, Paid, Declined
<1> QED BY <1>1, <1>2, <1>3, HandlerStep

LEMMA SettleInv ==
  ASSUME IInv, NEW h \in Handlers, SubmitAccepted(h) \/ SubmitRefused(h)
  PROVE  IInv'
<1> USE DEF javaVars
<1>1. Finish(h) /\ UNCHANGED <<receipt, late, javaVars>>
  BY DEF SubmitAccepted, SubmitRefused
<1>2. /\ row' \in {"confirmed", "rejected"}
      /\ row = "confirmed" => row' = "confirmed"
      /\ row' = "confirmed" => created
  <2>1. CASE SubmitAccepted(h)
    BY <2>1 DEF SubmitAccepted, complete, IInv, HandlersSound, Sound
  <2>2. CASE SubmitRefused(h)
    BY <2>2 DEF SubmitRefused, reject, IInv, JavaSound
  <2> QED BY <2>1, <2>2
<1>3. TypeOK'
  BY <1>1, <1>2, FinishEffect DEF IInv, TypeOK
<1>4. StoredTrue'
  BY <1>1, StaySound, <1>2 DEF IInv
<1> QED BY <1>1, <1>2, <1>3, <1>4, FinishEffect, HandlerStep

LEMMA PayInv ==
  ASSUME IInv, NEW h \in Handlers, Pay(h)
  PROVE  IInv'
<1> USE DEF Pay, Suspend, payVars, javaVars
<1>1. TypeOK' /\ \A g \in Handlers : g # h => UNCHANGED Locals(g)
  BY DEF IInv, TypeOK, Places, Locals
<1>2. Sound(h)'
  BY DEF IInv, TypeOK, HandlersSound, Sound, TrueRecords, Attempted, Paid, Declined, Paying
<1>3. StoredTrue' /\ (row = "confirmed" => created)
  BY DEF IInv, JavaSound, StoredTrue, TrueRecords, Attempted, Paid, Declined
<1> QED BY <1>1, <1>2, <1>3, HandlerStep

\* The loop goes on from an order all earlier ones of which are answered, with
\* records that are true, and comes to an order of the same kind, or ends.
LEMMA ContinueEffect ==
  ASSUME IInv, NEW h \in Handlers, row = "confirmed", UNCHANGED <<row, javaVars>>,
         NEW records \in [Orders -> Records], TrueRecords(records),
         NEW from \in 1 .. OrderCount + 1, AnsweredBefore(from),
         Continue(h, seen[h], records, from)
  PROVE  /\ pc' \in [Handlers -> Places]
         /\ seen' \in [Handlers -> [Orders -> Statuses]]
         /\ progress' \in [Handlers -> [Orders -> Records]]
         /\ pos' \in [Handlers -> Nat]
         /\ \A g \in Handlers : g # h => UNCHANGED Locals(g)
         /\ Sound(h)'
<1> DEFINE o == nextOrder(seen[h], from)
<1>1. seen[h] \in [Orders -> Statuses]
  BY DEF IInv, TypeOK
<1>2. /\ o \in from .. OrderCount + 1
      /\ \A p \in from .. o - 1 : seen[h][p] = "PAID"
  BY <1>1, NextOrder
<1>3. AnsweredBefore(o)
  <2> SUFFICES ASSUME NEW p \in 1 .. o - 1 PROVE Answered(p)
    BY DEF AnsweredBefore, Answered
  <2>1. CASE p \in 1 .. from - 1
    BY <2>1 DEF AnsweredBefore, Answered
  <2>2. CASE p \in from .. o - 1
    BY <2>2, <1>2, CheckoutAssumption DEF IInv, HandlersSound, Sound, Orders, Answered
  <2> QED BY <2>1, <2>2, <1>2, CheckoutAssumption
<1> HIDE DEF o
<1>4. CASE o \in Orders /\ seen[h][o] = "UNPAID"
  <2>1. /\ progress' = [progress EXCEPT ![h] = records]
        /\ pos' = [pos EXCEPT ![h] = o]
        /\ pc' = [pc EXCEPT ![h] = IF records[o] = "none" THEN "starting" ELSE "calling"]
        /\ seen' = [seen EXCEPT ![h] = after(seen[h], o)]
    BY <1>4 DEF Continue, Suspend, o
  <2>2. /\ pc' \in [Handlers -> Places]
        /\ seen' \in [Handlers -> [Orders -> Statuses]]
        /\ progress' \in [Handlers -> [Orders -> Records]]
        /\ pos' \in [Handlers -> Nat]
        /\ \A g \in Handlers : g # h => UNCHANGED Locals(g)
    BY <1>1, <2>1, <1>4, CheckoutAssumption
    DEF IInv, TypeOK, Places, Statuses, Locals, Orders, after
  <2>3. /\ progress'[h] = records /\ pos'[h] = o /\ seen'[h] = after(seen[h], o)
        /\ pc'[h] \in {"starting", "calling"}
    BY <2>1 DEF IInv, TypeOK
  <2>5. \A p \in Orders : seen'[h][p] = "PAID" => seen[h][p] = "PAID"
    BY <2>3 DEF after
  <2>4. Sound(h)'
    BY <2>3, <2>5, <1>3, <1>4
    DEF IInv, HandlersSound, Sound, TrueRecords, AnsweredBefore, Answered, Attempted, Paid, Declined, Paying,
        javaVars
  <2> QED BY <2>2, <2>4
<1>5. CASE ~(o \in Orders /\ seen[h][o] = "UNPAID")
  <2>1. Finish(h)
    BY <1>5 DEF Continue, o
  <2> QED BY <2>1, FinishEffect
<1> QED BY <1>4, <1>5

LEMMA BeginInv ==
  ASSUME IInv, NEW h \in Handlers, Begin(h)
  PROVE  IInv'
<1>1. /\ Continue(h, seen[h], receipt, 1) /\ row = "confirmed"
      /\ UNCHANGED <<row, receipt, late, javaVars>>
  BY DEF Begin, IInv, HandlersSound, Sound
<1>2. receipt \in [Orders -> Records] /\ TrueRecords(receipt)
  BY DEF IInv, TypeOK, StoredTrue
<1>3. 1 \in 1 .. OrderCount + 1 /\ AnsweredBefore(1)
  BY CheckoutAssumption DEF AnsweredBefore, Answered
<1>4. /\ pc' \in [Handlers -> Places]
      /\ seen' \in [Handlers -> [Orders -> Statuses]]
      /\ progress' \in [Handlers -> [Orders -> Records]]
      /\ pos' \in [Handlers -> Nat]
      /\ \A g \in Handlers : g # h => UNCHANGED Locals(g)
      /\ Sound(h)'
  BY <1>1, <1>2, <1>3, ContinueEffect
<1>5. TypeOK'
  BY <1>1, <1>4 DEF IInv, TypeOK, javaVars
<1>6. StoredTrue' /\ (row = "confirmed" => created)
  BY <1>1 DEF IInv, JavaSound, StoredTrue, TrueRecords, Attempted, Paid, Declined, javaVars
<1> QED BY <1>1, <1>4, <1>5, <1>6, HandlerStep

\* What a handler adds to the record of its payment after Java's answer is true.
LEMMA RecordedIsTrue ==
  ASSUME IInv, NEW h \in Handlers, pc[h] \in {"started", "succeeded", "declined"},
         NEW value \in {"attempt", pc[h]}, pc[h] = "started" => value = "attempt"
  PROVE  /\ pos[h] \in Orders
         /\ [progress[h] EXCEPT ![pos[h]] = value] \in [Orders -> Records]
         /\ TrueRecords([progress[h] EXCEPT ![pos[h]] = value])
         /\ row = "confirmed" /\ created
<1>1. /\ pos[h] \in Orders /\ Attempted(pos[h]) /\ row = "confirmed"
      /\ pc[h] = "succeeded" => Paid(pos[h])
      /\ pc[h] = "declined" => Declined(pos[h])
      /\ TrueRecords(progress[h])
  BY DEF IInv, HandlersSound, Sound, Paying
<1>2. [progress[h] EXCEPT ![pos[h]] = value] \in [Orders -> Records]
  BY <1>1 DEF IInv, TypeOK, Records
<1>3. TrueRecords([progress[h] EXCEPT ![pos[h]] = value])
  BY <1>1 DEF TrueRecords, IInv, TypeOK
<1> QED BY <1>1, <1>2, <1>3 DEF IInv, JavaSound

LEMMA AttemptStartedInv ==
  ASSUME IInv, NEW h \in Handlers, AttemptStarted(h)
  PROVE  IInv'
<1> DEFINE records == [progress[h] EXCEPT ![pos[h]] = "attempt"]
<1>1. /\ pos[h] \in Orders
      /\ records \in [Orders -> Records] /\ TrueRecords(records)
      /\ row = "confirmed" /\ created
  BY RecordedIsTrue DEF AttemptStarted
<1>2. /\ receipt' = records
      /\ progress' = [progress EXCEPT ![h] = records]
      /\ pc' = [pc EXCEPT ![h] = "calling"]
      /\ UNCHANGED <<row, seen, pos, late, javaVars>>
  BY DEF AttemptStarted, Suspend
<1> HIDE DEF records
<1>3. TypeOK' /\ \A g \in Handlers : g # h => UNCHANGED Locals(g)
  BY <1>1, <1>2 DEF IInv, TypeOK, Places, Locals, javaVars
<1>4. /\ progress'[h] = records /\ pc'[h] = "calling"
      /\ seen'[h] = seen[h] /\ pos'[h] = pos[h] /\ pc[h] = "started"
  BY <1>2 DEF IInv, TypeOK, AttemptStarted
<1>5. StoredTrue'
  BY <1>1, <1>2 DEF StoredTrue, TrueRecords, Attempted, Paid, Declined, javaVars
<1>6. Sound(h)'
  BY <1>1, <1>2, <1>4
  DEF IInv, HandlersSound, Sound, TrueRecords, AnsweredBefore, Answered, Attempted, Paid, Declined, Paying,
      javaVars
<1> QED BY <1>1, <1>2, <1>3, <1>5, <1>6, HandlerStep

LEMMA CallbackAnsweredInv ==
  ASSUME IInv, NEW h \in Handlers, CallbackAnswered(h)
  PROVE  IInv'
<1> DEFINE records == [progress[h] EXCEPT ![pos[h]] = pc[h]]
<1>1. /\ pos[h] \in Orders
      /\ records \in [Orders -> Records] /\ TrueRecords(records)
      /\ row = "confirmed" /\ created
  BY RecordedIsTrue DEF CallbackAnswered
<1>2. /\ receipt' = records
      /\ Continue(h, seen[h], records, pos[h] + 1)
      /\ UNCHANGED <<row, late, javaVars>>
  BY DEF CallbackAnswered
<1> HIDE DEF records
<1>3. pos[h] + 1 \in 1 .. OrderCount + 1 /\ AnsweredBefore(pos[h] + 1)
  <2>1. AnsweredBefore(pos[h]) /\ Answered(pos[h])
    BY DEF CallbackAnswered, IInv, HandlersSound, Sound, Paying, Answered
  <2> QED BY <1>1, <2>1, CheckoutAssumption DEF Orders, AnsweredBefore, Answered
<1>4. /\ pc' \in [Handlers -> Places]
      /\ seen' \in [Handlers -> [Orders -> Statuses]]
      /\ progress' \in [Handlers -> [Orders -> Records]]
      /\ pos' \in [Handlers -> Nat]
      /\ \A g \in Handlers : g # h => UNCHANGED Locals(g)
      /\ Sound(h)'
  BY <1>1, <1>2, <1>3, ContinueEffect
<1>5. TypeOK'
  BY <1>1, <1>2, <1>4 DEF IInv, TypeOK, javaVars
<1>6. StoredTrue'
  BY <1>1, <1>2 DEF StoredTrue, TrueRecords, Attempted, Paid, Declined, javaVars
<1> QED BY <1>1, <1>2, <1>4, <1>5, <1>6, HandlerStep

\* A request that is given up is as harmless as the handler that sent it.
LEMMA ForgottenIsHarmless ==
  ASSUME IInv, NEW hs \in SUBSET Handlers, Forget(hs)
  PROVE  /\ late' \subseteq writes \X Nat \X (identities \cup Nat)
         /\ \A r \in late' : r \in late \/ Harmless(r)
<1>1. PICK forgotten \in SUBSET {request(h) : h \in {g \in hs : pc[g] \in writes}} :
        late' = late \cup forgotten
  BY DEF Forget
<1>2. ASSUME NEW h \in hs, pc[h] \in writes
      PROVE  /\ request(h) \in writes \X Nat \X (identities \cup Nat)
             /\ Harmless(request(h))
  <2>1. /\ h \in Handlers /\ pos[h] \in Nat /\ Sound(h)
        /\ request(h) = <<pc[h], pos[h], pos[h]>>
    BY DEF IInv, TypeOK, HandlersSound, request, identity
  <2>2. request(h) \in writes \X Nat \X (identities \cup Nat)
    BY <1>2, <2>1
  <2>3. Harmless(request(h))
    BY <1>2, <2>1 DEF Harmless, Sound
  <2> QED BY <2>2, <2>3
<1> QED BY <1>1, <1>2 DEF IInv, TypeOK

LEMMA GiveUpInv ==
  ASSUME IInv, NEW h \in Handlers, GiveUp(h)
  PROVE  IInv'
<1> USE DEF GiveUp, javaVars
<1>1. TypeOK'
  BY FinishEffect, ForgottenIsHarmless DEF IInv, TypeOK
<1>2. StoredTrue' /\ (row = "confirmed" => created)
  BY StaySound DEF IInv, JavaSound
<1> QED BY <1>1, <1>2, FinishEffect, ForgottenIsHarmless, HandlerStep

LEMMA RestartInv ==
  ASSUME IInv, Restart
  PROVE  IInv'
<1> USE DEF Restart, javaVars, IInv
<1>1. /\ late' \subseteq writes \X Nat \X (identities \cup Nat)
      /\ \A r \in late' : r \in late \/ Harmless(r)
  BY ForgottenIsHarmless
<1>2. TypeOK'
  BY <1>1 DEF TypeOK, Places, Statuses, Records, unseen, unrecorded
<1>3. HandlersSound'
  BY DEF HandlersSound, Sound, TrueRecords, Paying, unseen, unrecorded
<1>4. LateHarmless'
  BY <1>1, StaySound DEF LateHarmless
<1>5. StoredTrue' /\ JavaSound'
  BY StaySound DEF JavaSound, Paid, Declined
<1>6. AnsweredInOrder' /\ PaidIsConfirmed'
  BY DEF AnsweredInOrder, PaidIsConfirmed
<1> QED BY <1>2, <1>3, <1>4, <1>5, <1>6

-----------------------------------------------------------------------------
(* Steps of Java: the host's record stands still. *)

\* What remains to be shown of an answer, or of a request carried out for nobody.
LEMMA JavaStep ==
  ASSUME IInv, TypeOK', UNCHANGED <<row, receipt>>,
         attempts \subseteq attempts', events \subseteq events', declined \subseteq declined',
         created => created',
         late' \subseteq late,
         \A g \in Handlers : UNCHANGED Locals(g) \/ Sound(g)',
         JavaSound', AnsweredInOrder', PaidIsConfirmed'
  PROVE  IInv'
<1> USE DEF IInv
<1>1. HandlersSound'
  BY StaySound DEF HandlersSound, Locals
<1>2. LateHarmless' /\ StoredTrue'
  BY StaySound DEF LateHarmless
<1> QED BY <1>1, <1>2

LEMMA CreateEffect ==
  ASSUME IInv, CreateCheckout, UNCHANGED <<row, receipt>>
  PROVE  JavaSound' /\ AnsweredInOrder' /\ PaidIsConfirmed' /\ created'
BY DEF CreateCheckout, IInv, JavaSound, AnsweredInOrder, PaidIsConfirmed, Paid, Declined

\* An attempt at an order of a confirmed checkout all earlier ones of which are
\* answered.
LEMMA StartEffect ==
  ASSUME IInv, UNCHANGED <<row, receipt>>, row = "confirmed",
         NEW o \in Orders, AnsweredBefore(o), StartPayment(o, o)
  PROVE  /\ attempts' \subseteq Payments
         /\ attempts \subseteq attempts' /\ Attempted(o)'
         /\ UNCHANGED <<created, status, events, declined>>
         /\ JavaSound' /\ AnsweredInOrder' /\ PaidIsConfirmed'
<1> DEFINE a == [order |-> o, identity |-> o]
<1>1. /\ attempts' = attempts \cup {a} /\ UNCHANGED <<created, status, events, declined>>
      /\ a \in Payments /\ a.order = o /\ a.identity = o
  BY DEF StartPayment, Payments, identities
<1> HIDE DEF a
<1>2. attempts' \subseteq Payments /\ attempts \subseteq attempts' /\ Attempted(o)'
  BY <1>1 DEF IInv, TypeOK, Attempted
<1>3. JavaSound'
  BY <1>1 DEF IInv, JavaSound, Paid, Declined
<1>4. AnsweredInOrder'
  BY <1>1 DEF IInv, AnsweredInOrder, AnsweredBefore, Answered, Paid, Declined
<1>5. PaidIsConfirmed'
  BY <1>1 DEF IInv, PaidIsConfirmed, JavaSound
<1> QED BY <1>1, <1>2, <1>3, <1>4, <1>5

LEMMA CallbackEffect ==
  ASSUME IInv, UNCHANGED <<row, receipt>>, NEW o \in Orders, PaymentCallback(o, o)
  PROVE  /\ events' \subseteq Payments /\ status' \in [Orders -> Statuses]
         /\ events \subseteq events' /\ Attempted(o)' /\ Paid(o)'
         /\ UNCHANGED <<created, attempts, declined>>
         /\ JavaSound' /\ AnsweredInOrder' /\ PaidIsConfirmed'
<1> DEFINE e == [order |-> o, identity |-> o]
<1>1. /\ events' = events \cup {e} /\ e \in attempts
      /\ status' = IF status[o] = "UNPAID" THEN [status EXCEPT ![o] = "PAID"] ELSE status
      /\ UNCHANGED <<created, attempts, declined>>
      /\ e \in Payments /\ e.order = o /\ e.identity = o
  BY DEF PaymentCallback, Payments, identities
<1> HIDE DEF e
<1>2. /\ events' \subseteq Payments /\ status' \in [Orders -> Statuses]
      /\ events \subseteq events' /\ Attempted(o)' /\ Paid(o)'
  BY <1>1 DEF IInv, TypeOK, Statuses, Attempted, Paid, Declined
<1>3. JavaSound'
  BY <1>1 DEF IInv, TypeOK, JavaSound, Paid, Declined
<1>4. AnsweredInOrder'
  BY <1>1 DEF IInv, AnsweredInOrder
<1>5. PaidIsConfirmed'
  BY <1>1 DEF IInv, PaidIsConfirmed
<1> QED BY <1>1, <1>2, <1>3, <1>4, <1>5

LEMMA DeclineEffect ==
  ASSUME IInv, UNCHANGED <<row, receipt>>, NEW o \in Orders, DeclineCallback(o, o)
  PROVE  /\ declined' \subseteq Payments /\ declined \subseteq declined'
         /\ Attempted(o)' /\ Declined(o)'
         /\ UNCHANGED <<created, status, attempts, events>>
         /\ JavaSound' /\ AnsweredInOrder' /\ PaidIsConfirmed'
<1> DEFINE d == [order |-> o, identity |-> o]
<1>1. /\ declined' = declined \cup {d} /\ d \in attempts
      /\ UNCHANGED <<created, status, attempts, events>>
      /\ d \in Payments /\ d.order = o
  BY DEF DeclineCallback, Payments, identities
<1> HIDE DEF d
<1>2. /\ declined' \subseteq Payments /\ declined \subseteq declined'
      /\ Attempted(o)' /\ Declined(o)'
  BY <1>1 DEF IInv, TypeOK, Attempted, Declined
<1>3. JavaSound'
  BY <1>1 DEF IInv, JavaSound, Paid
<1>4. AnsweredInOrder' /\ PaidIsConfirmed'
  BY <1>1 DEF IInv, AnsweredInOrder, PaidIsConfirmed
<1> QED BY <1>1, <1>2, <1>3, <1>4

LEMMA JavaAnswersInv ==
  ASSUME IInv, NEW h \in Handlers, JavaCreates(h) \/ JavaRefuses(h) \/ JavaShows(h)
  PROVE  IInv'
<1> USE DEF Suspend, payVars, javaVars
<1>1. CASE JavaCreates(h)
  <2> USE <1>1 DEF JavaCreates
  <2>1. JavaSound' /\ AnsweredInOrder' /\ PaidIsConfirmed' /\ created'
    BY CreateEffect
  <2>2. TypeOK' /\ UNCHANGED <<attempts, events, declined>>
    BY <2>1 DEF IInv, TypeOK, Places, CreateCheckout
  <2>3. \A g \in Handlers : g # h => UNCHANGED Locals(g)
    BY DEF IInv, TypeOK, Locals
  <2>4. Sound(h)'
    BY <2>1, <2>2
    DEF IInv, TypeOK, HandlersSound, Sound, TrueRecords, Attempted, Paid, Declined, Paying
  <2> QED BY <2>1, <2>2, <2>3, <2>4, JavaStep
<1>2. CASE JavaRefuses(h)
  <2> USE <1>2 DEF JavaRefuses
  <2>1. TypeOK' /\ \A g \in Handlers : g # h => UNCHANGED Locals(g)
    BY DEF IInv, TypeOK, Places, Locals
  <2>2. Sound(h)'
    BY DEF IInv, TypeOK, HandlersSound, Sound, TrueRecords, Attempted, Paid, Declined, Paying
  <2>3. StoredTrue' /\ (row = "confirmed" => created)
    BY StaySound DEF IInv, JavaSound
  <2> QED BY <2>1, <2>2, <2>3, HandlerStep
<1>3. CASE JavaShows(h)
  <2> USE <1>3 DEF JavaShows
  <2>1. TypeOK' /\ \A g \in Handlers : g # h => UNCHANGED Locals(g)
    BY DEF IInv, TypeOK, Places, Locals
  <2>2. seen'[h] = status /\ pc'[h] = "seen"
    BY DEF IInv, TypeOK
  <2>3. Sound(h)'
    BY <2>2
    DEF IInv, JavaSound, HandlersSound, Sound, TrueRecords, Attempted, Paid, Declined, Paying
  <2>4. StoredTrue' /\ (row = "confirmed" => created)
    BY StaySound DEF IInv, JavaSound
  <2> QED BY <2>1, <2>3, <2>4, HandlerStep
<1> QED BY <1>1, <1>2, <1>3

LEMMA JavaStartsInv ==
  ASSUME IInv, NEW h \in Handlers, JavaStarts(h)
  PROVE  IInv'
<1> USE DEF JavaStarts, Suspend, payVars
<1>1. /\ pos[h] \in Orders /\ AnsweredBefore(pos[h]) /\ row = "confirmed"
      /\ StartPayment(pos[h], pos[h])
  BY DEF IInv, HandlersSound, Sound, Paying, identity
<1>2. /\ attempts' \subseteq Payments
      /\ attempts \subseteq attempts' /\ Attempted(pos[h])'
      /\ UNCHANGED <<created, status, events, declined>>
      /\ JavaSound' /\ AnsweredInOrder' /\ PaidIsConfirmed'
  BY <1>1, StartEffect
<1>3. TypeOK' /\ \A g \in Handlers : g # h => UNCHANGED Locals(g)
  BY <1>2 DEF IInv, TypeOK, Places, Locals
<1>4. pc'[h] = "started"
  BY DEF IInv, TypeOK
<1>5. Sound(h)'
  BY <1>1, <1>2, <1>4, JavaKeeps
  DEF IInv, HandlersSound, Sound, TrueRecords, Paying
<1> QED BY <1>2, <1>3, <1>5, JavaStep

LEMMA JavaPaysInv ==
  ASSUME IInv, NEW h \in Handlers, JavaPays(h)
  PROVE  IInv'
<1> USE DEF JavaPays, Suspend, payVars
<1>1. /\ pos[h] \in Orders /\ AnsweredBefore(pos[h]) /\ row = "confirmed"
      /\ PaymentCallback(pos[h], pos[h])
  BY DEF IInv, HandlersSound, Sound, Paying, identity
<1>2. /\ events' \subseteq Payments /\ status' \in [Orders -> Statuses]
      /\ events \subseteq events' /\ Attempted(pos[h])' /\ Paid(pos[h])'
      /\ UNCHANGED <<created, attempts, declined>>
      /\ JavaSound' /\ AnsweredInOrder' /\ PaidIsConfirmed'
  BY <1>1, CallbackEffect
<1>3. TypeOK' /\ \A g \in Handlers : g # h => UNCHANGED Locals(g)
  BY <1>2 DEF IInv, TypeOK, Places, Locals
<1>4. pc'[h] = "succeeded"
  BY DEF IInv, TypeOK
<1>5. Sound(h)'
  BY <1>1, <1>2, <1>4, JavaKeeps
  DEF IInv, HandlersSound, Sound, TrueRecords, Paying
<1> QED BY <1>2, <1>3, <1>5, JavaStep

LEMMA JavaDeclinesInv ==
  ASSUME IInv, NEW h \in Handlers, JavaDeclines(h)
  PROVE  IInv'
<1> USE DEF JavaDeclines, Suspend, payVars
<1>1. /\ pos[h] \in Orders /\ AnsweredBefore(pos[h]) /\ row = "confirmed"
      /\ DeclineCallback(pos[h], pos[h])
  BY DEF IInv, HandlersSound, Sound, Paying, identity
<1>2. /\ declined' \subseteq Payments /\ declined \subseteq declined'
      /\ Attempted(pos[h])' /\ Declined(pos[h])'
      /\ UNCHANGED <<created, status, attempts, events>>
      /\ JavaSound' /\ AnsweredInOrder' /\ PaidIsConfirmed'
  BY <1>1, DeclineEffect
<1>3. TypeOK' /\ \A g \in Handlers : g # h => UNCHANGED Locals(g)
  BY <1>2 DEF IInv, TypeOK, Places, Locals
<1>4. pc'[h] = "declined"
  BY DEF IInv, TypeOK
<1>5. Sound(h)'
  BY <1>1, <1>2, <1>4, JavaKeeps
  DEF IInv, HandlersSound, Sound, TrueRecords, Paying
<1> QED BY <1>2, <1>3, <1>5, JavaStep

LEMMA LateAcceptsInv ==
  ASSUME IInv, NEW r \in late, LateAccepts(r)
  PROVE  IInv'
<1>1. /\ late' \subseteq late /\ UNCHANGED <<row, receipt>>
      /\ \A g \in Handlers : UNCHANGED Locals(g)
      /\ UNCHANGED <<pc, seen, progress, pos>>
  BY DEF LateAccepts, payVars, Locals
<1>2. Harmless(r)
  BY DEF IInv, LateHarmless
<1>3. CASE r[1] = "submitting" /\ CreateCheckout
  <2>1. JavaSound' /\ AnsweredInOrder' /\ PaidIsConfirmed' /\ created'
    BY <1>1, <1>3, CreateEffect
  <2>2. TypeOK' /\ UNCHANGED <<attempts, events, declined>>
    BY <1>1, <1>3, <2>1 DEF IInv, TypeOK, CreateCheckout
  <2> QED BY <1>1, <2>1, <2>2, JavaStep
<1>4. CASE r[1] = "starting" /\ StartPayment(r[2], r[3])
  <2>1. r[2] \in Orders /\ r[3] = r[2] /\ AnsweredBefore(r[2]) /\ row = "confirmed"
    BY <1>2, <1>4 DEF Harmless, Paying
  <2>2. /\ attempts' \subseteq Payments /\ attempts \subseteq attempts'
        /\ UNCHANGED <<created, status, events, declined>>
        /\ JavaSound' /\ AnsweredInOrder' /\ PaidIsConfirmed'
    BY <1>1, <1>4, <2>1, StartEffect
  <2>3. TypeOK'
    BY <1>1, <2>2 DEF IInv, TypeOK
  <2> QED BY <1>1, <2>2, <2>3, JavaStep
<1>5. CASE r[1] = "calling" /\ PaymentCallback(r[2], r[3])
  <2>1. r[2] \in Orders /\ r[3] = r[2]
    BY <1>2, <1>5 DEF Harmless, Paying
  <2>2. /\ events' \subseteq Payments /\ status' \in [Orders -> Statuses]
        /\ events \subseteq events' /\ UNCHANGED <<created, attempts, declined>>
        /\ JavaSound' /\ AnsweredInOrder' /\ PaidIsConfirmed'
    BY <1>1, <1>5, <2>1, CallbackEffect
  <2>3. TypeOK'
    BY <1>1, <2>2 DEF IInv, TypeOK
  <2> QED BY <1>1, <2>2, <2>3, JavaStep
<1> QED BY <1>3, <1>4, <1>5 DEF LateAccepts

LEMMA OrderClosesInv ==
  ASSUME IInv, NEW o \in Orders, OrderCloses(o)
  PROVE  IInv'
<1> USE DEF OrderCloses, payVars
<1>1. TypeOK' /\ \A g \in Handlers : UNCHANGED Locals(g)
  BY DEF IInv, TypeOK, Statuses, Locals
<1>2. JavaSound'
  BY DEF IInv, TypeOK, JavaSound, Paid, Declined
<1>3. AnsweredInOrder' /\ PaidIsConfirmed'
  BY DEF IInv, AnsweredInOrder, PaidIsConfirmed
<1> QED BY <1>1, <1>2, <1>3, JavaStep

-----------------------------------------------------------------------------
LEMMA Inductive == IInv /\ [Next]_vars => IInv'
<1> SUFFICES ASSUME IInv, [Next]_vars PROVE IInv'
  OBVIOUS
<1>1. ASSUME NEW h \in Handlers, Handle(h)
      PROVE  IInv'
  BY <1>1, SubmitInv, SettleInv, PayInv, BeginInv, AttemptStartedInv,
     CallbackAnsweredInv, GiveUpInv DEF Handle
<1>2. CASE Java
  BY <1>2, JavaAnswersInv, JavaStartsInv, JavaPaysInv, JavaDeclinesInv,
     LateAcceptsInv, OrderClosesInv
  DEF Java
<1>3. CASE Restart
  BY <1>3, RestartInv
<1>4. CASE UNCHANGED vars
  <2> USE <1>4 DEF vars, payVars, javaVars
  <2>1. TypeOK' /\ \A g \in Handlers : UNCHANGED Locals(g)
    BY DEF IInv, TypeOK, Locals
  <2>2. JavaSound' /\ AnsweredInOrder' /\ PaidIsConfirmed'
    BY DEF IInv, JavaSound, Paid, Declined, AnsweredInOrder, PaidIsConfirmed
  <2> QED BY <2>1, <2>2, JavaStep
<1> QED BY <1>1, <1>2, <1>3, <1>4 DEF Next

LEMMA Invariant == Spec => []IInv
BY InitInv, Inductive, PTL DEF Spec

\* The state of the model has its type.
THEOREM TypeCorrect == Spec => []TypeOK
<1>1. IInv => TypeOK
  BY DEF IInv
<1> QED BY <1>1, Invariant, PTL

\* An order of a checkout gets one payment attempt and one callback event, however
\* many payments run, stop and are repeated (buyer_transactions.py:124-170).
THEOREM OnePaymentPerOrder == Spec => []OnePayment
<1>1. IInv => OnePayment
  <2> SUFFICES ASSUME IInv PROVE OnePayment
    OBVIOUS
  <2>1. \A a \in attempts : a = [order |-> a.order, identity |-> a.order]
    BY DEF IInv, TypeOK, JavaSound, Payments
  <2> QED BY <2>1 DEF IInv, JavaSound, OnePayment
<1> QED BY <1>1, Invariant, PTL

\* The stored progress of a payment never claims what Java does not have, although
\* handlers write it whole from what they read before their awaits.
THEOREM ProgressNeverLies == Spec => []ProgressIsTrue
<1>1. IInv => ProgressIsTrue
  BY DEF IInv, StoredTrue, TrueRecords, Attempted, Paid, Declined, ProgressIsTrue
<1> QED BY <1>1, Invariant, PTL

\* An order is tried only after Java has answered a callback of every earlier one,
\* be it with a payment or with a refusal at which no payment looks.
THEOREM AnsweredPrefix == Spec => []AnsweredInOrder
<1>1. IInv => AnsweredInOrder
  BY DEF IInv
<1> QED BY <1>1, Invariant, PTL

\* A checkout that is being paid stays confirmed, whatever slower submissions of
\* the same command are answered.
THEOREM PaymentsAreConfirmed == Spec => []PaidIsConfirmed
<1>1. IInv => PaidIsConfirmed
  BY DEF IInv
<1> QED BY <1>1, Invariant, PTL

-----------------------------------------------------------------------------
(* Checkouts implements OrderPayments. *)

\* A payment adds its key to those of its order.
LEMMA KeyAdded ==
  ASSUME NEW S, NEW p, p.order \in Orders
  PROVE  keysOf(S \cup {p})
           = [keysOf(S) EXCEPT ![p.order] = keysOf(S)[p.order] \cup {p.identity}]
<1>1. ASSUME NEW o \in Orders
      PROVE  keysOf(S \cup {p})[o]
               = IF o = p.order THEN keysOf(S)[o] \cup {p.identity} ELSE keysOf(S)[o]
  BY DEF keysOf
<1>2. \A T : keysOf(T) = [o \in Orders |-> keysOf(T)[o]]
  BY DEF keysOf
<1> QED BY <1>1, <1>2

\* The keys of an order are there if its payments are, and are the order itself.
LEMMA KeyIsOrder ==
  ASSUME IInv, NEW o \in Orders
  PROVE  /\ triedOf[o] = IF [order |-> o, identity |-> o] \in attempts THEN {o} ELSE {}
         /\ carriedOf[o] = IF [order |-> o, identity |-> o] \in events THEN {o} ELSE {}
         /\ Paid(o) <=> [order |-> o, identity |-> o] \in events
         /\ Declined(o) <=> o \in declinedOf
<1>1. \A a \in attempts \cup events : a = [order |-> a.order, identity |-> a.order]
  BY DEF IInv, TypeOK, JavaSound, Payments
<1>2. \A a \in attempts \cup events : a.identity = a.order
  BY DEF IInv, JavaSound
<1> QED BY <1>1, <1>2 DEF triedOf, carriedOf, declinedOf, keysOf, Paid, Declined

LEMMA InitPromise == Init => Promise!Init
BY DEF Init, Promise!Init, triedOf, carriedOf, declinedOf, keysOf, unseen

\* An attempt that is not repeated is the first of an order whose turn it is.
LEMMA StartPromised ==
  ASSUME IInv, NEW o \in Orders, AnsweredBefore(o), StartPayment(o, o)
  PROVE  Promise!Try(o, o) \/ UNCHANGED Promise!vars
<1> DEFINE a == [order |-> o, identity |-> o]
<1>1. /\ attempts' = attempts \cup {a} /\ UNCHANGED <<status, events, declined>>
      /\ a \in attempts \/ status[o] = "UNPAID"
      /\ a.order = o /\ a.identity = o
  BY DEF StartPayment
<1>2. carriedOf' = carriedOf /\ declinedOf' = declinedOf
  BY <1>1 DEF carriedOf, declinedOf, keysOf
<1>3. CASE a \in attempts
  <2>1. attempts' = attempts
    BY <1>1, <1>3
  <2>2. triedOf' = triedOf
    BY <2>1 DEF triedOf, keysOf
  <2> QED BY <1>1, <1>2, <2>2 DEF Promise!vars
<1>4. CASE a \notin attempts
  <2>1. triedOf[o] = {} /\ status[o] = "UNPAID"
    BY <1>1, <1>4, KeyIsOrder
  <2>2. \A p \in Orders : p < o => carriedOf[p] # {} \/ p \in declinedOf
    <3>1. \A p \in Orders : p < o => p \in 1 .. o - 1
      BY CheckoutAssumption DEF Orders
    <3> QED BY <3>1, KeyIsOrder DEF AnsweredBefore, Answered
  <2>3. triedOf' = keysOf(attempts \cup {a})
    BY <1>1 DEF triedOf, keysOf
  <2> HIDE DEF a
  <2>4. triedOf' = [triedOf EXCEPT ![o] = triedOf[o] \cup {o}]
    <3>1. keysOf(attempts \cup {a})
            = [keysOf(attempts) EXCEPT ![a.order] = keysOf(attempts)[a.order] \cup {a.identity}]
      BY <1>1, KeyAdded
    <3> QED BY <1>1, <2>3, <3>1 DEF triedOf
  <2>5. triedOf' = [triedOf EXCEPT ![o] = {o}]
    BY <2>1, <2>4
  <2> QED BY <1>1, <1>2, <2>1, <2>2, <2>5 DEF Promise!Try
<1> QED BY <1>3, <1>4

\* A callback that is not repeated pays an order that is still unpaid.
LEMMA CallbackPromised ==
  ASSUME IInv, NEW o \in Orders, PaymentCallback(o, o)
  PROVE  Promise!CarryOut(o, o) \/ UNCHANGED Promise!vars
<1> DEFINE e == [order |-> o, identity |-> o]
<1>1. /\ events' = events \cup {e} /\ e \in attempts
      /\ UNCHANGED <<attempts, declined>>
      /\ status' = IF status[o] = "UNPAID" THEN [status EXCEPT ![o] = "PAID"] ELSE status
      /\ e \in events \/ status[o] = "UNPAID"
      /\ e.order = o /\ e.identity = o
  BY DEF PaymentCallback
<1>2. triedOf' = triedOf /\ declinedOf' = declinedOf
  BY <1>1 DEF triedOf, declinedOf, keysOf
<1>3. CASE e \in events /\ status[o] # "UNPAID"
  <2>1. events' = events /\ status' = status
    BY <1>1, <1>3
  <2>2. carriedOf' = carriedOf
    BY <2>1 DEF carriedOf, keysOf
  <2> QED BY <1>2, <2>1, <2>2 DEF Promise!vars
<1>4. CASE e \notin events
  <2>1. carriedOf[o] = {} /\ status[o] = "UNPAID" /\ o \in triedOf[o]
    BY <1>1, <1>4, KeyIsOrder
  <2>2. carriedOf' = keysOf(events \cup {e})
    BY <1>1 DEF carriedOf, keysOf
  <2> HIDE DEF e
  <2>3. carriedOf' = [carriedOf EXCEPT ![o] = carriedOf[o] \cup {o}]
    BY <1>1, <2>2, KeyAdded DEF carriedOf
  <2>4. carriedOf' = [carriedOf EXCEPT ![o] = {o}]
    BY <2>1, <2>3
  <2> QED BY <1>1, <1>2, <2>1, <2>4 DEF Promise!CarryOut
<1>5. CASE e \in events /\ status[o] = "UNPAID"
  BY <1>5, KeyIsOrder DEF IInv, JavaSound
<1> QED BY <1>3, <1>4, <1>5

\* A callback is declined only of an order that was tried and is not paid by it.
LEMMA DeclinePromised ==
  ASSUME IInv, NEW o \in Orders, DeclineCallback(o, o)
  PROVE  Promise!Decline(o)
<1>1. /\ declined' = declined \cup {[order |-> o, identity |-> o]}
      /\ [order |-> o, identity |-> o] \in attempts \ events
      /\ UNCHANGED <<status, attempts, events>>
  BY DEF DeclineCallback
<1>2. declinedOf' = declinedOf \cup {o}
  BY <1>1 DEF declinedOf
<1>3. triedOf' = triedOf /\ carriedOf' = carriedOf
  BY <1>1 DEF triedOf, carriedOf, keysOf
<1>4. triedOf[o] # {} /\ carriedOf[o] = {}
  BY <1>1, KeyIsOrder
<1> QED BY <1>1, <1>2, <1>3, <1>4 DEF Promise!Decline

\* What a handler asks of Java, or has left for it to carry out, is what it may do.
LEMMA JavaPromised ==
  ASSUME IInv, Java
  PROVE  [Promise!Next]_(Promise!vars)
<1>1. \A o \in Orders : /\ o \in identities
                        /\ Promise!Try(o, o) => Promise!Next
                        /\ Promise!CarryOut(o, o) => Promise!Next
                        /\ Promise!Decline(o) => Promise!Next
  BY DEF Promise!Next, identities
<1>2. ASSUME UNCHANGED <<attempts, events, declined, status>>
      PROVE  UNCHANGED Promise!vars
  BY <1>2 DEF Promise!vars, triedOf, carriedOf, declinedOf, keysOf
<1>3. ASSUME NEW h \in Handlers, JavaCreates(h) \/ JavaRefuses(h) \/ JavaShows(h)
      PROVE  UNCHANGED Promise!vars
  BY <1>2, <1>3 DEF JavaCreates, CreateCheckout, JavaRefuses, JavaShows, javaVars
<1>4. ASSUME NEW h \in Handlers, JavaStarts(h)
      PROVE  [Promise!Next]_(Promise!vars)
  <2>1. pos[h] \in Orders /\ AnsweredBefore(pos[h]) /\ StartPayment(pos[h], pos[h])
    BY <1>4 DEF JavaStarts, IInv, HandlersSound, Sound, Paying, identity
  <2> QED BY <1>1, <2>1, StartPromised
<1>5. ASSUME NEW h \in Handlers, JavaPays(h)
      PROVE  [Promise!Next]_(Promise!vars)
  <2>1. pos[h] \in Orders /\ PaymentCallback(pos[h], pos[h])
    BY <1>5 DEF JavaPays, IInv, HandlersSound, Sound, Paying, identity
  <2> QED BY <1>1, <2>1, CallbackPromised
<1>9. ASSUME NEW h \in Handlers, JavaDeclines(h)
      PROVE  [Promise!Next]_(Promise!vars)
  <2>1. pos[h] \in Orders /\ DeclineCallback(pos[h], pos[h])
    BY <1>9 DEF JavaDeclines, IInv, HandlersSound, Sound, Paying, identity
  <2> QED BY <1>1, <2>1, DeclinePromised
<1>6. ASSUME NEW r \in late, LateAccepts(r)
      PROVE  [Promise!Next]_(Promise!vars)
  <2>1. Harmless(r)
    BY DEF IInv, LateHarmless
  <2>2. CASE r[1] = "submitting" /\ CreateCheckout
    BY <1>2, <2>2 DEF CreateCheckout
  <2>3. CASE r[1] = "starting" /\ StartPayment(r[2], r[3])
    BY <1>1, <2>1, <2>3, StartPromised DEF Harmless, Paying
  <2>4. CASE r[1] = "calling" /\ PaymentCallback(r[2], r[3])
    BY <1>1, <2>1, <2>4, CallbackPromised DEF Harmless, Paying
  <2> QED BY <1>6, <2>2, <2>3, <2>4 DEF LateAccepts
<1>7. ASSUME NEW o \in Orders, OrderCloses(o)
      PROVE  Promise!Close(o)
  BY <1>7 DEF OrderCloses, Promise!Close, triedOf, carriedOf, declinedOf, keysOf
<1>8. \A o \in Orders : Promise!Close(o) => Promise!Next
  BY DEF Promise!Next
<1> QED BY <1>3, <1>4, <1>5, <1>6, <1>7, <1>8, <1>9 DEF Java

\* The payments of a checkout, repeated, abandoned and carried out late, are what
\* OrderPayments allows: each order under one key, and after the answers, though
\* not always the payment, of the earlier ones.
THEOREM ImplementsPayments == Spec => PaysAsPromised
<1>1. ASSUME IInv, [Next]_vars
      PROVE  [Promise!Next]_(Promise!vars)
  <2>1. CASE Java
    BY <1>1, <2>1, JavaPromised
  <2>2. CASE ~Java
    <3>1. UNCHANGED <<attempts, events, declined, status>>
      BY <1>1, <2>2
      DEF Next, Handle, Submit, SubmitAccepted, SubmitRefused, Pay, Begin,
          AttemptStarted, CallbackAnswered, GiveUp, Restart, vars, javaVars
    <3> QED BY <3>1 DEF Promise!vars, triedOf, carriedOf, declinedOf, keysOf
  <2> QED BY <2>1, <2>2
<1> QED BY <1>1, InitPromise, Invariant, PTL DEF Spec, PaysAsPromised, Promise!Spec
=============================================================================
