------------------------------ MODULE Checkouts ------------------------------
(***************************************************************************)
(* One checkout command of a buyer and the payment of its orders           *)
(* (buyer_transactions.py over buyer_commands.py).  The row is registered  *)
(* before the first request; submissions and payments of the same checkout *)
(* run as handlers that interleave at every await.  A payment walks the    *)
(* orders with a snapshot of their states and of the stored progress, both *)
(* read once.  Commands of different keys share no state.                  *)
(***************************************************************************)
EXTENDS Naturals, FiniteSets, FiniteSetsExt

CONSTANTS
  OrderCount,  \* the orders of the checkout, in Java's order
  Handlers,    \* concurrent HTTP requests of the host
  MaxLate,     \* bound: requests given up that Java may still get, at a time
  MaxDeclined  \* bound: payments that Java declines

ASSUME CheckoutAssumption == OrderCount \in Nat /\ MaxLate \in Nat /\ MaxDeclined \in Nat

Orders == 1 .. OrderCount

VARIABLES
  row,       \* table buyer_commands: the state of the command
  receipt,   \* table buyer_confirmations: what is recorded of each payment
  pc,        \* where a handler is suspended
  seen,      \* the order states a paying handler works with
  progress,  \* the payment records a paying handler works with
  pos,       \* the order a paying handler is at
  late,      \* requests Java may still carry out for nobody
  created,   \* Java: the checkout exists
  status,    \* Java: the state of every order
  attempts,  \* Java: payment attempts
  events,    \* Java: payment callbacks carried out
  declined   \* Java: payments of which a callback was answered PENDING or FAILED

payVars == <<seen, progress, pos>>
javaVars == <<created, status, attempts, events, declined>>
vars == <<row, receipt, pc, payVars, late, javaVars>>

\* "submitting": POST of the checkout under way; "accepted", "refused": its
\* answer is back.  "looking": the checkout is being read; "seen": its orders
\* are back.  "starting", "started": the payment attempt of the order at hand.
\* "calling", "succeeded", "declined": its signed callback, and the state in the
\* answer, which may be any.
Places == {"idle", "submitting", "accepted", "refused", "looking", "seen",
           "starting", "started", "calling", "succeeded", "declined"}

\* UNPAID, PAID, and every other state (cancelled, fulfilled, refunded).
Statuses == {"UNPAID", "PAID", "CLOSED"}

\* What is recorded of a payment; of an answered callback, the answer.
Records == {"none", "attempt", "succeeded", "declined"}

identities == Orders \cup Handlers

\* Fault: every payment request draws an identity of its own.
identityPerRequest(h, o) == h

\* uuid5 of the checkout and the order; the keys of the attempt and of the
\* callback and the event id are derived from it.
identity(h, o) == o

Suspend(h, place) == pc' = [pc EXCEPT ![h] = place]

unseen == [o \in Orders |-> "UNPAID"]

unrecorded == [o \in Orders |-> "none"]

\* The handler answers its caller; what it has read is gone.
Finish(h) ==
  /\ pc' = [pc EXCEPT ![h] = "idle"]
  /\ seen' = [seen EXCEPT ![h] = unseen]
  /\ progress' = [progress EXCEPT ![h] = unrecorded]
  /\ pos' = [pos EXCEPT ![h] = 1]

Init ==
  /\ row = "none"
  /\ receipt = unrecorded
  /\ pc = [h \in Handlers |-> "idle"]
  /\ seen = [h \in Handlers |-> unseen]
  /\ progress = [h \in Handlers |-> unrecorded]
  /\ pos = [h \in Handlers |-> 1]
  /\ late = {}
  /\ created = FALSE
  /\ status = unseen
  /\ attempts = {}
  /\ events = {} /\ declined = {}

-----------------------------------------------------------------------------
(* Submitting the checkout. *)

\* Fault: a refusal is stored without asking for a result.
rejectAnyRow == row' = "rejected"

\* reject and complete of buyer_commands.py.
reject == row' = IF row = "confirmed" THEN row ELSE "rejected"

complete == row' = "confirmed"

\* create_checkout, or retry_checkout of a command without an outcome.  A
\* rejected one is answered 409, a confirmed one is only read.
Submit(h) ==
  /\ pc[h] = "idle"
  /\ row \in {"none", "unknown"}
  /\ row' = "unknown"
  /\ Suspend(h, "submitting")
  /\ UNCHANGED <<receipt, payVars, late, javaVars>>

SubmitAccepted(h) ==
  /\ pc[h] = "accepted"
  /\ complete
  /\ Finish(h)
  /\ UNCHANGED <<receipt, late, javaVars>>

\* definitive_refusal: the category settles the command.
SubmitRefused(h) ==
  /\ pc[h] = "refused"
  /\ reject
  /\ Finish(h)
  /\ UNCHANGED <<receipt, late, javaVars>>

-----------------------------------------------------------------------------
(* Paying its orders. *)

\* _checkout_ref finds the command by its result only.
Pay(h) ==
  /\ pc[h] = "idle"
  /\ row = "confirmed"
  /\ Suspend(h, "looking")
  /\ UNCHANGED <<row, receipt, payVars, late, javaVars>>

\* Fault: the loop passes over every order that is not UNPAID.
nextOrderSkipping(orders, from) ==
  Min({o \in from .. OrderCount : orders[o] = "UNPAID"} \cup {OrderCount + 1})

\* The loop passes over PAID orders.
nextOrder(orders, from) ==
  Min({o \in from .. OrderCount : orders[o] # "PAID"} \cup {OrderCount + 1})

\* The loop does not look back at the orders it has passed.
after(orders, o) == [p \in Orders |-> IF p <= o THEN "UNPAID" ELSE orders[p]]

\* The loop from order "from" on, up to its next await: it ends after the last
\* order, and with 409 at an order that cannot be paid.
Continue(h, orders, records, from) ==
  LET o == nextOrder(orders, from) IN
    IF o \in Orders /\ orders[o] = "UNPAID"
      THEN /\ progress' = [progress EXCEPT ![h] = records]
           /\ pos' = [pos EXCEPT ![h] = o]
           /\ Suspend(h, IF records[o] = "none" THEN "starting" ELSE "calling")
           /\ seen' = [seen EXCEPT ![h] = after(orders, o)]
      ELSE Finish(h)

\* Fault: a resumed payment begins after the last recorded attempt.
BeginAfterRecorded(h) ==
  /\ pc[h] = "seen"
  /\ Continue(h, seen[h], receipt, Max({0} \cup {o \in Orders : receipt[o] # "none"}) + 1)
  /\ UNCHANGED <<row, receipt, late, javaVars>>

\* The orders are back; the stored progress is read now, and never again.
Begin(h) ==
  /\ pc[h] = "seen"
  /\ Continue(h, seen[h], receipt, 1)
  /\ UNCHANGED <<row, receipt, late, javaVars>>

\* The attempt is recorded before the callback is sent.
AttemptStarted(h) ==
  /\ pc[h] = "started"
  /\ LET records == [progress[h] EXCEPT ![pos[h]] = "attempt"] IN
       /\ receipt' = records
       /\ progress' = [progress EXCEPT ![h] = records]
  /\ Suspend(h, "calling")
  /\ UNCHANGED <<row, seen, pos, late, javaVars>>

\* Fault: a failed callback is logged and the loop goes on.
CallbackAnsweredOrNot(h) ==
  /\ pc[h] \in {"calling", "succeeded", "declined"}
  /\ LET answer == IF pc[h] = "calling" THEN "succeeded" ELSE pc[h]
         records == [progress[h] EXCEPT ![pos[h]] = answer] IN
       /\ receipt' = records
       /\ Continue(h, seen[h], records, pos[h] + 1)
  /\ UNCHANGED <<row, late, javaVars>>

\* The answer is recorded, and the loop goes on whatever state it has.
CallbackAnswered(h) ==
  /\ pc[h] \in {"succeeded", "declined"}
  /\ LET records == [progress[h] EXCEPT ![pos[h]] = pc[h]] IN
       /\ receipt' = records
       /\ Continue(h, seen[h], records, pos[h] + 1)
  /\ UNCHANGED <<row, late, javaVars>>

-----------------------------------------------------------------------------
(* Exceptions and crashes. *)

request(h) == <<pc[h], pos[h], identity(h, pos[h])>>

writes == {"submitting", "starting", "calling"}

\* Of the writes nobody waits for any more, Java may still get some.
Forget(hs) ==
  \E forgotten \in SUBSET {request(h) : h \in {g \in hs : pc[g] \in writes}} :
    /\ Cardinality(late \cup forgotten) <= MaxLate
    /\ late' = late \cup forgotten

\* A timeout, an unreadable answer or one that settles nothing, a failed token
\* exchange: the exception leaves the stored state, and Java may hold a write.
GiveUp(h) ==
  /\ pc[h] # "idle"
  /\ Forget({h})
  /\ Finish(h)
  /\ UNCHANGED <<row, receipt, javaVars>>

Restart ==
  /\ Forget(Handlers)
  /\ pc' = [h \in Handlers |-> "idle"]
  /\ seen' = [h \in Handlers |-> unseen]
  /\ progress' = [h \in Handlers |-> unrecorded]
  /\ pos' = [h \in Handlers |-> 1]
  /\ UNCHANGED <<row, receipt, javaVars>>

-----------------------------------------------------------------------------
(* Java, as the host uses it: every write is idempotent by its key. *)

CreateCheckout == created' = TRUE /\ UNCHANGED <<status, attempts, events, declined>>

\* An attempt is replayed by its key and otherwise started for an unpaid order.
StartPayment(o, id) ==
  /\ [order |-> o, identity |-> id] \in attempts \/ status[o] = "UNPAID"
  /\ attempts' = attempts \cup {[order |-> o, identity |-> id]}
  /\ UNCHANGED <<created, status, events, declined>>

PaymentCallback(o, id) ==
  /\ [order |-> o, identity |-> id] \in attempts
  /\ [order |-> o, identity |-> id] \in events \/ status[o] = "UNPAID"
  /\ events' = events \cup {[order |-> o, identity |-> id]}
  /\ status' = IF status[o] = "UNPAID" THEN [status EXCEPT ![o] = "PAID"] ELSE status
  /\ UNCHANGED <<created, attempts, declined>>

\* PENDING or FAILED, of an order that has closed or for reasons of Java's own;
\* whether a repeated callback is answered otherwise is left open.  An answer that
\* nobody waits for changes nothing.
DeclineCallback(o, id) ==
  /\ [order |-> o, identity |-> id] \in attempts \ events
  /\ declined' = declined \cup {[order |-> o, identity |-> id]}
  /\ Cardinality(declined') <= MaxDeclined
  /\ UNCHANGED <<created, status, attempts, events>>

JavaCreates(h) ==
  /\ pc[h] = "submitting"
  /\ CreateCheckout
  /\ Suspend(h, "accepted")
  /\ UNCHANGED <<row, receipt, payVars, late>>

\* A definitive refusal is a choice: identity is checked before the key is
\* looked up, and business conditions change with time.
JavaRefuses(h) ==
  /\ pc[h] = "submitting"
  /\ Suspend(h, "refused")
  /\ UNCHANGED <<row, receipt, payVars, late, javaVars>>

JavaShows(h) ==
  /\ pc[h] = "looking"
  /\ seen' = [seen EXCEPT ![h] = status]
  /\ Suspend(h, "seen")
  /\ UNCHANGED <<row, receipt, progress, pos, late, javaVars>>

JavaStarts(h) ==
  /\ pc[h] = "starting"
  /\ StartPayment(pos[h], identity(h, pos[h]))
  /\ Suspend(h, "started")
  /\ UNCHANGED <<row, receipt, payVars, late>>

JavaPays(h) ==
  /\ pc[h] = "calling"
  /\ PaymentCallback(pos[h], identity(h, pos[h]))
  /\ Suspend(h, "succeeded")
  /\ UNCHANGED <<row, receipt, payVars, late>>

JavaDeclines(h) ==
  /\ pc[h] = "calling"
  /\ DeclineCallback(pos[h], identity(h, pos[h]))
  /\ Suspend(h, "declined")
  /\ UNCHANGED <<row, receipt, payVars, late>>

LateAccepts(r) ==
  /\ r \in late
  /\ \/ r[1] = "submitting" /\ CreateCheckout
     \/ r[1] = "starting" /\ StartPayment(r[2], r[3])
     \/ r[1] = "calling" /\ PaymentCallback(r[2], r[3])
  /\ late' = late \ {r}
  /\ UNCHANGED <<row, receipt, pc, payVars>>

\* An order is cancelled, or fulfilled or refunded after its payment.
OrderCloses(o) ==
  /\ created
  /\ status[o] # "CLOSED"
  /\ status' = [status EXCEPT ![o] = "CLOSED"]
  /\ UNCHANGED <<row, receipt, pc, payVars, late, created, attempts, events, declined>>

-----------------------------------------------------------------------------
Handle(h) ==
  \/ Submit(h) \/ SubmitAccepted(h) \/ SubmitRefused(h)
  \/ Pay(h) \/ Begin(h) \/ AttemptStarted(h) \/ CallbackAnswered(h)
  \/ GiveUp(h)

Java ==
  \/ \E h \in Handlers :
       \/ JavaCreates(h) \/ JavaRefuses(h)
       \/ JavaShows(h) \/ JavaStarts(h) \/ JavaPays(h) \/ JavaDeclines(h)
  \/ \E r \in late : LateAccepts(r)
  \/ \E o \in Orders : OrderCloses(o)

Next == (\E h \in Handlers : Handle(h)) \/ Java \/ Restart

Spec == Init /\ [][Next]_vars

\* Every request comes to an end (15 s timeouts).  A buyer who is shown an unpaid
\* checkout pays again, and the payments are not all interrupted at the same await.
Fairness ==
  /\ \A h \in Handlers : []<>(pc[h] = "idle")
  /\ WF_vars(\E h \in Handlers : Pay(h))
  /\ []<>(\E h \in Handlers : pc[h] = "looking") => []<><<\E h \in Handlers : Begin(h)>>_vars
  /\ []<>(\E h \in Handlers : pc[h] = "starting")
       => []<><<\E h \in Handlers : AttemptStarted(h)>>_vars
  /\ SF_vars(\E h \in Handlers : JavaPays(h))

FairSpec == Spec /\ Fairness

-----------------------------------------------------------------------------
(* Properties. *)

Payments == [order : Orders, identity : identities]

TypeOK ==
  /\ row \in {"none", "unknown", "confirmed", "rejected"}
  /\ receipt \in [Orders -> Records]
  /\ pc \in [Handlers -> Places]
  /\ seen \in [Handlers -> [Orders -> Statuses]]
  /\ progress \in [Handlers -> [Orders -> Records]]
  /\ pos \in [Handlers -> Nat]
  /\ late \subseteq writes \X Nat \X (identities \cup Nat)
  /\ created \in BOOLEAN
  /\ status \in [Orders -> Statuses]
  /\ attempts \subseteq Payments
  /\ events \subseteq Payments
  /\ declined \subseteq Payments

\* However many payments of the checkout run, stop and are repeated, and
\* although one overwrites the progress another has stored, an order gets one
\* attempt and one callback event (pay: the identity persists).
OnePayment ==
  /\ \A a, b \in attempts : a.order = b.order => a = b
  /\ events \subseteq attempts

\* The stored progress, written whole from what a handler read before its
\* awaits, never claims an attempt or an answer that Java has not given.
ProgressIsTrue ==
  \A o \in Orders :
    /\ receipt[o] # "none" => \E a \in attempts : a.order = o
    /\ receipt[o] = "succeeded" => \E e \in events : e.order = o
    /\ receipt[o] = "declined" => \E d \in declined : d.order = o

\* A later order is tried only after Java has answered a callback of every earlier
\* one, whatever closes the orders meanwhile: a payment never passes over one whose
\* callback was lost.  It does pass over one that was answered PENDING or FAILED,
\* since nobody looks at that (buyer_transactions.py:161-169).
AnsweredInOrder ==
  \A a \in attempts : \A o \in 1 .. a.order - 1 :
    \E p \in events \cup declined : p.order = o

\* A checkout of which a payment was begun stays confirmed and existing, even
\* if a slower submission of the same command is refused afterwards.
PaidIsConfirmed == attempts # {} => (row = "confirmed" /\ created)

\* A confirmed checkout is paid in full in the end, unless one of its orders
\* leaves the payable states first, at which every payment then stops, or Java
\* answers a callback without paying.
PaidInFull ==
  (row = "confirmed") ~> \/ \A o \in Orders : status[o] = "PAID"
                         \/ \E o \in Orders : status[o] = "CLOSED"
                         \/ declined # {}

\* A checkout Java created is never shown to its buyer as rejected, since then
\* neither a retry nor a payment would ever reach it again.
CreatedNotRejected == ~(created /\ row = "rejected")

-----------------------------------------------------------------------------
keysOf(payments) ==
  [o \in Orders |-> {p.identity : p \in {q \in payments : q.order = o}}]

triedOf == keysOf(attempts)

carriedOf == keysOf(events)

declinedOf == {d.order : d \in declined}

Promise == INSTANCE OrderPayments WITH
  Payable <- Orders, Keys <- identities,
  tried <- triedOf, carried <- carriedOf, declined <- declinedOf, state <- status

\* To Java the payments of a checkout, however many run, stop and are repeated, look
\* like one that tries the orders one after the other, each under one key and each
\* after the one before it was answered (buyer_transactions.py:124-170).
PaysAsPromised == Promise!Spec
=============================================================================
