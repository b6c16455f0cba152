------------------------------- MODULE Orders -------------------------------
(***************************************************************************)
(* One seckill order of a buyer: its payment and its refund command        *)
(* (buyer_transactions.py over buyer_commands.py).  A payment records      *)
(* nothing at the host and relies on keys made from the order.  The model  *)
(* or the buyer prepares a refund at Java and the buyer alone confirms it; *)
(* trace and turn are drawn once and stored with the row, and Java replays *)
(* the action prepared under them and the receipt of a confirmed one.      *)
(* All of these and what Java does for requests given up interleave at     *)
(* every await.                                                            *)
(***************************************************************************)
EXTENDS Naturals, FiniteSets

CONSTANTS
  Handlers,  \* concurrent requests and tool calls of the host
  None,      \* no receipt
  MaxLate    \* bound: requests given up that Java may still get, at a time

ASSUME OrderAssumption == None \notin {1} \cup Handlers /\ MaxLate \in Nat

VARIABLES
  row,      \* table buyer_commands: the state of the command
  receipt,  \* table buyer_confirmations: the action of the stored receipt
  pc,       \* where a handler is suspended
  late,     \* requests Java may still carry out for nobody
  status,   \* Java: the state of the order
  seen,     \* the state a payment has read
  attempts, \* Java: the payment attempts, by identity
  events,   \* Java: the callback events, by identity
  actions,  \* Java: the actions prepared, by trace and turn
  consumed, \* Java: those of which the refund was requested
  expired   \* Java: no action can be confirmed for the first time any more

rowVars == <<row, receipt>>
payVars == <<status, attempts, events>>
refundVars == <<actions, consumed, expired>>
javaVars == <<payVars, refundVars>>
vars == <<rowVars, pc, seen, late, javaVars>>

\* Fault: every submission draws a trace and a turn of its own.
tracePerRequest(h) == h

\* The trace and turn of the stored body.
trace(h) == 1

\* Fault: every payment request draws an identity of its own.
identityPerRequest(h) == h

\* uuid5 of the buyer and the order.
identity(h) == 1

Suspend(h, place) == pc' = [pc EXCEPT ![h] = place]

Finish(h) == Suspend(h, "idle") /\ seen' = [seen EXCEPT ![h] = "UNPAID"]

Init ==
  /\ row = "none" /\ receipt = None
  /\ pc = [h \in Handlers |-> "idle"]
  /\ late = {}
  /\ seen = [h \in Handlers |-> "UNPAID"]
  /\ status = "UNPAID" /\ attempts = {} /\ events = {}
  /\ actions = {} /\ consumed = {} /\ expired = FALSE

-----------------------------------------------------------------------------
(* pay_order *)

PayOrder(h) ==
  /\ pc[h] = "idle"
  /\ Suspend(h, "looking")
  /\ UNCHANGED <<rowVars, seen, late, javaVars>>

\* A paid order is answered as it is, any other is refused with 409.
BeginOrder(h) ==
  /\ pc[h] = "seen"
  /\ IF seen[h] = "UNPAID"
       THEN Suspend(h, "starting") /\ UNCHANGED seen
       ELSE Finish(h)
  /\ UNCHANGED <<rowVars, late, javaVars>>

OrderStarted(h) ==
  /\ pc[h] = "started"
  /\ Suspend(h, "calling")
  /\ UNCHANGED <<rowVars, seen, late, javaVars>>

\* Whatever the answer says, the order is read once more for the buyer.
OrderCalled(h) ==
  /\ pc[h] = "called"
  /\ Finish(h)
  /\ UNCHANGED <<rowVars, late, javaVars>>

-----------------------------------------------------------------------------
(* prepare_refund and retry_refund *)

\* A rejected command is answered 409, a confirmed one by its stored action.
Prepare(h) ==
  /\ pc[h] = "idle"
  /\ row \in {"none", "unknown"}
  /\ row' = "unknown"
  /\ Suspend(h, "preparing")
  /\ UNCHANGED <<receipt, seen, late, javaVars>>

Prepared(h) ==
  /\ pc[h] = "prepared"
  /\ row' = "confirmed"
  /\ Suspend(h, "idle")
  /\ UNCHANGED <<receipt, seen, late, javaVars>>

\* definitive_refusal; a stored result wins (reject of buyer_commands.py).
PrepareRefused(h) ==
  /\ pc[h] = "refused"
  /\ row' = IF row = "confirmed" THEN row ELSE "rejected"
  /\ Suspend(h, "idle")
  /\ UNCHANGED <<receipt, seen, late, javaVars>>

-----------------------------------------------------------------------------
(* confirm_refund *)

\* _action_ref finds the command by its result only, whatever is confirmed.
Confirm(h) ==
  /\ pc[h] = "idle"
  /\ row = "confirmed"
  /\ Suspend(h, "confirming")
  /\ UNCHANGED <<rowVars, seen, late, javaVars>>

\* Fault: only the first confirmation of an action stores its receipt.
ConfirmedFirst(h) ==
  /\ pc[h] \in {"receipted", "replayed"}
  /\ receipt' = IF pc[h] = "receipted" THEN trace(h) ELSE receipt
  /\ Suspend(h, "idle")
  /\ UNCHANGED <<row, seen, late, javaVars>>

Confirmed(h) ==
  /\ pc[h] \in {"receipted", "replayed"}
  /\ receipt' = trace(h)
  /\ Suspend(h, "idle")
  /\ UNCHANGED <<row, seen, late, javaVars>>

-----------------------------------------------------------------------------
(* Exceptions and crashes. *)

writes == {"starting", "calling", "preparing", "confirming"}

request(h) == <<pc[h], IF pc[h] \in {"starting", "calling"} THEN identity(h) ELSE trace(h)>>

\* Of the requests nobody waits for any more, Java may still get some.
Forget(hs) ==
  \E forgotten \in SUBSET {request(h) : h \in {g \in hs : pc[g] \in writes}} :
    /\ Cardinality(late \cup forgotten) <= MaxLate
    /\ late' = late \cup forgotten

\* A timeout, an unreadable answer, a failed token exchange, or any refusal of a
\* payment or a confirmation: the exception leaves what is stored.
GiveUp(h) ==
  /\ pc[h] # "idle"
  /\ Forget({h})
  /\ Finish(h)
  /\ UNCHANGED <<rowVars, javaVars>>

Restart ==
  /\ Forget(Handlers)
  /\ pc' = [h \in Handlers |-> "idle"]
  /\ seen' = [h \in Handlers |-> "UNPAID"]
  /\ UNCHANGED <<rowVars, javaVars>>

-----------------------------------------------------------------------------
(* Java, as the host uses it. *)

JavaShows(h) ==
  /\ pc[h] = "looking"
  /\ seen' = [seen EXCEPT ![h] = status]
  /\ Suspend(h, "seen")
  /\ UNCHANGED <<rowVars, late, javaVars>>

\* Attempts and events are replayed by key and otherwise need an unpaid order.
StartPayment(id) ==
  /\ id \in attempts \/ status = "UNPAID"
  /\ attempts' = attempts \cup {id}
  /\ UNCHANGED <<status, events, refundVars>>

PaymentCallback(id) ==
  /\ id \in attempts
  /\ id \in events \/ status = "UNPAID"
  /\ events' = events \cup {id}
  /\ status' = IF status = "UNPAID" THEN "PAID" ELSE status
  /\ UNCHANGED <<attempts, refundVars>>

\* Only a paid order gets an action; one that was prepared is replayed.
PrepareAction(a) ==
  /\ a \in actions \/ status = "PAID"
  /\ actions' = actions \cup {a}
  /\ UNCHANGED <<payVars, consumed, expired>>

\* The first confirmation requests the refund, the others replay its receipt.
ConfirmAction(a) ==
  /\ a \in consumed \/ (a \in actions /\ ~expired /\ status = "PAID")
  /\ consumed' = consumed \cup {a}
  /\ UNCHANGED <<payVars, actions, expired>>

JavaStarts(h) ==
  /\ pc[h] = "starting"
  /\ StartPayment(identity(h))
  /\ Suspend(h, "started")
  /\ UNCHANGED <<rowVars, seen, late>>

JavaPays(h) ==
  /\ pc[h] = "calling"
  /\ PaymentCallback(identity(h))
  /\ Suspend(h, "called")
  /\ UNCHANGED <<rowVars, seen, late>>

\* The callback is answered PENDING or FAILED.
JavaDeclines(h) ==
  /\ pc[h] = "calling"
  /\ identity(h) \in attempts \ events
  /\ Suspend(h, "called")
  /\ UNCHANGED <<rowVars, seen, late, javaVars>>

JavaPrepares(h) ==
  /\ pc[h] = "preparing"
  /\ PrepareAction(trace(h))
  /\ Suspend(h, "prepared")
  /\ UNCHANGED <<rowVars, seen, late>>

\* A definitive refusal is a choice: identity is checked before the trace is
\* looked up, and business conditions change with time.
JavaRefuses(h) ==
  /\ pc[h] = "preparing"
  /\ Suspend(h, "refused")
  /\ UNCHANGED <<rowVars, seen, late, javaVars>>

JavaConfirms(h) ==
  /\ pc[h] = "confirming"
  /\ ConfirmAction(trace(h))
  /\ Suspend(h, IF trace(h) \in consumed THEN "replayed" ELSE "receipted")
  /\ UNCHANGED <<rowVars, seen, late>>

LateAccepts(r) ==
  /\ r \in late
  /\ \/ r[1] = "starting" /\ StartPayment(r[2])
     \/ r[1] = "calling" /\ PaymentCallback(r[2])
     \/ r[1] = "preparing" /\ PrepareAction(r[2])
     \/ r[1] = "confirming" /\ ConfirmAction(r[2])
  /\ late' = late \ {r}
  /\ UNCHANGED <<rowVars, pc, seen>>

Expire ==
  /\ actions # {} /\ ~expired
  /\ expired' = TRUE
  /\ UNCHANGED <<rowVars, pc, seen, late, payVars, actions, consumed>>

\* The refund is carried out, or the order is cancelled, fulfilled or the like.
OrderCloses ==
  /\ status # "CLOSED"
  /\ status' = "CLOSED"
  /\ UNCHANGED <<rowVars, pc, seen, late, attempts, events, refundVars>>

-----------------------------------------------------------------------------
Handle(h) ==
  \/ PayOrder(h) \/ BeginOrder(h) \/ OrderStarted(h) \/ OrderCalled(h)
  \/ Prepare(h) \/ Prepared(h) \/ PrepareRefused(h)
  \/ Confirm(h) \/ Confirmed(h) \/ GiveUp(h)

Java ==
  \/ \E h \in Handlers :
       \/ JavaShows(h) \/ JavaStarts(h) \/ JavaPays(h) \/ JavaDeclines(h)
       \/ JavaPrepares(h) \/ JavaRefuses(h) \/ JavaConfirms(h)
  \/ \E r \in late : LateAccepts(r)
  \/ Expire \/ OrderCloses

Next == (\E h \in Handlers : Handle(h)) \/ Java \/ Restart

Spec == Init /\ [][Next]_vars

\* Every await ends (15 s timeouts).  A buyer who is shown an action without its
\* receipt confirms it again, and is not interrupted at the same await for ever.
Fairness ==
  /\ \A h \in Handlers : WF_vars(GiveUp(h))
  /\ SF_vars(\E h \in Handlers : Confirm(h))
  /\ SF_vars(\E h \in Handlers : JavaConfirms(h))
  /\ SF_vars(\E h \in Handlers : Confirmed(h))

FairSpec == Spec /\ Fairness

-----------------------------------------------------------------------------
\* However often the order is paid, by requests that stop and are repeated or are
\* carried out late, and although the host records none of it, there is one
\* attempt and one event (buyer_transactions.py:172-210).
OrderPaidOnce ==
  /\ \A a, b \in attempts : a = b
  /\ events \subseteq attempts

\* However often a refund is prepared, confirmed and repeated, and whatever is
\* carried out late, there is one action and one refund, and the host that let it
\* be confirmed neither forgets it nor records a receipt of anything else
\* (buyer_transactions.py:222-229, 246-262, 265-296).
OneRefund ==
  /\ \A a, b \in actions : a = b
  /\ consumed # {} => consumed \subseteq actions /\ row = "confirmed"
  /\ receipt # None => receipt \in consumed

\* A refund that was requested, even by a confirmation whose answer was lost or
\* whose action has expired since, is on record in the end
\* (buyer_transactions.py:280-296).
RefundRecorded == consumed # {} ~> receipt \in consumed

-----------------------------------------------------------------------------
\* No order comes after this one, so it does not matter that one was declined.
Payment == INSTANCE OrderPayments WITH
  Payable <- {1}, Keys <- {1} \cup Handlers,
  tried <- [o \in {1} |-> attempts], carried <- [o \in {1} |-> events], declined <- {},
  state <- [o \in {1} |-> status]

\* To Java all payments of a seckill order look like one, and none tries or pays an
\* order that has closed (buyer_transactions.py:172-210).
PaysOnce == Payment!Spec
=============================================================================
