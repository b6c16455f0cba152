---------------------------- MODULE OrdersProofs ----------------------------
(***************************************************************************)
(* Theorems about Orders for any number of handlers and late requests: one *)
(* payment and one refund of an order follow from the one key its requests *)
(* carry, and from what the host stores before it lets Java move.          *)
(***************************************************************************)
EXTENDS Orders, TLAPS

Places ==
  {"idle", "looking", "seen", "starting", "started", "calling", "called",
   "preparing", "prepared", "refused", "confirming", "receipted", "replayed"}

\* A request that Java may still carry out has the key of the order, and confirms
\* only what the confirmed command prepared.
Harmless(r) == r[2] = 1 /\ (r[1] = "confirming" => row = "confirmed")

\* All requests of the order and of its refund carry one key, an event leaves no order
\* unpaid, a refund is confirmed for a confirmed command alone, and a receipt is one
\* that Java gave.
IInv ==
  /\ pc \in [Handlers -> Places]
  /\ attempts \subseteq {1} /\ events \subseteq attempts
  /\ status = "UNPAID" => events = {}
  /\ actions \subseteq {1} /\ consumed \subseteq actions
  /\ \A r \in late : Harmless(r)
  /\ \A h \in Handlers :
       /\ pc[h] \in {"confirming", "receipted", "replayed"} => row = "confirmed"
       /\ pc[h] \in {"receipted", "replayed"} => 1 \in consumed
  /\ consumed # {} => row = "confirmed"
  /\ receipt # None => receipt \in consumed

LEMMA InitInv == Init => IInv
BY DEF Init, IInv, Places

\* Also the requests of a handler that stops, or of a process that dies.
LEMMA ForgottenIsHarmless ==
  ASSUME IInv, NEW hs \in SUBSET Handlers, Forget(hs), UNCHANGED row
  PROVE  \A r \in late' : Harmless(r)'
<1>1. PICK forgotten \in SUBSET {request(h) : h \in {g \in hs : pc[g] \in writes}} :
        late' = late \cup forgotten
  BY DEF Forget
<1>2. ASSUME NEW h \in hs
      PROVE  Harmless(request(h))
  BY <1>2 DEF request, identity, trace, IInv, Harmless
<1> QED BY <1>1, <1>2 DEF IInv, Harmless

\* The steps of the host.
LEMMA HandleInv ==
  ASSUME IInv, NEW h \in Handlers, Handle(h)
  PROVE  IInv'
<1> USE DEF Suspend, Finish, rowVars, javaVars, payVars,
    refundVars, Places
<1>1. CASE \/ PayOrder(h) \/ BeginOrder(h)
           \/ OrderStarted(h) \/ OrderCalled(h)
  BY <1>1 DEF PayOrder, BeginOrder, OrderStarted, OrderCalled,
    IInv, Harmless
<1>2. CASE Prepare(h) \/ Prepared(h) \/ PrepareRefused(h)
  BY <1>2 DEF Prepare, Prepared, PrepareRefused, IInv,
    Harmless
<1>3. CASE Confirm(h) \/ Confirmed(h)
  BY <1>3 DEF Confirm, Confirmed, trace, IInv, Harmless
<1>4. CASE GiveUp(h)
  <2>1. \A r \in late' : Harmless(r)'
    BY <1>4, ForgottenIsHarmless DEF GiveUp
  <2> QED BY <1>4, <2>1 DEF GiveUp, IInv
<1> QED BY <1>1, <1>2, <1>3, <1>4 DEF Handle

\* The steps of Java.
LEMMA JavaInv ==
  ASSUME IInv, Java
  PROVE  IInv'
<1> USE DEF Suspend, rowVars, javaVars, payVars,
    refundVars, identity, trace, StartPayment,
    PaymentCallback, PrepareAction, ConfirmAction, Places
<1>1. ASSUME NEW h \in Handlers, JavaShows(h) \/ JavaDeclines(h) \/ JavaRefuses(h)
      PROVE  IInv'
  BY <1>1 DEF JavaShows, JavaDeclines, JavaRefuses, IInv, Harmless
<1>2. ASSUME NEW h \in Handlers, JavaStarts(h) \/ JavaPays(h)
      PROVE  IInv'
  BY <1>2 DEF JavaStarts, JavaPays, IInv, Harmless
<1>3. ASSUME NEW h \in Handlers, JavaPrepares(h) \/ JavaConfirms(h)
      PROVE  IInv'
  BY <1>3 DEF JavaPrepares, JavaConfirms, IInv, Harmless
<1>4. ASSUME NEW r \in late, LateAccepts(r)
      PROVE  IInv'
  BY <1>4 DEF LateAccepts, IInv, Harmless
<1>5. CASE Expire \/ OrderCloses
  BY <1>5 DEF Expire, OrderCloses, IInv, Harmless
<1> QED BY <1>1, <1>2, <1>3, <1>4, <1>5 DEF Java

LEMMA Invariant == Spec => []IInv
<1>1. ASSUME IInv, [Next]_vars PROVE IInv'
  <2>1. CASE Restart
    <3>1. \A r \in late' : Harmless(r)'
      BY <1>1, <2>1, ForgottenIsHarmless DEF Restart, rowVars
    <3> QED BY <1>1, <2>1, <3>1 DEF Restart, rowVars, javaVars,
          payVars, refundVars, IInv, Places
  <2>2. CASE UNCHANGED vars
    BY <1>1, <2>2 DEF vars, rowVars, javaVars, payVars,
      refundVars, IInv, Harmless
  <2> QED BY <1>1, <2>1, <2>2, HandleInv, JavaInv DEF Next
<1> QED BY <1>1, InitInv, PTL DEF Spec

\* However often a seckill order is paid, by whichever requests, it gets one
\* attempt and one event, although pay_order records nothing at the host.
THEOREM OnePaymentOfAnOrder == Spec => []OrderPaidOnce
<1>1. IInv => OrderPaidOnce
  BY DEF IInv, OrderPaidOnce
<1> QED BY <1>1, Invariant, PTL

\* However often a refund is prepared and confirmed, there is one action and one
\* refund, for a command that stays confirmed, and no receipt of anything else
\* (prepare_refund and confirm_refund).
THEOREM RefundedOnce == Spec => []OneRefund
<1>1. IInv => OneRefund
  BY DEF IInv, OneRefund
<1> QED BY <1>1, Invariant, PTL

-----------------------------------------------------------------------------
(* Orders implements OrderPayments, for a single order. *)

LEMMA InitPayment == Init => Payment!Init
BY DEF Init, Payment!Init

LEMMA StartPromised ==
  ASSUME IInv, StartPayment(1)
  PROVE  Payment!Try(1, 1) \/ UNCHANGED Payment!vars
<1>1. CASE 1 \in attempts
  BY <1>1 DEF StartPayment, payVars, Payment!vars
<1>2. CASE 1 \notin attempts
  <2>1. attempts = {} /\ attempts' = {1} /\ UNCHANGED <<events, status>> /\ status = "UNPAID"
    BY <1>2 DEF StartPayment, IInv
  <2> QED BY <2>1 DEF Payment!Try
<1> QED BY <1>1, <1>2

LEMMA CallbackPromised ==
  ASSUME IInv, PaymentCallback(1)
  PROVE  Payment!CarryOut(1, 1) \/ UNCHANGED Payment!vars
<1>1. CASE 1 \in events
  <2>1. events' = events /\ status' = status /\ attempts' = attempts
    BY <1>1 DEF PaymentCallback, IInv
  <2> QED BY <2>1 DEF Payment!vars
<1>2. CASE 1 \notin events
  <2>1. /\ 1 \in attempts /\ UNCHANGED attempts
        /\ events = {} /\ events' = {1} /\ status = "UNPAID" /\ status' = "PAID"
    BY <1>2 DEF PaymentCallback, IInv
  <2> QED BY <2>1 DEF Payment!CarryOut
<1> QED BY <1>1, <1>2

\* The payments of a seckill order, repeated and carried out late, are one payment to
\* Java (pay_order keeps nothing but the key it makes from the order).
THEOREM ImplementsPayment == Spec => PaysOnce
<1>1. /\ Payment!Try(1, 1) => Payment!Next
      /\ Payment!CarryOut(1, 1) => Payment!Next
      /\ Payment!Close(1) => Payment!Next
  BY DEF Payment!Next
<1>2. UNCHANGED payVars => UNCHANGED Payment!vars
  BY DEF payVars, Payment!vars
<1>3. ASSUME IInv, Java
      PROVE  [Payment!Next]_(Payment!vars)
  <2>1. ASSUME NEW h \in Handlers, JavaStarts(h) \/ JavaPays(h)
        PROVE  [Payment!Next]_(Payment!vars)
    BY <1>1, <1>3, <2>1, StartPromised, CallbackPromised DEF JavaStarts, JavaPays, identity
  <2>2. ASSUME NEW h \in Handlers,
               \/ JavaShows(h) \/ JavaDeclines(h) \/ JavaPrepares(h)
               \/ JavaRefuses(h) \/ JavaConfirms(h)
        PROVE  UNCHANGED payVars
    BY <2>2 DEF JavaShows, JavaDeclines, JavaPrepares, PrepareAction, JavaRefuses, JavaConfirms,
      ConfirmAction, javaVars
  <2>3. ASSUME NEW r \in late, LateAccepts(r)
        PROVE  [Payment!Next]_(Payment!vars)
    <3>1. r[2] = 1
      BY <1>3 DEF IInv, Harmless
    <3>2. CASE StartPayment(r[2]) \/ PaymentCallback(r[2])
      BY <1>1, <1>3, <3>1, <3>2, StartPromised, CallbackPromised
    <3>3. CASE PrepareAction(r[2]) \/ ConfirmAction(r[2])
      BY <1>2, <3>3 DEF PrepareAction, ConfirmAction
    <3> QED BY <2>3, <3>2, <3>3 DEF LateAccepts
  <2>4. CASE Expire
    BY <1>2, <2>4 DEF Expire
  <2>5. CASE OrderCloses
    BY <1>1, <2>5 DEF OrderCloses, Payment!Close
  <2> QED BY <1>2, <1>3, <2>1, <2>2, <2>3, <2>4, <2>5 DEF Java
<1>4. ASSUME [Next]_vars, ~Java
      PROVE  UNCHANGED payVars
  BY <1>4 DEF Next, Handle, PayOrder, BeginOrder, OrderStarted, OrderCalled, Prepare,
    Prepared, PrepareRefused, Confirm, Confirmed, GiveUp, Restart, vars, javaVars
<1>5. ASSUME IInv, [Next]_vars
      PROVE  [Payment!Next]_(Payment!vars)
  BY <1>2, <1>3, <1>4, <1>5
<1> QED BY <1>5, InitPayment, Invariant, PTL DEF Spec, PaysOnce, Payment!Spec
=============================================================================
