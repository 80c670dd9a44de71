------------------------------ MODULE Payments ------------------------------
(* modules/payments, modules/refunds and the admin use cases that compose    *)
(* them with Orders: creating the Razorpay order, confirming by webhook or   *)
(* cash on delivery, collecting the cash, and refunding a cancelled order.   *)
(* A handler is an HTTP request or webhook delivery; every await on another  *)
(* system ends a step, and the process may die between two of them.          *)
EXTENDS Orders

CONSTANTS
    GatewayOrders,  \* Razorpay order ids (bound: how many createOrder calls)
    MaxCrashes      \* bound on handler crashes

VARIABLES
    method,         \* how each order is to be paid, fixed at checkout
    payment,        \* the order's Payment row
    eventRow,       \* the WebhookEvent row of each Razorpay event
    refundRow,      \* status of the Refund row of a cancelled order
    refundMailed,   \* orders whose REFUND_COMPLETED e-mail is enqueued
    task,           \* what a handler does around the order transaction
    \* the world outside
    gatewayOrder,   \* Razorpay: the order (receipt) each Razorpay order is for
    shown,          \* Razorpay orders the customer's checkout widget was given
    money,          \* Razorpay: what became of the money of a Razorpay order
    failedAttempt,  \* Razorpay orders with a failed payment attempt
    crashes

payRows == <<method, payment, eventRow, refundRow, refundMailed>>
gateway == <<gatewayOrder, shown, money, failedAttempt>>
payVars == <<vars, payRows, task, gateway, crashes>>

-----------------------------------------------------------------------------
(* COD_UPFRONT is a COD order with payableOnDeliveryPaise set: its delivery  *)
(* fee is charged online before it can be confirmed.                         *)
Methods == {"RAZORPAY", "COD", "COD_UPFRONT"}
OnlineMethods == {"RAZORPAY", "COD_UPFRONT"}

NoGatewayOrder == "no Razorpay order"
ASSUME PaymentsAssumption ==
    /\ MaxCrashes \in Nat
    /\ NoGatewayOrder \notin Orders \cup GatewayOrders

NoPayment == [status |-> "NONE"]
PaymentStatuses == {"CREATED", "PENDING", "CAPTURED", "FAILED", "REFUNDED"}
PaymentRows ==
    [provider : {"RAZORPAY", "COD"}, status : PaymentStatuses,
     razorpayOrder : GatewayOrders \cup {NoGatewayOrder}, razorpayPayment : BOOLEAN]

Events == GatewayOrders \X {"payment.captured", "payment.failed"}

NoTask == [kind |-> "none"]
Free(h) == request[h] = Idle /\ task[h] = NoTask
Doing(h, kind, pc) == task[h].kind = kind /\ task[h].pc = pc

\* resolveOnlineCharge: who the Payment row of an online charge belongs to.
Provider(o) == IF method[o] = "RAZORPAY" THEN "RAZORPAY" ELSE "COD"

\* findByOrderId / findByRazorpayOrderId
HasPayment(o) == payment[o] # NoPayment
PaidBy(g) == {o \in Orders : HasPayment(o) /\ payment[o].razorpayOrder = g}

-----------------------------------------------------------------------------
(* Razorpay and the customer *)

\* Razorpay captures the money of an order the widget was opened with; `short`
\* is a capture of another amount than the one charged.
CustomerPays(g) ==
    /\ money[g] = "none"
    /\ \E o \in Orders : g \in shown[o]
    /\ \E outcome \in {"captured", "short"} : money' = [money EXCEPT ![g] = outcome]
    /\ UNCHANGED <<vars, payRows, task, gatewayOrder, shown, failedAttempt, crashes>>

\* A card is declined; the widget lets the customer try again on the same order.
AttemptFails(g) ==
    /\ money[g] = "none"
    /\ \E o \in Orders : g \in shown[o]
    /\ failedAttempt' = failedAttempt \cup {g}
    /\ UNCHANGED <<vars, payRows, task, gatewayOrder, shown, money, crashes>>

Emitted(e) == IF e[2] = "payment.captured" THEN money[e[1]] # "none" ELSE e[1] \in failedAttempt

-----------------------------------------------------------------------------
(* CreateRazorpayOrderUseCase *)

\* Mutant: hands out whatever the order's payment row holds.
ReuseAnyPayment(h, o) ==
    /\ Free(h)
    /\ HasPayment(o)
    /\ shown' = [shown EXCEPT ![o] = @ \cup {payment[o].razorpayOrder}]
    /\ UNCHANGED <<vars, payRows, task, gatewayOrder, money, failedAttempt, crashes>>

\* The order already has its Razorpay order: hand out the same one again.
ReuseRazorpayOrder(h, o) ==
    /\ Free(h)
    /\ method[o] \in OnlineMethods /\ status[o] = "PENDING_PAYMENT"
    /\ HasPayment(o)
    /\ shown' = [shown EXCEPT ![o] = @ \cup {payment[o].razorpayOrder}]
    /\ UNCHANGED <<vars, payRows, task, gatewayOrder, money, failedAttempt, crashes>>

\* No Payment row yet: this call goes to Razorpay, as may a concurrent one.
StartRazorpayOrder(h, o) ==
    /\ Free(h)
    /\ method[o] \in OnlineMethods /\ status[o] = "PENDING_PAYMENT"
    /\ ~HasPayment(o)
    /\ task' = [task EXCEPT ![h] = [kind |-> "pay", order |-> o, pc |-> "gateway"]]
    /\ UNCHANGED <<vars, payRows, gateway, crashes>>

GatewayCreatesOrder(h, g) ==
    /\ Doing(h, "pay", "gateway")
    /\ gatewayOrder[g] \notin Orders
    /\ gatewayOrder' = [gatewayOrder EXCEPT ![g] = task[h].order]
    /\ task' = [task EXCEPT ![h] =
                  [kind |-> "pay", order |-> task[h].order, pc |-> "insert", created |-> g]]
    /\ UNCHANGED <<vars, payRows, shown, money, failedAttempt, crashes>>

\* Mutant: an upsert, so the second racer overwrites the first one's row.
UpsertPayment(h) ==
    LET o == task[h].order IN
    /\ Doing(h, "pay", "insert")
    /\ payment' = [payment EXCEPT ![o] =
                     [provider |-> Provider(o), status |-> "CREATED",
                      razorpayOrder |-> task[h].created, razorpayPayment |-> FALSE]]
    /\ shown' = [shown EXCEPT ![o] = @ \cup {task[h].created}]
    /\ task' = [task EXCEPT ![h] = NoTask]
    /\ UNCHANGED <<vars, method, eventRow, refundRow, refundMailed, gatewayOrder, money,
                   failedAttempt, crashes>>

InsertPayment(h) ==
    LET o == task[h].order IN
    /\ Doing(h, "pay", "insert")
    /\ ~HasPayment(o)
    /\ payment' = [payment EXCEPT ![o] =
                     [provider |-> Provider(o), status |-> "CREATED",
                      razorpayOrder |-> task[h].created, razorpayPayment |-> FALSE]]
    /\ shown' = [shown EXCEPT ![o] = @ \cup {task[h].created}]
    /\ task' = [task EXCEPT ![h] = NoTask]
    /\ UNCHANGED <<vars, method, eventRow, refundRow, refundMailed, gatewayOrder, money,
                   failedAttempt, crashes>>

\* Mutant: the loser answers with the Razorpay order it created itself.
AnswerWithOwnOrder(h) ==
    /\ Doing(h, "pay", "insert")
    /\ HasPayment(task[h].order)
    /\ shown' = [shown EXCEPT ![task[h].order] = @ \cup {task[h].created}]
    /\ task' = [task EXCEPT ![h] = NoTask]
    /\ UNCHANGED <<vars, payRows, gatewayOrder, money, failedAttempt, crashes>>

\* Payment.orderId is unique: the loser discards its own Razorpay order and
\* answers with the winner's.
DeferToWinner(h) ==
    LET o == task[h].order IN
    /\ Doing(h, "pay", "insert")
    /\ HasPayment(o)
    /\ shown' = [shown EXCEPT ![o] = @ \cup {payment[o].razorpayOrder}]
    /\ task' = [task EXCEPT ![h] = NoTask]
    /\ UNCHANGED <<vars, payRows, gatewayOrder, money, failedAttempt, crashes>>

-----------------------------------------------------------------------------
(* ConfirmCodOrderUseCase *)

\* An order whose delivery fee is due online is never confirmed by this call.
ReadCodOrder(h, o) ==
    /\ Free(h)
    /\ method[o] = "COD"
    /\ ReadOrder(h, "confirm", o)
    /\ UNCHANGED <<payRows, task, gateway, crashes>>

ConfirmCodOrder(h) ==
    LET o == request[h].order IN
    /\ task[h] = NoTask
    /\ ConfirmOrder(h)
    /\ payment' = [payment EXCEPT ![o] =
                     [provider |-> "COD", status |-> "PENDING",
                      razorpayOrder |-> NoGatewayOrder, razorpayPayment |-> FALSE]]
    /\ UNCHANGED <<method, eventRow, refundRow, refundMailed, task, gateway, crashes>>

-----------------------------------------------------------------------------
(* HandleRazorpayWebhookUseCase *)

\* Mutant: the event counts as processed as soon as it has arrived.
ProcessedOnReceipt(h, e) ==
    /\ Free(h)
    /\ Emitted(e)
    /\ eventRow[e] # "processed"
    /\ eventRow' = [eventRow EXCEPT ![e] = "processed"]
    /\ task' = [task EXCEPT ![h] = [kind |-> "webhook", event |-> e, pc |-> "lookup"]]
    /\ UNCHANGED <<vars, method, payment, refundRow, refundMailed, gateway, crashes>>

\* Mutant: an event that was received once is never handled again.
DedupeOnReceipt(h, e) ==
    /\ Free(h)
    /\ Emitted(e)
    /\ eventRow[e] = "absent"
    /\ eventRow' = [eventRow EXCEPT ![e] = "received"]
    /\ task' = [task EXCEPT ![h] = [kind |-> "webhook", event |-> e, pc |-> "lookup"]]
    /\ UNCHANGED <<vars, method, payment, refundRow, refundMailed, gateway, crashes>>

\* Find or create the event row.  An event already processed is answered
\* "deduped"; one merely received - by a handler that died, or one still at
\* work - is handled again.
ReceiveWebhook(h, e) ==
    /\ Free(h)
    /\ Emitted(e)
    /\ eventRow[e] # "processed"
    /\ eventRow' = [eventRow EXCEPT ![e] = "received"]
    /\ task' = [task EXCEPT ![h] = [kind |-> "webhook", event |-> e, pc |-> "lookup"]]
    /\ UNCHANGED <<vars, method, payment, refundRow, refundMailed, gateway, crashes>>

OpFor(e) == IF e[2] = "payment.captured" THEN "confirm" ELSE "markPaymentFailed"
\* Mutant: the captured amount is not compared with the one charged.
AnyAmount(e) == e \in Events

AmountMatches(e) == e[2] = "payment.captured" => money[e[1]] # "short"

\* Both reads are outside the transaction; from here the delivery has nothing
\* left but its transaction and the acknowledgement.
ReadWebhookOrder(h, o) ==
    LET e == task[h].event IN
    /\ Doing(h, "webhook", "lookup")
    /\ o \in PaidBy(e[1])
    /\ AmountMatches(e)
    /\ ReadOrder(h, OpFor(e), o)
    /\ task' = [task EXCEPT ![h].pc = "ack"]
    /\ UNCHANGED <<payRows, gateway, crashes>>

\* "ignored", "amount-mismatch", "stale", or already in the target status.
NothingToApply(h) ==
    LET e == task[h].event IN
    /\ Doing(h, "webhook", "lookup")
    /\ \/ PaidBy(e[1]) = {}
       \/ ~AmountMatches(e)
       \/ \E o \in PaidBy(e[1]) : status[o] \notin From[OpFor(e)]
    /\ task' = [task EXCEPT ![h].pc = "ack"]
    /\ UNCHANGED <<vars, payRows, gateway, crashes>>

\* Mutant: a captured delivery fee settles the whole cash-on-delivery order.
CaptureWholeOrder(h) ==
    /\ task[h].kind = "webhook"
    /\ ConfirmOrder(h)
    /\ payment' = [payment EXCEPT ![request[h].order].status = "CAPTURED",
                                  ![request[h].order].razorpayPayment = TRUE]
    /\ UNCHANGED <<method, eventRow, refundRow, refundMailed, task, gateway, crashes>>

\* The delivery fee of a COD order leaves the rest still to be collected.
ApplyCapture(h) ==
    LET o == request[h].order IN
    /\ task[h].kind = "webhook"
    /\ ConfirmOrder(h)
    /\ payment' = [payment EXCEPT
                     ![o].status = IF payment[o].provider = "COD" THEN "PENDING" ELSE "CAPTURED",
                     ![o].razorpayPayment = TRUE]
    /\ UNCHANGED <<method, eventRow, refundRow, refundMailed, task, gateway, crashes>>

ApplyFailure(h) ==
    /\ task[h].kind = "webhook"
    /\ MarkOrderPaymentFailed(h)
    /\ payment' = [payment EXCEPT ![request[h].order].status = "FAILED"]
    /\ UNCHANGED <<method, eventRow, refundRow, refundMailed, task, gateway, crashes>>

\* markProcessed, only once the transaction and the e-mail are done.
AcknowledgeWebhook(h) ==
    /\ Doing(h, "webhook", "ack")
    /\ request[h] = Idle
    /\ eventRow' = [eventRow EXCEPT ![task[h].event] = "processed"]
    /\ task' = [task EXCEPT ![h] = NoTask]
    /\ UNCHANGED <<vars, method, payment, refundRow, refundMailed, gateway, crashes>>

-----------------------------------------------------------------------------
(* The admin's use cases *)

StaffOperations == Operations \ {"confirm", "markPaymentFailed"}

StaffReadsOrder(h, op, o) ==
    /\ Free(h)
    /\ op \in StaffOperations
    /\ ReadOrder(h, op, o)
    /\ UNCHANGED <<payRows, task, gateway, crashes>>

\* The transitions that touch no other module.
StaffMovesOrder(h) ==
    /\ StartProcessing(h) \/ MarkPacked(h) \/ ShipOrder(h) \/ MarkReturnedToOrigin(h)
    /\ UNCHANGED <<payRows, task, gateway, crashes>>

\* DeliverOrderAndCapturePaymentUseCase: deliver, notify, then collect.
StaffDeliversOrder(h) ==
    /\ DeliverOrder(h)
    /\ task' = [task EXCEPT ![h] = [kind |-> "collect", order |-> request[h].order, pc |-> "collect"]]
    /\ UNCHANGED <<payRows, gateway, crashes>>

\* MarkCodPaymentCapturedUseCase: a no-op unless a COD payment is still PENDING.
CollectCash(h) ==
    LET o == task[h].order
        due == HasPayment(o) /\ payment[o].provider = "COD" /\ payment[o].status = "PENDING"
    IN
    /\ Doing(h, "collect", "collect")
    /\ request[h] = Idle
    /\ payment' = IF due THEN [payment EXCEPT ![o].status = "CAPTURED"] ELSE payment
    /\ task' = [task EXCEPT ![h] = NoTask]
    /\ UNCHANGED <<vars, method, eventRow, refundRow, refundMailed, gateway, crashes>>

\* CancelOrderWithRefundUseCase: the refund is decided after the commit.
StaffCancelsOrder(h) ==
    /\ CancelOrder(h)
    /\ task' = [task EXCEPT ![h] = [kind |-> "refund", order |-> request[h].order, pc |-> "decide"]]
    /\ UNCHANGED <<payRows, gateway, crashes>>

-----------------------------------------------------------------------------
(* IssueRefundForCancelledOrderUseCase *)

\* What can go back through Razorpay: a captured online payment, or the
\* prepaid delivery fee of a COD order whose cash was never collected.
Refundable(o) ==
    /\ HasPayment(o)
    /\ payment[o].razorpayPayment
    /\ \/ payment[o].provider = "RAZORPAY" /\ payment[o].status = "CAPTURED"
       \/ payment[o].provider = "COD" /\ payment[o].status = "PENDING"

DecideRefund(h) ==
    LET o == task[h].order IN
    /\ Doing(h, "refund", "decide")
    /\ task' = [task EXCEPT ![h].pc =
                  IF refundRow[o] = "NONE" /\ Refundable(o) THEN "gateway" ELSE "done"]
    /\ UNCHANGED <<vars, payRows, gateway, crashes>>

\* Razorpay refunds and says so, refuses, or refunds and the answer is lost.
GatewayRefunds(h) ==
    LET g == payment[task[h].order].razorpayOrder IN
    /\ Doing(h, "refund", "gateway")
    /\ \/ /\ money[g] = "captured"
          /\ money' = [money EXCEPT ![g] = "refunded"]
          /\ \E next \in {"record", "recordFailure"} : task' = [task EXCEPT ![h].pc = next]
       \/ /\ task' = [task EXCEPT ![h].pc = "recordFailure"]
          /\ UNCHANGED money
    /\ UNCHANGED <<vars, payRows, gatewayOrder, shown, failedAttempt, crashes>>

\* The COMPLETED row, or - when writing it throws - the catch's FAILED row.
RecordRefund(h) ==
    /\ Doing(h, "refund", "record")
    /\ \/ /\ refundRow' = [refundRow EXCEPT ![task[h].order] = "COMPLETED"]
          /\ task' = [task EXCEPT ![h].pc = "markRefunded"]
       \/ /\ task' = [task EXCEPT ![h].pc = "recordFailure"]
          /\ UNCHANGED refundRow
    /\ UNCHANGED <<vars, method, payment, eventRow, refundMailed, gateway, crashes>>

RecordRefundFailure(h) ==
    /\ Doing(h, "refund", "recordFailure")
    /\ refundRow' = [refundRow EXCEPT ![task[h].order] = "FAILED"]
    /\ task' = [task EXCEPT ![h].pc = "done"]
    /\ UNCHANGED <<vars, method, payment, eventRow, refundMailed, gateway, crashes>>

\* Best effort: if the Payment row cannot be written the error is swallowed.
MarkPaymentRefunded(h) ==
    /\ Doing(h, "refund", "markRefunded")
    /\ \/ payment' = [payment EXCEPT ![task[h].order].status = "REFUNDED"]
       \/ UNCHANGED payment
    /\ task' = [task EXCEPT ![h].pc = "done"]
    /\ UNCHANGED <<vars, method, eventRow, refundRow, refundMailed, gateway, crashes>>

\* Mutant: every cancellation also announces a completed refund.
AnnounceRefund(h) ==
    /\ Doing(h, "refund", "done")
    /\ request[h] = Idle
    /\ refundMailed' = refundMailed \cup {task[h].order}
    /\ task' = [task EXCEPT ![h] = NoTask]
    /\ UNCHANGED <<vars, method, payment, eventRow, refundRow, gateway, crashes>>

\* The ORDER_CANCELLED e-mail went out (NotifyOrderEvent); REFUND_COMPLETED
\* follows only if this call completed the refund.
FinishCancellation(h) ==
    LET o == task[h].order IN
    /\ Doing(h, "refund", "done")
    /\ request[h] = Idle
    /\ refundMailed' = IF refundRow[o] = "COMPLETED" THEN refundMailed \cup {o} ELSE refundMailed
    /\ task' = [task EXCEPT ![h] = NoTask]
    /\ UNCHANGED <<vars, method, payment, eventRow, refundRow, gateway, crashes>>

-----------------------------------------------------------------------------
(* Steps of Orders that involve no money *)

CustomerPlacesOrder(o) == PlaceOrder(o) /\ UNCHANGED <<payRows, task, gateway, crashes>>

HandlerLosesRace(h) == LoseRace(h) /\ UNCHANGED <<payRows, task, gateway, crashes>>

\* A cancellation is announced after the refund was attempted.
HandlerNotifies(h) ==
    /\ task[h].kind = "refund" => task[h].pc = "done"
    /\ NotifyOrderEvent(h)
    /\ UNCHANGED <<payRows, task, gateway, crashes>>

StaffAdjustsStock(v, d) == AdjustQuantity(v, d) /\ UNCHANGED <<payRows, task, gateway, crashes>>

\* The process dies: whatever the handler had not committed is forgotten.
HandlerCrashes(h) ==
    /\ ~Free(h)
    /\ crashes < MaxCrashes
    /\ crashes' = crashes + 1
    /\ request' = [request EXCEPT ![h] = Idle]
    /\ task' = [task EXCEPT ![h] = NoTask]
    /\ UNCHANGED <<status, stock, mailed, payRows, gateway>>

-----------------------------------------------------------------------------
PayInit ==
    /\ Init
    /\ method \in [Orders -> Methods]
    /\ payment = [o \in Orders |-> NoPayment]
    /\ eventRow = [e \in Events |-> "absent"]
    /\ refundRow = [o \in Orders |-> "NONE"]
    /\ refundMailed = {}
    /\ task = [h \in Handlers |-> NoTask]
    /\ gatewayOrder = [g \in GatewayOrders |-> NoGatewayOrder]
    /\ shown = [o \in Orders |-> {}]
    /\ money = [g \in GatewayOrders |-> "none"]
    /\ failedAttempt = {}
    /\ crashes = 0

\* What a handler does on its own once it has begun.
Work(h) ==
    \/ \E g \in GatewayOrders : GatewayCreatesOrder(h, g)
    \/ InsertPayment(h) \/ DeferToWinner(h)
    \/ ConfirmCodOrder(h)
    \/ \E o \in Orders : ReadWebhookOrder(h, o)
    \/ NothingToApply(h) \/ ApplyCapture(h) \/ ApplyFailure(h) \/ AcknowledgeWebhook(h)
    \/ StaffMovesOrder(h) \/ StaffDeliversOrder(h) \/ CollectCash(h)
    \/ StaffCancelsOrder(h) \/ DecideRefund(h) \/ GatewayRefunds(h)
    \/ RecordRefund(h) \/ RecordRefundFailure(h) \/ MarkPaymentRefunded(h)
    \/ FinishCancellation(h)
    \/ HandlerLosesRace(h) \/ HandlerNotifies(h)

PayNext ==
    \/ \E o \in Orders : CustomerPlacesOrder(o)
    \/ \E g \in GatewayOrders : CustomerPays(g) \/ AttemptFails(g)
    \/ \E h \in Handlers, o \in Orders :
         ReuseRazorpayOrder(h, o) \/ StartRazorpayOrder(h, o) \/ ReadCodOrder(h, o)
    \/ \E h \in Handlers, e \in Events : ReceiveWebhook(h, e)
    \/ \E h \in Handlers, op \in StaffOperations, o \in Orders : StaffReadsOrder(h, op, o)
    \/ \E h \in Handlers : Work(h) \/ HandlerCrashes(h)
    \/ \E v \in Variants, d \in Deltas : StaffAdjustsStock(v, d)

PaySpec == PayInit /\ [][PayNext]_payVars

\* Handlers finish what they begin unless they crash, and Razorpay redelivers
\* an event until it is acknowledged.
FairPaySpec ==
    /\ PaySpec
    /\ \A h \in Handlers : WF_payVars(Work(h))
    /\ \A e \in Events : SF_payVars(\E h \in Handlers : ReceiveWebhook(h, e))

-----------------------------------------------------------------------------
(* Properties *)

\* Types of the payment rows and of the tasks in flight.
PayTypeOK ==
    /\ method \in [Orders -> Methods]
    /\ payment \in [Orders -> {NoPayment} \cup PaymentRows]
    /\ eventRow \in [Events -> {"absent", "received", "processed"}]
    /\ refundRow \in [Orders -> {"NONE", "COMPLETED", "FAILED"}]
    /\ refundMailed \subseteq Orders
    /\ gatewayOrder \in [GatewayOrders -> Orders \cup {NoGatewayOrder}]
    /\ shown \in [Orders -> SUBSET GatewayOrders]
    /\ money \in [GatewayOrders -> {"none", "captured", "short", "refunded"}]
    /\ failedAttempt \subseteq GatewayOrders
    /\ crashes \in 0..MaxCrashes
    /\ \A h \in Handlers : task[h].kind \in {"none", "pay", "webhook", "collect", "refund"}

\* The order went through: its payment was needed to get there.
PastPayment == KeepsStock \cup {"CANCELLED", "RETURNED_TO_ORIGIN"}

\* An order to be paid online is only ever confirmed by money Razorpay really
\* captured, in full, for the Razorpay order recorded on it (ADR-014) - not by
\* the client, by a capture of another amount, or by another order's event.
ConfirmedOnlineIsPaid ==
    \A o \in Orders : method[o] \in OnlineMethods /\ status[o] \in PastPayment =>
        /\ HasPayment(o)
        /\ payment[o].razorpayPayment
        /\ gatewayOrder[payment[o].razorpayOrder] = o
        /\ money[payment[o].razorpayOrder] \in {"captured", "refunded"}

\* However many "Pay now" clicks race, the customer can only pay the Razorpay
\* order that the webhook will find.
OnlyRecordedOrderIsShown ==
    \A o \in Orders : \A g \in shown[o] : HasPayment(o) /\ payment[o].razorpayOrder = g

\* Order and payment tell the same story whatever order events arrive in.
PaymentAgreesWithOrder ==
    \A o \in Orders : HasPayment(o) =>
        /\ payment[o].status = "FAILED" <=> status[o] = "PAYMENT_FAILED"
        /\ payment[o].status = "CREATED" <=> status[o] = "PENDING_PAYMENT"
        /\ payment[o].provider = "COD" /\ payment[o].status = "CAPTURED" => status[o] = "DELIVERED"

\* An acknowledged capture has been applied: Razorpay will not send it again,
\* so a crash or a concurrent delivery must not have lost it.
AcknowledgedMeansApplied ==
    \A e \in Events, o \in Orders :
        eventRow[e] = "processed" /\ o \in PaidBy(e[1]) /\ AmountMatches(e) =>
            status[o] # "PENDING_PAYMENT"

\* Money goes back only for a cancelled order, and the books and the customer
\* are told so only if it did.
RefundIsTrue ==
    /\ \A o \in Orders : refundRow[o] = "COMPLETED" => money[payment[o].razorpayOrder] = "refunded"
    /\ \A o \in refundMailed : refundRow[o] = "COMPLETED"
    /\ \A o \in Orders : HasPayment(o) =>
        /\ payment[o].status = "REFUNDED" => refundRow[o] = "COMPLETED"
        /\ \A g \in shown[o] : money[g] = "refunded" => status[o] = "CANCELLED"

\* A payment row only moves forward.
PaymentMoves ==
    {<<"NONE", "CREATED">>, <<"NONE", "PENDING">>, <<"CREATED", "CAPTURED">>,
     <<"CREATED", "PENDING">>, <<"CREATED", "FAILED">>, <<"PENDING", "CAPTURED">>,
     <<"PENDING", "REFUNDED">>, <<"CAPTURED", "REFUNDED">>}

\* No late or duplicate event, delivery or refund takes a payment back, and the
\* Razorpay order it was created with never changes.
PaymentOnlyAdvances ==
    [][\A o \in Orders : payment'[o] # payment[o] =>
        /\ <<payment[o].status, payment'[o].status>> \in PaymentMoves
        /\ HasPayment(o) => payment'[o].razorpayOrder = payment[o].razorpayOrder]_payVars

\* Money captured in full settles its order, through crashes and redeliveries.
CaptureIsApplied ==
    \A g \in GatewayOrders : \A o \in Orders :
        money[g] = "captured" /\ g \in shown[o] ~> status[o] # "PENDING_PAYMENT"

\* Cancelling a paid order "must trigger a refund" (plan.md, section 4): money
\* captured for a cancelled order is refunded, or a refund is on record as failed.
CancelledIsRepaid ==
    \A g \in GatewayOrders : \A o \in Orders :
        status[o] = "CANCELLED" /\ g \in shown[o] /\ money[g] = "captured"
            ~> money[g] = "refunded" \/ refundRow[o] # "NONE"

\* "Released on payment failure/timeout" (plan.md, ADR-015): an unpaid order
\* does not hold its stock for ever.
UnpaidHoldsAreSettled ==
    \A o \in Orders : status[o] = "PENDING_PAYMENT" ~> status[o] # "PENDING_PAYMENT"
=============================================================================
