------------------------------- MODULE Orders -------------------------------
(* The order state machine (modules/orders) and the stock it moves           *)
(* (modules/inventory).  Every use case reads the order outside any          *)
(* transaction, decides, and then runs one transaction whose                 *)
(* `UPDATE ... WHERE status = from` either wins (and moves the stock in the  *)
(* same commit) or matches no row and changes nothing; what follows the      *)
(* commit - the e-mail - is a step of its own.  Handlers interleave between  *)
(* those steps and may die at any of them.                                   *)
EXTENDS Integers, FiniteSets

CONSTANTS
    Orders,     \* orders customers may place
    Variants,   \* product variants, one inventory row each (single warehouse)
    Handlers,   \* requests the API serves at the same time
    Basket,     \* Basket[o][v]: OrderItem.quantity of v in o, 0 if absent
    Opening,    \* Opening[v]: quantityAvailable the variant starts with
    Deltas,     \* manual adjustments staff may enter
    StockCap    \* bound: the units of a variant ever entered in the books

ASSUME OrdersAssumption ==
    /\ IsFiniteSet(Orders)
    /\ Basket \in [Orders -> [Variants -> Nat]]
    /\ Opening \in [Variants -> Nat]
    /\ Deltas \subseteq Int
    /\ StockCap \in Nat

VARIABLES
    status,     \* Order.status
    available,  \* Inventory.quantityAvailable, per variant
    reserved,   \* Inventory.quantityReserved, per variant
    entered,    \* history: units the books were opened with or adjusted by
    request,    \* what each handler has read and still has to do
    mailed      \* Notification rows, by dedupeKey `${type}:${orderId}`

stock == <<available, reserved, entered>>
vars == <<status, stock, request, mailed>>

-----------------------------------------------------------------------------
(* A row that does not exist yet is NOT_PLACED; the rest is enum OrderStatus. *)
Statuses == {"NOT_PLACED", "PENDING_PAYMENT", "CONFIRMED", "PAYMENT_FAILED",
             "PROCESSING", "PACKED", "SHIPPED", "RETURNED_TO_ORIGIN",
             "DELIVERED", "CANCELLED"}

\* The status(es) each use case accepts and the one it writes.
From ==
    [confirm            |-> {"PENDING_PAYMENT"},
     markPaymentFailed  |-> {"PENDING_PAYMENT"},
     startProcessing    |-> {"CONFIRMED"},
     markPacked         |-> {"PROCESSING"},
     ship               |-> {"PACKED"},
     deliver            |-> {"SHIPPED"},
     returnToOrigin     |-> {"SHIPPED"},
     cancel             |-> {"CONFIRMED", "PROCESSING"}]

To ==
    [confirm            |-> "CONFIRMED",
     markPaymentFailed  |-> "PAYMENT_FAILED",
     startProcessing    |-> "PROCESSING",
     markPacked         |-> "PACKED",
     ship               |-> "SHIPPED",
     deliver            |-> "DELIVERED",
     returnToOrigin     |-> "RETURNED_TO_ORIGIN",
     cancel             |-> "CANCELLED"]

Operations == DOMAIN From

\* The use cases that have something left to do once they have committed.
Announced == Operations \ {"startProcessing", "markPacked"}

\* An order holds its basket until payment settles it; a sale stays sold
\* until the order is cancelled or the parcel comes back.
HoldsStock == {"PENDING_PAYMENT"}
KeepsStock == {"CONFIRMED", "PROCESSING", "PACKED", "SHIPPED", "DELIVERED"}

Idle == [op |-> "none"]
Requests == [op : Operations, order : Orders, seen : Statuses, pc : {"tx", "committed"}]

Lesser(a, b) == IF a < b THEN a ELSE b

-----------------------------------------------------------------------------
(* modules/inventory: each runs under FOR UPDATE locks of the caller's tx.   *)

\* Mutant: stock that is already reserved for others is promised again.
ReserveWhatIsReserved(o) ==
    /\ \A v \in Variants : Basket[o][v] <= available[v]
    /\ reserved' = [v \in Variants |-> reserved[v] + Basket[o][v]]
    /\ UNCHANGED <<available, entered>>

\* All or nothing; an insufficient line rolls the whole checkout back.
ReserveForCheckout(o) ==
    /\ \A v \in Variants : Basket[o][v] <= available[v] - reserved[v]
    /\ reserved' = [v \in Variants |-> reserved[v] + Basket[o][v]]
    /\ UNCHANGED <<available, entered>>

\* Mutant: the sale is deducted but its hold stays.
FinalizeButKeepHold(o) ==
    /\ available' = [v \in Variants |-> available[v] - Lesser(reserved[v], Basket[o][v])]
    /\ UNCHANGED <<reserved, entered>>

\* Both take at most what the row has reserved (Math.min in the code).
FinalizeReservation(o) ==
    /\ reserved' = [v \in Variants |-> reserved[v] - Lesser(reserved[v], Basket[o][v])]
    /\ available' = [v \in Variants |-> available[v] - Lesser(reserved[v], Basket[o][v])]
    /\ UNCHANGED entered

ReleaseReservation(o) ==
    /\ reserved' = [v \in Variants |-> reserved[v] - Lesser(reserved[v], Basket[o][v])]
    /\ UNCHANGED <<available, entered>>

\* Mutant: a finalized sale is given back as if it were still a hold.
RestockByReleasing(o) == ReleaseReservation(o)

RestockFinalizedSale(o) ==
    /\ available' = [v \in Variants |-> available[v] + Basket[o][v]]
    /\ UNCHANGED <<reserved, entered>>

\* Mutant: a correction may take what pending orders have reserved.
AdjustReservedUnits(v, d) ==
    /\ available[v] + d >= 0
    /\ entered[v] + d <= StockCap
    /\ available' = [available EXCEPT ![v] = @ + d]
    /\ entered' = [entered EXCEPT ![v] = @ + d]
    /\ UNCHANGED <<status, reserved, request, mailed>>

\* Staff correct a miscount; validateInventoryAdjustment refuses to go below
\* zero or below what pending orders have reserved.
AdjustQuantity(v, d) ==
    /\ available[v] + d >= 0
    /\ available[v] + d >= reserved[v]
    /\ entered[v] + d <= StockCap
    /\ available' = [available EXCEPT ![v] = @ + d]
    /\ entered' = [entered EXCEPT ![v] = @ + d]
    /\ UNCHANGED <<status, reserved, request, mailed>>

-----------------------------------------------------------------------------
(* modules/orders *)

\* The checkout transaction, as far as order and stock are concerned.
PlaceOrder(o) ==
    /\ status[o] = "NOT_PLACED"
    /\ ReserveForCheckout(o)
    /\ status' = [status EXCEPT ![o] = "PENDING_PAYMENT"]
    /\ UNCHANGED <<request, mailed>>

\* Mutant: the use case does not look at the status it has read.
ReadOrderInAnyStatus(h, op, o) ==
    /\ request[h] = Idle
    /\ request' = [request EXCEPT ![h] =
                     [op |-> op, order |-> o, seen |-> status[o], pc |-> "tx"]]
    /\ UNCHANGED <<status, stock, mailed>>

\* findById outside the transaction.  An order already in the target status is
\* a no-op and any other unexpected status a ConflictError: neither writes.
ReadOrder(h, op, o) ==
    /\ request[h] = Idle
    /\ status[o] \in From[op]
    /\ request' = [request EXCEPT ![h] =
                     [op |-> op, order |-> o, seen |-> status[o], pc |-> "tx"]]
    /\ UNCHANGED <<status, stock, mailed>>

InTx(h) == request[h] # Idle /\ request[h].pc = "tx"

\* Mutant: `WHERE id = o` without the status the decision was made on.
TransitionWithoutStatus(h, op) ==
    LET o == request[h].order IN
    /\ InTx(h)
    /\ request[h].op = op
    /\ status' = [status EXCEPT ![o] = To[op]]
    /\ request' = [request EXCEPT ![h] =
                     IF op \in Announced THEN [@ EXCEPT !.pc = "committed"] ELSE Idle]
    /\ UNCHANGED mailed

\* OrderRepository.transitionStatus: WHERE id = o AND status = from.
TransitionStatus(h, op) ==
    LET o == request[h].order IN
    /\ InTx(h)
    /\ request[h].op = op
    /\ status[o] = request[h].seen
    /\ status' = [status EXCEPT ![o] = To[op]]
    /\ request' = [request EXCEPT ![h] =
                     IF op \in Announced THEN [@ EXCEPT !.pc = "committed"] ELSE Idle]
    /\ UNCHANGED mailed

\* Mutant: the loser of the race carries on as if it had won.
LoseRaceButNotify(h) ==
    /\ InTx(h)
    /\ status[request[h].order] # request[h].seen
    /\ request' = [request EXCEPT ![h].pc = "committed"]
    /\ UNCHANGED <<status, stock, mailed>>

\* count = 0: somebody else moved the order since it was read; `changed: false`.
LoseRace(h) ==
    /\ InTx(h)
    /\ status[request[h].order] # request[h].seen
    /\ request' = [request EXCEPT ![h] = Idle]
    /\ UNCHANGED <<status, stock, mailed>>

ConfirmOrder(h) ==
    TransitionStatus(h, "confirm") /\ FinalizeReservation(request[h].order)

MarkOrderPaymentFailed(h) ==
    TransitionStatus(h, "markPaymentFailed") /\ ReleaseReservation(request[h].order)

StartProcessing(h) == TransitionStatus(h, "startProcessing") /\ UNCHANGED stock

MarkPacked(h) == TransitionStatus(h, "markPacked") /\ UNCHANGED stock

ShipOrder(h) == TransitionStatus(h, "ship") /\ UNCHANGED stock

DeliverOrder(h) == TransitionStatus(h, "deliver") /\ UNCHANGED stock

MarkReturnedToOrigin(h) ==
    TransitionStatus(h, "returnToOrigin") /\ RestockFinalizedSale(request[h].order)

CancelOrder(h) ==
    TransitionStatus(h, "cancel") /\ RestockFinalizedSale(request[h].order)

\* The winner enqueues the e-mail about what it did; dedupeKey keeps one row.
NotifyOrderEvent(h) ==
    /\ request[h] # Idle
    /\ request[h].pc = "committed"
    /\ mailed' = mailed \cup {<<To[request[h].op], request[h].order>>}
    /\ request' = [request EXCEPT ![h] = Idle]
    /\ UNCHANGED <<status, stock>>

\* The process dies, or a step throws: an open transaction rolls back, and
\* what the handler still had to do is forgotten.
Crash(h) ==
    /\ request[h] # Idle
    /\ request' = [request EXCEPT ![h] = Idle]
    /\ UNCHANGED <<status, stock, mailed>>

-----------------------------------------------------------------------------
Init ==
    /\ status = [o \in Orders |-> "NOT_PLACED"]
    /\ available = Opening
    /\ entered = Opening
    /\ reserved = [v \in Variants |-> 0]
    /\ request = [h \in Handlers |-> Idle]
    /\ mailed = {}

Commit(h) ==
    \/ ConfirmOrder(h)
    \/ MarkOrderPaymentFailed(h)
    \/ StartProcessing(h)
    \/ MarkPacked(h)
    \/ ShipOrder(h)
    \/ DeliverOrder(h)
    \/ MarkReturnedToOrigin(h)
    \/ CancelOrder(h)

Next ==
    \/ \E o \in Orders : PlaceOrder(o)
    \/ \E h \in Handlers, op \in Operations, o \in Orders : ReadOrder(h, op, o)
    \/ \E h \in Handlers : Commit(h) \/ LoseRace(h) \/ NotifyOrderEvent(h) \/ Crash(h)
    \/ \E v \in Variants, d \in Deltas : AdjustQuantity(v, d)

Spec == Init /\ [][Next]_vars

-----------------------------------------------------------------------------
(* Properties *)

\* Every column keeps its type, and a handler only acts on a status its use case accepts.
TypeOK ==
    /\ status \in [Orders -> Statuses]
    /\ available \in [Variants -> Int]
    /\ reserved \in [Variants -> Int]
    /\ entered \in [Variants -> Int]
    /\ request \in [Handlers -> {Idle} \cup Requests]
    /\ \A h \in Handlers : request[h] # Idle => request[h].seen \in From[request[h].op]
    /\ mailed \subseteq Statuses \X Orders

\* The units of v that orders ask for, each with a name of its own.
BasketUnits(o, v) == {o} \X (1..Basket[o][v])
Units(v) == UNION {BasketUnits(o, v) : o \in Orders}
UnitsIn(K, v) == {u \in Units(v) : status[u[1]] \in K}
HeldUnits(v) == UnitsIn(HoldsStock, v)
SoldUnits(v) == UnitsIn(KeepsStock, v)

\* quantityReserved is exactly what unpaid orders hold: no confirmation, failure
\* or cancellation that loses a race releases or finalizes a hold twice or never.
ReservedIsWhatUnpaidOrdersHold ==
    \A v \in Variants : reserved[v] = Cardinality(HeldUnits(v))

\* quantityAvailable is what was entered in the books minus what was sold and
\* not given back: each sale is deducted once, each return restocked once.
AvailableIsWhatWasNotSold ==
    \A v \in Variants : available[v] = entered[v] - Cardinality(SoldUnits(v))

\* Unpaid orders never hold more than there is, so confirming them all cannot
\* oversell - whatever staff adjust meanwhile.
NeverOversold ==
    \A v \in Variants : 0 <= reserved[v] /\ reserved[v] <= available[v]

\* The statuses an order can be in once it has been in s.
Reached(s) ==
    CASE s = "CONFIRMED"  -> KeepsStock \cup {"RETURNED_TO_ORIGIN", "CANCELLED"}
      [] s = "SHIPPED"    -> {"SHIPPED", "DELIVERED", "RETURNED_TO_ORIGIN"}
      [] OTHER            -> {s}

\* An e-mail only ever says what did happen: the handler that lost the race to
\* a cancellation never announces a shipment, or a second outcome of a payment.
MailTellsTheTruth ==
    \A m \in mailed : status[m[2]] \in Reached(m[1])

\* The state diagram of the order life cycle, with the checkpoints added since.
Lifecycle ==
    {<<"NOT_PLACED", "PENDING_PAYMENT">>, <<"PENDING_PAYMENT", "CONFIRMED">>,
     <<"PENDING_PAYMENT", "PAYMENT_FAILED">>, <<"CONFIRMED", "PROCESSING">>,
     <<"PROCESSING", "PACKED">>, <<"PACKED", "SHIPPED">>,
     <<"SHIPPED", "DELIVERED">>, <<"SHIPPED", "RETURNED_TO_ORIGIN">>,
     <<"CONFIRMED", "CANCELLED">>, <<"PROCESSING", "CANCELLED">>}

\* However stale the status a handler decided on, an order only moves along the
\* state diagram: a packed or shipped order is never cancelled, a settled one never reopened.
MovesAlongLifecycle ==
    [][\A o \in Orders : status'[o] # status[o] => <<status[o], status'[o]>> \in Lifecycle]_vars

\* Seen by a shopper, orders and inventory together are the abstract ledger.
Claim(s) ==
    CASE s = "NOT_PLACED"    -> "none"
      [] s \in HoldsStock   -> "held"
      [] s \in KeepsStock   -> "sold"
      [] OTHER              -> "returned"

Ledger == INSTANCE StockLedger WITH
    shelf <- [v \in Variants |-> available[v] - reserved[v]],
    claim <- [o \in Orders |-> Claim(status[o])]

\* The status and counter updates implement the promise: baskets are taken and
\* given back whole, once, and never below an empty shelf.
ImplementsLedger == Ledger!Spec
=============================================================================
