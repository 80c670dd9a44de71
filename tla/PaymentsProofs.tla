--------------------------- MODULE PaymentsProofs ---------------------------
(* Proofs about Orders and Payments, for any number of orders, variants,     *)
(* handlers, Razorpay orders and crashes and any basket.  First Orders by    *)
(* itself: types, the stock books, the life cycle, the e-mails, and that it  *)
(* implements StockLedger.  Then Payments implements Orders: whatever        *)
(* webhooks, cash, refunds and staff do around it, every step is a step of   *)
(* Orders or leaves orders and stock alone, so what was proved about stock   *)
(* and life cycle holds here as well.  Last the invariant of the money, from *)
(* which the properties follow.                                              *)
EXTENDS Payments, FiniteSetTheorems, TLAPS


-----------------------------------------------------------------------------
(* Counting units *)

\* A basket's units of a variant are as many as the basket asks for.
LEMMA BasketUnitsCount ==
    ASSUME NEW o \in Orders, NEW v \in Variants
    PROVE  /\ IsFiniteSet(BasketUnits(o, v))
           /\ Cardinality(BasketUnits(o, v)) = Basket[o][v]
<1>1. Basket[o][v] \in Nat
    BY OrdersAssumption
<1>2. IsFiniteSet(1..Basket[o][v]) /\ Cardinality(1..Basket[o][v]) = Basket[o][v]
    <2>1. 1 \in Int /\ Basket[o][v] \in Int
        BY <1>1
    <2>2. /\ IsFiniteSet(1..Basket[o][v])
          /\ Cardinality(1..Basket[o][v]) = IF 1 > Basket[o][v] THEN 0 ELSE Basket[o][v] - 1 + 1
        BY <2>1, FS_Interval
    <2> QED
        BY <1>1, <2>2
<1>3. IsFiniteSet({o}) /\ Cardinality({o}) = 1
    BY FS_Singleton
<1>4. /\ IsFiniteSet({o} \X (1..Basket[o][v]))
      /\ Cardinality({o} \X (1..Basket[o][v])) = Cardinality({o}) * Cardinality(1..Basket[o][v])
    BY <1>2, <1>3, FS_Product, Zenon
<1>5. Cardinality({o} \X (1..Basket[o][v])) = Basket[o][v]
    BY <1>1, <1>2, <1>3, <1>4
<1> QED
    BY <1>4, <1>5 DEF BasketUnits

\* The units of a variant that orders may ask for are finitely many.
LEMMA UnitsFinite ==
    ASSUME NEW v \in Variants
    PROVE  IsFiniteSet(Units(v))
<1> DEFINE T == {BasketUnits(o, v) : o \in Orders}
           f == [o \in Orders |-> BasketUnits(o, v)]
<1>1. f \in Surjection(Orders, T)
    BY DEF Surjection
<1>2. IsFiniteSet(T)
    <2>1. IsFiniteSet(Orders)
        BY OrdersAssumption
    <2> HIDE DEF f, T
    <2> QED
        BY <1>1, <2>1, FS_Surjection
<1>3. \A U \in T : IsFiniteSet(U)
    BY BasketUnitsCount
<1> HIDE DEF T
<1>4. IsFiniteSet(UNION T)
    BY <1>2, <1>3, FS_UNION
<1> QED
    BY <1>4 DEF Units, T

\* Taking a basket into a set of units that holds none of it adds its size.
LEMMA AddBasket ==
    ASSUME NEW o \in Orders, NEW v \in Variants,
           NEW S, IsFiniteSet(S), S \cap BasketUnits(o, v) = {}
    PROVE  Cardinality(S \cup BasketUnits(o, v)) = Cardinality(S) + Basket[o][v]
<1>1. Cardinality(S \cup BasketUnits(o, v)) =
        Cardinality(S) + Cardinality(BasketUnits(o, v)) - Cardinality(S \cap BasketUnits(o, v))
    BY BasketUnitsCount, FS_Union
<1>2. Cardinality(S \cap BasketUnits(o, v)) = 0
    BY FS_EmptySet
<1>3. Cardinality(S) \in Nat /\ Basket[o][v] \in Nat
    BY OrdersAssumption, FS_CardinalityType
<1> QED
    BY <1>1, <1>2, <1>3, BasketUnitsCount

\* Taking a basket out of a set of units that holds all of it removes its size.
LEMMA RemoveBasket ==
    ASSUME NEW o \in Orders, NEW v \in Variants,
           NEW S, IsFiniteSet(S), BasketUnits(o, v) \subseteq S
    PROVE  /\ Cardinality(S \ BasketUnits(o, v)) = Cardinality(S) - Basket[o][v]
           /\ Basket[o][v] <= Cardinality(S)
<1>1. IsFiniteSet(S \ BasketUnits(o, v))
    BY FS_Difference
<1>2. Cardinality((S \ BasketUnits(o, v)) \cup BasketUnits(o, v)) =
        Cardinality(S \ BasketUnits(o, v)) + Basket[o][v]
    BY <1>1, AddBasket
<1>3. (S \ BasketUnits(o, v)) \cup BasketUnits(o, v) = S
    OBVIOUS
<1>4. /\ Cardinality(S \ BasketUnits(o, v)) \in Nat
      /\ Cardinality(S) \in Nat
      /\ Basket[o][v] \in Nat
    BY <1>1, OrdersAssumption, FS_CardinalityType
<1>5. Cardinality(S) = Cardinality(S \ BasketUnits(o, v)) + Basket[o][v]
    BY <1>2, <1>3
<1> QED
    BY <1>4, <1>5

\* Counting the units of the orders in some statuses K before and after one
\* order o moves to the status t: its basket enters, leaves, or stays.
LEMMA MoveCounts ==
    ASSUME NEW o \in Orders, NEW v \in Variants, NEW t \in Statuses, NEW K,
           status \in [Orders -> Statuses],
           status' = [status EXCEPT ![o] = t]
    PROVE  /\ Cardinality(UnitsIn(K, v)) \in Nat
           /\ status[o] \notin K /\ t \in K =>
                Cardinality(UnitsIn(K, v)') = Cardinality(UnitsIn(K, v)) + Basket[o][v]
           /\ status[o] \in K /\ t \notin K =>
                /\ Cardinality(UnitsIn(K, v)') = Cardinality(UnitsIn(K, v)) - Basket[o][v]
                /\ Basket[o][v] <= Cardinality(UnitsIn(K, v))
           /\ (status[o] \in K <=> t \in K) => UnitsIn(K, v)' = UnitsIn(K, v)
<1>1. IsFiniteSet(UnitsIn(K, v))
    <2>1. UnitsIn(K, v) \in SUBSET Units(v)
        BY DEF UnitsIn
    <2> QED
        BY <2>1, UnitsFinite, FS_Subset
<1>2. \A u \in Units(v) : u[1] \in Orders /\ (u \in BasketUnits(o, v) <=> u[1] = o)
    BY DEF Units, BasketUnits
<1>3. BasketUnits(o, v) \subseteq Units(v)
    BY DEF Units
<1>4. \A u \in Units(v) : status'[u[1]] = IF u \in BasketUnits(o, v) THEN t ELSE status[u[1]]
    BY <1>2
<1>5. Units(v)' = Units(v)
    BY DEF Units, BasketUnits
<1>6. ASSUME status[o] \notin K, t \in K
      PROVE  Cardinality(UnitsIn(K, v)') = Cardinality(UnitsIn(K, v)) + Basket[o][v]
    <2>1. UnitsIn(K, v)' = UnitsIn(K, v) \cup BasketUnits(o, v)
        BY <1>3, <1>4, <1>5, <1>6 DEF UnitsIn
    <2>2. UnitsIn(K, v) \cap BasketUnits(o, v) = {}
        BY <1>2, <1>6 DEF UnitsIn
    <2> QED
        BY <1>1, <2>1, <2>2, AddBasket
<1>7. ASSUME status[o] \in K, t \notin K
      PROVE  /\ Cardinality(UnitsIn(K, v)') = Cardinality(UnitsIn(K, v)) - Basket[o][v]
             /\ Basket[o][v] <= Cardinality(UnitsIn(K, v))
    <2>1. UnitsIn(K, v)' = UnitsIn(K, v) \ BasketUnits(o, v)
        BY <1>3, <1>4, <1>5, <1>7 DEF UnitsIn
    <2>2. BasketUnits(o, v) \subseteq UnitsIn(K, v)
        BY <1>2, <1>3, <1>7 DEF UnitsIn
    <2> QED
        BY <1>1, <2>1, <2>2, RemoveBasket
<1>8. ASSUME status[o] \in K <=> t \in K
      PROVE  UnitsIn(K, v)' = UnitsIn(K, v)
    BY <1>2, <1>4, <1>5, <1>8 DEF UnitsIn
<1> QED
    BY <1>1, <1>6, <1>7, <1>8, FS_CardinalityType

-----------------------------------------------------------------------------
(* Types *)

\* What a conditional update that wins has read, and what it writes.
LEMMA WonTransition ==
    ASSUME TypeOK, NEW h \in Handlers, NEW op \in Operations, TransitionStatus(h, op)
    PROVE  /\ request[h].order \in Orders
           /\ status[request[h].order] \in From[op]
           /\ To[op] \in Statuses
           /\ status' = [status EXCEPT ![request[h].order] = To[op]]
<1>1. request[h] \in Requests /\ request[h].op = op
    BY DEF TypeOK, TransitionStatus, InTx
<1>2. request[h].seen \in From[op]
    BY <1>1 DEF TypeOK, TransitionStatus, InTx
<1>3. To[op] \in Statuses
    BY DEF Operations, From, To, Statuses
<1> QED
    BY <1>1, <1>2, <1>3 DEF TransitionStatus, Requests

\* A conditional update keeps the types of all it writes.
LEMMA TransitionType ==
    ASSUME TypeOK, NEW h \in Handlers, NEW op \in Operations, TransitionStatus(h, op)
    PROVE  /\ status' \in [Orders -> Statuses]
           /\ request' \in [Handlers -> {Idle} \cup Requests]
           /\ \A k \in Handlers : request'[k] # Idle => request'[k].seen \in From[request'[k].op]
           /\ mailed' \subseteq Statuses \X Orders
<1>1. status' \in [Orders -> Statuses]
    BY WonTransition DEF TypeOK
<1> DEFINE r == IF op \in Announced THEN [request[h] EXCEPT !.pc = "committed"] ELSE Idle
<1>2. request' = [request EXCEPT ![h] = r]
    BY DEF TransitionStatus
<1>3. request[h] \in Requests /\ request[h].seen \in From[request[h].op]
    BY DEF TypeOK, TransitionStatus, InTx
<1>4. r \in {Idle} \cup Requests /\ (r # Idle => r.seen \in From[r.op])
    BY <1>3 DEF Requests
<1> HIDE DEF r
<1>5. request' \in [Handlers -> {Idle} \cup Requests]
    BY <1>2, <1>4 DEF TypeOK
<1>6. \A k \in Handlers : request'[k] # Idle => request'[k].seen \in From[request'[k].op]
    BY <1>2, <1>4 DEF TypeOK
<1>7. mailed' \subseteq Statuses \X Orders
    BY DEF TypeOK, TransitionStatus
<1> QED
    BY <1>1, <1>5, <1>6, <1>7

\* What a handler forgets is well typed.
LEMMA ForgetType ==
    ASSUME TypeOK, NEW h \in Handlers, request' = [request EXCEPT ![h] = Idle]
    PROVE  /\ request' \in [Handlers -> {Idle} \cup Requests]
           /\ \A k \in Handlers : request'[k] # Idle => request'[k].seen \in From[request'[k].op]
BY DEF TypeOK

\* Every step keeps the types, and leaves each handler with a status its use case accepts.
LEMMA TypeKept ==
    ASSUME TypeOK, [Next]_vars
    PROVE  TypeOK'
<1>0. Basket \in [Orders -> [Variants -> Nat]] /\ Deltas \subseteq Int
    BY OrdersAssumption
<1>1. ASSUME NEW o \in Orders, PlaceOrder(o)
      PROVE  TypeOK'
    BY <1>0, <1>1 DEF PlaceOrder, ReserveForCheckout, TypeOK, Statuses
<1>2. ASSUME NEW h \in Handlers, NEW op \in Operations, NEW o \in Orders, ReadOrder(h, op, o)
      PROVE  TypeOK'
    <2> DEFINE r == [op |-> op, order |-> o, seen |-> status[o], pc |-> "tx"]
    <2>1. r \in Requests /\ r.seen \in From[r.op]
        BY <1>2 DEF ReadOrder, Requests, TypeOK
    <2>2. request' = [request EXCEPT ![h] = r]
        BY <1>2 DEF ReadOrder
    <2> HIDE DEF r
    <2>3. /\ request' \in [Handlers -> {Idle} \cup Requests]
          /\ \A k \in Handlers : request'[k] # Idle => request'[k].seen \in From[request'[k].op]
        BY <2>1, <2>2 DEF TypeOK
    <2> QED
        BY <1>2, <2>3 DEF ReadOrder, stock, TypeOK
<1>3. ASSUME NEW h \in Handlers, Commit(h)
      PROVE  TypeOK'
    <2>1. ASSUME NEW op \in Operations, TransitionStatus(h, op),
                 \/ FinalizeReservation(request[h].order)
                 \/ ReleaseReservation(request[h].order)
                 \/ RestockFinalizedSale(request[h].order)
                 \/ UNCHANGED stock
          PROVE  TypeOK'
        <3>1. request[h].order \in Orders
            BY <2>1, WonTransition
        <3>2. /\ available' \in [Variants -> Int]
              /\ reserved' \in [Variants -> Int]
              /\ entered' \in [Variants -> Int]
            BY <1>0, <2>1, <3>1
            DEF TypeOK, FinalizeReservation, ReleaseReservation, RestockFinalizedSale, Lesser, stock
        <3> QED
            BY <2>1, <3>2, TransitionType DEF TypeOK
    <2> QED
        BY <1>3, <2>1
        DEF Commit, ConfirmOrder, MarkOrderPaymentFailed, StartProcessing, MarkPacked, ShipOrder,
            DeliverOrder, MarkReturnedToOrigin, CancelOrder, Operations, From
<1>4. ASSUME NEW h \in Handlers, LoseRace(h) \/ Crash(h)
      PROVE  TypeOK'
    BY <1>4, ForgetType DEF LoseRace, Crash, stock, TypeOK
<1>5. ASSUME NEW h \in Handlers, NotifyOrderEvent(h)
      PROVE  TypeOK'
    <2>1. request[h] \in Requests
        BY <1>5 DEF NotifyOrderEvent, TypeOK
    <2>2. <<To[request[h].op], request[h].order>> \in Statuses \X Orders
        BY <2>1 DEF Requests, Operations, From, To, Statuses
    <2> QED
        BY <1>5, <2>2, ForgetType DEF NotifyOrderEvent, stock, TypeOK
<1>6. ASSUME NEW v \in Variants, NEW d \in Deltas, AdjustQuantity(v, d)
      PROVE  TypeOK'
    BY <1>0, <1>6 DEF AdjustQuantity, TypeOK
<1>7. CASE UNCHANGED vars
    BY <1>7 DEF vars, stock, TypeOK
<1> QED
    BY <1>1, <1>2, <1>3, <1>4, <1>5, <1>6, <1>7 DEF Next

\* Type correctness (TypeOK of the runs): columns keep their types and every
\* handler in flight holds a status its use case accepts.
THEOREM TypeCorrect == Spec => []TypeOK
<1>1. Init => TypeOK
    BY OrdersAssumption DEF Init, TypeOK, Statuses, Idle
<1> QED
    BY <1>1, TypeKept, PTL DEF Spec

-----------------------------------------------------------------------------
(* The stock books *)

\* The invariant that carries the stock argument: both counters of a row are
\* counts of units, and what is reserved is covered by what is available.
RowBalances(v) ==
    /\ reserved[v] = Cardinality(HeldUnits(v))
    /\ available[v] = entered[v] - Cardinality(SoldUnits(v))
    /\ 0 <= reserved[v]
    /\ reserved[v] <= available[v]

BooksBalance == \A v \in Variants : RowBalances(v)

\* What moving one order to the status t does to the held and the sold units.
LEMMA HeldAndSoldCounts ==
    ASSUME TypeOK, NEW o \in Orders, NEW v \in Variants, NEW t \in Statuses,
           status' = [status EXCEPT ![o] = t]
    PROVE  /\ Cardinality(HeldUnits(v)) \in Nat
           /\ Cardinality(SoldUnits(v)) \in Nat
           /\ Cardinality(HeldUnits(v)') = Cardinality(HeldUnits(v))
                + (IF t \in HoldsStock THEN Basket[o][v] ELSE 0)
                - (IF status[o] \in HoldsStock THEN Basket[o][v] ELSE 0)
           /\ Cardinality(SoldUnits(v)') = Cardinality(SoldUnits(v))
                + (IF t \in KeepsStock THEN Basket[o][v] ELSE 0)
                - (IF status[o] \in KeepsStock THEN Basket[o][v] ELSE 0)
           /\ status[o] \in HoldsStock => Basket[o][v] <= Cardinality(HeldUnits(v))
<1>0. status \in [Orders -> Statuses] /\ Basket[o][v] \in Nat
    BY OrdersAssumption DEF TypeOK
<1>1. /\ Cardinality(UnitsIn(HoldsStock, v)) \in Nat
      /\ status[o] \notin HoldsStock /\ t \in HoldsStock =>
           Cardinality(UnitsIn(HoldsStock, v)') = Cardinality(UnitsIn(HoldsStock, v)) + Basket[o][v]
      /\ status[o] \in HoldsStock /\ t \notin HoldsStock =>
           /\ Cardinality(UnitsIn(HoldsStock, v)') = Cardinality(UnitsIn(HoldsStock, v)) - Basket[o][v]
           /\ Basket[o][v] <= Cardinality(UnitsIn(HoldsStock, v))
      /\ (status[o] \in HoldsStock <=> t \in HoldsStock) =>
           UnitsIn(HoldsStock, v)' = UnitsIn(HoldsStock, v)
    BY <1>0, MoveCounts
<1>2. /\ Cardinality(UnitsIn(KeepsStock, v)) \in Nat
      /\ status[o] \notin KeepsStock /\ t \in KeepsStock =>
           Cardinality(UnitsIn(KeepsStock, v)') = Cardinality(UnitsIn(KeepsStock, v)) + Basket[o][v]
      /\ status[o] \in KeepsStock /\ t \notin KeepsStock =>
           /\ Cardinality(UnitsIn(KeepsStock, v)') = Cardinality(UnitsIn(KeepsStock, v)) - Basket[o][v]
           /\ Basket[o][v] <= Cardinality(UnitsIn(KeepsStock, v))
      /\ (status[o] \in KeepsStock <=> t \in KeepsStock) =>
           UnitsIn(KeepsStock, v)' = UnitsIn(KeepsStock, v)
    BY <1>0, MoveCounts
<1>3. status[o] \in HoldsStock => Basket[o][v] <= Cardinality(UnitsIn(HoldsStock, v))
    <2> SUFFICES ASSUME status[o] \in HoldsStock
                 PROVE  Basket[o][v] <= Cardinality(UnitsIn(HoldsStock, v))
        OBVIOUS
    <2>1. IsFiniteSet(UnitsIn(HoldsStock, v))
        BY UnitsFinite, FS_Subset DEF UnitsIn
    <2>2. BasketUnits(o, v) \subseteq UnitsIn(HoldsStock, v)
        BY DEF UnitsIn, Units, BasketUnits
    <2> QED
        BY <2>1, <2>2, RemoveBasket
<1> QED
    BY <1>0, <1>1, <1>2, <1>3 DEF HeldUnits, SoldUnits

\* A row's numbers are what the arithmetic below needs them to be.
LEMMA RowTypes ==
    ASSUME TypeOK, NEW o \in Orders, NEW v \in Variants
    PROVE  /\ reserved[v] \in Int
           /\ available[v] \in Int
           /\ entered[v] \in Int
           /\ Basket[o][v] \in Nat
BY OrdersAssumption DEF TypeOK

\* Reserving for a new order: the hold is covered because checkout checked it.
LEMMA PlaceOrderKeepsBooks ==
    ASSUME TypeOK, BooksBalance, NEW o \in Orders, PlaceOrder(o)
    PROVE  BooksBalance'
<1> SUFFICES ASSUME NEW v \in Variants PROVE RowBalances(v)'
    BY DEF BooksBalance
<1>1. status[o] = "NOT_PLACED" /\ status' = [status EXCEPT ![o] = "PENDING_PAYMENT"]
    BY DEF PlaceOrder
<1>2. /\ Cardinality(HeldUnits(v)) \in Nat
      /\ Cardinality(SoldUnits(v)) \in Nat
      /\ Cardinality(HeldUnits(v)') = Cardinality(HeldUnits(v)) + Basket[o][v] - 0
      /\ Cardinality(SoldUnits(v)') = Cardinality(SoldUnits(v)) + 0 - 0
    BY <1>1, HeldAndSoldCounts DEF HoldsStock, KeepsStock, Statuses
<1>3. /\ Basket[o][v] <= available[v] - reserved[v]
      /\ reserved'[v] = reserved[v] + Basket[o][v]
      /\ available'[v] = available[v]
      /\ entered'[v] = entered[v]
    BY DEF PlaceOrder, ReserveForCheckout
<1> QED
    BY <1>2, <1>3, RowTypes DEF BooksBalance, RowBalances

\* Confirming turns the hold of one order into a sale.
LEMMA ConfirmKeepsBooks ==
    ASSUME TypeOK, BooksBalance, NEW h \in Handlers, ConfirmOrder(h)
    PROVE  BooksBalance'
<1> SUFFICES ASSUME NEW v \in Variants PROVE RowBalances(v)'
    BY DEF BooksBalance
<1> DEFINE o == request[h].order
<1>1. /\ o \in Orders
      /\ status[o] = "PENDING_PAYMENT"
      /\ status' = [status EXCEPT ![o] = "CONFIRMED"]
    BY WonTransition DEF ConfirmOrder, Operations, From, To
<1>2. /\ Cardinality(HeldUnits(v)) \in Nat
      /\ Cardinality(SoldUnits(v)) \in Nat
      /\ Cardinality(HeldUnits(v)') = Cardinality(HeldUnits(v)) + 0 - Basket[o][v]
      /\ Cardinality(SoldUnits(v)') = Cardinality(SoldUnits(v)) + Basket[o][v] - 0
      /\ Basket[o][v] <= Cardinality(HeldUnits(v))
    BY <1>1, HeldAndSoldCounts DEF HoldsStock, KeepsStock, Statuses
<1>3. Lesser(reserved[v], Basket[o][v]) = Basket[o][v]
    BY <1>1, <1>2, RowTypes DEF BooksBalance, RowBalances, Lesser
<1>4. /\ reserved'[v] = reserved[v] - Basket[o][v]
      /\ available'[v] = available[v] - Basket[o][v]
      /\ entered'[v] = entered[v]
    BY <1>3 DEF ConfirmOrder, FinalizeReservation
<1> QED
    BY <1>1, <1>2, <1>4, RowTypes DEF BooksBalance, RowBalances

\* A failed payment gives the hold of one order back.
LEMMA FailKeepsBooks ==
    ASSUME TypeOK, BooksBalance, NEW h \in Handlers, MarkOrderPaymentFailed(h)
    PROVE  BooksBalance'
<1> SUFFICES ASSUME NEW v \in Variants PROVE RowBalances(v)'
    BY DEF BooksBalance
<1> DEFINE o == request[h].order
<1>1. /\ o \in Orders
      /\ status[o] = "PENDING_PAYMENT"
      /\ status' = [status EXCEPT ![o] = "PAYMENT_FAILED"]
    BY WonTransition DEF MarkOrderPaymentFailed, Operations, From, To
<1>2. /\ Cardinality(HeldUnits(v)) \in Nat
      /\ Cardinality(SoldUnits(v)) \in Nat
      /\ Cardinality(HeldUnits(v)') = Cardinality(HeldUnits(v)) + 0 - Basket[o][v]
      /\ Cardinality(SoldUnits(v)') = Cardinality(SoldUnits(v)) + 0 - 0
      /\ Basket[o][v] <= Cardinality(HeldUnits(v))
    BY <1>1, HeldAndSoldCounts DEF HoldsStock, KeepsStock, Statuses
<1>3. Lesser(reserved[v], Basket[o][v]) = Basket[o][v]
    BY <1>1, <1>2, RowTypes DEF BooksBalance, RowBalances, Lesser
<1>4. /\ reserved'[v] = reserved[v] - Basket[o][v]
      /\ available'[v] = available[v]
      /\ entered'[v] = entered[v]
    BY <1>3 DEF MarkOrderPaymentFailed, ReleaseReservation
<1> QED
    BY <1>1, <1>2, <1>4, RowTypes DEF BooksBalance, RowBalances

\* The statuses the two restocking operations move an order between.
LEMMA RestockTransition ==
    ASSUME TypeOK, NEW h \in Handlers, MarkReturnedToOrigin(h) \/ CancelOrder(h)
    PROVE  /\ request[h].order \in Orders
           /\ status[request[h].order] \in KeepsStock \ HoldsStock
           /\ \E t \in Statuses \ (KeepsStock \cup HoldsStock) :
                status' = [status EXCEPT ![request[h].order] = t]
<1>1. CASE MarkReturnedToOrigin(h)
    BY <1>1, WonTransition
    DEF MarkReturnedToOrigin, Operations, From, To, KeepsStock, HoldsStock, Statuses
<1>2. CASE CancelOrder(h)
    BY <1>2, WonTransition DEF CancelOrder, Operations, From, To, KeepsStock, HoldsStock, Statuses
<1> QED
    BY <1>1, <1>2

\* A cancellation or a returned parcel undoes one sale.
LEMMA RestockKeepsBooks ==
    ASSUME TypeOK, BooksBalance, NEW h \in Handlers, MarkReturnedToOrigin(h) \/ CancelOrder(h)
    PROVE  BooksBalance'
<1> SUFFICES ASSUME NEW v \in Variants PROVE RowBalances(v)'
    BY DEF BooksBalance
<1> DEFINE o == request[h].order
<1>1. o \in Orders /\ status[o] \in KeepsStock /\ status[o] \notin HoldsStock
    BY RestockTransition
<1>2. PICK t \in Statuses : /\ t \notin KeepsStock /\ t \notin HoldsStock
                            /\ status' = [status EXCEPT ![o] = t]
    BY RestockTransition
<1>3. /\ Cardinality(HeldUnits(v)) \in Nat
      /\ Cardinality(SoldUnits(v)) \in Nat
      /\ Cardinality(HeldUnits(v)') = Cardinality(HeldUnits(v)) + 0 - 0
      /\ Cardinality(SoldUnits(v)') = Cardinality(SoldUnits(v)) + 0 - Basket[o][v]
    BY <1>1, <1>2, HeldAndSoldCounts
<1>4. /\ reserved'[v] = reserved[v]
      /\ available'[v] = available[v] + Basket[o][v]
      /\ entered'[v] = entered[v]
    BY DEF MarkReturnedToOrigin, CancelOrder, RestockFinalizedSale
<1> QED
    BY <1>1, <1>3, <1>4, RowTypes DEF BooksBalance, RowBalances

\* The steps on the way to delivery keep an order's basket sold.
LEMMA FulfilKeepsBooks ==
    ASSUME TypeOK, BooksBalance, NEW h \in Handlers,
           StartProcessing(h) \/ MarkPacked(h) \/ ShipOrder(h) \/ DeliverOrder(h)
    PROVE  BooksBalance'
<1> SUFFICES ASSUME NEW v \in Variants PROVE RowBalances(v)'
    BY DEF BooksBalance
<1> DEFINE o == request[h].order
<1>1. /\ o \in Orders
      /\ status[o] \in KeepsStock /\ status[o] \notin HoldsStock
      /\ \E t \in Statuses : /\ t \in KeepsStock /\ t \notin HoldsStock
                             /\ status' = [status EXCEPT ![o] = t]
    <2>1. CASE StartProcessing(h)
        BY <2>1, WonTransition DEF StartProcessing, Operations, From, To, KeepsStock, HoldsStock, Statuses
    <2>2. CASE MarkPacked(h)
        BY <2>2, WonTransition DEF MarkPacked, Operations, From, To, KeepsStock, HoldsStock, Statuses
    <2>3. CASE ShipOrder(h)
        BY <2>3, WonTransition DEF ShipOrder, Operations, From, To, KeepsStock, HoldsStock, Statuses
    <2>4. CASE DeliverOrder(h)
        BY <2>4, WonTransition DEF DeliverOrder, Operations, From, To, KeepsStock, HoldsStock, Statuses
    <2> QED
        BY <2>1, <2>2, <2>3, <2>4
<1>2. PICK t \in Statuses : /\ t \in KeepsStock /\ t \notin HoldsStock
                            /\ status' = [status EXCEPT ![o] = t]
    BY <1>1
<1>3. /\ Cardinality(HeldUnits(v)) \in Nat
      /\ Cardinality(SoldUnits(v)) \in Nat
      /\ Cardinality(HeldUnits(v)') = Cardinality(HeldUnits(v)) + 0 - 0
      /\ Cardinality(SoldUnits(v)') = Cardinality(SoldUnits(v)) + Basket[o][v] - Basket[o][v]
    BY <1>1, <1>2, HeldAndSoldCounts
<1>4. UNCHANGED <<available, reserved, entered>>
    BY DEF StartProcessing, MarkPacked, ShipOrder, DeliverOrder, stock
<1> QED
    BY <1>1, <1>3, <1>4, RowTypes DEF BooksBalance, RowBalances

\* The stock invariant holds in every reachable state.
THEOREM BooksAlwaysBalance == Spec => []BooksBalance
<1>1. Init => BooksBalance
    <2> SUFFICES ASSUME Init, NEW v \in Variants PROVE RowBalances(v)
        BY DEF BooksBalance
    <2>1. \A u \in Units(v) : status[u[1]] = "NOT_PLACED"
        BY DEF Units, BasketUnits, Init
    <2>2. HeldUnits(v) = {} /\ SoldUnits(v) = {}
        BY <2>1 DEF HeldUnits, SoldUnits, UnitsIn, HoldsStock, KeepsStock
    <2>3. Cardinality(HeldUnits(v)) = 0 /\ Cardinality(SoldUnits(v)) = 0
        BY <2>2, FS_EmptySet
    <2>4. Opening[v] \in Nat
        BY OrdersAssumption
    <2> QED
        BY <2>3, <2>4 DEF Init, RowBalances
<1>2. TypeOK /\ BooksBalance /\ [Next]_vars => BooksBalance'
    <2> SUFFICES ASSUME TypeOK, BooksBalance, [Next]_vars
                 PROVE  BooksBalance'
        OBVIOUS
    <2>1. ASSUME UNCHANGED <<status, stock>>
          PROVE  BooksBalance'
        BY <2>1 DEF stock, BooksBalance, RowBalances, HeldUnits, SoldUnits, UnitsIn, Units, BasketUnits
    <2>2. ASSUME NEW o \in Orders, PlaceOrder(o)
          PROVE  BooksBalance'
        BY <2>2, PlaceOrderKeepsBooks
    <2>3. ASSUME NEW h \in Handlers, Commit(h)
          PROVE  BooksBalance'
        BY <2>3, ConfirmKeepsBooks, FailKeepsBooks, RestockKeepsBooks, FulfilKeepsBooks DEF Commit
    <2>4. ASSUME NEW h \in Handlers, LoseRace(h) \/ NotifyOrderEvent(h) \/ Crash(h)
          PROVE  BooksBalance'
        BY <2>1, <2>4 DEF LoseRace, NotifyOrderEvent, Crash
    <2>5. ASSUME NEW h \in Handlers, NEW op \in Operations, NEW o \in Orders, ReadOrder(h, op, o)
          PROVE  BooksBalance'
        BY <2>1, <2>5 DEF ReadOrder
    <2>6. ASSUME NEW v \in Variants, NEW d \in Deltas, AdjustQuantity(v, d)
          PROVE  BooksBalance'
        <3> SUFFICES ASSUME NEW w \in Variants PROVE RowBalances(w)'
            BY DEF BooksBalance
        <3>1. HeldUnits(w)' = HeldUnits(w) /\ SoldUnits(w)' = SoldUnits(w)
            BY <2>6 DEF AdjustQuantity, HeldUnits, SoldUnits, UnitsIn, Units, BasketUnits
        <3>2. /\ Cardinality(HeldUnits(w)) = reserved[w]
              /\ Cardinality(SoldUnits(w)) = entered[w] - available[w]
              /\ 0 <= reserved[w] /\ reserved[w] <= available[w]
            <4>1. Cardinality(SoldUnits(w)) \in Nat
                BY UnitsFinite, FS_Subset, FS_CardinalityType DEF SoldUnits, UnitsIn
            <4>2. reserved[w] \in Int /\ available[w] \in Int /\ entered[w] \in Int
                BY DEF TypeOK
            <4> QED
                BY <4>1, <4>2 DEF BooksBalance, RowBalances
        <3>3. d \in Int
            BY OrdersAssumption
        <3>4. reserved[w] \in Int /\ available[w] \in Int /\ entered[w] \in Int
            BY DEF TypeOK
        <3>5. /\ reserved'[w] = reserved[w]
              /\ available'[w] = IF w = v THEN available[w] + d ELSE available[w]
              /\ entered'[w] = IF w = v THEN entered[w] + d ELSE entered[w]
              /\ w = v => reserved[w] <= available[w] + d
            BY <2>6, <3>3, <3>4 DEF AdjustQuantity, TypeOK
        <3> QED
            BY <3>1, <3>2, <3>3, <3>4, <3>5 DEF RowBalances
    <2>7. CASE UNCHANGED vars
        BY <2>1, <2>7 DEF vars
    <2> QED
        BY <2>2, <2>3, <2>4, <2>5, <2>6, <2>7 DEF Next
<1> QED
    BY <1>1, <1>2, TypeCorrect, PTL DEF Spec

\* quantityReserved is exactly what unpaid orders hold, for any interleaving of
\* confirmations, failures, cancellations and crashes.
THEOREM ReservedCorrect == Spec => []ReservedIsWhatUnpaidOrdersHold
<1>1. BooksBalance => ReservedIsWhatUnpaidOrdersHold
    BY DEF BooksBalance, RowBalances, ReservedIsWhatUnpaidOrdersHold
<1> QED
    BY <1>1, BooksAlwaysBalance, PTL

\* quantityAvailable is what was entered in the books less what stays sold.
THEOREM AvailableCorrect == Spec => []AvailableIsWhatWasNotSold
<1>1. BooksBalance => AvailableIsWhatWasNotSold
    BY DEF BooksBalance, RowBalances, AvailableIsWhatWasNotSold
<1> QED
    BY <1>1, BooksAlwaysBalance, PTL

\* No variant is ever promised to more orders than it has units for.
THEOREM NothingOversold == Spec => []NeverOversold
<1>1. BooksBalance => NeverOversold
    BY DEF BooksBalance, RowBalances, NeverOversold
<1> QED
    BY <1>1, BooksAlwaysBalance, PTL

-----------------------------------------------------------------------------
(* The life cycle and the e-mails *)

\* The edges of the life cycle a winning commit can take.
LEMMA CommitEdge ==
    ASSUME TypeOK, NEW h \in Handlers, Commit(h)
    PROVE  \E o \in Orders, t \in Statuses :
              /\ status' = [status EXCEPT ![o] = t]
              /\ <<status[o], t>> \in Lifecycle
<1>1. ASSUME NEW op \in Operations, TransitionStatus(h, op)
      PROVE  \E o \in Orders, t \in Statuses :
                /\ status' = [status EXCEPT ![o] = t]
                /\ <<status[o], t>> \in Lifecycle
    <2>1. \A from \in From[op] : <<from, To[op]>> \in Lifecycle
        BY DEF Operations, From, To, Lifecycle
    <2> QED
        BY <1>1, <2>1, WonTransition
<1> QED
    BY <1>1
    DEF Commit, ConfirmOrder, MarkOrderPaymentFailed, StartProcessing, MarkPacked, ShipOrder,
        DeliverOrder, MarkReturnedToOrigin, CancelOrder, Operations, From

\* An order's status changes by a life-cycle edge or not at all.
LEMMA StepEdge ==
    ASSUME TypeOK, [Next]_vars
    PROVE  \/ UNCHANGED status
           \/ \E o \in Orders, t \in Statuses :
                 /\ status' = [status EXCEPT ![o] = t]
                 /\ <<status[o], t>> \in Lifecycle
<1>1. ASSUME NEW o \in Orders, PlaceOrder(o)
      PROVE  /\ status' = [status EXCEPT ![o] = "PENDING_PAYMENT"]
             /\ <<status[o], "PENDING_PAYMENT">> \in Lifecycle
    BY <1>1 DEF PlaceOrder, Lifecycle
<1>2. ASSUME \E h \in Handlers : LoseRace(h) \/ NotifyOrderEvent(h) \/ Crash(h)
      PROVE  UNCHANGED status
    BY <1>2 DEF LoseRace, NotifyOrderEvent, Crash
<1>3. ASSUME \E h \in Handlers, op \in Operations, o \in Orders : ReadOrder(h, op, o)
      PROVE  UNCHANGED status
    BY <1>3 DEF ReadOrder
<1>4. ASSUME \E v \in Variants, d \in Deltas : AdjustQuantity(v, d)
      PROVE  UNCHANGED status
    BY <1>4 DEF AdjustQuantity
<1>5. "PENDING_PAYMENT" \in Statuses
    BY DEF Statuses
<1> QED
    BY <1>1, <1>2, <1>3, <1>4, <1>5, CommitEdge DEF Next, vars

\* Whatever a handler had read, an order only moves along the state diagram.
THEOREM LifecycleRespected == Spec => MovesAlongLifecycle
<1>1. TypeOK /\ [Next]_vars =>
        [\A o \in Orders : status'[o] # status[o] => <<status[o], status'[o]>> \in Lifecycle]_vars
    <2> SUFFICES ASSUME TypeOK, [Next]_vars, NEW o \in Orders, status'[o] # status[o]
                 PROVE  <<status[o], status'[o]>> \in Lifecycle
        OBVIOUS
    <2> QED
        BY StepEdge DEF TypeOK
<1> QED
    BY <1>1, TypeCorrect, PTL DEF Spec, MovesAlongLifecycle

\* E-mails are about orders that got there, and so are those still to be sent.
MailIsSound ==
    /\ MailTellsTheTruth
    /\ mailed \subseteq {To[op] : op \in Announced} \X Orders
    /\ \A h \in Handlers : request[h] # Idle /\ request[h].pc = "committed" =>
          /\ request[h].op \in Announced
          /\ status[request[h].order] \in Reached(To[request[h].op])

\* What an e-mail said stays true: the statuses it covers are closed under the life cycle.
LEMMA ReachedIsClosed ==
    ASSUME NEW op \in Announced, NEW s \in Reached(To[op]), NEW t, <<s, t>> \in Lifecycle
    PROVE  t \in Reached(To[op])
BY DEF Announced, Operations, From, To, Reached, KeepsStock, Lifecycle

\* Reached covers the announced status itself.
LEMMA ReachedItself ==
    ASSUME NEW op \in Announced
    PROVE  To[op] \in Reached(To[op])
BY DEF Announced, Operations, From, To, Reached, KeepsStock

\* A step never takes an order out of what an e-mail about it said.
LEMMA ReachedIsKept ==
    ASSUME TypeOK, [Next]_vars, NEW op \in Announced, NEW o \in Orders,
           status[o] \in Reached(To[op])
    PROVE  status'[o] \in Reached(To[op])
<1>1. CASE UNCHANGED status
    BY <1>1
<1>2. ASSUME NEW p \in Orders, NEW t \in Statuses,
             status' = [status EXCEPT ![p] = t], <<status[p], t>> \in Lifecycle
      PROVE  status'[o] \in Reached(To[op])
    <2>1. CASE p = o
        BY <1>2, <2>1, ReachedIsClosed DEF TypeOK
    <2>2. CASE p # o
        BY <1>2, <2>2 DEF TypeOK
    <2> QED
        BY <2>1, <2>2
<1> QED
    BY <1>1, <1>2, StepEdge

\* A commit leaves a handler with something to announce only if it is true.
LEMMA CommitAnnouncesTruth ==
    ASSUME TypeOK, NEW h \in Handlers, NEW op \in Operations, TransitionStatus(h, op),
           request'[h] # Idle
    PROVE  /\ op \in Announced
           /\ request'[h].op = op
           /\ request'[h].order = request[h].order
           /\ status'[request[h].order] = To[op]
<1>1. request[h] \in Requests /\ request[h].op = op
    BY DEF TypeOK, TransitionStatus, InTx
<1>2. request' = [request EXCEPT ![h] =
                    IF op \in Announced THEN [@ EXCEPT !.pc = "committed"] ELSE Idle]
    BY DEF TransitionStatus
<1>3. op \in Announced /\ request'[h] = [request[h] EXCEPT !.pc = "committed"]
    BY <1>1, <1>2 DEF TypeOK
<1>4. status'[request[h].order] = To[op]
    BY WonTransition DEF TypeOK
<1> QED
    BY <1>1, <1>3, <1>4 DEF Requests

\* No handler that lost its race, and no crash, makes an e-mail say what did not happen.
THEOREM MailCorrect == Spec => []MailTellsTheTruth
<1>1. Init => MailIsSound
    BY DEF Init, MailIsSound, MailTellsTheTruth
<1>2. TypeOK /\ MailIsSound /\ [Next]_vars => MailIsSound'
    <2> SUFFICES ASSUME TypeOK, MailIsSound, [Next]_vars
                 PROVE  MailIsSound'
        OBVIOUS
    <2>1. ASSUME mailed' = mailed
          PROVE  MailTellsTheTruth' /\ (mailed \subseteq {To[op] : op \in Announced} \X Orders)'
        BY <2>1, ReachedIsKept DEF MailIsSound, MailTellsTheTruth
    <2>2. ASSUME NEW h \in Handlers, request'[h] = request[h], request[h] # Idle,
                 request[h].pc = "committed"
          PROVE  /\ request'[h].op \in Announced
                 /\ status'[request'[h].order] \in Reached(To[request'[h].op])
        <3>1. request[h].order \in Orders
            BY <2>2 DEF TypeOK, Requests
        <3> QED
            BY <2>2, <3>1, ReachedIsKept DEF MailIsSound
    <2>3. ASSUME NEW h \in Handlers, request' = [request EXCEPT ![h] = Idle], mailed' = mailed
          PROVE  MailIsSound'
        BY <2>1, <2>2, <2>3 DEF MailIsSound, TypeOK
    <2>4. ASSUME NEW h \in Handlers, Commit(h)
          PROVE  MailIsSound'
        <3>1. PICK op \in Operations : TransitionStatus(h, op)
            BY <2>4
            DEF Commit, ConfirmOrder, MarkOrderPaymentFailed, StartProcessing, MarkPacked,
                ShipOrder, DeliverOrder, MarkReturnedToOrigin, CancelOrder, Operations, From
        <3>2. mailed' = mailed /\ \A k \in Handlers \ {h} : request'[k] = request[k]
            BY <3>1 DEF TransitionStatus, TypeOK
        <3>3. request'[h] # Idle =>
                /\ request'[h].op \in Announced
                /\ status'[request'[h].order] \in Reached(To[request'[h].op])
            BY <3>1, CommitAnnouncesTruth, ReachedItself
        <3> QED
            BY <2>1, <2>2, <3>2, <3>3 DEF MailIsSound
    <2>5. ASSUME NEW h \in Handlers, NotifyOrderEvent(h)
          PROVE  MailIsSound'
        <3>1. /\ request[h] \in Requests
              /\ request[h].op \in Announced
              /\ status[request[h].order] \in Reached(To[request[h].op])
            BY <2>5 DEF NotifyOrderEvent, MailIsSound, TypeOK
        <3>2. request[h].order \in Orders /\ UNCHANGED status
            BY <2>5, <3>1 DEF NotifyOrderEvent, Requests
        <3>3. mailed' \subseteq {To[op] : op \in Announced} \X Orders
            BY <2>5, <3>1, <3>2 DEF NotifyOrderEvent, MailIsSound
        <3>4. MailTellsTheTruth'
            BY <2>5, <3>1, <3>2 DEF NotifyOrderEvent, MailIsSound, MailTellsTheTruth
        <3>5. \A k \in Handlers : request'[k] # Idle => request'[k] = request[k]
            BY <2>5 DEF NotifyOrderEvent, TypeOK
        <3> QED
            BY <2>2, <3>3, <3>4, <3>5 DEF MailIsSound
    <2>6. ASSUME NEW h \in Handlers, NEW op \in Operations, NEW o \in Orders, ReadOrder(h, op, o)
          PROVE  MailIsSound'
        <3>1. \A k \in Handlers : request'[k] # request[k] => request'[k].pc = "tx"
            BY <2>6 DEF ReadOrder, TypeOK
        <3> QED
            BY <2>1, <2>2, <2>6, <3>1 DEF ReadOrder, MailIsSound
    <2>7. ASSUME request' = request, mailed' = mailed
          PROVE  MailIsSound'
        BY <2>1, <2>2, <2>7 DEF MailIsSound
    <2> QED
        BY <2>3, <2>4, <2>5, <2>6, <2>7
        DEF Next, vars, PlaceOrder, LoseRace, Crash, AdjustQuantity
<1> QED
    <2>1. MailIsSound => MailTellsTheTruth
        BY DEF MailIsSound
    <2> QED
        BY <1>1, <1>2, <2>1, TypeCorrect, PTL DEF Spec

-----------------------------------------------------------------------------
(* Orders implements StockLedger *)

\* One order's units leave the shelf when it reserves them.
LEMMA PlaceOrderIsHold ==
    ASSUME TypeOK, NEW o \in Orders, PlaceOrder(o)
    PROVE  Ledger!Hold(o)
<1>1. /\ status[o] = "NOT_PLACED"
      /\ status' = [status EXCEPT ![o] = "PENDING_PAYMENT"]
    BY DEF PlaceOrder
<1>2. [p \in Orders |-> Claim(status'[p])] =
        [[p \in Orders |-> Claim(status[p])] EXCEPT ![o] = "held"]
    BY <1>1 DEF TypeOK, Claim, HoldsStock, KeepsStock
<1>3. \A v \in Variants : /\ Basket[o][v] <= available[v] - reserved[v]
                          /\ available'[v] - reserved'[v] = available[v] - reserved[v] - Basket[o][v]
    BY RowTypes DEF PlaceOrder, ReserveForCheckout
<1> QED
    BY <1>1, <1>2, <1>3 DEF Ledger!Hold, Claim, HoldsStock, KeepsStock

\* A winning commit sells the hold, gives a claim back, or leaves the claim alone.
LEMMA CommitIsLedgerStep ==
    ASSUME TypeOK, BooksBalance, NEW h \in Handlers, Commit(h)
    PROVE  \/ \E o \in Orders : Ledger!Sell(o) \/ Ledger!GiveBack(o)
           \/ UNCHANGED Ledger!vars
<1>0. PICK o \in Orders : o = request[h].order
    BY DEF TypeOK, Requests, Commit, ConfirmOrder, MarkOrderPaymentFailed, StartProcessing, MarkPacked,
        ShipOrder, DeliverOrder, MarkReturnedToOrigin, CancelOrder, TransitionStatus, InTx
<1>1. CASE ConfirmOrder(h)
    <2>1. /\ o \in Orders
          /\ status[o] = "PENDING_PAYMENT"
          /\ status' = [status EXCEPT ![o] = "CONFIRMED"]
        BY <1>0, <1>1, WonTransition DEF ConfirmOrder, Operations, From, To
    <2>2. [p \in Orders |-> Claim(status'[p])] =
            [[p \in Orders |-> Claim(status[p])] EXCEPT ![o] = "sold"]
        BY <2>1 DEF TypeOK, Claim, HoldsStock, KeepsStock
    <2>3. \A v \in Variants : available'[v] - reserved'[v] = available[v] - reserved[v]
        BY <1>0, <1>1, <2>1, RowTypes DEF ConfirmOrder, FinalizeReservation, Lesser
    <2>4. Ledger!Sell(o)
        BY <2>1, <2>2, <2>3 DEF Ledger!Sell, Claim, HoldsStock, KeepsStock
    <2> QED
        BY <2>1, <2>4
<1>2. CASE MarkOrderPaymentFailed(h)
    <2>1. /\ o \in Orders
          /\ status[o] = "PENDING_PAYMENT"
          /\ status' = [status EXCEPT ![o] = "PAYMENT_FAILED"]
        BY <1>0, <1>2, WonTransition DEF MarkOrderPaymentFailed, Operations, From, To
    <2>2. [p \in Orders |-> Claim(status'[p])] =
            [[p \in Orders |-> Claim(status[p])] EXCEPT ![o] = "returned"]
        BY <2>1 DEF TypeOK, Claim, HoldsStock, KeepsStock
    <2>3. ASSUME NEW v \in Variants
          PROVE  available'[v] - reserved'[v] = available[v] - reserved[v] + Basket[o][v]
        <3>1. /\ Basket[o][v] <= Cardinality(HeldUnits(v))
              /\ reserved[v] = Cardinality(HeldUnits(v))
            BY <2>1, HeldAndSoldCounts DEF HoldsStock, Statuses, BooksBalance, RowBalances
        <3>2. Lesser(reserved[v], Basket[o][v]) = Basket[o][v]
            BY <2>1, <3>1, RowTypes DEF Lesser
        <3>3. reserved'[v] = reserved[v] - Basket[o][v] /\ available'[v] = available[v]
            BY <1>0, <1>2, <3>2 DEF MarkOrderPaymentFailed, ReleaseReservation
        <3> QED
            BY <2>1, <3>3, RowTypes
    <2>4. Ledger!GiveBack(o)
        BY <2>1, <2>2, <2>3 DEF Ledger!GiveBack, Claim, HoldsStock, KeepsStock
    <2> QED
        BY <2>1, <2>4
<1>3. CASE MarkReturnedToOrigin(h) \/ CancelOrder(h)
    <2>1. o \in Orders /\ status[o] \in KeepsStock /\ status[o] \notin HoldsStock
        BY <1>0, <1>3, RestockTransition
    <2>2. PICK t \in {"RETURNED_TO_ORIGIN", "CANCELLED"} : status' = [status EXCEPT ![o] = t]
        BY <1>0, <1>3, WonTransition DEF MarkReturnedToOrigin, CancelOrder, Operations, From, To
    <2>3. [p \in Orders |-> Claim(status'[p])] =
            [[p \in Orders |-> Claim(status[p])] EXCEPT ![o] = "returned"]
        BY <2>1, <2>2 DEF TypeOK, Claim, HoldsStock, KeepsStock
    <2>4. \A v \in Variants : available'[v] - reserved'[v] = available[v] - reserved[v] + Basket[o][v]
        BY <1>0, <1>3, <2>1, RowTypes DEF MarkReturnedToOrigin, CancelOrder, RestockFinalizedSale
    <2>5. Ledger!GiveBack(o)
        BY <2>1, <2>3, <2>4 DEF Ledger!GiveBack, Claim, KeepsStock, HoldsStock
    <2> QED
        BY <2>1, <2>5
<1>4. CASE StartProcessing(h) \/ MarkPacked(h) \/ ShipOrder(h) \/ DeliverOrder(h)
    <2>1. PICK p \in Orders, t \in Statuses :
            /\ status' = [status EXCEPT ![p] = t]
            /\ status[p] \in KeepsStock /\ t \in KeepsStock
        BY <1>4, WonTransition
        DEF StartProcessing, MarkPacked, ShipOrder, DeliverOrder, Operations, From, To, KeepsStock
    <2>2. [q \in Orders |-> Claim(status'[q])] = [q \in Orders |-> Claim(status[q])]
        BY <2>1 DEF TypeOK, Claim, HoldsStock, KeepsStock
    <2>3. UNCHANGED stock
        BY <1>4 DEF StartProcessing, MarkPacked, ShipOrder, DeliverOrder
    <2> QED
        BY <2>2, <2>3 DEF stock, Ledger!vars
<1> QED
    BY <1>1, <1>2, <1>3, <1>4 DEF Commit

\* A stock count changes one row's shelf and no claim.
LEMMA AdjustIsRecount ==
    ASSUME TypeOK, BooksBalance, NEW v \in Variants, NEW d \in Deltas, AdjustQuantity(v, d)
    PROVE  Ledger!Recount(v)
<1>1. d \in Int
    BY OrdersAssumption
<1>2. ASSUME NEW w \in Variants
      PROVE  /\ available'[w] - reserved'[w] \in Nat
             /\ w # v => available'[w] - reserved'[w] = available[w] - reserved[w]
    <2>1. /\ reserved[w] \in Int /\ available[w] \in Int
          /\ reserved[w] <= available[w]
        BY DEF TypeOK, BooksBalance, RowBalances
    <2>2. /\ reserved'[w] = reserved[w]
          /\ available'[w] = IF w = v THEN available[w] + d ELSE available[w]
          /\ w = v => reserved[w] <= available[w] + d
        BY <1>1, <2>1 DEF AdjustQuantity, TypeOK
    <2> QED
        BY <1>1, <2>1, <2>2
<1>3. UNCHANGED [o \in Orders |-> Claim(status[o])]
    BY DEF AdjustQuantity
<1> QED
    BY <1>2, <1>3 DEF Ledger!Recount

\* The orders and the inventory rows together implement the abstract ledger:
\* initial states map to initial states and every step to a step or a stutter.
THEOREM LedgerImplemented == Spec => ImplementsLedger
<1>1. Init => Ledger!Init
    <2> SUFFICES ASSUME Init PROVE Ledger!Init
        OBVIOUS
    <2>1. \A v \in Variants : available[v] - reserved[v] \in Nat
        BY OrdersAssumption DEF Init
    <2>2. [o \in Orders |-> Claim(status[o])] = [o \in Orders |-> "none"]
        <3>1. \A o \in Orders : status[o] = "NOT_PLACED"
            BY DEF Init
        <3> QED
            BY <3>1 DEF Claim, HoldsStock, KeepsStock
    <2> QED
        BY <2>1, <2>2 DEF Ledger!Init
<1>2. TypeOK /\ BooksBalance /\ [Next]_vars => [Ledger!Next]_(Ledger!vars)
    <2> SUFFICES ASSUME TypeOK, BooksBalance, [Next]_vars
                 PROVE  [Ledger!Next]_(Ledger!vars)
        OBVIOUS
    <2>1. ASSUME UNCHANGED <<status, stock>>
          PROVE  UNCHANGED Ledger!vars
        BY <2>1 DEF stock, Ledger!vars
    <2>2. ASSUME NEW o \in Orders, PlaceOrder(o)
          PROVE  Ledger!Next
        BY <2>2, PlaceOrderIsHold DEF Ledger!Next
    <2>3. ASSUME NEW h \in Handlers, Commit(h)
          PROVE  [Ledger!Next]_(Ledger!vars)
        BY <2>3, CommitIsLedgerStep DEF Ledger!Next
    <2>4. ASSUME NEW h \in Handlers, LoseRace(h) \/ NotifyOrderEvent(h) \/ Crash(h)
          PROVE  UNCHANGED Ledger!vars
        BY <2>1, <2>4 DEF LoseRace, NotifyOrderEvent, Crash
    <2>5. ASSUME NEW h \in Handlers, NEW op \in Operations, NEW o \in Orders, ReadOrder(h, op, o)
          PROVE  UNCHANGED Ledger!vars
        BY <2>1, <2>5 DEF ReadOrder
    <2>6. ASSUME NEW v \in Variants, NEW d \in Deltas, AdjustQuantity(v, d)
          PROVE  Ledger!Next
        BY <2>6, AdjustIsRecount DEF Ledger!Next
    <2>7. CASE UNCHANGED vars
        BY <2>1, <2>7 DEF vars
    <2> QED
        BY <2>2, <2>3, <2>4, <2>5, <2>6, <2>7 DEF Next
<1> QED
    BY <1>1, <1>2, TypeCorrect, BooksAlwaysBalance, PTL DEF Spec, ImplementsLedger, Ledger!Spec

-----------------------------------------------------------------------------
(* Payments implements Orders                                                *)


\* A handler that dies forgets its request, if it had one.
LEMMA CrashIsOrdersStep ==
    ASSUME TypeOK, NEW h \in Handlers, HandlerCrashes(h)
    PROVE  [Next]_vars
<1>1. CASE request[h] = Idle
    <2>1. request' = request
        BY <1>1 DEF HandlerCrashes, TypeOK
    <2> QED
        BY <2>1 DEF HandlerCrashes, vars, stock
<1>2. CASE request[h] # Idle
    BY <1>2 DEF HandlerCrashes, Crash, Next, stock
<1> QED
    BY <1>1, <1>2

\* What a handler does on its own is a step of Orders or none.
LEMMA WorkIsOrdersStep ==
    ASSUME NEW h \in Handlers, Work(h)
    PROVE  [Next]_vars
<1>1. CASE \/ \E g \in GatewayOrders : GatewayCreatesOrder(h, g)
           \/ InsertPayment(h) \/ DeferToWinner(h)
           \/ NothingToApply(h) \/ AcknowledgeWebhook(h)
           \/ CollectCash(h) \/ DecideRefund(h) \/ GatewayRefunds(h) \/ RecordRefund(h)
           \/ RecordRefundFailure(h) \/ MarkPaymentRefunded(h) \/ FinishCancellation(h)
    BY <1>1
    DEF GatewayCreatesOrder, InsertPayment, DeferToWinner, NothingToApply, AcknowledgeWebhook,
        CollectCash, DecideRefund, GatewayRefunds, RecordRefund, RecordRefundFailure,
        MarkPaymentRefunded, FinishCancellation
<1>2. CASE \E o \in Orders : ReadWebhookOrder(h, o)
    <2>1. PICK o \in Orders : ReadOrder(h, OpFor(task[h].event), o)
        BY <1>2 DEF ReadWebhookOrder
    <2>2. OpFor(task[h].event) \in Operations
        BY DEF OpFor, Operations, From
    <2> QED
        BY <2>1, <2>2 DEF Next
<1>3. CASE \/ ConfirmCodOrder(h) \/ ApplyCapture(h) \/ ApplyFailure(h)
           \/ StaffMovesOrder(h) \/ StaffDeliversOrder(h) \/ StaffCancelsOrder(h)
    <2>1. Commit(h)
        BY <1>3
        DEF ConfirmCodOrder, ApplyCapture, ApplyFailure, StaffMovesOrder, StaffDeliversOrder,
            StaffCancelsOrder, Commit
    <2> QED
        BY <2>1 DEF Next
<1>4. CASE HandlerLosesRace(h) \/ HandlerNotifies(h)
    BY <1>4 DEF HandlerLosesRace, HandlerNotifies, Next
<1> QED
    BY <1>1, <1>2, <1>3, <1>4 DEF Work

\* Every step of Payments is a step of Orders or changes nothing it knows of.
LEMMA PayStepIsOrdersStep ==
    ASSUME TypeOK, [PayNext]_payVars
    PROVE  [Next]_vars
<1>1. ASSUME NEW o \in Orders, CustomerPlacesOrder(o)
      PROVE  [Next]_vars
    BY <1>1 DEF CustomerPlacesOrder, Next
<1>2. ASSUME NEW g \in GatewayOrders, CustomerPays(g) \/ AttemptFails(g)
      PROVE  [Next]_vars
    BY <1>2 DEF CustomerPays, AttemptFails
<1>3. ASSUME NEW h \in Handlers, NEW o \in Orders,
             ReuseRazorpayOrder(h, o) \/ StartRazorpayOrder(h, o)
      PROVE  [Next]_vars
    BY <1>3 DEF ReuseRazorpayOrder, StartRazorpayOrder
<1>4. ASSUME NEW h \in Handlers, NEW o \in Orders, ReadCodOrder(h, o)
      PROVE  [Next]_vars
    BY <1>4 DEF ReadCodOrder, Next, Operations, From
<1>5. ASSUME NEW h \in Handlers, NEW e \in Events, ReceiveWebhook(h, e)
      PROVE  [Next]_vars
    BY <1>5 DEF ReceiveWebhook
<1>6. ASSUME NEW h \in Handlers, NEW op \in StaffOperations, NEW o \in Orders,
             StaffReadsOrder(h, op, o)
      PROVE  [Next]_vars
    BY <1>6 DEF StaffReadsOrder, StaffOperations, Next
<1>7. ASSUME NEW v \in Variants, NEW d \in Deltas, StaffAdjustsStock(v, d)
      PROVE  [Next]_vars
    BY <1>7 DEF StaffAdjustsStock, Next
<1>8. CASE UNCHANGED payVars
    BY <1>8 DEF payVars
<1> QED
    BY <1>1, <1>2, <1>3, <1>4, <1>5, <1>6, <1>7, <1>8, WorkIsOrdersStep, CrashIsOrdersStep
    DEF PayNext

\* Payments refines Orders: its orders and stock behave as Orders says.
THEOREM PaymentsImplementOrders == PaySpec => Spec
<1>1. PayInit => Init
    BY DEF PayInit
<1>2. Init => TypeOK
    BY OrdersAssumption DEF Init, TypeOK, Statuses, Idle
<1> QED
    BY <1>1, <1>2, TypeKept, PayStepIsOrdersStep, PTL DEF PaySpec, Spec

\* So the stock promise holds with webhooks, cash and refunds in play.
THEOREM PaymentsImplementLedger == PaySpec => ImplementsLedger
BY PaymentsImplementOrders, LedgerImplemented

\* And no payment, refund or retry takes an order off its life cycle.
THEOREM PaymentsRespectLifecycle == PaySpec => MovesAlongLifecycle
BY PaymentsImplementOrders, LifecycleRespected

-----------------------------------------------------------------------------
(* The money: the inductive invariant of the payment rows, the events and    *)
(* the tasks.                                                                *)

RefundSteps == {"decide", "gateway", "record", "recordFailure", "markRefunded", "done"}
PayTasks ==
    [kind : {"pay"}, order : Orders, pc : {"gateway"}]
      \cup [kind : {"pay"}, order : Orders, pc : {"insert"}, created : GatewayOrders]
HookTasks == [kind : {"webhook"}, event : Events, pc : {"lookup", "ack"}]
CollectTasks == [kind : {"collect"}, order : Orders, pc : {"collect"}]
RefundTasks == [kind : {"refund"}, order : Orders, pc : RefundSteps]
Tasks == {NoTask} \cup PayTasks \cup HookTasks \cup CollectTasks \cup RefundTasks

Typed == TypeOK /\ PayTypeOK /\ task \in [Handlers -> Tasks]

Online(o) == method[o] \in OnlineMethods

\* A row is of its order's method; Razorpay's order on it was created for it.
RowOf(o) ==
    /\ HasPayment(o) =>
         /\ payment[o].provider = Provider(o)
         /\ Online(o) => /\ payment[o].razorpayOrder \in GatewayOrders
                         /\ gatewayOrder[payment[o].razorpayOrder] = o
         /\ ~Online(o) => /\ payment[o].razorpayOrder = NoGatewayOrder
                          /\ ~payment[o].razorpayPayment
         /\ status[o] # "NOT_PLACED"
    /\ ~HasPayment(o) => status[o] \in {"NOT_PLACED", "PENDING_PAYMENT"}
Recorded == \A o \in Orders : RowOf(o)

\* What Razorpay has to tell is about an order that a customer was shown.
WorldIsShown ==
    \A g \in GatewayOrders : money[g] # "none" \/ g \in failedAttempt =>
        \E o \in Orders : g \in shown[o]

Applied(e) == AmountMatches(e) => \A o \in PaidBy(e[1]) : status[o] # "PENDING_PAYMENT"
EventsTold ==
    \A e \in Events : /\ eventRow[e] # "absent" => Emitted(e)
                      /\ eventRow[e] = "processed" => Applied(e)

RefundOf(o) ==
    /\ refundRow[o] = "COMPLETED" =>
         HasPayment(o) /\ Online(o) /\ money[payment[o].razorpayOrder] = "refunded"
    /\ o \in refundMailed => refundRow[o] = "COMPLETED"
    /\ HasPayment(o) /\ payment[o].status = "REFUNDED" => refundRow[o] = "COMPLETED"
    /\ HasPayment(o) /\ Online(o) /\ money[payment[o].razorpayOrder] = "refunded" =>
         status[o] = "CANCELLED"
RefundsTold == \A o \in Orders : RefundOf(o)

\* What a handler with the request q and the task t relies on.
Serving(q, t) ==
    /\ t.kind = "none" /\ q # Idle =>
         q.op \in StaffOperations \/ (q.op = "confirm" /\ method[q.order] = "COD")
    /\ t.kind = "pay" =>
         /\ q = Idle /\ Online(t.order) /\ status[t.order] # "NOT_PLACED"
         /\ t.pc = "insert" => gatewayOrder[t.created] = t.order
    /\ t.kind = "webhook" =>
         /\ Emitted(t.event)
         /\ q = Idle /\ t.pc = "ack" => Applied(t.event)
         /\ q # Idle =>
              /\ t.pc = "ack" /\ q.order \in PaidBy(t.event[1]) /\ q.op = OpFor(t.event)
              /\ AmountMatches(t.event)
              /\ q.pc = "committed" => status[q.order] # "PENDING_PAYMENT"
    /\ t.kind = "collect" =>
         status[t.order] = "DELIVERED" /\ (q # Idle => q.pc = "committed")
    /\ t.kind = "refund" =>
         /\ status[t.order] = "CANCELLED" /\ (q # Idle => q.pc = "committed")
         /\ t.pc \in {"gateway", "record", "recordFailure"} => refundRow[t.order] = "NONE"
         /\ t.pc \in {"gateway", "record", "recordFailure", "markRefunded"} =>
              HasPayment(t.order) /\ Online(t.order)
         /\ t.pc = "record" => money[payment[t.order].razorpayOrder] = "refunded"
         /\ t.pc = "markRefunded" => refundRow[t.order] = "COMPLETED"
Served == \A h \in Handlers : Serving(request[h], task[h])

\* An order is cancelled once, so one handler at most refunds it.
Refunds(h, o) == task[h].kind = "refund" /\ task[h].order = o
OneRefunder ==
    \A g, h \in Handlers, o \in Orders : Refunds(g, o) /\ Refunds(h, o) => g = h

MoneyInv ==
    /\ Typed
    /\ Recorded /\ WorldIsShown /\ EventsTold /\ RefundsTold /\ Served /\ OneRefunder
    /\ OnlyRecordedOrderIsShown /\ PaymentAgreesWithOrder /\ ConfirmedOnlineIsPaid


\* The part of the invariant that speaks of orders, rows and Razorpay.
Rows ==
    /\ Recorded /\ WorldIsShown /\ RefundsTold
    /\ OnlyRecordedOrderIsShown /\ PaymentAgreesWithOrder /\ ConfirmedOnlineIsPaid

\* What no step takes back: an order's way, a row's Razorpay order, an event.
Grows ==
    /\ method' = method
    /\ \A o \in Orders :
         /\ status[o] # "NOT_PLACED" => status'[o] # "NOT_PLACED"
         /\ status[o] \notin {"NOT_PLACED", "PENDING_PAYMENT"} => status'[o] # "PENDING_PAYMENT"
         /\ status[o] \in {"DELIVERED", "CANCELLED"} => status'[o] = status[o]
         /\ HasPayment(o) => /\ HasPayment(o)'
                             /\ payment'[o].razorpayOrder = payment[o].razorpayOrder
    /\ \A g \in GatewayOrders :
         /\ gatewayOrder[g] \in Orders => gatewayOrder'[g] = gatewayOrder[g]
         /\ money[g] = "refunded" => money'[g] = "refunded"
    /\ \A e \in Events : Emitted(e) =>
         /\ Emitted(e)'
         /\ AmountMatches(e)' => AmountMatches(e)
         /\ AmountMatches(e) => AmountMatches(e)'
         /\ PaidBy(e[1])' = PaidBy(e[1])

\* The handlers other than h do not notice: their request and task are as they
\* were, and so is the Refund row of an order they refund.
Others(h) == \A k \in Handlers \ {h} :
    /\ request'[k] = request[k] /\ task'[k] = task[k]
    /\ task[k].kind = "refund" => refundRow'[task[k].order] = refundRow[task[k].order]

\* What the fields of each kind of task are.
LEMMA TaskShape ==
    ASSUME Typed, NEW h \in Handlers
    PROVE  /\ task[h].kind = "none" => task[h] = NoTask
           /\ task[h].kind = "pay" =>
                /\ task[h].order \in Orders /\ task[h].pc \in {"gateway", "insert"}
                /\ task[h].pc = "insert" => task[h].created \in GatewayOrders
           /\ task[h].kind = "webhook" =>
                task[h].event \in Events /\ task[h] \in HookTasks
           /\ task[h].kind = "collect" =>
                task[h].order \in Orders /\ task[h] \in CollectTasks
           /\ task[h].kind = "refund" =>
                task[h].order \in Orders /\ task[h] \in RefundTasks
<1>1. task[h] \in Tasks
    BY DEF Typed
<1>2. CASE task[h] = NoTask
    BY <1>2 DEF NoTask
<1>3. CASE task[h] \in PayTasks
    BY <1>3 DEF PayTasks
<1>4. CASE task[h] \in HookTasks
    BY <1>4 DEF HookTasks
<1>5. CASE task[h] \in CollectTasks
    BY <1>5 DEF CollectTasks
<1>6. CASE task[h] \in RefundTasks
    BY <1>6 DEF RefundTasks
<1> QED
    BY <1>1, <1>2, <1>3, <1>4, <1>5, <1>6 DEF Tasks

\* A handler that others leave alone still has what it relies on.
LEMMA HandlerUnmoved ==
    ASSUME Typed, Recorded, Grows, NEW k \in Handlers, Serving(request[k], task[k]),
           request'[k] = request[k], task'[k] = task[k],
           task[k].kind = "refund" => refundRow'[task[k].order] = refundRow[task[k].order]
    PROVE  Serving(request[k], task[k])'
<1>1. task[k] \in Tasks /\ request[k] \in {Idle} \cup Requests
    BY DEF Typed, TypeOK
<1>2. CASE task[k].kind = "none"
    BY <1>2 DEF Serving, Grows
<1>3. CASE task[k].kind = "pay"
    BY <1>3, TaskShape DEF Serving, Grows, Online
<1>4. CASE task[k].kind = "webhook"
    <2>1. task[k].event \in Events /\ Emitted(task[k].event)
        BY <1>4, TaskShape DEF Serving
    <2>2. Applied(task[k].event) => Applied(task[k].event)'
        <3>1. \A o \in PaidBy(task[k].event[1]) : status[o] # "NOT_PLACED"
            BY DEF PaidBy, Recorded, RowOf
        <3> QED
            BY <2>1, <3>1 DEF Applied, Grows, PaidBy
    <2>3. request[k] # Idle => request[k].order \in Orders
        BY <1>1 DEF Requests
    <2>4. \A o \in PaidBy(task[k].event[1]) : status[o] # "NOT_PLACED"
        BY DEF PaidBy, Recorded, RowOf
    <2> QED
        BY <1>4, <2>1, <2>2, <2>3, <2>4 DEF Serving, Grows
<1>5. CASE task[k].kind = "collect"
    BY <1>5, TaskShape DEF Serving, Grows
<1>6. CASE task[k].kind = "refund"
    <2>1. task[k].order \in Orders
        BY <1>6, TaskShape
    <2>2. HasPayment(task[k].order) /\ Online(task[k].order) =>
            payment[task[k].order].razorpayOrder \in GatewayOrders
        BY <2>1 DEF Recorded, RowOf
    <2> QED
        BY <1>6, <2>1, <2>2 DEF Serving, Grows, Online
<1> QED
    BY <1>1, <1>2, <1>3, <1>4, <1>5, <1>6 DEF Tasks, NoTask, PayTasks, HookTasks, CollectTasks, RefundTasks

\* A step of h that leaves the others alone and h with what it relies on serves all.
LEMMA ServedKept ==
    ASSUME Typed, Recorded, Served, Grows, NEW h \in Handlers, Others(h),
           Serving(request[h], task[h])'
    PROVE  Served'
<1> SUFFICES ASSUME NEW k \in Handlers PROVE Serving(request[k], task[k])'
    BY DEF Served
<1>1. CASE k = h
    BY <1>1
<1>2. CASE k # h
    BY <1>2, HandlerUnmoved DEF Others, Served
<1> QED
    BY <1>1, <1>2

\* A step that begins no refund leaves each order to the one that refunds it.
LEMMA OneRefunderKept ==
    ASSUME OneRefunder, NEW h \in Handlers, Others(h),
           task'[h].kind = "refund" => task[h].kind = "refund" /\ task'[h].order = task[h].order
    PROVE  OneRefunder'
BY DEF OneRefunder, Others, Refunds

\* An event stays emitted and applied; what a step acknowledges must have been applied.
LEMMA EventsKept ==
    ASSUME Typed, Recorded, EventsTold, Grows, NEW e \in Events,
           eventRow'[e] # eventRow[e] =>
              Emitted(e) /\ (eventRow'[e] = "processed" => Applied(e))
    PROVE  /\ eventRow'[e] # "absent" => Emitted(e)'
           /\ eventRow'[e] = "processed" => Applied(e)'
<1>1. \A o \in PaidBy(e[1]) : status[o] # "NOT_PLACED"
    BY DEF PaidBy, Recorded, RowOf
<1>2. Emitted(e) /\ Applied(e) => Applied(e)'
    BY <1>1 DEF Applied, Grows, PaidBy
<1> QED
    BY <1>2 DEF EventsTold, Grows

\* Steps that change nothing but orders and stock.
OrdersOnly == UNCHANGED <<payRows, task, gateway, crashes>>

\* The kinds of the tasks.
LEMMA TaskTypes ==
    ASSUME NEW t \in Tasks
    PROVE  t.kind \in {"none", "pay", "webhook", "collect", "refund"}
BY DEF Tasks, NoTask, PayTasks, HookTasks, CollectTasks, RefundTasks

\* A task moved on to its next step, or done with, is a task.
LEMMA TaskMoves ==
    ASSUME Typed, NEW h \in Handlers
    PROVE  /\ [task EXCEPT ![h] = NoTask] \in [Handlers -> Tasks]
           /\ task[h].kind = "webhook" => [task EXCEPT ![h].pc = "ack"] \in [Handlers -> Tasks]
           /\ task[h].kind = "refund" =>
                \A s \in RefundSteps : [task EXCEPT ![h].pc = s] \in [Handlers -> Tasks]
<1>0. task \in [Handlers -> Tasks]
    BY DEF Typed
<1>1. NoTask \in Tasks
    BY DEF Tasks
<1>2. ASSUME task[h].kind = "webhook" PROVE [task[h] EXCEPT !.pc = "ack"] \in Tasks
    BY <1>2, TaskShape DEF Tasks, HookTasks
<1>3. ASSUME task[h].kind = "refund", NEW s \in RefundSteps
      PROVE  [task[h] EXCEPT !.pc = s] \in Tasks
    BY <1>3, TaskShape DEF Tasks, RefundTasks
<1> QED
    BY <1>0, <1>1, <1>2, <1>3

\* The Razorpay order on the row of an order paid online is one of Razorpay's.
LEMMA RowShape ==
    ASSUME MoneyInv, NEW o \in Orders, HasPayment(o)
    PROVE  /\ payment[o] \in PaymentRows
           /\ Online(o) => payment[o].razorpayOrder \in GatewayOrders
<1>1. payment[o] \in PaymentRows
    BY DEF MoneyInv, Typed, PayTypeOK, HasPayment
<1> QED
    BY <1>1 DEF MoneyInv, Recorded, RowOf

\* Every step keeps the types of rows, events, refunds and tasks.
LEMMA PayTypesKept ==
    ASSUME MoneyInv, PayNext
    PROVE  PayTypeOK' /\ task' \in [Handlers -> Tasks]
<1> DEFINE Goal == PayTypeOK' /\ task' \in [Handlers -> Tasks]
<1>t. Typed
    BY DEF MoneyInv
<1>k. task' \in [Handlers -> Tasks] =>
        \A h \in Handlers : task'[h].kind \in {"none", "pay", "webhook", "collect", "refund"}
    BY TaskTypes
<1> USE DEF PayTypeOK
<1>0. TypeOK /\ PayTypeOK /\ task \in [Handlers -> Tasks]
    BY <1>t DEF Typed
<1>1. CASE OrdersOnly
    BY <1>0, <1>1, <1>k DEF OrdersOnly, payRows, gateway
<1>2. ASSUME NEW g \in GatewayOrders, CustomerPays(g) \/ AttemptFails(g)
      PROVE  Goal
    BY <1>0, <1>2, <1>k DEF CustomerPays, AttemptFails, payRows
<1>3. ASSUME NEW h \in Handlers, NEW o \in Orders, ReuseRazorpayOrder(h, o)
      PROVE  Goal
    <2>1. payment[o].razorpayOrder \in GatewayOrders
        BY <1>3, RowShape DEF ReuseRazorpayOrder, Online
    <2> QED
        BY <1>0, <1>3, <1>k, <2>1 DEF ReuseRazorpayOrder, payRows
<1>4. ASSUME NEW h \in Handlers, NEW o \in Orders, StartRazorpayOrder(h, o)
      PROVE  Goal
    <2>1. [kind |-> "pay", order |-> o, pc |-> "gateway"] \in Tasks
        BY DEF Tasks, PayTasks
    <2> QED
        BY <1>0, <1>4, <1>k, <2>1 DEF StartRazorpayOrder, payRows, gateway
<1>5. ASSUME NEW h \in Handlers, NEW g \in GatewayOrders, GatewayCreatesOrder(h, g)
      PROVE  Goal
    <2>1. task[h].order \in Orders
        BY <1>t, <1>5, TaskShape DEF GatewayCreatesOrder, Doing
    <2>2. [kind |-> "pay", order |-> task[h].order, pc |-> "insert", created |-> g] \in Tasks
        BY <2>1 DEF Tasks, PayTasks
    <2> QED
        BY <1>0, <1>5, <1>k, <2>1, <2>2 DEF GatewayCreatesOrder, payRows
<1>6. ASSUME NEW h \in Handlers, InsertPayment(h)
      PROVE  Goal
    <2>1. task[h].order \in Orders /\ task[h].created \in GatewayOrders
        BY <1>t, <1>6, TaskShape DEF InsertPayment, Doing
    <2>2. [provider |-> Provider(task[h].order), status |-> "CREATED",
           razorpayOrder |-> task[h].created, razorpayPayment |-> FALSE] \in PaymentRows
        BY <2>1 DEF PaymentRows, PaymentStatuses, Provider
    <2>3. task' \in [Handlers -> Tasks]
        BY <1>t, <1>6, TaskMoves DEF InsertPayment
    <2> QED
        BY <1>0, <1>6, <1>k, <2>1, <2>2, <2>3 DEF InsertPayment
<1>7. ASSUME NEW h \in Handlers, DeferToWinner(h)
      PROVE  Goal
    <2>1. task[h].order \in Orders /\ Online(task[h].order)
        BY <1>t, <1>7, TaskShape DEF DeferToWinner, Doing, MoneyInv, Served, Serving
    <2>2. payment[task[h].order].razorpayOrder \in GatewayOrders
        BY <1>7, <2>1, RowShape DEF DeferToWinner
    <2>3. task' \in [Handlers -> Tasks]
        BY <1>t, <1>7, TaskMoves DEF DeferToWinner
    <2> QED
        BY <1>0, <1>7, <1>k, <2>1, <2>2, <2>3 DEF DeferToWinner, payRows
<1>8. ASSUME NEW h \in Handlers, ConfirmCodOrder(h)
      PROVE  Goal
    <2>1. [provider |-> "COD", status |-> "PENDING",
           razorpayOrder |-> NoGatewayOrder, razorpayPayment |-> FALSE] \in PaymentRows
        BY DEF PaymentRows, PaymentStatuses
    <2> QED
        BY <1>0, <1>8, <1>k, <2>1 DEF ConfirmCodOrder, gateway
<1>9. ASSUME NEW h \in Handlers, NEW e \in Events, ReceiveWebhook(h, e)
      PROVE  Goal
    <2>1. [kind |-> "webhook", event |-> e, pc |-> "lookup"] \in Tasks
        BY DEF Tasks, HookTasks
    <2> QED
        BY <1>0, <1>9, <1>k, <2>1 DEF ReceiveWebhook, gateway
<1>10. ASSUME NEW h \in Handlers,
              (\E o \in Orders : ReadWebhookOrder(h, o)) \/ NothingToApply(h)
       PROVE  Goal
    <2>1. task' \in [Handlers -> Tasks]
        BY <1>t, <1>10, TaskMoves DEF ReadWebhookOrder, NothingToApply, Doing
    <2> QED
        BY <1>0, <1>10, <1>k, <2>1 DEF ReadWebhookOrder, NothingToApply, payRows, gateway
<1>11. ASSUME NEW h \in Handlers, ApplyCapture(h) \/ ApplyFailure(h)
       PROVE  Goal
    <2>o. PICK o \in Orders : HasPayment(o) /\ request[h].order = o
        BY <1>t, <1>11
        DEF ApplyCapture, ApplyFailure, ConfirmOrder, MarkOrderPaymentFailed, TransitionStatus,
            InTx, MoneyInv, Served, Serving, PaidBy
    <2>1. payment[o] \in PaymentRows
        BY <2>o, RowShape
    <2>2. /\ [payment[o] EXCEPT !.status = "CAPTURED", !.razorpayPayment = TRUE] \in PaymentRows
          /\ [payment[o] EXCEPT !.status = "PENDING", !.razorpayPayment = TRUE] \in PaymentRows
          /\ [payment[o] EXCEPT !.status = "FAILED"] \in PaymentRows
        BY <2>1 DEF PaymentRows, PaymentStatuses
    <2>3. CASE ApplyCapture(h)
        <3>1. PICK r \in PaymentRows : payment' = [payment EXCEPT ![o] = r]
            BY <1>0, <2>o, <2>2, <2>3 DEF ApplyCapture
        <3>2. UNCHANGED <<method, eventRow, refundRow, refundMailed, task, gateway, crashes>>
            BY <2>3 DEF ApplyCapture
        <3> QED
            BY <1>0, <1>k, <3>1, <3>2 DEF gateway
    <2>4. CASE ApplyFailure(h)
        <3>1. PICK r \in PaymentRows : payment' = [payment EXCEPT ![o] = r]
            BY <1>0, <2>o, <2>2, <2>4 DEF ApplyFailure
        <3> QED
            BY <1>0, <1>k, <2>4, <3>1 DEF ApplyFailure, gateway
    <2> QED
        BY <1>11, <2>3, <2>4
<1>12. ASSUME NEW h \in Handlers, AcknowledgeWebhook(h)
       PROVE  Goal
    <2>1. task' \in [Handlers -> Tasks]
        BY <1>t, <1>12, TaskMoves DEF AcknowledgeWebhook
    <2> QED
        BY <1>0, <1>12, <1>k, <2>1 DEF AcknowledgeWebhook, gateway
<1>13. ASSUME NEW h \in Handlers, StaffDeliversOrder(h) \/ StaffCancelsOrder(h)
       PROVE  Goal
    <2>1. request[h].order \in Orders
        BY <1>0, <1>13
        DEF StaffDeliversOrder, StaffCancelsOrder, DeliverOrder, CancelOrder, TransitionStatus,
            InTx, TypeOK, Requests
    <2>2. /\ [kind |-> "collect", order |-> request[h].order, pc |-> "collect"] \in Tasks
          /\ [kind |-> "refund", order |-> request[h].order, pc |-> "decide"] \in Tasks
        BY <2>1 DEF Tasks, CollectTasks, RefundTasks, RefundSteps
    <2> QED
        BY <1>0, <1>13, <1>k, <2>2 DEF StaffDeliversOrder, StaffCancelsOrder, payRows, gateway
<1>14. ASSUME NEW h \in Handlers, CollectCash(h)
       PROVE  Goal
    <2>1. task' \in [Handlers -> Tasks]
        BY <1>t, <1>14, TaskMoves DEF CollectCash
    <2>2. task[h].order \in Orders
        BY <1>t, <1>14, TaskShape DEF CollectCash, Doing
    <2>3. HasPayment(task[h].order) =>
            [payment[task[h].order] EXCEPT !.status = "CAPTURED"] \in PaymentRows
        BY <2>2, RowShape DEF PaymentRows, PaymentStatuses
    <2>4. payment' \in [Orders -> {NoPayment} \cup PaymentRows]
        BY <1>0, <1>14, <2>2, <2>3 DEF CollectCash
    <2> QED
        BY <1>0, <1>14, <1>k, <2>1, <2>4 DEF CollectCash, gateway
<1>15. ASSUME NEW h \in Handlers,
              DecideRefund(h) \/ GatewayRefunds(h) \/ RecordRefund(h) \/ RecordRefundFailure(h)
       PROVE  Goal
    <2>1. task[h].kind = "refund" /\ task[h].order \in Orders
        BY <1>t, <1>15, TaskShape
        DEF DecideRefund, GatewayRefunds, RecordRefund, RecordRefundFailure, Doing
    <2>2. PICK s \in RefundSteps : task' = [task EXCEPT ![h].pc = s]
        BY <1>15
        DEF DecideRefund, GatewayRefunds, RecordRefund, RecordRefundFailure, RefundSteps
    <2>3. task' \in [Handlers -> Tasks]
        BY <1>t, <2>1, <2>2, TaskMoves
    <2> QED
        BY <1>0, <1>15, <1>k, <2>1, <2>3
        DEF DecideRefund, GatewayRefunds, RecordRefund, RecordRefundFailure, payRows, gateway
<1>16. ASSUME NEW h \in Handlers, MarkPaymentRefunded(h)
       PROVE  Goal
    <2>1. task[h].kind = "refund" /\ task[h].order \in Orders /\ HasPayment(task[h].order)
        BY <1>t, <1>16, TaskShape DEF MarkPaymentRefunded, Doing, MoneyInv, Served, Serving
    <2>2. task' \in [Handlers -> Tasks]
        BY <1>t, <1>16, <2>1, TaskMoves DEF MarkPaymentRefunded, RefundSteps
    <2>3. [payment[task[h].order] EXCEPT !.status = "REFUNDED"] \in PaymentRows
        BY <2>1, RowShape DEF PaymentRows, PaymentStatuses
    <2>4. payment' \in [Orders -> {NoPayment} \cup PaymentRows]
        BY <1>0, <1>16, <2>1, <2>3 DEF MarkPaymentRefunded
    <2> QED
        BY <1>0, <1>16, <1>k, <2>2, <2>4 DEF MarkPaymentRefunded, gateway
<1>17. ASSUME NEW h \in Handlers, FinishCancellation(h)
       PROVE  Goal
    <2>1. task' \in [Handlers -> Tasks]
        BY <1>t, <1>17, TaskMoves DEF FinishCancellation
    <2>2. task[h].order \in Orders
        BY <1>t, <1>17, TaskShape DEF FinishCancellation, Doing
    <2> QED
        BY <1>0, <1>17, <1>k, <2>1, <2>2 DEF FinishCancellation, gateway
<1>18. ASSUME NEW h \in Handlers, HandlerCrashes(h)
       PROVE  Goal
    <2>1. task' \in [Handlers -> Tasks]
        BY <1>t, <1>18, TaskMoves DEF HandlerCrashes
    <2>2. crashes' \in 0..MaxCrashes
        BY <1>0, <1>18, PaymentsAssumption DEF HandlerCrashes
    <2> QED
        BY <1>0, <1>18, <1>k, <2>1, <2>2 DEF HandlerCrashes, payRows, gateway
<1>19. ASSUME NEW h \in Handlers, StaffMovesOrder(h) \/ HandlerLosesRace(h) \/ HandlerNotifies(h)
       PROVE  Goal
    BY <1>1, <1>19 DEF StaffMovesOrder, HandlerLosesRace, HandlerNotifies, OrdersOnly
<1>20. ASSUME NEW h \in Handlers, NEW op \in StaffOperations, NEW o \in Orders,
              StaffReadsOrder(h, op, o)
       PROVE  Goal
    BY <1>1, <1>20 DEF StaffReadsOrder, OrdersOnly
<1>21. ASSUME NEW h \in Handlers, NEW o \in Orders, ReadCodOrder(h, o)
       PROVE  Goal
    BY <1>1, <1>21 DEF ReadCodOrder, OrdersOnly
<1>22. ASSUME NEW o \in Orders, CustomerPlacesOrder(o)
       PROVE  Goal
    BY <1>1, <1>22 DEF CustomerPlacesOrder, OrdersOnly
<1>23. ASSUME NEW v \in Variants, NEW d \in Deltas, StaffAdjustsStock(v, d)
       PROVE  Goal
    BY <1>1, <1>23 DEF StaffAdjustsStock, OrdersOnly
<1> HIDE DEF PayTypeOK, Goal
<1>24. ASSUME NEW h \in Handlers, Work(h)
       PROVE  Goal
    BY <1>24, <1>5, <1>6, <1>7, <1>8, <1>10, <1>11, <1>12, <1>13, <1>14, <1>15, <1>16, <1>17, <1>19
    DEF Work
<1>25. Goal
    BY <1>2, <1>3, <1>4, <1>9, <1>18, <1>20, <1>21, <1>22, <1>23, <1>24 DEF PayNext
<1> QED
    BY <1>25 DEF Goal

-----------------------------------------------------------------------------
(* Each step keeps the invariant: first what orders alone do.                *)

Kept == Grows /\ Rows' /\ EventsTold' /\ Served' /\ OneRefunder'

\* A Razorpay order is on the row of one order at most.
LEMMA PaidOnce ==
    ASSUME MoneyInv, NEW g \in GatewayOrders, NEW o \in PaidBy(g), NEW p \in PaidBy(g)
    PROVE  o = p
<1>1. g # NoGatewayOrder
    BY PaymentsAssumption
<1>2. gatewayOrder[g] = o
    BY <1>1 DEF PaidBy, MoneyInv, Recorded, RowOf
<1>3. gatewayOrder[g] = p
    BY <1>1 DEF PaidBy, MoneyInv, Recorded, RowOf
<1> QED
    BY <1>2, <1>3

\* What is left to show of a handler's step.
LEMMA HandlerKeeps ==
    ASSUME MoneyInv, Grows, Rows', NEW h \in Handlers, Others(h),
           Serving(request[h], task[h])',
           task'[h].kind = "refund" => task[h].kind = "refund" /\ task'[h].order = task[h].order,
           eventRow' = eventRow
    PROVE  Kept
<1>1. Served' /\ OneRefunder'
    BY ServedKept, OneRefunderKept DEF MoneyInv
<1>2. ASSUME NEW e \in Events
      PROVE  /\ eventRow'[e] # "absent" => Emitted(e)'
             /\ eventRow'[e] = "processed" => Applied(e)'
    BY EventsKept DEF MoneyInv
<1> QED
    BY <1>1, <1>2 DEF Kept, EventsTold

\* What is left to show of a step that is no handler's.
LEMMA NobodyNotices ==
    ASSUME MoneyInv, Grows, Rows', UNCHANGED <<request, task, refundRow, eventRow>>
    PROVE  Kept
<1>1. Served'
    BY HandlerUnmoved DEF MoneyInv, Served
<1>2. OneRefunder'
    BY DEF MoneyInv, OneRefunder, Refunds
<1>3. ASSUME NEW e \in Events
      PROVE  /\ eventRow'[e] # "absent" => Emitted(e)'
             /\ eventRow'[e] = "processed" => Applied(e)'
    BY EventsKept DEF MoneyInv
<1> QED
    BY <1>1, <1>2, <1>3 DEF Kept, EventsTold

\* A step of requests and tasks alone leaves orders and money in agreement.
LEMMA NothingMoves ==
    ASSUME MoneyInv, UNCHANGED <<status, payRows, gateway>>
    PROVE  Grows /\ Rows'
<1>1. Rows
    BY DEF MoneyInv, Rows
<1>2. Grows
    BY DEF Grows, payRows, gateway, HasPayment, PaidBy, Emitted, AmountMatches
<1>3. Rows'
    BY <1>1
    DEF Rows, payRows, gateway, Recorded, RowOf, WorldIsShown, RefundsTold, RefundOf,
        OnlyRecordedOrderIsShown, PaymentAgreesWithOrder, ConfirmedOnlineIsPaid,
        HasPayment, Online, Provider
<1> QED
    BY <1>2, <1>3

\* An order that is placed, or moves on once it is confirmed.
LEMMA OrderMoves ==
    ASSUME MoneyInv, UNCHANGED <<payRows, gateway>>, NEW o \in Orders, NEW s \in Statuses,
           status' = [status EXCEPT ![o] = s],
           \/ status[o] = "NOT_PLACED" /\ s = "PENDING_PAYMENT"
           \/ /\ status[o] \in {"CONFIRMED", "PROCESSING", "PACKED", "SHIPPED"}
              /\ s \in PastPayment
    PROVE  Grows /\ Rows'
<1>0. status \in [Orders -> Statuses]
    BY DEF MoneyInv, Typed, TypeOK
<1>1. Rows
    BY DEF MoneyInv, Rows
<1>2. Grows
    BY <1>0
    DEF Grows, payRows, gateway, HasPayment, PaidBy, Emitted, AmountMatches, PastPayment, KeepsStock
<1>3. WorldIsShown' /\ OnlyRecordedOrderIsShown'
    BY <1>1
    DEF Rows, payRows, gateway, WorldIsShown, OnlyRecordedOrderIsShown, HasPayment
<1>4. Recorded' /\ RefundsTold'
    BY <1>0, <1>1
    DEF Rows, payRows, gateway, Recorded, RowOf, RefundsTold, RefundOf, HasPayment, Online,
        Provider, PastPayment, KeepsStock
<1>5. PaymentAgreesWithOrder'
    BY <1>0, <1>1
    DEF Rows, payRows, gateway, Recorded, RowOf, PaymentAgreesWithOrder, HasPayment,
        PastPayment, KeepsStock
<1>6. ConfirmedOnlineIsPaid'
    BY <1>0, <1>1
    DEF Rows, payRows, gateway, ConfirmedOnlineIsPaid, HasPayment, PastPayment, KeepsStock
<1> QED
    BY <1>2, <1>3, <1>4, <1>5, <1>6 DEF Rows

\* Placing an order: it has no Payment row yet.
LEMMA PlacesKept ==
    ASSUME MoneyInv, NEW o \in Orders, CustomerPlacesOrder(o)
    PROVE  Kept
<1>1. UNCHANGED <<payRows, gateway, request, task>>
    BY DEF CustomerPlacesOrder, PlaceOrder
<1>2. Grows /\ Rows'
    BY <1>1, OrderMoves DEF CustomerPlacesOrder, PlaceOrder, Statuses
<1> QED
    BY <1>1, <1>2, NobodyNotices DEF payRows

\* Stock has no part in the money.
LEMMA AdjustKept ==
    ASSUME MoneyInv, NEW v \in Variants, NEW d \in Deltas, StaffAdjustsStock(v, d)
    PROVE  Kept
<1>1. UNCHANGED <<status, payRows, gateway, request, task>>
    BY DEF StaffAdjustsStock, AdjustQuantity
<1> QED
    BY <1>1, NothingMoves, NobodyNotices DEF payRows

\* A handler that dies leaves its rows as they are and relies on nothing any more.
LEMMA CrashKept ==
    ASSUME MoneyInv, NEW h \in Handlers, HandlerCrashes(h)
    PROVE  Kept
<1>1. UNCHANGED <<status, payRows, gateway>>
    BY DEF HandlerCrashes
<1>2. request' = [request EXCEPT ![h] = Idle] /\ task' = [task EXCEPT ![h] = NoTask]
    BY DEF HandlerCrashes
<1>3. request \in [Handlers -> {Idle} \cup Requests] /\ task \in [Handlers -> Tasks]
    BY DEF MoneyInv, Typed, TypeOK
<1>4. Others(h)
    BY <1>1, <1>2, <1>3 DEF Others, payRows
<1>5. Serving(request[h], task[h])' /\ task'[h].kind = "none"
    BY <1>2, <1>3 DEF Serving, NoTask
<1> QED
    BY <1>1, <1>4, <1>5, NothingMoves, HandlerKeeps DEF payRows

\* Only a handler with nothing else to do reads an order for its staff or for COD.
LEMMA ReadsKept ==
    ASSUME MoneyInv, NEW h \in Handlers, NEW o \in Orders,
           ReadCodOrder(h, o) \/ \E op \in StaffOperations : StaffReadsOrder(h, op, o)
    PROVE  Kept
<1>1. UNCHANGED <<status, payRows, gateway, task>> /\ task[h] = NoTask
    BY DEF ReadCodOrder, StaffReadsOrder, ReadOrder, Free
<1>2. PICK q : /\ request' = [request EXCEPT ![h] = q]
               /\ q.op \in StaffOperations \/ (q.op = "confirm" /\ method[q.order] = "COD")
    <2>1. PICK op : /\ ReadOrder(h, op, o)
                    /\ op \in StaffOperations \/ (op = "confirm" /\ method[o] = "COD")
        BY DEF ReadCodOrder, StaffReadsOrder
    <2> WITNESS [op |-> op, order |-> o, seen |-> status[o], pc |-> "tx"]
    <2> QED
        BY <2>1 DEF ReadOrder
<1>3. request \in [Handlers -> {Idle} \cup Requests]
    BY DEF MoneyInv, Typed, TypeOK
<1>4. Others(h)
    BY <1>1, <1>2, <1>3 DEF Others, payRows
<1>5. Serving(request[h], task[h])' /\ task'[h].kind = "none"
    BY <1>1, <1>2, <1>3 DEF Serving, NoTask, payRows
<1> QED
    BY <1>1, <1>4, <1>5, NothingMoves, HandlerKeeps DEF payRows

\* A handler that is done with its request, because it lost or has sent its mail.
LEMMA DoneKept ==
    ASSUME MoneyInv, NEW h \in Handlers, HandlerLosesRace(h) \/ HandlerNotifies(h)
    PROVE  Kept
<1>0. request \in [Handlers -> {Idle} \cup Requests] /\ Serving(request[h], task[h])
    BY DEF MoneyInv, Typed, TypeOK, Served
<1>1. /\ UNCHANGED <<status, payRows, gateway, task>>
      /\ request' = [request EXCEPT ![h] = Idle]
      /\ request[h] # Idle
    BY DEF HandlerLosesRace, HandlerNotifies, LoseRace, NotifyOrderEvent, InTx
<1>2. Others(h)
    BY <1>0, <1>1 DEF Others, payRows
<1>3. Grows /\ Rows'
    BY <1>1, NothingMoves
<1>4. Serving(request[h], task[h])'
    <2>1. Serving(Idle, task[h])
        <3>1. CASE task[h].kind = "webhook"
            <4>1. /\ task[h].event \in Events /\ Emitted(task[h].event)
                  /\ request[h].order \in PaidBy(task[h].event[1])
                BY <1>0, <1>1, <3>1, TaskShape DEF Serving, MoneyInv
            <4>2. status[request[h].order] # "PENDING_PAYMENT"
                <5>1. CASE HandlerLosesRace(h)
                    <6>1. request[h].seen = "PENDING_PAYMENT"
                        BY <1>0, <1>1, <3>1 DEF MoneyInv, Typed, TypeOK, Serving, OpFor, From
                    <6> QED
                        BY <5>1, <6>1 DEF HandlerLosesRace, LoseRace
                <5>2. CASE HandlerNotifies(h)
                    BY <1>0, <1>1, <3>1, <5>2 DEF HandlerNotifies, NotifyOrderEvent, Serving
                <5> QED
                    BY <5>1, <5>2
            <4>3. Applied(task[h].event)
                <5>1. task[h].event[1] \in GatewayOrders
                    BY <4>1 DEF Events
                <5> QED
                    BY <4>1, <4>2, <5>1, PaidOnce DEF Applied
            <4> QED
                BY <3>1, <4>1, <4>3 DEF Serving
        <3>2. CASE task[h].kind # "webhook"
            BY <1>0, <3>2 DEF Serving
        <3> QED
            BY <3>1, <3>2
    <2>2. /\ Grows /\ task'[h] = task[h] /\ request'[h] = Idle /\ UNCHANGED <<status, payRows, gateway>>
        BY <1>0, <1>1, <1>3
    <2> QED
        BY <2>1, <2>2
        DEF Serving, payRows, gateway, Emitted, Applied, AmountMatches, PaidBy, HasPayment, Online
<1> QED
    BY <1>1, <1>2, <1>3, <1>4, HandlerKeeps DEF payRows

\* Staff move an order on only in a handler that does nothing else.
LEMMA StaffHasNoTask ==
    ASSUME MoneyInv, NEW h \in Handlers, NEW op \in StaffOperations, TransitionStatus(h, op)
    PROVE  /\ task[h] = NoTask
           /\ request[h].order \in Orders
           /\ status[request[h].order] \in From[op]
           /\ status' = [status EXCEPT ![request[h].order] = To[op]]
           /\ \E q : /\ request' = [request EXCEPT ![h] = q]
                     /\ q = Idle \/ (q.op = op /\ q.pc = "committed")
<1>0. op \in Operations /\ op \notin {"confirm", "markPaymentFailed"}
    BY DEF StaffOperations
<1>1. TypeOK /\ task[h] \in Tasks /\ Serving(request[h], task[h])
    BY DEF MoneyInv, Typed, Served
<1>2. request[h] # Idle /\ request[h].pc = "tx" /\ request[h].op = op
    BY DEF TransitionStatus, InTx
<1>3. task[h].kind = "none"
    <2>1. task[h].kind # "webhook"
        BY <1>0, <1>1, <1>2 DEF Serving, OpFor
    <2>2. task[h].kind \notin {"pay", "collect", "refund"}
        BY <1>1, <1>2 DEF Serving
    <2> QED
        BY <1>1, <2>1, <2>2, TaskTypes
<1>4. task[h] = NoTask
    BY <1>3, TaskShape DEF MoneyInv
<1>5. \E q : /\ request' = [request EXCEPT ![h] = q]
             /\ q = Idle \/ (q.op = op /\ q.pc = "committed")
    <2> WITNESS IF op \in Announced THEN [request[h] EXCEPT !.pc = "committed"] ELSE Idle
    <2>1. request[h] \in Requests
        BY <1>1, <1>2 DEF TypeOK
    <2>2. [request[h] EXCEPT !.pc = "committed"].op = op
        BY <1>2, <2>1 DEF Requests
    <2>3. [request[h] EXCEPT !.pc = "committed"].pc = "committed"
        BY <2>1 DEF Requests
    <2>4. request' = [request EXCEPT ![h] = IF op \in Announced
                         THEN [request[h] EXCEPT !.pc = "committed"] ELSE Idle]
        BY DEF TransitionStatus
    <2> QED
        BY <2>2, <2>3, <2>4
<1> QED
    BY <1>0, <1>1, <1>4, <1>5, WonTransition

\* Staff move, deliver or cancel an order that was paid for: a cancellation begins the
\* one refund of its order.
LEMMA StaffMovesKept ==
    ASSUME MoneyInv, NEW h \in Handlers,
           StaffMovesOrder(h) \/ StaffDeliversOrder(h) \/ StaffCancelsOrder(h)
    PROVE  Kept
<1> DEFINE o == request[h].order
<1>0. /\ request \in [Handlers -> {Idle} \cup Requests] /\ task \in [Handlers -> Tasks]
      /\ status \in [Orders -> Statuses]
    BY DEF MoneyInv, Typed, TypeOK
<1>1. PICK op \in StaffOperations :
        /\ TransitionStatus(h, op)
        /\ StaffMovesOrder(h) => UNCHANGED task
        /\ StaffDeliversOrder(h) => op = "deliver"
        /\ StaffCancelsOrder(h) => op = "cancel"
    <2>1. PICK op \in {"startProcessing", "markPacked", "ship", "returnToOrigin", "deliver", "cancel"} :
            TransitionStatus(h, op)
        BY DEF StaffMovesOrder, StaffDeliversOrder, StaffCancelsOrder, StartProcessing,
               MarkPacked, ShipOrder, MarkReturnedToOrigin, DeliverOrder, CancelOrder
    <2>2. op \in StaffOperations
        BY DEF StaffOperations, Operations, From
    <2>3. StaffMovesOrder(h) => UNCHANGED task
        BY DEF StaffMovesOrder
    <2>4. StaffDeliversOrder(h) => op = "deliver"
        BY <2>1 DEF StaffDeliversOrder, DeliverOrder, TransitionStatus
    <2>5. StaffCancelsOrder(h) => op = "cancel"
        BY <2>1 DEF StaffCancelsOrder, CancelOrder, TransitionStatus
    <2> QED
        BY <2>1, <2>2, <2>3, <2>4, <2>5
<1>2. /\ task[h] = NoTask /\ o \in Orders
      /\ status[o] \in From[op]
      /\ status' = [status EXCEPT ![o] = To[op]]
    BY <1>1, StaffHasNoTask
<1>3. PICK q : /\ request' = [request EXCEPT ![h] = q]
               /\ q = Idle \/ (q.op = op /\ q.pc = "committed")
    BY <1>1, StaffHasNoTask
<1>4. UNCHANGED <<payRows, gateway>>
    BY DEF StaffMovesOrder, StaffDeliversOrder, StaffCancelsOrder
<1>5. Grows /\ Rows'
    <2>1. /\ status[o] \in {"CONFIRMED", "PROCESSING", "PACKED", "SHIPPED"}
          /\ To[op] \in PastPayment /\ To[op] \in Statuses
        BY <1>2 DEF StaffOperations, Operations, From, To, PastPayment, KeepsStock, Statuses
    <2> QED
        BY <1>2, <1>4, <2>1, OrderMoves
<1>6. PICK t \in Tasks : /\ task' = [task EXCEPT ![h] = t]
                         /\ StaffMovesOrder(h) => t = NoTask
                         /\ StaffDeliversOrder(h) =>
                              t = [kind |-> "collect", order |-> o, pc |-> "collect"]
                         /\ StaffCancelsOrder(h) =>
                              t = [kind |-> "refund", order |-> o, pc |-> "decide"]
    <2>1. CASE StaffMovesOrder(h)
        <3>1. NoTask \in Tasks
            BY DEF Tasks
        <3>2. task' = [task EXCEPT ![h] = NoTask]
            BY <1>0, <1>1, <1>2, <2>1
        <3>3. ~StaffDeliversOrder(h) /\ ~StaffCancelsOrder(h)
            BY <2>1
            DEF StaffMovesOrder, StaffDeliversOrder, StaffCancelsOrder, StartProcessing,
                MarkPacked, ShipOrder, MarkReturnedToOrigin, DeliverOrder, CancelOrder,
                TransitionStatus
        <3> QED
            BY <3>1, <3>2, <3>3
    <2>2. CASE StaffDeliversOrder(h)
        <3>1. [kind |-> "collect", order |-> o, pc |-> "collect"] \in Tasks
            BY <1>2 DEF Tasks, CollectTasks
        <3>2. ~StaffMovesOrder(h) /\ ~StaffCancelsOrder(h)
            BY <2>2
            DEF StaffMovesOrder, StaffDeliversOrder, StaffCancelsOrder, StartProcessing,
                MarkPacked, ShipOrder, MarkReturnedToOrigin, DeliverOrder, CancelOrder,
                TransitionStatus
        <3> QED
            BY <2>2, <3>1, <3>2 DEF StaffDeliversOrder
    <2>3. CASE StaffCancelsOrder(h)
        <3>1. [kind |-> "refund", order |-> o, pc |-> "decide"] \in Tasks
            BY <1>2 DEF Tasks, RefundTasks, RefundSteps
        <3>2. ~StaffMovesOrder(h) /\ ~StaffDeliversOrder(h)
            BY <2>3
            DEF StaffMovesOrder, StaffDeliversOrder, StaffCancelsOrder, StartProcessing,
                MarkPacked, ShipOrder, MarkReturnedToOrigin, DeliverOrder, CancelOrder,
                TransitionStatus
        <3> QED
            BY <2>3, <3>1, <3>2 DEF StaffCancelsOrder
    <2> QED
        BY <2>1, <2>2, <2>3
<1> HIDE DEF o
<1>7. Others(h)
    BY <1>0, <1>3, <1>4, <1>6 DEF Others, payRows
<1>8. request'[h] = q /\ task'[h] = t
    BY <1>0, <1>3, <1>6
<1>9. Serving(request[h], task[h])'
    <2>1. CASE StaffMovesOrder(h)
        BY <1>3, <1>6, <1>8, <2>1 DEF Serving, NoTask
    <2>2. CASE StaffDeliversOrder(h)
        <3>1. status'[o] = "DELIVERED"
            BY <1>0, <1>1, <1>2, <2>2 DEF To
        <3> QED
            BY <1>3, <1>6, <1>8, <2>2, <3>1 DEF Serving
    <2>3. CASE StaffCancelsOrder(h)
        <3>1. status'[o] = "CANCELLED"
            BY <1>0, <1>1, <1>2, <2>3 DEF To
        <3> QED
            BY <1>3, <1>6, <1>8, <2>3, <3>1 DEF Serving
    <2> QED
        BY <2>1, <2>2, <2>3
<1>10. CASE ~StaffCancelsOrder(h)
    <2>1. task'[h].kind # "refund"
        BY <1>6, <1>8, <1>10 DEF NoTask
    <2> QED
        BY <1>4, <1>5, <1>7, <1>9, <2>1, HandlerKeeps DEF payRows
<1>11. CASE StaffCancelsOrder(h)
    <2>1. Served'
        BY <1>5, <1>7, <1>9, ServedKept DEF MoneyInv
    <2>2. \A k \in Handlers : ~Refunds(k, o)
        <3>1. status[o] # "CANCELLED"
            BY <1>1, <1>2, <1>11 DEF From
        <3> QED
            BY <3>1 DEF Refunds, MoneyInv, Served, Serving
    <2>3. OneRefunder'
        <3>1. task'[h].order = o
            BY <1>6, <1>8, <1>11
        <3> QED
            BY <1>7, <2>2, <3>1 DEF MoneyInv, OneRefunder, Others, Refunds
    <2>4. ASSUME NEW e \in Events
          PROVE  /\ eventRow'[e] # "absent" => Emitted(e)'
                 /\ eventRow'[e] = "processed" => Applied(e)'
        BY <1>4, <1>5, EventsKept DEF MoneyInv, payRows
    <2> QED
        BY <1>5, <2>1, <2>3, <2>4 DEF Kept, EventsTold
<1> QED
    BY <1>10, <1>11

\* What a row is once its order is paid for, or has failed to be.
LEMMA Settles ==
    ASSUME MoneyInv, NEW o \in Orders, NEW s \in {"CONFIRMED", "PAYMENT_FAILED"},
           NEW r \in PaymentRows,
           status[o] = "PENDING_PAYMENT", status' = [status EXCEPT ![o] = s],
           payment' = [payment EXCEPT ![o] = r],
           UNCHANGED <<method, eventRow, refundRow, refundMailed, gateway>>,
           r.provider = Provider(o),
           Online(o) => HasPayment(o) /\ r.razorpayOrder = payment[o].razorpayOrder,
           ~Online(o) => r.razorpayOrder = NoGatewayOrder /\ ~r.razorpayPayment,
           r.status = "FAILED" <=> s = "PAYMENT_FAILED",
           r.status \in {"PENDING", "CAPTURED", "FAILED"},
           r.provider = "COD" => r.status # "CAPTURED",
           Online(o) /\ s = "CONFIRMED" =>
             r.razorpayPayment /\ money[r.razorpayOrder] \in {"captured", "refunded"}
    PROVE  Grows /\ Rows'
<1>0. /\ status \in [Orders -> Statuses] /\ payment \in [Orders -> {NoPayment} \cup PaymentRows]
      /\ shown \in [Orders -> SUBSET GatewayOrders]
    BY DEF MoneyInv, Typed, TypeOK, PayTypeOK
<1>1. Rows
    BY DEF MoneyInv, Rows
<1>2. /\ payment'[o] = r /\ r # NoPayment /\ status'[o] = s
      /\ \A p \in Orders \ {o} : payment'[p] = payment[p] /\ status'[p] = status[p]
    BY <1>0 DEF NoPayment, PaymentRows, PaymentStatuses
<1>3. ~Online(o) =>
        /\ HasPayment(o) => payment[o].razorpayOrder = NoGatewayOrder
        /\ shown[o] = {}
    BY <1>0, <1>1, PaymentsAssumption DEF Rows, Recorded, RowOf, OnlyRecordedOrderIsShown
<1>4. \A p \in Orders : HasPayment(p) =>
        HasPayment(p)' /\ payment'[p].razorpayOrder = payment[p].razorpayOrder
    BY <1>2, <1>3 DEF HasPayment
<1>5. \A g \in GatewayOrders : PaidBy(g)' = PaidBy(g)
    BY <1>2, <1>3, <1>4, PaymentsAssumption DEF PaidBy, HasPayment
<1>6. Grows
    <2>1. \A e \in Events : e[1] \in GatewayOrders
        BY DEF Events
    <2> QED
        BY <1>2, <1>4, <1>5, <2>1 DEF Grows, gateway, Emitted, AmountMatches
<1>7. WorldIsShown' /\ OnlyRecordedOrderIsShown'
    BY <1>1, <1>2, <1>3, <1>4 DEF Rows, gateway, WorldIsShown, OnlyRecordedOrderIsShown, HasPayment
<1>8. Recorded'
    <2>1. Provider(o)' = Provider(o) /\ (Online(o)' <=> Online(o))
        BY DEF Provider, Online
    <2>2. RowOf(o)'
        BY <1>1, <1>2, <2>1 DEF Rows, Recorded, RowOf, HasPayment, gateway
    <2>3. ASSUME NEW p \in Orders \ {o} PROVE RowOf(p)'
        BY <1>1, <1>2 DEF Rows, Recorded, RowOf, HasPayment, gateway, Provider, Online
    <2> QED
        BY <2>2, <2>3 DEF Recorded
<1>9. RefundsTold'
    <2>1. RefundOf(o)'
        <3>1. Online(o)' <=> Online(o)
            BY DEF Online
        <3>2. money' = money /\ refundRow' = refundRow /\ refundMailed' = refundMailed
            BY DEF gateway
        <3>3. RefundOf(o)
            BY <1>1 DEF Rows, RefundsTold
        <3> QED
            BY <1>2, <3>1, <3>2, <3>3 DEF RefundOf, HasPayment
    <2>2. ASSUME NEW p \in Orders \ {o} PROVE RefundOf(p)'
        BY <1>1, <1>2 DEF Rows, RefundsTold, RefundOf, HasPayment, gateway, Online
    <2> QED
        BY <2>1, <2>2 DEF RefundsTold
<1>10. PaymentAgreesWithOrder'
    BY <1>1, <1>2 DEF Rows, PaymentAgreesWithOrder, HasPayment
<1>11. ConfirmedOnlineIsPaid'
    <2>1. Online(o) => gatewayOrder[payment[o].razorpayOrder] = o
        BY <1>1 DEF Rows, Recorded, RowOf
    <2> QED
        BY <1>1, <1>2, <2>1
        DEF Rows, ConfirmedOnlineIsPaid, HasPayment, gateway, Online, PastPayment, KeepsStock
<1> QED
    BY <1>6, <1>7, <1>8, <1>9, <1>10, <1>11 DEF Rows

\* The transaction that settles a payment finds its order still waiting for it.
LEMMA SettlingRequest ==
    ASSUME MoneyInv, NEW h \in Handlers, NEW op \in {"confirm", "markPaymentFailed"},
           TransitionStatus(h, op)
    PROVE  /\ request[h].order \in Orders /\ request[h].op = op
           /\ status[request[h].order] = "PENDING_PAYMENT"
           /\ status' = [status EXCEPT ![request[h].order] = To[op]]
           /\ request[h] # Idle /\ request'[h].pc = "committed"
           /\ request'[h].order = request[h].order /\ request'[h].op = op /\ request'[h] # Idle
           /\ \A k \in Handlers \ {h} : request'[k] = request[k]
           /\ Serving(request[h], task[h])
<1>1. TypeOK /\ Served /\ request \in [Handlers -> {Idle} \cup Requests]
    BY DEF MoneyInv, Typed, TypeOK
<1>2. op \in Operations /\ From[op] = {"PENDING_PAYMENT"} /\ op \in Announced
    BY DEF Operations, From, Announced
<1>3. request[h] \in Requests /\ request[h] # Idle /\ request[h].op = op
    BY <1>1 DEF TransitionStatus, InTx
<1>4. request' = [request EXCEPT ![h] = [request[h] EXCEPT !.pc = "committed"]]
    BY <1>2 DEF TransitionStatus
<1>5. /\ request'[h].pc = "committed" /\ request'[h].op = op
      /\ request'[h].order = request[h].order
      /\ \A k \in Handlers \ {h} : request'[k] = request[k]
    BY <1>1, <1>3, <1>4 DEF Requests
<1>6. request'[h] # Idle
    BY <1>2, <1>5 DEF Idle, Operations, From
<1> QED
    BY <1>1, <1>2, <1>3, <1>5, <1>6, WonTransition DEF Served

\* Confirming cash on delivery writes a row that Razorpay has no part in.
LEMMA ConfirmCodKept ==
    ASSUME MoneyInv, NEW h \in Handlers, ConfirmCodOrder(h)
    PROVE  Kept
<1> DEFINE o == request[h].order
           r == [provider |-> "COD", status |-> "PENDING",
                 razorpayOrder |-> NoGatewayOrder, razorpayPayment |-> FALSE]
<1>1. /\ TransitionStatus(h, "confirm") /\ task[h] = NoTask /\ UNCHANGED <<task, refundRow, eventRow>>
      /\ payment' = [payment EXCEPT ![o] = r]
      /\ UNCHANGED <<method, eventRow, refundRow, refundMailed, gateway>>
    BY DEF ConfirmCodOrder, ConfirmOrder
<1>2. /\ o \in Orders /\ status[o] = "PENDING_PAYMENT"
      /\ status' = [status EXCEPT ![o] = "CONFIRMED"]
    BY <1>1, SettlingRequest DEF To
<1>3. method[o] = "COD"
    BY <1>1, SettlingRequest DEF Serving, NoTask, StaffOperations
<1>4. r \in PaymentRows
    BY DEF PaymentRows, PaymentStatuses
<1>5. Grows /\ Rows'
    <2>1. r.provider = Provider(o) /\ ~Online(o)
        BY <1>3 DEF Provider, Online, OnlineMethods
    <2> QED
        BY <1>1, <1>2, <1>4, <2>1, Settles
<1>6. Others(h)
    BY <1>1, SettlingRequest DEF Others
<1>7. Serving(request[h], task[h])' /\ task'[h].kind # "refund"
    BY <1>1, <1>3, SettlingRequest DEF Serving, NoTask
<1> QED
    BY <1>1, <1>5, <1>6, <1>7, HandlerKeeps

\* A capture or failure is applied to the order its Razorpay order was created for.
LEMMA WebhookAppliesKept ==
    ASSUME MoneyInv, NEW h \in Handlers, ApplyCapture(h) \/ ApplyFailure(h)
    PROVE  Kept
<1> DEFINE o == request[h].order
           e == task[h].event
<1>1. /\ task[h].kind = "webhook" /\ UNCHANGED <<task, refundRow, eventRow>>
      /\ UNCHANGED <<method, eventRow, refundRow, refundMailed, gateway>>
    BY DEF ApplyCapture, ApplyFailure
<1>2. PICK op \in {"confirm", "markPaymentFailed"} :
        /\ TransitionStatus(h, op)
        /\ ApplyCapture(h) => op = "confirm"
        /\ ApplyFailure(h) => op = "markPaymentFailed"
    <2>1. PICK op \in {"confirm", "markPaymentFailed"} : TransitionStatus(h, op)
        BY DEF ApplyCapture, ApplyFailure, ConfirmOrder, MarkOrderPaymentFailed
    <2> QED
        BY <2>1
        DEF ApplyCapture, ApplyFailure, ConfirmOrder, MarkOrderPaymentFailed, TransitionStatus
<1>3. /\ o \in Orders /\ status[o] = "PENDING_PAYMENT"
      /\ status' = [status EXCEPT ![o] = To[op]]
    BY <1>2, SettlingRequest
<1>4. /\ e \in Events /\ Emitted(e) /\ AmountMatches(e) /\ o \in PaidBy(e[1]) /\ op = OpFor(e)
      /\ task[h].pc = "ack"
    BY <1>1, <1>2, SettlingRequest, TaskShape DEF Serving, MoneyInv
<1>5. /\ HasPayment(o) /\ payment[o].razorpayOrder = e[1] /\ e[1] \in GatewayOrders
      /\ payment[o] \in PaymentRows /\ payment[o].provider = Provider(o)
    BY <1>3, <1>4, RowShape DEF PaidBy, Events, MoneyInv, Recorded, RowOf
<1>6. Online(o)
    BY <1>3, <1>5, PaymentsAssumption DEF MoneyInv, Recorded, RowOf
<1>7. PICK r \in PaymentRows :
        /\ payment' = [payment EXCEPT ![o] = r]
        /\ r.provider = Provider(o) /\ r.razorpayOrder = payment[o].razorpayOrder
        /\ ApplyCapture(h) => /\ r.razorpayPayment
                              /\ r.status = IF r.provider = "COD" THEN "PENDING" ELSE "CAPTURED"
        /\ ApplyFailure(h) => r.status = "FAILED"
    <2>0. payment \in [Orders -> {NoPayment} \cup PaymentRows]
        BY DEF MoneyInv, Typed, PayTypeOK
    <2>1. CASE ApplyCapture(h)
        <3> DEFINE r == [payment[o] EXCEPT
                     !.status = IF payment[o].provider = "COD" THEN "PENDING" ELSE "CAPTURED",
                     !.razorpayPayment = TRUE]
        <3>1. /\ r \in PaymentRows /\ r.provider = payment[o].provider
              /\ r.razorpayOrder = payment[o].razorpayOrder /\ r.razorpayPayment
              /\ r.status = IF r.provider = "COD" THEN "PENDING" ELSE "CAPTURED"
            BY <1>5 DEF PaymentRows, PaymentStatuses
        <3>2. payment' = [payment EXCEPT ![o] = r]
            BY <1>3, <2>0, <2>1 DEF ApplyCapture
        <3>3. ~ApplyFailure(h)
            BY <1>2, <2>1
        <3> HIDE DEF r
        <3> QED
            BY <1>5, <3>1, <3>2, <3>3
    <2>2. CASE ApplyFailure(h)
        <3> DEFINE r == [payment[o] EXCEPT !.status = "FAILED"]
        <3>1. /\ r \in PaymentRows /\ r.provider = payment[o].provider
              /\ r.razorpayOrder = payment[o].razorpayOrder /\ r.status = "FAILED"
            BY <1>5 DEF PaymentRows, PaymentStatuses
        <3>2. payment' = [payment EXCEPT ![o] = r]
            BY <1>3, <2>0, <2>2 DEF ApplyFailure
        <3>3. ~ApplyCapture(h)
            BY <1>2, <2>2
        <3> HIDE DEF r
        <3> QED
            BY <1>5, <3>1, <3>2, <3>3
    <2> QED
        BY <2>1, <2>2
<1>8. Grows /\ Rows'
    <2>1. op = "confirm" => money[e[1]] \in {"captured", "refunded"}
        <3>1. money[e[1]] \in {"none", "captured", "short", "refunded"}
            BY <1>5 DEF MoneyInv, Typed, PayTypeOK
        <3>2. op = "confirm" => e[2] = "payment.captured"
            BY <1>4 DEF OpFor
        <3> QED
            BY <1>4, <3>1, <3>2 DEF Emitted, AmountMatches
    <2>2. CASE ApplyCapture(h)
        <3>1. To[op] = "CONFIRMED" /\ op = "confirm"
            BY <1>2, <2>2 DEF To
        <3> HIDE DEF o, e
        <3>2. r.status \in {"PENDING", "CAPTURED"} /\ (r.provider = "COD" => r.status = "PENDING")
            BY <1>7, <2>2
        <3>3. r.razorpayPayment /\ money[r.razorpayOrder] \in {"captured", "refunded"}
            BY <1>5, <1>7, <2>1, <2>2, <3>1
        <3> QED
            BY <1>1, <1>3, <1>5, <1>6, <1>7, <3>1, <3>2, <3>3, Settles
    <2>3. CASE ApplyFailure(h)
        <3>1. To[op] = "PAYMENT_FAILED"
            BY <1>2, <2>3 DEF To
        <3> HIDE DEF o, e
        <3> QED
            BY <1>1, <1>3, <1>5, <1>6, <1>7, <2>3, <3>1, Settles
    <2> QED
        BY <2>2, <2>3
<1>9. Others(h)
    BY <1>1, <1>2, SettlingRequest DEF Others
<1>10. status'[o] # "PENDING_PAYMENT"
    <2>1. status \in [Orders -> Statuses]
        BY DEF MoneyInv, Typed, TypeOK
    <2> QED
        BY <1>3, <2>1 DEF To
<1>11. Serving(request[h], task[h])'
    <2>1. PICK f \in Events, p \in Orders : f = e /\ p = o
        BY <1>3, <1>4
    <2>2. /\ request'[h] # Idle /\ request'[h].order = p /\ request'[h].op = op
          /\ status'[p] # "PENDING_PAYMENT"
        BY <1>2, <1>10, <2>1, SettlingRequest
    <2>3. Emitted(f) /\ AmountMatches(f) /\ p \in PaidBy(f[1]) /\ op = OpFor(f)
        BY <1>4, <2>1
    <2>4. Emitted(f)' /\ AmountMatches(f)' /\ p \in PaidBy(f[1])'
        BY <1>8, <2>3 DEF Grows
    <2>5. task'[h] = task[h] /\ task[h].kind = "webhook" /\ task[h].pc = "ack" /\ task'[h].event = f
        BY <1>1, <1>4, <2>1
    <2> HIDE DEF o, e
    <2> QED
        BY <2>2, <2>3, <2>4, <2>5 DEF Serving
<1> QED
    BY <1>1, <1>8, <1>9, <1>11, HandlerKeeps

-----------------------------------------------------------------------------
(* Razorpay, the customer and the creation of a Razorpay order.              *)

\* Razorpay captures money, or a card is declined, for an order that was shown.
LEMMA CustomerKept ==
    ASSUME MoneyInv, NEW g \in GatewayOrders, CustomerPays(g) \/ AttemptFails(g)
    PROVE  Kept
<1>0. money \in [GatewayOrders -> {"none", "captured", "short", "refunded"}]
    BY DEF MoneyInv, Typed, PayTypeOK
<1>1. Rows
    BY DEF MoneyInv, Rows
<1>2. /\ money[g] = "none" /\ \E o \in Orders : g \in shown[o]
      /\ money'[g] # "refunded" /\ \A f \in GatewayOrders \ {g} : money'[f] = money[f]
      /\ failedAttempt \subseteq failedAttempt' /\ failedAttempt' \subseteq failedAttempt \cup {g}
      /\ UNCHANGED <<vars, payRows, task, gatewayOrder, shown>>
    BY <1>0 DEF CustomerPays, AttemptFails
<1>3. UNCHANGED <<status, request, method, payment, eventRow, refundRow, refundMailed>>
    BY <1>2 DEF vars, payRows
<1>4. \A f \in GatewayOrders : /\ money[f] # "none" => money'[f] = money[f]
                               /\ money'[f] = "refunded" <=> money[f] = "refunded"
    BY <1>2
<1>5. Grows
    <2>1. \A e \in Events : e[1] \in GatewayOrders
        BY DEF Events
    <2> QED
        BY <1>2, <1>3, <1>4, <2>1 DEF Grows, Emitted, AmountMatches, HasPayment, PaidBy
<1>6. WorldIsShown' /\ OnlyRecordedOrderIsShown' /\ PaymentAgreesWithOrder'
    BY <1>1, <1>2, <1>3
    DEF Rows, WorldIsShown, OnlyRecordedOrderIsShown, PaymentAgreesWithOrder, HasPayment
<1>7. Recorded'
    BY <1>1, <1>2, <1>3 DEF Rows, Recorded, RowOf, HasPayment, Online, Provider
<1>8. RefundsTold'
    <2>1. \A o \in Orders : HasPayment(o) /\ Online(o) => payment[o].razorpayOrder \in GatewayOrders
        BY <1>1 DEF Rows, Recorded, RowOf
    <2> QED
        BY <1>1, <1>2, <1>3, <1>4, <2>1 DEF Rows, RefundsTold, RefundOf, HasPayment, Online
<1>9. ConfirmedOnlineIsPaid'
    <2>1. \A o \in Orders : HasPayment(o) /\ Online(o) => payment[o].razorpayOrder \in GatewayOrders
        BY <1>1 DEF Rows, Recorded, RowOf
    <2> QED
        BY <1>1, <1>2, <1>3, <1>4, <2>1 DEF Rows, ConfirmedOnlineIsPaid, HasPayment, Online
<1> QED
    BY <1>2, <1>3, <1>5, <1>6, <1>7, <1>8, <1>9, NobodyNotices DEF Rows

\* Handing out the Razorpay order on the row, once more.
LEMMA ShowsRecorded ==
    ASSUME MoneyInv, NEW o \in Orders, HasPayment(o), Online(o),
           shown' = [shown EXCEPT ![o] = @ \cup {payment[o].razorpayOrder}],
           UNCHANGED <<status, payRows, gatewayOrder, money, failedAttempt>>
    PROVE  Grows /\ Rows'
<1>0. shown \in [Orders -> SUBSET GatewayOrders]
    BY DEF MoneyInv, Typed, PayTypeOK
<1>1. Rows
    BY DEF MoneyInv, Rows
<1>2. Grows
    BY DEF Grows, payRows, HasPayment, PaidBy, Emitted, AmountMatches
<1>3. \A p \in Orders : /\ shown[p] \subseteq shown'[p]
                        /\ \A g \in shown'[p] : g \in shown[p] \/ (p = o /\ g = payment[o].razorpayOrder)
    BY <1>0
<1>4. WorldIsShown' /\ OnlyRecordedOrderIsShown'
    BY <1>1, <1>3 DEF Rows, payRows, WorldIsShown, OnlyRecordedOrderIsShown, HasPayment
<1>5. Recorded' /\ RefundsTold' /\ PaymentAgreesWithOrder' /\ ConfirmedOnlineIsPaid'
    BY <1>1
    DEF Rows, payRows, Recorded, RowOf, RefundsTold, RefundOf, PaymentAgreesWithOrder,
        ConfirmedOnlineIsPaid, HasPayment, Online, Provider
<1> QED
    BY <1>2, <1>4, <1>5 DEF Rows

\* A second click is answered with the Razorpay order on the row.
LEMMA ReuseKept ==
    ASSUME MoneyInv, NEW h \in Handlers, NEW o \in Orders, ReuseRazorpayOrder(h, o)
    PROVE  Kept
<1>1. /\ HasPayment(o) /\ Online(o)
      /\ shown' = [shown EXCEPT ![o] = @ \cup {payment[o].razorpayOrder}]
      /\ UNCHANGED <<vars, payRows, task, gatewayOrder, money, failedAttempt>>
    BY DEF ReuseRazorpayOrder, Online
<1>2. Grows /\ Rows'
    BY <1>1, ShowsRecorded DEF vars
<1> QED
    BY <1>1, <1>2, NobodyNotices DEF vars, payRows

\* The loser of the race answers with the winner's Razorpay order.
LEMMA DeferKept ==
    ASSUME MoneyInv, NEW h \in Handlers, DeferToWinner(h)
    PROVE  Kept
<1> DEFINE o == task[h].order
<1>0. task \in [Handlers -> Tasks]
    BY DEF MoneyInv, Typed
<1>1. /\ HasPayment(o) /\ task[h].kind = "pay"
      /\ shown' = [shown EXCEPT ![o] = @ \cup {payment[o].razorpayOrder}]
      /\ UNCHANGED <<vars, payRows, gatewayOrder, money, failedAttempt>>
      /\ task' = [task EXCEPT ![h] = NoTask]
    BY DEF DeferToWinner, Doing
<1>2. o \in Orders /\ Online(o) /\ request[h] = Idle
    BY <1>1, TaskShape DEF MoneyInv, Served, Serving
<1>3. Grows /\ Rows'
    BY <1>1, <1>2, ShowsRecorded DEF vars
<1>4. Others(h)
    BY <1>0, <1>1 DEF Others, vars, payRows
<1>5. Serving(request[h], task[h])' /\ task'[h].kind # "refund"
    BY <1>0, <1>1, <1>2 DEF Serving, NoTask, vars
<1> QED
    BY <1>1, <1>3, <1>4, <1>5, HandlerKeeps DEF payRows

\* A handler sets out to create a Razorpay order for an order that waits for payment.
LEMMA StartKept ==
    ASSUME MoneyInv, NEW h \in Handlers, NEW o \in Orders, StartRazorpayOrder(h, o)
    PROVE  Kept
<1>0. task \in [Handlers -> Tasks]
    BY DEF MoneyInv, Typed
<1>1. /\ UNCHANGED <<vars, payRows, gateway>> /\ request[h] = Idle
      /\ task' = [task EXCEPT ![h] = [kind |-> "pay", order |-> o, pc |-> "gateway"]]
      /\ Online(o) /\ status[o] = "PENDING_PAYMENT"
    BY DEF StartRazorpayOrder, Free, Online
<1>2. Grows /\ Rows'
    BY <1>1, NothingMoves DEF vars
<1>3. Others(h)
    BY <1>0, <1>1 DEF Others, vars, payRows
<1>4. Serving(request[h], task[h])' /\ task'[h].kind # "refund"
    BY <1>0, <1>1 DEF Serving, Online, vars, payRows
<1> QED
    BY <1>1, <1>2, <1>3, <1>4, HandlerKeeps DEF payRows

\* A Razorpay order nobody knows yet is created for the handler's order.
LEMMA GatewayCreatesKept ==
    ASSUME MoneyInv, NEW h \in Handlers, NEW g \in GatewayOrders, GatewayCreatesOrder(h, g)
    PROVE  Kept
<1>0. /\ task \in [Handlers -> Tasks]
      /\ gatewayOrder \in [GatewayOrders -> Orders \cup {NoGatewayOrder}]
    BY DEF MoneyInv, Typed, PayTypeOK
<1>1. Rows
    BY DEF MoneyInv, Rows
<1>2. PICK o \in Orders : /\ o = task[h].order /\ Online(o) /\ status[o] # "NOT_PLACED"
                          /\ request[h] = Idle
    BY TaskShape DEF GatewayCreatesOrder, Doing, MoneyInv, Served, Serving
<1>3. /\ gatewayOrder[g] \notin Orders /\ gatewayOrder' = [gatewayOrder EXCEPT ![g] = o]
      /\ task' = [task EXCEPT ![h] = [kind |-> "pay", order |-> o, pc |-> "insert", created |-> g]]
      /\ UNCHANGED <<vars, payRows, shown, money, failedAttempt>>
    BY <1>2 DEF GatewayCreatesOrder
<1>4. UNCHANGED <<status, request, method, payment, eventRow, refundRow, refundMailed>>
    BY <1>3 DEF vars, payRows
<1>5. Grows
    BY <1>0, <1>3, <1>4 DEF Grows, HasPayment, PaidBy, Emitted, AmountMatches
<1>6. Recorded' /\ ConfirmedOnlineIsPaid'
    <2>1. \A f \in GatewayOrders : gatewayOrder[f] \in Orders => gatewayOrder'[f] = gatewayOrder[f]
        BY <1>5 DEF Grows
    <2>2. Recorded'
        BY <1>1, <1>4, <2>1 DEF Rows, Recorded, RowOf, HasPayment, Online, Provider
    <2>3. \A p \in Orders : HasPayment(p) /\ Online(p) =>
            gatewayOrder'[payment[p].razorpayOrder] = p
        BY <1>1, <2>1 DEF Rows, Recorded, RowOf
    <2> QED
        BY <1>1, <1>3, <1>4, <2>2, <2>3 DEF Rows, ConfirmedOnlineIsPaid, HasPayment, Online
<1>7. WorldIsShown' /\ RefundsTold' /\ OnlyRecordedOrderIsShown' /\ PaymentAgreesWithOrder'
    BY <1>1, <1>3, <1>4
    DEF Rows, WorldIsShown, RefundsTold, RefundOf, OnlyRecordedOrderIsShown,
        PaymentAgreesWithOrder, HasPayment, Online
<1>8. Others(h)
    BY <1>0, <1>3, <1>4 DEF Others
<1>9. Serving(request[h], task[h])' /\ task'[h].kind # "refund"
    <2>1. task'[h] = [kind |-> "pay", order |-> o, pc |-> "insert", created |-> g]
        BY <1>0, <1>3
    <2>2. gatewayOrder'[g] = o
        BY <1>0, <1>3
    <2> QED
        BY <1>2, <1>4, <2>1, <2>2 DEF Serving, Online
<1> QED
    BY <1>4, <1>5, <1>6, <1>7, <1>8, <1>9, HandlerKeeps DEF Rows

\* The winner's row: nothing can have been paid or told about its Razorpay order yet.
LEMMA InsertKept ==
    ASSUME MoneyInv, NEW h \in Handlers, InsertPayment(h)
    PROVE  Kept
<1>0. /\ task \in [Handlers -> Tasks] /\ shown \in [Orders -> SUBSET GatewayOrders]
      /\ payment \in [Orders -> {NoPayment} \cup PaymentRows]
      /\ money \in [GatewayOrders -> {"none", "captured", "short", "refunded"}]
    BY DEF MoneyInv, Typed, PayTypeOK
<1>1. Rows
    BY DEF MoneyInv, Rows
<1>2. PICK o \in Orders, g \in GatewayOrders :
        /\ o = task[h].order /\ g = task[h].created /\ Online(o) /\ status[o] # "NOT_PLACED"
        /\ gatewayOrder[g] = o /\ request[h] = Idle
    BY TaskShape DEF InsertPayment, Doing, MoneyInv, Served, Serving
<1>3. PICK r : /\ r = [provider |-> Provider(o), status |-> "CREATED",
                       razorpayOrder |-> g, razorpayPayment |-> FALSE]
               /\ ~HasPayment(o) /\ payment' = [payment EXCEPT ![o] = r]
               /\ shown' = [shown EXCEPT ![o] = @ \cup {g}]
               /\ task' = [task EXCEPT ![h] = NoTask]
               /\ UNCHANGED <<status, request, method, eventRow, refundRow, refundMailed,
                              gatewayOrder, money, failedAttempt>>
    BY <1>2 DEF InsertPayment, vars
<1>4. /\ r # NoPayment /\ payment'[o] = r /\ \A p \in Orders \ {o} : payment'[p] = payment[p]
      /\ r.provider = Provider(o) /\ r.status = "CREATED" /\ r.razorpayOrder = g
      /\ ~r.razorpayPayment
    BY <1>0, <1>3 DEF NoPayment
<1>5. status[o] = "PENDING_PAYMENT"
    BY <1>1, <1>2, <1>3 DEF Rows, Recorded, RowOf
<1>6. \A p \in Orders : g \notin shown[p]
    <2> SUFFICES ASSUME NEW p \in Orders, g \in shown[p] PROVE FALSE
        OBVIOUS
    <2>1. HasPayment(p) /\ payment[p].razorpayOrder = g
        BY <1>1 DEF Rows, OnlyRecordedOrderIsShown
    <2>2. gatewayOrder[g] = p
        BY <1>1, <2>1, PaymentsAssumption DEF Rows, Recorded, RowOf
    <2> QED
        BY <1>2, <1>3, <2>1, <2>2
<1>7. money[g] = "none" /\ g \notin failedAttempt
    BY <1>1, <1>6 DEF Rows, WorldIsShown
<1>8. shown[o] = {} /\ shown'[o] = {g} /\ \A p \in Orders \ {o} : shown'[p] = shown[p]
    BY <1>0, <1>1, <1>3 DEF Rows, OnlyRecordedOrderIsShown
<1>9. Grows
    <2>1. \A e \in Events : Emitted(e) => e[1] # g
        BY <1>7 DEF Emitted
    <2>2. \A f \in GatewayOrders \ {g} : PaidBy(f)' = PaidBy(f)
        BY <1>3, <1>4 DEF PaidBy, HasPayment
    <2>3. \A e \in Events : e[1] \in GatewayOrders
        BY DEF Events
    <2> QED
        BY <1>3, <1>4, <2>1, <2>2, <2>3 DEF Grows, HasPayment, Emitted, AmountMatches
<1>10. Recorded'
    <2>1. RowOf(o)'
        BY <1>2, <1>3, <1>4 DEF RowOf, HasPayment, Online, Provider
    <2>2. ASSUME NEW p \in Orders \ {o} PROVE RowOf(p)'
        BY <1>1, <1>3, <1>4 DEF Rows, Recorded, RowOf, HasPayment, Online, Provider
    <2> QED
        BY <2>1, <2>2 DEF Recorded
<1>11. RefundsTold'
    <2>1. RefundOf(o)'
        BY <1>1, <1>3, <1>4, <1>7 DEF Rows, RefundsTold, RefundOf, HasPayment, Online
    <2>2. ASSUME NEW p \in Orders \ {o} PROVE RefundOf(p)'
        BY <1>1, <1>3, <1>4 DEF Rows, RefundsTold, RefundOf, HasPayment, Online
    <2> QED
        BY <2>1, <2>2 DEF RefundsTold
<1>12. WorldIsShown' /\ OnlyRecordedOrderIsShown'
    BY <1>1, <1>3, <1>4, <1>8 DEF Rows, WorldIsShown, OnlyRecordedOrderIsShown, HasPayment
<1>13. PaymentAgreesWithOrder' /\ ConfirmedOnlineIsPaid'
    BY <1>1, <1>3, <1>4, <1>5
    DEF Rows, PaymentAgreesWithOrder, ConfirmedOnlineIsPaid, HasPayment, PastPayment, KeepsStock
<1>14. Others(h)
    BY <1>0, <1>3 DEF Others
<1>15. Serving(request[h], task[h])' /\ task'[h].kind # "refund"
    BY <1>0, <1>2, <1>3 DEF Serving, NoTask
<1> QED
    BY <1>3, <1>9, <1>10, <1>11, <1>12, <1>13, <1>14, <1>15, HandlerKeeps DEF Rows

-----------------------------------------------------------------------------
(* The webhook's own steps.                                                  *)

\* A delivery is recorded as received.
LEMMA ReceiveKept ==
    ASSUME MoneyInv, NEW h \in Handlers, NEW e \in Events, ReceiveWebhook(h, e)
    PROVE  Kept
<1>0. /\ task \in [Handlers -> Tasks]
      /\ eventRow \in [Events -> {"absent", "received", "processed"}]
    BY DEF MoneyInv, Typed, PayTypeOK
<1>1. /\ UNCHANGED <<vars, method, payment, refundRow, refundMailed, gateway>>
      /\ request[h] = Idle /\ Emitted(e)
      /\ task' = [task EXCEPT ![h] = [kind |-> "webhook", event |-> e, pc |-> "lookup"]]
      /\ eventRow' = [eventRow EXCEPT ![e] = "received"]
    BY DEF ReceiveWebhook, Free
<1>2. Grows
    BY <1>1 DEF Grows, vars, gateway, HasPayment, PaidBy, Emitted, AmountMatches
<1>3. Rows'
    BY <1>1
    DEF MoneyInv, Rows, vars, gateway, Recorded, RowOf, WorldIsShown, RefundsTold, RefundOf,
        OnlyRecordedOrderIsShown, PaymentAgreesWithOrder, ConfirmedOnlineIsPaid,
        HasPayment, Online, Provider
<1>4. Others(h)
    BY <1>0, <1>1 DEF Others, vars
<1>5. task'[h] = [kind |-> "webhook", event |-> e, pc |-> "lookup"] /\ request'[h] = Idle
    BY <1>0, <1>1 DEF vars
<1>6. Serving(request[h], task[h])'
    <2>1. Emitted(e)'
        BY <1>1, <1>2 DEF Grows
    <2> QED
        BY <1>5, <2>1 DEF Serving
<1>7. Served' /\ OneRefunder'
    BY <1>2, <1>4, <1>5, <1>6, ServedKept, OneRefunderKept DEF MoneyInv
<1>8. ASSUME NEW f \in Events
      PROVE  /\ eventRow'[f] # "absent" => Emitted(f)'
             /\ eventRow'[f] = "processed" => Applied(f)'
    <2>1. eventRow'[f] # eventRow[f] => f = e /\ eventRow'[f] = "received"
        BY <1>0, <1>1
    <2> QED
        BY <1>1, <1>2, <2>1, EventsKept DEF MoneyInv
<1> QED
    BY <1>2, <1>3, <1>7, <1>8 DEF Kept, EventsTold

\* The webhook's reads: it finds nothing to apply, or an order that waits for payment.
LEMMA LookupKept ==
    ASSUME MoneyInv, NEW h \in Handlers,
           NothingToApply(h) \/ \E o \in Orders : ReadWebhookOrder(h, o)
    PROVE  Kept
<1>0. task \in [Handlers -> Tasks] /\ request \in [Handlers -> {Idle} \cup Requests]
    BY DEF MoneyInv, Typed, TypeOK
<1>1. /\ UNCHANGED <<status, payRows, gateway>>
      /\ task[h].kind = "webhook" /\ task[h].pc = "lookup"
      /\ task' = [task EXCEPT ![h].pc = "ack"]
      /\ \A k \in Handlers \ {h} : request'[k] = request[k]
    BY <1>0 DEF NothingToApply, ReadWebhookOrder, ReadOrder, Doing, vars
<1>2. PICK e \in Events : e = task[h].event /\ Emitted(e)
    BY <1>1, TaskShape DEF MoneyInv, Served, Serving
<1>3. Grows /\ Rows'
    BY <1>1, NothingMoves
<1>4. Others(h)
    BY <1>0, <1>1 DEF Others, payRows
<1>5. task'[h].kind = "webhook" /\ task'[h].pc = "ack" /\ task'[h].event = e
    <2>1. task[h] \in HookTasks
        BY <1>1, TaskShape DEF MoneyInv
    <2>2. task'[h] = [task[h] EXCEPT !.pc = "ack"]
        BY <1>0, <1>1
    <2> QED
        BY <1>1, <1>2, <2>1, <2>2 DEF HookTasks
<1>6. /\ Emitted(e)' /\ PaidBy(e[1])' = PaidBy(e[1]) /\ (Applied(e) => Applied(e)')
      /\ (AmountMatches(e) => AmountMatches(e)')
    BY <1>1, <1>2, <1>3 DEF Grows, Applied
<1>7. Serving(request[h], task[h])'
    <2>1. CASE NothingToApply(h)
        <3>1. request'[h] = Idle
            BY <1>1, <2>1 DEF NothingToApply, vars, MoneyInv, Served, Serving
        <3>2. Applied(e)
            <4>1. /\ e[1] \in GatewayOrders
                  /\ From[OpFor(e)] = {"PENDING_PAYMENT"}
                BY DEF Events, OpFor, From
            <4>2. ASSUME NEW o \in PaidBy(e[1]), status[o] \notin From[OpFor(e)],
                         NEW p \in PaidBy(e[1])
                  PROVE  status[p] # "PENDING_PAYMENT"
                BY <4>1, <4>2, PaidOnce
            <4> QED
                BY <1>2, <2>1, <4>2 DEF NothingToApply, Applied
        <3> QED
            BY <1>5, <1>6, <3>1, <3>2 DEF Serving
    <2>2. ASSUME NEW o \in Orders, ReadWebhookOrder(h, o)
          PROVE  Serving(request[h], task[h])'
        <3>1. /\ request'[h] = [op |-> OpFor(e), order |-> o, seen |-> status[o], pc |-> "tx"]
              /\ o \in PaidBy(e[1]) /\ AmountMatches(e)
            BY <1>0, <1>2, <2>2 DEF ReadWebhookOrder, ReadOrder
        <3>2. /\ request'[h].op = OpFor(e) /\ request'[h].order = o /\ request'[h].pc = "tx"
              /\ request'[h] # Idle
            BY <3>1 DEF Idle, OpFor
        <3> QED
            BY <1>5, <1>6, <3>1, <3>2 DEF Serving
    <2> QED
        BY <2>1, <2>2
<1> QED
    BY <1>1, <1>3, <1>4, <1>5, <1>7, HandlerKeeps DEF payRows

\* An event is acknowledged by a handler that has seen it applied.
LEMMA AcknowledgeKept ==
    ASSUME MoneyInv, NEW h \in Handlers, AcknowledgeWebhook(h)
    PROVE  Kept
<1>0. /\ task \in [Handlers -> Tasks]
      /\ eventRow \in [Events -> {"absent", "received", "processed"}]
    BY DEF MoneyInv, Typed, PayTypeOK
<1>1. /\ UNCHANGED <<vars, method, payment, refundRow, refundMailed, gateway>>
      /\ request[h] = Idle /\ task[h].kind = "webhook" /\ task[h].pc = "ack"
      /\ task' = [task EXCEPT ![h] = NoTask]
    BY DEF AcknowledgeWebhook, Doing
<1>2. PICK e \in Events : /\ e = task[h].event /\ Emitted(e) /\ Applied(e)
                          /\ eventRow' = [eventRow EXCEPT ![e] = "processed"]
    BY <1>1, TaskShape DEF AcknowledgeWebhook, MoneyInv, Served, Serving
<1>3. Grows
    BY <1>1 DEF Grows, vars, gateway, HasPayment, PaidBy, Emitted, AmountMatches
<1>4. Rows'
    BY <1>1
    DEF MoneyInv, Rows, vars, gateway, Recorded, RowOf, WorldIsShown, RefundsTold, RefundOf,
        OnlyRecordedOrderIsShown, PaymentAgreesWithOrder, ConfirmedOnlineIsPaid,
        HasPayment, Online, Provider
<1>5. Others(h)
    BY <1>0, <1>1 DEF Others, vars
<1>6. Serving(request[h], task[h])' /\ task'[h].kind # "refund"
    BY <1>0, <1>1 DEF Serving, NoTask, vars
<1>7. Served' /\ OneRefunder'
    BY <1>3, <1>5, <1>6, ServedKept, OneRefunderKept DEF MoneyInv
<1>8. ASSUME NEW f \in Events
      PROVE  /\ eventRow'[f] # "absent" => Emitted(f)'
             /\ eventRow'[f] = "processed" => Applied(f)'
    <2>1. eventRow'[f] # eventRow[f] => f = e
        BY <1>0, <1>2
    <2> QED
        BY <1>2, <1>3, <2>1, EventsKept DEF MoneyInv
<1> QED
    BY <1>3, <1>4, <1>7, <1>8 DEF Kept, EventsTold

-----------------------------------------------------------------------------
(* Cash and refunds.                                                         *)

\* Cash is collected for a delivered order only.
LEMMA CollectKept ==
    ASSUME MoneyInv, NEW h \in Handlers, CollectCash(h)
    PROVE  Kept
<1>0. task \in [Handlers -> Tasks] /\ payment \in [Orders -> {NoPayment} \cup PaymentRows]
    BY DEF MoneyInv, Typed, PayTypeOK
<1>1. Rows
    BY DEF MoneyInv, Rows
<1>2. PICK o \in Orders : o = task[h].order /\ status[o] = "DELIVERED"
    BY TaskShape DEF CollectCash, Doing, MoneyInv, Served, Serving
<1>3. /\ UNCHANGED <<status, request, method, eventRow, refundRow, refundMailed, gateway>>
      /\ request[h] = Idle
      /\ task' = [task EXCEPT ![h] = NoTask]
    BY DEF CollectCash, vars
<1>4. /\ \A p \in Orders \ {o} : payment'[p] = payment[p]
      /\ payment'[o] = payment[o] \/
           /\ HasPayment(o) /\ HasPayment(o)'
           /\ payment[o].status = "PENDING" /\ payment[o].provider = "COD"
           /\ payment'[o].status = "CAPTURED"
           /\ payment'[o].provider = payment[o].provider
           /\ payment'[o].razorpayOrder = payment[o].razorpayOrder
           /\ payment'[o].razorpayPayment = payment[o].razorpayPayment
    <2>1. CASE payment' = payment
        BY <2>1
    <2>2. CASE payment' # payment
        <3>1. /\ HasPayment(o) /\ payment[o].status = "PENDING" /\ payment[o].provider = "COD"
              /\ payment' = [payment EXCEPT ![o].status = "CAPTURED"]
            BY <1>2, <2>2 DEF CollectCash
        <3>2. payment'[o] = [payment[o] EXCEPT !.status = "CAPTURED"] /\ payment[o] \in PaymentRows
            BY <1>0, <3>1, RowShape
        <3>3. /\ payment'[o].status = "CAPTURED"
              /\ payment'[o].provider = payment[o].provider
              /\ payment'[o].razorpayOrder = payment[o].razorpayOrder
              /\ payment'[o].razorpayPayment = payment[o].razorpayPayment
            BY <3>2 DEF PaymentRows
        <3>4. HasPayment(o)'
            BY <3>3 DEF HasPayment, NoPayment
        <3> QED
            BY <1>0, <3>1, <3>3, <3>4
    <2> QED
        BY <2>1, <2>2
<1>5. \A p \in Orders : /\ HasPayment(p)' <=> HasPayment(p)
                        /\ HasPayment(p) =>
                             /\ payment'[p].provider = payment[p].provider
                             /\ payment'[p].razorpayOrder = payment[p].razorpayOrder
                             /\ payment'[p].razorpayPayment = payment[p].razorpayPayment
    BY <1>4 DEF HasPayment
<1>6. Grows
    BY <1>3, <1>5 DEF Grows, gateway, PaidBy, Emitted, AmountMatches
<1>7. Recorded' /\ WorldIsShown' /\ OnlyRecordedOrderIsShown' /\ ConfirmedOnlineIsPaid'
    BY <1>1, <1>3, <1>5
    DEF Rows, gateway, Recorded, RowOf, WorldIsShown, OnlyRecordedOrderIsShown,
        ConfirmedOnlineIsPaid, Online, Provider
<1>8. RefundsTold' /\ PaymentAgreesWithOrder'
    BY <1>1, <1>2, <1>3, <1>4, <1>5
    DEF Rows, gateway, RefundsTold, RefundOf, PaymentAgreesWithOrder, Online
<1>9. Others(h)
    BY <1>0, <1>3 DEF Others
<1>10. Serving(request[h], task[h])' /\ task'[h].kind # "refund"
    BY <1>0, <1>3 DEF Serving, NoTask
<1> QED
    BY <1>3, <1>6, <1>7, <1>8, <1>9, <1>10, HandlerKeeps DEF Rows

\* A refund's task, one step on.
LEMMA RefundTaskMoves ==
    ASSUME MoneyInv, NEW h \in Handlers, task[h].kind = "refund", NEW s \in RefundSteps,
           task' = [task EXCEPT ![h].pc = s], request' = request
    PROVE  /\ task'[h].kind = "refund" /\ task'[h].pc = s /\ task'[h].order = task[h].order
           /\ task[h].order \in Orders
           /\ \A k \in Handlers \ {h} :
                /\ task'[k] = task[k]
                /\ task[k].kind = "refund" => task[k].order # task[h].order
           /\ Serving(request[h], task[h]) /\ request'[h] = request[h]
<1>0. task \in [Handlers -> Tasks] /\ Serving(request[h], task[h])
    BY DEF MoneyInv, Typed, Served
<1>1. task[h] \in RefundTasks /\ task[h].order \in Orders
    BY TaskShape DEF MoneyInv
<1>2. task'[h] = [task[h] EXCEPT !.pc = s] /\ \A k \in Handlers \ {h} : task'[k] = task[k]
    BY <1>0
<1>3. task'[h].kind = "refund" /\ task'[h].pc = s /\ task'[h].order = task[h].order
    BY <1>1, <1>2 DEF RefundTasks
<1>4. \A k \in Handlers \ {h} : task[k].kind = "refund" => task[k].order # task[h].order
    BY <1>1 DEF MoneyInv, OneRefunder, Refunds
<1> QED
    BY <1>0, <1>1, <1>2, <1>3, <1>4

\* A refund is decided: only what was paid through Razorpay goes back that way.
LEMMA DecideKept ==
    ASSUME MoneyInv, NEW h \in Handlers, DecideRefund(h)
    PROVE  Kept
<1>1. PICK s \in RefundSteps :
        /\ task' = [task EXCEPT ![h].pc = s]
        /\ s = "done" \/ (s = "gateway" /\ refundRow[task[h].order] = "NONE" /\ Refundable(task[h].order))
    BY DEF DecideRefund, RefundSteps
<1>2. UNCHANGED <<vars, payRows, gateway>> /\ task[h].kind = "refund"
    BY DEF DecideRefund, Doing
<1>3. Grows /\ Rows'
    BY <1>2, NothingMoves DEF vars
<1>4. PICK o \in Orders : o = task[h].order
    BY <1>1, <1>2, RefundTaskMoves DEF vars
<1>5. /\ task'[h].kind = "refund" /\ task'[h].pc = s /\ task'[h].order = o
      /\ request'[h] = request[h] /\ Serving(request[h], task[h])
    BY <1>1, <1>2, <1>4, RefundTaskMoves DEF vars
<1>6. Others(h)
    BY <1>1, <1>2, RefundTaskMoves DEF Others, vars, payRows
<1>7. Refundable(o) => HasPayment(o) /\ Online(o)
    BY DEF Refundable, MoneyInv, Recorded, RowOf
<1>8. Serving(request[h], task[h])'
    BY <1>1, <1>2, <1>4, <1>5, <1>7
    DEF Serving, vars, payRows, HasPayment, Online
<1> QED
    BY <1>2, <1>3, <1>4, <1>5, <1>6, <1>8, HandlerKeeps DEF payRows

\* Razorpay refunds the money of the cancelled order, and of no other.
LEMMA GatewayRefundsKept ==
    ASSUME MoneyInv, NEW h \in Handlers, GatewayRefunds(h)
    PROVE  Kept
<1>0. money \in [GatewayOrders -> {"none", "captured", "short", "refunded"}]
    BY DEF MoneyInv, Typed, PayTypeOK
<1>1. Rows
    BY DEF MoneyInv, Rows
<1>2. PICK s \in {"record", "recordFailure"} :
        /\ task' = [task EXCEPT ![h].pc = s]
        /\ s = "record" => /\ money[payment[task[h].order].razorpayOrder] = "captured"
                           /\ money' = [money EXCEPT ![payment[task[h].order].razorpayOrder] = "refunded"]
    BY DEF GatewayRefunds
<1>3. /\ UNCHANGED <<vars, payRows, gatewayOrder, shown, failedAttempt>> /\ task[h].kind = "refund"
      /\ task[h].pc = "gateway"
      /\ \/ money' = money
         \/ /\ money[payment[task[h].order].razorpayOrder] = "captured"
            /\ money' = [money EXCEPT ![payment[task[h].order].razorpayOrder] = "refunded"]
    BY DEF GatewayRefunds, Doing
<1>4. UNCHANGED <<status, request, method, payment, eventRow, refundRow, refundMailed>>
    BY <1>3 DEF vars, payRows
<1>5. PICK o \in Orders : o = task[h].order
    BY <1>2, <1>3, <1>4, RefundTaskMoves DEF RefundSteps
<1>6. /\ task'[h].kind = "refund" /\ task'[h].pc = s /\ task'[h].order = o
      /\ request'[h] = request[h] /\ Serving(request[h], task[h])
    BY <1>2, <1>3, <1>4, <1>5, RefundTaskMoves DEF RefundSteps
<1>7. /\ status[o] = "CANCELLED" /\ HasPayment(o) /\ Online(o) /\ refundRow[o] = "NONE"
      /\ request[h] # Idle => request[h].pc = "committed"
    BY <1>3, <1>5, <1>6 DEF Serving
<1>8. PICK g \in GatewayOrders : g = payment[o].razorpayOrder /\ gatewayOrder[g] = o
    BY <1>1, <1>7 DEF Rows, Recorded, RowOf
<1>9. /\ \A f \in GatewayOrders \ {g} : money'[f] = money[f]
      /\ money'[g] = money[g] \/ (money[g] = "captured" /\ money'[g] = "refunded")
      /\ s = "record" => money'[g] = "refunded"
    BY <1>0, <1>2, <1>3, <1>5, <1>8
<1>10. Grows
    <2>1. \A e \in Events : e[1] \in GatewayOrders
        BY DEF Events
    <2> QED
        BY <1>3, <1>4, <1>9, <2>1 DEF Grows, Emitted, AmountMatches, HasPayment, PaidBy
<1>11. \A p \in Orders : HasPayment(p) /\ Online(p) =>
         /\ payment[p].razorpayOrder \in GatewayOrders
         /\ payment[p].razorpayOrder = g => p = o
    BY <1>1, <1>8 DEF Rows, Recorded, RowOf
<1>12. WorldIsShown' /\ OnlyRecordedOrderIsShown' /\ PaymentAgreesWithOrder' /\ Recorded'
    BY <1>1, <1>3, <1>4, <1>9
    DEF Rows, WorldIsShown, OnlyRecordedOrderIsShown, PaymentAgreesWithOrder, Recorded, RowOf,
        HasPayment, Online, Provider
<1>13. RefundsTold'
    BY <1>1, <1>4, <1>7, <1>9, <1>11 DEF Rows, RefundsTold, RefundOf, HasPayment, Online
<1>14. ConfirmedOnlineIsPaid'
    BY <1>1, <1>3, <1>4, <1>9, <1>11 DEF Rows, ConfirmedOnlineIsPaid, HasPayment, Online
<1>15. Others(h)
    BY <1>2, <1>3, <1>4, RefundTaskMoves DEF Others, RefundSteps
<1>16. Serving(request[h], task[h])'
    BY <1>4, <1>6, <1>7, <1>8, <1>9 DEF Serving, HasPayment, Online
<1> QED
    BY <1>3, <1>4, <1>5, <1>6, <1>10, <1>12, <1>13, <1>14, <1>15, <1>16, HandlerKeeps DEF Rows

\* The first and only Refund row of the order: completed if the money went back.
LEMMA RefundRowKept ==
    ASSUME MoneyInv, NEW h \in Handlers, NEW o \in Orders,
           NEW row \in {"COMPLETED", "FAILED"}, NEW s \in RefundSteps,
           task[h].kind = "refund", o = task[h].order,
           refundRow[o] = "NONE", status[o] = "CANCELLED", HasPayment(o), Online(o),
           row = "COMPLETED" => money[payment[o].razorpayOrder] = "refunded",
           s = "done" \/ (s = "markRefunded" /\ row = "COMPLETED"),
           refundRow' = [refundRow EXCEPT ![o] = row], task' = [task EXCEPT ![h].pc = s],
           UNCHANGED <<vars, method, payment, eventRow, refundMailed, gateway>>
    PROVE  Kept
<1>0. refundRow \in [Orders -> {"NONE", "COMPLETED", "FAILED"}]
    BY DEF MoneyInv, Typed, PayTypeOK
<1>1. Rows
    BY DEF MoneyInv, Rows
<1>2. UNCHANGED <<status, request, method, payment, eventRow, refundMailed, gatewayOrder, shown,
                  money, failedAttempt>>
    BY DEF vars, gateway
<1>3. refundRow'[o] = row /\ \A p \in Orders \ {o} : refundRow'[p] = refundRow[p]
    BY <1>0
<1>4. Grows
    BY <1>2 DEF Grows, HasPayment, PaidBy, Emitted, AmountMatches
<1>5. RefundsTold'
    <2>1. RefundOf(o)'
        BY <1>1, <1>2, <1>3 DEF Rows, RefundsTold, RefundOf, HasPayment, Online
    <2>2. ASSUME NEW p \in Orders \ {o} PROVE RefundOf(p)'
        BY <1>1, <1>2, <1>3 DEF Rows, RefundsTold, RefundOf, HasPayment, Online
    <2> QED
        BY <2>1, <2>2 DEF RefundsTold
<1>6. Rows'
    BY <1>1, <1>2, <1>5
    DEF Rows, Recorded, RowOf, WorldIsShown, OnlyRecordedOrderIsShown, PaymentAgreesWithOrder,
        ConfirmedOnlineIsPaid, HasPayment, Online, Provider
<1>7. /\ task'[h].kind = "refund" /\ task'[h].pc = s /\ task'[h].order = o
      /\ request'[h] = request[h] /\ Serving(request[h], task[h])
      /\ \A k \in Handlers \ {h} : task'[k] = task[k] /\ (task[k].kind = "refund" => task[k].order # o)
    BY <1>2, RefundTaskMoves
<1>8. \A k \in Handlers : task[k].kind = "refund" => task[k].order \in Orders
    BY TaskShape DEF MoneyInv
<1>9. Others(h)
    BY <1>2, <1>3, <1>7, <1>8 DEF Others
<1>10. Serving(request[h], task[h])'
    BY <1>2, <1>3, <1>7 DEF Serving, HasPayment, Online
<1> QED
    BY <1>2, <1>4, <1>6, <1>7, <1>9, <1>10, HandlerKeeps

\* The Refund row is written as the gateway answered, or not at all.
LEMMA RecordKept ==
    ASSUME MoneyInv, NEW h \in Handlers, RecordRefund(h) \/ RecordRefundFailure(h)
    PROVE  Kept
<1>1. /\ task[h].kind = "refund" /\ task[h].pc \in {"record", "recordFailure"}
      /\ UNCHANGED <<vars, method, payment, eventRow, refundMailed, gateway>>
    BY DEF RecordRefund, RecordRefundFailure, Doing
<1>2. PICK o \in Orders : o = task[h].order
    BY <1>1, TaskShape DEF MoneyInv
<1>3. /\ status[o] = "CANCELLED" /\ refundRow[o] = "NONE" /\ HasPayment(o) /\ Online(o)
      /\ task[h].pc = "record" => money[payment[o].razorpayOrder] = "refunded"
      /\ request[h] # Idle => request[h].pc = "committed"
    BY <1>1, <1>2 DEF MoneyInv, Served, Serving
<1>4. ASSUME task[h].pc = "record", refundRow' = [refundRow EXCEPT ![o] = "COMPLETED"],
             task' = [task EXCEPT ![h].pc = "markRefunded"]
      PROVE  Kept
    BY <1>1, <1>2, <1>3, <1>4, RefundRowKept DEF RefundSteps
<1>5. ASSUME refundRow' = [refundRow EXCEPT ![o] = "FAILED"], task' = [task EXCEPT ![h].pc = "done"]
      PROVE  Kept
    BY <1>1, <1>2, <1>3, <1>5, RefundRowKept DEF RefundSteps
<1>6. ASSUME refundRow' = refundRow, task' = [task EXCEPT ![h].pc = "recordFailure"]
      PROVE  Kept
    <2>1. Grows /\ Rows'
        BY <1>1, <1>6, NothingMoves DEF vars, payRows
    <2>0. request' = request /\ "recordFailure" \in RefundSteps
        BY <1>1 DEF vars, RefundSteps
    <2>2. /\ task'[h].kind = "refund" /\ task'[h].pc = "recordFailure" /\ task'[h].order = o
          /\ request'[h] = request[h]
          /\ \A k \in Handlers \ {h} : task'[k] = task[k] /\ request'[k] = request[k]
        BY <1>1, <1>2, <1>6, <2>0, RefundTaskMoves
    <2>3. Others(h)
        BY <1>6, <2>2 DEF Others
    <2>4. Serving(request[h], task[h])'
        BY <1>1, <1>3, <1>6, <2>2 DEF Serving, vars, HasPayment, Online
    <2> QED
        BY <1>1, <1>2, <2>1, <2>2, <2>3, <2>4, HandlerKeeps
<1> QED
    BY <1>2, <1>4, <1>5, <1>6 DEF RecordRefund, RecordRefundFailure, Doing

\* The Payment row of an order whose refund is on record becomes REFUNDED.
LEMMA MarkKept ==
    ASSUME MoneyInv, NEW h \in Handlers, MarkPaymentRefunded(h)
    PROVE  Kept
<1>0. payment \in [Orders -> {NoPayment} \cup PaymentRows]
    BY DEF MoneyInv, Typed, PayTypeOK
<1>1. Rows
    BY DEF MoneyInv, Rows
<1>2. /\ task[h].kind = "refund" /\ task[h].pc = "markRefunded"
      /\ task' = [task EXCEPT ![h].pc = "done"]
      /\ UNCHANGED <<status, request, method, eventRow, refundRow, refundMailed, gateway>>
    BY DEF MarkPaymentRefunded, Doing, vars
<1>3. PICK o \in Orders : o = task[h].order
    BY <1>2, TaskShape DEF MoneyInv
<1>4. /\ status[o] = "CANCELLED" /\ refundRow[o] = "COMPLETED" /\ HasPayment(o) /\ Online(o)
      /\ request[h] # Idle => request[h].pc = "committed"
    BY <1>2, <1>3 DEF MoneyInv, Served, Serving
<1>5. \/ payment' = payment
      \/ /\ \A p \in Orders \ {o} : payment'[p] = payment[p]
         /\ payment'[o] = [payment[o] EXCEPT !.status = "REFUNDED"]
    BY <1>0, <1>3 DEF MarkPaymentRefunded
<1>6. /\ [payment[o] EXCEPT !.status = "REFUNDED"].status = "REFUNDED"
      /\ [payment[o] EXCEPT !.status = "REFUNDED"].provider = payment[o].provider
      /\ [payment[o] EXCEPT !.status = "REFUNDED"].razorpayOrder = payment[o].razorpayOrder
      /\ [payment[o] EXCEPT !.status = "REFUNDED"].razorpayPayment = payment[o].razorpayPayment
    BY <1>4, RowShape DEF PaymentRows
<1>7. \A p \in Orders :
        /\ HasPayment(p)' <=> HasPayment(p)
        /\ HasPayment(p) =>
             /\ payment'[p].provider = payment[p].provider
             /\ payment'[p].razorpayOrder = payment[p].razorpayOrder
             /\ payment'[p].razorpayPayment = payment[p].razorpayPayment
             /\ payment'[p].status = payment[p].status \/ (p = o /\ payment'[p].status = "REFUNDED")
    <2>1. [payment[o] EXCEPT !.status = "REFUNDED"] # NoPayment
        BY <1>6 DEF NoPayment
    <2>2. CASE payment' = payment
        BY <2>2 DEF HasPayment
    <2>3. CASE payment' # payment
        BY <1>4, <1>5, <1>6, <2>1, <2>3 DEF HasPayment
    <2> QED
        BY <2>2, <2>3
<1>8. Grows
    BY <1>2, <1>7 DEF Grows, gateway, PaidBy, Emitted, AmountMatches
<1>9. Recorded' /\ WorldIsShown' /\ OnlyRecordedOrderIsShown' /\ ConfirmedOnlineIsPaid'
    BY <1>1, <1>2, <1>7
    DEF Rows, gateway, Recorded, RowOf, WorldIsShown, OnlyRecordedOrderIsShown,
        ConfirmedOnlineIsPaid, Online, Provider
<1>10. RefundsTold' /\ PaymentAgreesWithOrder'
    BY <1>1, <1>2, <1>4, <1>7
    DEF Rows, gateway, RefundsTold, RefundOf, PaymentAgreesWithOrder, Online
<1>11. /\ task'[h].kind = "refund" /\ task'[h].pc = "done" /\ task'[h].order = o
       /\ request'[h] = request[h]
       /\ \A k \in Handlers \ {h} : task'[k] = task[k] /\ request'[k] = request[k]
    BY <1>2, <1>3, RefundTaskMoves DEF RefundSteps
<1>12. Others(h)
    BY <1>2, <1>11 DEF Others
<1>13. Serving(request[h], task[h])'
    BY <1>2, <1>4, <1>11 DEF Serving
<1> QED
    BY <1>2, <1>3, <1>8, <1>9, <1>10, <1>11, <1>12, <1>13, HandlerKeeps DEF Rows

\* REFUND_COMPLETED is sent on the word of the Refund row.
LEMMA FinishKept ==
    ASSUME MoneyInv, NEW h \in Handlers, FinishCancellation(h)
    PROVE  Kept
<1>0. task \in [Handlers -> Tasks]
    BY DEF MoneyInv, Typed
<1>1. Rows
    BY DEF MoneyInv, Rows
<1>2. /\ UNCHANGED <<status, request, method, payment, eventRow, refundRow, gatewayOrder, shown,
                     money, failedAttempt>>
      /\ request[h] = Idle /\ task' = [task EXCEPT ![h] = NoTask]
      /\ \A o \in refundMailed' : o \in refundMailed \/ refundRow[o] = "COMPLETED"
    BY DEF FinishCancellation, vars, gateway
<1>3. Grows
    BY <1>2 DEF Grows, HasPayment, PaidBy, Emitted, AmountMatches
<1>4. Rows'
    BY <1>1, <1>2
    DEF Rows, Recorded, RowOf, WorldIsShown, RefundsTold, RefundOf, OnlyRecordedOrderIsShown,
        PaymentAgreesWithOrder, ConfirmedOnlineIsPaid, HasPayment, Online, Provider
<1>5. Others(h)
    BY <1>0, <1>2 DEF Others
<1>6. Serving(request[h], task[h])' /\ task'[h].kind # "refund"
    BY <1>0, <1>2 DEF Serving, NoTask
<1> QED
    BY <1>2, <1>3, <1>4, <1>5, <1>6, HandlerKeeps

-----------------------------------------------------------------------------
(* The invariant holds, and with it the properties.                          *)

\* Every step keeps the invariant and takes nothing back.
LEMMA StepKeeps ==
    ASSUME MoneyInv, PayNext
    PROVE  Kept
<1>1. ASSUME NEW h \in Handlers, Work(h) PROVE Kept
    BY <1>1, GatewayCreatesKept, InsertKept, DeferKept, ConfirmCodKept, LookupKept,
       WebhookAppliesKept, AcknowledgeKept, StaffMovesKept, CollectKept, DecideKept,
       GatewayRefundsKept, RecordKept, MarkKept, FinishKept, DoneKept
    DEF Work
<1>2. ASSUME NEW h \in Handlers, NEW op \in StaffOperations, NEW o \in Orders,
             StaffReadsOrder(h, op, o)
      PROVE  Kept
    BY <1>2, ReadsKept
<1> QED
    BY <1>1, <1>2, PlacesKept, CustomerKept, ReuseKept, StartKept, ReadsKept, ReceiveKept,
       CrashKept, AdjustKept
    DEF PayNext

\* The invariant is inductive.
LEMMA MoneyInvKept ==
    ASSUME MoneyInv, [PayNext]_payVars
    PROVE  MoneyInv'
<1>1. CASE PayNext
    <2>1. TypeOK'
        BY <1>1, PayStepIsOrdersStep, TypeKept DEF MoneyInv, Typed
    <2>2. PayTypeOK' /\ task' \in [Handlers -> Tasks]
        BY <1>1, PayTypesKept
    <2>3. Typed'
        <3>1. task' \in [Handlers -> Tasks]
            BY <2>2
        <3> QED
            BY <2>1, <2>2, <3>1 DEF Typed
    <2> QED
        BY <1>1, <2>3, StepKeeps DEF MoneyInv, Kept, Rows
<1>2. CASE UNCHANGED payVars
    <2>1. UNCHANGED <<status, payRows, gateway>> /\ UNCHANGED <<request, task, refundRow, eventRow>>
        BY <1>2 DEF payVars, vars, payRows
    <2>2. Kept
        BY <2>1, NothingMoves, NobodyNotices
    <2>3. Typed'
        BY <1>2 DEF MoneyInv, Typed, TypeOK, PayTypeOK, payVars, vars, stock, payRows, gateway
    <2> QED
        BY <2>2, <2>3 DEF MoneyInv, Kept, Rows
<1> QED
    BY <1>1, <1>2

\* Nothing is paid at the start.
LEMMA MoneyInvStarts ==
    ASSUME PayInit
    PROVE  MoneyInv
<1>1. TypeOK
    BY OrdersAssumption DEF PayInit, Init, TypeOK, Statuses, Idle
<1>2. PayTypeOK /\ task \in [Handlers -> Tasks]
    BY PaymentsAssumption DEF PayInit, PayTypeOK, Tasks, NoTask, Events
<1>3. \A o \in Orders : ~HasPayment(o) /\ status[o] = "NOT_PLACED"
    BY DEF PayInit, Init, HasPayment
<1>4. Recorded /\ WorldIsShown /\ EventsTold /\ RefundsTold
    BY <1>3
    DEF PayInit, Recorded, RowOf, WorldIsShown, EventsTold, RefundsTold, RefundOf, Events
<1>5. Served /\ OneRefunder
    BY DEF PayInit, Init, Served, Serving, OneRefunder, Refunds, NoTask, Idle
<1>6. OnlyRecordedOrderIsShown /\ PaymentAgreesWithOrder /\ ConfirmedOnlineIsPaid
    BY <1>3
    DEF PayInit, OnlyRecordedOrderIsShown, PaymentAgreesWithOrder, ConfirmedOnlineIsPaid,
        PastPayment, KeepsStock
<1> QED
    BY <1>1, <1>2, <1>4, <1>5, <1>6 DEF MoneyInv, Typed

\* Orders, Payment rows, Razorpay, webhooks and refunds agree at every step, for
\* any number of orders, Razorpay orders and handlers, whatever crashes.
THEOREM MoneyInvHolds == PaySpec => []MoneyInv
BY MoneyInvStarts, MoneyInvKept, PTL DEF PaySpec

\* Every payment row, event, refund and task keeps its type.
THEOREM PayTypesCorrect == PaySpec => []PayTypeOK
<1>1. MoneyInv => PayTypeOK
    BY DEF MoneyInv, Typed
<1> QED
    BY <1>1, MoneyInvHolds, PTL

\* No client, event of another order or capture of another amount confirms an
\* order that is to be paid online.
THEOREM ConfirmedMeansPaid == PaySpec => []ConfirmedOnlineIsPaid
<1>1. MoneyInv => ConfirmedOnlineIsPaid
    BY DEF MoneyInv
<1> QED
    BY <1>1, MoneyInvHolds, PTL

\* Whoever wins the race to create the Payment row, every customer is shown the
\* Razorpay order on it.
THEOREM RecordedOrderIsShown == PaySpec => []OnlyRecordedOrderIsShown
<1>1. MoneyInv => OnlyRecordedOrderIsShown
    BY DEF MoneyInv
<1> QED
    BY <1>1, MoneyInvHolds, PTL

\* Order and payment tell the same story after any sequence of webhooks,
\* deliveries, cancellations and crashes.
THEOREM PaymentAgrees == PaySpec => []PaymentAgreesWithOrder
<1>1. MoneyInv => PaymentAgreesWithOrder
    BY DEF MoneyInv
<1> QED
    BY <1>1, MoneyInvHolds, PTL

\* An event Razorpay will not send again has had its effect.
THEOREM NoAcknowledgedCaptureIsLost == PaySpec => []AcknowledgedMeansApplied
<1>1. MoneyInv => AcknowledgedMeansApplied
    BY DEF MoneyInv, EventsTold, Applied, AcknowledgedMeansApplied
<1> QED
    BY <1>1, MoneyInvHolds, PTL

\* The books and the customer are told of a refund only if the money went back,
\* and it only goes back for a cancelled order.
THEOREM RefundsAreTrue == PaySpec => []RefundIsTrue
<1>1. ASSUME MoneyInv PROVE RefundIsTrue
    <2>1. refundMailed \subseteq Orders /\ shown \in [Orders -> SUBSET GatewayOrders]
        BY <1>1 DEF MoneyInv, Typed, PayTypeOK
    <2>2. ASSUME NEW o \in Orders, HasPayment(o), NEW g \in shown[o], money[g] = "refunded"
          PROVE  status[o] = "CANCELLED"
        <3>1. payment[o].razorpayOrder = g /\ g \in GatewayOrders
            BY <1>1, <2>1, <2>2 DEF MoneyInv, OnlyRecordedOrderIsShown
        <3>2. Online(o)
            BY <1>1, <2>2, <3>1, PaymentsAssumption DEF MoneyInv, Recorded, RowOf
        <3> QED
            BY <1>1, <2>2, <3>1, <3>2 DEF MoneyInv, RefundsTold, RefundOf
    <2> QED
        BY <1>1, <2>1, <2>2 DEF MoneyInv, RefundsTold, RefundOf, RefundIsTrue
<1> QED
    BY <1>1, MoneyInvHolds, PTL

\* A Payment row is only written where the life of a payment goes on.
LEMMA StatusAdvances ==
    ASSUME MoneyInv, PayNext, NEW o \in Orders, payment'[o] # payment[o]
    PROVE  <<payment[o].status, payment'[o].status>> \in PaymentMoves
<1> DEFINE Goal == <<payment[o].status, payment'[o].status>> \in PaymentMoves
<1>0. /\ payment \in [Orders -> {NoPayment} \cup PaymentRows] /\ Typed
      /\ payment[o] \in {NoPayment} \cup PaymentRows
    BY DEF MoneyInv, Typed, PayTypeOK
<1>1. /\ ~HasPayment(o) => payment[o].status = "NONE"
      /\ HasPayment(o) /\ status[o] = "PENDING_PAYMENT" => payment[o].status = "CREATED"
    BY DEF HasPayment, NoPayment, MoneyInv, PaymentAgreesWithOrder
<1>2. ASSUME NEW h \in Handlers, InsertPayment(h) PROVE Goal
    <2>1. task[h].order = o /\ ~HasPayment(o) /\ payment'[o].status = "CREATED"
        BY <1>0, <1>2 DEF InsertPayment
    <2> QED
        BY <1>1, <2>1 DEF PaymentMoves
<1>3. ASSUME NEW h \in Handlers, ConfirmCodOrder(h) PROVE Goal
    <2>1. request[h].order = o /\ payment'[o].status = "PENDING"
        BY <1>0, <1>3 DEF ConfirmCodOrder
    <2>2. status[o] = "PENDING_PAYMENT"
        BY <1>3, <2>1, SettlingRequest DEF ConfirmCodOrder, ConfirmOrder
    <2> QED
        BY <1>1, <2>1, <2>2 DEF PaymentMoves
<1>4. ASSUME NEW h \in Handlers, ApplyCapture(h) \/ ApplyFailure(h) PROVE Goal
    <2>1. /\ request[h].order = o
          /\ ApplyCapture(h) => payment' = [payment EXCEPT
               ![o].status = IF payment[o].provider = "COD" THEN "PENDING" ELSE "CAPTURED",
               ![o].razorpayPayment = TRUE]
          /\ ApplyFailure(h) => payment' = [payment EXCEPT ![o].status = "FAILED"]
        BY <1>0, <1>4 DEF ApplyCapture, ApplyFailure
    <2>2. status[o] = "PENDING_PAYMENT"
        BY <1>4, <2>1, SettlingRequest
        DEF ApplyCapture, ApplyFailure, ConfirmOrder, MarkOrderPaymentFailed
    <2>3. HasPayment(o)
        BY <1>0, <1>4, <2>1, SettlingRequest, TaskShape
        DEF ApplyCapture, ApplyFailure, ConfirmOrder, MarkOrderPaymentFailed, Serving, PaidBy
    <2>4. payment[o] \in PaymentRows
        BY <1>0, <2>3 DEF HasPayment
    <2>5. payment'[o].status \in {"PENDING", "CAPTURED", "FAILED"}
        BY <1>0, <1>4, <2>1, <2>4 DEF PaymentRows
    <2> QED
        BY <1>1, <2>2, <2>3, <2>5 DEF PaymentMoves
<1>5. ASSUME NEW h \in Handlers, CollectCash(h) PROVE Goal
    <2>1. /\ task[h].order = o /\ HasPayment(o) /\ payment[o].status = "PENDING"
          /\ payment' = [payment EXCEPT ![o].status = "CAPTURED"]
        BY <1>0, <1>5 DEF CollectCash
    <2>2. payment'[o].status = "CAPTURED"
        BY <1>0, <2>1 DEF HasPayment, PaymentRows
    <2> QED
        BY <2>1, <2>2 DEF PaymentMoves
<1>6. ASSUME NEW h \in Handlers, MarkPaymentRefunded(h) PROVE Goal
    <2>1. task[h].order = o /\ payment' = [payment EXCEPT ![o].status = "REFUNDED"]
        BY <1>0, <1>6 DEF MarkPaymentRefunded
    <2>2. HasPayment(o) /\ status[o] = "CANCELLED"
        BY <1>6, <2>1 DEF MarkPaymentRefunded, Doing, MoneyInv, Served, Serving
    <2>3. payment[o] \in PaymentRows
        BY <1>0, <2>2 DEF HasPayment
    <2>4. payment'[o] = [payment[o] EXCEPT !.status = "REFUNDED"]
        BY <1>0, <2>1
    <2>5. payment'[o].status = "REFUNDED" /\ payment[o].status # "REFUNDED"
        <3>1. payment'[o].status = "REFUNDED"
            BY <2>3, <2>4 DEF PaymentRows
        <3>2. payment[o].status = "REFUNDED" => payment'[o] = payment[o]
            BY <2>3, <2>4 DEF PaymentRows
        <3> QED
            BY <3>1, <3>2
    <2>6. payment[o].status \notin {"FAILED", "CREATED"}
        BY <2>2 DEF MoneyInv, PaymentAgreesWithOrder
    <2>7. payment[o].status \in {"PENDING", "CAPTURED"}
        BY <2>3, <2>5, <2>6 DEF PaymentRows, PaymentStatuses
    <2> QED
        BY <2>5, <2>7 DEF PaymentMoves
<1>7. CASE UNCHANGED payment
    BY <1>7
<1>8. ASSUME NEW h \in Handlers, Work(h) PROVE Goal
    <2>1. \/ InsertPayment(h) \/ ConfirmCodOrder(h) \/ ApplyCapture(h) \/ ApplyFailure(h)
          \/ CollectCash(h) \/ MarkPaymentRefunded(h) \/ UNCHANGED payment
        BY <1>8
        DEF Work, payRows, GatewayCreatesOrder, DeferToWinner, ReadWebhookOrder, NothingToApply,
            AcknowledgeWebhook, StaffMovesOrder, StaffDeliversOrder, StaffCancelsOrder,
            DecideRefund, GatewayRefunds, RecordRefund, RecordRefundFailure, FinishCancellation,
            HandlerLosesRace, HandlerNotifies
    <2> QED
        BY <1>2, <1>3, <1>4, <1>5, <1>6, <1>7, <2>1
<1>9. ASSUME ~ \E h \in Handlers : Work(h) PROVE UNCHANGED payment
    BY <1>9
    DEF PayNext, payRows, CustomerPlacesOrder, CustomerPays, AttemptFails, ReuseRazorpayOrder,
        StartRazorpayOrder, ReadCodOrder, ReceiveWebhook, StaffReadsOrder, HandlerCrashes,
        StaffAdjustsStock
<1> QED
    BY <1>7, <1>8, <1>9

\* No late event, delivery or refund takes a payment back, and nothing changes
\* the Razorpay order it was made with.
THEOREM PaymentsAdvance == PaySpec => PaymentOnlyAdvances
<1> DEFINE Advances == \A o \in Orders : payment'[o] # payment[o] =>
             /\ <<payment[o].status, payment'[o].status>> \in PaymentMoves
             /\ HasPayment(o) => payment'[o].razorpayOrder = payment[o].razorpayOrder
<1>1. MoneyInv /\ [PayNext]_payVars => [Advances]_payVars
    <2>1. ASSUME MoneyInv, PayNext PROVE Advances
        BY <2>1, StepKeeps, StatusAdvances DEF Kept, Grows
    <2> QED
        BY <2>1
<1> QED
    BY <1>1, MoneyInvHolds, PTL DEF PaySpec, PaymentOnlyAdvances
=============================================================================
