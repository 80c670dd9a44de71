------------------------------ MODULE Checkout ------------------------------
(* CheckoutUseCase (modules/orders) over the bags of Carts, and coupons      *)
(* (modules/coupons).  The bag is read before the transaction.  Inside it    *)
(* the Cart row and then the Coupon row are locked, and everything it wrote  *)
(* is seen at its commit.  There is one coupon; an order is what the         *)
(* properties need of it.  The books of the stock are in Orders: here the    *)
(* reservation succeeds or throws.                                           *)
EXTENDS Carts, Sequences

CONSTANTS
    MaxOrders, \* bound on the orders placed
    MaxLimit   \* bound on the limits an admin sets

ASSUME CheckoutAssumption == MaxOrders \in Nat /\ MaxLimit \in Nat \ {0}

VARIABLES
    coupon,     \* Coupon: isActive, usageLimit, perUserLimit, or deleted
    couponLock, \* whose transaction holds the lock of the Coupon row
    orders,     \* Order rows with their CouponRedemption, in order of commit
    sessions    \* how often each cart became ACTIVE

vars == <<cartVars, coupon, couponLock, orders, sessions>>
couponVars == <<coupon, couponLock>>

-----------------------------------------------------------------------------
Deleted == [deleted |-> TRUE]
Coupon == [deleted : {FALSE}, active : BOOLEAN, usageLimit : 1 .. MaxLimit, perUserLimit : 1 .. MaxLimit]
Order == [cart : Carts, lines : SUBSET (1 .. MaxRows), redeems : BOOLEAN]
CheckoutWork ==
    [pc : {"checkout", "locked", "redeeming"}, cart : Carts,
     lines : SUBSET (1 .. MaxRows), code : BOOLEAN]

\* countGlobalRedemptionsInTx, countUserRedemptionsInTx: a CouponRedemption is
\* written in the transaction of its order, and never alone.
Redemptions == {i \in DOMAIN orders : orders[i].redeems}
RedemptionsOf(u) == {i \in Redemptions : orders[i].cart = u}
OrdersOf(c) == {i \in DOMAIN orders : orders[i].cart = c}

-----------------------------------------------------------------------------
(* CheckoutUseCase *)

\* getCart, which reads the items and the code together.  An empty bag, a line
\* out of stock, a bag below the minimum weight or quantity is refused.
ReadBag(h) ==
    /\ At(h, "ready")
    /\ LET c == handler[h].cart IN
         /\ Items(c) # {}
         /\ Goto(h, [pc |-> "checkout", cart |-> c, lines |-> {r.id : r \in Items(c)},
                     code |-> c \in Users /\ code[c]])
    /\ KeepRows /\ KeepCarts /\ UNCHANGED <<cartLock, couponVars, orders, sessions>>

\* Mutant: the status is what it was when the bag was read.
LockCartUnchecked(h) ==
    /\ At(h, "checkout")
    /\ LET c == handler[h].cart IN
         /\ cartLock[c] = Nobody
         /\ cartLock' = [cartLock EXCEPT ![c] = h]
         /\ handler' = [handler EXCEPT ![h].pc = "locked"]
    /\ KeepRows /\ KeepCarts /\ UNCHANGED <<couponVars, orders, sessions>>

\* lockForCheckout; a cart that is not ACTIVE any more is a ConflictError.
LockCart(h) ==
    /\ At(h, "checkout")
    /\ LET c == handler[h].cart IN
         /\ cartLock[c] = Nobody
         /\ status[c] = "ACTIVE"
         /\ cartLock' = [cartLock EXCEPT ![c] = h]
         /\ handler' = [handler EXCEPT ![h].pc = "locked"]
    /\ KeepRows /\ KeepCarts /\ UNCHANGED <<couponVars, orders, sessions>>

\* Mutant: the row is read without FOR UPDATE.
ValidateUnlocked(h) ==
    /\ At(h, "locked")
    /\ handler[h].code
    /\ coupon # Deleted
    /\ coupon.active
    /\ Cardinality(Redemptions) < coupon.usageLimit
    /\ Cardinality(RedemptionsOf(handler[h].cart)) < coupon.perUserLimit
    /\ handler' = [handler EXCEPT ![h].pc = "redeeming"]
    /\ KeepRows /\ KeepCarts /\ UNCHANGED <<cartLock, couponVars, orders, sessions>>

\* validateAndLock: lockForRedemption, the counts and resolveCouponEligibility.
\* A coupon that is refused, by these or by the date, the minimum or the lines,
\* throws.
ValidateAndLock(h) ==
    /\ At(h, "locked")
    /\ handler[h].code
    /\ couponLock = Nobody
    /\ coupon # Deleted
    /\ coupon.active
    /\ Cardinality(Redemptions) < coupon.usageLimit
    /\ Cardinality(RedemptionsOf(handler[h].cart)) < coupon.perUserLimit
    /\ couponLock' = h
    /\ handler' = [handler EXCEPT ![h].pc = "redeeming"]
    /\ KeepRows /\ KeepCarts /\ UNCHANGED <<cartLock, coupon, orders, sessions>>

\* The reservation, the order, finalize, markConverted and the commit.
PlaceOrder(h) ==
    /\ At(h, "redeeming") \/ (At(h, "locked") /\ ~handler[h].code)
    /\ Len(orders) < MaxOrders
    /\ LET w == handler[h] IN
         /\ orders' = Append(orders, [cart |-> w.cart, lines |-> w.lines, redeems |-> w.code])
         /\ status' = [status EXCEPT ![w.cart] = "CONVERTED"]
         /\ code' = [code EXCEPT ![w.cart] = FALSE]
         /\ cartLock' = [cartLock EXCEPT ![w.cart] = Nobody]
    /\ couponLock' = IF couponLock = h THEN Nobody ELSE couponLock
    /\ Goto(h, Idle)
    /\ KeepRows /\ UNCHANGED <<coupon, sessions>>

-----------------------------------------------------------------------------
(* Admin: SetCouponActiveUseCase, UpdateCouponUseCase, DeleteCouponUseCase.  *)
(* Each is one write of the Coupon row and waits for its lock.               *)

SetCouponActive(active) ==
    /\ coupon # Deleted
    /\ couponLock = Nobody
    /\ coupon' = [coupon EXCEPT !.active = active]
    /\ UNCHANGED <<cartVars, couponLock, orders, sessions>>

\* A patch is validated against the row as it was read: two patches of one
\* limit each can leave any pair.
UpdateCoupon(usageLimit, perUserLimit) ==
    /\ coupon # Deleted
    /\ couponLock = Nobody
    /\ coupon' = [coupon EXCEPT !.usageLimit = usageLimit, !.perUserLimit = perUserLimit]
    /\ UNCHANGED <<cartVars, couponLock, orders, sessions>>

\* A redeemed coupon is refused, in the end by the foreign key of its redemptions.
DeleteCoupon ==
    /\ coupon # Deleted
    /\ couponLock = Nobody
    /\ Redemptions = {}
    /\ coupon' = Deleted
    /\ UNCHANGED <<cartVars, couponLock, orders, sessions>>

-----------------------------------------------------------------------------
Activated == {c \in Carts : status[c] # "ACTIVE" /\ status'[c] = "ACTIVE"}

\* The steps of Carts.
CountSessions ==
    sessions' = [c \in Carts |-> IF c \in Activated THEN sessions[c] + 1 ELSE sessions[c]]

ShopperStep(h) == CartStep(h) /\ CountSessions /\ UNCHANGED <<couponVars, orders>>

FailCheckout(h) ==
    /\ FailRequest(h)
    /\ couponLock' = IF couponLock = h THEN Nobody ELSE couponLock
    /\ UNCHANGED <<coupon, orders, sessions>>

CheckoutStep(h) == ReadBag(h) \/ LockCart(h) \/ ValidateAndLock(h) \/ PlaceOrder(h)

AdminStep ==
    \/ \E active \in BOOLEAN : SetCouponActive(active)
    \/ \E m, n \in 1 .. MaxLimit : UpdateCoupon(m, n)
    \/ DeleteCoupon

Init ==
    /\ CartInit
    /\ coupon \in {k \in Coupon : k.perUserLimit <= k.usageLimit}
    /\ couponLock = Nobody
    /\ orders = <<>>
    /\ sessions = [c \in Carts |-> IF status[c] = "ACTIVE" THEN 1 ELSE 0]

Next ==
    \/ \E h \in Handlers : ShopperStep(h) \/ CheckoutStep(h) \/ FailCheckout(h)
    \/ AdminStep

Spec == Init /\ [][Next]_vars

-----------------------------------------------------------------------------
TypeOK ==
    /\ CartTypeOK
    /\ handler \in [Handlers -> {Idle} \cup CartWork \cup CheckoutWork]
    /\ coupon \in Coupon \cup {Deleted}
    /\ couponLock \in Handlers \cup {Nobody}
    /\ orders \in Seq(Order)
    /\ sessions \in [Carts -> Nat]

(* A double click, a client's retry, a second tab: however many checkouts of *)
(* one bag are under way, a cart gives at most one order each time it became *)
(* ACTIVE, because the transaction reads the status under the lock of the    *)
(* cart (lockForCheckout).                                                   *)
OneOrderPerSession == \A c \in Carts : Cardinality(OrdersOf(c)) <= sessions[c]

(* An order is committed on a cart that is ACTIVE at the commit, although    *)
(* the status was read steps earlier and a merge or another checkout writes  *)
(* it (markCartMerged, markConverted).                                       *)
OrderComesFromActiveCart ==
    [][\A c \in Carts : OrdersOf(c)' # OrdersOf(c) => status[c] = "ACTIVE"]_vars

(* A redemption is only ever committed of a coupon that is active at the     *)
(* commit, and stays within its limits of that moment, for everybody and for *)
(* that user, although two checkouts count the redemptions and an admin      *)
(* edits the coupon at the same time (lockForRedemption).                    *)
CouponKeepsItsLimits ==
    [][Redemptions' # Redemptions =>
          /\ coupon # Deleted
          /\ coupon.active
          /\ Cardinality(Redemptions') <= coupon.usageLimit
          /\ \A u \in Users : RedemptionsOf(u)' # RedemptionsOf(u) =>
                Cardinality(RedemptionsOf(u)') <= coupon.perUserLimit]_vars

(* The lines of a bag are ordered once: checkout.use-case.ts:153-161 says    *)
(* that the lock closes the window for a second order of the same bag.  The  *)
(* code does not: see MCCheckoutTwice.                                       *)
EachLineOrderedOnce ==
    \A i, j \in DOMAIN orders : i # j => orders[i].lines \cap orders[j].lines = {}
=============================================================================
