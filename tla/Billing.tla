------------------------------- MODULE Billing -------------------------------
(***************************************************************************)
(* The money of one order, in paise: prices and offers (modules/pricing,   *)
(* modules/offers), the bag's totals (modules/cart), coupon and its split  *)
(* over the lines (modules/coupons, modules/orders), GST, the delivery fee *)
(* (modules/shipping), and what returns of the order are worth             *)
(* (modules/returns).  A bag is read, checked and ordered in three steps,  *)
(* between which administrators edit the rate, the rule and the offers.    *)
(***************************************************************************)
EXTENDS Integers, FiniteSetsExt

CONSTANTS
    Variants,
    Catalogue,   \* of each variant: pricing mode, weight, fixed price
    Bags,        \* the bags: the quantity of each variant in them
    Rates,       \* default rates per kilogram
    Rules,       \* shipping rules
    Offers,      \* scope and the variants it matches, priority, discount
    Coupons,     \* discount, cap, minimum, and the variants it is for
    Slabs,       \* GST: up to which price, and the rate in percent
    MaxEdits     \* bound: edits while the bag is on its way

Unbounded == -1  \* null: of the top slab, or of a coupon's cap

\* What the schemas of packages/validation let administrators enter.
Weights == [minWeight : Nat, freeWeight : Nat, fee : Nat, freeSubtotal : Nat]
Discounts == [id : Nat, scope : {"ALL_PRODUCTS", "CATEGORY", "PRODUCTS"},
              matches : SUBSET Variants, priority : Nat,
              type : {"PERCENTAGE", "FIXED_AMOUNT"}, value : Nat]
Codes == [at : {"coupon"}, type : {"PERCENTAGE", "FLAT"}, value : Nat,
          cap : Nat \cup {Unbounded}, min : Nat, matches : SUBSET Variants]

ASSUME BillingAssumption ==
    /\ IsFiniteSet(Variants) /\ IsFiniteSet(Offers)
    /\ Catalogue \in [Variants -> [mode : {"WEIGHT_BASED", "FIXED"}, weight : Nat, price : Nat]]
    /\ \A b \in Bags : /\ DOMAIN b \subseteq Variants /\ DOMAIN b # {}
                       /\ b \in [DOMAIN b -> Nat \ {0}]
    /\ Rates \subseteq Nat
    /\ Rules \subseteq Weights
    /\ Offers \subseteq Discounts
    /\ \A o, p \in Offers : o.id = p.id => o = p
    /\ Coupons \subseteq Codes
    /\ Slabs \subseteq [max : Nat \cup {Unbounded}, percent : Nat]
    /\ \E s \in Slabs : s.max = Unbounded
    /\ MaxEdits \in Nat

VARIABLES
    bag,     \* CartItem: the quantity of each variant in the bag
    coupon,  \* Cart.couponCode, or none
    rate,    \* the newest PricingSetting
    rule,    \* the ShippingRule
    offers,  \* the offers that are active and in their time
    edits,   \* edits so far
    cart,    \* GetCartUseCase's answer to the checkout
    order,   \* the Order and its OrderItems
    returned,\* the units of each line that were returned
    repaid,  \* what those returns were worth
    parts    \* in how many returns
vars == <<bag, coupon, rate, rule, offers, edits, cart, order, returned, repaid, parts>>

None == [at |-> "none"]
Lines == DOMAIN bag
Lesser(m, n) == IF m < n THEN m ELSE n
Total(amount, S) == SumFunctionOnSet(amount, S)

\* Math.round(n / d), of what is not negative.
Round(n, d) == (2 * n + d) \div (2 * d)

-----------------------------------------------------------------------------
(* Prices and offers.                                                      *)

\* By weight the default rate decides alone: resolveEffectiveRatePerKgPaise
\* ignores the old override of a variant.
EffectivePrice(v) ==
    LET item == Catalogue[v] IN
    IF item.mode = "FIXED" THEN item.price ELSE Round(item.weight * rate, 1000)

OfferDiscount(o, base) ==
    Lesser(IF o.type = "PERCENTAGE" THEN (base * o.value) \div 100 ELSE o.value, base)

Specificity == [PRODUCTS |-> 3, CATEGORY |-> 2, ALL_PRODUCTS |-> 1]
Matching(v) == {o \in offers : o.scope = "ALL_PRODUCTS" \/ v \in o.matches}

\* A bug: the sort ends with the discount.
RanksWithoutId(o, p, base) ==
    \/ Specificity[o.scope] > Specificity[p.scope]
    \/ /\ o.scope = p.scope
       /\ \/ o.priority > p.priority
          \/ o.priority = p.priority /\ OfferDiscount(o, base) >= OfferDiscount(p, base)

\* o is sorted before p: scope, priority, discount, id.
Ranks(o, p, base) ==
    \/ Specificity[o.scope] > Specificity[p.scope]
    \/ /\ o.scope = p.scope
       /\ \/ o.priority > p.priority
          \/ /\ o.priority = p.priority
             /\ \/ OfferDiscount(o, base) > OfferDiscount(p, base)
                \/ OfferDiscount(o, base) = OfferDiscount(p, base) /\ o.id <= p.id

Winners(v) == {o \in Matching(v) : \A p \in Matching(v) : Ranks(o, p, EffectivePrice(v))}

UnitPrice(v) ==
    LET base == EffectivePrice(v) IN
    IF Matching(v) = {} THEN base
    ELSE base - OfferDiscount(CHOOSE o \in Winners(v) : TRUE, base)

-----------------------------------------------------------------------------
(* Delivery.                                                               *)

MeetsMinimum(r, grams) == grams = 0 \/ grams >= r.minWeight
FreeDelivery(r, grams, subtotal) ==
    \/ grams > 0 /\ grams >= r.freeWeight
    \/ r.freeSubtotal > 0 /\ subtotal >= r.freeSubtotal
ShippingFee(r, grams, subtotal) ==
    IF MeetsMinimum(r, grams) /\ ~FreeDelivery(r, grams, subtotal) THEN r.fee ELSE 0

-----------------------------------------------------------------------------
(* The coupon.                                                             *)

EligibleLines == IF coupon = None THEN {} ELSE Lines \cap coupon.matches

\* resolveCouponEligibility; one that is refused fails the checkout.  The
\* limits and the time of the coupon are in Checkout.
CouponAccepted(subtotals) ==
    coupon # None => /\ Total(subtotals, Lines) >= coupon.min
                     /\ EligibleLines # {}

CouponValue(total) ==
    IF coupon.type = "PERCENTAGE" THEN (total * coupon.value) \div 100 ELSE coupon.value
Capped(amount) == IF coupon.cap = Unbounded THEN amount ELSE Lesser(amount, coupon.cap)

\* A bug: a flat coupon of more than the lines it is for.
UncappedDiscount(subtotals) ==
    IF coupon = None THEN 0 ELSE Capped(CouponValue(Total(subtotals, EligibleLines)))

\* calculateCouponDiscount.
CouponDiscount(subtotals) ==
    LET total == Total(subtotals, EligibleLines)
    IN IF coupon = None THEN 0 ELSE Lesser(Capped(CouponValue(total)), total)

\* A bug: every line rounded by itself.
RoundedShares(discount, subtotals, eligible) ==
    LET total == Total(subtotals, eligible) IN
    {[v \in Lines |-> IF v \in eligible /\ total > 0
                      THEN Round(discount * subtotals[v], total) ELSE 0]}

\* allocateCouponDiscount: the floors, and a paisa more for the largest
\* remainders.  Equal remainders stay in the order of the cart's rows.
Shares(discount, subtotals, eligible) ==
    LET total == Total(subtotals, eligible)
        Floor == [v \in eligible |-> (discount * subtotals[v]) \div total]
        Rest == [v \in eligible |-> (discount * subtotals[v]) % total]
    IN IF discount = 0 \/ total = 0 THEN {[v \in Lines |-> 0]}
       ELSE {[v \in Lines |-> IF v \notin eligible THEN 0
                              ELSE IF v \in up THEN Floor[v] + 1 ELSE Floor[v]] :
             up \in {S \in SUBSET eligible :
                       /\ Cardinality(S) = discount - Total(Floor, eligible)
                       /\ \A v \in S, w \in eligible \ S : Rest[v] >= Rest[w]}}

-----------------------------------------------------------------------------
(* GST.                                                                    *)

GstPercent(price) ==
    (CHOOSE s \in Slabs :
        /\ s.max = Unbounded \/ price <= s.max
        /\ s.max = Unbounded => \A t \in Slabs : t.max # Unbounded => price > t.max
        /\ s.max # Unbounded => \A t \in Slabs :
                                t.max # Unbounded /\ price <= t.max => s.max <= t.max).percent

\* applyPercentage multiplies by the binary fraction percent / 100: half a
\* paisa may come out just below a half.
Taxes(amount, percent) ==
    LET n == amount * percent IN {Round(n, 100)} \cup (IF n % 100 = 50 THEN {n \div 100} ELSE {})

-----------------------------------------------------------------------------
(* The checkout.                                                           *)

KeepShop == UNCHANGED <<rate, rule, offers, edits>>
KeepReturns == UNCHANGED <<returned, repaid, parts>>

\* The cart reads prices and offers live; its fee is what the page shows.
GetCart ==
    /\ cart = None
    /\ LET unit == [v \in Lines |-> UnitPrice(v)]
           subtotals == [v \in Lines |-> unit[v] * bag[v]]
           grams == [v \in Lines |-> IF Catalogue[v].mode = "FIXED" THEN 0
                                     ELSE Catalogue[v].weight * bag[v]]
       IN cart' = [at |-> "read", unit |-> unit, subtotals |-> subtotals,
                   total |-> Total(subtotals, Lines), grams |-> Total(grams, Lines), rule |-> rule,
                   fee |-> ShippingFee(rule, Total(grams, Lines), Total(subtotals, Lines))]
    /\ KeepShop /\ KeepReturns /\ UNCHANGED <<bag, coupon, order>>

\* Before the transaction; a bag below the minimum is refused.
CheckMinimum ==
    /\ cart.at = "read"
    /\ MeetsMinimum(rule, cart.grams)
    /\ cart' = [cart EXCEPT !.at = "checked"]
    /\ KeepShop /\ KeepReturns /\ UNCHANGED <<bag, coupon, order>>

\* A bug: delivery by what is left after the coupon.
FeeAfterCoupon(discount) == ShippingFee(rule, cart.grams, cart.total - discount)

\* evaluate, again, in the transaction; by the subtotal before the coupon.
FeeOfOrder(discount) == ShippingFee(rule, cart.grams, cart.total)

PlaceOrder(discount, shares, tax) ==
    LET fee == FeeOfOrder(discount) IN
    /\ cart.at = "checked"
    /\ order = None
    /\ order' = [at |-> "placed",
                 items |-> [v \in Lines |-> [quantity |-> bag[v], unit |-> cart.unit[v],
                                             total |-> cart.subtotals[v],
                                             discount |-> shares[v], tax |-> tax[v]]],
                 discount |-> discount, fee |-> fee,
                 total |-> cart.total + Total(tax, Lines) + fee - discount]
    /\ KeepShop /\ KeepReturns /\ UNCHANGED <<bag, coupon, cart>>

\* Coupon, its split, and tax on the discounted lines, by the slab of the
\* undiscounted piece.
Checkout ==
    /\ cart.at = "checked"
    /\ CouponAccepted(cart.subtotals)
    /\ LET discount == CouponDiscount(cart.subtotals) IN
       \E shares \in Shares(discount, cart.subtotals, EligibleLines) :
          LET tax == [v \in Lines |-> Taxes(cart.subtotals[v] - shares[v], GstPercent(cart.unit[v]))]
          IN \E paid \in [Lines -> UNION {tax[v] : v \in Lines}] :
               /\ \A v \in Lines : paid[v] \in tax[v]
               /\ PlaceOrder(discount, shares, paid)

-----------------------------------------------------------------------------
(* Returns.                                                                *)

\* calculateReturnRefundAmount, of one line.
Worth(item, n) ==
    item.unit * n - Round(item.discount * n, item.quantity) + Round(item.tax * n, item.quantity)

ReturnUnits(v, n) ==
    /\ order # None
    /\ n <= bag[v] - returned[v]
    /\ returned' = [returned EXCEPT ![v] = @ + n]
    /\ repaid' = [repaid EXCEPT ![v] = @ + Worth(order.items[v], n)]
    /\ parts' = [parts EXCEPT ![v] = @ + 1]
    /\ KeepShop /\ UNCHANGED <<bag, coupon, cart, order>>

-----------------------------------------------------------------------------
(* Administrators.  Nothing reads what they edit after the order.          *)

Edit ==
    /\ order = None
    /\ edits < MaxEdits
    /\ edits' = edits + 1
    /\ KeepReturns /\ UNCHANGED <<bag, coupon, cart, order>>

UpdatePricingSetting == Edit /\ rate' \in Rates /\ UNCHANGED <<rule, offers>>
UpdateShippingRule == Edit /\ rule' \in Rules /\ UNCHANGED <<rate, offers>>
SetOfferActive(o) ==
    /\ Edit
    /\ offers' = IF o \in offers THEN offers \ {o} ELSE offers \cup {o}
    /\ UNCHANGED <<rate, rule>>

Init ==
    /\ bag \in Bags /\ coupon \in Coupons \cup {None}
    /\ rate \in Rates /\ rule \in Rules /\ offers \in SUBSET Offers
    /\ edits = 0 /\ cart = None /\ order = None
    /\ returned = [v \in Variants |-> 0]
    /\ repaid = [v \in Variants |-> 0]
    /\ parts = [v \in Variants |-> 0]

Next ==
    \/ GetCart \/ CheckMinimum \/ Checkout
    \/ \E v \in Lines : \E n \in 1..bag[v] : ReturnUnits(v, n)
    \/ UpdatePricingSetting \/ UpdateShippingRule \/ \E o \in Offers : SetOfferActive(o)

Spec == Init /\ [][Next]_vars

-----------------------------------------------------------------------------
(* Properties.                                                             *)

\* No amount is negative: an offer takes at most the price, a coupon at most
\* the lines it is for, and its share of a line at most the line.
TypeOK ==
    /\ \A v \in Lines : UnitPrice(v) \in Nat
    /\ order # None =>
         /\ order.total \in Nat /\ order.discount \in 0..cart.total /\ order.fee \in Nat
         /\ \A v \in Lines : /\ order.items[v].discount \in 0..order.items[v].total
                             /\ order.items[v].tax \in Nat
    /\ \A v \in Lines : returned[v] \in 0..bag[v] /\ repaid[v] \in Nat

\* What the customer pays for a line.
Paid(v) == order.items[v].total - order.items[v].discount + order.items[v].tax

\* "Money must reconcile exactly": the order's total, taken from its sums, is
\* what its lines come to and the fee, however the coupon was split.
BillAddsUp ==
    order # None =>
        order.total = order.fee + Total([v \in Lines |-> Paid(v)], Lines)

\* "A coupon applied afterwards can never take free delivery away": the order
\* is charged the fee that the bag was shown with, unless the rule was edited.
FeeAsShown == order # None /\ rule = cart.rule => order.fee = cart.fee

\* "The discount subtraction ... is what keeps the refund from exceeding what
\* the customer actually paid" (calculateReturnRefundAmount), delivery aside:
\* what the returns of an order are worth together is at most what was paid.
RefundsWithinPaid ==
    order # None => Total(repaid, Lines) <= order.total - order.fee

\* "So the result never depends on array/DB order": of the offers that match
\* a product there is one that sorts before all others.
OneOfferWins ==
    \A v \in Lines : Matching(v) # {} => Cardinality(Winners(v)) = 1

\* "0 when !meetsMinimum (checkout is blocked before a fee would ever apply)":
\* an order without a fee has earned free delivery.
FreeOnlyIfEarned ==
    order # None /\ order.fee = 0 /\ rule.fee > 0 => FreeDelivery(rule, cart.grams, cart.total)
=============================================================================
