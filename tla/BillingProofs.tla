---------------------------- MODULE BillingProofs ----------------------------
(***************************************************************************)
(* Proofs about Billing, for any catalogue, bag, offers, coupons, slabs,   *)
(* rates and rules that the schemas of packages/validation let in: that no *)
(* amount is negative, that the order's total is what its lines come to,   *)
(* that parts of a line are repaid what was paid for it, that one offer    *)
(* wins, and that a coupon does not touch delivery.  What is summed over   *)
(* the lines rests on Sums.                                                *)
(***************************************************************************)
EXTENDS Billing, Sums

\* The bag, the coupon and what administrators have entered.
ShopInv ==
    /\ bag \in Bags /\ coupon \in Coupons \cup {None}
    /\ rate \in Rates /\ rule \in Rules /\ offers \subseteq Offers

\* A bag has finitely many lines, each of at least one piece.
LEMMA LinesFacts ==
    ASSUME ShopInv
    PROVE  /\ IsFiniteSet(Lines) /\ Lines \subseteq Variants
           /\ \A v \in Lines : bag[v] \in Nat /\ bag[v] > 0
<1>1. Lines \subseteq Variants /\ bag \in [Lines -> Nat \ {0}]
    BY BillingAssumption DEF ShopInv, Lines
<1>2. IsFiniteSet(Variants)
    BY BillingAssumption
<1>3. IsFiniteSet(Lines)
    BY <1>1, <1>2, FS_Subset
<1> QED
    BY <1>1, <1>3

\* Integer division: the quotient, and what is left.
LEMMA QuotientBounds ==
    ASSUME NEW n \in Nat, NEW d \in Nat, d > 0
    PROVE  /\ n \div d \in Nat
           /\ d * (n \div d) <= n /\ n < d * (n \div d) + d
           /\ n % d \in 0..d - 1 /\ n = d * (n \div d) + (n % d)
    OBVIOUS

\* Math.round is off by at most a half, and a half goes up.
LEMMA RoundBounds ==
    ASSUME NEW n \in Nat, NEW d \in Nat, d > 0
    PROVE  /\ Round(n, d) \in Nat
           /\ 2 * d * Round(n, d) <= 2 * n + d
           /\ 2 * n - d < 2 * d * Round(n, d)
<1>1. 2 * n + d \in Nat /\ 2 * d \in Nat /\ 2 * d > 0
    OBVIOUS
<1>2. PICK q \in Nat : q = Round(n, d)
    BY <1>1, QuotientBounds DEF Round
<1>3. (2 * d) * q <= 2 * n + d /\ 2 * n + d < (2 * d) * q + 2 * d
    BY <1>1, <1>2, QuotientBounds DEF Round
<1> QED
    BY <1>2, <1>3

\* What is at most m pieces of d rounds to at most m.
LEMMA RoundMonotone ==
    ASSUME NEW m \in Nat, NEW n \in Nat, NEW d \in Nat, d > 0, n <= m * d
    PROVE  Round(n, d) <= m
<1> PICK q \in Nat : q = Round(n, d)
    BY RoundBounds
<1>1. 2 * d * q <= 2 * n + d
    BY RoundBounds
<1>2. SUFFICES ASSUME m + 1 <= q
               PROVE  FALSE
    OBVIOUS
<1>3. d * (m + 1) <= d * q
    BY <1>2
<1> QED
    BY <1>1, <1>3

\* A price, fixed or by weight, is not negative (resolveEffectivePrice).
LEMMA EffectivePriceNat ==
    ASSUME ShopInv, NEW v \in Lines
    PROVE  EffectivePrice(v) \in Nat
<1>1. Catalogue[v].price \in Nat /\ Catalogue[v].weight \in Nat
    BY LinesFacts, BillingAssumption
<1>2. rate \in Nat
    BY BillingAssumption DEF ShopInv
<1>3. PICK n \in Nat : n = Catalogue[v].weight * rate
    BY <1>1, <1>2
<1>4. Round(n, 1000) \in Nat
    BY RoundBounds
<1> QED
    BY <1>1, <1>3, <1>4 DEF EffectivePrice

\* An offer takes at most the price (calculateOfferDiscount).
LEMMA OfferDiscountBounds ==
    ASSUME NEW o \in Offers, NEW base \in Nat
    PROVE  OfferDiscount(o, base) \in 0..base
<1> PICK w \in Nat : w = o.value
    BY BillingAssumption DEF Discounts
<1>1. base * w \in Nat
    OBVIOUS
<1>2. (base * w) \div 100 \in Nat
    BY <1>1, QuotientBounds
<1> PICK p \in Nat : p = (base * o.value) \div 100
    BY <1>2
<1> QED
    BY DEF OfferDiscount, Lesser

\* The keys the offers are sorted by are numbers.
LEMMA OfferFacts ==
    ASSUME NEW o \in Offers, NEW base \in Nat
    PROVE  /\ Specificity[o.scope] \in Nat /\ o.priority \in Nat /\ o.id \in Nat
           /\ OfferDiscount(o, base) \in Nat
<1>1. o.scope \in {"ALL_PRODUCTS", "CATEGORY", "PRODUCTS"} /\ o.priority \in Nat /\ o.id \in Nat
    BY BillingAssumption DEF Discounts
<1>2. Specificity[o.scope] \in Nat
    BY <1>1 DEF Specificity
<1> QED
    BY <1>1, <1>2, OfferDiscountBounds

\* Scopes of equal specificity are equal.
LEMMA SpecificityOfScopes ==
    ASSUME NEW o \in Offers, NEW p \in Offers, Specificity[o.scope] = Specificity[p.scope]
    PROVE  o.scope = p.scope
<1>1. o.scope \in {"ALL_PRODUCTS", "CATEGORY", "PRODUCTS"}
    BY BillingAssumption DEF Discounts
<1>2. p.scope \in {"ALL_PRODUCTS", "CATEGORY", "PRODUCTS"}
    BY BillingAssumption DEF Discounts
<1> QED
    BY <1>1, <1>2 DEF Specificity

\* The order of the offers (resolveApplicableOffer) is total ...
LEMMA RanksTotal ==
    ASSUME NEW o \in Offers, NEW p \in Offers, NEW base \in Nat
    PROVE  Ranks(o, p, base) \/ Ranks(p, o, base)
BY OfferFacts, SpecificityOfScopes DEF Ranks

\* ... antisymmetric, because it ends with the id ...
LEMMA RanksAntisymmetric ==
    ASSUME NEW o \in Offers, NEW p \in Offers, NEW base \in Nat,
           Ranks(o, p, base), Ranks(p, o, base)
    PROVE  o = p
<1>1. o.id = p.id
    BY OfferFacts DEF Ranks
<1> QED
    BY <1>1, BillingAssumption

\* ... and transitive.
LEMMA RanksTransitive ==
    ASSUME NEW o \in Offers, NEW p \in Offers, NEW q \in Offers, NEW base \in Nat,
           Ranks(o, p, base), Ranks(p, q, base)
    PROVE  Ranks(o, q, base)
BY OfferFacts DEF Ranks

\* So finitely many offers have a first one, by induction on the set.
LEMMA FirstOffer ==
    ASSUME NEW T \in SUBSET Offers, T # {}, NEW base \in Nat
    PROVE  \E o \in T : \A p \in T : Ranks(o, p, base)
<1> DEFINE G == {s \in SUBSET T : s # {} => \E o \in s : \A p \in s : Ranks(o, p, base)}
<1>1. IsFiniteSet(T)
    BY FS_Subset, BillingAssumption
<1>2. ASSUME NEW s \in SUBSET T, \A x \in s : s \ {x} \in G
      PROVE  s \in G
    <2> SUFFICES ASSUME NEW x \in s
                 PROVE  \E o \in s : \A p \in s : Ranks(o, p, base)
        OBVIOUS
    <2>1. Ranks(x, x, base)
        BY RanksTotal
    <2>2. CASE s \ {x} = {}
        BY <2>1, <2>2
    <2>3. CASE s \ {x} # {}
        <3>1. PICK o \in s \ {x} : \A p \in s \ {x} : Ranks(o, p, base)
            BY <1>2, <2>3
        <3>2. CASE Ranks(o, x, base)
            BY <3>1, <3>2
        <3>3. CASE Ranks(x, o, base)
            BY <2>1, <3>1, <3>3, RanksTransitive
        <3> QED
            BY <3>2, <3>3, RanksTotal
    <2> QED
        BY <2>2, <2>3
<1>3. T \in G
    <2> HIDE DEF G
    <2> QED
        BY ONLY <1>1, <1>2, SubsetInduction
<1> QED
    BY <1>3

\* Exactly one of the offers that match a product is sorted first.
LEMMA WinnerIsOne ==
    ASSUME ShopInv, NEW v \in Lines, Matching(v) # {}
    PROVE  \E o \in Matching(v) : Winners(v) = {o}
<1> PICK base \in Nat : base = EffectivePrice(v)
    BY EffectivePriceNat
<1> PICK T : T = Matching(v)
    OBVIOUS
<1>1. T \in SUBSET Offers
    BY DEF Matching, ShopInv
<1>2. PICK o \in T : \A p \in T : Ranks(o, p, base)
    BY <1>1, FirstOffer
<1>3. Winners(v) = {q \in T : \A p \in T : Ranks(q, p, base)}
    BY DEF Winners
<1>4. \A q \in Winners(v) : q = o
    BY <1>1, <1>2, <1>3, RanksAntisymmetric
<1> QED
    BY <1>2, <1>3, <1>4

\* A piece is never sold below nothing.
LEMMA UnitPriceNat ==
    ASSUME ShopInv, NEW v \in Lines
    PROVE  UnitPrice(v) \in Nat
<1> PICK base \in Nat : base = EffectivePrice(v)
    BY EffectivePriceNat
<1>1. CASE Matching(v) = {}
    BY <1>1 DEF UnitPrice
<1>2. CASE Matching(v) # {}
    <2>1. PICK o \in Matching(v) : Winners(v) = {o}
        BY <1>2, WinnerIsOne
    <2>2. o \in Offers /\ (CHOOSE q \in Winners(v) : TRUE) = o
        BY <2>1 DEF Matching, ShopInv
    <2>3. UnitPrice(v) = base - OfferDiscount(o, base)
        BY <1>2, <2>2 DEF UnitPrice
    <2> QED
        BY <2>2, <2>3, OfferDiscountBounds
<1> QED
    BY <1>1, <1>2

-----------------------------------------------------------------------------
(* GST, the coupon and its split                                           *)

\* Every price falls into a slab (resolveGstRatePercent): the lowest bounded
\* one that reaches it, or the unbounded one.
LEMMA GstPercentNat ==
    ASSUME NEW price \in Nat
    PROVE  GstPercent(price) \in Nat
<1> DEFINE Fits(s) ==
        /\ s.max = Unbounded \/ price <= s.max
        /\ s.max = Unbounded => \A t \in Slabs : t.max # Unbounded => price > t.max
        /\ s.max # Unbounded => \A t \in Slabs :
                                t.max # Unbounded /\ price <= t.max => s.max <= t.max
<1>0. \A s \in Slabs : s.percent \in Nat /\ (s.max # Unbounded => s.max \in Nat)
    BY BillingAssumption
<1>1. \E s \in Slabs : Fits(s)
    <2> PICK T : T = {t \in Slabs : t.max # Unbounded /\ price <= t.max}
        OBVIOUS
    <2>1. CASE T = {}
        <3>1. PICK s \in Slabs : s.max = Unbounded
            BY BillingAssumption
        <3>2. \A t \in Slabs : t.max # Unbounded => price > t.max
            BY <1>0, <2>1
        <3> QED
            BY <3>1, <3>2
    <2>2. CASE T # {}
        <3> PICK M : M = {t.max : t \in T}
            OBVIOUS
        <3>1. M \in SUBSET Nat /\ M # {}
            BY <1>0, <2>2
        <3>2. PICK m \in M : \A n \in M : m <= n
            BY <3>1, LeastNatural
        <3>3. PICK s \in T : s.max = m
            BY <3>2
        <3>4. \A t \in T : s.max <= t.max
            BY <3>2, <3>3
        <3> QED
            BY <3>3, <3>4
    <2> QED
        BY <2>1, <2>2
<1> PICK c : c = CHOOSE s \in Slabs : Fits(s)
    OBVIOUS
<1>2. c \in Slabs
    <2> HIDE DEF Fits
    <2> QED
        BY <1>1
<1>3. GstPercent(price) = c.percent
    BY DEF GstPercent
<1> QED
    BY <1>0, <1>2, <1>3

\* GST of what is not negative is not negative, however it is rounded.
LEMMA TaxesNat ==
    ASSUME NEW amount \in Nat, NEW percent \in Nat
    PROVE  Taxes(amount, percent) \subseteq Nat
<1> PICK n \in Nat : n = amount * percent
    OBVIOUS
<1>1. Round(n, 100) \in Nat /\ n \div 100 \in Nat
    BY RoundBounds, QuotientBounds
<1> QED
    BY <1>1 DEF Taxes

\* A coupon takes at most the lines it is for (calculateCouponDiscount), which
\* are at most the bag.
LEMMA CouponDiscountBounds ==
    ASSUME ShopInv, NEW subtotals \in [Lines -> Nat]
    PROVE  /\ EligibleLines \subseteq Lines
           /\ Total(subtotals, EligibleLines) \in Nat
           /\ CouponDiscount(subtotals) \in 0..Total(subtotals, EligibleLines)
           /\ Total(subtotals, EligibleLines) <= Total(subtotals, Lines)
           /\ Total(subtotals, Lines) \in Nat
<1>1. EligibleLines \subseteq Lines
    BY DEF EligibleLines
<1>2. IsFiniteSet(Lines) /\ IsFiniteSet(EligibleLines)
    BY <1>1, LinesFacts, FS_Subset
<1>3. Total(subtotals, EligibleLines) \in Nat /\ Total(subtotals, Lines) \in Nat
    <2>1. \A v \in Lines : subtotals[v] \in Nat
        OBVIOUS
    <2> QED
        BY <1>1, <1>2, <2>1, SumNat DEF Total
<1>4. Total(subtotals, EligibleLines) <= Total(subtotals, Lines)
    <2>1. \A v \in Lines : subtotals[v] \in Nat
        OBVIOUS
    <2>2. EligibleLines \in SUBSET Lines
        BY <1>1
    <2> QED
        BY ONLY <1>2, <2>1, <2>2, SumOfSubset DEF Total
<1> PICK total \in Nat : total = Total(subtotals, EligibleLines)
    BY <1>3
<1>5. CouponDiscount(subtotals) \in 0..total
    <2>1. CASE coupon = None
        BY <2>1 DEF CouponDiscount
    <2>2. CASE coupon # None
        <3>1. coupon \in Codes
            BY <2>2, BillingAssumption DEF ShopInv
        <3> PICK w \in Nat : w = coupon.value
            BY <3>1 DEF Codes
        <3>2. total * w \in Nat
            OBVIOUS
        <3>3. (total * w) \div 100 \in Nat
            BY <3>2, QuotientBounds
        <3>4. CouponValue(total) \in Nat
            BY <3>3 DEF CouponValue
        <3>5. coupon.cap = Unbounded \/ coupon.cap \in Nat
            BY <3>1 DEF Codes
        <3>6. Capped(CouponValue(total)) \in Nat
            BY <3>4, <3>5 DEF Capped, Lesser
        <3>7. CouponDiscount(subtotals) = Lesser(Capped(CouponValue(total)), total)
            BY <2>2 DEF CouponDiscount
        <3> QED
            BY <3>6, <3>7 DEF Lesser
    <2> QED
        BY <2>1, <2>2
<1> QED
    BY <1>1, <1>3, <1>4, <1>5

\* The split before the odd paise: every line gets its floor, which is below
\* its subtotal where anything is left, and the rests are what is missing.
LEMMA FloorsAndRests ==
    ASSUME NEW E, IsFiniteSet(E), NEW subtotals, \A v \in E : subtotals[v] \in Nat,
           NEW total \in Nat, total = SumFunctionOnSet(subtotals, E), total > 0,
           NEW discount \in Nat, discount <= total,
           NEW floor, floor = [v \in E |-> (discount * subtotals[v]) \div total],
           NEW rest, rest = [v \in E |-> (discount * subtotals[v]) % total]
    PROVE  /\ \A v \in E : /\ floor[v] \in Nat /\ rest[v] \in Nat /\ rest[v] < total
                           /\ discount * subtotals[v] = total * floor[v] + rest[v]
                           /\ floor[v] <= subtotals[v]
                           /\ rest[v] > 0 => floor[v] < subtotals[v]
           /\ SumFunctionOnSet(floor, E) \in Nat /\ SumFunctionOnSet(rest, E) \in Nat
           /\ total * (discount - SumFunctionOnSet(floor, E)) = SumFunctionOnSet(rest, E)
<1>1. ASSUME NEW v \in E
      PROVE  /\ floor[v] \in Nat /\ rest[v] \in Nat /\ rest[v] < total
             /\ discount * subtotals[v] = total * floor[v] + rest[v]
             /\ floor[v] <= subtotals[v]
             /\ rest[v] > 0 => floor[v] < subtotals[v]
    <2> PICK s \in Nat : s = subtotals[v]
        OBVIOUS
    <2> PICK n \in Nat : n = discount * s
        OBVIOUS
    <2> PICK f : f = floor[v]
        OBVIOUS
    <2> PICK r : r = rest[v]
        OBVIOUS
    <2>1. f = n \div total /\ r = n % total
        OBVIOUS
    <2>2. f \in Nat /\ r \in Nat /\ r < total /\ n = total * f + r
        BY ONLY <2>1, QuotientBounds, n \in Nat, total \in Nat, total > 0
    <2>3. n <= total * s
        <3> PICK d \in Nat : d = total - discount
            OBVIOUS
        <3>1. d * s \in Nat
            OBVIOUS
        <3>2. total * s = discount * s + d * s
            BY ONLY d = total - discount, total \in Nat, discount \in Nat, s \in Nat
        <3> QED
            BY <3>1, <3>2
    <2>4. total * f + r <= total * s
        BY <2>2, <2>3
    <2>5. f <= s
        <3> SUFFICES ASSUME s + 1 <= f
                     PROVE  FALSE
            BY <2>2
        <3> PICK d \in Nat : f = s + 1 + d
            <4>1. f \in Nat
                BY <2>2
            <4>2. f - (s + 1) \in Nat /\ f = s + 1 + (f - (s + 1))
                BY ONLY <4>1, s \in Nat, s + 1 <= f
            <4> QED
                BY <4>2
        <3>1. total * f = total * s + total + total * d /\ total * d \in Nat
            BY ONLY f = s + 1 + d, total \in Nat, d \in Nat, s \in Nat
        <3>2. total * s \in Nat
            OBVIOUS
        <3> QED
            BY <2>2, <2>4, <3>1, <3>2
    <2>6. r > 0 => f # s
        <3> PICK m \in Nat : m = total * f
            BY <2>2
        <3>1. f = s => m + r <= m
            BY <2>4
        <3> QED
            BY <2>2, <3>1
    <2> QED
        BY <2>2, <2>5, <2>6
<1>2. SumFunctionOnSet(floor, E) \in Nat /\ SumFunctionOnSet(rest, E) \in Nat
    BY <1>1, SumNat
<1> PICK fs \in Nat : fs = SumFunctionOnSet(floor, E)
    BY <1>2
<1> PICK rs \in Nat : rs = SumFunctionOnSet(rest, E)
    BY <1>2
<1>3. \A v \in E : /\ subtotals[v] \in Int /\ floor[v] \in Int /\ rest[v] \in Int
                   /\ discount * subtotals[v] = total * floor[v] + rest[v]
    BY <1>1
<1>4. discount * SumFunctionOnSet(subtotals, E)
          = total * SumFunctionOnSet(floor, E) + SumFunctionOnSet(rest, E)
    BY <1>3, SumLinear, discount \in Int, total \in Int, IsFiniteSet(E)
<1>5. discount * total = total * fs + rs
    BY <1>4
<1>6. total * (discount - fs) = rs
    BY ONLY <1>5, discount \in Nat, total \in Nat, fs \in Nat, rs \in Nat
<1> QED
    BY <1>1, <1>2, <1>6

\* The lines that get a paisa more have a remainder: were one of them whole,
\* the remainders of the others would not add up to theirs.
LEMMA RoundedUpHaveRest ==
    ASSUME NEW E, IsFiniteSet(E), NEW rest, NEW total \in Nat, total > 0,
           \A v \in E : rest[v] \in Nat /\ rest[v] < total,
           NEW up \in SUBSET E, total * Cardinality(up) = SumFunctionOnSet(rest, E),
           \A v \in up, w \in E \ up : rest[v] >= rest[w],
           NEW z \in up
    PROVE  rest[z] > 0
<1> SUFFICES ASSUME rest[z] = 0
             PROVE  FALSE
    OBVIOUS
<1>1. \A w \in E \ up : rest[w] = 0
    OBVIOUS
<1> PICK t : t = up \ {z}
    OBVIOUS
<1>2. \A v \in E : rest[v] = IF v \in t THEN rest[v] ELSE 0
    BY <1>1
<1>3. t \in SUBSET E /\ \A v \in t : rest[v] \in Int
    OBVIOUS
<1>4. SumFunctionOnSet(rest, E) = SumFunctionOnSet(rest, t)
    BY ONLY <1>2, <1>3, IsFiniteSet(E), SumMasked
<1> PICK top : top = [v \in t |-> total]
    OBVIOUS
<1>5. IsFiniteSet(t) /\ IsFiniteSet(up)
    BY <1>3, FS_Subset
<1>6. \A v \in t : rest[v] \in Int /\ top[v] \in Int /\ rest[v] <= top[v] /\ top[v] = total
    OBVIOUS
<1>7. SumFunctionOnSet(rest, t) <= SumFunctionOnSet(top, t)
    BY <1>5, <1>6, SumMonotone
<1>8. SumFunctionOnSet(top, t) = total * Cardinality(t)
    BY <1>5, <1>6, SumConstant, total \in Int
<1>9. Cardinality(t) = Cardinality(up) - 1
    BY <1>5, FS_RemoveElement
<1> PICK n \in Nat : n = Cardinality(up)
    BY <1>5, FS_CardinalityType
<1>10. total * n <= total * (n - 1)
    BY <1>4, <1>7, <1>8, <1>9
<1>11. total * (n - 1) = total * n - total
    OBVIOUS
<1> PICK m \in Nat : m = total * n
    OBVIOUS
<1> QED
    BY <1>10, <1>11

\* The split of a coupon (allocateCouponDiscount) adds up to the discount, and
\* takes from no line more than the line.
LEMMA SharesSplit ==
    ASSUME NEW E \in SUBSET Lines, IsFiniteSet(Lines), NEW subtotals \in [Lines -> Nat],
           NEW discount \in 0..Total(subtotals, E), Total(subtotals, E) \in Nat,
           NEW shares \in Shares(discount, subtotals, E)
    PROVE  /\ \A v \in Lines : shares[v] \in 0..subtotals[v]
           /\ Total(shares, Lines) = discount
<1> PICK total \in Nat : total = Total(subtotals, E)
    OBVIOUS
<1>1. CASE discount = 0 \/ total = 0
    <2>1. discount = 0 /\ shares = [v \in Lines |-> 0]
        BY <1>1 DEF Shares
    <2>2. \A v \in Lines : shares[v] = 0
        BY <2>1
    <2>3. SumFunctionOnSet(shares, Lines) = 0 * Cardinality(Lines)
        BY <2>2, SumConstant
    <2>4. Cardinality(Lines) \in Nat
        BY FS_CardinalityType
    <2> QED
        BY <2>1, <2>2, <2>3, <2>4 DEF Total
<1>2. CASE discount # 0 /\ total # 0
    <2> PICK floor : floor = [v \in E |-> (discount * subtotals[v]) \div total]
        OBVIOUS
    <2> PICK rest : rest = [v \in E |-> (discount * subtotals[v]) % total]
        OBVIOUS
    <2>1. PICK up \in SUBSET E :
            /\ Cardinality(up) = discount - Total(floor, E)
            /\ \A v \in up, w \in E \ up : rest[v] >= rest[w]
            /\ shares = [v \in Lines |-> IF v \notin E THEN 0
                                         ELSE IF v \in up THEN floor[v] + 1 ELSE floor[v]]
        BY <1>2 DEF Shares
    <2>2. IsFiniteSet(E) /\ IsFiniteSet(up) /\ Cardinality(up) \in Nat
        BY FS_Subset, FS_CardinalityType
    <2>3. /\ \A v \in E : /\ floor[v] \in Nat /\ rest[v] \in Nat /\ rest[v] < total
                          /\ floor[v] <= subtotals[v]
                          /\ rest[v] > 0 => floor[v] < subtotals[v]
          /\ SumFunctionOnSet(floor, E) \in Nat
          /\ total * (discount - SumFunctionOnSet(floor, E)) = SumFunctionOnSet(rest, E)
        <3>1. \A v \in E : subtotals[v] \in Nat
            OBVIOUS
        <3>2. total = SumFunctionOnSet(subtotals, E) /\ total > 0
            BY <1>2 DEF Total
        <3>3. discount \in Nat /\ discount <= total
            OBVIOUS
        <3> QED
            BY ONLY <2>2, <3>1, <3>2, <3>3, FloorsAndRests, total \in Nat,
                floor = [v \in E |-> (discount * subtotals[v]) \div total],
                rest = [v \in E |-> (discount * subtotals[v]) % total]
    <2>4. total * Cardinality(up) = SumFunctionOnSet(rest, E)
        BY <2>1, <2>3 DEF Total
    <2>5. \A z \in up : rest[z] > 0
        <3>1. \A v \in E : rest[v] \in Nat /\ rest[v] < total
            BY <2>3
        <3>2. \A v \in up, w \in E \ up : rest[v] >= rest[w]
            BY <2>1
        <3>3. total > 0
            BY <1>2
        <3> QED
            BY ONLY <2>2, <2>4, <3>1, <3>2, <3>3, up \in SUBSET E, total \in Nat,
                    RoundedUpHaveRest
    <2>6. ASSUME NEW v \in Lines
          PROVE  shares[v] \in 0..subtotals[v]
        <3>1. subtotals[v] \in Nat
            OBVIOUS
        <3>2. shares[v] = IF v \notin E THEN 0
                          ELSE IF v \in up THEN floor[v] + 1 ELSE floor[v]
            BY <2>1
        <3>3. CASE v \notin E
            BY <3>1, <3>2, <3>3
        <3>4. CASE v \in E
            <4>1. floor[v] \in Nat /\ floor[v] <= subtotals[v]
                BY <2>3, <3>4
            <4>2. v \in up => floor[v] < subtotals[v]
                BY <2>3, <2>5, <3>4
            <4> PICK s \in Nat : s = subtotals[v]
                BY <3>1
            <4> PICK f \in Nat : f = floor[v]
                BY <4>1
            <4>3. shares[v] = IF v \in up THEN f + 1 ELSE f
                BY <3>2, <3>4
            <4>4. f <= s /\ (v \in up => f < s)
                BY <4>1, <4>2
            <4>5. shares[v] \in 0..s
                BY ONLY <4>3, <4>4, s \in Nat, f \in Nat
            <4> QED
                BY <4>5
        <3> QED
            BY <3>3, <3>4
    <2> PICK one : one = [v \in E |-> IF v \in up THEN 1 ELSE 0]
        OBVIOUS
    <2> PICK unit : unit = [v \in up |-> 1]
        OBVIOUS
    <2>7. SumFunctionOnSet(one, E) = SumFunctionOnSet(unit, up)
        <3>1. \A v \in E : one[v] = IF v \in up THEN unit[v] ELSE 0
            OBVIOUS
        <3>2. \A v \in up : unit[v] \in Int
            OBVIOUS
        <3> QED
            BY ONLY <2>2, <3>1, <3>2, up \in SUBSET E, SumMasked
    <2>8. SumFunctionOnSet(unit, up) = Cardinality(up)
        <3>1. \A v \in up : unit[v] = 1
            OBVIOUS
        <3>2. SumFunctionOnSet(unit, up) = 1 * Cardinality(up)
            BY <2>2, <3>1, SumConstant
        <3> QED
            BY <2>2, <3>2
    <2>9. SumFunctionOnSet(shares, Lines) = SumFunctionOnSet(shares, E)
        <3>1. \A v \in E : shares[v] \in Int
            BY <2>6
        <3>2. \A v \in Lines : shares[v] = IF v \in E THEN shares[v] ELSE 0
            BY <2>1
        <3> QED
            BY ONLY <3>1, <3>2, E \in SUBSET Lines, IsFiniteSet(Lines), SumMasked
    <2>10. 1 * SumFunctionOnSet(shares, E) = 1 * SumFunctionOnSet(floor, E) + SumFunctionOnSet(one, E)
        <3>1. \A v \in E : /\ shares[v] \in Int /\ floor[v] \in Int /\ one[v] \in Int
                           /\ 1 * shares[v] = 1 * floor[v] + one[v]
            BY <2>1, <2>3
        <3> QED
            BY ONLY <2>2, <3>1, SumLinear, 1 \in Int
    <2>11. SumFunctionOnSet(shares, E) \in Int
        <3>1. \A v \in E : shares[v] \in Int
            BY <2>6
        <3> QED
            BY <2>2, <3>1, SumInt
    <2> PICK fs \in Nat : fs = SumFunctionOnSet(floor, E)
        BY <2>3
    <2> PICK n \in Nat : n = Cardinality(up)
        BY <2>2
    <2>12. SumFunctionOnSet(shares, E) = fs + n
        BY <2>7, <2>8, <2>10, <2>11
    <2>13. fs + n = discount
        BY <2>1 DEF Total
    <2>14. Total(shares, Lines) = discount
        BY <2>9, <2>12, <2>13 DEF Total
    <2> QED
        BY <2>6, <2>14
<1> QED
    BY <1>1, <1>2

-----------------------------------------------------------------------------
(* Parts of a line                                                         *)

\* a is n / q, rounded in p parts.
Near(a, n, q, p) ==
    /\ 2 * n - p * q <= 2 * q * a /\ 2 * q * a <= 2 * n + p * q
    /\ p > 0 => 2 * n - p * q < 2 * q * a

\* No part, nothing off.
LEMMA NearNothing ==
    ASSUME NEW q \in Nat
    PROVE  Near(0, 0, q, 0)
BY DEF Near

\* One more part, rounded by itself.
LEMMA NearAgain ==
    ASSUME NEW a \in Int, NEW m \in Nat, NEW n \in Nat, NEW q \in Nat, q > 0, NEW p \in Nat,
           Near(a, m, q, p)
    PROVE  Near(a + Round(n, q), m + n, q, p + 1)
<1> PICK b \in Nat : b = Round(n, q)
    BY RoundBounds
<1>1. 2 * q * b <= 2 * n + q /\ 2 * n - q < 2 * q * b
    BY RoundBounds
<1>2. 2 * m - p * q <= 2 * q * a /\ 2 * q * a <= 2 * m + p * q
    BY DEF Near
<1>3. 2 * q * (a + b) = 2 * q * a + 2 * q * b /\ (p + 1) * q = p * q + q
    BY ONLY a \in Int, b \in Nat, q \in Nat, p \in Nat
<1> PICK x \in Int : x = 2 * q * a
    OBVIOUS
<1> PICK y \in Int : y = 2 * q * b
    OBVIOUS
<1> PICK z \in Int : z = p * q
    OBVIOUS
<1>4. /\ 2 * (m + n) - (z + q) < x + y
      /\ x + y <= 2 * (m + n) + (z + q)
    BY ONLY <1>1, <1>2, x = 2 * q * a, y = 2 * q * b, z = p * q,
        x \in Int, y \in Int, z \in Int, m \in Nat, n \in Nat, q \in Nat
<1> QED
    BY ONLY <1>3, <1>4, x = 2 * q * a, y = 2 * q * b, z = p * q, b = Round(n, q),
        x \in Int, y \in Int, z \in Int, m \in Nat, n \in Nat, q \in Nat, p \in Nat DEF Near

\* All of it, in parts: what is off is at most half a paisa for each.
LEMMA NearWhole ==
    ASSUME NEW a \in Int, NEW d \in Nat, NEW q \in Nat, q > 0, NEW p \in Nat, p > 0,
           Near(a, d * q, q, p)
    PROVE  2 * (a - d) <= p /\ -p < 2 * (a - d)
<1> PICK e \in Int : e = 2 * (a - d)
    OBVIOUS
<1>1. q * e = 2 * q * a - 2 * (d * q)
    BY ONLY e = 2 * (a - d), a \in Int, d \in Nat, q \in Nat
<1>2. q * e <= p * q /\ -(p * q) < q * e
    <2> PICK x \in Int : x = 2 * q * a
        OBVIOUS
    <2> PICK y \in Int : y = d * q
        OBVIOUS
    <2> PICK z \in Int : z = p * q
        OBVIOUS
    <2> PICK w \in Int : w = q * e
        OBVIOUS
    <2> QED
        BY <1>1 DEF Near
<1>3. e <= p
    <2> SUFFICES ASSUME p + 1 <= e
                 PROVE  FALSE
        OBVIOUS
    <2> PICK k \in Nat : e = p + 1 + k
        <3>1. e - (p + 1) \in Nat /\ e = p + 1 + (e - (p + 1))
            OBVIOUS
        <3> QED
            BY <3>1
    <2>1. q * e = p * q + q + q * k /\ q * k \in Nat /\ p * q \in Nat
        BY ONLY e = p + 1 + k, q \in Nat, p \in Nat, k \in Nat
    <2> QED
        BY <1>2, <2>1
<1>4. -p < e
    <2> SUFFICES ASSUME e <= -p
                 PROVE  FALSE
        OBVIOUS
    <2> PICK k \in Nat : e = -p - k
        <3>1. -p - e \in Nat /\ e = -p - (-p - e)
            OBVIOUS
        <3> QED
            BY <3>1
    <2>1. q * e = -(p * q) - q * k /\ q * k \in Nat /\ p * q \in Nat
        BY ONLY e = -p - k, q \in Nat, p \in Nat, k \in Nat
    <2> QED
        BY <1>2, <2>1
<1> QED
    BY <1>3, <1>4

\* The discount of some pieces of a line is at most their price.
LEMMA WorthNat ==
    ASSUME NEW q \in Nat, q > 0, NEW unit \in Nat, NEW d \in Nat, d <= unit * q, NEW n \in Nat
    PROVE  Round(d * n, q) <= unit * n
<1> PICK m \in Nat : m = unit * n
    OBVIOUS
<1> PICK k \in Nat : unit * q = d + k
    <2> PICK u \in Nat : u = unit * q
        OBVIOUS
    <2>1. u - d \in Nat /\ u = d + (u - d)
        OBVIOUS
    <2> QED
        BY <2>1
<1>1. m * q = d * n + k * n
    BY ONLY m = unit * n, unit * q = d + k, q \in Nat, unit \in Nat, d \in Nat, k \in Nat, n \in Nat
<1>2. k * n \in Nat /\ d * n \in Nat
    OBVIOUS
<1>3. d * n <= m * q
    BY <1>1, <1>2
<1> QED
    BY <1>2, <1>3, RoundMonotone

\* Rounding n * d / d, half up, gives n back.
LEMMA RoundOfWhole ==
    ASSUME NEW n \in Nat, NEW d \in Nat, d > 0
    PROVE  Round(n * d, d) = n
  BY DEF Round

\* A line that comes back whole in one return is worth exactly what was paid
\* for it, whatever the coupon's share and the tax came to.
THEOREM WholeLineIsPaidBack ==
    ASSUME NEW item, item.quantity \in Nat \ {0}, item.unit \in Nat, item.discount \in Nat,
           item.tax \in Nat
    PROVE  Worth(item, item.quantity)
               = item.unit * item.quantity - item.discount + item.tax
<1>1. item.quantity \in Nat /\ item.quantity > 0
  OBVIOUS
<1>2. Round(item.discount * item.quantity, item.quantity) = item.discount
  BY <1>1, RoundOfWhole
<1>3. Round(item.tax * item.quantity, item.quantity) = item.tax
  BY <1>1, RoundOfWhole
<1> QED
  BY <1>2, <1>3 DEF Worth

-----------------------------------------------------------------------------
(* The invariant of the bill                                               *)

\* A cart as GetCart reads it, whatever is edited afterwards: the fee is that
\* of the rule, the weight and the subtotal next to it.
ReadWith(a, unit, subtotals, total, grams, r) ==
    [at |-> a, unit |-> unit, subtotals |-> subtotals, total |-> total, grams |-> grams,
     rule |-> r, fee |-> ShippingFee(r, grams, total)]
\* What GetCart makes of a bag, and the columns of the order's items.
Subtotals(b, unit) == [v \in DOMAIN b |-> unit[v] * b[v]]
CartOf(b, a, unit, grams, r) ==
    ReadWith(a, unit, Subtotals(b, unit), Total(Subtotals(b, unit), DOMAIN b), grams, r)
CartInv ==
    cart # None => \E a, grams, r : \E unit \in [Lines -> Nat] : cart = CartOf(bag, a, unit, grams, r)

Charged(b, o) == [v \in DOMAIN b |-> o.items[v].total]
Discounted(b, o) == [v \in DOMAIN b |-> o.items[v].discount]
Taxed(b, o) == [v \in DOMAIN b |-> o.items[v].tax]

\* A line of q pieces, and the bill of a bag.
ItemOf(i, q) ==
    /\ i.quantity = q /\ i.unit \in Nat /\ i.total = i.unit * q
    /\ i.discount \in 0..i.total /\ i.tax \in Nat
BillOf(b, c, o) ==
    /\ c # None /\ c.total = Total(Charged(b, o), DOMAIN b)
    /\ \A v \in DOMAIN b : ItemOf(o.items[v], b[v])
    /\ o.fee \in Nat
    /\ o.discount = Total(Discounted(b, o), DOMAIN b)
    /\ o.total = Total(Charged(b, o), DOMAIN b) + Total(Taxed(b, o), DOMAIN b) + o.fee - o.discount
OrderInv == order # None => BillOf(bag, cart, order)

\* x is what n of the q pieces of a line were worth in p parts.
RepaidSoFar(i, q, n, x, p) ==
    \E a, b \in Int : /\ x = i.unit * n - a + b
                      /\ Near(a, i.discount * n, q, p) /\ Near(b, i.tax * n, q, p)
ReturnsInv ==
    /\ returned \in [Variants -> Nat] /\ repaid \in [Variants -> Nat] /\ parts \in [Variants -> Nat]
    /\ order = None => \A v \in Variants : returned[v] = 0 /\ repaid[v] = 0 /\ parts[v] = 0
    /\ order # None => \A v \in Lines :
          /\ returned[v] <= bag[v] /\ (returned[v] > 0 => parts[v] > 0)
          /\ RepaidSoFar(order.items[v], bag[v], returned[v], repaid[v], parts[v])

BillInv == ShopInv /\ CartInv /\ OrderInv /\ ReturnsInv

\* The invariant holds before the bag is read.
LEMMA InitBill == Init => BillInv
<1> SUFFICES ASSUME Init PROVE BillInv
    OBVIOUS
<1>1. ShopInv
    BY DEF Init, ShopInv
<1>2. CartInv /\ OrderInv
    BY DEF Init, CartInv, OrderInv
<1>3. ReturnsInv
    BY DEF Init, ReturnsInv
<1> QED
    BY <1>1, <1>2, <1>3 DEF BillInv

\* The columns of a cart.
LEMMA CartFacts ==
    ASSUME NEW b, NEW a, NEW unit, NEW grams, NEW r, NEW c, c = CartOf(b, a, unit, grams, r)
    PROVE  /\ c.at = a /\ c.unit = unit /\ c.grams = grams
           /\ c.subtotals = Subtotals(b, unit) /\ c.total = Total(Subtotals(b, unit), DOMAIN b)
           /\ [c EXCEPT !.at = "checked"] = CartOf(b, "checked", unit, grams, r)
           /\ c.at # "none" => c # None
BY DEF CartOf, ReadWith, None

\* Reading the bag.
LEMMA GetCartBill ==
    ASSUME BillInv, GetCart
    PROVE  BillInv'
<1>1. ShopInv'
    BY DEF BillInv, ShopInv, GetCart, KeepShop
<1>2. order = None /\ order' = None
    BY DEF BillInv, OrderInv, BillOf, GetCart
<1>3. CartInv'
    <2> PICK unit : unit = [v \in Lines |-> UnitPrice(v)]
        OBVIOUS
    <2>1. unit \in [Lines -> Nat]
        BY UnitPriceNat DEF BillInv
    <2> PICK grams : grams = Total([v \in Lines |-> IF Catalogue[v].mode = "FIXED" THEN 0
                                                    ELSE Catalogue[v].weight * bag[v]], Lines)
        OBVIOUS
    <2>2. Subtotals(bag, unit) = [v \in Lines |-> unit[v] * bag[v]]
        BY DEF Subtotals, Lines
    <2>3. cart' = CartOf(bag, "read", unit, grams, rule)
        BY <2>2 DEF GetCart, CartOf, ReadWith, Lines
    <2>4. bag' = bag /\ Lines' = Lines
        BY DEF GetCart, Lines
    <2> QED
        BY <2>1, <2>3, <2>4 DEF CartInv
<1>4. ReturnsInv'
    BY <1>2 DEF BillInv, ReturnsInv, GetCart, KeepReturns
<1> QED
    BY <1>1, <1>2, <1>3, <1>4 DEF BillInv, OrderInv

\* Checking the minimum changes nothing of it.
LEMMA CheckMinimumBill ==
    ASSUME BillInv, CheckMinimum
    PROVE  BillInv'
<1>1. ShopInv'
    BY DEF BillInv, ShopInv, CheckMinimum, KeepShop
<1>2. cart # None
    BY DEF CheckMinimum, None
<1>3. PICK a, grams, r : \E unit \in [Lines -> Nat] : cart = CartOf(bag, a, unit, grams, r)
    BY <1>2 DEF BillInv, CartInv
<1>4. PICK unit \in [Lines -> Nat] : cart = CartOf(bag, a, unit, grams, r)
    BY <1>3
<1>5. cart' = CartOf(bag, "checked", unit, grams, r)
    BY <1>4, CartFacts DEF CheckMinimum
<1>6. cart'.total = cart.total /\ cart' # None
    <2>1. cart'.at = "checked" /\ cart'.total = Total(Subtotals(bag, unit), DOMAIN bag)
        BY <1>5, CartFacts
    <2>2. cart.total = Total(Subtotals(bag, unit), DOMAIN bag)
        BY <1>4, CartFacts
    <2> QED
        BY <2>1, <2>2 DEF None
<1>7. bag' = bag /\ order' = order /\ Lines' = Lines
    BY DEF CheckMinimum, Lines
<1>8. CartInv'
    BY <1>5, <1>7 DEF CartInv
<1>9. OrderInv'
    BY <1>6, <1>7 DEF BillInv, OrderInv, BillOf
<1>10. ReturnsInv'
    BY <1>7 DEF BillInv, ReturnsInv, CheckMinimum, KeepReturns
<1> QED
    BY <1>1, <1>8, <1>9, <1>10 DEF BillInv

\* A delivery fee is not negative.
LEMMA FeeNat ==
    ASSUME NEW r \in Rules, NEW grams, NEW subtotal
    PROVE  ShippingFee(r, grams, subtotal) \in Nat
<1>1. r.fee \in Nat
    BY BillingAssumption DEF Weights
<1> QED
    BY <1>1 DEF ShippingFee

\* What the checkout computes.
LEMMA CheckoutMakesBill ==
    ASSUME BillInv, Checkout
    PROVE  BillOf(bag, cart, order') /\ cart' = cart /\ bag' = bag /\ KeepShop /\ KeepReturns
             /\ order = None /\ order' # None
<1> DEFINE discount == CouponDiscount(cart.subtotals)
<1>0. PICK shares \in Shares(discount, cart.subtotals, EligibleLines) : \E paid :
          /\ \A v \in Lines : paid[v] \in Taxes(cart.subtotals[v] - shares[v],
                                                GstPercent(cart.unit[v]))
          /\ PlaceOrder(discount, shares, paid)
    BY DEF Checkout
<1>1. PICK paid : /\ \A v \in Lines : paid[v] \in Taxes(cart.subtotals[v] - shares[v],
                                                        GstPercent(cart.unit[v]))
                  /\ PlaceOrder(discount, shares, paid)
    BY <1>0
<1>2. cart # None
    BY DEF Checkout, None
<1>3. PICK a, grams, r : \E u \in [Lines -> Nat] : cart = CartOf(bag, a, u, grams, r)
    BY <1>2 DEF BillInv, CartInv
<1>4. PICK unit \in [Lines -> Nat] : cart = CartOf(bag, a, unit, grams, r)
    BY <1>3
<1> PICK sub : sub = Subtotals(bag, unit)
    OBVIOUS
<1>5. cart.unit = unit /\ cart.subtotals = sub /\ cart.total = Total(sub, Lines)
    BY <1>4, CartFacts DEF Lines
<1>6. IsFiniteSet(Lines) /\ \A v \in Lines : bag[v] \in Nat /\ bag[v] > 0
    BY LinesFacts DEF BillInv
<1>7. sub \in [Lines -> Nat] /\ \A v \in Lines : sub[v] = unit[v] * bag[v] /\ unit[v] \in Nat
    BY <1>6 DEF Subtotals, Lines
<1> PICK d : d = discount
    OBVIOUS
<1>8. /\ EligibleLines \in SUBSET Lines /\ Total(sub, EligibleLines) \in Nat
      /\ d \in 0..Total(sub, EligibleLines)
    BY <1>5, <1>7, CouponDiscountBounds DEF BillInv
<1>9. shares \in Shares(d, sub, EligibleLines) /\ PlaceOrder(d, shares, paid)
    BY <1>1, <1>5
<1>10. (\A v \in Lines : shares[v] \in 0..sub[v]) /\ Total(shares, Lines) = d
    BY ONLY <1>6, <1>7, <1>8, <1>9, SharesSplit
<1>11. ASSUME NEW v \in Lines
       PROVE  paid[v] \in Nat
    <2>1. sub[v] \in Nat /\ unit[v] \in Nat
        BY <1>7
    <2>2. sub[v] - shares[v] \in Nat
        BY <1>10, <2>1
    <2>3. GstPercent(unit[v]) \in Nat
        BY <2>1, GstPercentNat
    <2>4. paid[v] \in Taxes(sub[v] - shares[v], GstPercent(unit[v]))
        BY <1>1, <1>5
    <2> QED
        BY ONLY <2>2, <2>3, <2>4, TaxesNat
<1> HIDE DEF discount
<1> PICK fee : fee = FeeOfOrder(d)
    OBVIOUS
<1>12. order' = [at |-> "placed",
                 items |-> [v \in Lines |-> [quantity |-> bag[v], unit |-> unit[v], total |-> sub[v],
                                             discount |-> shares[v], tax |-> paid[v]]],
                 discount |-> d, fee |-> fee,
                 total |-> cart.total + Total(paid, Lines) + fee - d]
    BY <1>5, <1>9 DEF PlaceOrder
<1>13. \A v \in Lines : /\ order'.items[v].quantity = bag[v] /\ order'.items[v].unit = unit[v]
                        /\ order'.items[v].total = sub[v] /\ order'.items[v].discount = shares[v]
                        /\ order'.items[v].tax = paid[v]
    BY <1>12
<1>14. order'.discount = d /\ order'.fee = fee /\ order' # None
       /\ order'.total = cart.total + Total(paid, Lines) + fee - d
    BY <1>12 DEF None
<1> PICK o : o = order'
    OBVIOUS
<1>15. \A v \in Lines : ItemOf(o.items[v], bag[v])
    BY <1>7, <1>10, <1>11, <1>13 DEF ItemOf
<1>16. fee \in Nat
    BY FeeNat DEF FeeOfOrder, BillInv, ShopInv
<1>17. Total(Charged(bag, o), Lines) = Total(sub, Lines)
    <2>1. \A v \in Lines : Charged(bag, o)[v] = sub[v]
        BY <1>13 DEF Charged, Lines
    <2> QED
        BY <1>6, <2>1, SumSame DEF Total
<1>18. Total(Discounted(bag, o), Lines) = Total(shares, Lines)
    <2>1. \A v \in Lines : Discounted(bag, o)[v] = shares[v]
        BY <1>13 DEF Discounted, Lines
    <2> QED
        BY <1>6, <2>1, SumSame DEF Total
<1>19. Total(Taxed(bag, o), Lines) = Total(paid, Lines)
    <2>1. \A v \in Lines : Taxed(bag, o)[v] = paid[v]
        BY <1>13 DEF Taxed, Lines
    <2> QED
        BY <1>6, <2>1, SumSame DEF Total
<1>20. BillOf(bag, cart, o)
    BY <1>2, <1>5, <1>10, <1>14, <1>15, <1>16, <1>17, <1>18, <1>19 DEF BillOf, Lines
<1>21. cart' = cart /\ bag' = bag /\ KeepShop /\ KeepReturns /\ order = None
    BY <1>9 DEF PlaceOrder
<1> QED
    BY <1>14, <1>20, <1>21

\* The order, of which nothing was returned yet.
LEMMA CheckoutBill ==
    ASSUME BillInv, Checkout
    PROVE  BillInv'
<1>1. BillOf(bag, cart, order') /\ cart' = cart /\ bag' = bag /\ KeepShop /\ KeepReturns
             /\ order = None /\ order' # None
    BY CheckoutMakesBill
<1>2. Lines' = Lines /\ coupon' = coupon
    BY <1>1 DEF Lines, Checkout, PlaceOrder
<1>3. ShopInv'
    BY <1>1, <1>2 DEF BillInv, ShopInv, KeepShop
<1>4. CartInv'
    BY <1>1, <1>2 DEF BillInv, CartInv
<1>5. OrderInv'
    BY <1>1 DEF OrderInv
<1>6. ASSUME NEW v \in Lines
      PROVE  /\ returned'[v] <= bag[v] /\ (returned'[v] > 0 => parts'[v] > 0)
             /\ RepaidSoFar(order'.items[v], bag[v], returned'[v], repaid'[v], parts'[v])
    <2>1. returned'[v] = 0 /\ repaid'[v] = 0 /\ parts'[v] = 0
        BY <1>1, LinesFacts DEF BillInv, ReturnsInv, KeepReturns
    <2>2. bag[v] \in Nat
        BY LinesFacts DEF BillInv
    <2> PICK i : i = order'.items[v]
        OBVIOUS
    <2>3. i.unit \in Nat /\ i.discount \in Nat /\ i.tax \in Nat
        BY <1>1 DEF BillOf, ItemOf, Lines
    <2>4. i.unit * 0 = 0 /\ i.discount * 0 = 0 /\ i.tax * 0 = 0
        BY <2>3
    <2>5. RepaidSoFar(i, bag[v], 0, 0, 0)
        BY <2>2, <2>4, NearNothing DEF RepaidSoFar
    <2> QED
        BY <2>1, <2>2, <2>5
<1>7. ReturnsInv'
    BY <1>1, <1>2, <1>6 DEF BillInv, ReturnsInv, KeepReturns
<1> QED
    BY <1>3, <1>4, <1>5, <1>7 DEF BillInv

\* A return of k more pieces of a line.
LEMMA RepaidMore ==
    ASSUME NEW i, NEW q \in Nat, q > 0, ItemOf(i, q), NEW n \in Nat, NEW k \in Nat, NEW p \in Nat,
           NEW x \in Nat, RepaidSoFar(i, q, n, x, p)
    PROVE  /\ x + Worth(i, k) \in Nat
           /\ RepaidSoFar(i, q, n + k, x + Worth(i, k), p + 1)
<1>1. i.quantity = q /\ i.unit \in Nat /\ i.discount \in Nat /\ i.discount <= i.unit * q /\ i.tax \in Nat
    BY DEF ItemOf
<1> PICK u \in Nat : u = i.unit
    BY <1>1
<1> PICK d \in Nat : d = i.discount
    BY <1>1
<1> PICK t \in Nat : t = i.tax
    BY <1>1
<1>2. d * k \in Nat /\ t * k \in Nat /\ d * n \in Nat /\ t * n \in Nat /\ u * k \in Nat /\ u * n \in Nat
    OBVIOUS
<1> PICK f \in Nat : f = Round(d * k, q)
    BY <1>2, RoundBounds
<1> PICK g \in Nat : g = Round(t * k, q)
    BY <1>2, RoundBounds
<1>3. Worth(i, k) = u * k - f + g
    BY <1>1 DEF Worth
<1>4. f <= u * k
    BY <1>1, WorthNat
<1>5. PICK a, b \in Int : x = u * n - a + b /\ Near(a, d * n, q, p) /\ Near(b, t * n, q, p)
    BY DEF RepaidSoFar
<1>6. Near(a + f, d * n + d * k, q, p + 1)
    BY <1>2, <1>5, NearAgain
<1>7. Near(b + g, t * n + t * k, q, p + 1)
    BY <1>2, <1>5, NearAgain
<1>8. d * n + d * k = d * (n + k) /\ t * n + t * k = t * (n + k) /\ u * n + u * k = u * (n + k)
    BY ONLY d \in Nat, t \in Nat, u \in Nat, n \in Nat, k \in Nat
<1> PICK un \in Nat : un = u * n
    BY <1>2
<1> PICK uk \in Nat : uk = u * k
    BY <1>2
<1>9. x + Worth(i, k) = u * (n + k) - (a + f) + (b + g)
    BY <1>3, <1>5, <1>8
<1>10. x + Worth(i, k) \in Nat
    BY <1>3, <1>4
<1>11. a + f \in Int /\ b + g \in Int
    OBVIOUS
<1>12. RepaidSoFar(i, q, n + k, x + Worth(i, k), p + 1)
    BY <1>6, <1>7, <1>8, <1>9, <1>11 DEF RepaidSoFar
<1> QED
    BY <1>10, <1>12

\* A return.
LEMMA ReturnUnitsBill ==
    ASSUME BillInv, NEW v \in Lines, NEW n \in 1..bag[v], ReturnUnits(v, n)
    PROVE  BillInv'
<1>1. bag' = bag /\ cart' = cart /\ order' = order /\ order # None /\ Lines' = Lines
      /\ KeepShop /\ coupon' = coupon
    BY DEF ReturnUnits, Lines
<1>2. ShopInv' /\ CartInv' /\ OrderInv'
    BY <1>1 DEF BillInv, ShopInv, CartInv, OrderInv, KeepShop
<1>3. \A w \in Lines : w \in Variants /\ bag[w] \in Nat /\ bag[w] > 0
    BY LinesFacts DEF BillInv
<1>4. /\ returned \in [Variants -> Nat] /\ repaid \in [Variants -> Nat] /\ parts \in [Variants -> Nat]
    BY DEF BillInv, ReturnsInv
<1>5. n \in Nat /\ n > 0
    BY <1>3
<1>6. ItemOf(order.items[v], bag[v])
    BY <1>1 DEF BillInv, OrderInv, BillOf, Lines
<1>7. \A w \in Lines :
          /\ returned[w] <= bag[w] /\ (returned[w] > 0 => parts[w] > 0)
          /\ RepaidSoFar(order.items[w], bag[w], returned[w], repaid[w], parts[w])
    BY <1>1 DEF BillInv, ReturnsInv
<1>8. /\ returned' = [returned EXCEPT ![v] = returned[v] + n]
      /\ repaid' = [repaid EXCEPT ![v] = repaid[v] + Worth(order.items[v], n)]
      /\ parts' = [parts EXCEPT ![v] = parts[v] + 1]
      /\ n <= bag[v] - returned[v]
    BY DEF ReturnUnits
<1>9. /\ repaid[v] + Worth(order.items[v], n) \in Nat
      /\ RepaidSoFar(order.items[v], bag[v], returned[v] + n,
                     repaid[v] + Worth(order.items[v], n), parts[v] + 1)
    <2>1. returned[v] \in Nat /\ repaid[v] \in Nat /\ parts[v] \in Nat
        BY <1>3, <1>4
    <2> QED
        BY <1>3, <1>5, <1>6, <1>7, <2>1, RepaidMore
<1>10. returned' \in [Variants -> Nat] /\ repaid' \in [Variants -> Nat] /\ parts' \in [Variants -> Nat]
    BY <1>3, <1>4, <1>5, <1>8, <1>9
<1>11. ASSUME NEW w \in Lines
       PROVE  /\ returned'[w] <= bag[w] /\ (returned'[w] > 0 => parts'[w] > 0)
              /\ RepaidSoFar(order.items[w], bag[w], returned'[w], repaid'[w], parts'[w])
    <2>1. CASE w = v
        <3>1. returned'[v] = returned[v] + n /\ parts'[v] = parts[v] + 1
              /\ repaid'[v] = repaid[v] + Worth(order.items[v], n)
            BY <1>3, <1>4, <1>8
        <3>2. returned[v] + n <= bag[v] /\ parts[v] + 1 > 0
            BY <1>3, <1>4, <1>5, <1>8
        <3> QED
            BY <1>9, <2>1, <3>1, <3>2
    <2>2. CASE w # v
        <3>1. returned'[w] = returned[w] /\ parts'[w] = parts[w] /\ repaid'[w] = repaid[w]
            BY <1>3, <1>4, <1>8, <2>2
        <3> QED
            BY <1>7, <3>1
    <2> QED
        BY <2>1, <2>2
<1>12. ReturnsInv'
    BY <1>1, <1>10, <1>11 DEF ReturnsInv
<1> QED
    BY <1>2, <1>12 DEF BillInv

\* Edits of the rate, the rule and the offers leave a read bag alone.
LEMMA EditBill ==
    ASSUME BillInv, UpdatePricingSetting \/ UpdateShippingRule \/ \E o \in Offers : SetOfferActive(o)
    PROVE  BillInv'
<1>1. /\ UNCHANGED <<bag, coupon, cart, order, returned, repaid, parts>>
    BY DEF UpdatePricingSetting, UpdateShippingRule, SetOfferActive, Edit, KeepReturns
<1>2. ShopInv'
    BY <1>1 DEF BillInv, ShopInv, UpdatePricingSetting, UpdateShippingRule, SetOfferActive
<1>3. Lines' = Lines
    BY <1>1 DEF Lines
<1> QED
    BY <1>1, <1>2, <1>3 DEF BillInv, CartInv, OrderInv, ReturnsInv

\* Steps of others.
LEMMA StutterBill ==
    ASSUME BillInv, UNCHANGED vars
    PROVE  BillInv'
BY DEF BillInv, ShopInv, CartInv, OrderInv, ReturnsInv, Lines, vars

\* The invariant of the bill, for any catalogue, bag, offers, coupon, slabs and
\* rules that the schemas let in: the cart is what was read, the order is what
\* its lines come to, and every line was repaid within half a paisa a part.
THEOREM BillCorrect == Spec => []BillInv
<1>1. BillInv /\ [Next]_vars => BillInv'
    <2> SUFFICES ASSUME BillInv, [Next]_vars
                 PROVE  BillInv'
        OBVIOUS
    <2>1. ASSUME NEW v \in Lines, NEW n \in 1..bag[v], ReturnUnits(v, n)
          PROVE  BillInv'
        BY <2>1, ReturnUnitsBill
    <2> QED
        BY <2>1, EditBill, GetCartBill, CheckMinimumBill, CheckoutBill, StutterBill DEF Next
<1> QED
    BY InitBill, <1>1, PTL DEF Spec

\* Sums over a bill.
LEMMA BillSums ==
    ASSUME BillInv, order # None
    PROVE  /\ \A v \in Lines : ItemOf(order.items[v], bag[v])
           /\ cart.total = Total(Charged(bag, order), Lines)
           /\ order.discount \in 0..cart.total /\ cart.total \in Nat
           /\ Total(Taxed(bag, order), Lines) \in Nat
           /\ Total([v \in Lines |-> Paid(v)], Lines)
                  = cart.total - order.discount + Total(Taxed(bag, order), Lines)
<1>1. BillOf(bag, cart, order)
    BY DEF BillInv, OrderInv
<1>2. IsFiniteSet(Lines) /\ \A v \in Lines : bag[v] \in Nat
    BY LinesFacts DEF BillInv
<1>3. \A v \in Lines : ItemOf(order.items[v], bag[v])
    BY <1>1 DEF BillOf, Lines
<1> PICK C : C = Charged(bag, order)
    OBVIOUS
<1> PICK D : D = Discounted(bag, order)
    OBVIOUS
<1> PICK T : T = Taxed(bag, order)
    OBVIOUS
<1> PICK P : P = [v \in Lines |-> Paid(v)]
    OBVIOUS
<1>4. ASSUME NEW v \in Lines
      PROVE  /\ C[v] \in Nat /\ D[v] \in 0..C[v] /\ T[v] \in Nat
             /\ P[v] = C[v] - D[v] + T[v]
    <2> PICK i : i = order.items[v]
        OBVIOUS
    <2>1. C[v] = i.total /\ D[v] = i.discount /\ T[v] = i.tax
        BY DEF Charged, Discounted, Taxed, Lines
    <2>2. i.total = i.unit * bag[v] /\ i.unit \in Nat /\ i.discount \in 0..i.total /\ i.tax \in Nat
        BY <1>3 DEF ItemOf
    <2>3. i.total \in Nat
        BY <1>2, <2>2
    <2>4. P[v] = i.total - i.discount + i.tax
        BY DEF Paid
    <2> QED
        BY <2>1, <2>2, <2>3, <2>4
<1> PICK Q : Q = [v \in Lines |-> C[v] - D[v]]
    OBVIOUS
<1>5. \A v \in Lines : /\ C[v] \in Nat /\ C[v] \in Int /\ D[v] \in Nat /\ D[v] \in Int /\ D[v] <= C[v]
                       /\ T[v] \in Nat /\ T[v] \in Int /\ P[v] \in Int /\ Q[v] \in Int
                       /\ 1 * C[v] = 1 * D[v] + Q[v] /\ 1 * P[v] = 1 * Q[v] + T[v]
    <2>1. ASSUME NEW v \in Lines
          PROVE  /\ C[v] \in Nat /\ C[v] \in Int /\ D[v] \in Nat /\ D[v] \in Int /\ D[v] <= C[v]
                 /\ T[v] \in Nat /\ T[v] \in Int /\ P[v] \in Int /\ Q[v] \in Int
                 /\ 1 * C[v] = 1 * D[v] + Q[v] /\ 1 * P[v] = 1 * Q[v] + T[v]
        <3>1. Q[v] = C[v] - D[v]
            OBVIOUS
        <3> QED
            BY <1>4, <3>1
    <2> QED
        BY <2>1
<1>6. SumFunctionOnSet(C, Lines) \in Nat
    BY ONLY <1>2, <1>5, SumNat
<1>7. SumFunctionOnSet(D, Lines) \in Nat
    BY ONLY <1>2, <1>5, SumNat
<1>8. SumFunctionOnSet(T, Lines) \in Nat
    BY ONLY <1>2, <1>5, SumNat
<1>9. SumFunctionOnSet(D, Lines) <= SumFunctionOnSet(C, Lines)
    BY ONLY <1>2, <1>5, SumMonotone
<1>10. 1 * SumFunctionOnSet(C, Lines) = 1 * SumFunctionOnSet(D, Lines) + SumFunctionOnSet(Q, Lines)
    BY ONLY <1>2, <1>5, SumLinear, 1 \in Int
<1>11. 1 * SumFunctionOnSet(P, Lines) = 1 * SumFunctionOnSet(Q, Lines) + SumFunctionOnSet(T, Lines)
    BY ONLY <1>2, <1>5, SumLinear, 1 \in Int
<1>12. SumFunctionOnSet(P, Lines) \in Int
    BY ONLY <1>2, <1>5, SumInt
<1>13. SumFunctionOnSet(Q, Lines) \in Int
    BY ONLY <1>2, <1>5, SumInt
<1>14. SumFunctionOnSet(P, Lines)
           = SumFunctionOnSet(C, Lines) - SumFunctionOnSet(D, Lines) + SumFunctionOnSet(T, Lines)
    BY ONLY <1>6, <1>7, <1>8, <1>10, <1>11, <1>12, <1>13
<1>15. cart.total = SumFunctionOnSet(C, Lines) /\ order.discount = SumFunctionOnSet(D, Lines)
    BY <1>1 DEF BillOf, Total, Lines
<1> QED
    BY <1>3, <1>6, <1>7, <1>8, <1>9, <1>14, <1>15 DEF Total

\* The invariant gives TypeOK.
LEMMA BillIsTyped ==
    ASSUME BillInv
    PROVE  TypeOK
<1>1. \A v \in Lines : UnitPrice(v) \in Nat
    BY UnitPriceNat DEF BillInv
<1>2. \A v \in Lines : v \in Variants /\ bag[v] \in Nat
    BY LinesFacts DEF BillInv
<1>3. ASSUME NEW v \in Lines
      PROVE  returned[v] \in 0..bag[v] /\ repaid[v] \in Nat
    <2>1. v \in Variants /\ bag[v] \in Nat
        BY <1>2
    <2>2. returned[v] \in Nat /\ repaid[v] \in Nat
        BY <2>1 DEF BillInv, ReturnsInv
    <2>3. returned[v] <= bag[v]
        BY <2>1 DEF BillInv, ReturnsInv
    <2> QED
        BY <2>1, <2>2, <2>3
<1>4. ASSUME order # None
      PROVE  /\ order.total \in Nat /\ order.discount \in 0..cart.total /\ order.fee \in Nat
             /\ \A v \in Lines : /\ order.items[v].discount \in 0..order.items[v].total
                                 /\ order.items[v].tax \in Nat
    <2>1. /\ order.fee \in Nat
          /\ order.total = cart.total + Total(Taxed(bag, order), Lines) + order.fee - order.discount
        BY <1>4 DEF BillInv, OrderInv, BillOf, Lines
    <2>2. order.discount \in 0..cart.total /\ cart.total \in Nat /\ Total(Taxed(bag, order), Lines) \in Nat
        BY <1>4, BillSums
    <2>3. order.total \in Nat
        BY <2>1, <2>2
    <2>4. \A v \in Lines : ItemOf(order.items[v], bag[v])
        BY <1>4, BillSums
    <2> QED
        BY <2>1, <2>2, <2>3, <2>4 DEF ItemOf
<1> QED
    BY <1>1, <1>3, <1>4 DEF TypeOK

\* No amount is negative: unit prices, taxes, fee, total and refunds; a coupon
\* takes at most the bag, its share of a line at most the line, and no more
\* comes back than was bought.
THEOREM AmountsCorrect == Spec => []TypeOK
BY BillCorrect, BillIsTyped, PTL

\* "Money must reconcile exactly": the order's total is its fee and what its
\* lines come to, whichever lines the coupon's odd paise went to.
THEOREM MoneyReconciles == Spec => []BillAddsUp
<1>1. BillInv => BillAddsUp
    <2> SUFFICES ASSUME BillInv, order # None
                 PROVE  order.total = order.fee + Total([v \in Lines |-> Paid(v)], Lines)
        BY DEF BillAddsUp
    <2>1. /\ order.fee \in Nat
          /\ order.total = cart.total + Total(Taxed(bag, order), Lines) + order.fee - order.discount
        BY DEF BillInv, OrderInv, BillOf, Lines
    <2>2. /\ order.discount \in 0..cart.total /\ cart.total \in Nat
          /\ Total(Taxed(bag, order), Lines) \in Nat
          /\ Total([v \in Lines |-> Paid(v)], Lines)
                 = cart.total - order.discount + Total(Taxed(bag, order), Lines)
        BY BillSums
    <2> QED
        BY <2>1, <2>2
<1> QED
    BY <1>1, BillCorrect, PTL

\* A line returned completely in any number of parts, each rounded by itself
\* (calculateReturnRefundAmount), was repaid what was paid for it, up to a
\* paisa for each part but one: so far can RefundsWithinPaid be missed.
RefundsAddUpToPaid ==
    \A v \in Lines : returned[v] = bag[v] =>
        repaid[v] - Paid(v) \in 1 - parts[v] .. parts[v] - 1

THEOREM RefundsReconcile == Spec => []RefundsAddUpToPaid
<1>1. BillInv => RefundsAddUpToPaid
    <2> SUFFICES ASSUME BillInv, NEW v \in Lines, returned[v] = bag[v]
                 PROVE  repaid[v] - Paid(v) \in 1 - parts[v] .. parts[v] - 1
        BY DEF RefundsAddUpToPaid
    <2>1. v \in Variants /\ bag[v] \in Nat /\ bag[v] > 0
        BY LinesFacts DEF BillInv
    <2>2. order # None
        BY <2>1 DEF BillInv, ReturnsInv
    <2>3. repaid[v] \in Nat /\ parts[v] \in Nat /\ parts[v] > 0
        BY <2>1, <2>2 DEF BillInv, ReturnsInv
    <2>4. RepaidSoFar(order.items[v], bag[v], bag[v], repaid[v], parts[v])
        BY <2>2 DEF BillInv, ReturnsInv
    <2>5. ItemOf(order.items[v], bag[v])
        BY <2>2, BillSums
    <2> PICK q \in Nat : q = bag[v]
        BY <2>1
    <2> PICK i : i = order.items[v]
        OBVIOUS
    <2>6. i.unit \in Nat /\ i.discount \in Nat /\ i.tax \in Nat /\ i.total = i.unit * q
        BY <2>5 DEF ItemOf
    <2> PICK d \in Nat : d = i.discount
        BY <2>6
    <2> PICK t \in Nat : t = i.tax
        BY <2>6
    <2> PICK w \in Nat : w = i.unit * q
        BY <2>6
    <2> PICK p \in Nat : p = parts[v]
        BY <2>3
    <2>7. PICK a, b \in Int : repaid[v] = w - a + b /\ Near(a, d * q, q, p) /\ Near(b, t * q, q, p)
        BY <2>4 DEF RepaidSoFar
    <2>8. 2 * (a - d) <= p /\ -p < 2 * (a - d)
        BY <2>1, <2>3, <2>7, NearWhole
    <2>9. 2 * (b - t) <= p /\ -p < 2 * (b - t)
        BY <2>1, <2>3, <2>7, NearWhole
    <2>10. Paid(v) = w - d + t
        BY <2>6 DEF Paid
    <2>11. repaid[v] - Paid(v) = (b - t) - (a - d)
        BY <2>7, <2>10
    <2> QED
        BY <2>3, <2>8, <2>9, <2>11
<1> QED
    BY <1>1, BillCorrect, PTL

\* The offer that applies to a product never depends on the order in which the
\* database returns them: one sorts before all others.
THEOREM OfferIsUnique == Spec => []OneOfferWins
<1>1. BillInv => OneOfferWins
    <2> SUFFICES ASSUME BillInv, NEW v \in Lines, Matching(v) # {}
                 PROVE  Cardinality(Winners(v)) = 1
        BY DEF OneOfferWins
    <2>1. PICK o : Winners(v) = {o}
        BY WinnerIsOne DEF BillInv
    <2>2. Cardinality({o}) = 1
        BY FS_Singleton
    <2> QED
        BY <2>1, <2>2
<1> QED
    BY <1>1, BillCorrect, PTL

-----------------------------------------------------------------------------
(* Delivery                                                                *)

CartFeeIsOfItsRule ==
    cart # None =>
        \E a, unit, subtotals, total, grams, r :
            cart = ReadWith(a, unit, subtotals, total, grams, r)
OrderFollowsCart == order # None => cart # None
FeeInv == CartFeeIsOfItsRule /\ OrderFollowsCart /\ FeeAsShown

LEMMA GetCartKeepsFee ==
    ASSUME FeeInv, GetCart
    PROVE  FeeInv'
<1>1. cart = None /\ order = None /\ order' = order
  BY DEF GetCart, FeeInv, OrderFollowsCart
<1>2. CartFeeIsOfItsRule'
  BY DEF GetCart, CartFeeIsOfItsRule, ReadWith
<1> QED
  BY <1>1, <1>2 DEF FeeInv, OrderFollowsCart, FeeAsShown

LEMMA CheckMinimumKeepsFee ==
    ASSUME FeeInv, CheckMinimum
    PROVE  FeeInv'
<1>1. cart # None
  BY DEF CheckMinimum, None
<1>2. PICK a, unit, subtotals, total, grams, r :
        cart = ReadWith(a, unit, subtotals, total, grams, r)
  BY <1>1 DEF FeeInv, CartFeeIsOfItsRule
<1>3. cart' = ReadWith("checked", unit, subtotals, total, grams, r)
  BY <1>2 DEF CheckMinimum, ReadWith
<1>4. cart' # None /\ cart'.fee = cart.fee /\ cart'.rule = cart.rule
  BY <1>2, <1>3 DEF ReadWith, None
<1>5. CartFeeIsOfItsRule'
  BY <1>3 DEF CartFeeIsOfItsRule
<1> QED
  BY <1>4, <1>5 DEF FeeInv, OrderFollowsCart, FeeAsShown, CheckMinimum, KeepShop

\* The fee is evaluated again, by the subtotal before the coupon.
LEMMA CheckoutKeepsFee ==
    ASSUME FeeInv, Checkout
    PROVE  FeeInv'
<1>1. PICK discount, shares, tax : PlaceOrder(discount, shares, tax)
  BY DEF Checkout
<1>2. cart # None /\ cart' = cart /\ rule' = rule
  BY <1>1 DEF PlaceOrder, None, KeepShop
<1>3. PICK a, unit, subtotals, total, grams, r :
        cart = ReadWith(a, unit, subtotals, total, grams, r)
  BY <1>2 DEF FeeInv, CartFeeIsOfItsRule
<1>4. /\ cart.rule = r /\ cart.grams = grams /\ cart.total = total
      /\ cart.fee = ShippingFee(r, grams, total)
  BY <1>3 DEF ReadWith
<1>5. order'.fee = ShippingFee(rule, grams, total)
  BY <1>1, <1>4 DEF PlaceOrder, FeeOfOrder
<1>6. FeeAsShown'
  BY <1>2, <1>4, <1>5 DEF FeeAsShown
<1> QED
  BY <1>2, <1>6 DEF FeeInv, CartFeeIsOfItsRule, OrderFollowsCart

\* Edits end with the order; returns touch neither.
LEMMA OthersKeepFee ==
    ASSUME FeeInv, UNCHANGED <<cart, order>>, order = None \/ rule' = rule
    PROVE  FeeInv'
  BY DEF FeeInv, CartFeeIsOfItsRule, OrderFollowsCart, FeeAsShown

\* An order is charged the delivery that its bag was shown with unless the
\* rule was edited in between, whatever the coupon takes off, for any bag,
\* rule, coupon and offers: "a coupon applied afterwards can never take free
\* delivery away at checkout" (checkout.use-case.ts).
THEOREM FeeIsAsShown == Spec => []FeeAsShown
<1>1. Init => FeeInv
  BY DEF Init, FeeInv, CartFeeIsOfItsRule, OrderFollowsCart, FeeAsShown
<1>2. ASSUME FeeInv, [Next]_vars
      PROVE  FeeInv'
  <2>1. CASE GetCart
    BY <1>2, <2>1, GetCartKeepsFee
  <2>2. CASE CheckMinimum
    BY <1>2, <2>2, CheckMinimumKeepsFee
  <2>3. CASE Checkout
    BY <1>2, <2>3, CheckoutKeepsFee
  <2>4. ASSUME NEW v, NEW n, ReturnUnits(v, n)
        PROVE  FeeInv'
    BY <1>2, <2>4, OthersKeepFee DEF ReturnUnits, KeepShop
  <2>5. ASSUME NEW o, UpdatePricingSetting \/ UpdateShippingRule \/ SetOfferActive(o)
        PROVE  FeeInv'
    BY <1>2, <2>5, OthersKeepFee DEF UpdatePricingSetting, UpdateShippingRule, SetOfferActive, Edit
  <2>6. CASE UNCHANGED vars
    BY <1>2, <2>6, OthersKeepFee DEF vars
  <2> QED
    BY <1>2, <2>1, <2>2, <2>3, <2>4, <2>5, <2>6 DEF Next
<1>3. FeeInv => FeeAsShown
  BY DEF FeeInv
<1> QED
  BY <1>1, <1>2, <1>3, PTL DEF Spec
=============================================================================
