----------------------------- MODULE MCBilling ------------------------------
(***************************************************************************)
(* Billing on small numbers: amounts of a few paise, so that every rounding *)
(* (of the weight price, the coupon's split, the tax, the parts of a       *)
(* return) has its ties and its neighbours.                                *)
(***************************************************************************)
EXTENDS Billing, TLC
CONSTANTS dress, clip

MCCatalogue == dress :> [mode |-> "WEIGHT_BASED", weight |-> 350, price |-> 0]
            @@ clip :> [mode |-> "FIXED", weight |-> 0, price |-> 7]
MCBags == {dress :> m : m \in 1..3} \cup {(dress :> m) @@ (clip :> n) : m \in 1..3, n \in 1..3}
            \cup {clip :> 3}
MCRates == {30, 41}
MCRules == {[minWeight |-> 350, freeWeight |-> 1000, fee |-> 4, freeSubtotal |-> 30],
            [minWeight |-> 700, freeWeight |-> 1000, fee |-> 5, freeSubtotal |-> 0]}
MCOffers == {[id |-> 1, scope |-> "ALL_PRODUCTS", matches |-> {}, priority |-> 1,
              type |-> "PERCENTAGE", value |-> 25],
             [id |-> 2, scope |-> "CATEGORY", matches |-> {dress}, priority |-> 1,
              type |-> "FIXED_AMOUNT", value |-> 2],
             [id |-> 3, scope |-> "CATEGORY", matches |-> {dress}, priority |-> 1,
              type |-> "PERCENTAGE", value |-> 15],
             [id |-> 4, scope |-> "PRODUCTS", matches |-> {clip}, priority |-> 0,
              type |-> "FIXED_AMOUNT", value |-> 9]}
MCCoupons == {[at |-> "coupon", type |-> "PERCENTAGE", value |-> 30, cap |-> 5, min |-> 0,
               matches |-> {dress, clip}],
              [at |-> "coupon", type |-> "FLAT", value |-> 8, cap |-> Unbounded, min |-> 12,
               matches |-> {dress, clip}],
              [at |-> "coupon", type |-> "FLAT", value |-> 10, cap |-> Unbounded, min |-> 0,
               matches |-> {clip}]}
MCSlabs == {[max |-> 10, percent |-> 5], [max |-> Unbounded, percent |-> 18]}
=============================================================================
