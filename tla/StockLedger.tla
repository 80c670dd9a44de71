---------------------------- MODULE StockLedger ----------------------------
(* What the shop promises about stock, whatever the interleaving of HTTP     *)
(* requests, webhooks and staff clicks: every order takes its whole basket   *)
(* off the shelf at most once, turns that hold into a sale or gives it back, *)
(* and a sale can be returned to the shelf at most once.  Orders refines it. *)
EXTENDS Integers

CONSTANTS
    Orders,     \* the orders customers may place
    Variants,   \* the product variants on sale
    Basket      \* Basket[o][v]: units of v the order o asks for

VARIABLES
    shelf,      \* shelf[v]: units a new customer can still buy
    claim       \* claim[o]: what the order has done with its basket

vars == <<shelf, claim>>

Claims == {"none", "held", "sold", "returned"}

Init ==
    /\ shelf \in [Variants -> Nat]
    /\ claim = [o \in Orders |-> "none"]

\* The basket is taken as a whole or not at all, and never below an empty shelf.
Hold(o) ==
    /\ claim[o] = "none"
    /\ \A v \in Variants : Basket[o][v] <= shelf[v]
    /\ shelf' = [v \in Variants |-> shelf[v] - Basket[o][v]]
    /\ claim' = [claim EXCEPT ![o] = "held"]

Sell(o) ==
    /\ claim[o] = "held"
    /\ claim' = [claim EXCEPT ![o] = "sold"]
    /\ UNCHANGED shelf

\* A failed payment gives the hold back, a cancellation or a refused parcel the sale.
GiveBack(o) ==
    /\ claim[o] \in {"held", "sold"}
    /\ shelf' = [v \in Variants |-> shelf[v] + Basket[o][v]]
    /\ claim' = [claim EXCEPT ![o] = "returned"]

\* A stock count may add or remove unclaimed units only.
Recount(v) ==
    /\ shelf' \in [Variants -> Nat]
    /\ \A w \in Variants \ {v} : shelf'[w] = shelf[w]
    /\ UNCHANGED claim

Next ==
    \/ \E o \in Orders : Hold(o) \/ Sell(o) \/ GiveBack(o)
    \/ \E v \in Variants : Recount(v)

Spec == Init /\ [][Next]_vars
=============================================================================
