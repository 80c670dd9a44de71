------------------------------ MODULE MCOrders ------------------------------
(* Two orders that compete for the last units of one variant, two requests   *)
(* served at a time.                                                         *)
EXTENDS Orders, TLC

CONSTANTS o1, o2, v1, v2, h1, h2

MCBasket == (o1 :> (v1 :> 2 @@ v2 :> 1)) @@ (o2 :> (v1 :> 1 @@ v2 :> 0))
MCOpening == v1 :> 2 @@ v2 :> 1
MCDeltas == {-1, 1}
HandlerSymmetry == Permutations(Handlers)
=============================================================================
