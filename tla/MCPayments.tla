----------------------------- MODULE MCPayments -----------------------------
(* One order of one unit, which staff enter first, paid in any of the three  *)
(* ways, and two handlers.                                                   *)
EXTENDS Payments, TLC

CONSTANTS o1, v1, h1, h2, g1, g2

MCBasket == o1 :> (v1 :> 1)
MCOpening == v1 :> 0
=============================================================================
