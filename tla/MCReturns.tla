----------------------------- MODULE MCReturns -----------------------------
(* One order of two shirts, of which a customer returns one or both, in up   *)
(* to two returns.                                                           *)
EXTENDS Returns, TLC

CONSTANTS r1, r2, shirt, c1, c2, s1, s2

MCOrdered == shirt :> 2
Line(n) == [item |-> shirt, quantity |-> n]
MCRequests == {<<Line(1)>>, <<Line(2)>>}
ReturnsSymmetry ==
    Permutations(Returns) \cup Permutations(Customers) \cup Permutations(Staff)
=============================================================================
