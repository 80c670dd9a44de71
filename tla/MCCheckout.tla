----------------------------- MODULE MCCheckout -----------------------------
EXTENDS Checkout, TLC
CONSTANTS u1, u2, g1, s, m, h1, h2
\* Two customers; or one who shops as a guest too.
MCScenes == {{u1, u2}, {u1, g1}}
CheckoutSymmetry == Permutations(Variants)
=============================================================================
