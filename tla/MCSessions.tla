---- MODULE MCSessions ----
EXTENDS Sessions, TLC
CONSTANTS u, c
MCAccount == c :> u
MCSymmetry == Permutations(Handlers)
====
