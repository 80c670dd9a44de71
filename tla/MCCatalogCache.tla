--------------------------- MODULE MCCatalogCache ---------------------------
(***************************************************************************)
(* CatalogCache on a small instance: two requests, a product that is sold  *)
(* out and restocked, one write, two cached pages (a listing and the home  *)
(* page that was built from it).                                           *)
(***************************************************************************)
EXTENDS CatalogCache, TLC

\* Neither the requests nor the sets of variants differ in anything else.
CacheSymmetry == Permutations(Readers) \cup Permutations(Stocks)
=============================================================================
