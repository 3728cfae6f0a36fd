----------------------------- MODULE MCCatalog -----------------------------
(* Three tables at most, one declaration to a page of the catalog's heap.  *)
EXTENDS Catalog, TLC

CONSTANTS a, b, c

MCNames == {a, b, c}
MCSymmetry == Permutations(MCNames)
=============================================================================
