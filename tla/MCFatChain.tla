----------------------------- MODULE MCFatChain -----------------------------
(* FatChain on a handful of clusters and two interchangeable objects.      *)
EXTENDS FatChain, TLC
Symmetric == Permutations(Obj)
=============================================================================
