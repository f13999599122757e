------------------------------ MODULE MCStores ------------------------------
(* Stores for TLC.                                                         *)
EXTENDS Stores, TLC

Symmetry == Permutations(Clients) \union Permutations(Tasks) \union Permutations(Callers)
=============================================================================
