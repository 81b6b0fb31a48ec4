---------------------------- MODULE MCPageStore ----------------------------
(* A finite instance of PageStore: two keys, two values that fit a page.    *)
EXTENDS PageStore, TLC

CONSTANTS k1, k2, v1, v2
Pairs == Permutations({v1, v2})
KeyPairs == Permutations({k1, k2})
Symmetry == Pairs \cup KeyPairs
=============================================================================
