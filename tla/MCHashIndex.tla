---- MODULE MCHashIndex ----
(* A small instance of HashIndex. *)
EXTENDS HashIndex, TLC

CONSTANTS t1, t2, t3, g1, g2

ThreeThreads == {t1, t2, t3}
TwoTags == {g1, g2}

Symmetry == Permutations(Threads) \union Permutations(Tags)
====
