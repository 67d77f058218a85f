---- MODULE MCStore ----
(* Small instances of Store. *)
EXTENDS Store, TLC

CONSTANTS t1, t2, k1, k2

TwoThreads == {t1, t2}
OneKey == {k1}
TwoKeys == {k1, k2}

Symmetry == Permutations(Threads) \union Permutations(Keys)
====
