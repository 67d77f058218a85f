---- MODULE MCHybridLog ----
(* Small instances of HybridLog. *)
EXTENDS HybridLog, TLC

CONSTANTS t1, t2

TwoThreads == {t1, t2}

Symmetry == Permutations(Threads)
====
