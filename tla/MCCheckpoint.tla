---- MODULE MCCheckpoint ----
(* Small instances of Checkpoint. *)
EXTENDS Checkpoint, TLC

CONSTANTS t1, t2, k1, s1

TwoThreads == {t1, t2}
OneKey == {k1}
OneSaver == {s1}
====
