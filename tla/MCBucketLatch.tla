---- MODULE MCBucketLatch ----
(* A small instance of BucketLatch. *)
EXTENDS BucketLatch

CONSTANTS t1, t2

TwoThreads == {t1, t2}
====
