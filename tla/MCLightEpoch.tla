---- MODULE MCLightEpoch ----
(* A small instance of LightEpoch. *)
EXTENDS LightEpoch

CONSTANTS t1, t2, a1

TwoThreads == {t1, t2}
OneAction == {a1}
====
