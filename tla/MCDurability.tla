---- MODULE MCDurability ----
(* Small instances of Durability. *)
EXTENDS Durability

CONSTANTS c1, c2

TwoSessions == {c1, c2}
====
