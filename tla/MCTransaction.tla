---- MODULE MCTransaction ----
(* Small instance of Transaction. *)
EXTENDS Transaction

CONSTANTS s1, s2, a, b

SmallCommands == [op : {"set", "get"}, keys : {<<a, b>>}]
SmallSlotOf == [k \in {a, b} |-> IF k = a THEN 1 ELSE 2]
====
