---- MODULE MCStringFunctions ----
(* Small instance of StringFunctions. *)
EXTENDS StringFunctions

SmallOperands == {<<57>>, <<57, 57>>, <<97>>}  (* "9", "99", "a" *)
SmallDeltas == {1, -10}
SmallOptions ==
  {{}, {"NX"}, {"XX"}, {"GET"}, {"KEEPTTL"}, {"GET", "KEEPTTL"}, {"XX", "KEEPTTL"}, {"NX", "XX"}, {"NX", "GET"}}
====
