---- MODULE MCServer ----
(* Small instance of Server: names and values of one byte. *)
EXTENDS Server

CONSTANTS c1, c2, c3

EncodeArg(a) == <<Dollar, Zero + Len(a), CR, LF>> \o a \o <<CR, LF>>
Encode(cmd) == <<Star, Zero + Len(cmd), CR, LF>> \o FlattenSeq([j \in DOMAIN cmd |-> EncodeArg(cmd[j])])

Stream(parts, commands, bad) ==
  [bytes |-> FlattenSeq(parts), commands |-> commands, bad |-> bad,
   ends |-> [j \in DOMAIN parts |-> Len(FlattenSeq(SubSeq(parts, 1, j)))]]

A == <<97>>
Line == <<Space, 97, Space, Space, 98, CR, LF>>         (* " a  b" inline *)
Blank == <<CR, LF>>
CrInValue == <<97, CR, LF>>                             (* a value with CRLF in it *)

LongStreams ==
  {Stream(<<Encode(<<A>>), Encode(<<A>>)>>, <<<<A>>, <<A>>>>, FALSE),
   Stream(<<Encode(<<Quit>>), Encode(<<A>>)>>, <<<<Quit>>>>, FALSE),
   Stream(<<Encode(<<CrInValue>>), Blank>>, <<<<CrInValue>>>>, FALSE),
   Stream(<<Blank, Line, Encode(<<>>), Line>>, <<<<A, <<98>>>>, <<A, <<98>>>>>>, FALSE),
   Stream(<<Encode(<<A, A>>)>>, <<>>, FALSE),
   Stream(<<Line, <<Star, Zero + 1, CR, LF, 58, 97, CR, LF>> >>, <<<<A, <<98>>>>>>, TRUE),
   Stream(<<Encode(<<A>>), <<Star, Minus, Zero + 1, CR, LF>> >>, <<<<A>>>>, TRUE),
   Stream(<<Encode(<<>>), <<Star, Zero + 1, CR, LF, Dollar, Zero + 1, CR, LF, 97, 97, CR, LF>> >>, <<>>, TRUE)}

(* The other clients come and go. *)
ShortStreams == {Stream(<<<<113, CR, LF>>>>, <<<<Quit>>>>, FALSE)}

SmallStreams == [c \in {c1, c2, c3} |-> IF c = c1 THEN LongStreams ELSE ShortStreams]
====
