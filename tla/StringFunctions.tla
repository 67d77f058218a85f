--------------------------- MODULE StringFunctions ---------------------------
(***************************************************************************)
(* What a string command does to the record of its key and what it         *)
(* answers: the callbacks of crates/garnet/src/functions.rs, the paths of  *)
(* crates/tsavorite/src/store.rs that choose between them, and the command *)
(* handlers of crates/garnet/src/commands.rs.                              *)
(*                                                                         *)
(* One key and one session: operations on a key are atomic                 *)
(* (Store!Linearizable).  A record that may not be written in place        *)
(* (read-only, on disk, or of version v for a v+1 thread) has mutable =    *)
(* FALSE.  A second store, the replica, executes what the first one logs,  *)
(* with the logged clock, as the recovery does; its records drift through  *)
(* the regions of its log at their own pace.  It is set aside once the two *)
(* stores diverge, until SAVE gives it a new start.                        *)
(*                                                                         *)
(* A value is a sequence of bytes, written as their ASCII codes.  64-bit   *)
(* integers are scaled down to -I64Max - 1 .. I64Max.  Times are           *)
(* milliseconds; expiry arguments are small enough not to overflow.        *)
(***************************************************************************)
EXTENDS Integers, SequencesExt

CONSTANTS
  Operands,      (* values the clients write                               *)
  Deltas,        (* INCRBY arguments                                       *)
  Times,         (* expiry arguments                                       *)
  SetOptions,    (* options a SET is called with, without its expiry       *)
  I64Max,        (* largest integer                                        *)
  MaxLen,        (* bound: bytes of a value                                *)
  MaxTime,       (* bound: clock                                           *)
  Nil

ASSUME OperandsAssumption == \A v \in Operands : v \in Seq(0 .. 255) /\ Len(v) <= MaxLen
ASSUME OptionsAssumption == SetOptions \subseteq SUBSET {"NX", "XX", "GET", "KEEPTTL"}
ASSUME NumbersAssumption ==
  /\ I64Max \in Nat /\ MaxLen \in Nat /\ MaxTime \in Nat
  /\ Deltas \subseteq -I64Max - 1 .. I64Max /\ Times \subseteq Int
ASSUME NoRecordAssumption ==
  /\ Nil \notin Int \cup [val : Seq(Int), exp : Int]
  /\ Nil \notin [val : Seq(Int), cap : Nat, slot : BOOLEAN, exp : Int, mutable : BOOLEAN]

VARIABLES
  rec,           (* the record of the key, Nil if absent or a tombstone    *)
  now,           (* the clock                                              *)
  replica,       (* the record of the key in the replica                   *)
  diverged       (* history: since the last SAVE a command has behaved     *)
                 (* in one of the ways KnownDivergence lists               *)

string_vars == <<rec, now, replica, diverged>>

-----------------------------------------------------------------------------
(* Integers as decimal text.                                               *)

I64 == -I64Max - 1 .. I64Max
Wrap(n) == ((n + I64Max + 1) % (2 * (I64Max + 1))) - (I64Max + 1)

Blanks == 9 .. 13 \cup {32}
Plus == 43
Minus == 45
Zero == 48
Digits == 48 .. 57

Decimal[n \in Nat] ==
  IF n < 10 THEN <<Zero + n>> ELSE Append(Decimal[n \div 10], Zero + (n % 10))

fmt(n) == IF n < 0 THEN <<Minus>> \o Decimal[-n] ELSE Decimal[n]
i64_digit_len(n) == Len(fmt(n))

(* White space around the number (str::trim, its ASCII part) and a plus    *)
(* sign are accepted.                                                      *)
Trim(s, body) == IF body = {} THEN <<>> ELSE SubSeq(s, Min(body), Max(body))
InI64(n) == IF n \in I64 THEN n ELSE Nil
Unsigned(digits, sign) ==
  IF digits # <<>> /\ Range(digits) \subseteq Digits
  THEN InI64(sign * FoldLeft(LAMBDA a, d : 10 * a + (d - Zero), 0, digits)) ELSE Nil
Signed(number) ==
  Unsigned(IF number # <<>> /\ number[1] \in {Minus, Plus} THEN Tail(number) ELSE number,
           IF number # <<>> /\ number[1] = Minus THEN -1 ELSE 1)
parse_i64(s) == Signed(Trim(s, {j \in DOMAIN s : s[j] \notin Blanks}))

-----------------------------------------------------------------------------
(* Records and callbacks.  A callback takes the input i (op, operand v,    *)
(* delta d, offset, expiration e, now) and the output o.                   *)

Input(op, v, d, e, t) == [op |-> op, v |-> v, d |-> d, e |-> e, now |-> t]

set_bytes(o, b) == [o EXCEPT !.bytes = b, !.has = TRUE]
set_int(o, n) == [o EXCEPT !.int = n]

(* A record just allocated with room for cap bytes, in the mutable region. *)
NewRecord(cap, slot, v, e) ==
  [val |-> v, cap |-> cap, slot |-> slot, exp |-> IF slot THEN e ELSE 0, mutable |-> TRUE]

expired(r, t) == r.slot /\ r.exp # 0 /\ r.exp <= t

(* v written over s from the given offset, zeroes filling a gap.           *)
Overlay(s, offset, v) ==
  [j \in 1 .. Max({offset + Len(v), Len(s)}) |->
     IF j > offset /\ j <= offset + Len(v) THEN v[j - offset]
     ELSE IF j <= Len(s) THEN s[j] ELSE 0]

(* GETRANGE: the bytes from start to end, both may count from the end.     *)
range_bounds(start, end, len) ==
  LET s == IF start < 0 THEN Max({len + start, 0}) ELSE Min({start, len})
      e == IF end < 0 THEN len + end ELSE Min({end, len - 1})
  IN  IF len = 0 \/ s > e \/ s >= len THEN <<0, 0>> ELSE <<s, Min({e + 1, len})>>

reader(i, r, o) ==
  CASE i.op = "GetRange" -> LET b == range_bounds(i.d, i.e, Len(r.val))
                            IN  set_bytes(o, SubSeq(r.val, b[1] + 1, b[2]))
    [] i.op = "Exists" -> o
    [] i.op = "Strlen" -> set_int(o, Len(r.val))
    [] i.op = "Ttl" -> set_int(o, IF r.exp = 0 THEN -1 ELSE Max({r.exp - i.now, 0}))
    [] i.op = "TtlSeconds" ->
         set_int(o, IF r.exp = 0 THEN -1 ELSE (Max({r.exp - i.now, 0}) + 999) \div 1000)
    [] OTHER -> set_bytes(o, r.val)

initial_writer(i) == NewRecord(Len(i.v), i.e # 0, i.v, i.e)

(* The record after a plain SET in place, Nil when it does not fit.        *)
in_place_writer(i, r) ==
  IF Len(i.v) > r.cap \/ (~r.slot /\ i.e # 0) THEN Nil
  ELSE [r EXCEPT !.val = i.v, !.exp = IF r.slot THEN i.e ELSE 0]

need_initial_update(i) == i.op \notin {"SetXx", "GetDel", "GetEx", "Expire", "Persist"}

initial_size(i) ==
  CASE i.op = "IncrBy" -> i64_digit_len(i.d)
    [] i.op = "SetRange" -> i.d + Len(i.v)
    [] OTHER -> Len(i.v)

initial_updater(i, o) ==
  LET v == CASE i.op = "IncrBy" -> fmt(i.d)
             [] i.op = "SetRange" -> Overlay(<<>>, i.d, i.v)
             [] OTHER -> i.v
  IN  [rec |-> NewRecord(initial_size(i), i.e # 0, v, i.e),
       out |-> CASE i.op = "IncrBy" -> set_int(o, i.d)
                 [] i.op \in {"SetRange", "Append"} -> set_int(o, Len(v))
                 [] i.op \in {"SetGet", "SetGetKeep"} -> [o EXCEPT !.has = FALSE]
                 [] OTHER -> o]

(* The record with the TTL the input asks for, Nil when it has no slot.    *)
apply_ttl_in_place(r, i) ==
  IF i.op \in {"SetKeepTtl", "SetGetKeep"} \/ (~r.slot /\ i.e = 0) THEN r
  ELSE IF r.slot THEN [r EXCEPT !.exp = i.e] ELSE Nil

(* The result of an in-place callback: what it decided, record, output.    *)
InPlace(what, r, o) == [what |-> what, rec |-> r, out |-> o]

(* The value in place if it fits, else NeedCopy.                           *)
Fit(r, v, o) ==
  IF Len(v) > r.cap THEN InPlace("NeedCopy", r, o)
  ELSE InPlace("Updated", [r EXCEPT !.val = v], o)

in_place_updater(i, r, o) ==
  LET stamped == apply_ttl_in_place(r, i)
      old == set_bytes(o, r.val)
      n == parse_i64(r.val)
      long == Overlay(r.val, i.d, i.v)
  IN  IF expired(r, i.now) THEN InPlace("Expired", r, o) ELSE
      CASE i.op = "SetNx" -> InPlace("Cancel", r, o)
        [] i.op \in {"SetXx", "SetKeepTtl", "SetGet", "SetGetKeep"} ->
             IF Len(i.v) > r.cap \/ stamped = Nil THEN InPlace("NeedCopy", r, o)
             ELSE Fit(stamped, i.v, IF i.op \in {"SetGet", "SetGetKeep"} THEN old ELSE o)
        [] i.op = "IncrBy" ->
             IF n = Nil \/ n + i.d \notin I64 THEN InPlace("Cancel", r, set_int(o, -I64Max - 1))
             ELSE Fit(r, fmt(n + i.d), set_int(o, n + i.d))
        [] i.op = "Append" -> Fit(r, r.val \o i.v, set_int(o, Len(r.val \o i.v)))
        [] i.op = "SetRange" -> Fit(r, long, set_int(o, Len(long)))
        [] i.op = "GetDel" -> InPlace("Delete", r, old)
        [] i.op = "GetEx" -> IF stamped = Nil THEN InPlace("NeedCopy", r, old)
                             ELSE InPlace("Updated", stamped, old)
        [] i.op = "Expire" -> IF ~r.slot THEN InPlace("NeedCopy", r, o)
                              ELSE InPlace("Updated", [r EXCEPT !.exp = i.e], set_int(o, 1))
        [] i.op = "Persist" -> IF r.exp = 0 THEN InPlace("Cancel", r, set_int(o, 0))
                               ELSE InPlace("Updated", [r EXCEPT !.exp = 0], set_int(o, 1))

(* Mutant of need_copy_update: no guard for INCR at the copy boundary.     *)
need_copy_update_unguarded(i, r) ==
  IF expired(r, i.now) THEN
    IF i.op \in {"SetKeepTtl", "SetNx", "IncrBy", "Append", "SetRange", "GetEx"}
    THEN "Copy" ELSE "Cancel"
  ELSE CASE i.op = "SetNx" -> "Cancel"
    [] i.op = "GetDel" -> "Delete"
    [] OTHER -> "Copy"

need_copy_update(i, r) ==
  LET n == parse_i64(r.val)
  IN  IF expired(r, i.now) THEN
        IF i.op \in {"SetKeepTtl", "SetNx", "IncrBy", "Append", "SetRange", "GetEx"}
        THEN "Copy" ELSE "Cancel"
      ELSE CASE i.op = "SetNx" -> "Cancel"
        [] i.op = "IncrBy" -> IF n # Nil /\ n + i.d \in I64 THEN "Copy" ELSE "Cancel"
        [] i.op = "GetDel" -> "Delete"
        [] OTHER -> "Copy"

(* The value a copy starts from: an expired one is empty.                  *)
OldValue(i, r) == IF expired(r, i.now) THEN <<>> ELSE r.val
OldInteger(i, r) ==
  IF expired(r, i.now) \/ parse_i64(r.val) = Nil THEN 0 ELSE parse_i64(r.val)

(* Mutant of copy_size: SETRANGE forgets that the old value may be longer. *)
copy_size_short(i, r) ==
  [cap |-> CASE i.op = "IncrBy" -> i64_digit_len(Wrap(OldInteger(i, r) + i.d))
             [] i.op = "Append" -> Len(OldValue(i, r)) + Len(i.v)
             [] i.op = "SetRange" -> i.d + Len(i.v)
             [] i.op \in {"GetEx", "Expire", "Persist"} -> Len(OldValue(i, r))
             [] OTHER -> Len(i.v),
   slot |-> i.op # "Persist" /\ (i.e # 0 \/ (r.slot /\ r.exp # 0))]

copy_size(i, r) ==
  LET old == OldValue(i, r)
  IN  [cap |-> CASE i.op = "IncrBy" -> i64_digit_len(Wrap(OldInteger(i, r) + i.d))
                 [] i.op = "Append" -> Len(old) + Len(i.v)
                 [] i.op = "SetRange" -> Max({i.d + Len(i.v), Len(old)})
                 [] i.op \in {"GetEx", "Expire", "Persist"} -> Len(old)
                 [] OTHER -> Len(i.v),
       slot |-> i.op # "Persist" /\ (i.e # 0 \/ (r.slot /\ r.exp # 0))]

copy_updater(i, r, o) ==
  LET old == OldValue(i, r)
      size == copy_size(i, r)
      n == Wrap(OldInteger(i, r) + i.d)
      carry == IF r.slot /\ ~expired(r, i.now) THEN r.exp ELSE 0
      v == CASE i.op = "IncrBy" -> fmt(n)
             [] i.op = "Append" -> old \o i.v
             [] i.op = "SetRange" -> Overlay(old, i.d, i.v)
             [] i.op \in {"GetEx", "Expire", "Persist"} -> old
             [] OTHER -> i.v
      e == IF i.op \in {"Expire", "GetEx"} \/ i.e # 0 THEN i.e ELSE carry
  IN  [rec |-> NewRecord(size.cap, size.slot, v, e),
       out |-> CASE i.op = "IncrBy" -> set_int(o, n)
                 [] i.op \in {"Append", "SetRange"} -> set_int(o, Len(v))
                 [] i.op \in {"SetGet", "SetGetKeep", "GetEx"} -> set_bytes(o, old)
                 [] i.op = "Persist" -> set_int(o, 1)
                 [] OTHER -> o]

-----------------------------------------------------------------------------
(* The operations of the store on the one key: status, record, output.     *)

Done(st, r, o) == [st |-> st, rec |-> r, out |-> o]
is_updated == {"Created", "InPlaceUpdated", "CopyUpdated", "Deleted"}

read(i, r, o) ==
  IF r = Nil \/ expired(r, i.now) THEN Done("NotFound", r, o) ELSE Done("Found", r, reader(i, r, o))

upsert(i, r, o) ==
  LET in_place == IF r = Nil \/ ~r.mutable THEN Nil ELSE in_place_writer(i, r)
  IN  IF in_place # Nil THEN Done("InPlaceUpdated", in_place, o)
      ELSE Done("Created", initial_writer(i), o)

Written(st, new) == Done(st, new.rec, new.out)

rmw_initial(i, o) ==
  IF need_initial_update(i) THEN Written("Created", initial_updater(i, o)) ELSE Done("NotFound", Nil, o)

(* What becomes of record r after the decision of need_copy_update.        *)
CopyBy(decision, i, r, o) ==
  CASE decision = "Copy" ->
         Written("CopyUpdated", copy_updater(i, r, IF i.op = "Expire" THEN set_int(o, 1) ELSE o))
    [] decision = "Cancel" -> Done("Canceled", r, o)
    [] decision = "Delete" -> Done("Deleted", Nil, set_bytes(o, r.val))
rmw_copy(i, r, o) == CopyBy(need_copy_update(i, r), i, r, o)

(* What becomes of record r after the in-place callback returned u; a      *)
(* read-only record is copied.                                             *)
rmw_update(u, i, r) ==
  CASE u.what = "Updated" -> Written("InPlaceUpdated", u)
    [] u.what = "Cancel" -> Done("Found", r, u.out)
    [] u.what = "Expired" -> rmw_initial(i, u.out)
    [] u.what = "Delete" -> Done("Deleted", Nil, u.out)
    [] u.what = "NeedCopy" -> rmw_copy(i, r, u.out)
rmw(i, r, o) ==
  IF r = Nil THEN rmw_initial(i, o)
  ELSE rmw_update(IF r.mutable THEN in_place_updater(i, r, o) ELSE InPlace("NeedCopy", r, o), i, r)

delete(r, o) == IF r = Nil THEN Done("NotFound", r, o) ELSE Done("Deleted", Nil, o)

-----------------------------------------------------------------------------
(* The command handlers.  Each yields the record, the output scratch, the  *)
(* reply and whether after_write logged the command.  A command is a       *)
(* record: name, operand v, integer d, options, expiry argument t with its *)
(* keyword (NoTime without one).                                           *)

Integer(n) == <<"integer", n>>
Bulk(v) == <<"bulk", v>>
NullBulk == <<"null">>
OK == <<"OK">>
Err == <<"ERR">>

Answer(x, reply, logged) == [rec |-> x.rec, out |-> x.out, reply |-> reply, logged |-> logged]
Reject(r, o) == Answer(Done("Error", r, o), Err, FALSE)
IntReply(x) == Integer(x.out.int)
BytesReply(x) == Bulk(x.out.bytes)
OldReply(x) == IF x.out.has THEN Bulk(x.out.bytes) ELSE NullBulk
One(x) == Integer(1)

(* The answer to operation x, which is logged when its status is one of    *)
(* sts, and otherwise the reply is no.                                     *)
Answering(x, sts, Yes(_), no) == Answer(x, IF x.st \in sts THEN Yes(x) ELSE no, x.st \in sts)

expire_at_ms(c, t) ==
  CASE c.keyword = "EX" -> t + 1000 * c.t
    [] c.keyword = "PX" -> t + c.t
    [] c.keyword = "EXAT" -> 1000 * c.t
    [] c.keyword = "PXAT" -> c.t
    [] c.keyword = "none" -> 0

(* StringOp of a SET with these options.                                   *)
SetOp(opts) ==
  IF "GET" \in opts THEN IF "KEEPTTL" \in opts THEN "SetGetKeep" ELSE "SetGet"
  ELSE IF "NX" \in opts THEN "SetNx"
  ELSE IF "XX" \in opts THEN "SetXx"
  ELSE IF "KEEPTTL" \in opts THEN "SetKeepTtl" ELSE "Set"

(* A read is not logged.                                                   *)
Reading(x, Yes(_), no) == [Answering(x, {"Found"}, Yes, no) EXCEPT !.logged = FALSE]

cmd_get(c, r, o, t) == Reading(read(Input("Get", <<>>, 0, 0, t), r, o), BytesReply, NullBulk)

cmd_read_int(c, r, o, t) == Reading(read(Input("Strlen", <<>>, 0, 0, t), r, o), IntReply, Integer(0))

cmd_getrange(c, r, o, t) ==
  Reading(read(Input("GetRange", <<>>, c.d, c.t, t), r, o), BytesReply, Bulk(<<>>))

cmd_exists(c, r, o, t) == Reading(read(Input("Exists", <<>>, 0, 0, t), r, o), One, Integer(0))

cmd_ttl(c, r, o, t) ==
  Reading(read(Input(IF c.name = "PTTL" THEN "Ttl" ELSE "TtlSeconds", <<>>, 0, 0, t), r, o),
          IntReply, Integer(-2))

cmd_type(c, r, o, t) ==
  Reading(read(Input("Exists", <<>>, 0, 0, t), r, o), LAMBDA x : <<"string">>, <<"none">>)

SetAnswer(x, get) ==
  Answer(x, IF get THEN OldReply(x) ELSE IF x.st \in is_updated THEN OK ELSE NullBulk, x.st \in is_updated)

cmd_set(c, r, o, t) ==
  LET i == Input(SetOp(c.opts), c.v, 0, expire_at_ms(c, t), t)
  IN  IF {"NX", "XX"} \subseteq c.opts THEN Reject(r, o)
      ELSE SetAnswer(IF i.op = "Set" THEN upsert(i, r, o) ELSE rmw(i, r, o), "GET" \in c.opts)

cmd_setnx(c, r, o, t) ==
  Answering(rmw(Input("SetNx", c.v, 0, 0, t), r, o), {"Created"}, One, Integer(0))

(* SETEX (with keyword EX) and PSETEX (PX).                                *)
cmd_setex(c, r, o, t) ==
  IF c.t <= 0 THEN Reject(r, o)
  ELSE Answer(upsert(Input("Set", c.v, 0, expire_at_ms(c, t), t), r, o), OK, TRUE)

cmd_getset(c, r, o, t) ==
  [SetAnswer(rmw(Input("SetGet", c.v, 0, 0, t), r, o), TRUE) EXCEPT !.logged = TRUE]

cmd_getdel(c, r, o, t) ==
  Answering(rmw(Input("GetDel", <<>>, 0, 0, t), r, [o EXCEPT !.bytes = <<>>]),
            {"Deleted"}, BytesReply, NullBulk)

(* Mutant of cmd_getex: it answers a value, so it is taken for a read.     *)
cmd_getex_unlogged(c, r, o, t) ==
  [Answering(rmw(Input("GetEx", <<>>, 0, expire_at_ms(c, t), t), r, [o EXCEPT !.bytes = <<>>]),
             is_updated, BytesReply, NullBulk) EXCEPT !.logged = FALSE]

cmd_getex(c, r, o, t) ==
  Answering(rmw(Input("GetEx", <<>>, 0, expire_at_ms(c, t), t), r, [o EXCEPT !.bytes = <<>>]),
            is_updated, BytesReply, NullBulk)

cmd_incr(c, r, o, t) ==
  Answering(rmw(Input("IncrBy", <<>>, c.d, 0, t), r, o), is_updated, IntReply, Err)

(* APPEND and, once its offset is known not to be negative, SETRANGE.      *)
cmd_rmw_int(c, r, o, t) ==
  IF c.d < 0 THEN Reject(r, o)
  ELSE Answering(rmw(Input(IF c.name = "APPEND" THEN "Append" ELSE "SetRange", c.v, c.d, 0, t), r, o),
                 is_updated, IntReply, Integer(0))

cmd_del(c, r, o, t) == Answering(delete(r, o), {"Deleted"}, One, Integer(0))

(* EXPIRE, PEXPIRE, EXPIREAT and PEXPIREAT, by their keyword.              *)
cmd_expire(c, r, o, t) ==
  Answering(rmw(Input("Expire", <<>>, 0, expire_at_ms(c, t), t), r, o), is_updated, One, Integer(0))

PersistAnswer(x) ==
  LET removed == x.st \in is_updated /\ x.out.int = 1
  IN  Answer(x, IF removed THEN Integer(1) ELSE Integer(0), removed)
cmd_persist(c, r, o, t) ==
  PersistAnswer(rmw(Input("Persist", <<>>, 0, 0, t), r, o))

exec_command(c, r, o, t) ==
  CASE c.name = "GET" -> cmd_get(c, r, o, t)
    [] c.name = "STRLEN" -> cmd_read_int(c, r, o, t)
    [] c.name = "GETRANGE" -> cmd_getrange(c, r, o, t)
    [] c.name = "EXISTS" -> cmd_exists(c, r, o, t)
    [] c.name \in {"TTL", "PTTL"} -> cmd_ttl(c, r, o, t)
    [] c.name = "TYPE" -> cmd_type(c, r, o, t)
    [] c.name = "SET" -> cmd_set(c, r, o, t)
    [] c.name = "SETNX" -> cmd_setnx(c, r, o, t)
    [] c.name = "PSETEX" -> cmd_setex(c, r, o, t)
    [] c.name = "GETSET" -> cmd_getset(c, r, o, t)
    [] c.name = "GETDEL" -> cmd_getdel(c, r, o, t)
    [] c.name = "GETEX" -> cmd_getex(c, r, o, t)
    [] c.name \in {"APPEND", "SETRANGE"} -> cmd_rmw_int(c, r, o, t)
    [] c.name = "INCRBY" -> cmd_incr(c, r, o, t)
    [] c.name = "DEL" -> cmd_del(c, r, o, t)
    [] c.name = "PEXPIRE" -> cmd_expire(c, r, o, t)
    [] c.name = "PERSIST" -> cmd_persist(c, r, o, t)

-----------------------------------------------------------------------------
(* The specification: one session, the clock, the drift of the records     *)
(* into the read-only region, SAVE.                                        *)

NoTime == [keyword |-> "none", t |-> 0]
Expiries == {NoTime} \cup [keyword : {"EX", "PX", "EXAT", "PXAT"}, t : Times]

Command(name, v, d, opts, x) ==
  [name |-> name, v |-> v, d |-> d, opts |-> opts, keyword |-> x.keyword, t |-> x.t]

SetCommands ==
  {Command("SET", v, 0, opts, x) :
     v \in Operands, opts \in SetOptions, x \in Expiries}
ReadCommands ==
  {Command(name, <<>>, 0, {}, NoTime) : name \in {"GET", "STRLEN", "TTL", "PTTL", "EXISTS", "TYPE"}}
    \cup {Command("GETRANGE", <<>>, s, {}, [keyword |-> "none", t |-> e]) : s \in {-2, 0, 1}, e \in {-4, -1, 0, 1}}
UpdateCommands ==
  {Command(name, v, 0, {}, NoTime) : name \in {"SETNX", "GETSET", "APPEND"}, v \in Operands}
    \cup {Command("SETRANGE", v, d, {}, NoTime) : v \in Operands, d \in {-1, 0, 2}}
    \cup {Command("INCRBY", <<>>, d, {}, NoTime) : d \in Deltas}
    \cup {Command("PSETEX", v, 0, {}, x) : v \in Operands, x \in [keyword : {"EX", "PX"}, t : Times]}
ExpiryCommands ==
  {Command(name, <<>>, 0, {}, NoTime) : name \in {"PERSIST", "GETDEL", "DEL"}}
    \cup {Command("PEXPIRE", <<>>, 0, {}, x) : x \in Expiries \ {NoTime}}
    \cup {Command("GETEX", <<>>, 0, {}, x) : x \in Expiries}
StringCommands == SetCommands \cup ReadCommands \cup UpdateCommands \cup ExpiryCommands

(* What a key holds for a client: nothing, or a value and its expiry.      *)
Logical(r, t) == IF r = Nil \/ expired(r, t) THEN Nil ELSE [val |-> r.val, exp |-> r.exp]

(* out_scratch of a new session, and as earlier commands of the session    *)
(* may have left it: it is not reset between commands.                     *)
EmptyOut == [bytes |-> <<>>, has |-> FALSE, int |-> 0]
Scratches ==
  {EmptyOut} \cup [bytes : {<<97>>}, has : BOOLEAN, int : {1}]

Copies(c, r) == ~r.mutable \/ Len(c.v) > r.cap

(* The commands whose effect depends on where the record lies in the log.  *)
(* An expired record that cannot be updated in place: SET GET and GETSET   *)
(* are cancelled and answer what the scratch output held, GETEX brings the *)
(* key back with an empty value, SETNX stores the value, answers 0 and is  *)
(* not logged.                                                             *)
ExpiredReadOnly(c, r, t) ==
  /\ expired(r, t) /\ ~r.mutable
  /\ c.name \in {"GETSET", "GETEX", "SETNX"} \/ (c.name = "SET" /\ "GET" \in c.opts)
(* SET XX, SET GET and GETSET without an expiry: the TTL is cleared in     *)
(* place and kept by a copy.                                               *)
TtlDependsOnCopy(c, r, t) ==
  /\ r.exp # 0 /\ expire_at_ms(c, t) = 0
  /\ \/ c.name = "GETSET" /\ Copies(c, r)
     \/ /\ c.name = "SET" /\ SetOp(c.opts) \in {"SetXx", "SetGet"}
        /\ Copies(c, r) = ("KEEPTTL" \notin c.opts)
(* SET KEEPTTL with an expiry: ignored in place, applied by a copy.        *)
KeepTtlWithExpiry(c, r, t) ==
  c.name = "SET" /\ SetOp(c.opts) \in {"SetKeepTtl", "SetGetKeep"} /\ expire_at_ms(c, t) # 0
RegionDependent(c, r, t) ==
  r # Nil /\ (ExpiredReadOnly(c, r, t) \/ TtlDependsOnCopy(c, r, t) \/ KeepTtlWithExpiry(c, r, t))

(* Execute one command; what it logs the replica executes.  Records never  *)
(* depend on out_scratch; what the replies owe to it is a matter of        *)
(* RegionIndependent.                                                      *)
dispatch(c) ==
  \E x \in {exec_command(c, rec, EmptyOut, now)} :
    /\ x.rec # Nil => Len(x.rec.val) <= MaxLen
    /\ rec' = x.rec
    /\ diverged' = (diverged \/ RegionDependent(c, rec, now)
                      \/ (x.logged /\ RegionDependent(c, replica, now)))
    /\ replica' = IF diverged' THEN Nil
                  ELSE IF x.logged THEN exec_command(c, replica, EmptyOut, now).rec ELSE replica
    /\ UNCHANGED now

Tick ==
  /\ now < MaxTime
  /\ now' = now + 1
  /\ UNCHANGED <<rec, replica, diverged>>

Drift ==
  /\ rec # Nil /\ rec.mutable
  /\ rec' = [rec EXCEPT !.mutable = FALSE]
  /\ UNCHANGED <<now, replica, diverged>>

DriftReplica ==
  /\ replica # Nil /\ replica.mutable
  /\ replica' = [replica EXCEPT !.mutable = FALSE]
  /\ UNCHANGED <<rec, now, diverged>>

(* SAVE: the replica starts from the checkpoint, whose records recovery    *)
(* puts into the read-only region, and the log restarts empty.             *)
Save ==
  /\ replica' = IF rec = Nil THEN Nil ELSE [rec EXCEPT !.mutable = FALSE]
  /\ diverged' = FALSE
  /\ UNCHANGED <<rec, now>>

StringInit ==
  /\ rec = Nil /\ replica = Nil
  /\ now = 1
  /\ diverged = FALSE

StringNext ==
  \/ \E c \in StringCommands : dispatch(c)
  \/ Tick \/ Drift \/ DriftReplica \/ Save

StringSpec == StringInit /\ [][StringNext]_string_vars

-----------------------------------------------------------------------------
(* Reference semantics: what each command means on a value and an expiry,  *)
(* without records, regions, capacities or scratch output.                 *)

Value(v, e) == [val |-> v, exp |-> e]
Result(l, reply) == [state |-> l, reply |-> reply]

(* SET with options, for a key that holds l.                               *)
RefSet(c, l, t) ==
  LET e == expire_at_ms(c, t)
      kept == IF "KEEPTTL" \in c.opts /\ l # Nil /\ e = 0 THEN l.exp ELSE e
      refused == IF l = Nil THEN "XX" \in c.opts ELSE "NX" \in c.opts
      old == IF l = Nil THEN NullBulk ELSE Bulk(l.val)
  IN  CASE {"NX", "XX"} \subseteq c.opts -> Result(l, Err)
        [] refused /\ ~({"NX", "XX"} \subseteq c.opts) -> Result(l, IF "GET" \in c.opts THEN old ELSE NullBulk)
        [] OTHER -> Result(Value(c.v, kept), IF "GET" \in c.opts THEN old ELSE OK)

Substring(v, s, e) ==
  LET lo == IF s < 0 THEN Len(v) + s ELSE s
      hi == IF e < 0 THEN Len(v) + e ELSE e
      n == Cardinality({j \in 1 .. Len(v) : j - 1 < lo})
      m == Cardinality({j \in 1 .. Len(v) : lo <= j - 1 /\ j - 1 <= hi})
  IN  [j \in 1 .. m |-> v[n + j]]

Ref(c, l, t) ==
  LET old == IF l = Nil THEN <<>> ELSE l.val
      e == expire_at_ms(c, t)
      ttl == IF l = Nil THEN 0 ELSE l.exp
      n == IF l = Nil THEN 0 ELSE parse_i64(old)
      value == IF l = Nil THEN NullBulk ELSE Bulk(old)
      long == IF c.name = "APPEND" THEN old \o c.v ELSE Overlay(old, c.d, c.v)
  IN  CASE c.name = "GET" -> Result(l, value)
        [] c.name = "GETRANGE" -> Result(l, Bulk(Substring(old, c.d, c.t)))
        [] c.name = "STRLEN" -> Result(l, Integer(Len(old)))
        [] c.name = "EXISTS" -> Result(l, Integer(IF l = Nil THEN 0 ELSE 1))
        [] c.name = "TYPE" -> Result(l, IF l = Nil THEN <<"none">> ELSE <<"string">>)
        [] c.name = "PTTL" -> Result(l, Integer(IF l = Nil THEN -2 ELSE IF ttl = 0 THEN -1 ELSE ttl - t))
        [] c.name = "TTL" ->
             Result(l, Integer(IF l = Nil THEN -2 ELSE IF ttl = 0 THEN -1 ELSE (ttl - t + 999) \div 1000))
        [] c.name = "SET" -> RefSet(c, l, t)
        [] c.name = "SETNX" -> IF l = Nil THEN Result(Value(c.v, 0), Integer(1)) ELSE Result(l, Integer(0))
        [] c.name = "PSETEX" -> IF c.t <= 0 THEN Result(l, Err) ELSE Result(Value(c.v, e), OK)
        [] c.name = "GETSET" -> Result(Value(c.v, 0), value)
        [] c.name = "GETDEL" -> Result(Nil, value)
        [] c.name = "GETEX" -> IF l = Nil THEN Result(l, NullBulk) ELSE Result(Value(old, e), value)
        [] c.name \in {"APPEND", "SETRANGE"} ->
             IF c.d < 0 THEN Result(l, Err) ELSE Result(Value(long, ttl), Integer(Len(long)))
        [] c.name = "INCRBY" -> IF n = Nil \/ n + c.d \notin I64 THEN Result(l, Err)
                                ELSE Result(Value(fmt(n + c.d), ttl), Integer(n + c.d))
        [] c.name = "DEL" -> Result(Nil, Integer(IF l = Nil THEN 0 ELSE 1))
        [] c.name = "PEXPIRE" -> IF l = Nil THEN Result(l, Integer(0)) ELSE Result(Value(old, e), Integer(1))
        [] c.name = "PERSIST" -> IF ttl = 0 THEN Result(l, Integer(0)) ELSE Result(Value(old, 0), Integer(1))

(* The other ways the handlers depart from the reference, wherever the     *)
(* record lies: DEL counts an expired key, PERSIST counts a key without    *)
(* TTL that is not updated in place, SET GET overrules NX and XX.          *)
KnownDivergence(c, r, t) ==
  \/ RegionDependent(c, r, t)
  \/ c.name = "DEL" /\ r # Nil /\ expired(r, t)
  \/ c.name = "PERSIST" /\ r # Nil /\ ~r.mutable /\ r.exp = 0
  \/ c.name = "SET" /\ "GET" \in c.opts /\ c.opts \cap {"NX", "XX"} # {}

-----------------------------------------------------------------------------
(* What a command did and answered, x, is what the reference says; an      *)
(* expiry that is already due leaves nothing.                              *)
Agrees(x, ref, t) ==
  /\ x.reply = ref.reply
  /\ Logical(x.rec, t) = IF ref.state # Nil /\ ref.state.exp # 0 /\ ref.state.exp <= t
                         THEN Nil ELSE ref.state

(* Whatever the region, the capacity and the expiry slot of the record,    *)
(* whether its expired value is still in the log, and whatever earlier     *)
(* commands left in out_scratch, every command answers and leaves for the  *)
(* clients what the reference says: the in-place, copy and initial         *)
(* callbacks of functions.rs agree, outside KnownDivergence.               *)
RegionIndependent ==
  \A c \in StringCommands, o \in Scratches :
    KnownDivergence(c, rec, now) \/
      Agrees(exec_command(c, rec, o, now), Ref(c, Logical(rec, now), now), now)

(* The size callbacks allot what the writers fill (upsert_size,            *)
(* initial_size and copy_size against write_val): a value never exceeds    *)
(* the capacity of its record, and an expiry has its slot.                 *)
ValueFits ==
  \A r \in {rec, replica} \ {Nil} : Len(r.val) <= r.cap /\ (r.exp # 0 => r.slot)

(* Replay is deterministic: executing what after_write logged, at the      *)
(* logged times, on a store whose records lie in other regions, gives the  *)
(* same value and the same expiry at every later time ("AOF replay expires *)
(* exactly the same records"), unless a command was RegionDependent.       *)
ReplayAgrees ==
  diverged \/ \A t \in now .. MaxTime : Logical(rec, t) = Logical(replica, t)
=============================================================================
