----------------------------- MODULE AtomicStore -----------------------------
(***************************************************************************)
(* What the store promises its sessions: every operation takes effect at   *)
(* one instant between its call and its return, on a map from keys to      *)
(* values, and answers by what it met there.                               *)
(***************************************************************************)
EXTENDS Naturals

CONSTANTS
  Threads,
  Keys,
  Written,    (* the value upserts write                                   *)
  None        (* no call, no answer                                        *)

Absent == 0

Kinds == {"read", "upsert", "incr", "take", "setnx", "delete"}
Calls == [kind : Kinds, key : Keys]

VARIABLES
  kv,      (* kv[k]: the value of key k, or Absent                         *)
  call,    (* call[t]: the operation t has called, or None                 *)
  answer   (* answer[t]: its answer once it has taken effect, else None    *)

avars == <<kv, call, answer>>

AInit ==
  /\ kv = [k \in Keys |-> Absent]
  /\ call = [t \in Threads |-> None]
  /\ answer = [t \in Threads |-> None]

\* The value an operation leaves behind, given the one it meets.
Effect(kind, v) ==
  CASE kind = "read" -> v
    [] kind = "upsert" -> Written
    [] kind = "incr" -> v + 1
    [] kind = "setnx" -> IF v = Absent THEN Written ELSE v
    [] OTHER -> Absent

\* What it tells its caller: a value, or whether it did something.
Answer(kind, v) ==
  CASE kind \in {"read", "take"} -> v
    [] kind \in {"upsert", "incr"} -> Effect(kind, v)
    [] kind = "setnx" -> IF v = Absent THEN 1 ELSE 0
    [] kind = "delete" -> IF v = Absent THEN 0 ELSE 1

Invoke(t) ==
  /\ call[t] = None
  /\ \E c \in Calls : call' = [call EXCEPT ![t] = c]
  /\ UNCHANGED <<kv, answer>>

Apply(t) ==
  /\ call[t] # None /\ answer[t] = None
  /\ LET c == call[t] IN
     /\ kv' = [kv EXCEPT ![c.key] = Effect(c.kind, @)]
     /\ answer' = [answer EXCEPT ![t] = Answer(c.kind, kv[c.key])]
  /\ UNCHANGED call

Return(t) ==
  /\ answer[t] # None
  /\ call' = [call EXCEPT ![t] = None]
  /\ answer' = [answer EXCEPT ![t] = None]
  /\ UNCHANGED kv

ANext == \E t \in Threads : Invoke(t) \/ Apply(t) \/ Return(t)

ASpec == AInit /\ [][ANext]_avars
=============================================================================
