-------------------------- MODULE Durability_proofs --------------------------
(***************************************************************************)
(* Theorems about Durability, for any number of sessions, writes, SAVEs    *)
(* and crashes and every commit mode: what was answered survives, unless   *)
(* it is exposed, and replay of a log that no SAVE has truncated gives     *)
(* each write once, in the order of effect but for overlapping calls.      *)
(* Theorems about StringFunctions, the commands that the log holds: their  *)
(* effect does not depend on where in the store the record lies, they stay *)
(* within the size of the record, and replay gives the same keys.          *)
(***************************************************************************)
EXTENDS Durability, StringFunctions, FiniteSetTheorems, SequenceTheorems, WellFoundedInduction, TLAPS

Labels == {"idle", "executed", "commit", "logged", "waiting"}

(* Type correctness of the state of Durability.                            *)
TypeOK ==
  /\ mode \in {"always", "interval", "never"} /\ aof_commit_wait \in BOOLEAN
  /\ kv \in Seq(Nat) /\ file \in Seq(Nat) /\ buf \in Seq(Nat)
  /\ committed \in Nat /\ committed <= Len(file)
  /\ meta \in Seq(Nat) /\ snapshot \in Seq(Nat)
  /\ pc \in [Sessions -> Labels]
  /\ cmd \in [Sessions -> Nat] /\ end \in [Sessions -> Nat]
  /\ saver \in {"idle", "captured", "written"}
  /\ calls \in Nat /\ saves \in Nat /\ crashes \in Nat

(* The log, whether written or not.                                        *)
Log == file \o buf

(* No torn entry among the first n of s: what replay reads.                *)
Legible(s, n) == \A i \in 1 .. n : s[i] # Torn

(* x is an entry that replay of the first n entries of s reads.            *)
Live(s, n, x) == \E i \in 1 .. Len(s) : i <= n /\ s[i] = x /\ Legible(s, i)

(* A session that is not idle has executed a write, and only a crash       *)
(* leaves a torn entry.                                                    *)
Whole ==
  /\ \A c \in Sessions : pc[c] # "idle" => cmd[c] \in Range(kv) /\ cmd[c] # Torn
  /\ Torn \notin Range(buf)

(* The store has the checkpoint, and SAVE all of the store that is not     *)
(* exposed.                                                                *)
Captured ==
  /\ Range(meta) \subseteq Range(kv)
  /\ saver # "idle" => /\ Range(meta) \subseteq Range(snapshot)
                       /\ Range(snapshot) \subseteq Range(kv)
                       /\ Range(kv) \subseteq Range(snapshot) \cup exposed
  /\ saver = "written" => meta = snapshot

(* Where a crash finds x, if all of the first n entries are committed.     *)
Kept(x, n) == x \in exposed \/ x \in Range(meta) \/ Live(Log, n, x)

Durable == mode = "always" \/ aof_commit_wait

(* A logged write will be found once its address is committed, and one     *)
(* that was answered is found.                                             *)
Persisted ==
  Durable =>
    /\ \A c \in Sessions : pc[c] \in {"commit", "logged", "waiting"} => Kept(cmd[c], end[c])
    /\ \A c \in Sessions :
         mode = "always" /\ pc[c] \in {"logged", "waiting"} => Kept(cmd[c], committed)
    /\ \A x \in acked : x \in exposed \/ (x \in Range(kv) /\ Kept(x, committed))

SaveInv == TypeOK /\ Whole /\ Captured /\ Persisted

Pending(c) == pc[c] = "executed"

(* Before any SAVE: writes have different numbers, in the store, in the    *)
(* log and on their way to it.                                             *)
Numbered ==
  saves = 0 =>
    /\ saver = "idle" /\ meta = <<>>
    /\ \A i \in 1 .. Len(kv) : kv[i] # Torn /\ kv[i] <= calls
    /\ \A i \in 1 .. Len(Log) : Log[i] <= calls
    /\ \A i, j \in 1 .. Len(kv) : kv[i] = kv[j] => i = j
    /\ \A i, j \in 1 .. Len(Log) : Log[i] = Log[j] /\ Log[i] # Torn => i = j
    /\ \A c \in Sessions : Pending(c) => cmd[c] \notin Range(Log) /\ cmd[c] <= calls
    /\ \A c, d \in Sessions : Pending(c) /\ Pending(d) /\ cmd[c] = cmd[d] => c = d

(* And the log, as far as replay reads it, has the order of the store but  *)
(* for writes that overlapped.                                             *)
Ordered ==
  saves = 0 =>
    /\ \A i \in 1 .. Len(Log) : Legible(Log, i) => Log[i] \in Range(kv)
    /\ \A i, j \in 1 .. Len(Log) :
         i < j /\ Legible(Log, j) /\ Before(kv, Log[j], Log[i]) => {Log[i], Log[j]} \in overlap
    /\ \A c \in Sessions : \A i \in 1 .. Len(Log) :
         Pending(c) /\ Legible(Log, i) /\ Before(kv, cmd[c], Log[i]) => {Log[i], cmd[c]} \in overlap
    /\ \A c, d \in Sessions : Pending(c) /\ Pending(d) /\ c # d => {cmd[c], cmd[d]} \in overlap
    /\ Torn \notin Range(file) =>
         \A x \in Range(kv) : x \in Range(Log) \/ \E c \in Sessions : Pending(c) /\ cmd[c] = x

OrderInv == TypeOK /\ Whole /\ Numbered /\ Ordered

-----------------------------------------------------------------------------
(* Numbers.                                                                *)

(* A set of naturals that is not empty has a least element.                *)
LEMMA LeastElement ==
  ASSUME NEW T \in SUBSET Nat, T # {}
  PROVE  \E x \in T : \A y \in T : x <= y
<1> DEFINE R == OpToRel(<, Nat)
<1>1. IsWellFoundedOn(R, Nat)
  BY NatLessThanWellFounded, Zenon
<1>2. PICK x \in T : \A y \in T : ~(<<y, x>> \in R)
  <2> HIDE DEF R
  <2> QED BY <1>1, WFMin
<1>3. ASSUME NEW y \in T PROVE x <= y
  <2>1. x \in Nat /\ y \in Nat
    OBVIOUS
  <2>2. y < x => <<y, x>> \in R
    BY <2>1 DEF OpToRel
  <2>3. ~(y < x)
    BY <1>2, <2>2
  <2> QED BY <2>1, <2>3
<1> QED BY <1>2, <1>3

(* Induction over the naturals, for a set in place of a predicate.         *)
LEMMA NatSetInduction ==
  ASSUME NEW S \in SUBSET Nat, 0 \in S, \A n \in S : n + 1 \in S
  PROVE  S = Nat
<1> SUFFICES ASSUME Nat \ S # {} PROVE FALSE
  OBVIOUS
<1>1. PICK x \in Nat \ S : \A y \in Nat \ S : x <= y
  BY LeastElement
<1>2. x \in Nat /\ x # 0 /\ x - 1 \in Nat /\ ~(x <= x - 1)
  BY <1>1
<1>3. x - 1 \in S
  BY <1>1, <1>2
<1>4. (x - 1) + 1 = x
  BY <1>2
<1> QED BY <1>1, <1>3, <1>4

-----------------------------------------------------------------------------
(* Sequences of writes.                                                    *)

LEMMA InRange ==
  ASSUME NEW s \in Seq(Nat)
  PROVE  \A x : x \in Range(s) <=> \E i \in 1 .. Len(s) : s[i] = x
<1>1. DOMAIN s = 1 .. Len(s)
  OBVIOUS
<1> QED BY <1>1 DEF Range

LEMMA RangeAppend ==
  ASSUME NEW s \in Seq(Nat), NEW x \in Nat
  PROVE  /\ Append(s, x) \in Seq(Nat) /\ Len(Append(s, x)) = Len(s) + 1 /\ Len(s) \in Nat
         /\ Append(s, x)[Len(s) + 1] = x /\ \A i \in 1 .. Len(s) : Append(s, x)[i] = s[i]
         /\ Range(Append(s, x)) = Range(s) \cup {x}
<1>1. PICK t : t = Append(s, x)
  OBVIOUS
<1>2. /\ t \in Seq(Nat) /\ Len(t) = Len(s) + 1 /\ Len(s) \in Nat
      /\ t[Len(s) + 1] = x /\ \A i \in 1 .. Len(s) : t[i] = s[i]
  BY <1>1
<1>3. ASSUME NEW y PROVE y \in Range(t) <=> y \in Range(s) \/ y = x
  <2>1. y \in Range(t) <=> \E i \in 1 .. Len(s) + 1 : t[i] = y
    BY <1>2, InRange
  <2>2. y \in Range(s) <=> \E i \in 1 .. Len(s) : s[i] = y
    BY InRange
  <2> QED BY <1>2, <2>1, <2>2
<1>4. Range(t) = Range(s) \cup {x}
  BY <1>3
<1> QED BY <1>1, <1>2, <1>4

LEMMA RangeConcat ==
  ASSUME NEW s \in Seq(Nat), NEW t \in Seq(Nat)
  PROVE  Range(s \o t) = Range(s) \cup Range(t) /\ s \o t \in Seq(Nat)
<1>1. PICK u : u = s \o t
  OBVIOUS
<1>2. /\ u \in Seq(Nat) /\ Len(u) = Len(s) + Len(t) /\ Len(s) \in Nat /\ Len(t) \in Nat
      /\ \A i \in 1 .. Len(u) : u[i] = IF i <= Len(s) THEN s[i] ELSE t[i - Len(s)]
  BY <1>1
<1>3. ASSUME NEW y PROVE y \in Range(u) <=> y \in Range(s) \/ y \in Range(t)
  <2>1. y \in Range(u) <=> \E i \in 1 .. Len(u) : u[i] = y
    BY <1>2, InRange
  <2>2. y \in Range(s) <=> \E i \in 1 .. Len(s) : s[i] = y
    BY InRange
  <2>3. y \in Range(t) <=> \E i \in 1 .. Len(t) : t[i] = y
    BY InRange
  <2>4. ASSUME NEW i \in 1 .. Len(s) PROVE i \in 1 .. Len(u) /\ u[i] = s[i]
    BY <1>2
  <2>5. ASSUME NEW i \in 1 .. Len(t)
        PROVE  i + Len(s) \in 1 .. Len(u) /\ u[i + Len(s)] = t[i]
    <3>1. i + Len(s) \in 1 .. Len(u) /\ ~(i + Len(s) <= Len(s)) /\ (i + Len(s)) - Len(s) = i
      BY <1>2
    <3> QED BY <1>2, <3>1
  <2>6. ASSUME NEW i \in 1 .. Len(u)
        PROVE  (i \in 1 .. Len(s) /\ u[i] = s[i]) \/ (i - Len(s) \in 1 .. Len(t) /\ u[i] = t[i - Len(s)])
    BY <1>2
  <2> QED BY <2>1, <2>2, <2>3, <2>4, <2>5, <2>6
<1>4. Range(u) = Range(s) \cup Range(t)
  BY <1>3
<1> QED BY <1>1, <1>2, <1>4

LEMMA EmptyRange == Range(<<>>) = {} /\ <<>> \in Seq(Nat) /\ Len(<<>>) = 0
<1>1. <<>> \in Seq(Nat) /\ Len(<<>>) = 0
  OBVIOUS
<1>2. PICK e : e = <<>>
  OBVIOUS
<1>3. e \in Seq(Nat) /\ Len(e) = 0
  BY <1>1, <1>2
<1>4. \A x : x \in Range(e) <=> \E i \in 1 .. Len(e) : e[i] = x
  BY <1>3, InRange
<1>5. Range(e) = {}
  BY <1>3, <1>4
<1> QED BY <1>1, <1>2, <1>5

(* Another entry leaves those that are read.                               *)
LEMMA LiveAppend ==
  ASSUME NEW s \in Seq(Nat), NEW x \in Nat, NEW y, NEW n \in Nat, Live(s, n, y)
  PROVE  Live(Append(s, x), n, y)
<1>1. PICK i \in 1 .. Len(s) : i <= n /\ s[i] = y /\ Legible(s, i)
  BY DEF Live
<1>2. PICK t : t = Append(s, x)
  OBVIOUS
<1>3. Len(t) = Len(s) + 1 /\ Len(s) \in Nat /\ \A j \in 1 .. Len(s) : t[j] = s[j]
  BY <1>2, RangeAppend
<1>4. i \in 1 .. Len(t) /\ t[i] = y
  BY <1>1, <1>3
<1>5. Legible(t, i)
  <2>1. \A j \in 1 .. i : j \in 1 .. Len(s)
    BY <1>3
  <2> QED BY <1>1, <1>3, <2>1 DEF Legible
<1> QED BY <1>1, <1>2, <1>4, <1>5 DEF Live

LEMMA LiveMore ==
  ASSUME NEW s \in Seq(Nat), NEW m \in Nat, NEW n \in Nat, NEW x, Live(s, m, x), m <= n \/ Len(s) <= n
  PROVE  Live(s, n, x)
<1>1. PICK i \in 1 .. Len(s) : i <= m /\ s[i] = x /\ Legible(s, i)
  BY DEF Live
<1>2. i \in Nat /\ Len(s) \in Nat /\ i <= Len(s)
  OBVIOUS
<1>3. i <= n
  BY <1>1, <1>2
<1> QED BY <1>1, <1>3 DEF Live

(* Replay reads the entries before the first torn one.                     *)
LEMMA LastReadable ==
  ASSUME NEW f \in Seq(Nat)
  PROVE  \E n \in Readable(f) : \A m \in Readable(f) : m <= n
<1> DEFINE T == Nat \ Readable(f)
<1>1. Len(f) \in Nat
  OBVIOUS
<1>2. 0 \in Readable(f) /\ Len(f) + 1 \in T
  BY <1>1 DEF Readable
<1>3. PICK x \in T : \A y \in T : x <= y
  <2>1. T \in SUBSET Nat /\ T # {}
    BY <1>2
  <2> HIDE DEF T
  <2> QED BY <2>1, LeastElement
<1>4. x \in Nat /\ x # 0 /\ x - 1 \in Nat
  BY <1>2
<1>5. x - 1 \in Readable(f)
  BY <1>3, <1>4
<1>6. ASSUME NEW m \in Readable(f) PROVE m <= x - 1
  <2>1. m \in Nat /\ m \in 0 .. Len(f) /\ \A i \in 1 .. m : f[i] # Torn
    BY <1>1 DEF Readable
  <2>2. x <= m => x \in Readable(f)
    BY <1>1, <1>4, <2>1 DEF Readable
  <2>3. ~(x <= m)
    BY <2>2
  <2> QED BY <1>4, <2>1, <2>3
<1> QED BY <1>5, <1>6

(* The prefix of a sequence.                                               *)
LEMMA PrefixIs ==
  ASSUME NEW s \in Seq(Nat), NEW n \in Nat, n <= Len(s)
  PROVE  /\ SubSeq(s, 1, n) \in Seq(Nat) /\ Len(SubSeq(s, 1, n)) = n
         /\ \A i \in 1 .. n : SubSeq(s, 1, n)[i] = s[i]
<1>1. n \in Int /\ 1 \in Int /\ Len(s) \in Nat /\ \A i \in 1 .. n : s[i] \in Nat
  OBVIOUS
<1>2. PICK t : t = SubSeq(s, 1, n)
  OBVIOUS
<1>3. /\ t \in Seq(Nat) /\ Len(t) = IF 1 <= n THEN n - 1 + 1 ELSE 0
      /\ \A i \in 1 .. n - 1 + 1 : t[i] = s[1 + i - 1]
  BY <1>1, <1>2, SubSeqProperties
<1>4. Len(t) = n
  BY <1>3
<1>5. \A i \in 1 .. n : i \in 1 .. n - 1 + 1 /\ 1 + i - 1 = i
  OBVIOUS
<1> QED BY <1>2, <1>3, <1>4, <1>5

(* What replay adds to the store v: the first n entries of f, in order.    *)
Replayed(f, v, n, t) ==
  /\ n \in Nat /\ n <= Len(f) /\ Legible(f, n)
  /\ \A m \in Nat : m <= Len(f) /\ Legible(f, m) => m <= n
  /\ t \in Seq(Nat) /\ Len(t) = n /\ \A i \in 1 .. n : t[i] = f[i]
  /\ replay(f, v) = v \o t

LEMMA ReplayIs ==
  ASSUME NEW f \in Seq(Nat), NEW v \in Seq(Nat)
  PROVE  \E n, t : Replayed(f, v, n, t)
<1> DEFINE n == CHOOSE n \in Readable(f) : \A m \in Readable(f) : m <= n
           t == SubSeq(f, 1, n)
<1>1. n \in Readable(f) /\ \A m \in Readable(f) : m <= n
  BY LastReadable
<1>2. replay(f, v) = v \o t
  BY DEF replay
<1> HIDE DEF n
<1>3. n \in Nat /\ n <= Len(f) /\ Legible(f, n)
  BY <1>1 DEF Readable, Legible
<1>4. ASSUME NEW m \in Nat, m <= Len(f), Legible(f, m) PROVE m <= n
  <2>1. m \in Readable(f)
    BY <1>4 DEF Readable, Legible
  <2> QED BY <1>1, <2>1
<1>5. t \in Seq(Nat) /\ Len(t) = n /\ \A i \in 1 .. n : t[i] = f[i]
  BY <1>3, PrefixIs
<1> HIDE DEF t
<1>6. Replayed(f, v, n, t)
  BY <1>2, <1>3, <1>4, <1>5 DEF Replayed
<1> QED BY <1>6

(* What a live entry is, and that it is replayed.                          *)
LEMMA ReplayLive ==
  ASSUME NEW f \in Seq(Nat), NEW v \in Seq(Nat)
  PROVE  /\ replay(f, v) \in Seq(Nat) /\ Range(v) \subseteq Range(replay(f, v))
         /\ \A x : x \in Range(replay(f, v)) <=> x \in Range(v) \/ Live(f, Len(f), x)
<1>1. PICK n, t : Replayed(f, v, n, t)
  BY ReplayIs
<1>2. /\ n \in Nat /\ n <= Len(f) /\ Legible(f, n) /\ t \in Seq(Nat) /\ Len(t) = n
      /\ \A i \in 1 .. n : t[i] = f[i]
  BY <1>1 DEF Replayed
<1>3. Range(replay(f, v)) = Range(v) \cup Range(t) /\ replay(f, v) \in Seq(Nat)
  BY <1>1, <1>2, RangeConcat DEF Replayed
<1>4. ASSUME NEW x, x \in Range(t) PROVE Live(f, Len(f), x)
  <2>1. PICK i \in 1 .. n : t[i] = x
    BY <1>2, <1>4, InRange
  <2>2. i \in 1 .. Len(f) /\ i <= Len(f) /\ f[i] = x
    BY <1>2, <2>1
  <2>3. Legible(f, i)
    BY <1>2 DEF Legible
  <2> QED BY <2>2, <2>3 DEF Live
<1>5. ASSUME NEW x, Live(f, Len(f), x) PROVE x \in Range(t)
  <2>1. PICK i \in 1 .. Len(f) : f[i] = x /\ Legible(f, i)
    BY <1>5 DEF Live
  <2>2. i \in Nat /\ i <= Len(f)
    OBVIOUS
  <2>3. i <= n
    BY <1>1, <2>1, <2>2 DEF Replayed
  <2>4. i \in 1 .. n /\ t[i] = x
    BY <1>2, <2>1, <2>2, <2>3
  <2> QED BY <1>2, <2>4, InRange
<1> QED BY <1>3, <1>4, <1>5

-----------------------------------------------------------------------------
(* The log.                                                                *)

LEMMA LogType ==
  ASSUME TypeOK
  PROVE  /\ Log \in Seq(Nat) /\ Len(Log) \in Nat /\ Len(Log) = Len(file) + Len(buf)
         /\ Len(file) \in Nat /\ Len(buf) \in Nat
         /\ \A i \in 1 .. Len(file) : i \in 1 .. Len(Log) /\ Log[i] = file[i]
         /\ Range(Log) = Range(file) \cup Range(buf)
<1>1. file \in Seq(Nat) /\ buf \in Seq(Nat)
  BY DEF TypeOK
<1>2. Range(Log) = Range(file) \cup Range(buf)
  BY <1>1, RangeConcat DEF Log
<1> QED BY <1>1, <1>2 DEF Log

(* A commit writes all of it.                                              *)
LEMMA CommitLog ==
  ASSUME TypeOK, Commit
  PROVE  /\ Log' = Log /\ file' = Log /\ buf' = <<>> /\ committed' = Len(Log)
         /\ file' \in Seq(Nat) /\ buf' \in Seq(Nat) /\ committed' \in Nat
         /\ committed <= committed' /\ committed' = Len(file')
<1>1. file' = Log /\ buf' = <<>> /\ committed' = Len(Log) /\ committed' = Len(file')
  BY DEF Commit, Log
<1>2. Log \o <<>> = Log
  BY LogType
<1>3. committed \in Nat /\ committed <= Len(file)
  BY DEF TypeOK
<1>4. committed <= Len(Log)
  BY <1>3, LogType
<1>5. Log' = Log
  BY <1>1, <1>2 DEF Log
<1> QED BY <1>1, <1>4, <1>5, LogType, EmptyRange

(* Another entry is appended, and perhaps written with all before it.      *)
LEMMA EnqueueLog ==
  ASSUME TypeOK, NEW c \in Sessions, enqueue(c)
  PROVE  /\ cmd[c] \in Nat /\ Log' = Append(Log, cmd[c])
         /\ file' \in Seq(Nat) /\ buf' \in Seq(Nat) /\ Len(file) <= Len(file') /\ Len(file') \in Nat
         /\ Range(buf') \subseteq Range(buf) \cup {cmd[c]}
         /\ Range(file) \subseteq Range(file')
         /\ end' = [end EXCEPT ![c] = Len(Log) + 1]
<1>1. PICK f, g, x : f = file /\ g = buf /\ x = cmd[c]
  OBVIOUS
<1>2. f \in Seq(Nat) /\ g \in Seq(Nat) /\ x \in Nat
  BY <1>1 DEF TypeOK
<1>3. /\ f \o Append(g, x) = Append(f \o g, x) /\ Append(f \o g, x) \o <<>> = Append(f \o g, x)
      /\ f \o Append(g, x) \in Seq(Nat) /\ Append(g, x) \in Seq(Nat)
      /\ Len(f) <= Len(f \o Append(g, x)) /\ Len(f) <= Len(f)
      /\ Len(f) \in Nat /\ Len(f \o Append(g, x)) \in Nat
  BY <1>2
<1>4. \/ buf' = Append(g, x) /\ file' = f
      \/ file' = f \o Append(g, x) /\ buf' = <<>>
  BY <1>1 DEF enqueue
<1>5. Log' = Append(f \o g, x)
  BY <1>3, <1>4 DEF Log
<1>6. end' = [end EXCEPT ![c] = Len(file) + Len(buf) + 1]
  BY DEF enqueue, written
<1>7. Len(file) + Len(buf) + 1 = Len(Log) + 1
  BY LogType
<1>8. Range(Append(g, x)) = Range(g) \cup {x}
  BY <1>2, RangeAppend
<1>9. Range(f \o Append(g, x)) = Range(f) \cup Range(Append(g, x))
  BY <1>2, <1>3, RangeConcat
<1>10. Range(buf') \subseteq Range(buf) \cup {cmd[c]} /\ Range(file) \subseteq Range(file')
  BY <1>1, <1>4, <1>8, <1>9, EmptyRange
<1>11. file' \in Seq(Nat) /\ buf' \in Seq(Nat) /\ Len(file) <= Len(file') /\ Len(file') \in Nat
  BY <1>1, <1>2, <1>3, <1>4, EmptyRange
<1> QED BY <1>1, <1>2, <1>5, <1>6, <1>7, <1>10, <1>11 DEF Log

(* What a crash leaves of the file: n entries, perhaps a torn one.         *)
Left(f, n) ==
  /\ f \in Seq(Nat) /\ n \in Nat /\ committed <= n /\ n <= Len(file) /\ n <= Len(f)
  /\ \A i \in 1 .. n : f[i] = file[i]
  /\ \A i \in 1 .. Len(f) : i <= n \/ f[i] = Torn

LEMMA SurvivingLeft ==
  ASSUME TypeOK, NEW f \in Surviving
  PROVE  \E n : Left(f, n)
<1>1. /\ file \in Seq(Nat) /\ Len(file) \in Nat
      /\ committed \in Nat /\ committed <= Len(file)
  BY DEF TypeOK
<1>2. ASSUME NEW n \in committed .. Len(file)
      PROVE  /\ n \in Nat /\ committed <= n /\ n <= Len(file) /\ SubSeq(file, 1, n) \in Seq(Nat)
             /\ Len(SubSeq(file, 1, n)) = n
             /\ \A i \in 1 .. n : SubSeq(file, 1, n)[i] = file[i]
  <2>1. n \in Nat /\ committed <= n /\ n <= Len(file)
    BY <1>1
  <2> QED BY <1>1, <2>1, PrefixIs
<1>3. CASE \E n \in committed .. Len(file) : f = SubSeq(file, 1, n)
  <2>1. PICK n \in committed .. Len(file) : f = SubSeq(file, 1, n)
    BY <1>3
  <2>2. Left(f, n)
    BY <1>2, <2>1 DEF Left
  <2> QED BY <2>2
<1>4. ASSUME NEW n \in committed .. Len(file) - 1, f = Append(SubSeq(file, 1, n), Torn)
      PROVE  \E m : Left(f, m)
  <2>1. n \in committed .. Len(file)
    BY <1>1
  <2>2. PICK s : s = SubSeq(file, 1, n)
    OBVIOUS
  <2>3. /\ n \in Nat /\ committed <= n /\ n <= Len(file)
        /\ s \in Seq(Nat) /\ Len(s) = n /\ (\A i \in 1 .. n : s[i] = file[i])
    BY <1>2, <2>1, <2>2
  <2>4. Torn \in Nat
    BY DEF Torn
  <2>5. /\ f \in Seq(Nat) /\ Len(f) = n + 1 /\ f[n + 1] = Torn
        /\ \A i \in 1 .. n : f[i] = s[i]
    BY <1>4, <2>2, <2>3, <2>4, RangeAppend
  <2>6. n <= Len(f) /\ \A i \in 1 .. Len(f) : i <= n \/ i = n + 1
    BY <2>3, <2>5
  <2>7. Left(f, n)
    BY <2>3, <2>5, <2>6 DEF Left
  <2> QED BY <2>7
<1>5. f \in {SubSeq(file, 1, n) : n \in committed .. Len(file)}
      \/ f \in {Append(SubSeq(file, 1, n), Torn) : n \in committed .. Len(file) - 1}
  BY DEF Surviving, written
<1> QED BY <1>3, <1>4, <1>5

LEMMA CrashLog ==
  ASSUME TypeOK, crash_and_recover
  PROVE  \E f, n : /\ Left(f, n) /\ file' = f /\ committed' = Len(f) /\ buf' = <<>> /\ Log' = f
                   /\ kv' = replay(f, meta) /\ kv' \in Seq(Nat)
<1>1. PICK f \in Surviving : file' = f /\ committed' = Len(f) /\ kv' = replay(f, meta)
  BY DEF crash_and_recover
<1>2. PICK n : Left(f, n)
  BY SurvivingLeft
<1>3. f \in Seq(Nat) /\ buf' = <<>> /\ meta \in Seq(Nat)
  BY <1>2 DEF Left, crash_and_recover, TypeOK
<1>4. f \o <<>> = f
  BY <1>3
<1>5. Log' = f
  BY <1>1, <1>3, <1>4 DEF Log
<1>6. kv' \in Seq(Nat)
  BY <1>1, <1>3, ReplayLive
<1> QED BY <1>1, <1>2, <1>3, <1>5, <1>6

(* Committed entries that were read are read after the crash.              *)
LEMMA CrashLive ==
  ASSUME TypeOK, NEW f, NEW n, Left(f, n)
  PROVE  \A x : Live(Log, committed, x) => Live(f, Len(f), x)
<1> TAKE x
<1> HAVE Live(Log, committed, x)
<1>1. PICK i \in 1 .. Len(Log) : i <= committed /\ Log[i] = x /\ Legible(Log, i)
  BY DEF Live
<1>2. i \in Nat /\ committed \in Nat /\ n \in Nat /\ committed <= n /\ n <= Len(file)
      /\ n <= Len(f) /\ Len(f) \in Nat
  BY LogType DEF Left, TypeOK
<1>3. i \in 1 .. n /\ i \in 1 .. Len(f) /\ i <= Len(f) /\ 1 <= i
  BY <1>1, <1>2
<1>4. \A j \in 1 .. i : j \in 1 .. n /\ j \in 1 .. Len(file)
  BY <1>2, <1>3, LogType
<1>5. \A j \in 1 .. i : f[j] = Log[j]
  BY <1>4, LogType DEF Left
<1>6. f[i] = x /\ Legible(f, i)
  BY <1>1, <1>3, <1>5 DEF Legible
<1> QED BY <1>3, <1>6 DEF Live

-----------------------------------------------------------------------------
(* Type correctness.                                                       *)

(* The steps that write and fsync the log, and the answers.                *)
Committing ==
  \/ \E c \in Sessions : enqueue_commit(c) \/ wait_committed(c)
  \/ interval_commit

Replying == \E c \in Sessions : answer(c) \/ woken(c)

LEMMA NextCases ==
  ASSUME [Next]_vars
  PROVE  \/ \E c \in Sessions : execute(c)
         \/ \E c \in Sessions : enqueue(c)
         \/ Committing \/ Replying
         \/ take_checkpoint \/ write_meta \/ truncate \/ crash_and_recover
         \/ UNCHANGED vars
BY DEF Next, session_step, save_step, Committing, Replying

(* What a commit leaves alone.                                             *)
LEMMA CommittingFrame ==
  ASSUME TypeOK, Committing
  PROVE  /\ Commit /\ UNCHANGED <<mode, aof_commit_wait, kv, meta, cmd, end, saver, snapshot, saves,
                                  acked, overlap, exposed, calls, crashes>>
         /\ pc' \in [Sessions -> Labels]
         /\ \A d \in Sessions : pc'[d] = pc[d] \/ (pc[d] = "commit" /\ pc'[d] = "logged")
                                \/ (pc[d] = "logged" /\ pc'[d] = "waiting")
<1>1. CASE \E c \in Sessions : enqueue_commit(c)
  BY <1>1 DEF enqueue_commit, Goto, TypeOK, Labels, config, save, history
<1>2. CASE \E c \in Sessions : wait_committed(c)
  BY <1>2 DEF wait_committed, Goto, TypeOK, Labels, config, save, history
<1>3. CASE interval_commit
  BY <1>3 DEF interval_commit, TypeOK, sessions, config, save, history
<1> QED BY <1>1, <1>2, <1>3 DEF Committing

(* What an answer does.                                                    *)
LEMMA ReplyingFrame ==
  ASSUME TypeOK, Replying
  PROVE  /\ UNCHANGED <<mode, aof_commit_wait, kv, file, buf, committed, meta, saver, snapshot, saves,
                        overlap, exposed, calls, crashes>>
         /\ pc' \in [Sessions -> Labels] /\ cmd' \in [Sessions -> Nat] /\ end' \in [Sessions -> Nat]
         /\ \E c \in Sessions :
              /\ pc[c] \in {"logged", "waiting"} /\ pc'[c] = "idle" /\ acked' = acked \cup {cmd[c]}
              /\ aof_commit_wait \/ pc[c] = "waiting" => end[c] <= committed
              /\ \A d \in Sessions \ {c} : pc'[d] = pc[d] /\ cmd'[d] = cmd[d] /\ end'[d] = end[d]
<1>1. ASSUME NEW c \in Sessions, answer(c) \/ woken(c)
      PROVE  /\ UNCHANGED <<config, kv, aof, meta, save, calls, crashes>> /\ Answered(c)
             /\ Goto(c, "logged", "idle") \/ Goto(c, "waiting", "idle")
             /\ aof_commit_wait \/ pc[c] = "waiting" => committed >= end[c]
  BY <1>1 DEF answer, woken, Goto
<1>2. PICK c \in Sessions : answer(c) \/ woken(c)
  BY DEF Replying
<1>3. UNCHANGED <<mode, aof_commit_wait, kv, file, buf, committed, meta, saver, snapshot, saves,
                  overlap, exposed, calls, crashes>>
  BY <1>1, <1>2 DEF Answered, config, aof, save
<1>4. /\ pc[c] \in {"logged", "waiting"} /\ pc' = [pc EXCEPT ![c] = "idle"]
      /\ cmd' = [cmd EXCEPT ![c] = 0] /\ end' = [end EXCEPT ![c] = 0]
      /\ acked' = acked \cup {cmd[c]}
  BY <1>1, <1>2 DEF Answered, Goto
<1>5. "idle" \in Labels /\ 0 \in Nat /\ pc \in [Sessions -> Labels]
      /\ cmd \in [Sessions -> Nat] /\ end \in [Sessions -> Nat]
  BY DEF TypeOK, Labels
<1>6. pc' \in [Sessions -> Labels] /\ cmd' \in [Sessions -> Nat] /\ end' \in [Sessions -> Nat]
  BY <1>4, <1>5
<1>7. pc'[c] = "idle" /\ \A d \in Sessions \ {c} : pc'[d] = pc[d] /\ cmd'[d] = cmd[d] /\ end'[d] = end[d]
  BY <1>4, <1>5
<1>8. committed \in Nat /\ end[c] \in Nat
  BY <1>5 DEF TypeOK
<1>9. aof_commit_wait \/ pc[c] = "waiting" => end[c] <= committed
  BY <1>1, <1>2, <1>8
<1> QED BY <1>2, <1>3, <1>4, <1>6, <1>7, <1>9

(* What a new write does.                                                  *)
LEMMA ExecuteFrame ==
  ASSUME TypeOK, NEW c \in Sessions, execute(c)
  PROVE  /\ UNCHANGED <<mode, aof_commit_wait, file, buf, committed, meta, end, saver, snapshot, saves,
                        acked, crashes>>
         /\ calls' = calls + 1 /\ calls' \in Nat
         /\ kv' = Append(kv, calls') /\ kv' \in Seq(Nat) /\ Range(kv') = Range(kv) \cup {calls'}
         /\ pc' \in [Sessions -> Labels] /\ cmd' \in [Sessions -> Nat]
         /\ pc[c] = "idle" /\ pc'[c] = "executed" /\ cmd'[c] = calls'
         /\ \A d \in Sessions \ {c} : pc'[d] = pc[d] /\ cmd'[d] = cmd[d]
         /\ exposed \subseteq exposed' /\ (saver # "idle" => calls' \in exposed')
<1>1. /\ UNCHANGED <<mode, aof_commit_wait, file, buf, committed, meta, end, saver, snapshot, saves,
                     acked, crashes>>
      /\ calls' = calls + 1 /\ kv' = Append(kv, calls') /\ pc[c] = "idle"
      /\ pc' = [pc EXCEPT ![c] = "executed"] /\ cmd' = [cmd EXCEPT ![c] = calls']
      /\ exposed' = IF saver = "idle" THEN exposed ELSE exposed \cup {calls'}
  BY DEF execute, Goto, config, aof, save
<1>2. calls' \in Nat /\ "executed" \in Labels
  BY <1>1 DEF TypeOK, Labels
<1>3. kv' \in Seq(Nat) /\ Range(kv') = Range(kv) \cup {calls'}
  BY <1>1, <1>2, RangeAppend DEF TypeOK
<1>4. pc \in [Sessions -> Labels] /\ cmd \in [Sessions -> Nat]
  BY DEF TypeOK
<1>5. pc' \in [Sessions -> Labels] /\ cmd' \in [Sessions -> Nat] /\ pc'[c] = "executed"
      /\ cmd'[c] = calls'
      /\ \A d \in Sessions \ {c} : pc'[d] = pc[d] /\ cmd'[d] = cmd[d]
  BY <1>1, <1>2, <1>4
<1>6. exposed \subseteq exposed' /\ (saver # "idle" => calls' \in exposed')
  BY <1>1
<1> QED BY <1>1, <1>2, <1>3, <1>5, <1>6

(* What the log of a write leaves alone.                                   *)
LEMMA EnqueueFrame ==
  ASSUME TypeOK, NEW c \in Sessions, enqueue(c)
  PROVE  /\ UNCHANGED <<mode, aof_commit_wait, kv, committed, meta, cmd, saver, snapshot, saves,
                        acked, overlap, calls, crashes>>
         /\ pc' \in [Sessions -> Labels] /\ end' \in [Sessions -> Nat]
         /\ pc[c] = "executed" /\ pc'[c] = IF mode = "always" THEN "commit" ELSE "logged"
         /\ end'[c] = Len(Log) + 1
         /\ \A d \in Sessions \ {c} : pc'[d] = pc[d] /\ end'[d] = end[d]
         /\ exposed \subseteq exposed' /\ (Torn \in Range(file) => cmd[c] \in exposed')
<1>1. /\ UNCHANGED <<mode, aof_commit_wait, kv, committed, meta, cmd, saver, snapshot, saves,
                     acked, overlap, calls, crashes>>
      /\ pc[c] = "executed" /\ pc' = [pc EXCEPT ![c] = IF mode = "always" THEN "commit" ELSE "logged"]
      /\ exposed' = Behind(cmd[c])
  BY DEF enqueue, Goto, config, save
<1>2. end' = [end EXCEPT ![c] = Len(Log) + 1] /\ Len(Log) + 1 \in Nat
  BY EnqueueLog, LogType
<1>3. pc \in [Sessions -> Labels] /\ end \in [Sessions -> Nat]
      /\ {"commit", "logged"} \subseteq Labels
  BY DEF TypeOK, Labels
<1>4. /\ pc' \in [Sessions -> Labels] /\ end' \in [Sessions -> Nat]
      /\ pc'[c] = IF mode = "always" THEN "commit" ELSE "logged"
      /\ end'[c] = Len(Log) + 1
      /\ \A d \in Sessions \ {c} : pc'[d] = pc[d] /\ end'[d] = end[d]
  BY <1>1, <1>2, <1>3
<1>5. exposed \subseteq exposed' /\ (Torn \in Range(file) => cmd[c] \in exposed')
  BY <1>1 DEF Behind
<1> QED BY <1>1, <1>4, <1>5

LEMMA TypeStep ==
  ASSUME TypeOK, [Next]_vars
  PROVE  TypeOK'
<1>1. ASSUME NEW c \in Sessions, execute(c) PROVE TypeOK'
  BY <1>1, ExecuteFrame DEF TypeOK
<1>2. ASSUME NEW c \in Sessions, enqueue(c) PROVE TypeOK'
  <2>1. committed \in Nat /\ committed <= Len(file) /\ Len(file) \in Nat
    BY DEF TypeOK
  <2>2. Len(file) <= Len(file') /\ Len(file') \in Nat /\ file' \in Seq(Nat) /\ buf' \in Seq(Nat)
    BY <1>2, EnqueueLog
  <2>3. committed <= Len(file')
    BY <2>1, <2>2
  <2> QED BY <1>2, <2>2, <2>3, EnqueueFrame DEF TypeOK
<1>3. CASE Committing
  <2>1. /\ file' \in Seq(Nat) /\ buf' \in Seq(Nat) /\ committed' \in Nat /\ committed' = Len(file')
        /\ committed' <= Len(file')
    BY <1>3, CommittingFrame, CommitLog
  <2> QED BY <1>3, <2>1, CommittingFrame DEF TypeOK
<1>4. CASE Replying
  BY <1>4, ReplyingFrame DEF TypeOK
<1>5. CASE take_checkpoint
  BY <1>5 DEF take_checkpoint, TypeOK, config, aof, sessions, history
<1>6. CASE write_meta
  BY <1>6 DEF write_meta, TypeOK, config, aof, sessions, history
<1>7. CASE truncate
  BY <1>7, EmptyRange DEF truncate, TypeOK, config, sessions, history
<1>8. CASE crash_and_recover
  <2>1. /\ file' \in Seq(Nat) /\ committed' = Len(file') /\ buf' \in Seq(Nat) /\ kv' \in Seq(Nat)
    BY <1>8, CrashLog, EmptyRange DEF Left
  <2>2. committed' \in Nat /\ committed' <= Len(file')
    BY <2>1
  <2>3. /\ pc' \in [Sessions -> Labels] /\ cmd' \in [Sessions -> Nat] /\ end' \in [Sessions -> Nat]
        /\ saver' = "idle" /\ snapshot' \in Seq(Nat) /\ crashes' \in Nat
        /\ UNCHANGED <<mode, aof_commit_wait, meta, saves, calls>>
    BY <1>8, EmptyRange DEF crash_and_recover, TypeOK, Labels, config
  <2> QED BY <2>1, <2>2, <2>3 DEF TypeOK
<1>9. CASE UNCHANGED vars
  BY <1>9 DEF vars, TypeOK, config, aof, sessions, save, history
<1> QED BY <1>1, <1>2, <1>3, <1>4, <1>5, <1>6, <1>7, <1>8, <1>9, NextCases

LEMMA TypeInit ==
  ASSUME Init
  PROVE  TypeOK
<1>1. /\ pc = [c \in Sessions |-> "idle"] /\ cmd = [c \in Sessions |-> 0]
      /\ end = [c \in Sessions |-> 0]
  BY DEF Init
<1>2. pc \in [Sessions -> Labels] /\ cmd \in [Sessions -> Nat] /\ end \in [Sessions -> Nat]
  BY <1>1 DEF Labels
<1>3. mode \in {"always", "interval", "never"} /\ aof_commit_wait \in BOOLEAN
  BY ModesAssumption, CommitWaitsAssumption DEF Init
<1> QED BY <1>2, <1>3, EmptyRange DEF Init, TypeOK

-----------------------------------------------------------------------------
(* What was answered survives.                                             *)

LEMMA WholeStep ==
  ASSUME TypeOK, Whole, [Next]_vars
  PROVE  Whole'
<1>0. /\ \A c \in Sessions : pc[c] # "idle" => cmd[c] \in Range(kv) /\ cmd[c] # Torn
      /\ Torn \notin Range(buf)
  BY DEF Whole
<1>1. ASSUME NEW c \in Sessions, execute(c) PROVE Whole'
  <2>1. calls' # Torn
    BY <1>1, ExecuteFrame DEF Torn, TypeOK
  <2>2. \A d \in Sessions : pc'[d] # "idle" => cmd'[d] \in Range(kv') /\ cmd'[d] # Torn
    BY <1>0, <1>1, <2>1, ExecuteFrame
  <2>3. buf' = buf
    BY <1>1, ExecuteFrame
  <2> QED BY <1>0, <2>2, <2>3 DEF Whole
<1>2. ASSUME NEW c \in Sessions, enqueue(c) PROVE Whole'
  <2>1. kv' = kv /\ cmd' = cmd /\ \A d \in Sessions : pc'[d] # "idle" => pc[d] # "idle"
    BY <1>2, EnqueueFrame
  <2>2. cmd[c] # Torn
    BY <1>0, <1>2, EnqueueFrame
  <2>3. Torn \notin Range(buf')
    BY <1>0, <1>2, <2>2, EnqueueLog
  <2> QED BY <1>0, <2>1, <2>3 DEF Whole
<1>3. CASE Committing
  <2>1. kv' = kv /\ cmd' = cmd /\ \A d \in Sessions : pc'[d] # "idle" => pc[d] # "idle"
    BY <1>3, CommittingFrame
  <2>2. Torn \notin Range(buf')
    BY <1>3, CommittingFrame, CommitLog, EmptyRange
  <2> QED BY <1>0, <2>1, <2>2 DEF Whole
<1>4. CASE Replying
  <2>1. kv' = kv /\ buf' = buf /\ \A d \in Sessions : pc'[d] # "idle" => pc[d] # "idle" /\ cmd'[d] = cmd[d]
    BY <1>4, ReplyingFrame
  <2> QED BY <1>0, <2>1 DEF Whole
<1>5. CASE take_checkpoint \/ write_meta
  BY <1>0, <1>5 DEF take_checkpoint, write_meta, Whole, aof, sessions
<1>7. CASE truncate
  BY <1>0, <1>7, EmptyRange DEF truncate, Whole, sessions
<1>8. CASE crash_and_recover
  BY <1>0, <1>8, EmptyRange DEF crash_and_recover, Whole
<1>9. CASE UNCHANGED vars
  BY <1>0, <1>9 DEF vars, Whole, aof, sessions
<1> QED BY <1>1, <1>2, <1>3, <1>4, <1>5, <1>7, <1>8, <1>9, NextCases

LEMMA CapturedStep ==
  ASSUME TypeOK, Captured, [Next]_vars
  PROVE  Captured'
<1>1. ASSUME NEW c \in Sessions, execute(c) PROVE Captured'
  BY <1>1, ExecuteFrame DEF Captured
<1>2. ASSUME NEW c \in Sessions, enqueue(c) PROVE Captured'
  <2>1. UNCHANGED <<kv, meta, saver, snapshot>> /\ exposed \subseteq exposed'
    BY <1>2, EnqueueFrame
  <2> QED BY <2>1 DEF Captured
<1>3. CASE Committing
  <2>1. UNCHANGED <<kv, meta, saver, snapshot, exposed>>
    BY <1>3, CommittingFrame
  <2> QED BY <2>1 DEF Captured
<1>4. CASE Replying
  <2>1. UNCHANGED <<kv, meta, saver, snapshot, exposed>>
    BY <1>4, ReplyingFrame
  <2> QED BY <2>1 DEF Captured
<1>5. CASE take_checkpoint
  BY <1>5 DEF take_checkpoint, Captured, history
<1>6. CASE write_meta
  BY <1>6 DEF write_meta, Captured
<1>7. CASE truncate
  BY <1>7 DEF truncate, Captured, history
<1>8. CASE crash_and_recover
  <2>1. PICK f, n : Left(f, n) /\ kv' = replay(f, meta)
    BY <1>8, CrashLog
  <2>2. Range(meta) \subseteq Range(kv')
    BY <2>1, ReplayLive DEF Left, TypeOK
  <2> QED BY <1>8, <2>2 DEF crash_and_recover, Captured
<1>9. CASE UNCHANGED vars
  BY <1>9 DEF vars, Captured, save, history
<1> QED BY <1>1, <1>2, <1>3, <1>4, <1>5, <1>6, <1>7, <1>8, <1>9, NextCases

(* While nobody crashes or truncates, what is kept stays kept.             *)
LEMMA KeptStays ==
  ASSUME TypeOK, exposed \subseteq exposed' \cup Range(meta'), Range(meta) \subseteq Range(meta'),
         Log' = Log \/ \E y \in Nat : Log' = Append(Log, y)
  PROVE  \A n \in Nat : \A x : Kept(x, n) => Kept(x, n)'
<1> TAKE n \in Nat
<1> TAKE x
<1> HAVE Kept(x, n)
<1>1. Log \in Seq(Nat)
  BY LogType
<1>2. Live(Log, n, x) => Live(Log', n, x)
  <2>1. CASE Log' = Log
    BY <2>1
  <2>2. ASSUME NEW y \in Nat, Log' = Append(Log, y), Live(Log, n, x) PROVE Live(Log', n, x)
    BY <1>1, <2>2, LiveAppend
  <2> QED BY <2>1, <2>2
<1>3. x \in exposed' \/ x \in Range(meta') \/ Live(Log', n, x)
  BY <1>2 DEF Kept
<1> QED BY <1>3 DEF Kept

LEMMA KeptMore ==
  ASSUME TypeOK, NEW m \in Nat, NEW n \in Nat, NEW x, Kept(x, m), m <= n \/ Len(Log) <= n
  PROVE  Kept(x, n)
BY LogType, LiveMore DEF Kept

LEMMA PersistedStep ==
  ASSUME SaveInv, [Next]_vars, TypeOK'
  PROVE  Persisted'
<1>0. TypeOK /\ Whole /\ Captured /\ Persisted
  BY DEF SaveInv
<1>t. /\ committed \in Nat /\ committed' \in Nat
      /\ \A c \in Sessions : end[c] \in Nat /\ end'[c] \in Nat
  BY <1>0 DEF TypeOK
<1>1. ASSUME NEW c \in Sessions, execute(c) PROVE Persisted'
  <2>1. UNCHANGED <<mode, aof_commit_wait, committed, meta, end, acked, Log>>
    BY <1>0, <1>1, ExecuteFrame DEF Log
  <2>2. \A n \in Nat : \A x : Kept(x, n) => Kept(x, n)'
    BY <1>0, <1>1, <2>1, ExecuteFrame, KeptStays
  <2>3. \A d \in Sessions : pc'[d] # "executed" => pc'[d] = pc[d] /\ cmd'[d] = cmd[d]
    BY <1>0, <1>1, ExecuteFrame
  <2>4. exposed \subseteq exposed' /\ Range(kv) \subseteq Range(kv')
    BY <1>0, <1>1, ExecuteFrame
  <2> QED BY <1>0, <1>t, <2>1, <2>2, <2>3, <2>4 DEF Persisted, Durable
<1>2. ASSUME NEW c \in Sessions, enqueue(c) PROVE Persisted'
  <2>1. UNCHANGED <<mode, aof_commit_wait, kv, committed, meta, cmd, acked>>
        /\ exposed \subseteq exposed'
    BY <1>0, <1>2, EnqueueFrame
  <2>2. cmd[c] \in Nat /\ Log' = Append(Log, cmd[c])
    BY <1>0, <1>2, EnqueueLog
  <2>3. \A n \in Nat : \A x : Kept(x, n) => Kept(x, n)'
    BY <1>0, <2>1, <2>2, KeptStays
  <2>4. Kept(cmd[c], end[c])'
    <3>1. CASE Torn \in Range(file)
      BY <1>0, <1>2, <2>1, <3>1, EnqueueFrame DEF Kept
    <3>2. CASE Torn \notin Range(file)
      <4>1. PICK s, x : s = Log /\ x = cmd[c]
        OBVIOUS
      <4>2. s \in Seq(Nat) /\ x \in Nat /\ x # Torn /\ Torn \notin Range(s)
        BY <1>0, <1>2, <2>2, <3>2, <4>1, LogType, EnqueueFrame DEF Whole
      <4>3. \A i \in 1 .. Len(s) : s[i] # Torn
        BY <4>2, InRange
      <4>4. PICK t : t = Append(s, x)
        OBVIOUS
      <4>5. Len(s) \in Nat /\ Len(t) = Len(s) + 1 /\ t[Len(s) + 1] = x
            /\ \A i \in 1 .. Len(s) : t[i] = s[i]
        BY <4>2, <4>4, RangeAppend
      <4>6. \A i \in 1 .. Len(s) + 1 : t[i] # Torn
        BY <4>2, <4>3, <4>5
      <4>7. Live(t, Len(s) + 1, x)
        BY <4>5, <4>6 DEF Live, Legible
      <4>8. Log' = t /\ end'[c] = Len(s) + 1 /\ cmd'[c] = x
        BY <1>0, <1>2, <2>1, <2>2, <4>1, <4>4, EnqueueFrame
      <4> QED BY <4>7, <4>8 DEF Kept
    <3> QED BY <3>1, <3>2
  <2>5. \A d \in Sessions \ {c} : pc'[d] = pc[d] /\ end'[d] = end[d]
    BY <1>0, <1>2, EnqueueFrame
  <2>6. mode = "always" => pc'[c] = "commit"
    BY <1>0, <1>2, EnqueueFrame
  <2>7. SUFFICES ASSUME Durable PROVE Persisted'
    BY <2>1 DEF Persisted, Durable
  <2>8. ASSUME NEW d \in Sessions, pc'[d] \in {"commit", "logged", "waiting"}
        PROVE  Kept(cmd[d], end[d])'
    BY <1>0, <1>t, <2>1, <2>3, <2>4, <2>5, <2>7, <2>8 DEF Persisted
  <2>9. ASSUME NEW d \in Sessions, mode' = "always", pc'[d] \in {"logged", "waiting"}
        PROVE  Kept(cmd[d], committed)'
    BY <1>0, <1>t, <2>1, <2>3, <2>5, <2>6, <2>7, <2>9 DEF Persisted
  <2>10. ASSUME NEW x \in acked' PROVE x \in exposed' \/ (x \in Range(kv') /\ Kept(x, committed)')
    BY <1>0, <1>t, <2>1, <2>3, <2>7 DEF Persisted
  <2> QED BY <2>8, <2>9, <2>10 DEF Persisted
<1>3. CASE Committing
  <2>1. UNCHANGED <<mode, aof_commit_wait, kv, meta, cmd, end, acked, exposed>>
    BY <1>0, <1>3, CommittingFrame
  <2>2. Log' = Log /\ committed' = Len(Log) /\ committed <= committed'
    BY <1>0, <1>3, CommittingFrame, CommitLog
  <2>3. \A n \in Nat : \A x : Kept(x, n) => Kept(x, n)'
    BY <1>0, <2>1, <2>2, KeptStays
  <2>4. \A n \in Nat : \A x : Kept(x, n) => Kept(x, committed')
    BY <1>0, <1>t, <2>2, KeptMore, LogType
  <2>5. \A x : Kept(x, committed') => Kept(x, committed)'
    BY <1>t, <2>3
  <2>6. \A d \in Sessions : pc'[d] = pc[d] \/ (pc[d] = "commit" /\ pc'[d] = "logged")
                            \/ (pc[d] = "logged" /\ pc'[d] = "waiting")
    BY <1>0, <1>3, CommittingFrame
  <2>7. SUFFICES ASSUME Durable PROVE Persisted'
    BY <2>1 DEF Persisted, Durable
  <2>8. ASSUME NEW d \in Sessions, pc'[d] \in {"commit", "logged", "waiting"}
        PROVE  Kept(cmd[d], end[d])' /\ Kept(cmd[d], committed)'
    <3>1. Kept(cmd[d], end[d])
      BY <1>0, <2>6, <2>7, <2>8 DEF Persisted
    <3>2. PICK x, n : x = cmd[d] /\ n = end[d]
      OBVIOUS
    <3>3. n \in Nat /\ Kept(x, n)
      BY <1>t, <3>1, <3>2
    <3>4. Kept(x, n)' /\ Kept(x, committed)'
      BY <2>3, <2>4, <2>5, <3>3
    <3> QED BY <2>1, <3>2, <3>4
  <2>9. ASSUME NEW x \in acked' PROVE x \in exposed' \/ (x \in Range(kv') /\ Kept(x, committed)')
    BY <1>0, <1>t, <2>1, <2>4, <2>5, <2>7 DEF Persisted
  <2> QED BY <2>8, <2>9 DEF Persisted
<1>4. CASE Replying
  <2>1. UNCHANGED <<mode, aof_commit_wait, kv, committed, meta, exposed, Log>>
    BY <1>0, <1>4, ReplyingFrame DEF Log
  <2>2. \A n \in Nat : \A x : Kept(x, n) => Kept(x, n)'
    BY <1>0, <2>1, KeptStays
  <2>3. SUFFICES ASSUME Durable PROVE Persisted'
    BY <2>1 DEF Persisted, Durable
  <2>4. PICK c \in Sessions :
          /\ pc[c] \in {"logged", "waiting"} /\ pc'[c] = "idle" /\ acked' = acked \cup {cmd[c]}
          /\ aof_commit_wait \/ pc[c] = "waiting" => end[c] <= committed
          /\ \A d \in Sessions \ {c} : pc'[d] = pc[d] /\ cmd'[d] = cmd[d] /\ end'[d] = end[d]
    BY <1>0, <1>4, ReplyingFrame
  <2>5. cmd[c] \in Range(kv) /\ Kept(cmd[c], end[c]) /\ (mode = "always" => Kept(cmd[c], committed))
    BY <1>0, <2>3, <2>4 DEF Whole, Persisted
  <2>6. Kept(cmd[c], committed)
    <3>1. PICK x, n : x = cmd[c] /\ n = end[c]
      OBVIOUS
    <3>2. n \in Nat /\ Kept(x, n) /\ (aof_commit_wait => n <= committed)
      BY <1>t, <2>4, <2>5, <3>1
    <3>3. aof_commit_wait => Kept(x, committed)
      BY <1>0, <1>t, <3>2, KeptMore
    <3> QED BY <2>3, <2>5, <3>1, <3>3 DEF Durable
  <2>7. ASSUME NEW d \in Sessions, pc'[d] \in {"commit", "logged", "waiting"}
        PROVE  Kept(cmd[d], end[d])'
    <3>1. d # c /\ pc'[d] = pc[d] /\ cmd'[d] = cmd[d] /\ end'[d] = end[d]
      BY <2>4, <2>7
    <3>2. Kept(cmd[d], end[d])
      BY <1>0, <2>3, <2>7, <3>1 DEF Persisted
    <3> QED BY <1>t, <2>2, <3>1, <3>2
  <2>8. ASSUME NEW d \in Sessions, mode' = "always", pc'[d] \in {"logged", "waiting"}
        PROVE  Kept(cmd[d], committed)'
    <3>1. d # c /\ pc'[d] = pc[d] /\ cmd'[d] = cmd[d]
      BY <2>4, <2>8
    <3>2. Kept(cmd[d], committed)
      BY <1>0, <2>1, <2>3, <2>8, <3>1 DEF Persisted
    <3> QED BY <1>t, <2>1, <2>2, <3>1, <3>2
  <2>9. ASSUME NEW x \in acked' PROVE x \in exposed' \/ (x \in Range(kv') /\ Kept(x, committed)')
    <3>1. x \in exposed \/ (x \in Range(kv) /\ Kept(x, committed))
      BY <1>0, <2>3, <2>4, <2>5, <2>6 DEF Persisted
    <3> QED BY <1>t, <2>1, <2>2, <3>1
  <2> QED BY <2>7, <2>8, <2>9 DEF Persisted
<1>5. CASE take_checkpoint
  <2>1. UNCHANGED <<mode, aof_commit_wait, kv, committed, meta, exposed, Log, pc, cmd, end, acked>>
    BY <1>5 DEF take_checkpoint, config, aof, sessions, history, Log
  <2>2. \A n, x : Kept(x, n)' <=> Kept(x, n)
    BY <2>1 DEF Kept
  <2> QED BY <1>0, <2>1, <2>2 DEF Persisted, Durable
<1>6. CASE write_meta
  <2>1. /\ UNCHANGED <<mode, aof_commit_wait, kv, committed, Log, pc, cmd, end, acked>>
        /\ saver = "captured" /\ meta' = snapshot /\ exposed' = exposed \ Range(snapshot)
    BY <1>6 DEF write_meta, config, aof, sessions, Log
  <2>2. exposed \subseteq exposed' \cup Range(meta') /\ Range(meta) \subseteq Range(meta')
        /\ Range(meta') \subseteq Range(kv)
    BY <1>0, <2>1 DEF Captured
  <2>3. \A n \in Nat : \A x : Kept(x, n) => Kept(x, n)'
    BY <1>0, <2>1, <2>2, KeptStays
  <2>4. SUFFICES ASSUME Durable PROVE Persisted'
    BY <2>1 DEF Persisted, Durable
  <2>5. ASSUME NEW d \in Sessions, pc'[d] \in {"commit", "logged", "waiting"}
        PROVE  Kept(cmd[d], end[d])'
    BY <1>0, <1>t, <2>1, <2>3, <2>4, <2>5 DEF Persisted
  <2>6. ASSUME NEW d \in Sessions, mode' = "always", pc'[d] \in {"logged", "waiting"}
        PROVE  Kept(cmd[d], committed)'
    BY <1>0, <1>t, <2>1, <2>3, <2>4, <2>6 DEF Persisted
  <2>7. ASSUME NEW x \in acked' PROVE x \in exposed' \/ (x \in Range(kv') /\ Kept(x, committed)')
    <3>1. x \in exposed \/ (x \in Range(kv) /\ Kept(x, committed))
      BY <1>0, <2>1, <2>4 DEF Persisted
    <3>2. CASE x \in Range(snapshot)
      <4>1. x \in Range(kv') /\ x \in Range(meta')
        BY <2>1, <2>2, <3>2
      <4> QED BY <4>1 DEF Kept
    <3>3. CASE x \notin Range(snapshot)
      BY <1>t, <2>1, <2>3, <3>1, <3>3
    <3> QED BY <3>2, <3>3
  <2> QED BY <2>5, <2>6, <2>7 DEF Persisted
<1>7. CASE truncate
  <2>1. /\ UNCHANGED <<mode, aof_commit_wait, kv, meta, exposed, pc, cmd, end, acked>>
        /\ saver = "written"
    BY <1>7 DEF truncate, config, sessions, history
  <2>2. \A x \in Range(kv) : x \in exposed \/ x \in Range(meta)
    BY <1>0, <2>1 DEF Captured
  <2>3. \A n : \A x \in Range(kv) : Kept(x, n)'
    BY <2>1, <2>2 DEF Kept
  <2>4. \A d \in Sessions : pc'[d] # "idle" => cmd'[d] \in Range(kv)
    BY <1>0, <2>1 DEF Whole
  <2>5. \A x \in acked' : Durable => x \in exposed' \/ x \in Range(kv')
    BY <1>0, <2>1 DEF Persisted
  <2> QED BY <2>1, <2>3, <2>4, <2>5 DEF Persisted, Durable
<1>8. CASE crash_and_recover
  <2>1. PICK f, n : /\ Left(f, n) /\ committed' = Len(f) /\ Log' = f /\ kv' = replay(f, meta)
    BY <1>0, <1>8, CrashLog
  <2>2. f \in Seq(Nat) /\ meta \in Seq(Nat)
    BY <1>0, <2>1 DEF Left, TypeOK
  <2>3. \A x : x \in Range(kv') <=> x \in Range(meta) \/ Live(f, Len(f), x)
    BY <2>1, <2>2, ReplayLive
  <2>4. /\ UNCHANGED <<mode, aof_commit_wait, meta, acked>> /\ exposed' = exposed \ Range(kv')
        /\ \A d \in Sessions : pc'[d] = "idle"
    BY <1>8 DEF crash_and_recover, config
  <2>5. \A x \in Range(kv') : Kept(x, committed)'
    BY <2>1, <2>3, <2>4 DEF Kept
  <2>6. ASSUME NEW x \in acked', Durable PROVE x \in exposed' \/ x \in Range(kv')
    <3>1. x \in exposed \/ Kept(x, committed)
      BY <1>0, <2>4, <2>6 DEF Persisted
    <3>2. x \in exposed \/ x \in Range(meta) \/ Live(Log, committed, x)
      BY <3>1 DEF Kept
    <3>3. Live(Log, committed, x) => Live(f, Len(f), x)
      BY <1>0, <2>1, CrashLive
    <3> QED BY <2>3, <2>4, <3>2, <3>3
  <2> QED BY <2>4, <2>5, <2>6 DEF Persisted, Durable
<1>9. CASE UNCHANGED vars
  <2>1. UNCHANGED <<mode, aof_commit_wait, kv, committed, meta, exposed, Log, pc, cmd, end, acked>>
    BY <1>9 DEF vars, config, aof, sessions, history, Log
  <2>2. \A n, x : Kept(x, n)' <=> Kept(x, n)
    BY <2>1 DEF Kept
  <2> QED BY <1>0, <2>1, <2>2 DEF Persisted, Durable
<1> QED BY <1>0, <1>1, <1>2, <1>3, <1>4, <1>5, <1>6, <1>7, <1>8, <1>9, NextCases

(* The inductive invariant: every answered write is exposed, or in the     *)
(* checkpoint, or committed where replay reads it.                         *)
THEOREM SaveInvariance == Spec => []SaveInv
<1>1. Init => SaveInv
  <2>1. ASSUME Init PROVE Whole /\ Captured
    BY <2>1, EmptyRange DEF Init, Whole, Captured
  <2>2. ASSUME Init PROVE Persisted
    BY <2>2 DEF Init, Persisted
  <2> QED BY <2>1, <2>2, TypeInit DEF SaveInv
<1>2. ASSUME SaveInv, [Next]_vars PROVE SaveInv'
  <2>1. TypeOK'
    BY <1>2, TypeStep DEF SaveInv
  <2> QED BY <1>2, <2>1, WholeStep, CapturedStep, PersistedStep DEF SaveInv
<1> QED BY <1>1, <1>2, PTL DEF Spec

(* With a log that is committed on every append or before the answer,      *)
(* every answered write that is not exposed is in the store, after any     *)
(* number of SAVEs and crashes.                                            *)
THEOREM SavedSurvivesHolds == Spec => []SavedSurvives
<1>1. SaveInv => SavedSurvives
  <2>1. ASSUME SaveInv, Durable PROVE acked \ exposed \subseteq Range(kv)
    BY <2>1 DEF SaveInv, Persisted
  <2> QED BY <2>1 DEF SavedSurvives, Durable
<1> QED BY <1>1, SaveInvariance, PTL

-----------------------------------------------------------------------------
(* Replay of a log that no SAVE has truncated.                             *)

(* Steps that leave the store, the log and what is on its way to it alone. *)
LEMMA OrderFrame ==
  ASSUME UNCHANGED <<kv, Log, calls, overlap, saves, saver, meta>>,
         Torn \in Range(file) => Torn \in Range(file'),
         \A c \in Sessions : (Pending(c) <=> Pending(c)') /\ (Pending(c) => cmd'[c] = cmd[c]),
         Numbered, Ordered
  PROVE  Numbered' /\ Ordered'
<1>1. \A s, n : Legible(s, n)' <=> Legible(s, n)
  BY DEF Legible, Torn
<1>2. CASE saves = 0
  <2>1. Numbered'
    BY <1>2 DEF Numbered, Torn
  <2>2. Ordered'
    BY <1>2 DEF Ordered, Legible, Before, Torn
  <2> QED BY <2>1, <2>2
<1>3. CASE saves # 0
  BY <1>3 DEF Numbered, Ordered
<1> QED BY <1>2, <1>3

LEMMA OrderExecute ==
  ASSUME OrderInv, NEW c \in Sessions, execute(c)
  PROVE  Numbered' /\ Ordered'
<1>0. TypeOK /\ Whole /\ Numbered /\ Ordered
  BY DEF OrderInv
<1>1. SUFFICES ASSUME saves = 0 PROVE Numbered' /\ Ordered'
  BY <1>0, ExecuteFrame DEF Numbered, Ordered
<1>2. PICK k, k2, L, w : k = kv /\ k2 = kv' /\ L = Log /\ w = calls'
  OBVIOUS
<1>3. /\ k \in Seq(Nat) /\ k2 = Append(k, w) /\ L \in Seq(Nat) /\ w \in Nat /\ w = calls + 1 /\ calls \in Nat
      /\ Log' = L /\ w # Torn
  <2>1. k \in Seq(Nat) /\ k2 = Append(k, w) /\ w \in Nat /\ w = calls + 1 /\ calls \in Nat
    BY <1>0, <1>2, ExecuteFrame DEF TypeOK
  <2>2. L \in Seq(Nat) /\ Log' = L
    BY <1>0, <1>2, ExecuteFrame, LogType DEF Log
  <2>3. w # Torn
    BY <2>1 DEF Torn
  <2> QED BY <2>1, <2>2, <2>3
<1>4. /\ Len(k2) = Len(k) + 1 /\ Len(k) \in Nat /\ k2[Len(k) + 1] = w
      /\ \A i \in 1 .. Len(k) : k2[i] = k[i]
      /\ Range(k2) = Range(k) \cup {w} /\ k2 \in Seq(Nat)
  BY <1>3, RangeAppend
<1>5. /\ saver = "idle" /\ meta = <<>>
      /\ \A i \in 1 .. Len(k) : k[i] # Torn /\ k[i] <= calls
      /\ \A i \in 1 .. Len(L) : L[i] <= calls
      /\ \A i, j \in 1 .. Len(k) : k[i] = k[j] => i = j
      /\ \A i, j \in 1 .. Len(L) : L[i] = L[j] /\ L[i] # Torn => i = j
      /\ \A d \in Sessions : Pending(d) => cmd[d] \notin Range(L) /\ cmd[d] <= calls
      /\ \A d, e \in Sessions : Pending(d) /\ Pending(e) /\ cmd[d] = cmd[e] => d = e
  BY <1>0, <1>1, <1>2 DEF Numbered
<1>6. /\ pc'[c] = "executed" /\ cmd'[c] = w /\ pc[c] = "idle"
      /\ \A d \in Sessions \ {c} : pc'[d] = pc[d] /\ cmd'[d] = cmd[d]
      /\ saver' = saver /\ meta' = meta /\ saves' = saves /\ calls' = calls + 1 /\ file' = file
  BY <1>0, <1>2, ExecuteFrame
<1>7. /\ Pending(c)' /\ ~Pending(c)
      /\ \A d \in Sessions : d # c => (Pending(d)' <=> Pending(d)) /\ cmd'[d] = cmd[d]
  BY <1>6 DEF Pending
<1>8. w \notin Range(L) /\ \A i \in 1 .. Len(k) : k[i] # w
  <2>1. \A i \in 1 .. Len(L) : L[i] \in Nat /\ L[i] # w
    BY <1>3, <1>5
  <2>2. w \notin Range(L)
    BY <1>3, <2>1, InRange
  <2>3. \A i \in 1 .. Len(k) : k[i] \in Nat /\ k[i] # w
    BY <1>3, <1>5
  <2> QED BY <2>2, <2>3
<1>9. Numbered'
  <2>1. \A i \in 1 .. Len(k2) : k2[i] # Torn /\ k2[i] <= calls'
    <3>1. \A i \in 1 .. Len(k) : k[i] \in Nat
      BY <1>3
    <3> QED BY <1>2, <1>3, <1>4, <1>5, <3>1
  <2>2. \A i \in 1 .. Len(L) : L[i] <= calls'
    <3>1. \A i \in 1 .. Len(L) : L[i] \in Nat
      BY <1>3
    <3> QED BY <1>2, <1>3, <1>5, <3>1
  <2>3. \A i, j \in 1 .. Len(k2) : k2[i] = k2[j] => i = j
    BY <1>4, <1>5, <1>8
  <2>4. \A d \in Sessions : Pending(d)' => cmd'[d] \notin Range(L) /\ cmd'[d] <= calls'
    <3> TAKE d \in Sessions
    <3> HAVE Pending(d)'
    <3>1. cmd[d] \in Nat
      BY <1>0 DEF TypeOK
    <3>2. CASE d = c
      BY <1>2, <1>3, <1>6, <1>8, <3>2
    <3>3. CASE d # c
      BY <1>2, <1>3, <1>5, <1>7, <3>1, <3>3
    <3> QED BY <3>2, <3>3
  <2>5. \A d \in Sessions : Pending(d) => cmd[d] # w
    BY <1>3, <1>5
  <2>6. \A d, e \in Sessions : Pending(d)' /\ Pending(e)' /\ cmd'[d] = cmd'[e] => d = e
    BY <1>5, <1>6, <1>7, <2>5
  <2> QED BY <1>2, <1>3, <1>5, <1>6, <2>1, <2>2, <2>3, <2>4, <2>6 DEF Numbered, Torn
<1>10. overlap' = overlap \cup {{cmd[d], w} : d \in {d \in Sessions : Pending(d)}}
  BY <1>2 DEF execute, Pending
<1>11. \A a, b : Before(k2, a, b) => Before(k, a, b) \/ (b = w /\ \E i \in 1 .. Len(k) : k[i] = a)
  <2>1. DOMAIN k2 = 1 .. Len(k2) /\ DOMAIN k = 1 .. Len(k)
    BY <1>3, <1>4
  <2> TAKE a, b
  <2> HAVE Before(k2, a, b)
  <2>2. PICK i, j \in 1 .. Len(k2) : i < j /\ k2[i] = a /\ k2[j] = b
    BY <2>1 DEF Before
  <2>3. i \in 1 .. Len(k) /\ k[i] = a
    BY <1>4, <2>2
  <2>4. CASE j = Len(k) + 1
    BY <1>4, <2>2, <2>3, <2>4
  <2>5. CASE j # Len(k) + 1
    <3>1. j \in 1 .. Len(k) /\ k[j] = b
      BY <1>4, <2>2, <2>5
    <3> QED BY <2>1, <2>2, <2>3, <3>1 DEF Before
  <2> QED BY <2>4, <2>5
<1>12. /\ \A i \in 1 .. Len(L) : Legible(L, i) => L[i] \in Range(k)
       /\ \A i, j \in 1 .. Len(L) :
            i < j /\ Legible(L, j) /\ Before(k, L[j], L[i]) => {L[i], L[j]} \in overlap
       /\ \A d \in Sessions : \A i \in 1 .. Len(L) :
            Pending(d) /\ Legible(L, i) /\ Before(k, cmd[d], L[i]) => {L[i], cmd[d]} \in overlap
       /\ \A d, e \in Sessions : Pending(d) /\ Pending(e) /\ d # e => {cmd[d], cmd[e]} \in overlap
       /\ Torn \notin Range(file) =>
            \A x \in Range(k) : x \in Range(L) \/ \E d \in Sessions : Pending(d) /\ cmd[d] = x
  BY <1>0, <1>1, <1>2 DEF Ordered
<1>13. \A i \in 1 .. Len(L) : L[i] # w
  BY <1>3, <1>8, InRange
<1>14. \A a : ~Before(k2, w, a)
  <2>1. \A a : ~Before(k, w, a)
    <3>1. DOMAIN k = 1 .. Len(k)
      BY <1>3
    <3> QED BY <1>8, <3>1 DEF Before
  <2> QED BY <1>8, <1>11, <2>1
<1>15. Ordered'
  <2>1. \A i \in 1 .. Len(L) : Legible(L, i) => L[i] \in Range(k2)
    BY <1>4, <1>12
  <2>2. \A i, j \in 1 .. Len(L) :
          i < j /\ Legible(L, j) /\ Before(k2, L[j], L[i]) => {L[i], L[j]} \in overlap'
    BY <1>10, <1>11, <1>12, <1>13
  <2>3. \A d \in Sessions : \A i \in 1 .. Len(L) :
          Pending(d)' /\ Legible(L, i) /\ Before(k2, cmd'[d], L[i]) => {L[i], cmd'[d]} \in overlap'
    <3> TAKE d \in Sessions
    <3> TAKE i \in 1 .. Len(L)
    <3>1. CASE d = c
      BY <1>6, <1>14, <3>1
    <3>2. CASE d # c
      BY <1>7, <1>10, <1>11, <1>12, <1>13, <3>2
    <3> QED BY <3>1, <3>2
  <2>4. \A d, e \in Sessions : Pending(d)' /\ Pending(e)' /\ d # e => {cmd'[d], cmd'[e]} \in overlap'
    <3> TAKE d, e \in Sessions
    <3> HAVE Pending(d)' /\ Pending(e)' /\ d # e
    <3>1. \A g \in Sessions : Pending(g) => {cmd[g], w} \in overlap'
      BY <1>10
    <3>2. CASE d = c
      <4>1. Pending(e) /\ cmd'[e] = cmd[e] /\ cmd'[d] = w
        BY <1>6, <1>7, <3>2
      <4>2. {cmd'[d], cmd'[e]} = {cmd[e], w}
        BY <4>1
      <4> QED BY <3>1, <4>1, <4>2
    <3>3. CASE e = c
      <4>1. Pending(d) /\ cmd'[d] = cmd[d] /\ cmd'[e] = w
        BY <1>6, <1>7, <3>3
      <4> QED BY <3>1, <4>1
    <3>4. CASE d # c /\ e # c
      BY <1>7, <1>10, <1>12, <3>4
    <3> QED BY <3>2, <3>3, <3>4
  <2>5. Torn \notin Range(file') =>
          \A x \in Range(k2) : x \in Range(L) \/ \E d \in Sessions : Pending(d)' /\ cmd'[d] = x
    <3> HAVE Torn \notin Range(file')
    <3> TAKE x \in Range(k2)
    <3>1. CASE x = w
      BY <1>6, <1>7, <3>1
    <3>2. CASE x # w
      <4>1. x \in Range(k) /\ Torn \notin Range(file)
        BY <1>4, <1>6, <3>2
      <4>2. x \in Range(L) \/ \E d \in Sessions : Pending(d) /\ cmd[d] = x
        BY <1>12, <4>1
      <4> QED BY <1>7, <4>2
    <3> QED BY <3>1, <3>2
  <2> QED BY <1>2, <1>3, <2>1, <2>2, <2>3, <2>4, <2>5 DEF Ordered
<1> QED BY <1>9, <1>15

LEMMA OrderEnqueue ==
  ASSUME OrderInv, NEW c \in Sessions, enqueue(c)
  PROVE  Numbered' /\ Ordered'
<1>0. TypeOK /\ Whole /\ Numbered /\ Ordered
  BY DEF OrderInv
<1>1. SUFFICES ASSUME saves = 0 PROVE Numbered' /\ Ordered'
  BY <1>0, EnqueueFrame DEF Numbered, Ordered
<1>2. PICK k, L, L2, w : k = kv /\ L = Log /\ L2 = Log' /\ w = cmd[c]
  OBVIOUS
<1>3. /\ k \in Seq(Nat) /\ L \in Seq(Nat) /\ w \in Nat /\ L2 = Append(L, w) /\ kv' = k
  BY <1>0, <1>2, EnqueueFrame, EnqueueLog, LogType DEF TypeOK
<1>4. /\ Len(L2) = Len(L) + 1 /\ Len(L) \in Nat /\ L2[Len(L) + 1] = w
      /\ \A i \in 1 .. Len(L) : L2[i] = L[i]
      /\ Range(L2) = Range(L) \cup {w} /\ L2 \in Seq(Nat)
  BY <1>3, RangeAppend
<1>5. /\ saver = "idle" /\ meta = <<>>
      /\ \A i \in 1 .. Len(k) : k[i] # Torn /\ k[i] <= calls
      /\ \A i \in 1 .. Len(L) : L[i] <= calls
      /\ \A i, j \in 1 .. Len(k) : k[i] = k[j] => i = j
      /\ \A i, j \in 1 .. Len(L) : L[i] = L[j] /\ L[i] # Torn => i = j
      /\ \A d \in Sessions : Pending(d) => cmd[d] \notin Range(L) /\ cmd[d] <= calls
      /\ \A d, e \in Sessions : Pending(d) /\ Pending(e) /\ cmd[d] = cmd[e] => d = e
  BY <1>0, <1>1, <1>2 DEF Numbered
<1>6. /\ UNCHANGED <<saver, meta, saves, calls, cmd, overlap>> /\ pc[c] = "executed"
      /\ pc'[c] # "executed" /\ \A d \in Sessions \ {c} : pc'[d] = pc[d]
      /\ Range(file) \subseteq Range(file')
  BY <1>0, EnqueueFrame, EnqueueLog
<1>7. /\ Pending(c) /\ ~Pending(c)'
      /\ \A d \in Sessions : d # c => (Pending(d)' <=> Pending(d))
  BY <1>6 DEF Pending
<1>8. w \notin Range(L) /\ w <= calls /\ (\A i \in 1 .. Len(L) : L[i] # w) /\ w \in Range(k)
  <2>1. w \notin Range(L) /\ w <= calls
    BY <1>2, <1>5, <1>7
  <2>2. \A i \in 1 .. Len(L) : L[i] # w
    BY <1>3, <2>1, InRange
  <2>3. w \in Range(k)
    BY <1>0, <1>2, <1>6 DEF Whole
  <2> QED BY <2>1, <2>2, <2>3
<1>9. Numbered'
  <2>1. \A i \in 1 .. Len(L2) : L2[i] <= calls
    BY <1>4, <1>5, <1>8
  <2>2. \A i, j \in 1 .. Len(L2) : L2[i] = L2[j] /\ L2[i] # Torn => i = j
    BY <1>4, <1>5, <1>8
  <2>3. \A d \in Sessions : Pending(d)' => cmd[d] \notin Range(L2) /\ cmd[d] <= calls
    <3> TAKE d \in Sessions
    <3> HAVE Pending(d)'
    <3>1. d # c /\ Pending(d)
      BY <1>7
    <3>2. cmd[d] # w
      BY <1>2, <1>5, <1>7, <3>1
    <3> QED BY <1>4, <1>5, <3>1, <3>2
  <2>4. \A d, e \in Sessions : Pending(d)' /\ Pending(e)' /\ cmd[d] = cmd[e] => d = e
    BY <1>5, <1>7
  <2> QED BY <1>2, <1>3, <1>5, <1>6, <2>1, <2>2, <2>3, <2>4 DEF Numbered
<1>10. /\ \A i \in 1 .. Len(L) : Legible(L, i) => L[i] \in Range(k)
       /\ \A i, j \in 1 .. Len(L) :
            i < j /\ Legible(L, j) /\ Before(k, L[j], L[i]) => {L[i], L[j]} \in overlap
       /\ \A d \in Sessions : \A i \in 1 .. Len(L) :
            Pending(d) /\ Legible(L, i) /\ Before(k, cmd[d], L[i]) => {L[i], cmd[d]} \in overlap
       /\ \A d, e \in Sessions : Pending(d) /\ Pending(e) /\ d # e => {cmd[d], cmd[e]} \in overlap
       /\ Torn \notin Range(file) =>
            \A x \in Range(k) : x \in Range(L) \/ \E d \in Sessions : Pending(d) /\ cmd[d] = x
  BY <1>0, <1>1, <1>2 DEF Ordered
<1>11. \A i \in 1 .. Len(L) : Legible(L2, i) => Legible(L, i)
  <2> TAKE i \in 1 .. Len(L)
  <2>1. \A j \in 1 .. i : j \in 1 .. Len(L) /\ L2[j] = L[j]
    BY <1>4
  <2> QED BY <2>1 DEF Legible
<1>12. \A i \in 1 .. Len(L) : Legible(L2, Len(L) + 1) => Legible(L2, i)
  <2> TAKE i \in 1 .. Len(L)
  <2>1. \A j \in 1 .. i : j \in 1 .. Len(L) + 1
    BY <1>4
  <2> QED BY <2>1 DEF Legible
<1>13. \A i \in 1 .. Len(L2) : i \in 1 .. Len(L) \/ i = Len(L) + 1
  BY <1>4
<1>14. Ordered'
  <2>1. \A i \in 1 .. Len(L2) : Legible(L2, i) => L2[i] \in Range(k)
    BY <1>4, <1>8, <1>10, <1>11, <1>13
  <2>2. \A i, j \in 1 .. Len(L2) :
          i < j /\ Legible(L2, j) /\ Before(k, L2[j], L2[i]) => {L2[i], L2[j]} \in overlap
    <3> TAKE i, j \in 1 .. Len(L2)
    <3> HAVE i < j /\ Legible(L2, j) /\ Before(k, L2[j], L2[i])
    <3>1. i \in 1 .. Len(L) /\ L2[i] = L[i]
      BY <1>4
    <3>2. CASE j \in 1 .. Len(L)
      BY <1>4, <1>10, <1>11, <3>1, <3>2
    <3>3. CASE j = Len(L) + 1
      <4>1. L2[j] = w /\ Legible(L, i)
        BY <1>4, <1>11, <1>12, <3>1, <3>3
      <4>2. Before(k, cmd[c], L[i])
        BY <1>2, <3>1, <4>1
      <4>3. {L[i], cmd[c]} \in overlap
        BY <1>7, <1>10, <3>1, <4>1, <4>2
      <4> QED BY <1>2, <3>1, <4>1, <4>3
    <3> QED BY <1>13, <3>2, <3>3
  <2>3. \A d \in Sessions : \A i \in 1 .. Len(L2) :
          Pending(d)' /\ Legible(L2, i) /\ Before(k, cmd[d], L2[i]) => {L2[i], cmd[d]} \in overlap
    <3> TAKE d \in Sessions
    <3> TAKE i \in 1 .. Len(L2)
    <3> HAVE Pending(d)' /\ Legible(L2, i) /\ Before(k, cmd[d], L2[i])
    <3>1. d # c /\ Pending(d)
      BY <1>7
    <3>2. CASE i \in 1 .. Len(L)
      BY <1>4, <1>10, <1>11, <3>1, <3>2
    <3>3. CASE i = Len(L) + 1
      <4>1. L2[i] = cmd[c] /\ {cmd[c], cmd[d]} \in overlap
        BY <1>2, <1>4, <1>7, <1>10, <3>1, <3>3
      <4> QED BY <4>1
    <3> QED BY <1>13, <3>2, <3>3
  <2>4. \A d, e \in Sessions : Pending(d)' /\ Pending(e)' /\ d # e => {cmd[d], cmd[e]} \in overlap
    BY <1>7, <1>10
  <2>5. Torn \notin Range(file') =>
          \A x \in Range(k) : x \in Range(L2) \/ \E d \in Sessions : Pending(d)' /\ cmd[d] = x
    <3> HAVE Torn \notin Range(file')
    <3> TAKE x \in Range(k)
    <3>1. x \in Range(L) \/ \E d \in Sessions : Pending(d) /\ cmd[d] = x
      BY <1>6, <1>10
    <3>2. ASSUME NEW d \in Sessions, Pending(d), cmd[d] = x, d # c
          PROVE  \E e \in Sessions : Pending(e)' /\ cmd[e] = x
      BY <1>7, <3>2
    <3> QED BY <1>2, <1>4, <3>1, <3>2
  <2> QED BY <1>2, <1>3, <1>6, <2>1, <2>2, <2>3, <2>4, <2>5 DEF Ordered
<1> QED BY <1>9, <1>14

(* What recovery makes of a log that no SAVE has truncated: the entries    *)
(* that are read, in their order.                                          *)
LEMMA CrashStore ==
  ASSUME OrderInv, saves = 0, crash_and_recover
  PROVE  \E f, n, m :
           /\ Left(f, n) /\ file' = f /\ buf' = <<>> /\ Log' = f
           /\ m \in Nat /\ m <= n /\ Len(kv') = m /\ kv' \in Seq(Nat)
           /\ \A i \in 1 .. m : i \in 1 .. Len(Log) /\ kv'[i] = Log[i] /\ kv'[i] = f[i] /\ Legible(Log, i)
           /\ \A i \in 1 .. Len(f) : Legible(f, i) => i <= m
           /\ \A i \in 1 .. Len(f) : f[i] = Torn \/ (i \in 1 .. Len(Log) /\ f[i] = Log[i])
<1>0. TypeOK /\ meta = <<>>
  BY DEF OrderInv, Numbered
<1>1. PICK f, n : Left(f, n) /\ file' = f /\ buf' = <<>> /\ Log' = f /\ kv' = replay(f, <<>>)
  BY <1>0, CrashLog
<1>2. /\ f \in Seq(Nat) /\ n \in Nat /\ n <= Len(file) /\ n <= Len(f) /\ Len(f) \in Nat
      /\ \A i \in 1 .. n : f[i] = file[i]
      /\ \A i \in 1 .. Len(f) : i <= n \/ f[i] = Torn
  BY <1>1 DEF Left
<1>3. PICK m, t : Replayed(f, <<>>, m, t)
  BY <1>2, ReplayIs, EmptyRange
<1>4. /\ m \in Nat /\ m <= Len(f) /\ Legible(f, m)
      /\ \A i \in Nat : i <= Len(f) /\ Legible(f, i) => i <= m
      /\ t \in Seq(Nat) /\ Len(t) = m /\ \A i \in 1 .. m : t[i] = f[i]
      /\ kv' = <<>> \o t
  BY <1>1, <1>3 DEF Replayed
<1>5. <<>> \o t = t
  BY <1>4
<1>6. kv' = t
  BY <1>4, <1>5
<1>7. m <= n
  <2>1. SUFFICES ASSUME ~(m <= n) PROVE FALSE
    OBVIOUS
  <2>2. n + 1 \in 1 .. m /\ n + 1 \in 1 .. Len(f) /\ ~(n + 1 <= n)
    BY <1>2, <1>4, <2>1
  <2>3. f[n + 1] = Torn /\ f[n + 1] # Torn
    BY <1>2, <1>4, <2>2 DEF Legible
  <2> QED BY <2>3
<1>8. \A i \in 1 .. n : i \in 1 .. Len(Log) /\ f[i] = Log[i]
  <2> TAKE i \in 1 .. n
  <2>1. i \in 1 .. Len(file)
    BY <1>0, <1>2, LogType
  <2> QED BY <1>0, <1>2, <2>1, LogType
<1>9. ASSUME NEW i \in 1 .. m
      PROVE  i \in 1 .. Len(Log) /\ t[i] = Log[i] /\ t[i] = f[i] /\ Legible(Log, i)
  <2>1. i \in 1 .. n /\ \A j \in 1 .. i : j \in 1 .. n /\ j \in 1 .. m
    BY <1>2, <1>4, <1>7
  <2>2. \A j \in 1 .. i : Log[j] # Torn
    BY <1>4, <1>8, <2>1 DEF Legible
  <2> QED BY <1>4, <1>8, <2>1, <2>2 DEF Legible
<1>10. \A i \in 1 .. Len(f) : Legible(f, i) => i <= m
  <2> TAKE i \in 1 .. Len(f)
  <2>1. i \in Nat /\ i <= Len(f)
    BY <1>2
  <2> QED BY <1>4, <2>1
<1>11. \A i \in 1 .. Len(f) : f[i] = Torn \/ (i \in 1 .. Len(Log) /\ f[i] = Log[i])
  <2> TAKE i \in 1 .. Len(f)
  <2>1. i <= n => i \in 1 .. n
    BY <1>2
  <2> QED BY <1>2, <1>8, <2>1
<1> QED BY <1>1, <1>4, <1>6, <1>7, <1>9, <1>10, <1>11

LEMMA OrderCrash ==
  ASSUME OrderInv, crash_and_recover
  PROVE  Numbered' /\ Ordered'
<1>0. TypeOK /\ Numbered /\ Ordered
  BY DEF OrderInv
<1>1. /\ saves' = saves /\ calls' = calls /\ overlap' = overlap /\ saver' = "idle" /\ meta' = meta
      /\ \A d \in Sessions : ~Pending(d)'
  BY DEF crash_and_recover, Pending
<1>2. SUFFICES ASSUME saves = 0 PROVE Numbered' /\ Ordered'
  BY <1>1 DEF Numbered, Ordered
<1>3. PICK f, n, m :
           /\ Left(f, n) /\ file' = f /\ buf' = <<>> /\ Log' = f
           /\ m \in Nat /\ m <= n /\ Len(kv') = m /\ kv' \in Seq(Nat)
           /\ \A i \in 1 .. m : i \in 1 .. Len(Log) /\ kv'[i] = Log[i] /\ kv'[i] = f[i] /\ Legible(Log, i)
           /\ \A i \in 1 .. Len(f) : Legible(f, i) => i <= m
           /\ \A i \in 1 .. Len(f) : f[i] = Torn \/ (i \in 1 .. Len(Log) /\ f[i] = Log[i])
  BY <1>2, CrashStore
<1>4. PICK k, L : k = kv' /\ L = Log
  OBVIOUS
<1>5. /\ f \in Seq(Nat) /\ n \in Nat /\ n <= Len(f) /\ Len(f) \in Nat /\ k \in Seq(Nat) /\ Len(k) = m
      /\ m \in Nat /\ m <= n /\ m <= Len(f)
      /\ \A i \in 1 .. m : i \in 1 .. Len(L) /\ k[i] = L[i] /\ k[i] = f[i] /\ L[i] # Torn
      /\ \A i \in 1 .. Len(f) : Legible(f, i) => i <= m
      /\ \A i \in 1 .. Len(f) : f[i] = Torn \/ (i \in 1 .. Len(L) /\ f[i] = L[i])
  <2>1. \A i \in 1 .. m : Legible(Log, i) => Log[i] # Torn
    BY <1>3 DEF Legible
  <2>2. f \in Seq(Nat) /\ n \in Nat /\ n <= Len(f) /\ Len(f) \in Nat
    BY <1>3 DEF Left
  <2>3. m <= Len(f)
    BY <1>3, <2>2
  <2> QED BY <1>3, <1>4, <2>1, <2>2, <2>3
<1>6. /\ meta = <<>> /\ calls \in Nat /\ \A i \in 1 .. Len(L) : L[i] <= calls
      /\ \A i, j \in 1 .. Len(L) : L[i] = L[j] /\ L[i] # Torn => i = j
  BY <1>0, <1>2, <1>4 DEF Numbered, TypeOK
<1>7. \A i, j \in 1 .. Len(k) : k[i] = k[j] => i = j
  BY <1>5, <1>6
<1>8. Numbered'
  <2>1. \A i \in 1 .. Len(k) : k[i] # Torn /\ k[i] <= calls
    BY <1>5, <1>6
  <2>2. \A i \in 1 .. Len(f) : f[i] <= calls
    BY <1>5, <1>6 DEF Torn
  <2>3. \A i, j \in 1 .. Len(f) : f[i] = f[j] /\ f[i] # Torn => i = j
    BY <1>5, <1>6
  <2> QED BY <1>1, <1>3, <1>4, <1>6, <1>7, <2>1, <2>2, <2>3 DEF Numbered
<1>9. Ordered'
  <2>1. \A i \in 1 .. Len(f) : Legible(f, i) => i \in 1 .. m
    BY <1>5
  <2>2. \A i \in 1 .. Len(f) : Legible(f, i) => f[i] \in Range(k)
    BY <1>5, <2>1, InRange
  <2>3. \A i, j \in 1 .. Len(f) : i < j /\ Legible(f, j) => ~Before(k, f[j], f[i])
    <3> TAKE i, j \in 1 .. Len(f)
    <3> HAVE i < j /\ Legible(f, j)
    <3>1. i \in 1 .. m /\ j \in 1 .. m
      BY <1>5, <2>1
    <3>2. DOMAIN k = 1 .. m
      BY <1>5
    <3>3. SUFFICES ASSUME Before(k, f[j], f[i]) PROVE FALSE
      OBVIOUS
    <3>4. PICK a, b \in 1 .. m : a < b /\ k[a] = f[j] /\ k[b] = f[i]
      BY <3>2, <3>3 DEF Before
    <3>5. a = j /\ b = i
      BY <1>5, <1>7, <3>1, <3>4
    <3> QED BY <3>4, <3>5
  <2>4. Torn \notin Range(f) => \A x \in Range(k) : x \in Range(f)
    <3>1. ASSUME NEW x \in Range(k) PROVE x \in Range(f)
      <4>1. PICK i \in 1 .. m : k[i] = x
        BY <1>5, InRange
      <4>2. i \in 1 .. Len(f) /\ f[i] = x
        BY <1>5, <4>1
      <4> QED BY <1>5, <4>2, InRange
    <3> QED BY <3>1
  <2> QED BY <1>1, <1>3, <1>4, <2>2, <2>3, <2>4 DEF Ordered
<1> QED BY <1>8, <1>9

LEMMA OrderStep ==
  ASSUME OrderInv, [Next]_vars
  PROVE  Numbered' /\ Ordered'
<1>0. TypeOK /\ Whole /\ Numbered /\ Ordered
  BY DEF OrderInv
<1>1. CASE (\E c \in Sessions : execute(c)) \/ (\E c \in Sessions : enqueue(c)) \/ crash_and_recover
  BY <1>1, OrderExecute, OrderEnqueue, OrderCrash
<1>2. CASE Committing
  <2>1. UNCHANGED <<kv, Log, calls, overlap, saves, saver, meta, cmd>> /\ file' = Log
    BY <1>0, <1>2, CommittingFrame, CommitLog
  <2>2. Torn \in Range(file) => Torn \in Range(file')
    BY <1>0, <2>1, LogType
  <2>3. \A c \in Sessions : (Pending(c) <=> Pending(c)') /\ (Pending(c) => cmd'[c] = cmd[c])
    BY <1>0, <1>2, <2>1, CommittingFrame DEF Pending
  <2> QED BY <1>0, <2>1, <2>2, <2>3, OrderFrame
<1>3. CASE Replying
  <2>1. UNCHANGED <<kv, Log, calls, overlap, saves, saver, meta, file>>
    BY <1>0, <1>3, ReplyingFrame DEF Log
  <2>2. \A c \in Sessions : (Pending(c) <=> Pending(c)') /\ (Pending(c) => cmd'[c] = cmd[c])
    BY <1>0, <1>3, ReplyingFrame DEF Pending
  <2> QED BY <1>0, <2>1, <2>2, OrderFrame
<1>4. CASE take_checkpoint
  <2>1. saves' # 0
    BY <1>0, <1>4 DEF take_checkpoint, TypeOK
  <2> QED BY <2>1 DEF Numbered, Ordered
<1>5. CASE write_meta \/ truncate
  <2>1. saves' = saves /\ saver # "idle"
    BY <1>5 DEF write_meta, truncate
  <2>2. saves # 0
    BY <1>0, <2>1 DEF Numbered
  <2> QED BY <2>1, <2>2 DEF Numbered, Ordered
<1>6. CASE UNCHANGED vars
  <2>1. UNCHANGED <<kv, Log, calls, overlap, saves, saver, meta, file, pc, cmd>>
    BY <1>6 DEF vars, aof, sessions, save, history, Log
  <2>2. \A c \in Sessions : (Pending(c) <=> Pending(c)') /\ (Pending(c) => cmd'[c] = cmd[c])
    BY <2>1 DEF Pending
  <2> QED BY <1>0, <2>1, <2>2, OrderFrame
<1> QED BY <1>1, <1>2, <1>3, <1>4, <1>5, <1>6, NextCases

(* The inductive invariant: before any SAVE, what replay would read of the *)
(* log are writes of the store, each once, in its order but for those that *)
(* overlapped.                                                             *)
THEOREM OrderInvariance == Spec => []OrderInv
<1>1. Init => OrderInv
  <2> SUFFICES ASSUME Init PROVE OrderInv
    OBVIOUS
  <2>1. Whole
    BY EmptyRange DEF Init, Whole
  <2>2. Log = <<>>
    BY DEF Init, Log
  <2>3. kv = <<>> /\ saver = "idle" /\ meta = <<>> /\ \A c \in Sessions : ~Pending(c)
    BY DEF Init, Pending
  <2>4. Len(kv) = 0 /\ Len(Log) = 0 /\ Range(kv) = {}
    BY <2>2, <2>3, EmptyRange
  <2>5. Numbered
    BY <2>3, <2>4 DEF Numbered
  <2>6. Ordered
    BY <2>3, <2>4 DEF Ordered
  <2> QED BY <2>1, <2>5, <2>6, TypeInit DEF OrderInv
<1>2. ASSUME OrderInv, [Next]_vars PROVE OrderInv'
  BY <1>2, TypeStep, WholeStep, OrderStep DEF OrderInv
<1> QED BY <1>1, <1>2, PTL DEF Spec

(* Only a crash counts as one.                                             *)
LEMMA CrashesChange ==
  ASSUME TypeOK, [Next]_vars, crashes' # crashes
  PROVE  crash_and_recover
<1>1. ASSUME NEW c \in Sessions, execute(c) \/ enqueue(c) PROVE FALSE
  BY <1>1, ExecuteFrame, EnqueueFrame
<1>2. CASE Committing
  BY <1>2, CommittingFrame
<1>3. CASE Replying
  BY <1>3, ReplyingFrame
<1>4. CASE take_checkpoint \/ write_meta \/ truncate
  BY <1>4 DEF take_checkpoint, write_meta, truncate
<1>5. CASE UNCHANGED vars
  BY <1>5 DEF vars
<1> QED BY <1>1, <1>2, <1>3, <1>4, <1>5, NextCases

LEMMA ReplayStep ==
  ASSUME OrderInv, saves = 0, crash_and_recover
  PROVE  /\ IsInjective(kv') /\ Range(kv') \subseteq Range(kv)
         /\ Quiet => Range(kv) \subseteq Range(kv')
         /\ \A a, b \in Range(kv') : Before(kv, a, b) /\ Before(kv', b, a) => {a, b} \in overlap
<1>0. TypeOK /\ Whole /\ Numbered /\ Ordered
  BY DEF OrderInv
<1>1. PICK f, n, m :
           /\ Left(f, n) /\ file' = f /\ buf' = <<>> /\ Log' = f
           /\ m \in Nat /\ m <= n /\ Len(kv') = m /\ kv' \in Seq(Nat)
           /\ \A i \in 1 .. m : i \in 1 .. Len(Log) /\ kv'[i] = Log[i] /\ kv'[i] = f[i] /\ Legible(Log, i)
           /\ \A i \in 1 .. Len(f) : Legible(f, i) => i <= m
           /\ \A i \in 1 .. Len(f) : f[i] = Torn \/ (i \in 1 .. Len(Log) /\ f[i] = Log[i])
  BY CrashStore
<1>2. PICK k, L : k = kv' /\ L = Log
  OBVIOUS
<1>3. /\ k \in Seq(Nat) /\ m \in Nat /\ Len(k) = m /\ DOMAIN k = 1 .. m
      /\ \A i \in 1 .. m : i \in 1 .. Len(L) /\ k[i] = L[i] /\ Legible(L, i)
  BY <1>1, <1>2
<1>4. \A i, j \in 1 .. m : k[i] = k[j] => i = j
  <2>1. \A i \in 1 .. m : L[i] # Torn
    BY <1>3 DEF Legible
  <2>2. \A i, j \in 1 .. Len(L) : L[i] = L[j] /\ L[i] # Torn => i = j
    BY <1>0, <1>2 DEF Numbered
  <2> QED BY <1>3, <2>1, <2>2
<1>5. IsInjective(k)
  BY <1>3, <1>4 DEF IsInjective
<1>6. Range(k) \subseteq Range(kv)
  <2>1. ASSUME NEW x \in Range(k) PROVE x \in Range(kv)
    <3>1. PICK i \in 1 .. m : k[i] = x
      BY <1>3, InRange
    <3> QED BY <1>0, <1>2, <1>3, <3>1 DEF Ordered
  <2> QED BY <2>1
<1>7. ASSUME Quiet PROVE Range(kv) \subseteq Range(k)
  <2>1. /\ \A c \in Sessions : ~Pending(c)
        /\ committed = Len(file) + Len(buf) /\ Torn \notin Range(file)
    BY <1>7 DEF Quiet, Pending, written
  <2>2. \A x \in Range(kv) : x \in Range(L)
    BY <1>0, <1>2, <2>1 DEF Ordered
  <2>3. /\ committed \in Nat /\ committed <= Len(file) /\ Len(file) \in Nat /\ Len(buf) \in Nat
        /\ L \in Seq(Nat) /\ Len(L) = Len(file) + Len(buf) /\ Len(L) \in Nat
        /\ Range(L) = Range(file) \cup Range(buf)
    BY <1>0, <1>2, LogType DEF TypeOK
  <2>4. Len(L) = Len(file) /\ committed = Len(L)
    BY <2>1, <2>3
  <2>5. /\ n \in Nat /\ committed <= n /\ n <= Len(file) /\ n <= Len(f) /\ Len(f) \in Nat
        /\ \A i \in 1 .. n : f[i] = file[i]
    BY <1>1 DEF Left
  <2>6. n = Len(L)
    BY <2>3, <2>4, <2>5
  <2>7. Torn \notin Range(L)
    BY <1>0, <2>1, <2>3 DEF Whole
  <2>8. \A i \in 1 .. n : f[i] = L[i] /\ L[i] # Torn
    <3>1. \A i \in 1 .. n : L[i] # Torn
      BY <2>3, <2>6, <2>7, InRange
    <3>2. \A i \in 1 .. n : f[i] = L[i]
      BY <1>0, <1>2, <2>4, <2>5, <2>6, LogType
    <3> QED BY <3>1, <3>2
  <2>9. Legible(f, n)
    BY <2>8 DEF Legible
  <2>10. n <= m
    <3>1. CASE n = 0
      BY <1>3, <3>1
    <3>2. CASE n # 0
      <4>1. n \in 1 .. Len(f)
        BY <2>5, <3>2
      <4> QED BY <1>1, <2>9, <4>1
    <3> QED BY <3>1, <3>2
  <2>11. ASSUME NEW x \in Range(kv) PROVE x \in Range(k)
    <3>1. PICK i \in 1 .. Len(L) : L[i] = x
      BY <2>2, <2>3, InRange
    <3>2. i \in 1 .. m
      BY <1>3, <2>5, <2>6, <2>10
    <3> QED BY <1>3, <3>1, <3>2, InRange
  <2> QED BY <2>11
<1>8. ASSUME NEW a \in Range(k), NEW b \in Range(k), Before(kv, a, b), Before(k, b, a)
      PROVE  {a, b} \in overlap
  <2>1. PICK i, j \in 1 .. m : i < j /\ k[i] = b /\ k[j] = a
    BY <1>3, <1>8 DEF Before
  <2>2. i \in 1 .. Len(L) /\ j \in 1 .. Len(L) /\ L[i] = b /\ L[j] = a /\ Legible(L, j)
    BY <1>3, <2>1
  <2>3. Before(kv, L[j], L[i])
    BY <1>8, <2>2
  <2>4. {L[i], L[j]} \in overlap
    BY <1>0, <1>2, <2>1, <2>2, <2>3 DEF Ordered
  <2>5. {L[i], L[j]} = {a, b}
    BY <2>2
  <2> QED BY <2>4, <2>5
<1> QED BY <1>2, <1>5, <1>6, <1>7, <1>8

(* Replay of a log that no SAVE has truncated, after any number of         *)
(* crashes: writes of the store, each once, all if nothing was in flight,  *)
(* in the order of effect but for those whose calls overlapped.            *)
THEOREM ReplayReproducesHolds == Spec => ReplayReproduces
<1> DEFINE Reproduced ==
      saves = 0 /\ crashes' # crashes =>
         /\ IsInjective(kv') /\ Range(kv') \subseteq Range(kv)
         /\ Quiet => Range(kv) \subseteq Range(kv')
         /\ \A a, b \in Range(kv') : Before(kv, a, b) /\ Before(kv', b, a) => {a, b} \in overlap
<1>1. ASSUME OrderInv, [Next]_vars PROVE [Reproduced]_vars
  <2>1. TypeOK
    BY <1>1 DEF OrderInv
  <2>2. ASSUME saves = 0, crashes' # crashes PROVE crash_and_recover
    BY <1>1, <2>1, <2>2, CrashesChange
  <2>3. Reproduced
    BY <1>1, <2>2, ReplayStep
  <2> QED BY <2>3
<1>2. ReplayReproduces <=> [][Reproduced]_vars
  BY DEF ReplayReproduces
<1> HIDE DEF Reproduced
<1> QED BY <1>1, <1>2, OrderInvariance, PTL DEF Spec


-----------------------------------------------------------------------------
(* The string commands whose log is replayed.                              *)

Bytes == Seq(Int)
Records == [val : Bytes, cap : Nat, slot : BOOLEAN, exp : Int, mutable : BOOLEAN]
Holdings == [val : Bytes, exp : Int]

(* What the proofs use of the assumptions of StringFunctions.              *)
StringConstants ==
  /\ \A v \in Operands : v \in Bytes
  /\ SetOptions \subseteq SUBSET {"NX", "XX", "GET", "KEEPTTL"}
  /\ I64Max \in Nat /\ MaxTime \in Nat /\ Deltas \subseteq I64 /\ Times \subseteq Int
  /\ Nil \notin Int /\ Nil \notin Holdings /\ Nil \notin Records

LEMMA Assumed == StringConstants
<1>1. ASSUME NEW v \in Operands PROVE v \in Bytes
  <2>1. v \in Seq(0 .. 255) /\ 0 .. 255 \subseteq Int
    BY OperandsAssumption
  <2> QED BY <2>1, SeqMonotonic DEF Bytes
<1> QED BY <1>1, OptionsAssumption, NumbersAssumption, NoRecordAssumption
        DEF StringConstants, I64, Bytes, Records, Holdings

-----------------------------------------------------------------------------
(* Numbers and bytes.                                                      *)

LEMMA MaxTwo ==
  ASSUME NEW a \in Int, NEW b \in Int
  PROVE  Max({a, b}) = IF a >= b THEN a ELSE b
<1>1. \E x \in {a, b} : \A y \in {a, b} : x >= y
  OBVIOUS
<1>2. \A x \in {a, b} : (\A y \in {a, b} : x >= y) => x = IF a >= b THEN a ELSE b
  OBVIOUS
<1> QED BY <1>1, <1>2 DEF Max

LEMMA MinTwo ==
  ASSUME NEW a \in Int, NEW b \in Int
  PROVE  Min({a, b}) = IF a <= b THEN a ELSE b
<1>1. \E x \in {a, b} : \A y \in {a, b} : x <= y
  OBVIOUS
<1>2. \A x \in {a, b} : (\A y \in {a, b} : x <= y) => x = IF a <= b THEN a ELSE b
  OBVIOUS
<1> QED BY <1>1, <1>2 DEF Min

(* A function on 1 .. n is a sequence of length n.                         *)
LEMMA SeqLen ==
  ASSUME NEW m, NEW n \in Nat, m = [a \in 1 .. n |-> m[a]]
  PROVE  Len(m) = n
<1> DEFINE T == {m[a] : a \in 1 .. n}
<1>1. m \in [1 .. n -> T]
  OBVIOUS
<1>2. m \in Seq(T) /\ DOMAIN m = 1 .. n
  BY <1>1
<1> HIDE DEF T
<1>3. Len(m) \in Nat /\ DOMAIN m = 1 .. Len(m)
  BY <1>2
<1> QED BY <1>2, <1>3

LEMMA OverlayIs ==
  ASSUME NEW s \in Bytes, NEW x \in Nat, NEW v \in Bytes
  PROVE  /\ Overlay(s, x, v) \in Bytes
         /\ Len(Overlay(s, x, v)) = IF x + Len(v) >= Len(s) THEN x + Len(v) ELSE Len(s)
<1>1. PICK m, n : /\ m = Overlay(s, x, v)
                  /\ n = IF x + Len(v) >= Len(s) THEN x + Len(v) ELSE Len(s)
  OBVIOUS
<1>2. Len(v) \in Nat /\ Len(s) \in Nat /\ x + Len(v) \in Int
  BY DEF Bytes
<1>3. Max({x + Len(v), Len(s)}) = n
  BY <1>1, <1>2, MaxTwo
<1>4. m = [j \in 1 .. n |->
            IF j > x /\ j <= x + Len(v) THEN v[j - x] ELSE IF j <= Len(s) THEN s[j] ELSE 0]
  BY <1>1, <1>3 DEF Overlay
<1>5. n \in Nat
  BY <1>1, <1>2
<1>6. m = [j \in 1 .. n |-> m[j]]
  BY <1>4
<1>7. Len(m) = n
  BY <1>5, <1>6, SeqLen
<1>8. \A j \in 1 .. n : m[j] \in Int
  <2> TAKE j \in 1 .. n
  <2>1. (j > x /\ j <= x + Len(v)) => j - x \in 1 .. Len(v)
    BY <1>2, <1>5
  <2>2. j <= Len(s) => j \in 1 .. Len(s)
    BY <1>2, <1>5
  <2> QED BY <1>4, <2>1, <2>2, ElementOfSeq DEF Bytes
<1>9. m \in [1 .. n -> Int]
  BY <1>4, <1>8
<1>10. m \in Seq(Int)
  BY <1>5, <1>9
<1> QED BY <1>1, <1>7, <1>10 DEF Bytes

LEMMA JoinIs ==
  ASSUME NEW s \in Bytes, NEW v \in Bytes
  PROVE  s \o v \in Bytes /\ Len(s \o v) = Len(s) + Len(v) /\ <<>> \o v = v
BY ConcatProperties, ConcatEmptySeq DEF Bytes

LEMMA ParseType ==
  ASSUME NEW s
  PROVE  parse_i64(s) \in I64 \cup {Nil}
BY DEF parse_i64, Signed, Unsigned, InI64

LEMMA ModIs ==
  ASSUME NEW m \in Nat, NEW x \in Nat, x < m
  PROVE  x % m = x
OBVIOUS

LEMMA WrapIs ==
  ASSUME I64Max \in Nat, NEW n \in I64
  PROVE  Wrap(n) = n /\ n \in Int
<1>1. PICK m, x : m = 2 * (I64Max + 1) /\ x = n + I64Max + 1
  OBVIOUS
<1>2. m \in Nat /\ x \in Nat /\ x < m /\ n \in Int /\ x - (I64Max + 1) = n
  BY <1>1 DEF I64
<1>3. x % m = x
  BY <1>2, ModIs
<1> QED BY <1>1, <1>2, <1>3 DEF Wrap

-----------------------------------------------------------------------------
(* Decimal text.                                                           *)

(* The text of n, from the texts g of smaller numbers.                     *)
Text(g, n) == IF n < 10 THEN <<48 + n>> ELSE Append(g[n \div 10], 48 + (n % 10))

(* The texts of the numbers up to m.                                       *)
IsText(g, m) == g \in [0 .. m -> Bytes] /\ \A n \in 0 .. m : g[n] = Text(g, n)

LEMMA TextType ==
  ASSUME NEW n \in Nat, NEW g, n >= 10 => g[n \div 10] \in Bytes
  PROVE  Text(g, n) \in Bytes
<1>1. CASE n < 10
  BY <1>1 DEF Text, Bytes
<1>2. CASE ~(n < 10)
  <2>1. g[n \div 10] \in Seq(Int) /\ 48 + (n % 10) \in Int
    BY <1>2 DEF Bytes
  <2> QED BY <1>2, <2>1 DEF Text, Bytes
<1> QED BY <1>1, <1>2

LEMMA TextsExist ==
  ASSUME NEW m \in Nat
  PROVE  \E g : IsText(g, m)
<1> DEFINE S == {x \in Nat : \E g : IsText(g, x)}
<1>1. 0 \in S
  <2> DEFINE g == [n \in 0 .. 0 |-> <<48>>]
  <2>1. g \in [0 .. 0 -> Bytes] /\ g[0] = <<48>>
    BY DEF Bytes
  <2>2. Text(g, 0) = <<48>>
    BY DEF Text
  <2>3. IsText(g, 0)
    <3> HIDE DEF g
    <3> QED BY <2>1, <2>2 DEF IsText
  <2> QED BY <2>3
<1>2. ASSUME NEW x \in S PROVE x + 1 \in S
  <2>1. PICK g : IsText(g, x)
    OBVIOUS
  <2>2. PICK y : y = x + 1
    OBVIOUS
  <2>3. x \in Nat /\ y \in Nat /\ (\A n \in 0 .. y : n # y => n \in 0 .. x)
        /\ \A n \in 0 .. y : n >= 10 => n \div 10 \in 0 .. x
    BY <2>2
  <2> DEFINE h == [n \in 0 .. y |-> IF n = y THEN Text(g, y) ELSE g[n]]
  <2>4. (\A n \in 0 .. x : g[n] \in Bytes /\ g[n] = Text(g, n))
    BY <2>1 DEF IsText
  <2>5. Text(g, y) \in Bytes
    <3>1. y >= 10 => g[y \div 10] \in Bytes
      BY <2>3, <2>4
    <3> QED BY <2>3, <3>1, TextType
  <2>6. h \in [0 .. y -> Bytes]
    BY <2>3, <2>4, <2>5
  <2>7. (\A n \in 0 .. x : h[n] = g[n]) /\ h[y] = Text(g, y)
    BY <2>2, <2>3
  <2> HIDE DEF h
  <2>8. ASSUME NEW n \in 0 .. y PROVE h[n] = Text(h, n)
    <3>1. Text(h, n) = Text(g, n)
      BY <2>3, <2>7 DEF Text
    <3> QED BY <2>3, <2>4, <2>7, <3>1
  <2>9. IsText(h, y)
    BY <2>6, <2>8 DEF IsText
  <2> QED BY <2>2, <2>3, <2>9
<1>3. S = Nat
  <2>1. S \in SUBSET Nat
    OBVIOUS
  <2> HIDE DEF S
  <2> QED BY <1>1, <1>2, <2>1, NatSetInduction
<1> QED BY <1>3

LEMMA TextsAgree ==
  ASSUME NEW a \in Nat, NEW b \in Nat, NEW g, NEW h, IsText(g, a), IsText(h, b),
         NEW n \in Nat, n <= a, n <= b
  PROVE  g[n] = h[n]
<1> DEFINE T == {x \in Nat : x <= a /\ x <= b /\ g[x] # h[x]}
<1> SUFFICES ASSUME T # {} PROVE FALSE
  OBVIOUS
<1>1. PICK x \in T : \A y \in T : x <= y
  <2>1. T \in SUBSET Nat
    OBVIOUS
  <2> HIDE DEF T
  <2> QED BY <2>1, LeastElement
<1>2. x \in Nat /\ x \in 0 .. a /\ x \in 0 .. b /\ g[x] # h[x]
  BY <1>1
<1>3. g[x] = Text(g, x) /\ h[x] = Text(h, x)
  BY <1>2 DEF IsText
<1>4. PICK y : y = x \div 10
  OBVIOUS
<1>5. x >= 10 => y \in Nat /\ y < x /\ y <= a /\ y <= b
  BY <1>2, <1>4
<1>6. x >= 10 => g[y] = h[y]
  BY <1>1, <1>2, <1>5
<1>7. Text(g, x) = Text(h, x)
  BY <1>2, <1>4, <1>6 DEF Text
<1> QED BY <1>2, <1>3, <1>7

LEMMA DecimalIs ==
  ASSUME NEW n \in Nat
  PROVE  Decimal[n] \in Bytes
<1> DEFINE F(g) == g = [m \in Nat |-> Text(g, m)]
           d == [m \in Nat |-> (CHOOSE g : IsText(g, m))[m]]
<1>1. ASSUME NEW m \in Nat, NEW g, IsText(g, m), NEW x \in 0 .. m PROVE d[x] = g[x]
  <2>1. IsText(CHOOSE h : IsText(h, x), x)
    BY TextsExist
  <2> QED BY <1>1, <2>1, TextsAgree
<1>2. ASSUME NEW m \in Nat PROVE d[m] = Text(d, m) /\ d[m] \in Bytes
  <2>1. PICK g : IsText(g, m)
    BY TextsExist
  <2>2. \A x \in 0 .. m : d[x] = g[x]
    BY <1>1, <2>1
  <2>3. g[m] = Text(g, m) /\ g[m] \in Bytes /\ m \in 0 .. m
    BY <2>1 DEF IsText
  <2>4. m >= 10 => m \div 10 \in 0 .. m
    OBVIOUS
  <2> HIDE DEF d
  <2>5. Text(d, m) = Text(g, m)
    BY <2>2, <2>4 DEF Text
  <2> QED BY <2>2, <2>3, <2>5
<1>3. F(d)
  <2>1. d = [m \in Nat |-> d[m]]
    OBVIOUS
  <2> HIDE DEF d
  <2> QED BY <1>2, <2>1
<1> HIDE DEF d
<1>4. Decimal = CHOOSE g : F(g)
  BY DEF Decimal, Zero, Text
<1>5. F(Decimal)
  <2>1. F(CHOOSE g : F(g))
    <3> HIDE DEF F
    <3> QED BY <1>3
  <2> HIDE DEF F
  <2> QED BY <1>4, <2>1
<1>6. PICK e : e = Decimal
  OBVIOUS
<1>7. \A m \in Nat : e[m] = Text(e, m)
  BY <1>5, <1>6
<1> DEFINE T == {m \in Nat : e[m] \notin Bytes}
<1>8. T = {}
  <2> SUFFICES ASSUME T # {} PROVE FALSE
    OBVIOUS
  <2>1. PICK x \in T : \A y \in T : x <= y
    <3>1. T \in SUBSET Nat
      OBVIOUS
    <3> HIDE DEF T
    <3> QED BY <3>1, LeastElement
  <2>2. x >= 10 => x \div 10 \in Nat /\ x \div 10 < x
    OBVIOUS
  <2>3. x >= 10 => e[x \div 10] \in Bytes
    BY <2>1, <2>2
  <2>4. Text(e, x) \in Bytes
    BY <2>3, TextType
  <2> QED BY <1>7, <2>4
<1> QED BY <1>6, <1>8

LEMMA FmtType ==
  ASSUME NEW n \in Int
  PROVE  fmt(n) \in Bytes /\ Len(fmt(n)) \in Nat
<1>1. CASE n < 0
  <2>1. -n \in Nat /\ <<Minus>> \in Bytes
    BY <1>1 DEF Minus, Bytes
  <2>2. Decimal[-n] \in Bytes
    BY <2>1, DecimalIs
  <2>3. <<Minus>> \o Decimal[-n] \in Bytes
    BY <2>1, <2>2, JoinIs
  <2> QED BY <1>1, <2>3 DEF fmt, Bytes
<1>2. CASE ~(n < 0)
  BY <1>2, DecimalIs DEF fmt, Bytes
<1> QED BY <1>1, <1>2

-----------------------------------------------------------------------------
(* Records, and the paths to the callbacks.                                *)

(* A value has room, and an expiry its slot.                               *)
Sound(r) == r \in Records /\ Len(r.val) <= r.cap /\ (r.exp # 0 => r.slot)

Ops ==
  {"Set", "SetNx", "SetXx", "SetKeepTtl", "SetGet", "SetGetKeep", "IncrBy", "Append", "SetRange",
   "GetDel", "GetEx", "Expire", "Persist"}
Inputs == [op : Ops, v : Bytes, d : Int, e : Int, now : Int]
Outs == [bytes : Bytes, has : BOOLEAN, int : Int]

Gone(r, t) == r = Nil \/ expired(r, t)

(* Value v with expiry e.                                                  *)
Holds(r, v, e) == Sound(r) /\ r.val = v /\ r.exp = e

LEMMA NewIs ==
  ASSUME NEW v \in Bytes, NEW cap \in Nat, NEW e \in Int, NEW slot \in BOOLEAN, Len(v) <= cap
  PROVE  Holds(NewRecord(cap, slot, v, e), v, IF slot THEN e ELSE 0)
BY DEF NewRecord, Holds, Sound, Records

LEMMA InputFacts ==
  ASSUME NEW i \in Inputs
  PROVE  i.v \in Bytes /\ Len(i.v) \in Nat /\ i.d \in Int /\ i.e \in Int /\ i.now \in Int
BY DEF Inputs, Bytes

LEMMA RecordFacts ==
  ASSUME StringConstants, NEW r, Sound(r)
  PROVE  /\ r # Nil /\ r \in Records /\ r.val \in Bytes /\ Len(r.val) \in Nat /\ r.cap \in Nat
         /\ r.slot \in BOOLEAN /\ r.mutable \in BOOLEAN /\ r.exp \in Int
         /\ Len(r.val) <= r.cap /\ (r.exp # 0 => r.slot)
         /\ \A t : expired(r, t) <=> r.exp # 0 /\ r.exp <= t
BY DEF StringConstants, Sound, Records, Bytes, expired

(* A value written over the old one, an expiry over the old one.           *)
LEMMA RewriteIs ==
  ASSUME StringConstants, NEW r, Sound(r), NEW v \in Bytes, NEW e \in Int
  PROVE  /\ Len(v) <= r.cap => Holds([r EXCEPT !.val = v], v, r.exp)
         /\ (e # 0 => r.slot) => Holds([r EXCEPT !.exp = e], r.val, e) /\ [r EXCEPT !.exp = e].cap = r.cap
BY DEF Holds, Sound, Records

LEMMA OutBytes ==
  ASSUME NEW o \in Outs, NEW b
  PROVE  /\ set_bytes(o, b).bytes = b /\ set_bytes(o, b).has = TRUE
         /\ b \in Bytes => set_bytes(o, b) \in Outs
BY DEF Outs, set_bytes

LEMMA OutInt ==
  ASSUME NEW o \in Outs, NEW n
  PROVE  /\ set_int(o, n).int = n
         /\ n \in Int => set_int(o, n) \in Outs
BY DEF Outs, set_int

(* An absent record, or an expired one where it may be written.            *)
LEMMA RmwAbsent ==
  ASSUME NEW i, NEW r, NEW o, r = Nil \/ (r.mutable /\ expired(r, i.now))
  PROVE  rmw(i, r, o) = rmw_initial(i, o)
<1>1. CASE r = Nil
  BY <1>1 DEF rmw
<1>2. CASE r # Nil
  <2>1. in_place_updater(i, r, o) = InPlace("Expired", r, o)
    BY <1>2 DEF in_place_updater
  <2> QED BY <1>2, <2>1 DEF rmw, rmw_update, InPlace
<1> QED BY <1>1, <1>2

(* A record that may not be written.                                       *)
LEMMA RmwCopies ==
  ASSUME NEW i, NEW r, NEW o, r # Nil, ~r.mutable
  PROVE  rmw(i, r, o) = rmw_copy(i, r, o)
BY DEF rmw, rmw_update, InPlace

(* One that may.                                                           *)
LEMMA RmwInPlace ==
  ASSUME NEW i, NEW r, NEW o, r # Nil, r.mutable
  PROVE  rmw(i, r, o) = rmw_update(in_place_updater(i, r, o), i, r)
BY DEF rmw

(* The value of a record that is created.                                  *)
Fresh(i) ==
  CASE i.op = "IncrBy" -> fmt(i.d)
    [] i.op = "SetRange" -> Overlay(<<>>, i.d, i.v)
    [] OTHER -> i.v

LEMMA Created ==
  ASSUME StringConstants, NEW i \in Inputs, NEW o, need_initial_update(i),
         i.op = "SetRange" => i.d >= 0
  PROVE  /\ rmw_initial(i, o).st = "Created"
         /\ Holds(rmw_initial(i, o).rec, Fresh(i), i.e)
         /\ rmw_initial(i, o).out = initial_updater(i, o).out
<1>0. PICK x, v, z : x = rmw_initial(i, o) /\ v = Fresh(i) /\ z = initial_size(i)
  OBVIOUS
<1>1. /\ x.st = "Created" /\ x.rec = initial_updater(i, o).rec
      /\ x.out = initial_updater(i, o).out
  BY <1>0 DEF rmw_initial, Written, Done
<1>2. initial_updater(i, o).rec = NewRecord(z, i.e # 0, v, i.e)
  BY <1>0 DEF initial_updater, Fresh
<1>3. v \in Bytes /\ z \in Nat /\ Len(v) <= z
  <2>0. i.v \in Bytes /\ Len(i.v) \in Nat /\ i.d \in Int /\ i.e \in Int
    BY InputFacts
  <2>1. CASE i.op = "IncrBy"
    BY <1>0, <2>0, <2>1, FmtType DEF initial_size, i64_digit_len, Fresh
  <2>2. CASE i.op = "SetRange"
    <3>1. <<>> \in Bytes /\ Len(<<>>) = 0 /\ i.d \in Nat
      BY <2>0, <2>2 DEF Bytes
    <3>2. Overlay(<<>>, i.d, i.v) \in Bytes /\ Len(Overlay(<<>>, i.d, i.v)) = i.d + Len(i.v)
      BY <2>0, <3>1, OverlayIs
    <3> QED BY <1>0, <2>0, <2>2, <3>1, <3>2 DEF initial_size, Fresh
  <2>3. CASE i.op \notin {"IncrBy", "SetRange"}
    BY <1>0, <2>0, <2>3 DEF initial_size, Fresh
  <2> QED BY <2>1, <2>2, <2>3
<1>4. i.e \in Int /\ (i.e # 0) \in BOOLEAN /\ (IF i.e # 0 THEN i.e ELSE 0) = i.e
  BY InputFacts
<1>5. Holds(NewRecord(z, i.e # 0, v, i.e), v, IF i.e # 0 THEN i.e ELSE 0)
  BY <1>3, <1>4, NewIs
<1> QED BY <1>0, <1>1, <1>2, <1>4, <1>5

(* The value, the expiry and the integer of a record that is copied.       *)
Fetched(i, r) == Wrap(OldInteger(i, r) + i.d)
Copied(i, r) ==
  CASE i.op = "IncrBy" -> fmt(Fetched(i, r))
    [] i.op = "Append" -> OldValue(i, r) \o i.v
    [] i.op = "SetRange" -> Overlay(OldValue(i, r), i.d, i.v)
    [] i.op \in {"GetEx", "Expire", "Persist"} -> OldValue(i, r)
    [] OTHER -> i.v
CopiedExpiry(i, r) ==
  IF i.op = "Persist" THEN 0
  ELSE IF i.op \in {"Expire", "GetEx"} \/ i.e # 0 THEN i.e
  ELSE IF expired(r, i.now) THEN 0 ELSE r.exp

LEMMA FetchedType ==
  ASSUME StringConstants, NEW i \in Inputs, NEW r
  PROVE  OldInteger(i, r) \in Int /\ Fetched(i, r) \in Int
<1>1. OldInteger(i, r) \in Int
  BY ParseType DEF StringConstants, OldInteger, I64
<1>2. PICK n, m : n = OldInteger(i, r) + i.d + I64Max + 1 /\ m = 2 * (I64Max + 1)
  OBVIOUS
<1>3. n \in Int /\ m \in Nat /\ m > 0 /\ I64Max \in Nat
  BY <1>1, <1>2, InputFacts DEF StringConstants
<1>4. n % m \in Int
  BY <1>3
<1>5. Fetched(i, r) = (n % m) - (I64Max + 1)
  BY <1>2 DEF Fetched, Wrap
<1> QED BY <1>1, <1>3, <1>4, <1>5

LEMMA CopiedIs ==
  ASSUME StringConstants, NEW i \in Inputs, NEW r, Sound(r), NEW o, i.op = "SetRange" => i.d >= 0
  PROVE  Holds(copy_updater(i, r, o).rec, Copied(i, r), CopiedExpiry(i, r))
<1>0. PICK v, z, s, e : /\ v = Copied(i, r) /\ z = copy_size(i, r).cap
                        /\ s = copy_size(i, r).slot
                        /\ e = IF i.op \in {"Expire", "GetEx"} \/ i.e # 0 THEN i.e
                               ELSE IF r.slot /\ ~expired(r, i.now) THEN r.exp ELSE 0
  OBVIOUS
<1>1. copy_updater(i, r, o).rec = NewRecord(z, s, v, e)
  BY <1>0 DEF copy_updater, Copied, Fetched
<1>2. PICK old : old = OldValue(i, r)
  OBVIOUS
<1>3. /\ i.v \in Bytes /\ Len(i.v) \in Nat /\ i.d \in Int /\ i.e \in Int
      /\ old \in Bytes /\ Len(old) \in Nat
  <2>1. old \in Bytes
    BY <1>2, RecordFacts DEF OldValue, Bytes
  <2> QED BY <2>1, InputFacts DEF Bytes
<1>4. v \in Bytes /\ z \in Nat /\ Len(v) <= z
  <2>1. CASE i.op = "IncrBy"
    <3>1. z = Len(v) /\ v = fmt(Fetched(i, r))
      BY <1>0, <2>1 DEF copy_size, i64_digit_len, Copied, Fetched
    <3> QED BY <3>1, FetchedType, FmtType
  <2>2. CASE i.op = "SetRange"
    <3>1. i.d \in Nat
      BY <1>3, <2>2
    <3>2. PICK w : w = Overlay(old, i.d, i.v)
      OBVIOUS
    <3>3. w \in Bytes /\ Len(w) = IF i.d + Len(i.v) >= Len(old) THEN i.d + Len(i.v) ELSE Len(old)
      BY <1>3, <3>1, <3>2, OverlayIs
    <3>4. Max({i.d + Len(i.v), Len(old)})
            = IF i.d + Len(i.v) >= Len(old) THEN i.d + Len(i.v) ELSE Len(old)
      <4>1. i.d + Len(i.v) \in Int /\ Len(old) \in Int
        BY <1>3
      <4> QED BY <4>1, MaxTwo
    <3>5. z = Max({i.d + Len(i.v), Len(old)}) /\ v = w
      BY <1>0, <1>2, <2>2, <3>2 DEF copy_size, Copied
    <3> QED BY <1>3, <3>1, <3>3, <3>4, <3>5
  <2>3. CASE i.op = "Append"
    <3>1. PICK w : w = old \o i.v
      OBVIOUS
    <3>2. w \in Bytes /\ Len(w) = Len(old) + Len(i.v)
      BY <1>3, <3>1, JoinIs
    <3>3. z = Len(old) + Len(i.v) /\ v = w
      BY <1>0, <1>2, <2>3, <3>1 DEF copy_size, Copied
    <3> QED BY <1>3, <3>2, <3>3
  <2>4. CASE i.op \in {"GetEx", "Expire", "Persist"}
    BY <1>0, <1>2, <1>3, <2>4 DEF copy_size, Copied
  <2>5. CASE i.op \notin {"IncrBy", "SetRange", "Append", "GetEx", "Expire", "Persist"}
    BY <1>0, <1>2, <1>3, <2>5 DEF copy_size, Copied
  <2> QED BY <2>1, <2>2, <2>3, <2>4, <2>5
<1>5. s = (i.op # "Persist" /\ (i.e # 0 \/ (r.slot /\ r.exp # 0)))
  BY <1>0 DEF copy_size
<1>6. s \in BOOLEAN
  BY <1>5
<1>7. e \in Int
  BY <1>0, <1>3, RecordFacts
<1>8. (IF s THEN e ELSE 0) = CopiedExpiry(i, r)
  BY <1>0, <1>3, <1>5, RecordFacts DEF CopiedExpiry
<1>9. Holds(NewRecord(z, s, v, e), v, IF s THEN e ELSE 0)
  BY <1>4, <1>6, <1>7, NewIs
<1> QED BY <1>0, <1>1, <1>8, <1>9

-----------------------------------------------------------------------------
(* What an operation does to a record, in every region.                    *)

LEMMA CopyIs ==
  ASSUME StringConstants, NEW i \in Inputs, NEW r, Sound(r), NEW o, i.op = "SetRange" => i.d >= 0,
         NEW x, x = rmw_copy(i, r, o)
  PROVE  /\ need_copy_update(i, r) = "Copy" =>
              /\ x.st = "CopyUpdated"
              /\ Holds(x.rec, Copied(i, r), CopiedExpiry(i, r))
              /\ x.out = copy_updater(i, r, IF i.op = "Expire" THEN set_int(o, 1) ELSE o).out
         /\ need_copy_update(i, r) = "Cancel" => x.st = "Canceled" /\ x.rec = r /\ x.out = o
         /\ need_copy_update(i, r) = "Delete" =>
              x.st = "Deleted" /\ x.rec = Nil /\ x.out = set_bytes(o, r.val)
<1>1. CASE need_copy_update(i, r) = "Copy"
  <2>1. PICK z : z = IF i.op = "Expire" THEN set_int(o, 1) ELSE o
    OBVIOUS
  <2>2. x = Written("CopyUpdated", copy_updater(i, r, z))
    BY <1>1, <2>1 DEF rmw_copy, CopyBy
  <2>3. Holds(copy_updater(i, r, z).rec, Copied(i, r), CopiedExpiry(i, r))
    BY CopiedIs
  <2> QED BY <1>1, <2>1, <2>2, <2>3 DEF Written, Done
<1>2. CASE need_copy_update(i, r) # "Copy"
  BY <1>2 DEF rmw_copy, CopyBy, Done
<1> QED BY <1>1, <1>2

(* The output of a copy.                                                   *)
LEMMA CopyOut ==
  ASSUME NEW i, NEW r, NEW o
  PROVE  copy_updater(i, r, o).out =
           CASE i.op = "IncrBy" -> set_int(o, Fetched(i, r))
             [] i.op \in {"Append", "SetRange"} -> set_int(o, Len(Copied(i, r)))
             [] i.op \in {"SetGet", "SetGetKeep", "GetEx"} -> set_bytes(o, OldValue(i, r))
             [] i.op = "Persist" -> set_int(o, 1)
             [] OTHER -> o
<1>1. CASE i.op = "IncrBy"
  BY <1>1 DEF copy_updater, Fetched
<1>2. CASE i.op = "Append"
  BY <1>2 DEF copy_updater, Copied
<1>3. CASE i.op = "SetRange"
  BY <1>3 DEF copy_updater, Copied
<1>4. CASE i.op \notin {"IncrBy", "Append", "SetRange"}
  BY <1>4 DEF copy_updater
<1> QED BY <1>1, <1>2, <1>3, <1>4

(* The value in place or in a copy.                                        *)
LEMMA FitIs ==
  ASSUME StringConstants, NEW i, NEW r, Sound(r), NEW q, Sound(q), NEW v \in Bytes, NEW o
  PROVE  /\ Len(v) > r.cap => rmw_update(Fit(r, v, o), i, q) = rmw_copy(i, q, o)
         /\ Len(v) <= r.cap =>
              /\ rmw_update(Fit(r, v, o), i, q).st = "InPlaceUpdated"
              /\ Holds(rmw_update(Fit(r, v, o), i, q).rec, v, r.exp)
              /\ rmw_update(Fit(r, v, o), i, q).out = o
<1>0. Len(v) \in Nat /\ r.cap \in Nat
  BY RecordFacts DEF Bytes
<1>1. CASE Len(v) > r.cap
  <2>1. Fit(r, v, o) = InPlace("NeedCopy", r, o)
    BY <1>1 DEF Fit
  <2> QED BY <1>0, <1>1, <2>1 DEF InPlace, rmw_update
<1>2. CASE Len(v) <= r.cap
  <2>0. PICK z : z = [r EXCEPT !.val = v]
    OBVIOUS
  <2>1. Fit(r, v, o) = InPlace("Updated", z, o)
    BY <1>0, <1>2, <2>0 DEF Fit
  <2>2. Holds(z, v, r.exp)
    <3>1. 0 \in Int
      OBVIOUS
    <3> QED BY <1>2, <2>0, <3>1, RewriteIs
  <2> QED BY <1>0, <1>2, <2>1, <2>2 DEF InPlace, rmw_update, Written, Done
<1> QED BY <1>0, <1>1, <1>2

Old(r, t) == IF Gone(r, t) THEN <<>> ELSE r.val
Ttl(r, t) == IF Gone(r, t) THEN 0 ELSE r.exp

(* APPEND and SETRANGE.                                                    *)
Longer(i, s) == IF i.op = "Append" THEN s \o i.v ELSE Overlay(s, i.d, i.v)

LEMMA LongerOp ==
  ASSUME StringConstants, NEW i \in Inputs, i.op \in {"Append", "SetRange"}, i.d >= 0, i.e = 0,
         NEW r, r = Nil \/ Sound(r), NEW o \in Outs,
         NEW x, x = rmw(i, r, o)
  PROVE  /\ x.st \in is_updated
         /\ Holds(x.rec, Longer(i, Old(r, i.now)), Ttl(r, i.now))
         /\ x.out.int = Len(Longer(i, Old(r, i.now)))
<1>1. CASE r = Nil \/ (expired(r, i.now) /\ r.mutable)
  <2>1. x = rmw_initial(i, o)
    BY <1>1, RmwAbsent
  <2>2. need_initial_update(i)
    BY DEF need_initial_update
  <2>3. /\ x.st = "Created" /\ Holds(x.rec, Fresh(i), 0)
        /\ x.out = initial_updater(i, o).out
    BY <2>1, <2>2, Created
  <2>4. Old(r, i.now) = <<>> /\ Ttl(r, i.now) = 0
    BY <1>1 DEF Old, Ttl, Gone
  <2>5. Fresh(i) = Longer(i, <<>>)
    <3>1. i.v \in Bytes /\ <<>> \o i.v = i.v
      BY InputFacts, JoinIs
    <3> QED BY <3>1 DEF Fresh, Longer
  <2>6. initial_updater(i, o).out = set_int(o, Len(Fresh(i)))
    BY DEF initial_updater, Fresh
  <2>7. x.out.int = Len(Fresh(i))
    BY <2>3, <2>6, OutInt
  <2> QED BY <2>3, <2>4, <2>5, <2>7 DEF is_updated
<1>2. CASE r # Nil /\ ~(expired(r, i.now) /\ r.mutable)
  <2>0. Sound(r) /\ r.mutable \in BOOLEAN
    BY <1>2, RecordFacts
  <2>1. Old(r, i.now) = OldValue(i, r)
    BY <1>2 DEF Old, Gone, OldValue
  <2>2. Copied(i, r) = Longer(i, Old(r, i.now)) /\ CopiedExpiry(i, r) = Ttl(r, i.now)
    BY <1>2, <2>1 DEF Copied, CopiedExpiry, Longer, Ttl, Gone
  <2>3. need_copy_update(i, r) = "Copy"
    BY DEF need_copy_update
  <2>4. ASSUME NEW p \in Outs, x = rmw_copy(i, r, p)
        PROVE  /\ x.st \in is_updated
               /\ Holds(x.rec, Longer(i, Old(r, i.now)), Ttl(r, i.now))
               /\ x.out.int = Len(Longer(i, Old(r, i.now)))
    <3>1. /\ x.st = "CopyUpdated" /\ Holds(x.rec, Copied(i, r), CopiedExpiry(i, r))
          /\ x.out = copy_updater(i, r, p).out
      BY <2>0, <2>3, <2>4, CopyIs
    <3>2. x.out = set_int(p, Len(Copied(i, r)))
      BY <3>1, CopyOut
    <3>3. x.out.int = Len(Copied(i, r))
      BY <3>2, OutInt
    <3> QED BY <2>2, <3>1, <3>3 DEF is_updated
  <2>5. CASE ~r.mutable
    BY <1>2, <2>4, <2>5, RmwCopies
  <2>6. CASE r.mutable
    <3>0. ~expired(r, i.now) /\ Old(r, i.now) = r.val /\ Ttl(r, i.now) = r.exp
      BY <1>2, <2>6 DEF Old, Ttl, Gone
    <3>1. PICK v, p : v = Longer(i, r.val) /\ p = set_int(o, Len(v))
      OBVIOUS
    <3>2. v \in Bytes /\ Len(v) \in Nat /\ r.cap \in Nat
      <4>1. r.val \in Bytes /\ i.v \in Bytes /\ i.d \in Nat /\ r.cap \in Nat
        BY <2>0, RecordFacts, InputFacts
      <4>2. r.val \o i.v \in Bytes /\ Overlay(r.val, i.d, i.v) \in Bytes
        BY <4>1, JoinIs, OverlayIs
      <4>3. v \in Bytes
        BY <3>1, <4>2 DEF Longer
      <4> QED BY <4>1, <4>3 DEF Bytes
    <3>3. in_place_updater(i, r, o) = Fit(r, v, p)
      BY <3>0, <3>1 DEF in_place_updater, Longer
    <3>4. x = rmw_update(Fit(r, v, p), i, r)
      BY <1>2, <2>6, <3>3, RmwInPlace
    <3>5. p \in Outs /\ p.int = Len(v)
      BY <3>1, <3>2, OutInt
    <3>6. CASE Len(v) > r.cap
      BY <2>0, <2>4, <3>2, <3>4, <3>5, <3>6, FitIs
    <3>7. CASE Len(v) <= r.cap
      <4>1. x.st = "InPlaceUpdated" /\ Holds(x.rec, v, r.exp) /\ x.out = p
        BY <2>0, <3>2, <3>4, <3>7, FitIs
      <4> QED BY <3>0, <3>1, <3>5, <4>1 DEF is_updated
    <3> QED BY <3>2, <3>6, <3>7
  <2> QED BY <2>0, <2>5, <2>6
<1> QED BY <1>1, <1>2, RecordFacts

(* INCRBY: the old integer, Nil when the value is not one.                 *)
OldInt(r, t) == IF Gone(r, t) THEN 0 ELSE parse_i64(r.val)

LEMMA IncrOp ==
  ASSUME StringConstants, NEW i \in Inputs, i.op = "IncrBy", i.d \in I64, i.e = 0,
         NEW r, r = Nil \/ Sound(r), NEW o \in Outs,
         NEW x, x = rmw(i, r, o), NEW n, n = OldInt(r, i.now)
  PROVE  IF n = Nil \/ n + i.d \notin I64
         THEN x.st \notin is_updated /\ x.rec = r /\ ~Gone(r, i.now)
         ELSE /\ x.st \in is_updated
              /\ Holds(x.rec, fmt(n + i.d), Ttl(r, i.now))
              /\ x.out.int = n + i.d
<1>0. Nil \notin Int /\ I64Max \in Nat /\ i.d \in Int /\ 0 + i.d = i.d
  BY InputFacts DEF StringConstants
<1>1. CASE r = Nil \/ (expired(r, i.now) /\ r.mutable)
  <2>1. x = rmw_initial(i, o)
    BY <1>1, RmwAbsent
  <2>2. need_initial_update(i)
    BY DEF need_initial_update
  <2>3. /\ x.st = "Created" /\ Holds(x.rec, Fresh(i), 0)
        /\ x.out = initial_updater(i, o).out
    BY <2>1, <2>2, Created
  <2>4. n = 0 /\ Ttl(r, i.now) = 0
    BY <1>1 DEF OldInt, Ttl, Gone
  <2>5. Fresh(i) = fmt(i.d)
    BY DEF Fresh
  <2>6. initial_updater(i, o).out = set_int(o, i.d)
    BY DEF initial_updater
  <2>7. x.out.int = i.d
    BY <2>3, <2>6, OutInt
  <2>8. n # Nil /\ n + i.d = i.d
    BY <1>0, <2>4
  <2> QED BY <2>3, <2>4, <2>5, <2>7, <2>8 DEF is_updated
<1>2. CASE r # Nil /\ ~(expired(r, i.now) /\ r.mutable)
  <2>0. Sound(r) /\ r.mutable \in BOOLEAN
    BY <1>2, RecordFacts
  <2>1. n \in I64 \cup {Nil}
    BY <1>0, ParseType DEF OldInt, I64
  <2>2. n \in I64 => n \in Int /\ n # Nil /\ n + i.d \in Int
    BY <1>0 DEF I64
  <2>3. expired(r, i.now) => n = 0 /\ n # Nil /\ n + i.d = i.d
    BY <1>0, <1>2 DEF OldInt, Gone
  <2>4. ~expired(r, i.now) => n = parse_i64(r.val)
    BY <1>2 DEF OldInt, Gone
  <2>5. CASE n = Nil \/ n + i.d \notin I64
    <3>0. ~expired(r, i.now) /\ n = parse_i64(r.val) /\ ~Gone(r, i.now)
      BY <1>2, <2>3, <2>4, <2>5 DEF Gone
    <3>1. CASE r.mutable
      <4>1. in_place_updater(i, r, o)
              = InPlace("Cancel", r, set_int(o, -I64Max - 1))
        BY <2>5, <3>0 DEF in_place_updater
      <4>2. x = rmw_update(InPlace("Cancel", r, set_int(o, -I64Max - 1)), i, r)
        BY <1>2, <3>1, <4>1, RmwInPlace
      <4>3. x.st = "Found" /\ x.rec = r
        BY <4>2 DEF rmw_update, InPlace, Done
      <4> QED BY <2>5, <3>0, <4>3 DEF is_updated
    <3>2. CASE ~r.mutable
      <4>1. need_copy_update(i, r) = "Cancel"
        BY <2>5, <3>0 DEF need_copy_update
      <4>2. x = rmw_copy(i, r, o)
        BY <1>2, <3>2, RmwCopies
      <4>3. x.st = "Canceled" /\ x.rec = r
        BY <2>0, <4>1, <4>2, CopyIs
      <4> QED BY <2>5, <3>0, <4>3 DEF is_updated
    <3> QED BY <2>0, <3>1, <3>2
  <2>6. CASE ~(n = Nil \/ n + i.d \notin I64)
    <3>0. n \in Int /\ n + i.d \in Int /\ Wrap(n + i.d) = n + i.d
      BY <1>0, <2>1, <2>2, <2>6, WrapIs
    <3>1. PICK m : m = n + i.d
      OBVIOUS
    <3>2. OldInteger(i, r) = n
      BY <2>3, <2>4, <2>6 DEF OldInteger
    <3>3. Fetched(i, r) = m
      BY <3>0, <3>1, <3>2 DEF Fetched
    <3>4. need_copy_update(i, r) = "Copy"
      BY <2>4, <2>6 DEF need_copy_update
    <3>5. Copied(i, r) = fmt(m) /\ CopiedExpiry(i, r) = Ttl(r, i.now)
      BY <1>2, <3>3 DEF Copied, CopiedExpiry, Ttl, Gone
    <3>6. ASSUME NEW p \in Outs, x = rmw_copy(i, r, p)
          PROVE  /\ x.st \in is_updated
                 /\ Holds(x.rec, fmt(m), Ttl(r, i.now))
                 /\ x.out.int = m
      <4>1. /\ x.st = "CopyUpdated" /\ Holds(x.rec, Copied(i, r), CopiedExpiry(i, r))
            /\ x.out = copy_updater(i, r, p).out
        BY <2>0, <3>4, <3>6, CopyIs
      <4>2. x.out = set_int(p, m)
        BY <3>3, <4>1, CopyOut
      <4>3. x.out.int = m
        BY <4>2, OutInt
      <4> QED BY <3>5, <4>1, <4>3 DEF is_updated
    <3>7. CASE ~r.mutable
      BY <1>2, <2>6, <3>1, <3>6, <3>7, RmwCopies
    <3>8. CASE r.mutable
      <4>0. ~expired(r, i.now) /\ n = parse_i64(r.val) /\ Ttl(r, i.now) = r.exp
        BY <1>2, <2>4, <3>8 DEF Ttl, Gone
      <4>1. PICK v, p : v = fmt(m) /\ p = set_int(o, m)
        OBVIOUS
      <4>2. v \in Bytes /\ Len(v) \in Nat /\ r.cap \in Nat
        BY <2>0, <3>0, <3>1, <4>1, FmtType, RecordFacts
      <4>3. in_place_updater(i, r, o) = Fit(r, v, p)
        BY <2>6, <3>1, <4>0, <4>1 DEF in_place_updater
      <4>4. x = rmw_update(Fit(r, v, p), i, r)
        BY <1>2, <3>8, <4>3, RmwInPlace
      <4>5. p \in Outs /\ p.int = m
        BY <3>0, <3>1, <4>1, OutInt
      <4>6. CASE Len(v) > r.cap
        <5>1. x = rmw_copy(i, r, p)
          BY <2>0, <4>2, <4>4, <4>6, FitIs
        <5> QED BY <2>6, <3>1, <3>6, <4>5, <5>1
      <4>7. CASE Len(v) <= r.cap
        <5>1. x.st = "InPlaceUpdated" /\ Holds(x.rec, v, r.exp) /\ x.out = p
          BY <2>0, <4>2, <4>4, <4>7, FitIs
        <5> QED BY <2>6, <3>1, <4>0, <4>1, <4>5, <5>1 DEF is_updated
      <4> QED BY <4>2, <4>6, <4>7
    <3> QED BY <2>0, <3>7, <3>8
  <2> QED BY <2>5, <2>6
<1> QED BY <1>1, <1>2, RecordFacts

LEMMA TtlIs ==
  ASSUME StringConstants, NEW i \in Inputs, NEW r, Sound(r), NEW s, s = apply_ttl_in_place(r, i)
  PROVE  /\ i.op \in {"SetKeepTtl", "SetGetKeep"} => s = r
         /\ i.op \notin {"SetKeepTtl", "SetGetKeep"} =>
              IF ~r.slot /\ i.e # 0 THEN s = Nil
              ELSE Holds(s, r.val, i.e) /\ s.cap = r.cap /\ s # Nil
<1>1. CASE i.op \in {"SetKeepTtl", "SetGetKeep"}
  BY <1>1 DEF apply_ttl_in_place
<1>2. CASE i.op \notin {"SetKeepTtl", "SetGetKeep"} /\ r.slot
  <2>1. s = [r EXCEPT !.exp = i.e]
    BY <1>2 DEF apply_ttl_in_place
  <2>2. Holds(s, r.val, i.e) /\ s.cap = r.cap
    <3>1. r.val \in Bytes /\ i.e \in Int
      BY RecordFacts, InputFacts
    <3> QED BY <1>2, <2>1, <3>1, RewriteIs
  <2>3. s # Nil
    BY <2>2, RecordFacts DEF Holds
  <2> QED BY <1>2, <2>2, <2>3
<1>3. CASE i.op \notin {"SetKeepTtl", "SetGetKeep"} /\ ~r.slot
  BY <1>3, RecordFacts DEF apply_ttl_in_place, Holds
<1> QED BY <1>1, <1>2, <1>3, RecordFacts

(* The forms of SET that look at the record and overwrite it.              *)
Keeps(i) == i.op \in {"SetKeepTtl", "SetGetKeep"}
Gets(i) == i.op \in {"SetGet", "SetGetKeep"}
Overwrites(i) == i.op \in {"SetXx", "SetKeepTtl", "SetGet", "SetGetKeep"}
InCopy(i, r) == ~r.mutable \/ Len(i.v) > r.cap \/ (~Keeps(i) /\ ~r.slot /\ i.e # 0)

LEMMA OverwriteOp ==
  ASSUME StringConstants, NEW i \in Inputs, Overwrites(i),
         NEW r, Sound(r), ~expired(r, i.now), NEW o \in Outs,
         NEW x, x = rmw(i, r, o)
  PROVE  /\ x.st \in is_updated
         /\ Holds(x.rec, i.v, IF InCopy(i, r) THEN IF i.e # 0 THEN i.e ELSE r.exp
                              ELSE IF Keeps(i) THEN r.exp ELSE i.e)
         /\ Gets(i) => x.out.bytes = r.val /\ x.out.has = TRUE
<1>0. r # Nil /\ r.mutable \in BOOLEAN /\ r.slot \in BOOLEAN /\ r.cap \in Nat
      /\ i.v \in Bytes /\ Len(i.v) \in Nat /\ r.val \in Bytes
  BY RecordFacts, InputFacts
<1>1. ASSUME x = rmw_copy(i, r, o)
      PROVE  /\ x.st \in is_updated
             /\ Holds(x.rec, i.v, IF i.e # 0 THEN i.e ELSE r.exp)
             /\ Gets(i) => x.out.bytes = r.val /\ x.out.has = TRUE
  <2>1. need_copy_update(i, r) = "Copy"
    BY DEF need_copy_update, Overwrites
  <2>2. /\ Copied(i, r) = i.v
        /\ CopiedExpiry(i, r) = IF i.e # 0 THEN i.e ELSE r.exp
    BY DEF Copied, CopiedExpiry, Overwrites
  <2>3. /\ x.st = "CopyUpdated" /\ Holds(x.rec, Copied(i, r), CopiedExpiry(i, r))
        /\ x.out = copy_updater(i, r, o).out
    BY <1>1, <2>1, CopyIs DEF Overwrites
  <2>4. Gets(i) => x.out = set_bytes(o, r.val)
    <3>1. OldValue(i, r) = r.val
      BY DEF OldValue
    <3> QED BY <2>3, <3>1, CopyOut DEF Gets
  <2>5. Gets(i) => x.out.bytes = r.val /\ x.out.has = TRUE
    BY <2>4, OutBytes
  <2> QED BY <2>2, <2>3, <2>5 DEF is_updated
<1>2. CASE ~r.mutable
  BY <1>0, <1>1, <1>2, RmwCopies DEF InCopy
<1>3. CASE r.mutable
  <2>1. PICK s, p : s = apply_ttl_in_place(r, i)
                    /\ p = IF Gets(i) THEN set_bytes(o, r.val) ELSE o
    OBVIOUS
  <2>2. in_place_updater(i, r, o) =
          IF Len(i.v) > r.cap \/ s = Nil THEN InPlace("NeedCopy", r, o) ELSE Fit(s, i.v, p)
    BY <2>1 DEF in_place_updater, Overwrites, Gets
  <2>3. x = rmw_update(in_place_updater(i, r, o), i, r)
    BY <1>0, <1>3, RmwInPlace
  <2>4. /\ Keeps(i) => s = r /\ s # Nil
        /\ ~Keeps(i) => IF ~r.slot /\ i.e # 0 THEN s = Nil
                        ELSE Holds(s, r.val, i.e) /\ s.cap = r.cap /\ s # Nil
    BY <1>0, <2>1, TtlIs DEF Keeps
  <2>5. CASE InCopy(i, r)
    <3>1. Len(i.v) > r.cap \/ s = Nil
      BY <1>3, <2>4, <2>5 DEF InCopy
    <3>2. x = rmw_update(InPlace("NeedCopy", r, o), i, r)
      BY <2>2, <2>3, <3>1
    <3>3. x = rmw_copy(i, r, o)
      BY <3>2 DEF rmw_update, InPlace
    <3> QED BY <1>1, <2>5, <3>3
  <2>6. CASE ~InCopy(i, r)
    <3>1. /\ Len(i.v) <= r.cap /\ s # Nil
          /\ Holds(s, r.val, IF Keeps(i) THEN r.exp ELSE i.e) /\ s.cap = r.cap
      BY <1>0, <2>4, <2>6 DEF InCopy, Holds
    <3>2. x = rmw_update(Fit(s, i.v, p), i, r)
      BY <1>0, <2>2, <2>3, <3>1
    <3>3. Sound(s) /\ s.exp = IF Keeps(i) THEN r.exp ELSE i.e
      BY <3>1 DEF Holds
    <3>4. x.st = "InPlaceUpdated" /\ Holds(x.rec, i.v, s.exp) /\ x.out = p
      BY <1>0, <3>1, <3>2, <3>3, FitIs
    <3>5. Gets(i) => x.out.bytes = r.val /\ x.out.has = TRUE
      <4>1. Gets(i) => x.out = set_bytes(o, r.val)
        BY <2>1, <3>4
      <4> QED BY <4>1, OutBytes
    <3> QED BY <2>6, <3>3, <3>4, <3>5 DEF is_updated
  <2> QED BY <2>5, <2>6
<1> QED BY <1>0, <1>2, <1>3

(* Where they find nothing, or what has expired.                           *)
OverGone(i, r, x) ==
  /\ i.op = "SetXx" => x.st \notin is_updated /\ x.rec \in {Nil, r}
  /\ i.op = "SetKeepTtl" => x.st \in is_updated /\ Holds(x.rec, i.v, i.e)
  /\ Gets(i) => IF r = Nil \/ r.mutable
                THEN x.st \in is_updated /\ Holds(x.rec, i.v, i.e) /\ x.out.has = FALSE
                ELSE x.rec = r

LEMMA OverwriteGone ==
  ASSUME StringConstants, NEW i \in Inputs, Overwrites(i),
         NEW r, r = Nil \/ Sound(r), Gone(r, i.now), NEW o \in Outs,
         NEW x, x = rmw(i, r, o)
  PROVE  OverGone(i, r, x)
<1> USE DEF OverGone
<1>1. CASE r = Nil \/ r.mutable
  <2>1. x = rmw_initial(i, o)
    BY <1>1, RmwAbsent DEF Gone
  <2>2. CASE i.op = "SetXx"
    <3>1. ~need_initial_update(i)
      BY <2>2 DEF need_initial_update
    <3>2. x.st = "NotFound" /\ x.rec = Nil
      BY <2>1, <3>1 DEF rmw_initial, Done
    <3> QED BY <2>2, <3>2 DEF is_updated, Gets
  <2>3. CASE i.op # "SetXx"
    <3>1. need_initial_update(i) /\ Fresh(i) = i.v /\ i.op # "SetRange"
      BY <2>3 DEF need_initial_update, Overwrites, Fresh
    <3>2. /\ x.st = "Created" /\ Holds(x.rec, i.v, i.e)
          /\ x.out = initial_updater(i, o).out
      BY <2>1, <3>1, Created
    <3>3. Gets(i) => x.out.has = FALSE
      <4>1. Gets(i) => x.out = [o EXCEPT !.has = FALSE]
        BY <3>2 DEF initial_updater, Gets
      <4> QED BY <4>1 DEF Outs
    <3> QED BY <1>1, <2>3, <3>2, <3>3 DEF is_updated
  <2> QED BY <2>2, <2>3
<1>2. CASE r # Nil /\ ~r.mutable
  <2>1. Sound(r) /\ expired(r, i.now) /\ x = rmw_copy(i, r, o)
    BY <1>2, RmwCopies DEF Gone
  <2>2. CASE i.op = "SetKeepTtl"
    <3>1. need_copy_update(i, r) = "Copy"
      BY <2>1, <2>2 DEF need_copy_update
    <3>2. Copied(i, r) = i.v /\ CopiedExpiry(i, r) = i.e
      BY <2>1, <2>2 DEF Copied, CopiedExpiry
    <3>3. x.st = "CopyUpdated" /\ Holds(x.rec, Copied(i, r), CopiedExpiry(i, r))
      BY <2>1, <2>2, <3>1, CopyIs
    <3> QED BY <2>2, <3>2, <3>3 DEF is_updated, Gets
  <2>3. CASE i.op # "SetKeepTtl"
    <3>1. need_copy_update(i, r) = "Cancel" /\ i.op # "SetRange"
      BY <2>1, <2>3 DEF need_copy_update, Overwrites
    <3>2. x.st = "Canceled" /\ x.rec = r
      BY <2>1, <3>1, CopyIs
    <3> QED BY <1>2, <2>3, <3>2 DEF is_updated
  <2> QED BY <2>2, <2>3
<1> QED BY <1>1, <1>2

(* SET NX and SETNX.                                                       *)
LEMMA SetNxOp ==
  ASSUME StringConstants, NEW i \in Inputs, i.op = "SetNx",
         NEW r, r = Nil \/ Sound(r), NEW o \in Outs,
         NEW x, x = rmw(i, r, o)
  PROVE  /\ Gone(r, i.now) => /\ x.st \in is_updated /\ Holds(x.rec, i.v, i.e)
                              /\ (r = Nil \/ r.mutable) => x.st = "Created"
         /\ ~Gone(r, i.now) => x.st \notin is_updated /\ x.rec = r
<1>1. CASE r = Nil \/ (r.mutable /\ expired(r, i.now))
  <2>1. x = rmw_initial(i, o)
    BY <1>1, RmwAbsent
  <2>2. need_initial_update(i) /\ Fresh(i) = i.v
    BY DEF need_initial_update, Fresh
  <2>3. x.st = "Created" /\ Holds(x.rec, i.v, i.e)
    BY <2>1, <2>2, Created
  <2> QED BY <1>1, <2>3 DEF is_updated, Gone
<1>2. CASE r # Nil /\ ~r.mutable
  <2>1. Sound(r) /\ x = rmw_copy(i, r, o)
    BY <1>2, RmwCopies
  <2>2. CASE expired(r, i.now)
    <3>1. need_copy_update(i, r) = "Copy"
      BY <2>2 DEF need_copy_update
    <3>2. Copied(i, r) = i.v /\ CopiedExpiry(i, r) = i.e
      BY <2>2 DEF Copied, CopiedExpiry
    <3>3. x.st = "CopyUpdated" /\ Holds(x.rec, Copied(i, r), CopiedExpiry(i, r))
      BY <2>1, <3>1, CopyIs
    <3> QED BY <1>2, <2>2, <3>2, <3>3 DEF is_updated, Gone
  <2>3. CASE ~expired(r, i.now)
    <3>1. need_copy_update(i, r) = "Cancel"
      BY <2>3 DEF need_copy_update
    <3>2. x.st = "Canceled" /\ x.rec = r
      BY <2>1, <3>1, CopyIs
    <3> QED BY <1>2, <2>3, <3>2 DEF is_updated, Gone
  <2> QED BY <2>2, <2>3
<1>3. CASE r # Nil /\ r.mutable /\ ~expired(r, i.now)
  <2>1. in_place_updater(i, r, o) = InPlace("Cancel", r, o)
    BY <1>3 DEF in_place_updater
  <2>2. x = rmw_update(InPlace("Cancel", r, o), i, r)
    BY <1>3, <2>1, RmwInPlace
  <2>3. x.st = "Found" /\ x.rec = r
    BY <2>2 DEF rmw_update, InPlace, Done
  <2> QED BY <1>3, <2>3 DEF is_updated, Gone
<1> QED BY <1>1, <1>2, <1>3

(* GETDEL, GETEX, PEXPIRE and PERSIST do not create a record.              *)
LEMMA UpdateGone ==
  ASSUME StringConstants, NEW i \in Inputs, i.op \in {"GetDel", "GetEx", "Expire", "Persist"},
         NEW r, r = Nil \/ Sound(r), Gone(r, i.now), NEW o,
         NEW x, x = rmw(i, r, o)
  PROVE  IF i.op = "GetEx" /\ r # Nil /\ ~r.mutable THEN Sound(x.rec)
         ELSE x.st \notin is_updated /\ x.rec \in {Nil, r}
<1>1. CASE r = Nil \/ r.mutable
  <2>1. x = rmw_initial(i, o)
    BY <1>1, RmwAbsent DEF Gone
  <2>2. ~need_initial_update(i)
    BY DEF need_initial_update
  <2>3. x.st = "NotFound" /\ x.rec = Nil
    BY <2>1, <2>2 DEF rmw_initial, Done
  <2> QED BY <1>1, <2>3 DEF is_updated
<1>2. CASE r # Nil /\ ~r.mutable
  <2>1. Sound(r) /\ expired(r, i.now) /\ x = rmw_copy(i, r, o)
    BY <1>2, RmwCopies DEF Gone
  <2>2. CASE i.op = "GetEx"
    <3>1. need_copy_update(i, r) = "Copy"
      BY <2>1, <2>2 DEF need_copy_update
    <3>2. Holds(x.rec, Copied(i, r), CopiedExpiry(i, r))
      BY <2>1, <2>2, <3>1, CopyIs
    <3> QED BY <1>2, <2>2, <3>2 DEF Holds
  <2>3. CASE i.op # "GetEx"
    <3>1. need_copy_update(i, r) = "Cancel"
      BY <2>1, <2>3 DEF need_copy_update
    <3>2. x.st = "Canceled" /\ x.rec = r
      BY <2>1, <3>1, CopyIs
    <3> QED BY <2>3, <3>2 DEF is_updated
  <2> QED BY <2>2, <2>3
<1> QED BY <1>1, <1>2

LEMMA GetDelOp ==
  ASSUME StringConstants, NEW i \in Inputs, i.op = "GetDel",
         NEW r, Sound(r), ~expired(r, i.now), NEW o \in Outs,
         NEW x, x = rmw(i, r, o)
  PROVE  x.st = "Deleted" /\ x.rec = Nil /\ x.out.bytes = r.val
<1>0. r # Nil /\ r.mutable \in BOOLEAN
  BY RecordFacts
<1>1. x.st = "Deleted" /\ x.rec = Nil /\ x.out = set_bytes(o, r.val)
  <2>1. CASE r.mutable
    <3>1. in_place_updater(i, r, o) = InPlace("Delete", r, set_bytes(o, r.val))
      BY DEF in_place_updater
    <3>2. x = rmw_update(InPlace("Delete", r, set_bytes(o, r.val)), i, r)
      BY <1>0, <2>1, <3>1, RmwInPlace
    <3> QED BY <3>2 DEF rmw_update, InPlace, Done
  <2>2. CASE ~r.mutable
    <3>1. x = rmw_copy(i, r, o)
      BY <1>0, <2>2, RmwCopies
    <3>2. need_copy_update(i, r) = "Delete"
      BY DEF need_copy_update
    <3> QED BY <3>1, <3>2, CopyIs
  <2> QED BY <1>0, <2>1, <2>2
<1> QED BY <1>1, OutBytes

(* GETEX, PEXPIRE and PERSIST: the value stays, under another expiry.      *)
LEMMA StampOp ==
  ASSUME StringConstants, NEW i \in Inputs, i.op \in {"GetEx", "Expire", "Persist"},
         i.op = "Persist" => i.e = 0,
         NEW r, Sound(r), ~expired(r, i.now), NEW o \in Outs,
         NEW x, x = rmw(i, r, o)
  PROVE  IF i.op = "Persist" /\ r.mutable /\ r.exp = 0
         THEN x.st \notin is_updated /\ x.rec = r
         ELSE /\ x.st \in is_updated /\ Holds(x.rec, r.val, i.e)
              /\ i.op = "GetEx" => x.out.bytes = r.val
              /\ i.op = "Persist" => x.out.int = 1
<1>0. r # Nil /\ r.mutable \in BOOLEAN /\ r.slot \in BOOLEAN /\ r.val \in Bytes /\ i.e \in Int
      /\ (r.exp # 0 => r.slot)
  BY RecordFacts, InputFacts
<1>1. ASSUME NEW p \in Outs, x = rmw_copy(i, r, p)
      PROVE  /\ x.st \in is_updated /\ Holds(x.rec, r.val, i.e)
             /\ i.op = "GetEx" => x.out.bytes = r.val
             /\ i.op = "Persist" => x.out.int = 1
  <2>1. need_copy_update(i, r) = "Copy"
    BY DEF need_copy_update
  <2>2. OldValue(i, r) = r.val
    BY DEF OldValue
  <2>3. Copied(i, r) = r.val /\ CopiedExpiry(i, r) = i.e
    BY <2>2 DEF Copied, CopiedExpiry
  <2>4. PICK q : q = IF i.op = "Expire" THEN set_int(p, 1) ELSE p
    OBVIOUS
  <2>5. /\ x.st = "CopyUpdated" /\ Holds(x.rec, Copied(i, r), CopiedExpiry(i, r))
        /\ x.out = copy_updater(i, r, q).out
    BY <1>1, <2>1, <2>4, CopyIs
  <2>6. i.op = "GetEx" => x.out = set_bytes(p, r.val)
    BY <2>2, <2>4, <2>5, CopyOut
  <2>7. i.op = "Persist" => x.out = set_int(p, 1)
    BY <2>4, <2>5, CopyOut
  <2>8. (i.op = "GetEx" => x.out.bytes = r.val) /\ (i.op = "Persist" => x.out.int = 1)
    BY <2>6, <2>7, OutBytes, OutInt
  <2> QED BY <2>3, <2>5, <2>8 DEF is_updated
<1>2. CASE ~r.mutable
  BY <1>0, <1>1, <1>2, RmwCopies
<1>3. CASE r.mutable
  <2>0. x = rmw_update(in_place_updater(i, r, o), i, r)
    BY <1>0, <1>3, RmwInPlace
  <2>1. ASSUME NEW p \in Outs, in_place_updater(i, r, o) = InPlace("NeedCopy", r, p)
        PROVE  x = rmw_copy(i, r, p)
    BY <2>0, <2>1 DEF rmw_update, InPlace
  <2>2. ASSUME NEW p, NEW q, in_place_updater(i, r, o) = InPlace("Updated", q, p)
        PROVE  x.st \in is_updated /\ x.rec = q /\ x.out = p
    BY <2>0, <2>2 DEF rmw_update, InPlace, Written, Done, is_updated
  <2>3. CASE i.op = "GetEx"
    <3>1. PICK s, p : s = apply_ttl_in_place(r, i) /\ p = set_bytes(o, r.val)
      OBVIOUS
    <3>2. p \in Outs /\ p.bytes = r.val
      BY <1>0, <3>1, OutBytes
    <3>3. s = Nil \/ Holds(s, r.val, i.e)
      BY <2>3, <3>1, TtlIs
    <3>4. CASE s = Nil
      <4>1. in_place_updater(i, r, o) = InPlace("NeedCopy", r, p)
        BY <2>3, <3>1, <3>4 DEF in_place_updater
      <4> QED BY <1>1, <2>1, <2>3, <3>2, <4>1
    <3>5. CASE s # Nil
      <4>1. in_place_updater(i, r, o) = InPlace("Updated", s, p)
        BY <2>3, <3>1, <3>5 DEF in_place_updater
      <4>2. x.st \in is_updated /\ x.rec = s /\ x.out = p
        BY <2>2, <4>1
      <4> QED BY <2>3, <3>2, <3>3, <3>5, <4>2
    <3> QED BY <3>4, <3>5
  <2>4. CASE i.op = "Expire"
    <3>1. CASE ~r.slot
      <4>1. in_place_updater(i, r, o) = InPlace("NeedCopy", r, o)
        BY <2>4, <3>1 DEF in_place_updater
      <4> QED BY <1>1, <2>1, <2>4, <4>1
    <3>2. CASE r.slot
      <4>1. PICK q, p : q = [r EXCEPT !.exp = i.e] /\ p = set_int(o, 1)
        OBVIOUS
      <4>2. in_place_updater(i, r, o) = InPlace("Updated", q, p)
        BY <2>4, <3>2, <4>1 DEF in_place_updater
      <4>3. Holds(q, r.val, i.e)
        BY <1>0, <3>2, <4>1, RewriteIs
      <4>4. x.st \in is_updated /\ x.rec = q
        BY <2>2, <4>2
      <4> QED BY <2>4, <4>3, <4>4
    <3> QED BY <1>0, <3>1, <3>2
  <2>5. CASE i.op = "Persist"
    <3>1. CASE r.exp = 0
      <4>1. in_place_updater(i, r, o) = InPlace("Cancel", r, set_int(o, 0))
        BY <2>5, <3>1 DEF in_place_updater
      <4>2. x.st = "Found" /\ x.rec = r
        BY <2>0, <4>1 DEF rmw_update, InPlace, Done
      <4> QED BY <1>3, <2>5, <3>1, <4>2 DEF is_updated
    <3>2. CASE r.exp # 0
      <4>1. PICK q, p : q = [r EXCEPT !.exp = 0] /\ p = set_int(o, 1)
        OBVIOUS
      <4>2. in_place_updater(i, r, o) = InPlace("Updated", q, p)
        BY <2>5, <3>2, <4>1 DEF in_place_updater
      <4>3. Holds(q, r.val, i.e) /\ i.e = 0
        BY <1>0, <2>5, <3>2, <4>1, RewriteIs
      <4>4. x.st \in is_updated /\ x.rec = q /\ x.out = p
        BY <2>2, <4>2
      <4>5. p.int = 1
        BY <4>1, OutInt
      <4> QED BY <2>5, <3>2, <4>3, <4>4, <4>5
    <3> QED BY <3>1, <3>2
  <2> QED BY <2>3, <2>4, <2>5
<1> QED BY <1>0, <1>2, <1>3

(* A plain SET.                                                            *)
LEMMA UpsertOp ==
  ASSUME StringConstants, NEW i \in Inputs, NEW r, r = Nil \/ Sound(r), NEW o,
         NEW x, x = upsert(i, r, o)
  PROVE  x.st \in is_updated /\ Holds(x.rec, i.v, i.e)
<1>0. i.v \in Bytes /\ Len(i.v) \in Nat /\ i.e \in Int
  BY InputFacts
<1>1. PICK w : w = IF r = Nil \/ ~r.mutable THEN Nil ELSE in_place_writer(i, r)
  OBVIOUS
<1>2. CASE w = Nil
  <2>1. x.st = "Created" /\ x.rec = NewRecord(Len(i.v), i.e # 0, i.v, i.e)
    BY <1>1, <1>2 DEF upsert, Done, initial_writer
  <2>2. Holds(x.rec, i.v, IF i.e # 0 THEN i.e ELSE 0)
    <3>1. Len(i.v) <= Len(i.v) /\ (i.e # 0) \in BOOLEAN
      BY <1>0
    <3> QED BY <1>0, <2>1, <3>1, NewIs
  <2>3. (IF i.e # 0 THEN i.e ELSE 0) = i.e
    OBVIOUS
  <2> QED BY <2>1, <2>2, <2>3 DEF is_updated
<1>3. CASE w # Nil
  <2>1. r # Nil /\ Sound(r) /\ w = in_place_writer(i, r)
    BY <1>1, <1>3
  <2>2. x.st = "InPlaceUpdated" /\ x.rec = w
    BY <1>1, <1>3 DEF upsert, Done
  <2>3. ~(Len(i.v) > r.cap \/ (~r.slot /\ i.e # 0))
        /\ w = [r EXCEPT !.val = i.v, !.exp = IF r.slot THEN i.e ELSE 0]
    BY <1>3, <2>1 DEF in_place_writer
  <2>4. Holds(w, i.v, i.e)
    <3>1. PICK e : e = IF r.slot THEN i.e ELSE 0
      OBVIOUS
    <3>2. r.slot \in BOOLEAN /\ r.cap \in Nat /\ r \in Records
      BY <2>1, RecordFacts
    <3>3. e = i.e /\ e \in Int /\ (e # 0 => r.slot) /\ Len(i.v) <= r.cap
      BY <1>0, <2>3, <3>1, <3>2
    <3>4. w = [r EXCEPT !.val = i.v, !.exp = e]
      BY <2>3, <3>1
    <3> QED BY <1>0, <3>2, <3>3, <3>4 DEF Holds, Sound, Records
  <2> QED BY <2>2, <2>4 DEF is_updated
<1> QED BY <1>2, <1>3

-----------------------------------------------------------------------------
(* The commands.                                                           *)

(* What the state is after a command: the reference, except that SET GET   *)
(* overrules NX and XX.                                                    *)
After(c, l, t) ==
  IF c.name = "SET" /\ "GET" \in c.opts /\ ~({"NX", "XX"} \subseteq c.opts)
  THEN Value(c.v, IF "KEEPTTL" \in c.opts /\ l # Nil /\ expire_at_ms(c, t) = 0
                          THEN l.exp ELSE expire_at_ms(c, t))
  ELSE Ref(c, l, t).state

(* The record is what state s is for the clients.                          *)
Leaves(r, s, t) == IF s = Nil THEN Gone(r, t) ELSE Holds(r, s.val, s.exp)

Names ==
  {"GET", "STRLEN", "GETRANGE", "EXISTS", "TTL", "PTTL", "TYPE", "SET", "SETNX", "PSETEX", "GETSET", "GETDEL",
   "GETEX", "APPEND", "SETRANGE", "INCRBY", "DEL", "PEXPIRE", "PERSIST"}

Typed(c) ==
  /\ c.name \in Names /\ c.v \in Bytes /\ c.d \in Int /\ c.t \in Int
  /\ c.opts \subseteq {"NX", "XX", "GET", "KEEPTTL"} /\ c.keyword \in {"none", "EX", "PX", "EXAT", "PXAT"}
  /\ c.name = "INCRBY" => c.d \in I64
  /\ c.name = "GETSET" => c.keyword = "none"

(* What command c, applied to record r at time t, has to show.             *)
Meets(c, r, t, x) ==
  /\ x.rec = Nil \/ Sound(x.rec)
  /\ ~RegionDependent(c, r, t) =>
       /\ After(c, Logical(r, t), t) \in Holdings \cup {Nil}
       /\ Leaves(x.rec, After(c, Logical(r, t), t), t)
       /\ ~x.logged => After(c, Logical(r, t), t) = Logical(r, t)
  /\ ~KnownDivergence(c, r, t) => x.reply = Ref(c, Logical(r, t), t).reply

LEMMA LogicalIs ==
  ASSUME StringConstants, NEW r, r = Nil \/ Sound(r), NEW t
  PROVE  /\ Gone(r, t) => Logical(r, t) = Nil
         /\ ~Gone(r, t) => /\ Sound(r) /\ ~expired(r, t) /\ Logical(r, t) # Nil
                           /\ Logical(r, t).val = r.val /\ Logical(r, t).exp = r.exp
         /\ Logical(r, t) \in Holdings \cup {Nil}
         /\ Leaves(r, Logical(r, t), t)
<1>1. CASE Gone(r, t)
  BY <1>1 DEF Logical, Gone, Leaves
<1>2. CASE ~Gone(r, t)
  <2>1. Sound(r) /\ ~expired(r, t) /\ Logical(r, t) = [val |-> r.val, exp |-> r.exp]
    BY <1>2 DEF Logical, Gone
  <2>2. [val |-> r.val, exp |-> r.exp] \in Holdings
    BY <2>1, RecordFacts DEF Holdings
  <2>3. Logical(r, t) # Nil
    BY <2>1, <2>2 DEF StringConstants
  <2> QED BY <1>2, <2>1, <2>2, <2>3 DEF Leaves, Holds
<1> QED BY <1>1, <1>2

LEMMA InputIs ==
  ASSUME NEW op \in Ops, NEW v \in Bytes, NEW d \in Int, NEW e \in Int, NEW t \in Int
  PROVE  /\ Input(op, v, d, e, t) \in Inputs
         /\ Input(op, v, d, e, t).op = op /\ Input(op, v, d, e, t).v = v
         /\ Input(op, v, d, e, t).d = d /\ Input(op, v, d, e, t).e = e
         /\ Input(op, v, d, e, t).now = t
BY DEF Input, Inputs

LEMMA ExpireAtType ==
  ASSUME NEW c, Typed(c), NEW t \in Int
  PROVE  expire_at_ms(c, t) \in Int
BY DEF expire_at_ms, Typed

LEMMA ValueIs ==
  ASSUME StringConstants, NEW v \in Bytes, NEW e \in Int
  PROVE  /\ Value(v, e) # Nil /\ Value(v, e) \in Holdings
         /\ Value(v, e).val = v /\ Value(v, e).exp = e
BY DEF Value, StringConstants, Holdings

(* A read changes nothing.                                                 *)
LEMMA ReadIs ==
  ASSUME NEW i, NEW r, NEW o, NEW x, x = read(i, r, o)
  PROVE  /\ x.rec = r
         /\ Gone(r, i.now) => x.st = "NotFound"
         /\ ~Gone(r, i.now) => x.st = "Found" /\ x.out = reader(i, r, o)
BY DEF read, Done, Gone

LEMMA ReadMeets ==
  ASSUME StringConstants, NEW c, NEW r, r = Nil \/ Sound(r), NEW t, NEW x,
         x.rec = r, c.name # "SET",
         Ref(c, Logical(r, t), t).state = Logical(r, t),
         x.reply = Ref(c, Logical(r, t), t).reply
  PROVE  Meets(c, r, t, x)
<1>1. After(c, Logical(r, t), t) = Logical(r, t)
  BY DEF After
<1> QED BY <1>1, LogicalIs DEF Meets

LEMMA GetMeets ==
  ASSUME StringConstants, NEW c, c.name \in {"GET", "STRLEN", "EXISTS", "TYPE", "TTL", "PTTL"}, Typed(c),
         NEW r, r = Nil \/ Sound(r), NEW o \in Outs, NEW t \in Int,
         NEW x, x = exec_command(c, r, o, t)
  PROVE  Meets(c, r, t, x)
<1>0. PICK l, op : /\ l = Logical(r, t)
                   /\ op = CASE c.name = "GET" -> "Get" [] c.name = "STRLEN" -> "Strlen"
                             [] c.name = "PTTL" -> "Ttl" [] c.name = "TTL" -> "TtlSeconds"
                             [] OTHER -> "Exists"
  OBVIOUS
<1>1. PICK i : i = Input(op, <<>>, 0, 0, t)
  OBVIOUS
<1>2. i.op = op /\ i.now = t
  BY <1>1 DEF Input
<1>3. PICK y : y = read(i, r, o)
  OBVIOUS
<1>4. /\ y.rec = r /\ (Gone(r, t) => y.st = "NotFound")
      /\ (~Gone(r, t) => y.st = "Found" /\ y.out = reader(i, r, o))
  BY <1>2, <1>3, ReadIs
<1>5. /\ Gone(r, t) => l = Nil
      /\ ~Gone(r, t) => /\ Sound(r) /\ ~expired(r, t) /\ l # Nil /\ l.val = r.val /\ l.exp = r.exp
  BY <1>0, LogicalIs
<1>6. Len(<<>>) = 0
  OBVIOUS
<1>7. CASE c.name = "GET"
  <2>1. x = Reading(y, BytesReply, NullBulk)
    BY <1>0, <1>1, <1>3, <1>7 DEF exec_command, cmd_get
  <2>2. x.rec = r /\ x.reply = IF y.st = "Found" THEN Bulk(y.out.bytes) ELSE NullBulk
    BY <1>4, <2>1 DEF Reading, Answering, Answer, BytesReply
  <2>3. ~Gone(r, t) => y.out.bytes = r.val
    <3>1. ~Gone(r, t) => y.out = set_bytes(o, r.val)
      BY <1>0, <1>2, <1>4, <1>7 DEF reader
    <3> QED BY <3>1, OutBytes
  <2>4. Ref(c, l, t) = Result(l, IF l = Nil THEN NullBulk ELSE Bulk(l.val))
    BY <1>7 DEF Ref
  <2>5. Ref(c, l, t).state = l /\ Ref(c, l, t).reply = x.reply
    BY <1>4, <1>5, <2>2, <2>3, <2>4 DEF Result
  <2> QED BY <1>0, <1>7, <2>2, <2>5, ReadMeets
<1>8. CASE c.name = "STRLEN"
  <2>1. x = Reading(y, IntReply, Integer(0))
    BY <1>0, <1>1, <1>3, <1>8 DEF exec_command, cmd_read_int
  <2>2. x.rec = r /\ x.reply = IF y.st = "Found" THEN Integer(y.out.int) ELSE Integer(0)
    BY <1>4, <2>1 DEF Reading, Answering, Answer, IntReply
  <2>3. ~Gone(r, t) => y.out.int = Len(r.val)
    <3>1. ~Gone(r, t) => y.out = set_int(o, Len(r.val))
      BY <1>0, <1>2, <1>4, <1>8 DEF reader
    <3> QED BY <3>1, OutInt
  <2>4. Ref(c, l, t) = Result(l, Integer(Len(IF l = Nil THEN <<>> ELSE l.val)))
    BY <1>8 DEF Ref
  <2>5. Ref(c, l, t).state = l /\ Ref(c, l, t).reply = x.reply
    BY <1>4, <1>5, <1>6, <2>2, <2>3, <2>4 DEF Result
  <2> QED BY <1>0, <1>8, <2>2, <2>5, ReadMeets
<1>9. CASE c.name = "EXISTS"
  <2>1. x = Reading(y, One, Integer(0))
    BY <1>0, <1>1, <1>3, <1>9 DEF exec_command, cmd_exists
  <2>2. x.rec = r /\ x.reply = IF y.st = "Found" THEN Integer(1) ELSE Integer(0)
    BY <1>4, <2>1 DEF Reading, Answering, Answer, One
  <2>4. Ref(c, l, t) = Result(l, Integer(IF l = Nil THEN 0 ELSE 1))
    BY <1>9 DEF Ref
  <2>5. Ref(c, l, t).state = l /\ Ref(c, l, t).reply = x.reply
    BY <1>4, <1>5, <2>2, <2>4 DEF Result
  <2> QED BY <1>0, <1>9, <2>2, <2>5, ReadMeets
<1>10. CASE c.name = "TYPE"
  <2>1. x = Reading(y, LAMBDA z : <<"string">>, <<"none">>)
    BY <1>0, <1>1, <1>3, <1>10 DEF exec_command, cmd_type
  <2>2. x.rec = r /\ x.reply = IF y.st = "Found" THEN <<"string">> ELSE <<"none">>
    BY <1>4, <2>1 DEF Reading, Answering, Answer
  <2>4. Ref(c, l, t) = Result(l, IF l = Nil THEN <<"none">> ELSE <<"string">>)
    BY <1>10 DEF Ref
  <2>5. Ref(c, l, t).state = l /\ Ref(c, l, t).reply = x.reply
    BY <1>4, <1>5, <2>2, <2>4 DEF Result
  <2> QED BY <1>0, <1>10, <2>2, <2>5, ReadMeets
<1>11. CASE c.name = "PTTL"
  <2>1. x = Reading(y, IntReply, Integer(-2))
    BY <1>0, <1>1, <1>3, <1>11 DEF exec_command, cmd_ttl
  <2>2. x.rec = r /\ x.reply = IF y.st = "Found" THEN Integer(y.out.int) ELSE Integer(-2)
    BY <1>4, <2>1 DEF Reading, Answering, Answer, IntReply
  <2>3. ~Gone(r, t) => y.out.int = IF r.exp = 0 THEN -1 ELSE r.exp - t
    <3>0. PICK n : n = IF r.exp = 0 THEN -1 ELSE Max({r.exp - t, 0})
      OBVIOUS
    <3>1. ~Gone(r, t) => y.out = set_int(o, n)
      BY <1>0, <1>2, <1>4, <1>11, <3>0 DEF reader
    <3>2. ~Gone(r, t) => y.out.int = n
      BY <3>1, OutInt
    <3>3. ASSUME ~Gone(r, t), r.exp # 0 PROVE Max({r.exp - t, 0}) = r.exp - t
      <4>1. r.exp \in Int /\ (expired(r, t) <=> r.exp # 0 /\ r.exp <= t) /\ ~expired(r, t)
        BY <1>5, <3>3, RecordFacts
      <4>2. r.exp - t \in Int /\ 0 \in Int /\ r.exp - t >= 0
        BY <3>3, <4>1
      <4> QED BY <4>2, MaxTwo
    <3> QED BY <3>0, <3>2, <3>3
  <2>4. Ref(c, l, t) = Result(l, Integer(IF l = Nil THEN -2 ELSE IF l.exp = 0 THEN -1 ELSE l.exp - t))
    BY <1>11 DEF Ref
  <2>5. Ref(c, l, t).state = l /\ Ref(c, l, t).reply = x.reply
    BY <1>4, <1>5, <2>2, <2>3, <2>4 DEF Result
  <2> QED BY <1>0, <1>11, <2>2, <2>5, ReadMeets
<1>12. CASE c.name = "TTL"
  <2>1. x = Reading(y, IntReply, Integer(-2))
    BY <1>0, <1>1, <1>3, <1>12 DEF exec_command, cmd_ttl
  <2>2. x.rec = r /\ x.reply = IF y.st = "Found" THEN Integer(y.out.int) ELSE Integer(-2)
    BY <1>4, <2>1 DEF Reading, Answering, Answer, IntReply
  <2>3. ~Gone(r, t) => y.out.int = IF r.exp = 0 THEN -1 ELSE (r.exp - t + 999) \div 1000
    <3>0. PICK n : n = IF r.exp = 0 THEN -1 ELSE (Max({r.exp - t, 0}) + 999) \div 1000
      OBVIOUS
    <3>1. ~Gone(r, t) => y.out = set_int(o, n)
      BY <1>0, <1>2, <1>4, <1>12, <3>0 DEF reader
    <3>2. ~Gone(r, t) => y.out.int = n
      BY <3>1, OutInt
    <3>3. ASSUME ~Gone(r, t), r.exp # 0 PROVE Max({r.exp - t, 0}) = r.exp - t
      <4>1. r.exp \in Int /\ (expired(r, t) <=> r.exp # 0 /\ r.exp <= t) /\ ~expired(r, t)
        BY <1>5, <3>3, RecordFacts
      <4>2. r.exp - t \in Int /\ 0 \in Int /\ r.exp - t >= 0
        BY <3>3, <4>1
      <4> QED BY <4>2, MaxTwo
    <3> QED BY <3>0, <3>2, <3>3
  <2>4. Ref(c, l, t) =
          Result(l, Integer(IF l = Nil THEN -2 ELSE IF l.exp = 0 THEN -1 ELSE (l.exp - t + 999) \div 1000))
    BY <1>12 DEF Ref
  <2>5. Ref(c, l, t).state = l /\ Ref(c, l, t).reply = x.reply
    BY <1>4, <1>5, <2>2, <2>3, <2>4 DEF Result
  <2> QED BY <1>0, <1>12, <2>2, <2>5, ReadMeets
<1> QED BY <1>7, <1>8, <1>9, <1>10, <1>11, <1>12

LEMMA CountIs ==
  ASSUME NEW S
  PROVE  Cardinality(S) = Cardinality(S)
BY DEF Cardinality, Cardinality

(* Two bytes sequences with the same bytes.                                *)
LEMMA SameBytes ==
  ASSUME NEW s \in Bytes, NEW n \in Nat, NEW f, f = [j \in 1 .. n |-> f[j]],
         Len(s) = n, \A j \in 1 .. n : s[j] = f[j]
  PROVE  s = f
<1>1. DOMAIN s = 1 .. n /\ s = [j \in 1 .. n |-> s[j]]
  BY DEF Bytes
<1> QED BY <1>1

(* GETRANGE cuts out the bytes the reference names.                        *)
LEMMA SubstringIs ==
  ASSUME NEW v \in Bytes, NEW s \in Int, NEW e \in Int, NEW b, b = range_bounds(s, e, Len(v))
  PROVE  SubSeq(v, b[1] + 1, b[2]) = Substring(v, s, e)
<1>0. PICK z : z = Len(v)
  OBVIOUS
<1>1. z \in Nat /\ \A j \in 1 .. z : v[j] \in Int
  BY <1>0, ElementOfSeq DEF Bytes
<1>2. PICK lo, hi : lo = (IF s < 0 THEN z + s ELSE s) /\ hi = (IF e < 0 THEN z + e ELSE e)
  OBVIOUS
<1>3. lo \in Int /\ hi \in Int
  BY <1>1, <1>2
<1>4. PICK p, q : /\ p = (IF lo < 0 THEN 0 ELSE IF lo > z THEN z ELSE lo)
                  /\ q = (IF hi > z - 1 THEN z - 1 ELSE hi)
  OBVIOUS
<1>5. p \in Nat /\ q \in Int /\ p <= z /\ q < z /\ p + 1 \in Int /\ q + 1 \in Int
  BY <1>1, <1>3, <1>4
<1>6. PICK n, m : /\ n = Cardinality({j \in 1 .. z : j - 1 < lo})
                  /\ m = Cardinality({j \in 1 .. z : lo <= j - 1 /\ j - 1 <= hi})
  OBVIOUS
<1>7. n = p
  <2>1. {j \in 1 .. z : j - 1 < lo} = 1 .. p
    BY <1>1, <1>3, <1>4
  <2>2. Cardinality(1 .. p) = IF 1 > p THEN 0 ELSE p - 1 + 1
    BY <1>5, FS_Interval
  <2>3. n = IF 1 > p THEN 0 ELSE p - 1 + 1
    BY <1>6, <2>1, <2>2, CountIs
  <2> QED BY <1>5, <2>3
<1>8. m = IF q < p THEN 0 ELSE q + 1 - p
  <2>1. {j \in 1 .. z : lo <= j - 1 /\ j - 1 <= hi} = (p + 1) .. (q + 1)
    BY <1>1, <1>3, <1>4, <1>5
  <2>2. Cardinality((p + 1) .. (q + 1)) = IF p + 1 > q + 1 THEN 0 ELSE q + 1 - (p + 1) + 1
    BY <1>5, FS_Interval
  <2>3. m = IF p + 1 > q + 1 THEN 0 ELSE q + 1 - (p + 1) + 1
    BY <1>6, <2>1, <2>2, CountIs
  <2> QED BY <1>5, <2>3
<1>9. PICK f : f = Substring(v, s, e)
  OBVIOUS
<1>10. f = [j \in 1 .. m |-> v[n + j]]
  BY <1>0, <1>2, <1>6, <1>9 DEF Substring
<1>11. m \in Nat
  BY <1>5, <1>8
<1>12. b = IF q < p THEN <<0, 0>> ELSE <<p, q + 1>>
  <2>1. PICK x, y : /\ x = (IF s < 0 THEN Max({z + s, 0}) ELSE Min({s, z}))
                    /\ y = (IF e < 0 THEN z + e ELSE Min({e, z - 1}))
    OBVIOUS
  <2>2. b = IF z = 0 \/ x > y \/ x >= z THEN <<0, 0>> ELSE <<x, Min({y + 1, z})>>
    BY <1>0, <2>1 DEF range_bounds
  <2>3. z + s \in Int /\ z \in Int /\ z - 1 \in Int /\ 0 \in Int
    BY <1>1
  <2>4. x = p
    <3>1. Max({z + s, 0}) = IF z + s >= 0 THEN z + s ELSE 0
      BY <2>3, MaxTwo
    <3>2. Min({s, z}) = IF s <= z THEN s ELSE z
      BY <2>3, MinTwo
    <3> QED BY <1>1, <1>2, <1>4, <2>1, <3>1, <3>2
  <2>5. y = q
    <3>1. Min({e, z - 1}) = IF e <= z - 1 THEN e ELSE z - 1
      BY <2>3, MinTwo
    <3> QED BY <1>1, <1>2, <1>4, <2>1, <3>1
  <2>6. Min({y + 1, z}) = y + 1
    <3>1. y + 1 \in Int /\ y + 1 <= z
      BY <1>1, <1>5, <2>5
    <3> QED BY <2>3, <3>1, MinTwo
  <2> QED BY <1>1, <1>5, <2>2, <2>4, <2>5, <2>6
<1>13. CASE q < p
  <2>1. b[1] + 1 = 1 /\ b[2] = 0 /\ m = 0
    BY <1>8, <1>12, <1>13
  <2>2. SubSeq(v, 1, 0) = <<>>
    BY SubSeqEmpty
  <2>3. f = <<>>
    <3>1. f = [j \in 1 .. 0 |-> f[j]]
      BY <1>10, <2>1
    <3>2. <<>> \in Bytes /\ Len(<<>>) = 0
      BY DEF Bytes
    <3>3. \A j \in 1 .. 0 : <<>>[j] = f[j]
      OBVIOUS
    <3> QED BY <3>1, <3>2, <3>3, SameBytes
  <2> QED BY <1>9, <2>1, <2>2, <2>3
<1>14. CASE ~(q < p)
  <2>1. b[1] + 1 = p + 1 /\ b[2] = q + 1 /\ m = q + 1 - p
    BY <1>8, <1>12, <1>14
  <2>2. PICK g, a, h : a = p + 1 /\ h = q + 1 /\ g = SubSeq(v, a, h)
    OBVIOUS
  <2>3. a \in Int /\ h \in Int /\ a <= h /\ h - a + 1 = m
    BY <1>5, <1>14, <2>1, <2>2
  <2>a. \A j \in a .. h : v[j] \in Int
    BY <1>1, <1>5, <2>2
  <2>4. /\ g \in Seq(Int) /\ Len(g) = (IF a <= h THEN h - a + 1 ELSE 0)
        /\ \A j \in 1 .. h - a + 1 : g[j] = v[a + j - 1]
    BY <2>2, <2>3, <2>a, SubSeqProperties
  <2>5. Len(g) = m /\ \A j \in 1 .. m : g[j] = v[a + j - 1]
    BY <2>3, <2>4
  <2>6. \A j \in 1 .. m : g[j] = f[j]
    <3> TAKE j \in 1 .. m
    <3>1. a + j - 1 = n + j
      BY <1>5, <1>7, <1>11, <2>2
    <3> QED BY <1>10, <2>5, <3>1
  <2>7. f = [j \in 1 .. m |-> f[j]]
    BY <1>10
  <2>8. g = f
    BY <1>11, <2>4, <2>5, <2>6, <2>7, SameBytes DEF Bytes
  <2> QED BY <1>9, <2>1, <2>2, <2>8
<1> QED BY <1>13, <1>14

LEMMA GetRangeMeets ==
  ASSUME StringConstants, NEW c, c.name = "GETRANGE", Typed(c),
         NEW r, r = Nil \/ Sound(r), NEW o \in Outs, NEW t \in Int,
         NEW x, x = exec_command(c, r, o, t)
  PROVE  Meets(c, r, t, x)
<1>0. PICK l, i : l = Logical(r, t) /\ i = Input("GetRange", <<>>, c.d, c.t, t)
  OBVIOUS
<1>1. i.op = "GetRange" /\ i.now = t /\ i.d = c.d /\ i.e = c.t /\ c.d \in Int /\ c.t \in Int
  BY <1>0 DEF Input, Typed
<1>3. PICK y : y = read(i, r, o)
  OBVIOUS
<1>4. /\ y.rec = r /\ (Gone(r, t) => y.st = "NotFound")
      /\ (~Gone(r, t) => y.st = "Found" /\ y.out = reader(i, r, o))
  BY <1>1, <1>3, ReadIs
<1>5. /\ Gone(r, t) => l = Nil
      /\ ~Gone(r, t) => Sound(r) /\ l # Nil /\ l.val = r.val
  BY <1>0, LogicalIs
<1>6. x = Reading(y, BytesReply, Bulk(<<>>))
  BY <1>0, <1>3 DEF exec_command, cmd_getrange
<1>7. x.rec = r /\ x.reply = IF y.st = "Found" THEN Bulk(y.out.bytes) ELSE Bulk(<<>>)
  BY <1>4, <1>6 DEF Reading, Answering, Answer, BytesReply
<1>8. PICK w : w = IF l = Nil THEN <<>> ELSE l.val
  OBVIOUS
<1>9. w \in Bytes
  BY <1>5, <1>8, RecordFacts DEF Bytes
<1>10. PICK b, u : b = range_bounds(c.d, c.t, Len(w)) /\ u = SubSeq(w, b[1] + 1, b[2])
  OBVIOUS
<1>11. u = Substring(w, c.d, c.t)
  BY <1>1, <1>9, <1>10, SubstringIs
<1>12. ~Gone(r, t) => y.out.bytes = u
  <2>1. ~Gone(r, t) => y.out = set_bytes(o, u)
    BY <1>1, <1>4, <1>5, <1>8, <1>10 DEF reader
  <2> QED BY <2>1, OutBytes
<1>13. Gone(r, t) => u = <<>>
  <2> SUFFICES ASSUME Gone(r, t) PROVE u = <<>>
    OBVIOUS
  <2>1. w = <<>> /\ Len(w) = 0
    BY <1>5, <1>8
  <2>2. b = <<0, 0>>
    BY <1>10, <2>1 DEF range_bounds
  <2>3. u = SubSeq(w, 1, 0)
    BY <1>10, <2>2
  <2> QED BY <2>3, SubSeqEmpty
<1>14. Ref(c, l, t) = Result(l, Bulk(Substring(w, c.d, c.t)))
  BY <1>8 DEF Ref
<1>15. Ref(c, l, t).state = l /\ Ref(c, l, t).reply = x.reply
  BY <1>4, <1>7, <1>11, <1>12, <1>13, <1>14 DEF Result
<1> QED BY <1>0, <1>7, <1>15, ReadMeets

(* A command that leaves value v with expiry e and answers what the        *)
(* reference does.                                                         *)
LEMMA HoldsMeets ==
  ASSUME StringConstants, NEW c, NEW r, NEW t, NEW x, NEW v \in Bytes, NEW e \in Int,
         Holds(x.rec, v, e), x.logged,
         After(c, Logical(r, t), t) = Value(v, e),
         ~KnownDivergence(c, r, t) => x.reply = Ref(c, Logical(r, t), t).reply
  PROVE  Meets(c, r, t, x)
<1>1. Value(v, e) # Nil /\ Value(v, e) \in Holdings /\ Value(v, e).val = v /\ Value(v, e).exp = e
  BY ValueIs
<1>2. Leaves(x.rec, After(c, Logical(r, t), t), t)
  BY <1>1 DEF Leaves
<1> QED BY <1>1, <1>2 DEF Meets, Holds

(* A command that leaves the record, or its absence, as it was.            *)
LEMMA StaysMeets ==
  ASSUME StringConstants, NEW c, NEW r, r = Nil \/ Sound(r), NEW t, NEW x,
         x.rec = r \/ (x.rec = Nil /\ Gone(r, t)),
         After(c, Logical(r, t), t) = Logical(r, t),
         ~KnownDivergence(c, r, t) => x.reply = Ref(c, Logical(r, t), t).reply
  PROVE  Meets(c, r, t, x)
<1>1. Leaves(x.rec, Logical(r, t), t) /\ Logical(r, t) \in Holdings \cup {Nil}
  BY LogicalIs DEF Leaves, Gone
<1> QED BY <1>1 DEF Meets

(* An answer, logged when the status of the operation is one of sts.       *)
LEMMA AnswerIs ==
  ASSUME NEW y, NEW sts, NEW reply, NEW x, x = Answer(y, reply, y.st \in sts)
  PROVE  /\ x.rec = y.rec /\ x.reply = reply
         /\ y.st \in sts => x.logged
         /\ y.st \notin sts => ~x.logged
<1>1. x.rec = y.rec /\ x.reply = reply /\ x.logged = (y.st \in sts)
  BY DEF Answer
<1>2. (y.st \in sts => x.logged) /\ (y.st \notin sts => ~x.logged)
  BY <1>1, Zenon
<1> QED BY <1>1, <1>2

LEMMA LongerMeets ==
  ASSUME StringConstants, NEW c, c.name \in {"APPEND", "SETRANGE"}, Typed(c),
         NEW r, r = Nil \/ Sound(r), NEW o \in Outs, NEW t \in Int,
         NEW x, x = exec_command(c, r, o, t)
  PROVE  Meets(c, r, t, x)
<1>0. PICK l : l = Logical(r, t)
  OBVIOUS
<1>1. x = cmd_rmw_int(c, r, o, t)
  BY DEF exec_command
<1>2. c.v \in Bytes /\ c.d \in Int /\ c.name # "SET"
  BY DEF Typed
<1>3. CASE c.d < 0
  <2>1. x.rec = r /\ x.reply = Err
    BY <1>1, <1>3 DEF cmd_rmw_int, Reject, Answer, Done
  <2>2. Ref(c, l, t) = Result(l, Err)
    BY <1>3 DEF Ref
  <2>3. Ref(c, l, t).state = l /\ Ref(c, l, t).reply = x.reply
    BY <2>1, <2>2 DEF Result
  <2> QED BY <1>0, <1>2, <2>1, <2>3, ReadMeets
<1>4. CASE ~(c.d < 0)
  <2>1. PICK op : op = IF c.name = "APPEND" THEN "Append" ELSE "SetRange"
    OBVIOUS
  <2>2. PICK i : i = Input(op, c.v, c.d, 0, t)
    OBVIOUS
  <2>3. i \in Inputs /\ i.op = op /\ i.v = c.v /\ i.d = c.d /\ i.e = 0 /\ i.now = t
    <3>1. op \in Ops /\ 0 \in Int
      BY <2>1 DEF Ops
    <3> QED BY <1>2, <2>2, <3>1, InputIs
  <2>4. PICK y : y = rmw(i, r, o)
    OBVIOUS
  <2>5. PICK v, e, m : v = Longer(i, Old(r, t)) /\ e = Ttl(r, t) /\ m = Len(v)
    OBVIOUS
  <2>6. y.st \in is_updated /\ Holds(y.rec, v, e) /\ y.out.int = m
    <3>1. i.op \in {"Append", "SetRange"} /\ i.d >= 0
      BY <1>2, <1>4, <2>1, <2>3
    <3> QED BY <2>3, <2>4, <2>5, <3>1, LongerOp
  <2>7. x = Answer(y, Integer(m), y.st \in is_updated)
    <3>1. x = Answering(y, is_updated, IntReply, Integer(0))
      BY <1>1, <1>4, <2>1, <2>2, <2>4 DEF cmd_rmw_int
    <3> QED BY <2>6, <3>1 DEF Answering, IntReply
  <2>8. x.rec = y.rec /\ x.reply = Integer(m) /\ x.logged
    <3>1. x.rec = y.rec /\ x.reply = Integer(m) /\ (y.st \in is_updated => x.logged)
      BY <2>7, AnswerIs
    <3> QED BY <2>6, <3>1
  <2>9. /\ Gone(r, t) => l = Nil
        /\ ~Gone(r, t) => l # Nil /\ l.val = r.val /\ l.exp = r.exp
    BY <1>0, LogicalIs
  <2>10. v = (IF c.name = "APPEND" THEN (IF l = Nil THEN <<>> ELSE l.val) \o c.v
              ELSE Overlay(IF l = Nil THEN <<>> ELSE l.val, c.d, c.v))
         /\ e = IF l = Nil THEN 0 ELSE l.exp
    <3>1. Old(r, t) = (IF l = Nil THEN <<>> ELSE l.val) /\ e = IF l = Nil THEN 0 ELSE l.exp
      BY <2>5, <2>9 DEF Old, Ttl
    <3> QED BY <2>1, <2>3, <2>5, <3>1 DEF Longer
  <2>11. Ref(c, l, t) = Result(Value(v, e), Integer(m))
    BY <1>4, <2>5, <2>10 DEF Ref
  <2>12. Ref(c, l, t).state = Value(v, e) /\ Ref(c, l, t).reply = x.reply
    BY <2>8, <2>11 DEF Result
  <2>13. v \in Bytes /\ e \in Int
    BY <2>6 DEF Holds, Sound, Records
  <2>14. After(c, l, t) = Value(v, e)
    BY <1>2, <2>12 DEF After
  <2>15. Holds(x.rec, v, e)
    BY <2>6, <2>8
  <2> QED BY <1>0, <2>8, <2>12, <2>13, <2>14, <2>15, HoldsMeets
<1> QED BY <1>3, <1>4

LEMMA IncrMeets ==
  ASSUME StringConstants, NEW c, c.name = "INCRBY", Typed(c),
         NEW r, r = Nil \/ Sound(r), NEW o \in Outs, NEW t \in Int,
         NEW x, x = exec_command(c, r, o, t)
  PROVE  Meets(c, r, t, x)
<1>0. PICK l, i : l = Logical(r, t) /\ i = Input("IncrBy", <<>>, c.d, 0, t)
  OBVIOUS
<1>1. x = cmd_incr(c, r, o, t)
  BY DEF exec_command
<1>2. c.d \in Int /\ c.d \in I64 /\ c.name # "SET" /\ <<>> \in Bytes
  BY DEF Typed, Bytes
<1>3. i \in Inputs /\ i.op = "IncrBy" /\ i.d = c.d /\ i.e = 0 /\ i.now = t
  <2>1. "IncrBy" \in Ops /\ 0 \in Int
    BY DEF Ops
  <2> QED BY <1>0, <1>2, <2>1, InputIs
<1>4. PICK y, n, m, e, v : /\ y = rmw(i, r, o) /\ n = OldInt(r, t) /\ m = n + c.d
                           /\ e = Ttl(r, t) /\ v = fmt(m)
  OBVIOUS
<1>5. IF n = Nil \/ m \notin I64
      THEN y.st \notin is_updated /\ y.rec = r /\ ~Gone(r, t)
      ELSE y.st \in is_updated /\ Holds(y.rec, v, e) /\ y.out.int = m
  <2>1. i.d \in I64 /\ n = OldInt(r, i.now) /\ y = rmw(i, r, o)
    BY <1>2, <1>3, <1>4
  <2>2. IF n = Nil \/ n + i.d \notin I64
        THEN y.st \notin is_updated /\ y.rec = r /\ ~Gone(r, i.now)
        ELSE /\ y.st \in is_updated
             /\ Holds(y.rec, fmt(n + i.d), Ttl(r, i.now))
             /\ y.out.int = n + i.d
    BY <1>3, <2>1, IncrOp
  <2>3. n + i.d = m /\ i.now = t /\ fmt(n + i.d) = v /\ Ttl(r, i.now) = e
    BY <1>3, <1>4
  <2> QED BY <2>2, <2>3
<1>6. x = Answering(y, is_updated, IntReply, Err)
  BY <1>0, <1>1, <1>4 DEF cmd_incr
<1>7. /\ Gone(r, t) => l = Nil
      /\ ~Gone(r, t) => l # Nil /\ l.val = r.val /\ l.exp = r.exp
  BY <1>0, LogicalIs
<1>8. /\ n = (IF l = Nil THEN 0 ELSE parse_i64(IF l = Nil THEN <<>> ELSE l.val))
      /\ e = IF l = Nil THEN 0 ELSE l.exp
  BY <1>4, <1>7 DEF OldInt, Ttl
<1>9. CASE n = Nil \/ m \notin I64
  <2>1. x.rec = r /\ x.reply = Err
    BY <1>5, <1>6, <1>9 DEF Answering, Answer
  <2>2. Ref(c, l, t) = Result(l, Err)
    BY <1>4, <1>8, <1>9 DEF Ref
  <2>3. Ref(c, l, t).state = l /\ Ref(c, l, t).reply = x.reply
    BY <2>1, <2>2 DEF Result
  <2> QED BY <1>0, <1>2, <2>1, <2>3, ReadMeets
<1>10. CASE ~(n = Nil \/ m \notin I64)
  <2>1. x.rec = y.rec /\ x.reply = Integer(m) /\ x.logged /\ Holds(x.rec, v, e)
    <3>1. x = Answer(y, Integer(m), y.st \in is_updated)
      BY <1>5, <1>6, <1>10 DEF Answering, IntReply
    <3> QED BY <1>5, <1>10, <3>1, AnswerIs
  <2>2. Ref(c, l, t) = Result(Value(v, e), Integer(m))
    BY <1>4, <1>8, <1>10 DEF Ref
  <2>3. Ref(c, l, t).state = Value(v, e) /\ Ref(c, l, t).reply = x.reply
    BY <2>1, <2>2 DEF Result
  <2>4. v \in Bytes /\ e \in Int
    BY <2>1 DEF Holds, Sound, Records
  <2>5. After(c, l, t) = Value(v, e)
    BY <1>2, <2>3 DEF After
  <2> QED BY <1>0, <2>1, <2>3, <2>4, <2>5, HoldsMeets
<1> QED BY <1>9, <1>10

(* A command whose effect depends on the region only owes a sound record.  *)
LEMMA RegionMeets ==
  ASSUME NEW c, NEW r, NEW t, NEW x, RegionDependent(c, r, t), x.rec = Nil \/ Sound(x.rec)
  PROVE  Meets(c, r, t, x)
BY DEF Meets, KnownDivergence

(* A command that removes the record.                                      *)
LEMMA GoneMeets ==
  ASSUME NEW c, NEW r, NEW t, NEW x, x.rec = Nil, x.logged,
         After(c, Logical(r, t), t) = Nil,
         ~KnownDivergence(c, r, t) => x.reply = Ref(c, Logical(r, t), t).reply
  PROVE  Meets(c, r, t, x)
BY DEF Meets, Leaves, Gone

LEMMA SetNxMeets ==
  ASSUME StringConstants, NEW c, c.name = "SETNX", Typed(c),
         NEW r, r = Nil \/ Sound(r), NEW o \in Outs, NEW t \in Int,
         NEW x, x = exec_command(c, r, o, t)
  PROVE  Meets(c, r, t, x)
<1>0. PICK l, i : l = Logical(r, t) /\ i = Input("SetNx", c.v, 0, 0, t)
  OBVIOUS
<1>1. x = cmd_setnx(c, r, o, t)
  BY DEF exec_command
<1>2. c.v \in Bytes /\ c.name # "SET" /\ 0 \in Int /\ "SetNx" \in Ops
  BY DEF Typed, Ops
<1>3. i \in Inputs /\ i.op = "SetNx" /\ i.v = c.v /\ i.e = 0 /\ i.now = t
  BY <1>0, <1>2, InputIs
<1>4. PICK y : y = rmw(i, r, o)
  OBVIOUS
<1>5. /\ Gone(r, t) => Holds(y.rec, c.v, 0) /\ ((r = Nil \/ r.mutable) => y.st = "Created")
      /\ ~Gone(r, t) => y.st \notin is_updated /\ y.rec = r
  BY <1>3, <1>4, SetNxOp
<1>6. PICK sts, p : sts = {"Created"} /\ p = IF y.st \in sts THEN Integer(1) ELSE Integer(0)
  OBVIOUS
<1>7. x = Answer(y, p, y.st \in sts)
  BY <1>0, <1>1, <1>4, <1>6 DEF cmd_setnx, Answering, One
<1>8. x.rec = y.rec /\ x.reply = p /\ (y.st \in sts => x.logged)
  BY <1>7, AnswerIs
<1>9. (Gone(r, t) => l = Nil) /\ (~Gone(r, t) => l # Nil)
  BY <1>0, LogicalIs
<1>10. CASE Gone(r, t) /\ (r = Nil \/ r.mutable)
  <2>1. Holds(x.rec, c.v, 0) /\ x.reply = Integer(1) /\ x.logged
    BY <1>5, <1>6, <1>8, <1>10
  <2>2. Ref(c, l, t) = Result(Value(c.v, 0), Integer(1))
    BY <1>9, <1>10 DEF Ref
  <2>3. After(c, l, t) = Value(c.v, 0) /\ Ref(c, l, t).reply = x.reply
    BY <1>2, <2>1, <2>2 DEF Result, After
  <2> QED BY <1>0, <1>2, <2>1, <2>3, HoldsMeets
<1>11. CASE Gone(r, t) /\ ~(r = Nil \/ r.mutable)
  <2>1. RegionDependent(c, r, t)
    BY <1>11 DEF Gone, RegionDependent, ExpiredReadOnly
  <2>2. Sound(x.rec)
    BY <1>5, <1>8, <1>11 DEF Holds
  <2> QED BY <2>1, <2>2, RegionMeets
<1>12. CASE ~Gone(r, t)
  <2>1. x.rec = r /\ x.reply = Integer(0)
    BY <1>5, <1>6, <1>8, <1>12 DEF is_updated
  <2>2. Ref(c, l, t) = Result(l, Integer(0))
    BY <1>9, <1>12 DEF Ref
  <2>3. Ref(c, l, t).state = l /\ Ref(c, l, t).reply = x.reply
    BY <2>1, <2>2 DEF Result
  <2> QED BY <1>0, <1>2, <2>1, <2>3, ReadMeets
<1> QED BY <1>10, <1>11, <1>12

LEMMA SetExMeets ==
  ASSUME StringConstants, NEW c, c.name = "PSETEX", Typed(c),
         NEW r, r = Nil \/ Sound(r), NEW o \in Outs, NEW t \in Int,
         NEW x, x = exec_command(c, r, o, t)
  PROVE  Meets(c, r, t, x)
<1>0. PICK l, e : l = Logical(r, t) /\ e = expire_at_ms(c, t)
  OBVIOUS
<1>1. x = cmd_setex(c, r, o, t)
  BY DEF exec_command
<1>2. c.v \in Bytes /\ c.name # "SET" /\ c.t \in Int /\ e \in Int /\ 0 \in Int /\ "Set" \in Ops
  BY <1>0, ExpireAtType DEF Typed, Ops
<1>3. CASE c.t <= 0
  <2>1. x.rec = r /\ x.reply = Err
    BY <1>1, <1>3 DEF cmd_setex, Reject, Answer, Done
  <2>2. Ref(c, l, t) = Result(l, Err)
    BY <1>3 DEF Ref
  <2>3. Ref(c, l, t).state = l /\ Ref(c, l, t).reply = x.reply
    BY <2>1, <2>2 DEF Result
  <2> QED BY <1>0, <1>2, <2>1, <2>3, ReadMeets
<1>4. CASE ~(c.t <= 0)
  <2>0. PICK i : i = Input("Set", c.v, 0, e, t)
    OBVIOUS
  <2>1. i \in Inputs /\ i.op = "Set" /\ i.v = c.v /\ i.d = 0 /\ i.e = e /\ i.now = t
    BY <1>2, <2>0, InputIs
  <2>2. PICK y : y = upsert(i, r, o)
    OBVIOUS
  <2>3. Holds(y.rec, c.v, e)
    BY <2>1, <2>2, UpsertOp
  <2>4. x = Answer(y, OK, TRUE)
    BY <1>0, <1>1, <1>4, <2>0, <2>2 DEF cmd_setex
  <2>5. x.rec = y.rec /\ x.reply = OK /\ x.logged
    BY <2>4 DEF Answer
  <2>6. Ref(c, l, t) = Result(Value(c.v, e), OK)
    BY <1>0, <1>4 DEF Ref
  <2>7. After(c, l, t) = Value(c.v, e) /\ Ref(c, l, t).reply = x.reply
    BY <1>2, <2>5, <2>6 DEF Result, After
  <2>8. Holds(x.rec, c.v, e)
    BY <2>3, <2>5
  <2> QED BY <1>0, <1>2, <2>5, <2>7, <2>8, HoldsMeets
<1> QED BY <1>3, <1>4

LEMMA GetSetMeets ==
  ASSUME StringConstants, NEW c, c.name = "GETSET", Typed(c),
         NEW r, r = Nil \/ Sound(r), NEW o \in Outs, NEW t \in Int,
         NEW x, x = exec_command(c, r, o, t)
  PROVE  Meets(c, r, t, x)
<1>0. PICK l, i : l = Logical(r, t) /\ i = Input("SetGet", c.v, 0, 0, t)
  OBVIOUS
<1>1. x = cmd_getset(c, r, o, t)
  BY DEF exec_command
<1>2. c.v \in Bytes /\ c.name # "SET" /\ 0 \in Int /\ "SetGet" \in Ops
  BY DEF Typed, Ops
<1>3. i \in Inputs /\ i.op = "SetGet" /\ i.v = c.v /\ i.e = 0 /\ i.now = t
  BY <1>0, <1>2, InputIs
<1>4. PICK y : y = rmw(i, r, o)
  OBVIOUS
<1>5. Overwrites(i) /\ Gets(i) /\ ~Keeps(i)
  BY <1>3 DEF Overwrites, Gets, Keeps
<1>6. x = [Answer(y, OldReply(y), y.st \in is_updated) EXCEPT !.logged = TRUE]
  BY <1>0, <1>1, <1>4 DEF cmd_getset, SetAnswer
<1>7. x.rec = y.rec /\ x.reply = OldReply(y) /\ x.logged
  BY <1>6 DEF Answer
<1>8. /\ Gone(r, t) => l = Nil
      /\ ~Gone(r, t) => l # Nil /\ l.val = r.val /\ Sound(r) /\ ~expired(r, t)
  BY <1>0, LogicalIs
<1>9. Ref(c, l, t) = Result(Value(c.v, 0),
                               IF l = Nil THEN NullBulk ELSE Bulk(l.val))
  BY DEF Ref
<1>10. /\ After(c, l, t) = Value(c.v, 0)
       /\ Ref(c, l, t).reply = IF l = Nil THEN NullBulk ELSE Bulk(l.val)
  BY <1>2, <1>9 DEF Result, After
<1>11. Gone(r, t) => IF r = Nil \/ r.mutable
                     THEN y.st \in is_updated /\ Holds(y.rec, c.v, 0) /\ y.out.has = FALSE
                     ELSE y.rec = r
  <2> SUFFICES ASSUME Gone(r, i.now) PROVE OverGone(i, r, y)
    BY <1>3, <1>5 DEF OverGone
  <2> QED BY <1>3, <1>4, <1>5, OverwriteGone
<1>12. CASE Gone(r, t)
  <2>1. CASE r = Nil \/ r.mutable
    <3>1. Holds(x.rec, c.v, 0) /\ x.reply = Ref(c, l, t).reply
      BY <1>7, <1>8, <1>10, <1>11, <1>12, <2>1 DEF OldReply
    <3> QED BY <1>0, <1>2, <1>7, <1>10, <3>1, HoldsMeets
  <2>2. CASE ~(r = Nil \/ r.mutable)
    <3>1. RegionDependent(c, r, t)
      BY <1>12, <2>2 DEF Gone, RegionDependent, ExpiredReadOnly
    <3>2. x.rec = r
      BY <1>7, <1>11, <1>12, <2>2
    <3> QED BY <3>1, <3>2, RegionMeets
  <2> QED BY <2>1, <2>2
<1>13. CASE ~Gone(r, t)
  <2>1. PICK e : e = IF InCopy(i, r) THEN r.exp ELSE 0
    OBVIOUS
  <2>2. Holds(y.rec, c.v, e) /\ y.out.bytes = r.val /\ y.out.has = TRUE
    <3>1. Sound(r) /\ ~expired(r, i.now)
      BY <1>3, <1>8, <1>13
    <3>2. Holds(y.rec, i.v, IF InCopy(i, r) THEN IF i.e # 0 THEN i.e ELSE r.exp
                            ELSE IF Keeps(i) THEN r.exp ELSE i.e)
          /\ (Gets(i) => y.out.bytes = r.val /\ y.out.has = TRUE)
      BY <1>3, <1>4, <1>5, <3>1, OverwriteOp
    <3> QED BY <1>3, <1>5, <2>1, <3>2
  <2>3. CASE e # 0
    <3>1. r.exp # 0 /\ Copies(c, r)
      BY <1>3, <2>1, <2>3 DEF InCopy, Copies
    <3>2. expire_at_ms(c, t) = 0
      BY DEF Typed, expire_at_ms
    <3>3. RegionDependent(c, r, t)
      BY <1>13, <3>1, <3>2 DEF Gone, RegionDependent, TtlDependsOnCopy
    <3>4. Sound(x.rec)
      BY <1>7, <2>2 DEF Holds
    <3> QED BY <3>3, <3>4, RegionMeets
  <2>4. CASE e = 0
    <3>1. Holds(x.rec, c.v, 0) /\ x.reply = Ref(c, l, t).reply
      BY <1>7, <1>8, <1>10, <1>13, <2>2, <2>4 DEF OldReply
    <3> QED BY <1>0, <1>2, <1>7, <1>10, <3>1, HoldsMeets
  <2> QED BY <2>3, <2>4
<1> QED BY <1>12, <1>13

LEMMA DelMeets ==
  ASSUME StringConstants, NEW c, c.name = "DEL", Typed(c),
         NEW r, r = Nil \/ Sound(r), NEW o \in Outs, NEW t \in Int,
         NEW x, x = exec_command(c, r, o, t)
  PROVE  Meets(c, r, t, x)
<1>0. PICK l, y, sts : l = Logical(r, t) /\ y = delete(r, o) /\ sts = {"Deleted"}
  OBVIOUS
<1>1. x = cmd_del(c, r, o, t) /\ c.name # "SET"
  BY DEF exec_command
<1>2. PICK p : p = IF y.st \in sts THEN Integer(1) ELSE Integer(0)
  OBVIOUS
<1>3. x = Answer(y, p, y.st \in sts)
  BY <1>0, <1>1, <1>2 DEF cmd_del, Answering, One
<1>4. x.rec = y.rec /\ x.reply = p /\ (y.st \in sts => x.logged)
  BY <1>3, AnswerIs
<1>5. Ref(c, l, t) = Result(Nil, Integer(IF l = Nil THEN 0 ELSE 1))
  BY DEF Ref
<1>6. After(c, l, t) = Nil /\ Ref(c, l, t).reply = Integer(IF l = Nil THEN 0 ELSE 1)
  BY <1>1, <1>5 DEF Result, After
<1>7. (Gone(r, t) => l = Nil) /\ (~Gone(r, t) => l # Nil)
  BY <1>0, LogicalIs
<1>8. CASE r = Nil
  <2>1. y.st = "NotFound" /\ y.rec = Nil
    BY <1>0, <1>8 DEF delete, Done
  <2>2. x.rec = r /\ x.reply = Integer(0) /\ l = Nil
    BY <1>0, <1>2, <1>4, <1>7, <1>8, <2>1 DEF Gone
  <2>3. After(c, l, t) = l /\ x.reply = Ref(c, l, t).reply
    BY <1>6, <2>2
  <2> QED BY <1>0, <2>2, <2>3, StaysMeets
<1>9. CASE r # Nil
  <2>1. y.st = "Deleted" /\ y.rec = Nil
    BY <1>0, <1>9 DEF delete, Done
  <2>2. x.rec = Nil /\ x.reply = Integer(1) /\ x.logged
    BY <1>0, <1>2, <1>4, <2>1
  <2>3. KnownDivergence(c, r, t) \/ l # Nil
    BY <1>7, <1>9 DEF Gone, KnownDivergence
  <2>4. ~KnownDivergence(c, r, t) => x.reply = Ref(c, l, t).reply
    BY <1>6, <2>2, <2>3
  <2> QED BY <1>0, <1>6, <2>2, <2>4, GoneMeets
<1> QED BY <1>8, <1>9

LEMMA GetDelMeets ==
  ASSUME StringConstants, NEW c, c.name = "GETDEL", Typed(c),
         NEW r, r = Nil \/ Sound(r), NEW o \in Outs, NEW t \in Int,
         NEW x, x = exec_command(c, r, o, t)
  PROVE  Meets(c, r, t, x)
<1>0. PICK l, i, u : /\ l = Logical(r, t) /\ i = Input("GetDel", <<>>, 0, 0, t)
                     /\ u = [o EXCEPT !.bytes = <<>>]
  OBVIOUS
<1>1. x = cmd_getdel(c, r, o, t) /\ c.name # "SET"
  BY DEF exec_command
<1>2. <<>> \in Bytes /\ 0 \in Int /\ "GetDel" \in Ops
  BY DEF Ops, Bytes
<1>3. i \in Inputs /\ i.op = "GetDel" /\ i.v = <<>> /\ i.e = 0 /\ i.now = t /\ u \in Outs
  <2>1. u \in Outs
    BY <1>0, <1>2 DEF Outs
  <2>2. i = Input("GetDel", <<>>, 0, 0, t)
    BY <1>0
  <2>3. i \in Inputs /\ i.op = "GetDel" /\ i.v = <<>> /\ i.e = 0 /\ i.now = t
    BY <1>2, <2>2, InputIs
  <2> QED BY <2>1, <2>3
<1>4. PICK y, sts : y = rmw(i, r, u) /\ sts = {"Deleted"}
  OBVIOUS
<1>5. PICK p : p = IF y.st \in sts THEN Bulk(y.out.bytes) ELSE NullBulk
  OBVIOUS
<1>6. x = Answer(y, p, y.st \in sts)
  BY <1>0, <1>1, <1>4, <1>5 DEF cmd_getdel, Answering, BytesReply
<1>7. x.rec = y.rec /\ x.reply = p /\ (y.st \in sts => x.logged)
  BY <1>6, AnswerIs
<1>8. Ref(c, l, t) = Result(Nil, IF l = Nil THEN NullBulk ELSE Bulk(l.val))
  BY DEF Ref
<1>9. /\ After(c, l, t) = Nil
      /\ Ref(c, l, t).reply = IF l = Nil THEN NullBulk ELSE Bulk(l.val)
  BY <1>1, <1>8 DEF Result, After
<1>10. /\ Gone(r, t) => l = Nil
       /\ ~Gone(r, t) => l # Nil /\ l.val = r.val /\ Sound(r) /\ ~expired(r, t)
  BY <1>0, LogicalIs
<1>11. CASE Gone(r, t)
  <2>1. y.st \notin is_updated /\ y.rec \in {Nil, r}
    <3>1. Gone(r, i.now) /\ i.op \in {"GetDel", "GetEx", "Expire", "Persist"} /\ i.op # "GetEx"
      BY <1>3, <1>11
    <3> QED BY <1>3, <1>4, <3>1, UpdateGone
  <2>2. x.rec \in {Nil, r} /\ x.reply = NullBulk
    BY <1>4, <1>5, <1>7, <2>1 DEF is_updated
  <2>3. After(c, l, t) = l /\ x.reply = Ref(c, l, t).reply
    BY <1>9, <1>10, <1>11, <2>2
  <2> QED BY <1>0, <1>11, <2>2, <2>3, StaysMeets
<1>12. CASE ~Gone(r, t)
  <2>1. y.st = "Deleted" /\ y.rec = Nil /\ y.out.bytes = r.val
    <3>1. Sound(r) /\ ~expired(r, i.now)
      BY <1>3, <1>10, <1>12
    <3> QED BY <1>3, <1>4, <3>1, GetDelOp
  <2>2. x.rec = Nil /\ x.reply = Bulk(r.val) /\ x.logged
    BY <1>4, <1>5, <1>7, <2>1
  <2>3. x.reply = Ref(c, l, t).reply
    BY <1>9, <1>10, <1>12, <2>2
  <2> QED BY <1>0, <1>9, <2>2, <2>3, GoneMeets
<1> QED BY <1>11, <1>12

LEMMA GetExMeets ==
  ASSUME StringConstants, NEW c, c.name = "GETEX", Typed(c),
         NEW r, r = Nil \/ Sound(r), NEW o \in Outs, NEW t \in Int,
         NEW x, x = exec_command(c, r, o, t)
  PROVE  Meets(c, r, t, x)
<1>0. PICK l, e, u : /\ l = Logical(r, t) /\ e = expire_at_ms(c, t)
                     /\ u = [o EXCEPT !.bytes = <<>>]
  OBVIOUS
<1>1. x = cmd_getex(c, r, o, t) /\ c.name # "SET"
  BY DEF exec_command
<1>2. <<>> \in Bytes /\ 0 \in Int /\ e \in Int /\ "GetEx" \in Ops
  BY <1>0, ExpireAtType DEF Ops, Bytes
<1>3. PICK i : i = Input("GetEx", <<>>, 0, e, t)
  OBVIOUS
<1>4. i \in Inputs /\ i.op = "GetEx" /\ i.v = <<>> /\ i.e = e /\ i.now = t /\ u \in Outs
  <2>1. u \in Outs
    BY <1>0, <1>2 DEF Outs
  <2>2. i \in Inputs /\ i.op = "GetEx" /\ i.v = <<>> /\ i.e = e /\ i.now = t
    BY <1>2, <1>3, InputIs
  <2> QED BY <2>1, <2>2
<1>5. PICK y : y = rmw(i, r, u)
  OBVIOUS
<1>6. PICK p : p = IF y.st \in is_updated THEN Bulk(y.out.bytes) ELSE NullBulk
  OBVIOUS
<1>7. x = Answer(y, p, y.st \in is_updated)
  BY <1>0, <1>1, <1>3, <1>5, <1>6 DEF cmd_getex, Answering, BytesReply
<1>8. x.rec = y.rec /\ x.reply = p /\ (y.st \in is_updated => x.logged)
  BY <1>7, AnswerIs
<1>9. /\ Gone(r, t) => l = Nil
      /\ ~Gone(r, t) => l # Nil /\ l.val = r.val /\ Sound(r) /\ ~expired(r, t)
  BY <1>0, LogicalIs
<1>10. CASE Gone(r, t)
  <2>1. IF r # Nil /\ ~r.mutable THEN Sound(y.rec)
        ELSE y.st \notin is_updated /\ y.rec \in {Nil, r}
    <3>1. Gone(r, i.now) /\ i.op \in {"GetDel", "GetEx", "Expire", "Persist"}
      BY <1>4, <1>10
    <3> QED BY <1>4, <1>5, <3>1, UpdateGone
  <2>2. CASE r # Nil /\ ~r.mutable
    <3>1. RegionDependent(c, r, t)
      BY <1>10, <2>2 DEF Gone, RegionDependent, ExpiredReadOnly
    <3>2. Sound(x.rec)
      BY <1>8, <2>1, <2>2
    <3> QED BY <3>1, <3>2, RegionMeets
  <2>3. CASE ~(r # Nil /\ ~r.mutable)
    <3>1. x.rec \in {Nil, r} /\ x.reply = NullBulk
      BY <1>6, <1>8, <2>1, <2>3
    <3>2. Ref(c, l, t) = Result(l, NullBulk)
      BY <1>9, <1>10 DEF Ref
    <3>3. After(c, l, t) = l /\ x.reply = Ref(c, l, t).reply
      BY <1>1, <3>1, <3>2 DEF Result, After
    <3> QED BY <1>0, <1>10, <3>1, <3>3, StaysMeets
  <2> QED BY <2>2, <2>3
<1>11. CASE ~Gone(r, t)
  <2>1. y.st \in is_updated /\ Holds(y.rec, r.val, e) /\ y.out.bytes = r.val
    <3>1. /\ Sound(r) /\ ~expired(r, i.now) /\ i.op \in {"GetEx", "Expire", "Persist"}
          /\ i.op # "Persist" /\ i.op = "GetEx"
      BY <1>4, <1>9, <1>11
    <3>2. /\ y.st \in is_updated /\ Holds(y.rec, r.val, i.e)
          /\ (i.op = "GetEx" => y.out.bytes = r.val)
      BY <1>4, <1>5, <3>1, StampOp
    <3> QED BY <1>4, <3>2
  <2>2. Holds(x.rec, r.val, e) /\ x.reply = Bulk(r.val) /\ x.logged /\ r.val \in Bytes
    BY <1>6, <1>8, <1>9, <1>11, <2>1, RecordFacts
  <2>3. Ref(c, l, t) = Result(Value(r.val, e), Bulk(r.val))
    BY <1>0, <1>9, <1>11 DEF Ref
  <2>4. After(c, l, t) = Value(r.val, e) /\ x.reply = Ref(c, l, t).reply
    BY <1>1, <2>2, <2>3 DEF Result, After
  <2> QED BY <1>0, <1>2, <2>2, <2>4, HoldsMeets
<1> QED BY <1>10, <1>11

LEMMA ExpireMeets ==
  ASSUME StringConstants, NEW c, c.name = "PEXPIRE", Typed(c),
         NEW r, r = Nil \/ Sound(r), NEW o \in Outs, NEW t \in Int,
         NEW x, x = exec_command(c, r, o, t)
  PROVE  Meets(c, r, t, x)
<1>0. PICK l, e : l = Logical(r, t) /\ e = expire_at_ms(c, t)
  OBVIOUS
<1>1. x = cmd_expire(c, r, o, t) /\ c.name # "SET"
  BY DEF exec_command
<1>2. <<>> \in Bytes /\ 0 \in Int /\ e \in Int /\ "Expire" \in Ops
  BY <1>0, ExpireAtType DEF Ops, Bytes
<1>3. PICK i : i = Input("Expire", <<>>, 0, e, t)
  OBVIOUS
<1>4. i \in Inputs /\ i.op = "Expire" /\ i.v = <<>> /\ i.e = e /\ i.now = t
  BY <1>2, <1>3, InputIs
<1>5. PICK y : y = rmw(i, r, o)
  OBVIOUS
<1>6. PICK p : p = IF y.st \in is_updated THEN Integer(1) ELSE Integer(0)
  OBVIOUS
<1>7. x = Answer(y, p, y.st \in is_updated)
  BY <1>0, <1>1, <1>3, <1>5, <1>6 DEF cmd_expire, Answering, One
<1>8. x.rec = y.rec /\ x.reply = p /\ (y.st \in is_updated => x.logged)
  BY <1>7, AnswerIs
<1>9. /\ Gone(r, t) => l = Nil
      /\ ~Gone(r, t) => l # Nil /\ l.val = r.val /\ Sound(r) /\ ~expired(r, t)
  BY <1>0, LogicalIs
<1>10. CASE Gone(r, t)
  <2>1. y.st \notin is_updated /\ y.rec \in {Nil, r}
    <3>1. Gone(r, i.now) /\ i.op \in {"GetDel", "GetEx", "Expire", "Persist"} /\ i.op # "GetEx"
      BY <1>4, <1>10
    <3> QED BY <1>4, <1>5, <3>1, UpdateGone
  <2>2. x.rec \in {Nil, r} /\ x.reply = Integer(0)
    BY <1>6, <1>8, <2>1
  <2>3. Ref(c, l, t) = Result(l, Integer(0))
    BY <1>9, <1>10 DEF Ref
  <2>4. After(c, l, t) = l /\ x.reply = Ref(c, l, t).reply
    BY <1>1, <2>2, <2>3 DEF Result, After
  <2> QED BY <1>0, <1>10, <2>2, <2>4, StaysMeets
<1>11. CASE ~Gone(r, t)
  <2>1. y.st \in is_updated /\ Holds(y.rec, r.val, e)
    <3>1. /\ Sound(r) /\ ~expired(r, i.now) /\ i.op \in {"GetEx", "Expire", "Persist"}
          /\ i.op # "Persist"
      BY <1>4, <1>9, <1>11
    <3>2. y.st \in is_updated /\ Holds(y.rec, r.val, i.e)
      BY <1>4, <1>5, <3>1, StampOp
    <3> QED BY <1>4, <3>2
  <2>2. Holds(x.rec, r.val, e) /\ x.reply = Integer(1) /\ x.logged /\ r.val \in Bytes
    BY <1>6, <1>8, <1>9, <1>11, <2>1, RecordFacts
  <2>3. Ref(c, l, t) = Result(Value(r.val, e), Integer(1))
    BY <1>0, <1>9, <1>11 DEF Ref
  <2>4. After(c, l, t) = Value(r.val, e) /\ x.reply = Ref(c, l, t).reply
    BY <1>1, <2>2, <2>3 DEF Result, After
  <2> QED BY <1>0, <1>2, <2>2, <2>4, HoldsMeets
<1> QED BY <1>10, <1>11

LEMMA PersistMeets ==
  ASSUME StringConstants, NEW c, c.name = "PERSIST", Typed(c),
         NEW r, r = Nil \/ Sound(r), NEW o \in Outs, NEW t \in Int,
         NEW x, x = exec_command(c, r, o, t)
  PROVE  Meets(c, r, t, x)
<1>0. PICK l, i : l = Logical(r, t) /\ i = Input("Persist", <<>>, 0, 0, t)
  OBVIOUS
<1>1. x = cmd_persist(c, r, o, t) /\ c.name # "SET"
  BY DEF exec_command
<1>2. <<>> \in Bytes /\ 0 \in Int /\ "Persist" \in Ops
  BY DEF Ops, Bytes
<1>3. i \in Inputs /\ i.op = "Persist" /\ i.v = <<>> /\ i.e = 0 /\ i.now = t
  BY <1>0, <1>2, InputIs
<1>4. PICK y : y = rmw(i, r, o)
  OBVIOUS
<1>5. x = PersistAnswer(y)
  BY <1>0, <1>1, <1>4 DEF cmd_persist
<1>6. /\ Gone(r, t) => l = Nil
      /\ ~Gone(r, t) => l # Nil /\ l.val = r.val /\ l.exp = r.exp /\ Sound(r) /\ ~expired(r, t)
  BY <1>0, LogicalIs
<1>7. ASSUME y.st \notin is_updated, y.rec = r \/ (y.rec = Nil /\ Gone(r, t)), l = Nil \/ l.exp = 0
      PROVE  Meets(c, r, t, x)
  <2>1. x.rec = y.rec /\ x.reply = Integer(0)
    BY <1>5, <1>7 DEF PersistAnswer, Answer
  <2>2. Ref(c, l, t) = Result(l, Integer(0))
    BY <1>7 DEF Ref
  <2>3. After(c, l, t) = l /\ x.reply = Ref(c, l, t).reply
    BY <1>1, <2>1, <2>2 DEF Result, After
  <2> QED BY <1>0, <1>7, <2>1, <2>3, StaysMeets
<1>8. CASE Gone(r, t)
  <2>1. y.st \notin is_updated /\ y.rec \in {Nil, r}
    <3>1. Gone(r, i.now) /\ i.op \in {"GetDel", "GetEx", "Expire", "Persist"} /\ i.op # "GetEx"
      BY <1>3, <1>8
    <3> QED BY <1>3, <1>4, <3>1, UpdateGone
  <2> QED BY <1>6, <1>7, <1>8, <2>1
<1>9. CASE ~Gone(r, t)
  <2>1. IF r.mutable /\ r.exp = 0 THEN y.st \notin is_updated /\ y.rec = r
        ELSE y.st \in is_updated /\ Holds(y.rec, r.val, 0) /\ y.out.int = 1
    <3>1. /\ Sound(r) /\ ~expired(r, i.now) /\ i.op \in {"GetEx", "Expire", "Persist"}
      BY <1>3, <1>6, <1>9
    <3>2. IF i.op = "Persist" /\ r.mutable /\ r.exp = 0
          THEN y.st \notin is_updated /\ y.rec = r
          ELSE /\ y.st \in is_updated /\ Holds(y.rec, r.val, i.e)
               /\ i.op = "Persist" => y.out.int = 1
      BY <1>3, <1>4, <3>1, StampOp
    <3> QED BY <1>3, <3>2
  <2>2. CASE r.mutable /\ r.exp = 0
    BY <1>6, <1>7, <1>9, <2>1, <2>2
  <2>3. CASE ~(r.mutable /\ r.exp = 0)
    <3>1. y.st \in is_updated /\ y.out.int = 1 /\ Holds(y.rec, r.val, 0)
      BY <2>1, <2>3
    <3>2. x = Answer(y, Integer(1), y.st \in is_updated)
      <4>1. (y.st \in is_updated /\ y.out.int = 1) = (y.st \in is_updated)
        BY <3>1
      <4> QED BY <1>5, <3>1, <4>1 DEF PersistAnswer
    <3>3. x.rec = y.rec /\ x.reply = Integer(1) /\ (y.st \in is_updated => x.logged)
      BY <3>2, AnswerIs
    <3>4. Holds(x.rec, r.val, 0) /\ x.logged /\ r.val \in Bytes
      BY <1>6, <1>9, <3>1, <3>3, RecordFacts
    <3>5. Ref(c, l, t) = IF r.exp = 0 THEN Result(l, Integer(0))
                                 ELSE Result(Value(r.val, 0), Integer(1))
      BY <1>6, <1>9 DEF Ref
    <3>6. r.exp = 0 => l = Value(r.val, 0)
      BY <1>0, <1>9 DEF Gone, Logical, Value
    <3>7. After(c, l, t) = Value(r.val, 0)
      BY <1>1, <3>5, <3>6 DEF Result, After
    <3>8. KnownDivergence(c, r, t) \/ r.exp # 0
      BY <1>9, <2>3 DEF KnownDivergence, Gone
    <3>9. ~KnownDivergence(c, r, t) => x.reply = Ref(c, l, t).reply
      BY <3>3, <3>5, <3>8 DEF Result
    <3> QED BY <1>0, <1>2, <3>4, <3>7, <3>9, HoldsMeets
  <2> QED BY <2>2, <2>3
<1> QED BY <1>8, <1>9

(* SET: the expiry the reference gives a key that holds l.                 *)
KeptTtl(c, l, t) ==
  IF "KEEPTTL" \in c.opts /\ l # Nil /\ expire_at_ms(c, t) = 0 THEN l.exp
  ELSE expire_at_ms(c, t)
Refused(c, l) == IF l = Nil THEN "XX" \in c.opts ELSE "NX" \in c.opts
OldBulk(l) == IF l = Nil THEN NullBulk ELSE Bulk(l.val)

LEMMA RefSetIs ==
  ASSUME NEW c, c.name = "SET", ~({"NX", "XX"} \subseteq c.opts), NEW l, NEW t
  PROVE  /\ Ref(c, l, t).state =
              IF Refused(c, l) THEN l ELSE Value(c.v, KeptTtl(c, l, t))
         /\ Ref(c, l, t).reply =
              IF "GET" \in c.opts THEN OldBulk(l)
              ELSE IF Refused(c, l) THEN NullBulk ELSE OK
         /\ After(c, l, t) = IF Refused(c, l) /\ "GET" \notin c.opts THEN l
                             ELSE Value(c.v, KeptTtl(c, l, t))
<1>1. Ref(c, l, t) = RefSet(c, l, t)
  BY DEF Ref
<1>2. CASE Refused(c, l)
  <2>1. RefSet(c, l, t) =
          Result(l, IF "GET" \in c.opts THEN OldBulk(l) ELSE NullBulk)
    BY <1>2 DEF RefSet, Refused, OldBulk
  <2> QED BY <1>1, <1>2, <2>1 DEF Result, After, KeptTtl
<1>3. CASE ~Refused(c, l)
  <2>1. RefSet(c, l, t) =
          Result(Value(c.v, KeptTtl(c, l, t)),
                         IF "GET" \in c.opts THEN OldBulk(l) ELSE OK)
    BY <1>3 DEF RefSet, Refused, OldBulk, KeptTtl
  <2> QED BY <1>1, <1>3, <2>1 DEF Result, After, KeptTtl
<1> QED BY <1>2, <1>3

(* The expiry an overwriting SET leaves, where it does not depend on the   *)
(* region.                                                                 *)
LEMMA KeptIs ==
  ASSUME StringConstants, NEW c, c.name = "SET", Typed(c), NEW r, Sound(r), NEW t \in Int,
         ~expired(r, t), ~RegionDependent(c, r, t),
         NEW i \in Inputs, i.op = SetOp(c.opts), i.v = c.v, i.e = expire_at_ms(c, t),
         Overwrites(i)
  PROVE  (IF InCopy(i, r) THEN IF i.e # 0 THEN i.e ELSE r.exp ELSE IF Keeps(i) THEN r.exp ELSE i.e)
           = KeptTtl(c, Logical(r, t), t)
<1>1. Logical(r, t) # Nil /\ Logical(r, t).exp = r.exp /\ r # Nil
  BY LogicalIs, RecordFacts DEF Gone
<1>2. KeptTtl(c, Logical(r, t), t) = IF "KEEPTTL" \in c.opts /\ i.e = 0 THEN r.exp ELSE i.e
  BY <1>1 DEF KeptTtl
<1>3. Keeps(i) => "KEEPTTL" \in c.opts
  BY DEF Keeps, SetOp
<1>4. CASE i.e # 0
  <2>1. ~Keeps(i)
    BY <1>1, <1>4 DEF RegionDependent, KeepTtlWithExpiry, Keeps
  <2> QED BY <1>2, <1>4, <2>1
<1>5. CASE i.e = 0 /\ Keeps(i)
  BY <1>2, <1>3, <1>5
<1>6. CASE i.e = 0 /\ ~Keeps(i) /\ r.exp = 0
  BY <1>2, <1>6
<1>7. CASE i.e = 0 /\ ~Keeps(i) /\ r.exp # 0
  <2>1. InCopy(i, r) <=> Copies(c, r)
    BY <1>7 DEF InCopy, Copies
  <2>2. i.op \in {"SetXx", "SetGet"}
    BY <1>7 DEF Overwrites, Keeps
  <2>3. ~(Copies(c, r) = ("KEEPTTL" \notin c.opts))
    BY <1>1, <1>7, <2>2 DEF RegionDependent, TtlDependsOnCopy
  <2>4. Copies(c, r) <=> "KEEPTTL" \in c.opts
    BY <2>3, RecordFacts DEF Copies
  <2> QED BY <1>2, <1>7, <2>1, <2>4
<1> QED BY <1>4, <1>5, <1>6, <1>7

LEMMA SetMeets ==
  ASSUME StringConstants, NEW c, c.name = "SET", Typed(c),
         NEW r, r = Nil \/ Sound(r), NEW o \in Outs, NEW t \in Int,
         NEW x, x = exec_command(c, r, o, t)
  PROVE  Meets(c, r, t, x)
<1>0. PICK l, e : l = Logical(r, t) /\ e = expire_at_ms(c, t)
  OBVIOUS
<1>1. x = cmd_set(c, r, o, t)
  BY DEF exec_command
<1>2. c.v \in Bytes /\ e \in Int /\ 0 \in Int
  BY <1>0, ExpireAtType DEF Typed
<1>3. CASE {"NX", "XX"} \subseteq c.opts
  <2>1. x.rec = r /\ x.reply = Err
    BY <1>1, <1>3 DEF cmd_set, Reject, Answer, Done
  <2>2. Ref(c, l, t) = Result(l, Err)
    BY <1>3 DEF Ref, RefSet
  <2>3. After(c, l, t) = l /\ x.reply = Ref(c, l, t).reply
    BY <1>3, <2>1, <2>2 DEF Result, After
  <2> QED BY <1>0, <2>1, <2>3, StaysMeets
<1>4. CASE ~({"NX", "XX"} \subseteq c.opts)
  <2>1. PICK op, i : op = SetOp(c.opts) /\ i = Input(op, c.v, 0, e, t)
    OBVIOUS
  <2>2. op \in Ops
    BY <2>1 DEF Ops, SetOp
  <2>3. i \in Inputs /\ i.op = op /\ i.v = c.v /\ i.d = 0 /\ i.e = e /\ i.now = t
    <3>1. i = Input(op, c.v, 0, e, t)
      BY <2>1
    <3> QED BY <1>2, <2>2, <3>1, InputIs
  <2>4. PICK y, p : /\ y = (IF op = "Set" THEN upsert(i, r, o) ELSE rmw(i, r, o))
                    /\ p = IF "GET" \in c.opts THEN OldReply(y)
                           ELSE IF y.st \in is_updated THEN OK ELSE NullBulk
    OBVIOUS
  <2>5. x = Answer(y, p, y.st \in is_updated)
    BY <1>0, <1>1, <1>4, <2>1, <2>3, <2>4 DEF cmd_set, SetAnswer
  <2>6. x.rec = y.rec /\ x.reply = p /\ (y.st \in is_updated => x.logged)
    BY <2>5, AnswerIs
  <2>7. /\ Ref(c, l, t).reply =
             IF "GET" \in c.opts THEN OldBulk(l)
             ELSE IF Refused(c, l) THEN NullBulk ELSE OK
        /\ After(c, l, t) = IF Refused(c, l) /\ "GET" \notin c.opts THEN l
                            ELSE Value(c.v, KeptTtl(c, l, t))
    BY <1>4, RefSetIs
  <2>8. /\ Gone(r, t) => l = Nil /\ Gone(r, i.now)
        /\ ~Gone(r, t) => /\ l # Nil /\ l.val = r.val /\ Sound(r)
                          /\ ~expired(r, t) /\ ~expired(r, i.now)
    BY <1>0, <2>3, LogicalIs
  <2>9. (l = Nil \/ "KEEPTTL" \notin c.opts) => KeptTtl(c, l, t) = e
    BY <1>0 DEF KeptTtl
  <2>10. ASSUME y.st \in is_updated, Holds(y.rec, c.v, KeptTtl(c, l, t)), KeptTtl(c, l, t) \in Int,
                ~Refused(c, l), "GET" \notin c.opts
         PROVE  Meets(c, r, t, x)
    <3>1. x.logged /\ x.reply = Ref(c, l, t).reply /\ Holds(x.rec, c.v, KeptTtl(c, l, t))
      BY <2>4, <2>6, <2>7, <2>10
    <3>2. After(c, l, t) = Value(c.v, KeptTtl(c, l, t))
      BY <2>7, <2>10
    <3> QED BY <1>0, <1>2, <2>10, <3>1, <3>2, HoldsMeets
  <2>11. ASSUME y.st \notin is_updated, y.rec = r \/ (y.rec = Nil /\ Gone(r, t)),
                Refused(c, l), "GET" \notin c.opts
         PROVE  Meets(c, r, t, x)
    <3>1. After(c, l, t) = l /\ x.reply = Ref(c, l, t).reply
      BY <2>4, <2>6, <2>7, <2>11
    <3> QED BY <1>0, <2>6, <2>11, <3>1, StaysMeets
  <2>12. CASE op = "Set"
    <3>1. y.st \in is_updated /\ Holds(y.rec, c.v, e)
      BY <2>3, <2>4, <2>12, UpsertOp
    <3>2. "GET" \notin c.opts /\ "NX" \notin c.opts /\ "XX" \notin c.opts /\ "KEEPTTL" \notin c.opts
      BY <2>1, <2>12 DEF SetOp
    <3>3. ~Refused(c, l) /\ KeptTtl(c, l, t) = e
      BY <2>9, <3>2 DEF Refused
    <3> QED BY <1>2, <2>10, <3>1, <3>2, <3>3
  <2>13. CASE op = "SetNx"
    <3>1. "GET" \notin c.opts /\ "NX" \in c.opts /\ "XX" \notin c.opts
      BY <1>4, <2>1, <2>13 DEF SetOp
    <3>2. /\ Gone(r, t) => y.st \in is_updated /\ Holds(y.rec, c.v, e)
          /\ ~Gone(r, t) => y.st \notin is_updated /\ y.rec = r
      <4>1. y = rmw(i, r, o) /\ i.op = "SetNx"
        BY <2>3, <2>4, <2>13
      <4>2. /\ Gone(r, i.now) => y.st \in is_updated /\ Holds(y.rec, i.v, i.e)
            /\ ~Gone(r, i.now) => y.st \notin is_updated /\ y.rec = r
        BY <2>3, <4>1, SetNxOp
      <4> QED BY <2>3, <4>2
    <3>3. CASE Gone(r, t)
      <4>1. ~Refused(c, l) /\ KeptTtl(c, l, t) = e
        BY <2>8, <2>9, <3>1, <3>3 DEF Refused
      <4> QED BY <1>2, <2>10, <3>1, <3>2, <3>3, <4>1
    <3>4. CASE ~Gone(r, t)
      <4>1. Refused(c, l)
        BY <2>8, <3>1, <3>4 DEF Refused
      <4> QED BY <2>11, <3>1, <3>2, <3>4, <4>1
    <3> QED BY <3>3, <3>4
  <2>14. CASE op \in {"SetXx", "SetKeepTtl", "SetGet", "SetGetKeep"}
    <3>0. Overwrites(i) /\ y = rmw(i, r, o)
      BY <2>3, <2>4, <2>14 DEF Overwrites
    <3>1. /\ Gets(i) <=> "GET" \in c.opts
          /\ op = "SetXx" => "XX" \in c.opts /\ "NX" \notin c.opts
          /\ op = "SetKeepTtl" => "XX" \notin c.opts /\ "NX" \notin c.opts
          /\ ~Gets(i) => op \in {"SetXx", "SetKeepTtl"}
      BY <1>4, <2>1, <2>3, <2>14 DEF SetOp, Gets
    <3>2. CASE Gone(r, t)
      <4>1. /\ i.op = "SetXx" => y.st \notin is_updated /\ y.rec \in {Nil, r}
            /\ i.op = "SetKeepTtl" => y.st \in is_updated /\ Holds(y.rec, i.v, i.e)
            /\ Gets(i) => IF r = Nil \/ r.mutable
                          THEN y.st \in is_updated /\ Holds(y.rec, i.v, i.e) /\ y.out.has = FALSE
                          ELSE y.rec = r
        <5>1. /\ i \in Inputs /\ Overwrites(i) /\ (r = Nil \/ Sound(r)) /\ o \in Outs
              /\ Gone(r, i.now) /\ y = rmw(i, r, o)
          BY <2>3, <2>8, <3>0, <3>2
        <5>2. OverGone(i, r, y)
          BY <5>1, OverwriteGone
        <5> QED BY <5>2 DEF OverGone
      <4>2. l = Nil /\ KeptTtl(c, l, t) = e
        BY <2>8, <2>9, <3>2
      <4>3. CASE op = "SetXx"
        <5>1. Refused(c, l) /\ "GET" \notin c.opts
          BY <3>1, <4>2, <4>3, <2>3 DEF Refused, Gets
        <5> QED BY <2>3, <2>11, <3>2, <4>1, <4>3, <5>1
      <4>4. CASE op = "SetKeepTtl"
        <5>1. ~Refused(c, l) /\ "GET" \notin c.opts
          BY <3>1, <4>2, <4>4, <2>3 DEF Refused, Gets
        <5>2. y.st \in is_updated /\ Holds(y.rec, c.v, e)
          BY <2>3, <4>1, <4>4
        <5> QED BY <1>2, <2>10, <4>2, <5>1, <5>2
      <4>5. CASE Gets(i) /\ ~(r = Nil \/ r.mutable)
        <5>1. RegionDependent(c, r, t)
          BY <3>1, <3>2, <4>5 DEF Gone, RegionDependent, ExpiredReadOnly
        <5>2. x.rec = r
          BY <2>6, <4>1, <4>5
        <5> QED BY <5>1, <5>2, RegionMeets
      <4>6. CASE Gets(i) /\ (r = Nil \/ r.mutable)
        <5>1. y.st \in is_updated /\ Holds(y.rec, c.v, e) /\ y.out.has = FALSE
          BY <2>3, <4>1, <4>6
        <5>2. Holds(x.rec, c.v, e) /\ x.logged /\ x.reply = NullBulk
          BY <2>4, <2>6, <3>1, <4>6, <5>1 DEF OldReply
        <5>3. After(c, l, t) = Value(c.v, e) /\ x.reply = Ref(c, l, t).reply
          BY <2>7, <3>1, <4>2, <4>6, <5>2 DEF OldBulk
        <5> QED BY <1>0, <1>2, <5>2, <5>3, HoldsMeets
      <4> QED BY <3>1, <4>3, <4>4, <4>5, <4>6
    <3>3. CASE ~Gone(r, t)
      <4>1. PICK f : f = IF InCopy(i, r) THEN IF i.e # 0 THEN i.e ELSE r.exp
                         ELSE IF Keeps(i) THEN r.exp ELSE i.e
        OBVIOUS
      <4>2. /\ y.st \in is_updated /\ Holds(y.rec, c.v, f)
            /\ Gets(i) => y.out.bytes = r.val /\ y.out.has = TRUE
        <5>1. i \in Inputs /\ i.v = c.v /\ Sound(r) /\ ~expired(r, i.now)
          BY <2>3, <2>8, <3>3
        <5>2. /\ y.st \in is_updated
              /\ Holds(y.rec, i.v, IF InCopy(i, r) THEN IF i.e # 0 THEN i.e ELSE r.exp
                                   ELSE IF Keeps(i) THEN r.exp ELSE i.e)
              /\ Gets(i) => y.out.bytes = r.val /\ y.out.has = TRUE
          BY <3>0, <5>1, OverwriteOp
        <5> QED BY <4>1, <5>1, <5>2
      <4>3. CASE RegionDependent(c, r, t)
        <5>1. Sound(x.rec)
          BY <2>6, <4>2 DEF Holds
        <5> QED BY <4>3, <5>1, RegionMeets
      <4>4. CASE ~RegionDependent(c, r, t)
        <5>1. f = KeptTtl(c, l, t)
          <6>1. i \in Inputs /\ i.op = SetOp(c.opts) /\ i.v = c.v /\ i.e = expire_at_ms(c, t)
            BY <1>0, <2>1, <2>3
          <6>2. Sound(r) /\ ~expired(r, t)
            BY <2>8, <3>3
          <6> QED BY <1>0, <3>0, <4>1, <4>4, <6>1, <6>2, KeptIs
        <5>2. f \in Int /\ Holds(y.rec, c.v, f)
          BY <4>2 DEF Holds, Sound, Records
        <5>3. CASE ~Gets(i)
          <6>1. ~Refused(c, l) /\ "GET" \notin c.opts
            BY <2>3, <2>8, <3>1, <3>3, <5>3 DEF Refused
          <6> QED BY <2>10, <4>2, <5>1, <5>2, <6>1
        <5>4. CASE Gets(i)
          <6>1. Holds(x.rec, c.v, f) /\ x.logged /\ x.reply = Bulk(r.val)
            BY <2>4, <2>6, <3>1, <4>2, <5>4 DEF OldReply
          <6>2. After(c, l, t) = Value(c.v, f) /\ x.reply = Ref(c, l, t).reply
            BY <2>7, <2>8, <3>1, <3>3, <5>1, <5>4, <6>1 DEF OldBulk
          <6> QED BY <1>0, <1>2, <5>2, <6>1, <6>2, HoldsMeets
        <5> QED BY <5>3, <5>4
      <4> QED BY <4>3, <4>4
    <3> QED BY <3>2, <3>3
  <2> QED BY <2>1, <2>12, <2>13, <2>14 DEF SetOp
<1> QED BY <1>3, <1>4

LEMMA ExecMeets ==
  ASSUME StringConstants, NEW c, Typed(c), NEW r, r = Nil \/ Sound(r), NEW o \in Outs, NEW t \in Int
  PROVE  Meets(c, r, t, exec_command(c, r, o, t))
<1>1. CASE c.name \in {"GET", "STRLEN", "EXISTS", "TYPE", "TTL", "PTTL"}
  BY <1>1, GetMeets
<1>2. CASE c.name = "GETRANGE"
  BY <1>2, GetRangeMeets
<1>3. CASE c.name = "SET"
  BY <1>3, SetMeets
<1>4. CASE c.name = "SETNX"
  BY <1>4, SetNxMeets
<1>5. CASE c.name = "PSETEX"
  BY <1>5, SetExMeets
<1>6. CASE c.name = "GETSET"
  BY <1>6, GetSetMeets
<1>7. CASE c.name = "GETDEL"
  BY <1>7, GetDelMeets
<1>8. CASE c.name = "GETEX"
  BY <1>8, GetExMeets
<1>9. CASE c.name \in {"APPEND", "SETRANGE"}
  BY <1>9, LongerMeets
<1>10. CASE c.name = "INCRBY"
  BY <1>10, IncrMeets
<1>11. CASE c.name = "DEL"
  BY <1>11, DelMeets
<1>12. CASE c.name = "PEXPIRE"
  BY <1>12, ExpireMeets
<1>13. CASE c.name = "PERSIST"
  BY <1>13, PersistMeets
<1>14. c.name \in Names
  BY DEF Typed
<1> QED BY <1>1, <1>2, <1>3, <1>4, <1>5, <1>6, <1>7, <1>8, <1>9, <1>10, <1>11, <1>12, <1>13, <1>14
         DEF Names

LEMMA CommandTyped ==
  ASSUME StringConstants, NEW name, NEW v \in Bytes, NEW d \in Int, NEW opts, NEW x,
         opts \subseteq {"NX", "XX", "GET", "KEEPTTL"}, x.keyword \in {"none", "EX", "PX", "EXAT", "PXAT"}, x.t \in Int,
         name \in Names, name = "INCRBY" => d \in I64, name = "GETSET" => x.keyword = "none"
  PROVE  Typed(Command(name, v, d, opts, x))
BY DEF Command, Typed

LEMMA CommandsTyped ==
  ASSUME StringConstants, NEW c \in StringCommands
  PROVE  Typed(c)
<1>0. /\ \A v \in Operands : v \in Bytes
      /\ <<>> \in Bytes /\ 0 \in Int
      /\ {} \subseteq {"NX", "XX", "GET", "KEEPTTL"}
      /\ \A opts \in SetOptions : opts \subseteq {"NX", "XX", "GET", "KEEPTTL"}
  BY DEF StringConstants, Bytes
<1>1. \A x \in Expiries : x.keyword \in {"none", "EX", "PX", "EXAT", "PXAT"} /\ x.t \in Int
  <2> TAKE x \in Expiries
  <2>1. CASE x = NoTime
    <3>1. x.keyword = "none" /\ x.t = 0
      BY <2>1 DEF NoTime
    <3> QED BY <3>1
  <2>2. CASE x \in [keyword : {"EX", "PX", "EXAT", "PXAT"}, t : Times]
    <3>1. x.keyword \in {"EX", "PX", "EXAT", "PXAT"} /\ x.t \in Times
      BY <2>2
    <3> QED BY <3>1 DEF StringConstants
  <2> QED BY <2>1, <2>2 DEF Expiries
<1>2. /\ NoTime.keyword = "none" /\ NoTime.t \in Int
      /\ NoTime.keyword \in {"none", "EX", "PX", "EXAT", "PXAT"}
  BY DEF NoTime
<1>3. CASE c \in SetCommands
  <2>1. PICK v \in Operands, opts \in SetOptions, x \in Expiries :
          c = Command("SET", v, 0, opts, x)
    BY <1>3 DEF SetCommands
  <2>2. "SET" \in Names /\ "SET" # "INCRBY" /\ "SET" # "GETSET"
    BY DEF Names
  <2> QED BY <1>0, <1>1, <2>1, <2>2, CommandTyped
<1>4. CASE c \in ReadCommands
  <2>1. CASE \E name \in {"GET", "STRLEN", "TTL", "PTTL", "EXISTS", "TYPE"} :
               c = Command(name, <<>>, 0, {}, NoTime)
    <3>1. PICK name \in {"GET", "STRLEN", "TTL", "PTTL", "EXISTS", "TYPE"} :
            c = Command(name, <<>>, 0, {}, NoTime)
      BY <2>1
    <3>2. name \in Names /\ name # "INCRBY"
      BY DEF Names
    <3> QED BY <1>0, <1>2, <3>1, <3>2, CommandTyped
  <2>2. CASE \E s \in {-2, 0, 1}, e \in {-4, -1, 0, 1} :
               c = Command("GETRANGE", <<>>, s, {}, [keyword |-> "none", t |-> e])
    <3>1. PICK s \in {-2, 0, 1}, e \in {-4, -1, 0, 1} :
            c = Command("GETRANGE", <<>>, s, {}, [keyword |-> "none", t |-> e])
      BY <2>2
    <3>2. PICK x : x = [keyword |-> "none", t |-> e]
      OBVIOUS
    <3>3. x.keyword \in {"none", "EX", "PX", "EXAT", "PXAT"} /\ x.t \in Int /\ s \in Int
      BY <3>2
    <3>4. "GETRANGE" \in Names /\ "GETRANGE" # "INCRBY" /\ "GETRANGE" # "GETSET"
      BY DEF Names
    <3>5. c = Command("GETRANGE", <<>>, s, {}, x)
      BY <3>1, <3>2
    <3> QED BY <1>0, <3>3, <3>4, <3>5, CommandTyped
  <2> QED BY <1>4, <2>1, <2>2 DEF ReadCommands
<1>5. CASE c \in UpdateCommands
  <2>1. CASE \E name \in {"SETNX", "GETSET", "APPEND"}, v \in Operands :
               c = Command(name, v, 0, {}, NoTime)
    <3>1. PICK name \in {"SETNX", "GETSET", "APPEND"}, v \in Operands :
            c = Command(name, v, 0, {}, NoTime)
      BY <2>1
    <3>2. name \in Names /\ name # "INCRBY"
      BY DEF Names
    <3> QED BY <1>0, <1>2, <3>1, <3>2, CommandTyped
  <2>2. CASE \E v \in Operands, d \in {-1, 0, 2} : c = Command("SETRANGE", v, d, {}, NoTime)
    <3>1. PICK v \in Operands, d \in {-1, 0, 2} : c = Command("SETRANGE", v, d, {}, NoTime)
      BY <2>2
    <3>2. d \in Int /\ "SETRANGE" \in Names /\ "SETRANGE" # "INCRBY"
      BY DEF Names
    <3> QED BY <1>0, <1>2, <3>1, <3>2, CommandTyped
  <2>3. CASE \E d \in Deltas : c = Command("INCRBY", <<>>, d, {}, NoTime)
    <3>1. PICK d \in Deltas : c = Command("INCRBY", <<>>, d, {}, NoTime)
      BY <2>3
    <3>2. d \in I64
      BY DEF StringConstants
    <3>3. d \in Int /\ "INCRBY" \in Names
      BY <3>2 DEF Names, I64, StringConstants
    <3> QED BY <1>0, <1>2, <3>1, <3>2, <3>3, CommandTyped
  <2>4. CASE \E v \in Operands, x \in [keyword : {"EX", "PX"}, t : Times] : c = Command("PSETEX", v, 0, {}, x)
    <3>1. PICK v \in Operands, x \in [keyword : {"EX", "PX"}, t : Times] : c = Command("PSETEX", v, 0, {}, x)
      BY <2>4
    <3>2. x.keyword \in {"none", "EX", "PX", "EXAT", "PXAT"} /\ x.t \in Int
      BY DEF StringConstants
    <3>3. "PSETEX" \in Names /\ "PSETEX" # "INCRBY" /\ "PSETEX" # "GETSET"
      BY DEF Names
    <3> QED BY <1>0, <3>1, <3>2, <3>3, CommandTyped
  <2> QED BY <1>5, <2>1, <2>2, <2>3, <2>4 DEF UpdateCommands
<1>6. CASE c \in ExpiryCommands
  <2>1. CASE \E name \in {"PERSIST", "GETDEL", "DEL"} : c = Command(name, <<>>, 0, {}, NoTime)
    <3>1. PICK name \in {"PERSIST", "GETDEL", "DEL"} : c = Command(name, <<>>, 0, {}, NoTime)
      BY <2>1
    <3>2. name \in Names /\ name # "INCRBY"
      BY DEF Names
    <3> QED BY <1>0, <1>2, <3>1, <3>2, CommandTyped
  <2>2. CASE \E x \in Expiries, name \in {"PEXPIRE", "GETEX"} : c = Command(name, <<>>, 0, {}, x)
    <3>1. PICK x \in Expiries, name \in {"PEXPIRE", "GETEX"} : c = Command(name, <<>>, 0, {}, x)
      BY <2>2
    <3>2. name \in Names /\ name # "INCRBY" /\ name # "GETSET"
      BY DEF Names
    <3> QED BY <1>0, <1>1, <3>1, <3>2, CommandTyped
  <2> QED BY <1>6, <2>1, <2>2 DEF ExpiryCommands
<1> QED BY <1>3, <1>4, <1>5, <1>6 DEF StringCommands

LEMMA EmptyScratch == EmptyOut \in Outs
BY DEF EmptyOut, Outs, Bytes

LEMMA ScratchType ==
  ASSUME NEW o \in Scratches
  PROVE  o \in Outs
<1>1. CASE o = EmptyOut
  BY <1>1, EmptyScratch
<1>2. CASE o \in [bytes : {<<97>>}, has : BOOLEAN, int : {1}]
  <2>1. <<97>> \in Bytes
    BY DEF Bytes
  <2> QED BY <1>2, <2>1 DEF Outs
<1> QED BY <1>1, <1>2 DEF Scratches

-----------------------------------------------------------------------------
(* The inductive invariant: both records are sound, and the replica holds  *)
(* for the clients what the store does.                                    *)

Held(r) == r = Nil \/ Sound(r)

StringsType == Held(rec) /\ Held(replica) /\ now \in Int /\ diverged \in BOOLEAN

Replica == diverged \/ Logical(rec, now) = Logical(replica, now)

StringsInv == StringsType /\ Replica

(* What is left of state s at time t.                                      *)
Due(s, t) == IF s # Nil /\ s.exp # 0 /\ s.exp <= t THEN Nil ELSE s

LEMMA LeavesLogical ==
  ASSUME StringConstants, NEW r, NEW s \in Holdings \cup {Nil}, NEW t \in Int, Leaves(r, s, t)
  PROVE  Logical(r, t) = Due(s, t)
<1>1. CASE s = Nil
  BY <1>1 DEF Leaves, Gone, Logical, Due
<1>2. CASE s # Nil
  <2>1. Sound(r) /\ r.val = s.val /\ r.exp = s.exp /\ s \in Holdings
    BY <1>2 DEF Leaves, Holds
  <2>2. s = [val |-> r.val, exp |-> r.exp]
    BY <2>1 DEF Holdings
  <2>3. r # Nil /\ (expired(r, t) <=> r.exp # 0 /\ r.exp <= t)
    BY <2>1, RecordFacts
  <2> QED BY <1>2, <2>1, <2>2, <2>3 DEF Logical, Due
<1> QED BY <1>1, <1>2

(* What two records hold for the clients stays the same when time passes.  *)
LEMMA LaterAgrees ==
  ASSUME StringConstants, NEW a, Held(a), NEW b, Held(b), NEW t \in Int, NEW u \in Int, t <= u,
         Logical(a, t) = Logical(b, t)
  PROVE  Logical(a, u) = Logical(b, u)
<1>1. /\ a # Nil => (\A w : expired(a, w) <=> a.exp # 0 /\ a.exp <= w) /\ a.exp \in Int
      /\ b # Nil => (\A w : expired(b, w) <=> b.exp # 0 /\ b.exp <= w) /\ b.exp \in Int
  BY RecordFacts DEF Held
<1>2. /\ Gone(a, t) => Logical(a, t) = Nil /\ Gone(a, u)
      /\ Gone(b, t) => Logical(b, t) = Nil /\ Gone(b, u)
  BY <1>1 DEF Gone, Logical
<1>3. /\ ~Gone(a, t) => Logical(a, t) # Nil /\ a # Nil /\ Logical(a, t).val = a.val
                        /\ Logical(a, t).exp = a.exp
      /\ ~Gone(b, t) => Logical(b, t) # Nil /\ b # Nil /\ Logical(b, t).val = b.val
                        /\ Logical(b, t).exp = b.exp
  BY LogicalIs DEF Held, Gone
<1>4. CASE Gone(a, t)
  <2>1. Gone(b, t)
    BY <1>2, <1>3, <1>4
  <2> QED BY <1>2, <1>4, <2>1 DEF Gone, Logical
<1>5. CASE ~Gone(a, t)
  <2>1. ~Gone(b, t)
    BY <1>2, <1>3, <1>5
  <2>2. a # Nil /\ b # Nil /\ a.val = b.val /\ a.exp = b.exp
    BY <1>3, <1>5, <2>1
  <2>3. expired(a, u) <=> expired(b, u)
    BY <1>1, <2>2
  <2> QED BY <2>2, <2>3 DEF Logical
<1> QED BY <1>4, <1>5

(* A record that drifts into the read-only region.                         *)
LEMMA DriftIs ==
  ASSUME StringConstants, NEW r, Sound(r), NEW t
  PROVE  Sound([r EXCEPT !.mutable = FALSE])
         /\ Logical([r EXCEPT !.mutable = FALSE], t) = Logical(r, t)
<1>1. PICK q : q = [r EXCEPT !.mutable = FALSE]
  OBVIOUS
<1>2. Sound(q) /\ q.val = r.val /\ q.exp = r.exp /\ q.slot = r.slot
  BY <1>1 DEF Sound, Records
<1>3. q # Nil /\ r # Nil
  BY <1>2, RecordFacts
<1>4. expired(q, t) <=> expired(r, t)
  BY <1>2 DEF expired
<1> QED BY <1>1, <1>2, <1>3, <1>4 DEF Logical

LEMMA StringsInit ==
  ASSUME StringConstants, StringInit
  PROVE  StringsInv
<1>1. rec = Nil /\ replica = Nil /\ now = 1 /\ diverged = FALSE
  BY DEF StringInit
<1>2. Logical(rec, now) = Logical(replica, now)
  BY <1>1
<1>3. diverged \in BOOLEAN
  BY <1>1, Zenon
<1>4. StringsType
  <2>1. now \in Int
    BY <1>1
  <2> QED BY <1>1, <1>3, <2>1 DEF StringsType, Held
<1>5. Replica
  BY <1>2 DEF Replica
<1> QED BY <1>4, <1>5 DEF StringsInv

LEMMA DispatchKeeps ==
  ASSUME StringConstants, StringsInv, NEW c \in StringCommands, dispatch(c)
  PROVE  StringsInv'
<1>0. Held(rec) /\ Held(replica) /\ now \in Int /\ diverged \in BOOLEAN /\ Typed(c)
  BY CommandsTyped DEF StringsInv, StringsType
<1>1. PICK x, z : /\ x = exec_command(c, rec, EmptyOut, now)
                  /\ z = exec_command(c, replica, EmptyOut, now)
  OBVIOUS
<1>2. Meets(c, rec, now, x) /\ Meets(c, replica, now, z)
  BY <1>0, <1>1, ExecMeets, EmptyScratch DEF Held
<1>3. PICK w : w = (diverged \/ RegionDependent(c, rec, now)
                      \/ (x.logged /\ RegionDependent(c, replica, now)))
  OBVIOUS
<1>4. /\ rec' = x.rec /\ now' = now /\ diverged' = w
      /\ replica' = IF w THEN Nil ELSE IF x.logged THEN z.rec ELSE replica
  BY <1>1, <1>3 DEF dispatch
<1>5. Held(x.rec) /\ Held(z.rec) /\ Held(Nil)
  BY <1>2 DEF Meets, Held
<1>6. Held(rec') /\ Held(replica')
  BY <1>0, <1>4, <1>5
<1>7. diverged' \in BOOLEAN
  <2>1. w \in BOOLEAN
    BY <1>3
  <2> QED BY <1>4, <2>1
<1>8. CASE w
  BY <1>0, <1>4, <1>6, <1>7, <1>8 DEF StringsInv, StringsType, Replica, Held
<1>9. CASE ~w
  <2>0. ~diverged /\ ~RegionDependent(c, rec, now)
        /\ (x.logged => ~RegionDependent(c, replica, now))
    BY <1>3, <1>9
  <2>1. PICK l : l = Logical(rec, now)
    OBVIOUS
  <2>2. l = Logical(replica, now)
    BY <2>0, <2>1 DEF StringsInv, Replica
  <2>3. PICK s : s = After(c, l, now)
    OBVIOUS
  <2>4. s \in Holdings \cup {Nil} /\ Leaves(x.rec, s, now) /\ (~x.logged => s = l)
    BY <1>2, <2>0, <2>1, <2>3 DEF Meets
  <2>5. Logical(x.rec, now) = Due(s, now)
    BY <1>0, <2>4, LeavesLogical
  <2>6. x.logged => Logical(z.rec, now) = Due(s, now)
    <3>1. x.logged => Leaves(z.rec, s, now)
      BY <1>2, <2>0, <2>2, <2>3 DEF Meets
    <3> QED BY <1>0, <2>4, <3>1, LeavesLogical
  <2>7. Due(l, now) = l
    <3>1. l \in Holdings \cup {Nil} /\ Leaves(rec, l, now)
      BY <1>0, <2>1, LogicalIs DEF Held
    <3> QED BY <1>0, <2>1, <3>1, LeavesLogical
  <2>8. PICK q : q = IF x.logged THEN z.rec ELSE replica
    OBVIOUS
  <2>9. Logical(x.rec, now) = Logical(q, now) /\ Held(q)
    BY <1>0, <1>5, <2>2, <2>4, <2>5, <2>6, <2>7, <2>8
  <2>10. rec' = x.rec /\ replica' = q /\ now' = now
    BY <1>4, <1>9, <2>8
  <2>11. (Logical(rec, now) = Logical(replica, now))'
    BY <2>9, <2>10 DEF Logical, expired
  <2> QED BY <1>0, <1>4, <1>6, <1>7, <2>11 DEF StringsInv, StringsType, Replica, Held
<1> QED BY <1>8, <1>9

LEMMA StringsStep ==
  ASSUME StringConstants, StringsInv, [StringNext]_string_vars
  PROVE  StringsInv'
<1>0. Held(rec) /\ Held(replica) /\ now \in Int /\ diverged \in BOOLEAN
  BY DEF StringsInv, StringsType
<1>1. ASSUME NEW c \in StringCommands, dispatch(c) PROVE StringsInv'
  BY <1>1, DispatchKeeps
<1>2. CASE Tick
  <2>1. PICK u : u = now + 1
    OBVIOUS
  <2>2. u \in Int /\ now <= u /\ now' = u /\ rec' = rec /\ replica' = replica
        /\ diverged' = diverged
    BY <1>0, <1>2, <2>1 DEF Tick
  <2>3. diverged \/ Logical(rec, u) = Logical(replica, u)
    BY <1>0, <2>2, LaterAgrees DEF StringsInv, Replica
  <2> QED BY <1>0, <2>2, <2>3 DEF StringsInv, StringsType, Replica, Held, Logical, expired
<1>3. CASE Drift
  <2>1. PICK q : q = [rec EXCEPT !.mutable = FALSE]
    OBVIOUS
  <2>2. Sound(q) /\ Logical(q, now) = Logical(rec, now)
    BY <1>0, <1>3, <2>1, DriftIs DEF Held, Drift
  <2>3. rec' = q /\ now' = now /\ replica' = replica /\ diverged' = diverged
    BY <1>3, <2>1 DEF Drift
  <2>4. diverged \/ Logical(q, now) = Logical(replica, now)
    BY <2>2 DEF StringsInv, Replica
  <2> QED BY <1>0, <2>2, <2>3, <2>4 DEF StringsInv, StringsType, Replica, Held
<1>4. CASE DriftReplica
  <2>1. PICK q : q = [replica EXCEPT !.mutable = FALSE]
    OBVIOUS
  <2>2. Sound(q) /\ Logical(q, now) = Logical(replica, now)
    BY <1>0, <1>4, <2>1, DriftIs DEF Held, DriftReplica
  <2>3. rec' = rec /\ now' = now /\ replica' = q /\ diverged' = diverged
    BY <1>4, <2>1 DEF DriftReplica
  <2>4. diverged \/ Logical(rec, now) = Logical(q, now)
    BY <2>2 DEF StringsInv, Replica
  <2> QED BY <1>0, <2>2, <2>3, <2>4 DEF StringsInv, StringsType, Replica, Held
<1>5. CASE Save
  <2>1. PICK q : q = IF rec = Nil THEN Nil ELSE [rec EXCEPT !.mutable = FALSE]
    OBVIOUS
  <2>2. Held(q) /\ Logical(q, now) = Logical(rec, now)
    BY <1>0, <2>1, DriftIs DEF Held
  <2>3. rec' = rec /\ now' = now /\ replica' = q /\ diverged' = FALSE
    BY <1>5, <2>1 DEF Save
  <2> QED BY <1>0, <2>2, <2>3 DEF StringsInv, StringsType, Replica, Held
<1>6. CASE UNCHANGED string_vars
  BY <1>6 DEF string_vars, StringsInv, StringsType, Replica, Held, Logical, expired
<1> QED BY <1>1, <1>2, <1>3, <1>4, <1>5, <1>6 DEF StringNext

LEMMA StringsInvariance == StringSpec => []StringsInv
<1>1. StringInit => StringsInv
  BY Assumed, StringsInit
<1>2. StringsInv /\ [StringNext]_string_vars => StringsInv'
  BY Assumed, StringsStep
<1> QED BY <1>1, <1>2, PTL DEF StringSpec

(* The size callbacks (upsert_size, initial_size, copy_size) allot what    *)
(* the writers of functions.rs fill, whatever the commands, the operands   *)
(* and the region of the record: a value never exceeds the capacity of its *)
(* record and an expiry has its slot, in the store and in the replica.     *)
THEOREM ValueFitsHolds == StringSpec => []ValueFits
<1>0. StringConstants
  BY Assumed
<1>1. StringsInv => ValueFits
  <2> SUFFICES ASSUME StringsInv, NEW r \in {rec, replica} \ {Nil}
               PROVE  Len(r.val) <= r.cap /\ (r.exp # 0 => r.slot)
    BY DEF ValueFits
  <2>1. Sound(r)
    BY DEF StringsInv, StringsType, Held
  <2> QED BY <1>0, <2>1, RecordFacts
<1> QED BY <1>1, StringsInvariance, PTL

(* Executing what after_write logged, at the logged times, on a store      *)
(* whose records lie in other regions of its log, gives the same value and *)
(* the same expiry at every later time, for every sequence of commands     *)
(* outside those whose effect depends on the region.                       *)
THEOREM ReplayAgreesHolds == StringSpec => []ReplayAgrees
<1>0. StringConstants
  BY Assumed
<1>1. StringsInv => ReplayAgrees
  <2> SUFFICES ASSUME StringsInv, ~diverged, NEW u \in now .. MaxTime
               PROVE  Logical(rec, u) = Logical(replica, u)
    BY DEF ReplayAgrees
  <2>1. Held(rec) /\ Held(replica) /\ now \in Int /\ Logical(rec, now) = Logical(replica, now)
    BY DEF StringsInv, StringsType, Replica
  <2>2. u \in Int /\ now <= u
    BY <1>0, <2>1 DEF StringConstants
  <2> QED BY <1>0, <2>1, <2>2, LaterAgrees
<1> QED BY <1>1, StringsInvariance, PTL

(* The in-place, copy and initial callbacks of functions.rs agree: every   *)
(* command answers, and leaves for the clients, what the reference says,   *)
(* whatever the region, the capacity and the expiry slot of the record and *)
(* whatever out_scratch held, outside the divergences that are listed.     *)
THEOREM RegionIndependentHolds == StringSpec => []RegionIndependent
<1>0. StringConstants
  BY Assumed
<1>1. StringsInv => RegionIndependent
  <2> SUFFICES ASSUME StringsInv, NEW c \in StringCommands, NEW o \in Scratches,
                      ~KnownDivergence(c, rec, now)
               PROVE  Agrees(exec_command(c, rec, o, now),
                                     Ref(c, Logical(rec, now), now), now)
    BY DEF RegionIndependent
  <2>1. (rec = Nil \/ Sound(rec)) /\ now \in Int
    BY DEF StringsInv, StringsType, Held
  <2>2. PICK x, l, s : /\ x = exec_command(c, rec, o, now)
                       /\ l = Logical(rec, now)
                       /\ s = After(c, l, now)
    OBVIOUS
  <2>3. Meets(c, rec, now, x)
    BY <1>0, <2>1, <2>2, CommandsTyped, ScratchType, ExecMeets
  <2>4. ~RegionDependent(c, rec, now)
    BY DEF KnownDivergence
  <2>5. /\ s \in Holdings \cup {Nil} /\ Leaves(x.rec, s, now)
        /\ x.reply = Ref(c, l, now).reply
    BY <2>2, <2>3, <2>4 DEF Meets
  <2>6. Logical(x.rec, now) = Due(s, now)
    BY <1>0, <2>1, <2>5, LeavesLogical
  <2>7. s = Ref(c, l, now).state
    <3>1. CASE c.name = "SET" /\ "GET" \in c.opts /\ ~({"NX", "XX"} \subseteq c.opts)
      <4>1. "NX" \notin c.opts /\ "XX" \notin c.opts
        BY <3>1 DEF KnownDivergence
      <4>2. ~Refused(c, l)
        BY <4>1 DEF Refused
      <4>3. /\ Ref(c, l, now).state =
                 IF Refused(c, l) THEN l ELSE Value(c.v, KeptTtl(c, l, now))
            /\ After(c, l, now) = IF Refused(c, l) /\ "GET" \notin c.opts THEN l
                                  ELSE Value(c.v, KeptTtl(c, l, now))
        BY <3>1, RefSetIs
      <4> QED BY <2>2, <4>2, <4>3
    <3>2. CASE ~(c.name = "SET" /\ "GET" \in c.opts /\ ~({"NX", "XX"} \subseteq c.opts))
      BY <2>2, <3>2 DEF After
    <3> QED BY <3>1, <3>2
  <2> QED BY <2>2, <2>5, <2>6, <2>7 DEF Agrees, Due
<1> QED BY <1>1, StringsInvariance, PTL
=============================================================================
