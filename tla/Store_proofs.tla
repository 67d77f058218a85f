----------------------------- MODULE Store_proofs -----------------------------
(***************************************************************************)
(* Theorems about Store, for any number of threads, keys, records and      *)
(* calls: the newest record of a key is open, what lies below SafeReadOnly *)
(* is frozen, and every operation is atomic, unless Head overtakes what an *)
(* update saw before it went to disk.  Theorems about Checkpoint: this is  *)
(* so while the version shifts under the operations, a checkpoint holds    *)
(* the effects of its version and of no later one, and recovery restores   *)
(* them.                                                                   *)
(***************************************************************************)
EXTENDS Checkpoint, SequenceTheorems, WellFoundedInduction, TLAPS

Labels == {"idle", "enter", "latch", "act", "io", "done"}
Records ==
  [key : Keys, val : Nat, prev : Nat, tomb : BOOLEAN, new : BOOLEAN, sealed : BOOLEAN,
   valid : BOOLEAN]
Calls == [kind : Kinds, key : Keys]
Views == [head : Nat, read_only : Nat, safe_read_only : Nat]
Sources == [val : Nat, latest : Nat]

(* Type correctness of the state of Store.                                 *)
TypeOK ==
  /\ log \in Seq(Records)
  /\ entry \in Nat
  /\ head \in Nat /\ safe_read_only \in Nat /\ read_only \in Nat
  /\ latch \in Threads \cup {None} /\ readers \in SUBSET Threads
  /\ pc \in [Threads -> Labels]
  /\ call \in [Threads -> Calls \cup {None}]
  /\ answer \in [Threads -> Nat \cup {None}]
  /\ entered \in [Threads -> Nat]
  /\ view \in [Threads -> Views]
  /\ disk \in [Threads -> Nat]
  /\ src \in [Threads -> Sources \cup {None}]
  /\ evictions \in Nat

(* A record is linked to the one before it, and the entry to the last.     *)
OneChain ==
  /\ entry = Len(log)
  /\ \A i \in 1 .. Len(log) : log[i].prev = i - 1

Ordered ==
  1 <= head /\ head <= safe_read_only /\ safe_read_only <= read_only /\ read_only <= tail

(* Who has called, and who has been answered.                              *)
InProgress ==
  \A t \in Threads :
    /\ pc[t] = "idle" <=> call[t] = None
    /\ pc[t] = "done" <=> answer[t] # None
    /\ pc[t] # "idle" => kind(t) \in Ops

(* Nobody acts on the chain beside one that changes it.                    *)
Latched ==
  /\ latch # None => readers = {}
  /\ \A t \in Threads :
       pc[t] = "act" => IF kind(t) = "read" THEN t \in readers ELSE latch = t

(* SafeReadOnly stays below what a thread inside takes for ReadOnly.       *)
Protected ==
  \A t \in Threads :
    /\ pc[t] \in {"latch", "act"} =>
         entered[t] # 0 /\ safe_read_only <= entered[t] /\ entered[t] <= read_only
    /\ pc[t] = "act" =>
         /\ entered[t] <= view[t].read_only
         /\ 1 <= view[t].head /\ view[t].head <= head /\ view[t].head <= view[t].read_only

(* Who goes to disk, and where: below Head.                                *)
Fetching ==
  \A t \in Threads :
    /\ pc[t] = "io" =>
         src[t] \in Sources /\ disk[t] < head /\ kind(t) # "upsert"
    /\ pc[t] \in {"idle", "done"} => src[t] = None
    /\ pc[t] \in {"enter", "latch", "act"} /\ kind(t) \in {"read", "upsert"} => src[t] = None

(* The newest record of k at min or above among the first a of l, or 0.    *)
Newest(l, a, k, min) == Max({0} \cup {b \in 1 .. a : b >= min /\ l[b].key = k})

(* The value of k that the first a records of l spell out.                 *)
ImageOf(l, a, k) ==
  LET b == Newest(l, a, k, 1) IN IF b = 0 \/ l[b].tomb THEN Absent ELSE l[b].val

IInv ==
  /\ TypeOK /\ OneChain /\ Ordered /\ InProgress /\ Latched /\ Protected /\ Fetching
  /\ NewestIsOpen

-----------------------------------------------------------------------------
(* Operations that go to disk.                                             *)

(* Head does not overtake the chain head that an update saw before its     *)
(* I/O: unchanged_since_io looks for newer records in memory only.         *)
InTime ==
  \A t \in Threads : src[t] # None /\ kind(t) # "read" => head <= src[t].latest + 1

(* No record of k in l above b, up to a.                                   *)
Bare(l, b, a, k) == b <= a /\ a <= Len(l) /\ Newest(l, a, k, b + 1) = 0

(* What an operation fetches, or has fetched, from below Head was the      *)
(* value of its key when it left memory.                                   *)
Sourced(t) ==
  /\ pc[t] = "io" => Bare(log, disk[t], src[t].latest, key(t))
  /\ pc[t] \in {"enter", "latch", "act"} /\ src[t] # None =>
       \E b \in Nat : /\ b < head /\ Bare(log, b, src[t].latest, key(t))
                     /\ src[t].val = ImageOf(log, b, key(t))

(* A record that is no tombstone holds a value.                            *)
Solid(l) == \A i \in 1 .. Len(l) : l[i].tomb \/ l[i].val # 0

LInv == IInv /\ Solid(log) /\ \A t \in Threads : Sourced(t)

-----------------------------------------------------------------------------
(* Numbers.                                                                *)

(* A set of naturals that is not empty has a least element.                *)
LEMMA LeastElement ==
  ASSUME NEW T \in SUBSET Nat, T # {}
  PROVE  \E x \in T : \A y \in T : x <= y
<1> DEFINE R == OpToRel(<, Nat)
<1>1. IsWellFoundedOn(R, Nat)
  BY NatLessThanWellFounded, Zenon
<1>2. PICK x \in T : \A y \in T : ~(<<y, x>> \in R)
  <2> HIDE DEF R
  <2> QED BY <1>1, WFMin
<1>3. ASSUME NEW y \in T PROVE x <= y
  <2>1. x \in Nat /\ y \in Nat
    OBVIOUS
  <2>2. y < x => <<y, x>> \in R
    BY <2>1 DEF OpToRel
  <2>3. ~(y < x)
    BY <1>2, <2>2
  <2> QED BY <2>1, <2>3
<1> QED BY <1>2, <1>3

(* Induction over the naturals, for a set in place of a predicate.         *)
LEMMA NatSetInduction ==
  ASSUME NEW S \in SUBSET Nat, 0 \in S, \A n \in S : n + 1 \in S
  PROVE  S = Nat
<1> SUFFICES ASSUME Nat \ S # {} PROVE FALSE
  OBVIOUS
<1>1. PICK x \in Nat \ S : \A y \in Nat \ S : x <= y
  BY LeastElement
<1>2. x \in Nat /\ x # 0 /\ x - 1 \in Nat /\ ~(x <= x - 1)
  BY <1>1
<1>3. x - 1 \in S
  BY <1>1, <1>2
<1>4. (x - 1) + 1 = x
  BY <1>2
<1> QED BY <1>1, <1>3, <1>4

LEMMA MaxIs ==
  ASSUME NEW S, NEW a \in Nat, S \in SUBSET (0 .. a), S # {}
  PROVE  Max(S) \in S /\ \A y \in S : y <= Max(S)
<1> DEFINE U == {n \in Nat : \A y \in S : y <= n}
<1>1. PICK u \in U : \A n \in U : u <= n
  <2>1. a \in U /\ U \in SUBSET Nat
    OBVIOUS
  <2> HIDE DEF U
  <2> QED BY <2>1, LeastElement
<1>2. u \in Nat /\ (\A y \in S : y <= u) /\ \A y \in S : y \in Nat
  BY <1>1
<1>3. u \in S
  <2> SUFFICES ASSUME u \notin S PROVE FALSE
    OBVIOUS
  <2>1. PICK y \in S : TRUE
    OBVIOUS
  <2>2. u # 0
    BY <1>2, <2>1
  <2>3. u - 1 \in Nat /\ \A z \in S : z <= u - 1
    BY <1>2, <2>2
  <2>4. u <= u - 1
    BY <1>1, <2>3
  <2> QED BY <1>2, <2>4
<1>4. \E x \in S : \A y \in S : x >= y
  BY <1>2, <1>3
<1>5. Max(S) \in S /\ \A y \in S : Max(S) >= y
  BY <1>4 DEF Max
<1> QED BY <1>2, <1>5

-----------------------------------------------------------------------------
(* The newest record of a key.                                             *)

IsNewest(l, a, k, min, b) ==
  \/ b = 0 /\ \A i \in 1 .. a : i >= min => l[i].key # k
  \/ /\ b \in 1 .. a /\ b >= min /\ l[b].key = k
     /\ \A i \in b + 1 .. a : l[i].key # k

LEMMA NewestIs ==
  ASSUME NEW l, NEW a \in Nat, NEW k, NEW min \in Nat
  PROVE  IsNewest(l, a, k, min, Newest(l, a, k, min)) /\ Newest(l, a, k, min) \in 0 .. a
<1> DEFINE S == {0} \cup {b \in 1 .. a : b >= min /\ l[b].key = k}
           x == Max(S)
<1>1. S \in SUBSET (0 .. a) /\ S # {} /\ 0 \in S
  OBVIOUS
<1>2. x \in S /\ \A y \in S : y <= x
  <2> HIDE DEF S
  <2> QED BY <1>1, MaxIs
<1>3. x = Newest(l, a, k, min)
  BY DEF Newest
<1> HIDE DEF x
<1>4. CASE x = 0
  <2>1. \A i \in 1 .. a : i >= min => l[i].key # k
    BY <1>2, <1>4
  <2> QED BY <1>3, <1>4, <2>1 DEF IsNewest
<1>5. CASE x # 0
  <2>1. x \in 1 .. a /\ x >= min /\ l[x].key = k
    BY <1>2, <1>5
  <2>2. ASSUME NEW i \in x + 1 .. a PROVE l[i].key # k
    <3>1. i \in 1 .. a /\ i >= min /\ ~(i <= x)
      BY <2>1
    <3> QED BY <1>2, <3>1
  <2> QED BY <1>3, <2>1, <2>2 DEF IsNewest
<1> QED BY <1>4, <1>5

LEMMA NewestUnique ==
  ASSUME NEW l, NEW a \in Nat, NEW k, NEW min \in Nat, NEW b, IsNewest(l, a, k, min, b)
  PROVE  Newest(l, a, k, min) = b
<1>1. PICK x : x = Newest(l, a, k, min)
  OBVIOUS
<1>2. IsNewest(l, a, k, min, x)
  BY <1>1, NewestIs
<1>3. x = b
  BY <1>2 DEF IsNewest
<1> QED BY <1>1, <1>3

(* A record of k at min or above hides what is below min.                  *)
LEMMA NewestAbove ==
  ASSUME NEW l, NEW a \in Nat, NEW k, NEW min \in Nat, min >= 1, Newest(l, a, k, min) # 0
  PROVE  Newest(l, a, k, 1) = Newest(l, a, k, min)
<1>1. PICK x : x = Newest(l, a, k, min)
  OBVIOUS
<1>2. IsNewest(l, a, k, min, x)
  BY <1>1, NewestIs
<1>3. IsNewest(l, a, k, 1, x)
  BY <1>1, <1>2 DEF IsNewest
<1> QED BY <1>1, <1>3, NewestUnique

(* Without one, it is the newest below min.                                *)
LEMMA NewestBelow ==
  ASSUME NEW l, NEW a \in Nat, NEW k, NEW min \in Nat, min >= 1, min <= a + 1,
         Newest(l, a, k, min) = 0
  PROVE  Newest(l, a, k, 1) = Newest(l, min - 1, k, 1)
<1>1. min - 1 \in Nat /\ min - 1 <= a
  OBVIOUS
<1>2. PICK x, c : x = Newest(l, min - 1, k, 1) /\ c = min - 1
  OBVIOUS
<1>3. IsNewest(l, c, k, 1, x)
  BY <1>1, <1>2, NewestIs
<1>4. IsNewest(l, a, k, min, 0)
  BY NewestIs
<1>5. \A i \in 1 .. a : i >= min => l[i].key # k
  BY <1>4 DEF IsNewest
<1>6. IsNewest(l, a, k, 1, x)
  BY <1>1, <1>2, <1>3, <1>5 DEF IsNewest
<1> QED BY <1>2, <1>6, NewestUnique

LEMMA NewestSame ==
  ASSUME NEW l, NEW m, NEW a \in Nat, NEW k, NEW min \in Nat,
         \A i \in 1 .. a : m[i].key = l[i].key
  PROVE  Newest(m, a, k, min) = Newest(l, a, k, min)
<1>1. {b \in 1 .. a : b >= min /\ m[b].key = k} = {b \in 1 .. a : b >= min /\ l[b].key = k}
  OBVIOUS
<1> QED BY <1>1 DEF Newest

(* One more record.                                                        *)
LEMMA NewestNext ==
  ASSUME NEW l, NEW a \in Nat, NEW k
  PROVE  Newest(l, a + 1, k, 1) = IF l[a + 1].key = k THEN a + 1 ELSE Newest(l, a, k, 1)
<1>0. a + 1 \in Nat
  OBVIOUS
<1>1. CASE l[a + 1].key = k
  <2>1. IsNewest(l, a + 1, k, 1, a + 1)
    BY <1>1 DEF IsNewest
  <2> QED BY <1>0, <1>1, <2>1, NewestUnique
<1>2. CASE l[a + 1].key # k
  <2>1. PICK x : x = Newest(l, a, k, 1)
    OBVIOUS
  <2>2. IsNewest(l, a, k, 1, x)
    BY <2>1, NewestIs
  <2>3. IsNewest(l, a + 1, k, 1, x)
    BY <1>2, <2>2 DEF IsNewest
  <2> QED BY <1>0, <1>2, <2>1, <2>3, NewestUnique
<1> QED BY <1>1, <1>2

-----------------------------------------------------------------------------
(* The value of a key.                                                     *)

ValueAt(l, b) == IF b = 0 \/ l[b].tomb THEN Absent ELSE l[b].val

LEMMA ImageIs ==
  ASSUME NEW l, NEW a, NEW k
  PROVE  ImageOf(l, a, k) = ValueAt(l, Newest(l, a, k, 1))
BY DEF ImageOf, ValueAt

LEMMA ImageType ==
  ASSUME NEW l \in Seq(Records), NEW a \in 0 .. Len(l), NEW k
  PROVE  ImageOf(l, a, k) \in Nat
<1>1. PICK b : b = Newest(l, a, k, 1)
  OBVIOUS
<1>2. b \in 0 .. a
  BY <1>1, NewestIs
<1>3. b # 0 => l[b] \in Records
  BY <1>2
<1> QED BY <1>1, <1>3, ImageIs DEF ValueAt, Records, Absent

(* Records that keep their keys, values and tombstones spell out the same. *)
LEMMA ImageSame ==
  ASSUME NEW l, NEW m, NEW a \in Nat, NEW k,
         \A i \in 1 .. a : m[i].key = l[i].key /\ m[i].val = l[i].val /\ m[i].tomb = l[i].tomb
  PROVE  ImageOf(m, a, k) = ImageOf(l, a, k)
<1>1. Newest(m, a, k, 1) = Newest(l, a, k, 1)
  BY NewestSame
<1>2. PICK b : b = Newest(l, a, k, 1)
  OBVIOUS
<1>3. b = 0 \/ b \in 1 .. a
  BY <1>2, NewestIs
<1> QED BY <1>1, <1>2, <1>3, ImageIs DEF ValueAt

(* Another key's record, or none: the record of k is as it was.            *)
LEMMA ImageOther ==
  ASSUME NEW l, NEW m, NEW a \in Nat, NEW k, NEW b \in 1 .. a,
         \A i \in 1 .. a : m[i].key = l[i].key,
         \A i \in 1 .. a : i # b => m[i].val = l[i].val /\ m[i].tomb = l[i].tomb,
         l[b].key # k
  PROVE  ImageOf(m, a, k) = ImageOf(l, a, k)
<1>1. Newest(m, a, k, 1) = Newest(l, a, k, 1)
  BY NewestSame
<1>2. PICK x : x = Newest(l, a, k, 1)
  OBVIOUS
<1>3. IsNewest(l, a, k, 1, x)
  BY <1>2, NewestIs
<1>4. x = 0 \/ (x \in 1 .. a /\ x # b)
  BY <1>3 DEF IsNewest
<1> QED BY <1>1, <1>2, <1>4, ImageIs DEF ValueAt

-----------------------------------------------------------------------------
(* The chain.                                                              *)

IsChain(g, l, n) ==
  g = [b \in 0 .. n |-> IF b = 0 THEN {} ELSE {b} \union g[l[b].prev]]

LEMMA ChainIs ==
  ASSUME NEW l, NEW n \in Nat, \A i \in 1 .. n : l[i].prev = i - 1, NEW a \in 0 .. n
  PROVE  (CHOOSE g : IsChain(g, l, n))[a] = 1 .. a
<1> DEFINE h == [b \in 0 .. n |-> 1 .. b]
           c == CHOOSE g : IsChain(g, l, n)
<1>1. \A b \in 0 .. n : h[b] = IF b = 0 THEN {} ELSE {b} \union h[l[b].prev]
  <2> TAKE b \in 0 .. n
  <2>1. CASE b = 0
    BY <2>1
  <2>2. CASE b # 0
    <3>1. b \in 1 .. n /\ l[b].prev = b - 1 /\ b - 1 \in 0 .. n
      BY <2>2
    <3>2. 1 .. b = {b} \union (1 .. b - 1)
      BY <3>1
    <3> QED BY <2>2, <3>1, <3>2
  <2> QED BY <2>1, <2>2
<1>2. IsChain(h, l, n)
  <2>1. h = [b \in 0 .. n |-> h[b]]
    OBVIOUS
  <2> HIDE DEF h
  <2> QED BY <1>1, <2>1 DEF IsChain
<1>3. IsChain(c, l, n)
  <2> HIDE DEF h
  <2> QED BY <1>2
<1> HIDE DEF c, h
<1> DEFINE S == {b \in Nat : b <= n => c[b] = 1 .. b}
<1>4. 0 \in S
  BY <1>3 DEF IsChain
<1>5. ASSUME NEW b \in S PROVE b + 1 \in S
  <2>1. SUFFICES ASSUME b + 1 <= n PROVE c[b + 1] = 1 .. b + 1
    OBVIOUS
  <2>2. b \in Nat /\ b + 1 \in 1 .. n /\ b + 1 \in 0 .. n /\ b + 1 # 0 /\ (b + 1) - 1 = b
    BY <2>1
  <2>3. c[b] = 1 .. b
    BY <2>1, <2>2
  <2>4. c[b + 1] = {b + 1} \union c[l[b + 1].prev]
    BY <1>3, <2>2 DEF IsChain
  <2>5. l[b + 1].prev = b
    BY <2>2
  <2>6. 1 .. b + 1 = {b + 1} \union (1 .. b)
    BY <2>2
  <2> QED BY <2>3, <2>4, <2>5, <2>6
<1>6. S = Nat
  <2>1. S \in SUBSET Nat
    OBVIOUS
  <2> HIDE DEF S
  <2> QED BY <1>4, <1>5, <2>1, NatSetInduction
<1>7. c[a] = 1 .. a
  BY <1>6
<1> QED BY <1>7 DEF c

LEMMA ChainNow ==
  ASSUME OneChain, Len(log) \in Nat, NEW a \in 0 .. Len(log)
  PROVE  Chain(a) = 1 .. a
<1>1. Chain(a) = (CHOOSE g : IsChain(g, log, Len(log)))[a]
  BY DEF Chain, IsChain
<1>2. PICK l, n : l = log /\ n = Len(log)
  OBVIOUS
<1>3. \A i \in 1 .. n : l[i].prev = i - 1
  BY <1>2 DEF OneChain
<1> QED BY <1>1, <1>2, <1>3, ChainIs

LEMMA ChainNext ==
  ASSUME OneChain', Len(log') \in Nat, NEW a \in 0 .. Len(log')
  PROVE  Chain(a)' = 1 .. a
<1>1. Chain(a)' = (CHOOSE g : IsChain(g, log', Len(log')))[a]
  BY DEF Chain, IsChain
<1>2. PICK l, n : l = log' /\ n = Len(log')
  OBVIOUS
<1>3. \A i \in 1 .. n : l[i].prev = i - 1
  BY <1>2 DEF OneChain
<1> QED BY <1>1, <1>2, <1>3, ChainIs

(* trace_back and find_on_disk on it.                                      *)
LEMMA TraceNow ==
  ASSUME OneChain, Len(log) \in Nat, NEW a \in 0 .. Len(log), NEW k, NEW min
  PROVE  /\ trace_back(a, k, min) = Newest(log, a, k, min)
         /\ Image(a, k) = ImageOf(log, a, k)
<1>1. Chain(a) = 1 .. a
  BY ChainNow
<1>2. trace_back(a, k, min) = Newest(log, a, k, min) /\ trace_back(a, k, 1) = Newest(log, a, k, 1)
  BY <1>1 DEF trace_back, Newest
<1> QED BY <1>2 DEF Image, ImageOf

LEMMA TraceNext ==
  ASSUME OneChain', Len(log') \in Nat, NEW a \in 0 .. Len(log'), NEW k, NEW min
  PROVE  /\ trace_back(a, k, min)' = Newest(log', a, k, min)
         /\ Image(a, k)' = ImageOf(log', a, k)
<1>1. Chain(a)' = 1 .. a
  BY ChainNext
<1>2. trace_back(a, k, min)' = Newest(log', a, k, min)
      /\ trace_back(a, k, 1)' = Newest(log', a, k, 1)
  BY <1>1 DEF trace_back, Newest
<1> QED BY <1>2 DEF Image, ImageOf

(* Where a walk stops: at the last record below min.                       *)
LEMMA StoppedIs ==
  ASSUME OneChain, Len(log) \in Nat, NEW a \in 0 .. Len(log), NEW min \in Nat, min >= 1
  PROVE  Stopped(a, min) = IF min - 1 <= a THEN min - 1 ELSE a
<1> DEFINE S == {0} \cup {b \in 1 .. a : b < min}
           x == Max(S)
<1>1. Stopped(a, min) = x
  BY ChainNow DEF Stopped
<1>2. S \in SUBSET (0 .. a) /\ S # {} /\ a \in Nat
  OBVIOUS
<1>3. x \in S /\ \A y \in S : y <= x
  <2> HIDE DEF S
  <2> QED BY <1>2, MaxIs
<1> HIDE DEF x
<1>4. CASE min - 1 <= a
  <2>1. min - 1 \in S
    BY <1>4
  <2>2. x \in Nat /\ x <= min - 1 /\ min - 1 <= x
    BY <1>3, <2>1
  <2> QED BY <1>1, <1>4, <2>2
<1>5. CASE ~(min - 1 <= a)
  <2>1. a \in S
    BY <1>5
  <2>2. x \in Nat /\ x <= a /\ a <= x
    BY <1>3, <2>1
  <2> QED BY <1>1, <1>5, <2>2
<1> QED BY <1>4, <1>5

-----------------------------------------------------------------------------
(* What an attempt finds.                                                  *)

LEMMA LogType ==
  ASSUME TypeOK
  PROVE  Len(log) \in Nat /\ (\A i \in 1 .. Len(log) : log[i] \in Records) /\ tail = Len(log) + 1
BY DEF TypeOK, tail

LEMMA CallType ==
  ASSUME TypeOK, InProgress, NEW t \in Threads, pc[t] # "idle"
  PROVE  call[t] \in Calls /\ key(t) \in Keys /\ kind(t) \in Ops /\ kind(t) \in Kinds
<1>1. call[t] \in Calls
  BY DEF TypeOK, InProgress
<1> QED BY <1>1 DEF Calls, InProgress, key, kind

LEMMA ViewBounds ==
  ASSUME TypeOK, Ordered, Protected, NEW t \in Threads, pc[t] = "act"
  PROVE  /\ view[t].head \in Nat /\ 1 <= view[t].head /\ view[t].head <= Len(log) + 1
         /\ lowest(t) \in Nat /\ 1 <= lowest(t)
         /\ view[t].read_only \in Nat /\ safe_read_only <= view[t].read_only
<1>1. view[t] \in Views /\ entered[t] \in Nat
  BY DEF TypeOK
<1>2. view[t].head \in Nat /\ view[t].read_only \in Nat
  BY <1>1 DEF Views
<1>3. /\ entered[t] # 0 /\ safe_read_only <= entered[t] /\ entered[t] <= view[t].read_only
      /\ 1 <= view[t].head /\ view[t].head <= head /\ view[t].head <= view[t].read_only
  BY DEF Protected
<1>4. /\ head \in Nat /\ safe_read_only \in Nat /\ read_only \in Nat /\ Len(log) \in Nat
      /\ head <= safe_read_only /\ safe_read_only <= read_only /\ read_only <= Len(log) + 1
  BY LogType DEF TypeOK, Ordered
<1> QED BY <1>1, <1>2, <1>3, <1>4 DEF lowest

LEMMA Found ==
  ASSUME TypeOK, OneChain, Ordered, Protected, NEW t \in Threads, pc[t] = "act"
  PROVE  /\ found(t) = Newest(log, Len(log), key(t), lowest(t))
         /\ found(t) \in 0 .. Len(log)
         /\ found(t) # 0 => /\ found(t) = Newest(log, Len(log), key(t), 1)
                            /\ found(t) >= lowest(t) /\ log[found(t)].key = key(t)
                            /\ log[found(t)] \in Records
         /\ stopped(t) = view[t].head - 1
<1>1. /\ view[t].head \in Nat /\ 1 <= view[t].head /\ view[t].head <= Len(log) + 1
      /\ lowest(t) \in Nat /\ 1 <= lowest(t) /\ Len(log) \in Nat
  BY ViewBounds, LogType
<1>2. entry = Len(log) /\ Len(log) \in 0 .. Len(log)
  BY <1>1 DEF OneChain
<1>3. PICK l, n, k, m, h : l = log /\ n = Len(log) /\ k = key(t) /\ m = lowest(t)
      /\ h = view[t].head
  OBVIOUS
<1>4. found(t) = Newest(l, n, k, m)
  BY <1>1, <1>2, <1>3, TraceNow DEF found
<1>5. IsNewest(l, n, k, m, found(t)) /\ found(t) \in 0 .. n
  BY <1>1, <1>3, <1>4, NewestIs
<1>6. found(t) # 0 => found(t) = Newest(l, n, k, 1)
  BY <1>1, <1>3, <1>4, NewestAbove
<1>7. found(t) # 0 => found(t) >= m /\ l[found(t)].key = k /\ found(t) \in 1 .. n
  BY <1>5 DEF IsNewest
<1>8. Stopped(n, h) = IF h - 1 <= n THEN h - 1 ELSE n
  BY <1>1, <1>2, <1>3, StoppedIs
<1>9. h - 1 <= n
  BY <1>1, <1>3
<1>10. stopped(t) = h - 1
  BY <1>2, <1>3, <1>8, <1>9 DEF stopped
<1>11. \A i \in 1 .. n : l[i] \in Records
  BY <1>3, LogType
<1> QED BY <1>3, <1>4, <1>5, <1>6, <1>7, <1>10, <1>11

LEMMA ValueType ==
  ASSUME TypeOK, OneChain, Ordered, Protected, NEW t \in Threads, Settled(t)
  PROVE  value(t) \in Nat
<1>1. pc[t] = "act" /\ (OnDisk(t) => src[t] # None)
  BY DEF Settled
<1>2. found(t) # 0 => log[found(t)] \in Records
  BY <1>1, Found
<1>3. OnDisk(t) => src[t] \in Sources
  BY <1>1 DEF TypeOK
<1> QED BY <1>2, <1>3 DEF value, Records, Sources, Absent

-----------------------------------------------------------------------------
(* What becomes of the log.                                                *)

SameContent(l, m, i) == m[i].key = l[i].key /\ m[i].val = l[i].val /\ m[i].tomb = l[i].tomb

(* The value and the tombstone of record f are overwritten.                *)
Rewrote(l, m, f, v, dead) ==
  /\ f \in 1 .. Len(l)
  /\ m \in Seq(Records) /\ Len(m) = Len(l)
  /\ \A i \in 1 .. Len(l) :
       /\ m[i].key = l[i].key /\ m[i].prev = l[i].prev
       /\ m[i].sealed = l[i].sealed /\ m[i].valid = l[i].valid /\ m[i].new = l[i].new
       /\ i # f => SameContent(l, m, i)
  /\ m[f].val = v /\ m[f].tomb = dead

(* A record of k is added, and perhaps an old one of k sealed.             *)
Grew(l, m, k, v, dead) ==
  /\ m \in Seq(Records) /\ Len(m) = Len(l) + 1
  /\ \A i \in 1 .. Len(l) :
       /\ SameContent(l, m, i) /\ m[i].prev = l[i].prev /\ m[i].valid = l[i].valid
       /\ m[i].new = l[i].new
       /\ m[i].sealed = l[i].sealed \/ l[i].key = k
  /\ m[Len(l) + 1].key = k /\ m[Len(l) + 1].val = v /\ m[Len(l) + 1].tomb = dead
  /\ m[Len(l) + 1].prev = Len(l)
  /\ ~m[Len(l) + 1].sealed /\ m[Len(l) + 1].valid

LEMMA ReplaceOne ==
  ASSUME NEW l \in Seq(Records), NEW f \in 1 .. Len(l), NEW r \in Records
  PROVE  LET m == [l EXCEPT ![f] = r]
         IN  /\ m \in Seq(Records) /\ Len(m) = Len(l) /\ m[f] = r
             /\ \A i \in 1 .. Len(l) : i # f => m[i] = l[i]
BY ExceptSeq

LEMMA RewroteIs ==
  ASSUME NEW l \in Seq(Records), NEW f \in 1 .. Len(l), NEW r \in Records,
         r.key = l[f].key, r.prev = l[f].prev, r.sealed = l[f].sealed, r.valid = l[f].valid,
         r.new = l[f].new
  PROVE  Rewrote(l, [l EXCEPT ![f] = r], f, r.val, r.tomb)
<1>1. PICK m : m = [l EXCEPT ![f] = r]
  OBVIOUS
<1>2. /\ m \in Seq(Records) /\ Len(m) = Len(l) /\ m[f] = r
      /\ \A i \in 1 .. Len(l) : i # f => m[i] = l[i]
  BY <1>1, ReplaceOne
<1> QED BY <1>1, <1>2 DEF Rewrote, SameContent

LEMMA GrewIs ==
  ASSUME NEW l \in Seq(Records), NEW m \in Seq(Records), NEW r \in Records, Len(m) = Len(l),
         \A i \in 1 .. Len(l) : /\ SameContent(l, m, i) /\ m[i].prev = l[i].prev
                                /\ m[i].valid = l[i].valid /\ m[i].new = l[i].new
                                /\ m[i].sealed = l[i].sealed \/ l[i].key = r.key,
         r.prev = Len(l), ~r.sealed, r.valid
  PROVE  /\ Grew(l, Append(m, r), r.key, r.val, r.tomb)
         /\ Append(m, r)[Len(l) + 1] = r
<1>1. PICK a, n : a = Append(m, r) /\ n = Len(l)
  OBVIOUS
<1>2. /\ a \in Seq(Records) /\ Len(a) = n + 1 /\ a[n + 1] = r
      /\ \A i \in 1 .. n : a[i] = m[i]
  BY <1>1
<1> QED BY <1>1, <1>2 DEF Grew, SameContent

LEMMA AppendGrows ==
  ASSUME TypeOK, OneChain, Ordered, InProgress, Protected, NEW t \in Threads, pc[t] = "act",
         NEW v \in Nat, NEW dead \in BOOLEAN, NEW seals \in BOOLEAN, seals => found(t) # 0,
         Append_record(t, v, dead, seals)
  PROVE  /\ Grew(log, log', key(t), v, dead) /\ entry' = Len(log) + 1
         /\ log'[Len(log) + 1].new = in_new_version(state[t])
<1>1. PICK l, f, k, s : l = log /\ f = found(t) /\ k = key(t) /\ s = in_new_version(state[t])
  OBVIOUS
<1>2. l \in Seq(Records) /\ Len(l) \in Nat /\ \A i \in 1 .. Len(l) : l[i] \in Records
  BY <1>1, LogType DEF TypeOK
<1>3. seals => f \in 1 .. Len(l) /\ l[f].key = k
  BY <1>1, <1>2, Found
<1>4. k \in Keys
  BY <1>1, CallType
<1>5. s \in BOOLEAN
  BY <1>1 DEF in_new_version
<1> DEFINE r == [key |-> k, val |-> v, prev |-> Len(l), tomb |-> dead, new |-> s,
                 sealed |-> FALSE, valid |-> TRUE]
           old == IF seals THEN [l EXCEPT ![f].sealed = TRUE] ELSE l
<1>6. log' = Append(old, r) /\ entry' = Len(log) + 1
  <2>1. entry = Len(l)
    BY <1>1 DEF OneChain
  <2> QED BY <1>1, <2>1 DEF Append_record, tail
<1>7. r \in Records
  BY <1>2, <1>4, <1>5 DEF Records
<1>8. /\ old \in Seq(Records) /\ Len(old) = Len(l)
      /\ \A i \in 1 .. Len(l) : /\ SameContent(l, old, i) /\ old[i].prev = l[i].prev
                                /\ old[i].valid = l[i].valid /\ old[i].new = l[i].new
                                /\ old[i].sealed = l[i].sealed \/ l[i].key = k
  <2>1. CASE seals
    <3> DEFINE q == [l[f] EXCEPT !.sealed = TRUE]
    <3>1. f \in 1 .. Len(l) /\ l[f].key = k /\ l[f] \in Records
      BY <1>2, <1>3, <2>1
    <3>2. /\ q \in Records /\ q.key = l[f].key /\ q.val = l[f].val /\ q.tomb = l[f].tomb
          /\ q.prev = l[f].prev /\ q.valid = l[f].valid /\ q.new = l[f].new
      BY <3>1 DEF Records
    <3>3. old = [l EXCEPT ![f] = q]
      BY <2>1
    <3> HIDE DEF q, old
    <3>4. /\ old \in Seq(Records) /\ Len(old) = Len(l) /\ old[f] = q
          /\ \A i \in 1 .. Len(l) : i # f => old[i] = l[i]
      BY <1>2, <3>1, <3>2, <3>3, ReplaceOne
    <3> QED BY <3>1, <3>2, <3>4 DEF SameContent
  <2>2. CASE ~seals
    BY <1>2, <2>2 DEF SameContent
  <2> QED BY <2>1, <2>2
<1>9. /\ r.key = k /\ r.val = v /\ r.tomb = dead /\ r.prev = Len(l) /\ ~r.sealed /\ r.valid
      /\ r.new = s
  OBVIOUS
<1> HIDE DEF r, old
<1>10. Grew(l, Append(old, r), r.key, r.val, r.tomb) /\ Append(old, r)[Len(l) + 1] = r
  BY <1>2, <1>7, <1>8, <1>9, GrewIs
<1> QED BY <1>1, <1>6, <1>9, <1>10

(* The two ways to change it, and who does.                                *)
Rewrites(t, v, dead) ==
  /\ InPlace(t) /\ kind(t) # "read" /\ Rewrote(log, log', found(t), v, dead) /\ entry' = entry
  /\ dead \/ v # 0

Grows(t, v, dead) ==
  /\ Settled(t) /\ kind(t) # "read" /\ Grew(log, log', key(t), v, dead) /\ entry' = Len(log) + 1
  /\ log'[Len(log) + 1].new = in_new_version(state[t])
  /\ dead \/ v # 0

LEMMA RewriteIs ==
  ASSUME TypeOK, OneChain, Ordered, Protected, NEW t \in Threads, InPlace(t)
  PROVE  /\ in_place_writer(t) => Rewrites(t, Written, FALSE)
         /\ in_place_updater(t) => Rewrites(t, value(t) + 1, FALSE)
         /\ in_place_delete(t) => Rewrites(t, log[found(t)].val, TRUE)
<1>1. pc[t] = "act" /\ found(t) # 0 /\ ~log[found(t)].tomb
  BY DEF InPlace, Settled, Live
<1>2. PICK l, f : l = log /\ f = found(t)
  OBVIOUS
<1>3. l \in Seq(Records) /\ f \in 1 .. Len(l) /\ l[f] \in Records /\ l[f].tomb = FALSE
  BY <1>1, <1>2, Found, LogType DEF TypeOK, Records
<1>4. value(t) = l[f].val /\ l[f].val \in Nat
  BY <1>1, <1>2, <1>3 DEF value, Records
<1>a. PICK y : y = l[f].val + 1
  OBVIOUS
<1>b. y \in Nat /\ y # 0 /\ Written # 0
  BY <1>4, <1>a, WrittenAssumption
<1> DEFINE w == [l[f] EXCEPT !.val = Written]
           u == [l[f] EXCEPT !.val = y]
           d == [l[f] EXCEPT !.tomb = TRUE]
<1>5. /\ w \in Records /\ w.key = l[f].key /\ w.prev = l[f].prev /\ w.sealed = l[f].sealed
      /\ w.valid = l[f].valid /\ w.new = l[f].new /\ w.val = Written /\ w.tomb = FALSE
  BY <1>3, WrittenAssumption DEF Records
<1>6. /\ u \in Records /\ u.key = l[f].key /\ u.prev = l[f].prev /\ u.sealed = l[f].sealed
      /\ u.valid = l[f].valid /\ u.new = l[f].new /\ u.val = y /\ u.tomb = FALSE
  BY <1>3, <1>b DEF Records
<1>7. /\ d \in Records /\ d.key = l[f].key /\ d.prev = l[f].prev /\ d.sealed = l[f].sealed
      /\ d.valid = l[f].valid /\ d.new = l[f].new /\ d.val = l[f].val /\ d.tomb = TRUE
  BY <1>3 DEF Records
<1>8. /\ in_place_writer(t) => log' = [l EXCEPT ![f] = w] /\ entry' = entry /\ kind(t) # "read"
      /\ in_place_updater(t) => log' = [l EXCEPT ![f] = u] /\ entry' = entry /\ kind(t) # "read"
      /\ in_place_delete(t) => log' = [l EXCEPT ![f] = d] /\ entry' = entry /\ kind(t) # "read"
  BY <1>2, <1>a DEF in_place_writer, in_place_updater, in_place_delete
<1> HIDE DEF w, u, d
<1>9. /\ Rewrote(l, [l EXCEPT ![f] = w], f, Written, FALSE)
      /\ Rewrote(l, [l EXCEPT ![f] = u], f, y, FALSE)
      /\ Rewrote(l, [l EXCEPT ![f] = d], f, l[f].val, TRUE)
  BY <1>3, <1>5, <1>6, <1>7, RewroteIs
<1> QED BY <1>2, <1>4, <1>a, <1>b, <1>8, <1>9 DEF Rewrites

LEMMA GrowIs ==
  ASSUME TypeOK, OneChain, Ordered, InProgress, Protected, NEW t \in Threads, Settled(t)
  PROVE  /\ append_upsert(t) => Grows(t, Written, FALSE)
         /\ rmw_initial(t) => Grows(t, IF kind(t) = "incr" THEN 1 ELSE Written, FALSE)
         /\ rmw_copy(t) => Grows(t, value(t) + 1, FALSE)
         /\ delete_rcu(t) => Grows(t, Absent, TRUE)
<1>1. pc[t] = "act" /\ value(t) \in Nat
  BY ValueType DEF Settled
<1>2. /\ Live(t) \in BOOLEAN /\ Mutable(t) \in BOOLEAN
      /\ (Live(t) => found(t) # 0) /\ (Mutable(t) => found(t) # 0)
  BY DEF Live, Mutable
<1>3. Written \in Nat /\ Absent \in Nat /\ value(t) + 1 \in Nat
      /\ (IF kind(t) = "incr" THEN 1 ELSE Written) \in Nat
      /\ Written # 0 /\ value(t) + 1 # 0 /\ (IF kind(t) = "incr" THEN 1 ELSE Written) # 0
  BY <1>1, WrittenAssumption DEF Absent
<1>4. CASE append_upsert(t)
  <2>1. Append_record(t, Written, FALSE, Live(t)) /\ kind(t) # "read"
    BY <1>4 DEF append_upsert
  <2>2. Grew(log, log', key(t), Written, FALSE) /\ entry' = Len(log) + 1
         /\ log'[Len(log) + 1].new = in_new_version(state[t])
    BY <1>1, <1>2, <1>3, <2>1, AppendGrows
  <2> QED BY <1>3, <1>4, <2>1, <2>2 DEF Grows, append_upsert, rmw_initial, rmw_copy, delete_rcu
<1>5. CASE rmw_initial(t)
  <2>1. Append_record(t, IF kind(t) = "incr" THEN 1 ELSE Written, FALSE, FALSE) /\ kind(t) # "read"
    BY <1>5 DEF rmw_initial
  <2>2. Grew(log, log', key(t), IF kind(t) = "incr" THEN 1 ELSE Written, FALSE)
        /\ entry' = Len(log) + 1
         /\ log'[Len(log) + 1].new = in_new_version(state[t])
    BY <1>1, <1>2, <1>3, <2>1, AppendGrows
  <2> QED BY <1>3, <1>5, <2>1, <2>2 DEF Grows, append_upsert, rmw_initial, rmw_copy, delete_rcu
<1>6. CASE rmw_copy(t)
  <2>1. Append_record(t, value(t) + 1, FALSE, Mutable(t)) /\ kind(t) # "read"
    BY <1>6 DEF rmw_copy
  <2>2. Grew(log, log', key(t), value(t) + 1, FALSE) /\ entry' = Len(log) + 1
         /\ log'[Len(log) + 1].new = in_new_version(state[t])
    BY <1>1, <1>2, <1>3, <2>1, AppendGrows
  <2> QED BY <1>3, <1>6, <2>1, <2>2 DEF Grows, append_upsert, rmw_initial, rmw_copy, delete_rcu
<1>7. CASE delete_rcu(t)
  <2>1. Append_record(t, Absent, TRUE, IF kind(t) = "delete" THEN Live(t) ELSE Mutable(t))
        /\ kind(t) # "read"
    BY <1>7 DEF delete_rcu
  <2>2. Grew(log, log', key(t), Absent, TRUE) /\ entry' = Len(log) + 1
         /\ log'[Len(log) + 1].new = in_new_version(state[t])
    <3>1. CASE kind(t) = "delete"
      <4>1. Append_record(t, Absent, TRUE, Live(t))
        BY <2>1, <3>1
      <4> QED BY <1>1, <1>2, <1>3, <4>1, AppendGrows
    <3>2. CASE kind(t) # "delete"
      <4>1. Append_record(t, Absent, TRUE, Mutable(t))
        BY <2>1, <3>2
      <4> QED BY <1>1, <1>2, <1>3, <4>1, AppendGrows
    <3> QED BY <3>1, <3>2
  <2> QED BY <1>3, <1>7, <2>1, <2>2 DEF Grows, append_upsert, rmw_initial, rmw_copy, delete_rcu
<1> QED BY <1>4, <1>5, <1>6, <1>7

-----------------------------------------------------------------------------
(* What a step does to the log, and where it takes a thread.               *)

(* An attempt ends with an answer, or starts again.                        *)
Finish(t, a) == pc[t] = "act" /\ a \in Nat /\ Done(t, a)
Backs(t) == pc[t] \in {"latch", "act"} /\ Leave(t, "enter") /\ UNCHANGED <<answer, disk, src>>

(* The steps that leave the log alone.                                     *)
Keeps(t) ==
  \/ invoke(t) \/ protect(t) \/ latch_and_load(t) \/ latch_busy(t) \/ retry(t)
  \/ go_to_disk(t) \/ io_update(t) \/ io_read(t) \/ no_effect(t)
  \/ allocation_blocked(t) \/ return(t)

LEMMA Ends ==
  ASSUME TypeOK, OneChain, Ordered, InProgress, Protected, NEW t \in Threads, op_step(t)
  PROVE  \/ Keeps(t) /\ log' = log /\ entry' = entry
         \/ \E v, dead : Rewrites(t, v, dead) /\ \E a : Finish(t, a)
         \/ \E v, dead : Grows(t, v, dead) /\ \E a : Finish(t, a)
<1>0. Written \in Nat
  BY WrittenAssumption
<1>1. CASE in_place_writer(t)
  <2>1. InPlace(t) /\ pc[t] = "act" /\ Done(t, Written)
    BY <1>1 DEF in_place_writer, InPlace, Settled
  <2>2. Finish(t, Written)
    BY <1>0, <2>1 DEF Finish
  <2>3. Rewrites(t, Written, FALSE)
    BY <1>1, <2>1, RewriteIs
  <2> QED BY <2>2, <2>3
<1>2. CASE in_place_updater(t)
  <2>1. InPlace(t) /\ Settled(t) /\ pc[t] = "act" /\ Done(t, value(t) + 1)
    BY <1>2 DEF in_place_updater, InPlace, Settled
  <2>2. value(t) + 1 \in Nat
    BY <2>1, ValueType
  <2>3. Finish(t, value(t) + 1)
    BY <2>1, <2>2 DEF Finish
  <2>4. Rewrites(t, value(t) + 1, FALSE)
    BY <1>2, <2>1, RewriteIs
  <2> QED BY <2>3, <2>4
<1>3. CASE in_place_delete(t)
  <2>1. InPlace(t) /\ Settled(t) /\ pc[t] = "act"
        /\ Done(t, IF kind(t) = "take" THEN value(t) ELSE 1)
    BY <1>3 DEF in_place_delete, InPlace, Settled
  <2>2. (IF kind(t) = "take" THEN value(t) ELSE 1) \in Nat
    BY <2>1, ValueType
  <2>3. Finish(t, IF kind(t) = "take" THEN value(t) ELSE 1)
    BY <2>1, <2>2 DEF Finish
  <2>4. Rewrites(t, log[found(t)].val, TRUE)
    BY <1>3, <2>1, RewriteIs
  <2> QED BY <2>3, <2>4
<1>4. CASE append_upsert(t)
  <2>1. Settled(t) /\ pc[t] = "act" /\ Done(t, Written)
    BY <1>4 DEF append_upsert, Settled
  <2>2. Finish(t, Written)
    BY <1>0, <2>1 DEF Finish
  <2>3. Grows(t, Written, FALSE)
    BY <1>4, <2>1, GrowIs
  <2> QED BY <2>2, <2>3
<1>5. CASE rmw_initial(t)
  <2>1. Settled(t) /\ pc[t] = "act" /\ Done(t, 1)
    BY <1>5 DEF rmw_initial, Settled
  <2>2. Finish(t, 1)
    BY <2>1 DEF Finish
  <2>3. Grows(t, IF kind(t) = "incr" THEN 1 ELSE Written, FALSE)
    BY <1>5, <2>1, GrowIs
  <2> QED BY <2>2, <2>3
<1>6. CASE rmw_copy(t)
  <2>1. Settled(t) /\ pc[t] = "act" /\ Done(t, value(t) + 1)
    BY <1>6 DEF rmw_copy, Settled
  <2>2. value(t) + 1 \in Nat
    BY <2>1, ValueType
  <2>3. Finish(t, value(t) + 1)
    BY <2>1, <2>2 DEF Finish
  <2>4. Grows(t, value(t) + 1, FALSE)
    BY <1>6, <2>1, GrowIs
  <2> QED BY <2>3, <2>4
<1>7. CASE delete_rcu(t)
  <2>1. Settled(t) /\ pc[t] = "act" /\ Done(t, IF kind(t) = "take" THEN value(t) ELSE 1)
    BY <1>7 DEF delete_rcu, Settled
  <2>2. (IF kind(t) = "take" THEN value(t) ELSE 1) \in Nat
    BY <2>1, ValueType
  <2>3. Finish(t, IF kind(t) = "take" THEN value(t) ELSE 1)
    BY <2>1, <2>2 DEF Finish
  <2>4. Grows(t, Absent, TRUE)
    BY <1>7, <2>1, GrowIs
  <2> QED BY <2>3, <2>4
<1>8. Keeps(t) => log' = log /\ entry' = entry
  BY DEF Keeps, invoke, protect, latch_and_load, latch_busy, retry, Retry, go_to_disk, io_update,
     io_read, no_effect, allocation_blocked, return
<1>9. \/ Keeps(t) \/ in_place_writer(t) \/ in_place_updater(t) \/ in_place_delete(t)
      \/ append_upsert(t) \/ rmw_initial(t) \/ rmw_copy(t) \/ delete_rcu(t)
  BY DEF op_step, Keeps
<1> QED BY <1>1, <1>2, <1>3, <1>4, <1>5, <1>6, <1>7, <1>8, <1>9

LEMMA LogCases ==
  ASSUME TypeOK, OneChain, Ordered, InProgress, Protected, [Next]_vars
  PROVE  \/ log' = log /\ entry' = entry
         \/ \E t \in Threads : \E v, dead : Rewrites(t, v, dead) \/ Grows(t, v, dead)
<1>1. ASSUME NEW t \in Threads, op_step(t)
      PROVE  \/ log' = log /\ entry' = entry
             \/ \E v, dead : Rewrites(t, v, dead) \/ Grows(t, v, dead)
  <2>1. CASE log' = log /\ entry' = entry
    BY <2>1
  <2>2. CASE \E v, dead : Rewrites(t, v, dead)
    BY <2>2
  <2>3. CASE \E v, dead : Grows(t, v, dead)
    BY <2>3
  <2> QED BY <1>1, <2>1, <2>2, <2>3, Ends
<1>2. log_step \/ UNCHANGED vars => log' = log /\ entry' = entry
  BY DEF log_step, shift_read_only, mark_read_only, shift_head, vars
<1> QED BY <1>1, <1>2 DEF Next

Moves(t) ==
  \/ invoke(t) \/ protect(t) \/ latch_and_load(t) \/ Backs(t) \/ go_to_disk(t)
  \/ io_update(t) \/ io_read(t) \/ (\E a : Finish(t, a)) \/ return(t)

LEMMA StepMoves ==
  ASSUME TypeOK, OneChain, Ordered, InProgress, Protected, NEW t \in Threads, op_step(t)
  PROVE  Moves(t)
<1>1. CASE latch_busy(t) \/ retry(t) \/ allocation_blocked(t)
  <2>1. pc[t] \in {"latch", "act"} /\ Retry(t)
    BY <1>1 DEF latch_busy, retry, allocation_blocked, Settled
  <2>2. Backs(t)
    BY <2>1 DEF Retry, Backs
  <2> QED BY <2>2 DEF Moves
<1>2. CASE no_effect(t)
  <2>1. Settled(t) /\ pc[t] = "act"
    BY <1>2 DEF no_effect, Settled
  <2>2. value(t) \in Nat /\ Absent \in Nat /\ 0 \in Nat
    BY <2>1, ValueType DEF Absent
  <2>3. Done(t, value(t)) \/ Done(t, Absent) \/ Done(t, 0)
    BY <1>2 DEF no_effect
  <2>4. Finish(t, value(t)) \/ Finish(t, Absent) \/ Finish(t, 0)
    BY <2>1, <2>2, <2>3 DEF Finish
  <2> QED BY <2>4 DEF Moves
<1>3. CASE \E a : Finish(t, a)
  BY <1>3 DEF Moves
<1>4. Keeps(t) \/ \E a : Finish(t, a)
  <2>1. CASE \E v, dead : Rewrites(t, v, dead) /\ \E a : Finish(t, a)
    BY <2>1
  <2>2. CASE \E v, dead : Grows(t, v, dead) /\ \E a : Finish(t, a)
    BY <2>2
  <2> QED BY <2>1, <2>2, Ends
<1> QED BY <1>1, <1>2, <1>3, <1>4 DEF Keeps, Moves

LEMMA StepCases ==
  ASSUME TypeOK, OneChain, Ordered, InProgress, Protected, [Next]_vars
  PROVE  \/ \E t \in Threads : Moves(t)
         \/ shift_read_only \/ mark_read_only \/ shift_head \/ UNCHANGED vars
BY StepMoves DEF Next, log_step

-----------------------------------------------------------------------------
(* The log.                                                                *)

(* Nothing changes below SafeReadOnly, and the log does not shrink.        *)
LEMMA Frozen ==
  ASSUME TypeOK, OneChain, Ordered, InProgress, Protected, [Next]_vars
  PROVE  /\ log' \in Seq(Records) /\ Len(log') \in Nat /\ Len(log) <= Len(log')
         /\ entry' = Len(log')
         /\ \A i \in 1 .. Len(log) : log'[i].prev = log[i].prev
         /\ \A i \in 1 .. Len(log) : i < safe_read_only => SameContent(log, log', i)
<1>0. log \in Seq(Records) /\ Len(log) \in Nat /\ entry = Len(log) /\ safe_read_only \in Nat
  BY LogType DEF TypeOK, OneChain
<1>1. PICK l, m, n : l = log /\ m = log' /\ n = Len(log)
  OBVIOUS
<1>2. CASE log' = log /\ entry' = entry
  BY <1>0, <1>2 DEF SameContent
<1>3. ASSUME NEW t \in Threads, NEW v, NEW dead, Rewrites(t, v, dead)
      PROVE  /\ m \in Seq(Records) /\ Len(m) = n /\ entry' = n
             /\ \A i \in 1 .. n : m[i].prev = l[i].prev
             /\ \A i \in 1 .. n : i < safe_read_only => SameContent(l, m, i)
  <2>1. pc[t] = "act" /\ found(t) >= view[t].read_only /\ entry' = entry
    BY <1>3 DEF Rewrites, InPlace, Settled
  <2>2. view[t].read_only \in Nat /\ safe_read_only <= view[t].read_only
    BY <2>1, ViewBounds
  <2>3. PICK f : f = found(t)
    OBVIOUS
  <2>4. Rewrote(l, m, f, v, dead)
    BY <1>1, <1>3, <2>3 DEF Rewrites
  <2>5. f \in 1 .. n /\ safe_read_only <= f
    BY <1>0, <1>1, <2>1, <2>2, <2>3, <2>4 DEF Rewrote
  <2> QED BY <1>0, <1>1, <2>1, <2>4, <2>5 DEF Rewrote
<1>4. ASSUME NEW t \in Threads, NEW v, NEW dead, Grows(t, v, dead)
      PROVE  /\ m \in Seq(Records) /\ Len(m) = n + 1 /\ entry' = n + 1
             /\ \A i \in 1 .. n : m[i].prev = l[i].prev
             /\ \A i \in 1 .. n : SameContent(l, m, i)
  <2>1. Grew(l, m, key(t), v, dead) /\ entry' = n + 1
    BY <1>1, <1>4 DEF Grows
  <2> QED BY <1>0, <1>1, <2>1 DEF Grew
<1>5. CASE \E t \in Threads : \E v, dead : Rewrites(t, v, dead)
  BY <1>0, <1>1, <1>3, <1>5
<1>6. CASE \E t \in Threads : \E v, dead : Grows(t, v, dead)
  BY <1>0, <1>1, <1>4, <1>6
<1> QED BY <1>2, <1>5, <1>6, LogCases

LEMMA ChainStep ==
  ASSUME TypeOK, OneChain, Ordered, InProgress, Protected, [Next]_vars
  PROVE  OneChain'
<1>0. log \in Seq(Records) /\ Len(log) \in Nat /\ entry = Len(log)
      /\ \A i \in 1 .. Len(log) : log[i].prev = i - 1
  BY LogType DEF TypeOK, OneChain
<1>1. entry' = Len(log') /\ \A i \in 1 .. Len(log) : log'[i].prev = log[i].prev
  BY Frozen
<1>2. CASE Len(log') = Len(log)
  BY <1>0, <1>1, <1>2 DEF OneChain
<1>3. ASSUME NEW t \in Threads, NEW v, NEW dead, Grows(t, v, dead)
      PROVE  OneChain'
  <2>1. PICK l, m, n : l = log /\ m = log' /\ n = Len(log)
    OBVIOUS
  <2>2. Grew(l, m, key(t), v, dead)
    BY <1>3, <2>1 DEF Grows
  <2>3. Len(m) = n + 1 /\ m[n + 1].prev = n
    BY <2>1, <2>2 DEF Grew
  <2>4. \A i \in 1 .. n + 1 : m[i].prev = i - 1
    BY <1>0, <1>1, <2>1, <2>3
  <2> QED BY <1>1, <2>1, <2>3, <2>4 DEF OneChain
<1>4. CASE \E t \in Threads : \E v, dead : Rewrites(t, v, dead)
  <2>1. Len(log') = Len(log)
    BY <1>4 DEF Rewrites, Rewrote
  <2> QED BY <1>2, <2>1
<1>5. CASE log' = log
  BY <1>2, <1>5
<1> QED BY <1>3, <1>4, <1>5, LogCases

(* NewestIsOpen, in the terms of the lemmas.                               *)
Open(l, n, k) ==
  LET a == Newest(l, n, k, 1) IN a # 0 => ~l[a].sealed /\ l[a].valid

LEMMA OpenNow ==
  ASSUME TypeOK, OneChain
  PROVE  NewestIsOpen <=> \A k \in Keys : Open(log, Len(log), k)
<1>1. entry = Len(log) /\ Len(log) \in Nat /\ Len(log) \in 0 .. Len(log)
  BY LogType DEF OneChain
<1>2. \A k \in Keys : trace_back(entry, k, 1) = Newest(log, Len(log), k, 1)
  BY <1>1, TraceNow
<1> QED BY <1>2 DEF NewestIsOpen, Open, is_closed

LEMMA OpenNext ==
  ASSUME OneChain', Len(log') \in Nat
  PROVE  NewestIsOpen' <=> \A k \in Keys : Open(log', Len(log'), k)
<1>1. entry' = Len(log') /\ Len(log') \in 0 .. Len(log')
  BY DEF OneChain
<1>2. PICK e : e = entry'
  OBVIOUS
<1>3. \A k \in Keys : trace_back(e, k, 1)' = Newest(log', Len(log'), k, 1)
  BY <1>1, <1>2, TraceNext
<1>4. \A k \in Keys : trace_back(entry, k, 1)' = trace_back(e, k, 1)'
  BY <1>2 DEF trace_back, Chain
<1> QED BY <1>3, <1>4 DEF NewestIsOpen, Open, is_closed

LEMMA OpenStep ==
  ASSUME TypeOK, OneChain, Ordered, InProgress, Protected, NewestIsOpen, [Next]_vars
  PROVE  NewestIsOpen'
<1>0. OneChain' /\ Len(log') \in Nat
  BY ChainStep, Frozen
<1>1. PICK l, m, n : l = log /\ m = log' /\ n = Len(log)
  OBVIOUS
<1>2. n \in Nat /\ Len(m) \in Nat /\ \A k \in Keys : Open(l, n, k)
  BY <1>0, <1>1, LogType, OpenNow
<1>3. SUFFICES ASSUME NEW k \in Keys PROVE Open(m, Len(m), k)
  BY <1>0, <1>1, OpenNext
<1>4. CASE m = l
  BY <1>1, <1>2, <1>4
<1>5. ASSUME NEW t \in Threads, NEW v, NEW dead, Rewrites(t, v, dead)
      PROVE  Open(m, Len(m), k)
  <2>1. PICK f : f = found(t)
    OBVIOUS
  <2>2. Rewrote(l, m, f, v, dead)
    BY <1>1, <1>5, <2>1 DEF Rewrites
  <2>3. Len(m) = n /\ \A i \in 1 .. n : /\ m[i].key = l[i].key
                                        /\ m[i].sealed = l[i].sealed /\ m[i].valid = l[i].valid
    BY <1>1, <2>2 DEF Rewrote
  <2>4. Newest(m, n, k, 1) = Newest(l, n, k, 1)
    BY <1>2, <2>3, NewestSame
  <2>5. Newest(l, n, k, 1) \in 0 .. n
    BY <1>2, NewestIs
  <2> QED BY <1>2, <2>3, <2>4, <2>5 DEF Open
<1>6. ASSUME NEW t \in Threads, NEW v, NEW dead, Grows(t, v, dead)
      PROVE  Open(m, Len(m), k)
  <2>1. PICK j : j = key(t)
    OBVIOUS
  <2>2. Grew(l, m, j, v, dead)
    BY <1>1, <1>6, <2>1 DEF Grows
  <2>3. /\ Len(m) = n + 1 /\ m[n + 1].key = j /\ ~m[n + 1].sealed /\ m[n + 1].valid
        /\ \A i \in 1 .. n : /\ m[i].key = l[i].key /\ m[i].valid = l[i].valid
                             /\ m[i].sealed = l[i].sealed \/ l[i].key = j
    BY <1>1, <2>2 DEF Grew, SameContent
  <2>4. Newest(m, n + 1, k, 1) = IF m[n + 1].key = k THEN n + 1 ELSE Newest(m, n, k, 1)
    BY <1>2, NewestNext
  <2>5. CASE k = j
    BY <2>3, <2>4, <2>5 DEF Open
  <2>6. CASE k # j
    <3>1. Newest(m, n, k, 1) = Newest(l, n, k, 1)
      BY <1>2, <2>3, NewestSame
    <3>2. PICK x : x = Newest(l, n, k, 1)
      OBVIOUS
    <3>3. IsNewest(l, n, k, 1, x)
      BY <1>2, <3>2, NewestIs
    <3>4. x # 0 => x \in 1 .. n /\ l[x].key = k
      BY <3>3 DEF IsNewest
    <3>5. x # 0 => ~m[x].sealed /\ m[x].valid
      BY <1>2, <2>3, <2>6, <3>2, <3>4 DEF Open
    <3> QED BY <2>3, <2>4, <2>6, <3>1, <3>2, <3>5 DEF Open
  <2> QED BY <2>5, <2>6
<1>7. CASE \E t \in Threads : \E v, dead : Rewrites(t, v, dead)
  BY <1>5, <1>7
<1>8. CASE \E t \in Threads : \E v, dead : Grows(t, v, dead)
  BY <1>6, <1>8
<1> QED BY <1>1, <1>4, <1>7, <1>8, LogCases

-----------------------------------------------------------------------------
(* The threads.                                                            *)

LEMMA FetchedType ==
  ASSUME TypeOK, OneChain, Ordered, Fetching, NEW t \in Threads, pc[t] = "io"
  PROVE  /\ disk[t] \in 0 .. Len(log) /\ disk[t] < head
         /\ Image(disk[t], key(t)) = ImageOf(log, disk[t], key(t))
         /\ Image(disk[t], key(t)) \in Nat
<1>1. disk[t] \in 0 .. Len(log) /\ disk[t] < head /\ Len(log) \in Nat
  BY LogType DEF TypeOK, Ordered, Fetching
<1>2. PICK l, d, k : l = log /\ d = disk[t] /\ k = key(t)
  OBVIOUS
<1>3. Image(d, k) = ImageOf(l, d, k)
  BY <1>1, <1>2, TraceNow
<1>4. ImageOf(l, d, k) \in Nat
  BY <1>1, <1>2, ImageType DEF TypeOK
<1> QED BY <1>1, <1>2, <1>3, <1>4

LEMMA TypeStep ==
  ASSUME TypeOK, OneChain, Ordered, InProgress, Protected, Fetching, [Next]_vars
  PROVE  TypeOK'
<1>a. log' \in Seq(Records) /\ entry' \in Nat
  BY Frozen
<1>1. ASSUME NEW t \in Threads, invoke(t) PROVE TypeOK'
  <2>1. UNCHANGED <<head, safe_read_only, read_only, latch, readers, answer,
                    entered, view, disk, src, evictions>>
    BY <1>1 DEF invoke, marks, locals
  <2>2. pc' \in [Threads -> Labels] /\ call' \in [Threads -> Calls \cup {None}]
    BY <1>1, OpsAssumption DEF invoke, TypeOK, Labels, Calls
  <2> QED BY <1>a, <2>1, <2>2 DEF TypeOK
<1>2. ASSUME NEW t \in Threads, protect(t) PROVE TypeOK'
  <2>1. UNCHANGED <<head, safe_read_only, read_only, latch, readers, call,
                    answer, view, disk, src, evictions>>
    BY <1>2 DEF protect, marks, locals
  <2>2. pc' \in [Threads -> Labels] /\ entered' \in [Threads -> Nat]
    BY <1>2 DEF protect, TypeOK, Labels
  <2> QED BY <1>a, <2>1, <2>2 DEF TypeOK
<1>3. ASSUME NEW t \in Threads, latch_and_load(t) PROVE TypeOK'
  <2>1. UNCHANGED <<head, safe_read_only, read_only, call, answer, entered,
                    disk, src, evictions>>
    BY <1>3 DEF latch_and_load, marks, locals
  <2>2. pc' \in [Threads -> Labels] /\ latch' \in Threads \cup {None} /\ readers' \in SUBSET Threads
    BY <1>3 DEF latch_and_load, TypeOK, Labels
  <2>3. view' \in [Threads -> Views]
    BY <1>3 DEF latch_and_load, TypeOK, Views
  <2> QED BY <1>a, <2>1, <2>2, <2>3 DEF TypeOK
<1>4. ASSUME NEW t \in Threads, Backs(t) PROVE TypeOK'
  <2>1. UNCHANGED <<head, safe_read_only, read_only, call, answer, disk, src, evictions>>
    BY <1>4 DEF Backs, Leave, marks, locals
  <2>2. pc' \in [Threads -> Labels] /\ latch' \in Threads \cup {None} /\ readers' \in SUBSET Threads
    BY <1>4 DEF Backs, Leave, TypeOK, Labels
  <2>3. entered' \in [Threads -> Nat] /\ view' \in [Threads -> Views]
    BY <1>4 DEF Backs, Leave, TypeOK, Views, NoView
  <2> QED BY <1>a, <2>1, <2>2, <2>3 DEF TypeOK
<1>5. ASSUME NEW t \in Threads, go_to_disk(t) PROVE TypeOK'
  <2>1. UNCHANGED <<head, safe_read_only, read_only, call, answer, evictions>>
    BY <1>5 DEF go_to_disk, Leave, marks, locals
  <2>2. pc' \in [Threads -> Labels] /\ latch' \in Threads \cup {None} /\ readers' \in SUBSET Threads
    BY <1>5 DEF go_to_disk, Leave, TypeOK, Labels
  <2>3. entered' \in [Threads -> Nat] /\ view' \in [Threads -> Views]
    BY <1>5 DEF go_to_disk, Leave, TypeOK, Views, NoView
  <2>4. src' \in [Threads -> Sources \cup {None}]
    BY <1>5 DEF go_to_disk, Leave, TypeOK, Sources, Absent
  <2>5. stopped(t) \in Nat /\ disk' = [disk EXCEPT ![t] = stopped(t)]
    BY <1>5, Found, ViewBounds DEF go_to_disk, Leave
  <2> QED BY <1>a, <2>1, <2>2, <2>3, <2>4, <2>5 DEF TypeOK
<1>6. ASSUME NEW t \in Threads, io_update(t) PROVE TypeOK'
  <2>1. UNCHANGED <<head, safe_read_only, read_only, latch, readers, call,
                    answer, entered, view, evictions>>
    BY <1>6 DEF io_update, marks, locals
  <2>2. pc' \in [Threads -> Labels] /\ disk' \in [Threads -> Nat]
    BY <1>6 DEF io_update, TypeOK, Labels
  <2>3. Image(disk[t], key(t)) \in Nat
    BY <1>6, FetchedType DEF io_update
  <2>4. src[t] \in Sources
    BY <1>6 DEF io_update, Fetching
  <2>5. src' \in [Threads -> Sources \cup {None}]
    BY <1>6, <2>3, <2>4 DEF io_update, TypeOK, Sources
  <2> QED BY <1>a, <2>1, <2>2, <2>3, <2>4, <2>5 DEF TypeOK
<1>7. ASSUME NEW t \in Threads, io_read(t) PROVE TypeOK'
  <2>1. UNCHANGED <<head, safe_read_only, read_only, latch, readers, call,
                    entered, view, evictions>>
    BY <1>7 DEF io_read, marks, locals
  <2>2. /\ pc' \in [Threads -> Labels] /\ disk' \in [Threads -> Nat]
        /\ src' \in [Threads -> Sources \cup {None}]
    BY <1>7 DEF io_read, TypeOK, Labels
  <2>3. Image(disk[t], key(t)) \in Nat
    BY <1>7, FetchedType DEF io_read
  <2>4. answer' \in [Threads -> Nat \cup {None}]
    BY <1>7, <2>3 DEF io_read, TypeOK
  <2> QED BY <1>a, <2>1, <2>2, <2>3, <2>4 DEF TypeOK
<1>8. ASSUME NEW t \in Threads, NEW a, Finish(t, a) PROVE TypeOK'
  <2>1. UNCHANGED <<head, safe_read_only, read_only, call, evictions>>
    BY <1>8 DEF Finish, Done, Leave, marks, locals
  <2>2. pc' \in [Threads -> Labels] /\ latch' \in Threads \cup {None} /\ readers' \in SUBSET Threads
    BY <1>8 DEF Finish, Done, Leave, TypeOK, Labels
  <2>3. entered' \in [Threads -> Nat] /\ view' \in [Threads -> Views]
    BY <1>8 DEF Finish, Done, Leave, TypeOK, Views, NoView
  <2>4. /\ src' \in [Threads -> Sources \cup {None}] /\ disk' \in [Threads -> Nat]
        /\ answer' \in [Threads -> Nat \cup {None}]
    BY <1>8 DEF Finish, Done, Leave, TypeOK
  <2> QED BY <1>a, <2>1, <2>2, <2>3, <2>4 DEF TypeOK
<1>9. ASSUME NEW t \in Threads, return(t) PROVE TypeOK'
  <2>1. UNCHANGED <<head, safe_read_only, read_only, latch, readers, entered,
                    view, disk, src, evictions>>
    BY <1>9 DEF return, marks, locals
  <2>2. /\ pc' \in [Threads -> Labels] /\ call' \in [Threads -> Calls \cup {None}]
        /\ answer' \in [Threads -> Nat \cup {None}]
    BY <1>9 DEF return, TypeOK, Labels
  <2> QED BY <1>a, <2>1, <2>2 DEF TypeOK
<1>10. CASE shift_read_only
  <2>1. UNCHANGED <<head, safe_read_only, evictions, latch, readers, pc,
                    call, answer, entered, view, disk, src>>
    BY <1>10 DEF shift_read_only, marks, locals
  <2>2. read_only' \in Nat
    BY <1>10, LogType DEF shift_read_only, TypeOK
  <2> QED BY <1>a, <2>1, <2>2 DEF TypeOK
<1>11. CASE mark_read_only
  <2>1. UNCHANGED <<head, read_only, evictions, latch, readers, pc,
                    call, answer, entered, view, disk, src>>
    BY <1>11 DEF mark_read_only, marks, locals
  <2>2. safe_read_only' \in Nat
    BY <1>11, LogType DEF mark_read_only, TypeOK
  <2> QED BY <1>a, <2>1, <2>2 DEF TypeOK
<1>12. CASE shift_head
  <2>1. UNCHANGED <<read_only, safe_read_only, latch, readers, pc, call,
                    answer, entered, view, disk, src>>
    BY <1>12 DEF shift_head, marks, locals
  <2>2. head' \in Nat /\ evictions' \in Nat
    BY <1>12, LogType DEF shift_head, TypeOK
  <2> QED BY <1>a, <2>1, <2>2 DEF TypeOK
<1>13. CASE UNCHANGED vars
  <2>1. UNCHANGED <<head, safe_read_only, read_only, evictions, latch, readers,
                    pc, call, answer, entered, view, disk, src>>
    BY <1>13 DEF vars, marks, locals
  <2> QED BY <1>a, <2>1 DEF TypeOK
<1> QED BY <1>1, <1>2, <1>3, <1>4, <1>5, <1>6, <1>7, <1>8, <1>9, <1>10, <1>11, <1>12, <1>13, StepCases
   DEF Moves

LEMMA OrderedStep ==
  ASSUME TypeOK, OneChain, Ordered, InProgress, Protected, [Next]_vars
  PROVE  Ordered'
<1>a. /\ head \in Nat /\ safe_read_only \in Nat /\ read_only \in Nat /\ tail \in Nat /\ tail' \in Nat
      /\ tail <= tail' /\ tail = Len(log) + 1 /\ Len(log) \in Nat
      /\ 1 <= head /\ head <= safe_read_only /\ safe_read_only <= read_only /\ read_only <= tail
  BY Frozen, LogType DEF TypeOK, Ordered, tail
<1>1. ASSUME NEW t \in Threads, invoke(t) PROVE Ordered'
  <2>1. UNCHANGED <<head, safe_read_only, read_only>>
    BY <1>1 DEF invoke, marks
  <2> QED BY <1>a, <2>1 DEF Ordered
<1>2. ASSUME NEW t \in Threads, protect(t) PROVE Ordered'
  <2>1. UNCHANGED <<head, safe_read_only, read_only>>
    BY <1>2 DEF protect, marks
  <2> QED BY <1>a, <2>1 DEF Ordered
<1>3. ASSUME NEW t \in Threads, latch_and_load(t) PROVE Ordered'
  <2>1. UNCHANGED <<head, safe_read_only, read_only>>
    BY <1>3 DEF latch_and_load, marks
  <2> QED BY <1>a, <2>1 DEF Ordered
<1>4. ASSUME NEW t \in Threads, Backs(t) PROVE Ordered'
  <2>1. UNCHANGED <<head, safe_read_only, read_only>>
    BY <1>4 DEF Backs, Leave, marks
  <2> QED BY <1>a, <2>1 DEF Ordered
<1>5. ASSUME NEW t \in Threads, go_to_disk(t) PROVE Ordered'
  <2>1. UNCHANGED <<head, safe_read_only, read_only>>
    BY <1>5 DEF go_to_disk, Leave, marks
  <2> QED BY <1>a, <2>1 DEF Ordered
<1>6. ASSUME NEW t \in Threads, io_update(t) PROVE Ordered'
  <2>1. UNCHANGED <<head, safe_read_only, read_only>>
    BY <1>6 DEF io_update, marks
  <2> QED BY <1>a, <2>1 DEF Ordered
<1>7. ASSUME NEW t \in Threads, io_read(t) PROVE Ordered'
  <2>1. UNCHANGED <<head, safe_read_only, read_only>>
    BY <1>7 DEF io_read, marks
  <2> QED BY <1>a, <2>1 DEF Ordered
<1>8. ASSUME NEW t \in Threads, NEW a, Finish(t, a) PROVE Ordered'
  <2>1. UNCHANGED <<head, safe_read_only, read_only>>
    BY <1>8 DEF Finish, Done, Leave, marks
  <2> QED BY <1>a, <2>1 DEF Ordered
<1>9. ASSUME NEW t \in Threads, return(t) PROVE Ordered'
  <2>1. UNCHANGED <<head, safe_read_only, read_only>>
    BY <1>9 DEF return, marks
  <2> QED BY <1>a, <2>1 DEF Ordered
<1>10. CASE shift_read_only
  BY <1>10, <1>a DEF shift_read_only, Ordered
<1>11. CASE mark_read_only
  BY <1>11, <1>a DEF mark_read_only, Ordered
<1>12. CASE shift_head
  BY <1>12, <1>a DEF shift_head, Ordered
<1>13. CASE UNCHANGED vars
  <2>1. UNCHANGED <<head, safe_read_only, read_only>>
    BY <1>13 DEF vars, marks
  <2> QED BY <1>a, <2>1 DEF Ordered
<1> QED BY <1>1, <1>2, <1>3, <1>4, <1>5, <1>6, <1>7, <1>8, <1>9, <1>10, <1>11, <1>12, <1>13, StepCases
   DEF Moves

LEMMA InProgressStep ==
  ASSUME TypeOK, OneChain, Ordered, InProgress, Protected, Fetching, [Next]_vars
  PROVE  InProgress'
<1>1. ASSUME NEW t \in Threads, invoke(t) PROVE InProgress'
  <2>1. \A u \in Threads \ {t} : pc'[u] = pc[u] /\ call'[u] = call[u] /\ answer'[u] = answer[u]
    BY <1>1 DEF invoke, TypeOK
  <2>2. PICK o \in Ops, k \in Keys : call'[t] = [kind |-> o, key |-> k]
    BY <1>1 DEF invoke, TypeOK
  <2>3. call'[t] \in Calls /\ call'[t].kind \in Ops
    BY <2>2, OpsAssumption DEF Calls
  <2>4. call'[t] # None
    BY <2>3, NoneAssumption DEF Calls
  <2>5. pc[t] = "idle" /\ pc'[t] = "enter" /\ answer'[t] = answer[t]
    BY <1>1 DEF invoke, TypeOK
  <2> QED BY <2>1, <2>3, <2>4, <2>5 DEF InProgress, kind
<1>2. ASSUME NEW t \in Threads, protect(t) PROVE InProgress'
  <2>1. \A u \in Threads \ {t} : pc'[u] = pc[u] /\ call'[u] = call[u] /\ answer'[u] = answer[u]
    BY <1>2 DEF protect, TypeOK
  <2>2. pc[t] \in {"enter"} /\ pc'[t] = "latch" /\ call'[t] = call[t] /\ answer'[t] = answer[t]
    BY <1>2 DEF protect, TypeOK
  <2> QED BY <2>1, <2>2 DEF InProgress, kind
<1>3. ASSUME NEW t \in Threads, latch_and_load(t) PROVE InProgress'
  <2>1. \A u \in Threads \ {t} : pc'[u] = pc[u] /\ call'[u] = call[u] /\ answer'[u] = answer[u]
    BY <1>3 DEF latch_and_load, TypeOK
  <2>2. pc[t] \in {"latch"} /\ pc'[t] = "act" /\ call'[t] = call[t] /\ answer'[t] = answer[t]
    BY <1>3 DEF latch_and_load, TypeOK
  <2> QED BY <2>1, <2>2 DEF InProgress, kind
<1>4. ASSUME NEW t \in Threads, Backs(t) PROVE InProgress'
  <2>1. \A u \in Threads \ {t} : pc'[u] = pc[u] /\ call'[u] = call[u] /\ answer'[u] = answer[u]
    BY <1>4 DEF Backs, Leave, TypeOK
  <2>2. pc[t] \in {"latch", "act"} /\ pc'[t] = "enter" /\ call'[t] = call[t]
        /\ answer'[t] = answer[t]
    BY <1>4 DEF Backs, Leave, TypeOK
  <2> QED BY <2>1, <2>2 DEF InProgress, kind
<1>5. ASSUME NEW t \in Threads, go_to_disk(t) PROVE InProgress'
  <2>1. \A u \in Threads \ {t} : pc'[u] = pc[u] /\ call'[u] = call[u] /\ answer'[u] = answer[u]
    BY <1>5 DEF go_to_disk, Leave, TypeOK
  <2>2. pc[t] \in {"act"} /\ pc'[t] = "io" /\ call'[t] = call[t] /\ answer'[t] = answer[t]
    BY <1>5 DEF go_to_disk, Leave, TypeOK
  <2> QED BY <2>1, <2>2 DEF InProgress, kind
<1>6. ASSUME NEW t \in Threads, io_update(t) PROVE InProgress'
  <2>1. \A u \in Threads \ {t} : pc'[u] = pc[u] /\ call'[u] = call[u] /\ answer'[u] = answer[u]
    BY <1>6 DEF io_update, TypeOK
  <2>2. pc[t] \in {"io"} /\ pc'[t] = "enter" /\ call'[t] = call[t] /\ answer'[t] = answer[t]
    BY <1>6 DEF io_update, TypeOK
  <2> QED BY <2>1, <2>2 DEF InProgress, kind
<1>7. ASSUME NEW t \in Threads, io_read(t) PROVE InProgress'
  <2>1. \A u \in Threads \ {t} : pc'[u] = pc[u] /\ call'[u] = call[u] /\ answer'[u] = answer[u]
    BY <1>7 DEF io_read, TypeOK
  <2>2. pc[t] \in {"io"} /\ pc'[t] = "done" /\ call'[t] = call[t]
        /\ answer'[t] = Image(disk[t], key(t))
    BY <1>7 DEF io_read, TypeOK
  <2>3. Image(disk[t], key(t)) # None
    BY <1>7, FetchedType, NoneAssumption DEF io_read
  <2> QED BY <2>1, <2>2, <2>3 DEF InProgress, kind
<1>8. ASSUME NEW t \in Threads, NEW a, Finish(t, a) PROVE InProgress'
  <2>1. \A u \in Threads \ {t} : pc'[u] = pc[u] /\ call'[u] = call[u] /\ answer'[u] = answer[u]
    BY <1>8 DEF Finish, Done, Leave, TypeOK
  <2>2. pc[t] \in {"act"} /\ pc'[t] = "done" /\ call'[t] = call[t] /\ answer'[t] = a
    BY <1>8 DEF Finish, Done, Leave, TypeOK
  <2>3. a # None
    BY <1>8, NoneAssumption DEF Finish, Done, Leave
  <2> QED BY <2>1, <2>2, <2>3 DEF InProgress, kind
<1>9. ASSUME NEW t \in Threads, return(t) PROVE InProgress'
  <2>1. \A u \in Threads \ {t} : pc'[u] = pc[u] /\ call'[u] = call[u] /\ answer'[u] = answer[u]
    BY <1>9 DEF return, TypeOK
  <2>2. pc'[t] = "idle" /\ call'[t] = None /\ answer'[t] = None
    BY <1>9 DEF return, TypeOK
  <2> QED BY <2>1, <2>2 DEF InProgress, kind
<1>10. CASE shift_read_only
  <2>1. UNCHANGED <<pc, call, answer>>
    BY <1>10 DEF shift_read_only, locals
  <2> QED BY <2>1 DEF InProgress, kind
<1>11. CASE mark_read_only
  <2>1. UNCHANGED <<pc, call, answer>>
    BY <1>11 DEF mark_read_only, locals
  <2> QED BY <2>1 DEF InProgress, kind
<1>12. CASE shift_head
  <2>1. UNCHANGED <<pc, call, answer>>
    BY <1>12 DEF shift_head, locals
  <2> QED BY <2>1 DEF InProgress, kind
<1>13. CASE UNCHANGED vars
  <2>1. UNCHANGED <<pc, call, answer>>
    BY <1>13 DEF vars, locals
  <2> QED BY <2>1 DEF InProgress, kind
<1> QED BY <1>1, <1>2, <1>3, <1>4, <1>5, <1>6, <1>7, <1>8, <1>9, <1>10, <1>11, <1>12, <1>13, StepCases
   DEF Moves

LEMMA LatchedStep ==
  ASSUME TypeOK, OneChain, Ordered, InProgress, Protected, Latched, [Next]_vars
  PROVE  Latched'
<1>1. ASSUME NEW t \in Threads, invoke(t) PROVE Latched'
  <2>1. \A u \in Threads \ {t} : pc'[u] = pc[u] /\ call'[u] = call[u]
    BY <1>1 DEF invoke, TypeOK
  <2>2. pc'[t] = "enter" /\ UNCHANGED <<latch, readers>>
    BY <1>1 DEF invoke, TypeOK
  <2> QED BY <2>1, <2>2 DEF Latched, kind
<1>2. ASSUME NEW t \in Threads, protect(t) PROVE Latched'
  <2>1. \A u \in Threads \ {t} : pc'[u] = pc[u] /\ call'[u] = call[u]
    BY <1>2 DEF protect, TypeOK
  <2>2. pc'[t] = "latch" /\ UNCHANGED <<latch, readers>>
    BY <1>2 DEF protect, TypeOK
  <2> QED BY <2>1, <2>2 DEF Latched, kind
<1>3. ASSUME NEW t \in Threads, latch_and_load(t) PROVE Latched'
  <2>1. (\A u \in Threads \ {t} : pc'[u] = pc[u]) /\ call' = call /\ latch = None
    BY <1>3 DEF latch_and_load, TypeOK
  <2>2. None \notin Threads
    BY NoneAssumption
  <2>3. CASE kind(t) = "read"
    <3>1. latch' = latch /\ readers' = readers \cup {t}
      BY <1>3, <2>3 DEF latch_and_load
    <3> QED BY <2>1, <2>2, <2>3, <3>1 DEF Latched, kind
  <2>4. CASE kind(t) # "read"
    <3>1. latch' = t /\ readers = {} /\ readers' = readers
      BY <1>3, <2>4 DEF latch_and_load
    <3> QED BY <2>1, <2>2, <2>4, <3>1 DEF Latched, kind
  <2> QED BY <2>3, <2>4
<1>4. ASSUME NEW t \in Threads, Backs(t) PROVE Latched'
  <2>1. (\A u \in Threads \ {t} : pc'[u] = pc[u]) /\ call' = call /\ pc'[t] = "enter"
    BY <1>4 DEF Backs, Leave, TypeOK
  <2>2. latch' = (IF latch = t THEN None ELSE latch) /\ readers' = readers \ {t}
    BY <1>4 DEF Backs, Leave
  <2> QED BY <2>1, <2>2 DEF Latched, kind
<1>5. ASSUME NEW t \in Threads, go_to_disk(t) PROVE Latched'
  <2>1. (\A u \in Threads \ {t} : pc'[u] = pc[u]) /\ call' = call /\ pc'[t] = "io"
    BY <1>5 DEF go_to_disk, Leave, TypeOK
  <2>2. latch' = (IF latch = t THEN None ELSE latch) /\ readers' = readers \ {t}
    BY <1>5 DEF go_to_disk, Leave
  <2> QED BY <2>1, <2>2 DEF Latched, kind
<1>6. ASSUME NEW t \in Threads, io_update(t) PROVE Latched'
  <2>1. \A u \in Threads \ {t} : pc'[u] = pc[u] /\ call'[u] = call[u]
    BY <1>6 DEF io_update, TypeOK
  <2>2. pc'[t] = "enter" /\ UNCHANGED <<latch, readers>>
    BY <1>6 DEF io_update, TypeOK
  <2> QED BY <2>1, <2>2 DEF Latched, kind
<1>7. ASSUME NEW t \in Threads, io_read(t) PROVE Latched'
  <2>1. \A u \in Threads \ {t} : pc'[u] = pc[u] /\ call'[u] = call[u]
    BY <1>7 DEF io_read, TypeOK
  <2>2. pc'[t] = "done" /\ UNCHANGED <<latch, readers>>
    BY <1>7 DEF io_read, TypeOK
  <2> QED BY <2>1, <2>2 DEF Latched, kind
<1>8. ASSUME NEW t \in Threads, NEW a, Finish(t, a) PROVE Latched'
  <2>1. (\A u \in Threads \ {t} : pc'[u] = pc[u]) /\ call' = call /\ pc'[t] = "done"
    BY <1>8 DEF Finish, Done, Leave, TypeOK
  <2>2. latch' = (IF latch = t THEN None ELSE latch) /\ readers' = readers \ {t}
    BY <1>8 DEF Finish, Done, Leave
  <2> QED BY <2>1, <2>2 DEF Latched, kind
<1>9. ASSUME NEW t \in Threads, return(t) PROVE Latched'
  <2>1. \A u \in Threads \ {t} : pc'[u] = pc[u] /\ call'[u] = call[u]
    BY <1>9 DEF return, TypeOK
  <2>2. pc'[t] = "idle" /\ UNCHANGED <<latch, readers>>
    BY <1>9 DEF return, TypeOK
  <2> QED BY <2>1, <2>2 DEF Latched, kind
<1>10. CASE shift_read_only
  <2>1. UNCHANGED <<pc, call, latch, readers>>
    BY <1>10 DEF shift_read_only, locals
  <2> QED BY <2>1 DEF Latched, kind
<1>11. CASE mark_read_only
  <2>1. UNCHANGED <<pc, call, latch, readers>>
    BY <1>11 DEF mark_read_only, locals
  <2> QED BY <2>1 DEF Latched, kind
<1>12. CASE shift_head
  <2>1. UNCHANGED <<pc, call, latch, readers>>
    BY <1>12 DEF shift_head, locals
  <2> QED BY <2>1 DEF Latched, kind
<1>13. CASE UNCHANGED vars
  <2>1. UNCHANGED <<pc, call, latch, readers>>
    BY <1>13 DEF vars, locals
  <2> QED BY <2>1 DEF Latched, kind
<1> QED BY <1>1, <1>2, <1>3, <1>4, <1>5, <1>6, <1>7, <1>8, <1>9, <1>10, <1>11, <1>12, <1>13, StepCases
   DEF Moves

LEMMA ProtectedStep ==
  ASSUME TypeOK, OneChain, Ordered, InProgress, Protected, [Next]_vars
  PROVE  Protected'
<1>1. ASSUME NEW t \in Threads, invoke(t) PROVE Protected'
  <2>1. (\A u \in Threads \ {t} : pc'[u] = pc[u]) /\ pc'[t] = "enter"
    BY <1>1 DEF invoke, TypeOK
  <2>2. UNCHANGED <<head, safe_read_only, read_only, entered, view>>
    BY <1>1 DEF invoke, marks
  <2> QED BY <2>1, <2>2 DEF Protected
<1>2. ASSUME NEW t \in Threads, protect(t) PROVE Protected'
  <2>1. /\ pc'[t] = "latch" /\ entered'[t] = read_only /\ UNCHANGED <<head, safe_read_only, read_only>>
        /\ \A u \in Threads \ {t} : pc'[u] = pc[u] /\ entered'[u] = entered[u] /\ view'[u] = view[u]
    BY <1>2 DEF protect, TypeOK, marks
  <2>2. read_only # 0 /\ safe_read_only <= read_only /\ read_only <= read_only
    BY DEF TypeOK, Ordered
  <2> QED BY <2>1, <2>2 DEF Protected
<1>3. ASSUME NEW t \in Threads, latch_and_load(t) PROVE Protected'
  <2>1. /\ pc[t] = "latch" /\ pc'[t] = "act" /\ UNCHANGED <<head, safe_read_only, read_only, entered>>
        /\ view'[t].head = head /\ view'[t].read_only = read_only
        /\ \A u \in Threads \ {t} : pc'[u] = pc[u] /\ view'[u] = view[u]
    BY <1>3 DEF latch_and_load, TypeOK, marks
  <2>2. 1 <= head /\ head <= head /\ head <= read_only
    BY DEF TypeOK, Ordered
  <2> QED BY <2>1, <2>2 DEF Protected
<1>4. ASSUME NEW t \in Threads, Backs(t) PROVE Protected'
  <2>1. /\ pc'[t] = "enter" /\ UNCHANGED <<head, safe_read_only, read_only>>
        /\ \A u \in Threads \ {t} : pc'[u] = pc[u] /\ entered'[u] = entered[u] /\ view'[u] = view[u]
    BY <1>4 DEF Backs, Leave, TypeOK, marks
  <2> QED BY <2>1 DEF Protected
<1>5. ASSUME NEW t \in Threads, go_to_disk(t) PROVE Protected'
  <2>1. /\ pc'[t] = "io" /\ UNCHANGED <<head, safe_read_only, read_only>>
        /\ \A u \in Threads \ {t} : pc'[u] = pc[u] /\ entered'[u] = entered[u] /\ view'[u] = view[u]
    BY <1>5 DEF go_to_disk, Leave, TypeOK, marks
  <2> QED BY <2>1 DEF Protected
<1>6. ASSUME NEW t \in Threads, io_update(t) PROVE Protected'
  <2>1. (\A u \in Threads \ {t} : pc'[u] = pc[u]) /\ pc'[t] = "enter"
    BY <1>6 DEF io_update, TypeOK
  <2>2. UNCHANGED <<head, safe_read_only, read_only, entered, view>>
    BY <1>6 DEF io_update, marks
  <2> QED BY <2>1, <2>2 DEF Protected
<1>7. ASSUME NEW t \in Threads, io_read(t) PROVE Protected'
  <2>1. (\A u \in Threads \ {t} : pc'[u] = pc[u]) /\ pc'[t] = "done"
    BY <1>7 DEF io_read, TypeOK
  <2>2. UNCHANGED <<head, safe_read_only, read_only, entered, view>>
    BY <1>7 DEF io_read, marks
  <2> QED BY <2>1, <2>2 DEF Protected
<1>8. ASSUME NEW t \in Threads, NEW a, Finish(t, a) PROVE Protected'
  <2>1. /\ pc'[t] = "done" /\ UNCHANGED <<head, safe_read_only, read_only>>
        /\ \A u \in Threads \ {t} : pc'[u] = pc[u] /\ entered'[u] = entered[u] /\ view'[u] = view[u]
    BY <1>8 DEF Finish, Done, Leave, TypeOK, marks
  <2> QED BY <2>1 DEF Protected
<1>9. ASSUME NEW t \in Threads, return(t) PROVE Protected'
  <2>1. (\A u \in Threads \ {t} : pc'[u] = pc[u]) /\ pc'[t] = "idle"
    BY <1>9 DEF return, TypeOK
  <2>2. UNCHANGED <<head, safe_read_only, read_only, entered, view>>
    BY <1>9 DEF return, marks
  <2> QED BY <2>1, <2>2 DEF Protected
<1>10. CASE shift_read_only
  <2>1. UNCHANGED <<head, safe_read_only, pc, entered, view>> /\ read_only <= read_only'
        /\ read_only' \in Nat
    BY <1>10, LogType DEF shift_read_only, TypeOK, locals
  <2>2. \A u \in Threads : entered[u] <= read_only => entered[u] <= read_only'
    BY <2>1 DEF TypeOK
  <2> QED BY <2>1, <2>2 DEF Protected
<1>11. CASE mark_read_only
  <2>1. UNCHANGED <<head, read_only, pc, entered, view>>
    BY <1>11 DEF mark_read_only, locals
  <2>2. \A u \in Threads : entered[u] # 0 => safe_read_only' <= entered[u]
    BY <1>11 DEF mark_read_only, TypeOK
  <2> QED BY <2>1, <2>2 DEF Protected
<1>12. CASE shift_head
  <2>1. UNCHANGED <<safe_read_only, read_only, pc, entered, view>> /\ head <= head' /\ head' \in Nat
    BY <1>12 DEF shift_head, TypeOK, locals
  <2>2. \A u \in Threads : pc[u] = "act" => view[u].head <= head'
    <3> TAKE u \in Threads
    <3>1. view[u].head \in Nat
      BY DEF TypeOK, Views
    <3> QED BY <2>1, <3>1 DEF Protected, TypeOK
  <2> QED BY <2>1, <2>2 DEF Protected
<1>13. CASE UNCHANGED vars
  <2>1. UNCHANGED <<head, safe_read_only, read_only, pc, entered, view>>
    BY <1>13 DEF vars, marks, locals
  <2> QED BY <2>1 DEF Protected
<1> QED BY <1>1, <1>2, <1>3, <1>4, <1>5, <1>6, <1>7, <1>8, <1>9, <1>10, <1>11, <1>12, <1>13, StepCases
   DEF Moves

LEMMA FetchingStep ==
  ASSUME TypeOK, OneChain, Ordered, InProgress, Protected, Fetching, [Next]_vars
  PROVE  Fetching'
<1>1. ASSUME NEW t \in Threads, invoke(t) PROVE Fetching'
  <2>1. \A u \in Threads \ {t} : /\ pc'[u] = pc[u] /\ call'[u] = call[u]
                                /\ disk'[u] = disk[u] /\ src'[u] = src[u]
    BY <1>1 DEF invoke, TypeOK
  <2>2. head' = head /\ pc[t] = "idle" /\ pc'[t] = "enter" /\ src'[t] = src[t]
    BY <1>1 DEF invoke, TypeOK, marks
  <2> QED BY <2>1, <2>2 DEF Fetching, kind
<1>2. ASSUME NEW t \in Threads, protect(t) PROVE Fetching'
  <2>1. \A u \in Threads \ {t} : /\ pc'[u] = pc[u] /\ call'[u] = call[u]
                                /\ disk'[u] = disk[u] /\ src'[u] = src[u]
    BY <1>2 DEF protect, TypeOK
  <2>2. /\ head' = head /\ pc[t] \in {"enter"} /\ pc'[t] = "latch" /\ src'[t] = src[t]
        /\ call'[t] = call[t]
    BY <1>2 DEF protect, TypeOK, marks
  <2> QED BY <2>1, <2>2 DEF Fetching, kind
<1>3. ASSUME NEW t \in Threads, latch_and_load(t) PROVE Fetching'
  <2>1. \A u \in Threads \ {t} : /\ pc'[u] = pc[u] /\ call'[u] = call[u]
                                /\ disk'[u] = disk[u] /\ src'[u] = src[u]
    BY <1>3 DEF latch_and_load, TypeOK
  <2>2. /\ head' = head /\ pc[t] \in {"latch"} /\ pc'[t] = "act" /\ src'[t] = src[t]
        /\ call'[t] = call[t]
    BY <1>3 DEF latch_and_load, TypeOK, marks
  <2> QED BY <2>1, <2>2 DEF Fetching, kind
<1>4. ASSUME NEW t \in Threads, Backs(t) PROVE Fetching'
  <2>1. \A u \in Threads \ {t} : /\ pc'[u] = pc[u] /\ call'[u] = call[u]
                                /\ disk'[u] = disk[u] /\ src'[u] = src[u]
    BY <1>4 DEF Backs, Leave, TypeOK
  <2>2. /\ head' = head /\ pc[t] \in {"latch", "act"} /\ pc'[t] = "enter" /\ src'[t] = src[t]
        /\ call'[t] = call[t]
    BY <1>4 DEF Backs, Leave, TypeOK, marks
  <2> QED BY <2>1, <2>2 DEF Fetching, kind
<1>5. ASSUME NEW t \in Threads, go_to_disk(t) PROVE Fetching'
  <2>1. \A u \in Threads \ {t} : /\ pc'[u] = pc[u] /\ call'[u] = call[u]
                                /\ disk'[u] = disk[u] /\ src'[u] = src[u]
    BY <1>5 DEF go_to_disk, Leave, TypeOK
  <2>2. /\ head' = head /\ pc[t] = "act" /\ pc'[t] = "io" /\ call'[t] = call[t] /\ kind(t) # "upsert"
        /\ src'[t] = [val |-> Absent, latest |-> entry] /\ disk'[t] = stopped(t)
    BY <1>5 DEF go_to_disk, Leave, TypeOK, marks, OnDisk
  <2>3. stopped(t) < head
    <3>1. stopped(t) = view[t].head - 1 /\ view[t].head \in Nat /\ view[t].head <= head
          /\ head \in Nat
      BY <2>2, Found, ViewBounds DEF Protected, TypeOK
    <3> QED BY <3>1
  <2>4. [val |-> Absent, latest |-> entry] \in Sources
    BY DEF TypeOK, Sources, Absent
  <2> QED BY <2>1, <2>2, <2>3, <2>4 DEF Fetching, kind
<1>6. ASSUME NEW t \in Threads, io_update(t) PROVE Fetching'
  <2>1. \A u \in Threads \ {t} : /\ pc'[u] = pc[u] /\ call'[u] = call[u]
                                /\ disk'[u] = disk[u] /\ src'[u] = src[u]
    BY <1>6 DEF io_update, TypeOK
  <2>2. /\ head' = head /\ pc[t] = "io" /\ pc'[t] = "enter" /\ call'[t] = call[t] /\ kind(t) # "read"
    BY <1>6 DEF io_update, TypeOK, marks
  <2>3. kind(t) # "upsert"
    BY <2>2 DEF Fetching
  <2> QED BY <2>1, <2>2, <2>3 DEF Fetching, kind
<1>7. ASSUME NEW t \in Threads, io_read(t) PROVE Fetching'
  <2>1. \A u \in Threads \ {t} : /\ pc'[u] = pc[u] /\ call'[u] = call[u]
                                /\ disk'[u] = disk[u] /\ src'[u] = src[u]
    BY <1>7 DEF io_read, TypeOK
  <2>2. head' = head /\ pc'[t] = "done" /\ src'[t] = None
    BY <1>7 DEF io_read, TypeOK, marks
  <2> QED BY <2>1, <2>2 DEF Fetching, kind
<1>8. ASSUME NEW t \in Threads, NEW a, Finish(t, a) PROVE Fetching'
  <2>1. \A u \in Threads \ {t} : /\ pc'[u] = pc[u] /\ call'[u] = call[u]
                                /\ disk'[u] = disk[u] /\ src'[u] = src[u]
    BY <1>8 DEF Finish, Done, Leave, TypeOK
  <2>2. head' = head /\ pc'[t] = "done" /\ src'[t] = None
    BY <1>8 DEF Finish, Done, Leave, TypeOK, marks
  <2> QED BY <2>1, <2>2 DEF Fetching, kind
<1>9. ASSUME NEW t \in Threads, return(t) PROVE Fetching'
  <2>1. \A u \in Threads \ {t} : /\ pc'[u] = pc[u] /\ call'[u] = call[u]
                                /\ disk'[u] = disk[u] /\ src'[u] = src[u]
    BY <1>9 DEF return, TypeOK
  <2>2. head' = head /\ pc[t] = "done" /\ pc'[t] = "idle" /\ src'[t] = src[t]
    BY <1>9 DEF return, TypeOK, marks
  <2> QED BY <2>1, <2>2 DEF Fetching, kind
<1>10. CASE shift_read_only
  <2>1. UNCHANGED <<head, pc, call, disk, src>>
    BY <1>10 DEF shift_read_only, marks, locals
  <2> QED BY <2>1 DEF Fetching, kind
<1>11. CASE mark_read_only
  <2>1. UNCHANGED <<head, pc, call, disk, src>>
    BY <1>11 DEF mark_read_only, marks, locals
  <2> QED BY <2>1 DEF Fetching, kind
<1>12. CASE shift_head
  <2>1. UNCHANGED <<pc, call, disk, src>> /\ head < head' /\ head' \in Nat
    BY <1>12 DEF shift_head, TypeOK, locals
  <2>2. \A u \in Threads : disk[u] < head => disk[u] < head'
    BY <2>1 DEF TypeOK
  <2> QED BY <2>1, <2>2 DEF Fetching, kind
<1>13. CASE UNCHANGED vars
  <2>1. UNCHANGED <<head, pc, call, disk, src>>
    BY <1>13 DEF vars, marks, locals
  <2> QED BY <2>1 DEF Fetching, kind
<1> QED BY <1>1, <1>2, <1>3, <1>4, <1>5, <1>6, <1>7, <1>8, <1>9, <1>10, <1>11, <1>12, <1>13, StepCases
   DEF Moves

LEMMA InitHolds ==
  ASSUME Init
  PROVE  IInv
<1>1. TypeOK
  <2>1. <<>> \in Seq(Records)
    OBVIOUS
  <2> QED BY <2>1 DEF Init, TypeOK, Labels, NoView, Views
<1>2. log = <<>> /\ Len(log) = 0 /\ entry = 0
  BY DEF Init
<1>3. OneChain
  BY <1>2 DEF OneChain
<1>4. Ordered
  BY <1>2 DEF Init, Ordered, tail
<1>5. InProgress /\ Latched /\ Protected /\ Fetching
  BY DEF Init, InProgress, Latched, Protected, Fetching
<1>6. NewestIsOpen
  <2>1. \A k \in Keys : Newest(log, Len(log), k, 1) = 0
    <3> TAKE k \in Keys
    <3>1. Newest(log, 0, k, 1) \in 0 .. 0
      BY NewestIs
    <3> QED BY <1>2, <3>1
  <2> QED BY <1>1, <1>3, <2>1, OpenNow DEF Open
<1> QED BY <1>1, <1>3, <1>4, <1>5, <1>6 DEF IInv

LEMMA StepHolds ==
  ASSUME IInv, [Next]_vars
  PROVE  IInv'
<1>1. /\ TypeOK /\ OneChain /\ Ordered /\ InProgress /\ Latched /\ Protected /\ Fetching
      /\ NewestIsOpen
  BY DEF IInv
<1>2. TypeOK' /\ OneChain' /\ Ordered' /\ InProgress'
  BY <1>1, TypeStep, ChainStep, OrderedStep, InProgressStep
<1>3. Latched' /\ Protected' /\ Fetching' /\ NewestIsOpen'
  BY <1>1, LatchedStep, ProtectedStep, FetchingStep, OpenStep
<1> QED BY <1>2, <1>3 DEF IInv

(* The inductive invariant holds in every reachable state.                 *)
THEOREM Invariance == Spec => []IInv
<1>1. Init => IInv
  BY InitHolds
<1>2. IInv /\ [Next]_vars => IInv'
  BY StepHolds
<1> QED BY <1>1, <1>2, PTL DEF Spec

(* The newest record of a key is open, whatever copies seal their sources  *)
(* and attempts fail: nobody retries on it for ever.                       *)
THEOREM NewestIsOpenHolds == Spec => []NewestIsOpen
<1>1. IInv => NewestIsOpen
  BY DEF IInv
<1> QED BY <1>1, Invariance, PTL

(* No update in place reaches a record below SafeReadOnly, although it     *)
(* goes by the ReadOnly it has loaded: SafeReadOnly waits for its epoch.   *)
THEOREM SafeIsFrozenHolds == Spec => SafeIsFrozen
<1>1. IInv /\ [Next]_vars
      => [\A a \in 1 .. safe_read_only - 1 : Content(log'[a]) = Content(log[a])]_vars
  <2> SUFFICES ASSUME IInv, Next, NEW a \in 1 .. safe_read_only - 1
               PROVE  Content(log'[a]) = Content(log[a])
    OBVIOUS
  <2>1. TypeOK /\ OneChain /\ Ordered /\ InProgress /\ Protected
    BY DEF IInv
  <2>2. a \in 1 .. Len(log) /\ a < safe_read_only
    BY <2>1, LogType DEF TypeOK, Ordered, tail
  <2>3. log'[a].prev = log[a].prev /\ SameContent(log, log', a)
    BY <2>1, <2>2, Frozen
  <2> QED BY <2>3 DEF Content, SameContent
<1> QED BY <1>1, Invariance, PTL DEF Spec, SafeIsFrozen

-----------------------------------------------------------------------------
(* What lies below Head stays as it is, and what updates have fetched.     *)

LEMMA BelowHead ==
  ASSUME TypeOK, OneChain, Ordered, InProgress, Protected, [Next]_vars
  PROVE  \A a \in Nat : a < head => \A k : ImageOf(log', a, k) = ImageOf(log, a, k)
<1>1. PICK l, m, s : l = log /\ m = log' /\ s = safe_read_only
  OBVIOUS
<1>2. Len(l) \in Nat /\ s \in Nat /\ head \in Nat /\ head <= s /\ s <= Len(l) + 1
  BY <1>1, LogType DEF TypeOK, Ordered
<1>3. \A i \in 1 .. Len(l) : i < s => SameContent(l, m, i)
  BY <1>1, Frozen
<1>4. ASSUME NEW a \in Nat, a < head, NEW k PROVE ImageOf(m, a, k) = ImageOf(l, a, k)
  <2>1. \A i \in 1 .. a : i \in 1 .. Len(l) /\ i < s
    BY <1>2, <1>4
  <2>2. \A i \in 1 .. a : m[i].key = l[i].key /\ m[i].val = l[i].val /\ m[i].tomb = l[i].tomb
    BY <1>3, <2>1 DEF SameContent
  <2> QED BY <2>2, ImageSame
<1> QED BY <1>1, <1>4

LEMMA KeysKept ==
  ASSUME TypeOK, OneChain, Ordered, InProgress, Protected, [Next]_vars
  PROVE  \A i \in 1 .. Len(log) : log'[i].key = log[i].key
<1>1. CASE log' = log
  BY <1>1
<1>2. CASE \E t \in Threads : \E v, dead : Rewrites(t, v, dead)
  BY <1>2 DEF Rewrites, Rewrote
<1>3. CASE \E t \in Threads : \E v, dead : Grows(t, v, dead)
  BY <1>3 DEF Grows, Grew, SameContent
<1> QED BY <1>1, <1>2, <1>3, LogCases

LEMMA BareKept ==
  ASSUME TypeOK, OneChain, Ordered, InProgress, Protected, [Next]_vars
  PROVE  \A a, b \in Nat : \A k : Bare(log, b, a, k) => Bare(log', b, a, k)
<1>1. PICK l, m : l = log /\ m = log'
  OBVIOUS
<1>2. Len(l) \in Nat /\ Len(m) \in Nat /\ Len(l) <= Len(m)
      /\ \A i \in 1 .. Len(l) : m[i].key = l[i].key
  BY <1>1, LogType, Frozen, KeysKept
<1>3. ASSUME NEW a \in Nat, NEW b \in Nat, NEW k, Bare(l, b, a, k) PROVE Bare(m, b, a, k)
  <2>1. a <= Len(m) /\ \A i \in 1 .. a : m[i].key = l[i].key
    BY <1>2, <1>3 DEF Bare
  <2>2. b + 1 \in Nat
    OBVIOUS
  <2>3. Newest(m, a, k, b + 1) = Newest(l, a, k, b + 1)
    BY <2>1, <2>2, NewestSame
  <2> QED BY <1>3, <2>1, <2>3 DEF Bare
<1> QED BY <1>1, <1>3

(* A thread that keeps its place keeps its source.                         *)
LEMMA SourcedFrame ==
  ASSUME TypeOK, OneChain, Ordered, InProgress, Protected, Fetching, [Next]_vars,
         NEW u \in Threads, Sourced(u), call'[u] = call[u], src'[u] = src[u],
         head' \in Nat, head <= head',
         \/ pc[u] = "io" /\ pc'[u] = "io" /\ disk'[u] = disk[u]
         \/ {pc[u], pc'[u]} \subseteq {"enter", "latch", "act"}
  PROVE  Sourced(u)'
<1>1. PICK l, m, k, s, h : l = log /\ m = log' /\ k = key(u) /\ s = src[u] /\ h = head
  OBVIOUS
<1>2. k = key(u)' /\ s = src'[u] /\ h \in Nat /\ h <= head'
  BY <1>1 DEF key, TypeOK
<1>3. \A a, b \in Nat : Bare(l, b, a, k) => Bare(m, b, a, k)
  BY <1>1, BareKept
<1>4. \A b \in Nat : b < h => ImageOf(m, b, k) = ImageOf(l, b, k)
  BY <1>1, BelowHead
<1>5. CASE pc[u] = "io" /\ pc'[u] = "io" /\ disk'[u] = disk[u]
  <2>1. PICK d : d = disk[u]
    OBVIOUS
  <2>2. d \in Nat /\ s.latest \in Nat
    BY <1>1, <1>5, <2>1 DEF TypeOK, Fetching, Sources
  <2>3. Bare(m, d, s.latest, k)
    BY <1>1, <1>3, <1>5, <2>1, <2>2 DEF Sourced
  <2> QED BY <1>1, <1>2, <1>5, <2>1, <2>3 DEF Sourced
<1>6. CASE {pc[u], pc'[u]} \subseteq {"enter", "latch", "act"} /\ s # None
  <2>1. s.latest \in Nat
    BY <1>1, <1>6 DEF TypeOK, Sources
  <2>2. PICK b \in Nat : b < h /\ Bare(l, b, s.latest, k) /\ s.val = ImageOf(l, b, k)
    BY <1>1, <1>6 DEF Sourced
  <2>3. b < head' /\ Bare(m, b, s.latest, k) /\ s.val = ImageOf(m, b, k)
    BY <1>2, <1>3, <1>4, <2>1, <2>2
  <2> QED BY <1>1, <1>2, <1>6, <2>3 DEF Sourced
<1>7. CASE {pc[u], pc'[u]} \subseteq {"enter", "latch", "act"} /\ s = None
  BY <1>1, <1>2, <1>7 DEF Sourced
<1> QED BY <1>5, <1>6, <1>7

LEMMA SourcedAway ==
  ASSUME NEW u, pc'[u] \in {"idle", "done"}
  PROVE  Sourced(u)'
BY DEF Sourced

LEMMA SourcedStep ==
  ASSUME TypeOK, OneChain, Ordered, InProgress, Protected, Fetching, \A t \in Threads : Sourced(t), [Next]_vars
  PROVE  (\A u \in Threads : Sourced(u))'
<1>a. head \in Nat /\ head <= head
  BY DEF TypeOK
<1>1. ASSUME NEW t \in Threads, invoke(t) PROVE (\A u \in Threads : Sourced(u))'
  <2>1. \A u \in Threads \ {t} : /\ pc'[u] = pc[u] /\ call'[u] = call[u]
                                /\ disk'[u] = disk[u] /\ src'[u] = src[u]
    BY <1>1 DEF invoke, TypeOK
  <2>2. head' = head
    BY <1>1 DEF invoke, marks
  <2>3. ASSUME NEW u \in Threads \ {t} PROVE Sourced(u)'
    <3>1. pc[u] \in Labels
      BY DEF TypeOK
    <3>2. CASE pc[u] \in {"idle", "done"}
      BY <2>1, <3>2, SourcedAway
    <3>3. CASE pc[u] \in {"enter", "latch", "act", "io"}
      BY <1>a, <2>1, <2>2, <3>3, SourcedFrame
    <3> QED BY <3>1, <3>2, <3>3 DEF Labels
  <2>4. pc[t] = "idle" /\ pc'[t] = "enter" /\ src'[t] = src[t]
    BY <1>1 DEF invoke, TypeOK
  <2>5. src[t] = None
    BY <2>4 DEF Fetching
  <2>9. Sourced(t)'
    BY <2>4, <2>5 DEF Sourced
  <2> QED BY <2>3, <2>9
<1>2. ASSUME NEW t \in Threads, protect(t) PROVE (\A u \in Threads : Sourced(u))'
  <2>1. \A u \in Threads \ {t} : /\ pc'[u] = pc[u] /\ call'[u] = call[u]
                                /\ disk'[u] = disk[u] /\ src'[u] = src[u]
    BY <1>2 DEF protect, TypeOK
  <2>2. head' = head
    BY <1>2 DEF protect, marks
  <2>3. ASSUME NEW u \in Threads \ {t} PROVE Sourced(u)'
    <3>1. pc[u] \in Labels
      BY DEF TypeOK
    <3>2. CASE pc[u] \in {"idle", "done"}
      BY <2>1, <3>2, SourcedAway
    <3>3. CASE pc[u] \in {"enter", "latch", "act", "io"}
      BY <1>a, <2>1, <2>2, <3>3, SourcedFrame
    <3> QED BY <3>1, <3>2, <3>3 DEF Labels
  <2>4. pc[t] \in {"enter"} /\ pc'[t] = "latch" /\ src'[t] = src[t] /\ call'[t] = call[t]
    BY <1>2 DEF protect, TypeOK
  <2>9. Sourced(t)'
    BY <1>a, <2>2, <2>4, SourcedFrame
  <2> QED BY <2>3, <2>9
<1>3. ASSUME NEW t \in Threads, latch_and_load(t) PROVE (\A u \in Threads : Sourced(u))'
  <2>1. \A u \in Threads \ {t} : /\ pc'[u] = pc[u] /\ call'[u] = call[u]
                                /\ disk'[u] = disk[u] /\ src'[u] = src[u]
    BY <1>3 DEF latch_and_load, TypeOK
  <2>2. head' = head
    BY <1>3 DEF latch_and_load, marks
  <2>3. ASSUME NEW u \in Threads \ {t} PROVE Sourced(u)'
    <3>1. pc[u] \in Labels
      BY DEF TypeOK
    <3>2. CASE pc[u] \in {"idle", "done"}
      BY <2>1, <3>2, SourcedAway
    <3>3. CASE pc[u] \in {"enter", "latch", "act", "io"}
      BY <1>a, <2>1, <2>2, <3>3, SourcedFrame
    <3> QED BY <3>1, <3>2, <3>3 DEF Labels
  <2>4. pc[t] \in {"latch"} /\ pc'[t] = "act" /\ src'[t] = src[t] /\ call'[t] = call[t]
    BY <1>3 DEF latch_and_load, TypeOK
  <2>9. Sourced(t)'
    BY <1>a, <2>2, <2>4, SourcedFrame
  <2> QED BY <2>3, <2>9
<1>4. ASSUME NEW t \in Threads, Backs(t) PROVE (\A u \in Threads : Sourced(u))'
  <2>1. \A u \in Threads \ {t} : /\ pc'[u] = pc[u] /\ call'[u] = call[u]
                                /\ disk'[u] = disk[u] /\ src'[u] = src[u]
    BY <1>4 DEF Backs, Leave, TypeOK
  <2>2. head' = head
    BY <1>4 DEF Backs, Leave, marks
  <2>3. ASSUME NEW u \in Threads \ {t} PROVE Sourced(u)'
    <3>1. pc[u] \in Labels
      BY DEF TypeOK
    <3>2. CASE pc[u] \in {"idle", "done"}
      BY <2>1, <3>2, SourcedAway
    <3>3. CASE pc[u] \in {"enter", "latch", "act", "io"}
      BY <1>a, <2>1, <2>2, <3>3, SourcedFrame
    <3> QED BY <3>1, <3>2, <3>3 DEF Labels
  <2>4. pc[t] \in {"latch", "act"} /\ pc'[t] = "enter" /\ src'[t] = src[t] /\ call'[t] = call[t]
    BY <1>4 DEF Backs, Leave, TypeOK
  <2>9. Sourced(t)'
    BY <1>a, <2>2, <2>4, SourcedFrame
  <2> QED BY <2>3, <2>9
<1>5. ASSUME NEW t \in Threads, go_to_disk(t) PROVE (\A u \in Threads : Sourced(u))'
  <2>1. \A u \in Threads \ {t} : /\ pc'[u] = pc[u] /\ call'[u] = call[u]
                                /\ disk'[u] = disk[u] /\ src'[u] = src[u]
    BY <1>5 DEF go_to_disk, Leave, TypeOK
  <2>2. head' = head
    BY <1>5 DEF go_to_disk, Leave, marks
  <2>3. ASSUME NEW u \in Threads \ {t} PROVE Sourced(u)'
    <3>1. pc[u] \in Labels
      BY DEF TypeOK
    <3>2. CASE pc[u] \in {"idle", "done"}
      BY <2>1, <3>2, SourcedAway
    <3>3. CASE pc[u] \in {"enter", "latch", "act", "io"}
      BY <1>a, <2>1, <2>2, <3>3, SourcedFrame
    <3> QED BY <3>1, <3>2, <3>3 DEF Labels
  <2>4. /\ pc[t] = "act" /\ pc'[t] = "io" /\ disk'[t] = stopped(t) /\ src'[t].latest = entry
        /\ call'[t] = call[t] /\ log' = log /\ found(t) = 0 /\ kind(t) # "upsert"
    BY <1>5 DEF go_to_disk, Leave, TypeOK, OnDisk
  <2>5. PICK l, n, k, h : l = log /\ n = Len(log) /\ k = key(t) /\ h = view[t].head
    OBVIOUS
  <2>6. /\ n \in Nat /\ h \in Nat /\ 1 <= h /\ h <= n + 1 /\ entry = n
        /\ Newest(l, n, k, h) = 0 /\ stopped(t) = h - 1
    BY <2>4, <2>5, LogType, ViewBounds, Found DEF lowest, OneChain
  <2>7. Bare(l, h - 1, n, k)
    <3>1. h - 1 <= n /\ n <= Len(l) /\ (h - 1) + 1 = h
      BY <2>5, <2>6
    <3> QED BY <2>6, <3>1 DEF Bare
  <2>8. key(t)' = k
    BY <2>4, <2>5 DEF key
  <2>9. Sourced(t)'
    BY <2>4, <2>5, <2>6, <2>7, <2>8 DEF Sourced
  <2> QED BY <2>3, <2>9
<1>6. ASSUME NEW t \in Threads, io_update(t) PROVE (\A u \in Threads : Sourced(u))'
  <2>1. \A u \in Threads \ {t} : /\ pc'[u] = pc[u] /\ call'[u] = call[u]
                                /\ disk'[u] = disk[u] /\ src'[u] = src[u]
    BY <1>6 DEF io_update, TypeOK
  <2>2. head' = head
    BY <1>6 DEF io_update, marks
  <2>3. ASSUME NEW u \in Threads \ {t} PROVE Sourced(u)'
    <3>1. pc[u] \in Labels
      BY DEF TypeOK
    <3>2. CASE pc[u] \in {"idle", "done"}
      BY <2>1, <3>2, SourcedAway
    <3>3. CASE pc[u] \in {"enter", "latch", "act", "io"}
      BY <1>a, <2>1, <2>2, <3>3, SourcedFrame
    <3> QED BY <3>1, <3>2, <3>3 DEF Labels
  <2>4. /\ pc[t] = "io" /\ pc'[t] = "enter" /\ call'[t] = call[t] /\ log' = log
    BY <1>6 DEF io_update, TypeOK
  <2>5. src[t] \in Sources
    BY <2>4 DEF Fetching
  <2>6. src'[t].val = Image(disk[t], key(t)) /\ src'[t].latest = src[t].latest
    BY <1>6, <2>5 DEF io_update, TypeOK, Sources
  <2>7. /\ Image(disk[t], key(t)) = ImageOf(log, disk[t], key(t)) /\ disk[t] \in Nat /\ disk[t] < head
        /\ Bare(log, disk[t], src[t].latest, key(t))
    BY <2>4, FetchedType DEF Sourced
  <2>8. key(t)' = key(t)
    BY <2>4 DEF key
  <2>9. Sourced(t)'
    BY <2>2, <2>4, <2>6, <2>7, <2>8 DEF Sourced
  <2> QED BY <2>3, <2>9
<1>7. ASSUME NEW t \in Threads, io_read(t) PROVE (\A u \in Threads : Sourced(u))'
  <2>1. \A u \in Threads \ {t} : /\ pc'[u] = pc[u] /\ call'[u] = call[u]
                                /\ disk'[u] = disk[u] /\ src'[u] = src[u]
    BY <1>7 DEF io_read, TypeOK
  <2>2. head' = head
    BY <1>7 DEF io_read, marks
  <2>3. ASSUME NEW u \in Threads \ {t} PROVE Sourced(u)'
    <3>1. pc[u] \in Labels
      BY DEF TypeOK
    <3>2. CASE pc[u] \in {"idle", "done"}
      BY <2>1, <3>2, SourcedAway
    <3>3. CASE pc[u] \in {"enter", "latch", "act", "io"}
      BY <1>a, <2>1, <2>2, <3>3, SourcedFrame
    <3> QED BY <3>1, <3>2, <3>3 DEF Labels
  <2>4. pc'[t] = "done"
    BY <1>7 DEF io_read, TypeOK
  <2>9. Sourced(t)'
    BY <2>4, SourcedAway
  <2> QED BY <2>3, <2>9
<1>8. ASSUME NEW t \in Threads, NEW a, Finish(t, a) PROVE (\A u \in Threads : Sourced(u))'
  <2>1. \A u \in Threads \ {t} : /\ pc'[u] = pc[u] /\ call'[u] = call[u]
                                /\ disk'[u] = disk[u] /\ src'[u] = src[u]
    BY <1>8 DEF Finish, Done, Leave, TypeOK
  <2>2. head' = head
    BY <1>8 DEF Finish, Done, Leave, marks
  <2>3. ASSUME NEW u \in Threads \ {t} PROVE Sourced(u)'
    <3>1. pc[u] \in Labels
      BY DEF TypeOK
    <3>2. CASE pc[u] \in {"idle", "done"}
      BY <2>1, <3>2, SourcedAway
    <3>3. CASE pc[u] \in {"enter", "latch", "act", "io"}
      BY <1>a, <2>1, <2>2, <3>3, SourcedFrame
    <3> QED BY <3>1, <3>2, <3>3 DEF Labels
  <2>4. pc'[t] = "done"
    BY <1>8 DEF Finish, Done, Leave, TypeOK
  <2>9. Sourced(t)'
    BY <2>4, SourcedAway
  <2> QED BY <2>3, <2>9
<1>9. ASSUME NEW t \in Threads, return(t) PROVE (\A u \in Threads : Sourced(u))'
  <2>1. \A u \in Threads \ {t} : /\ pc'[u] = pc[u] /\ call'[u] = call[u]
                                /\ disk'[u] = disk[u] /\ src'[u] = src[u]
    BY <1>9 DEF return, TypeOK
  <2>2. head' = head
    BY <1>9 DEF return, marks
  <2>3. ASSUME NEW u \in Threads \ {t} PROVE Sourced(u)'
    <3>1. pc[u] \in Labels
      BY DEF TypeOK
    <3>2. CASE pc[u] \in {"idle", "done"}
      BY <2>1, <3>2, SourcedAway
    <3>3. CASE pc[u] \in {"enter", "latch", "act", "io"}
      BY <1>a, <2>1, <2>2, <3>3, SourcedFrame
    <3> QED BY <3>1, <3>2, <3>3 DEF Labels
  <2>4. pc'[t] = "idle"
    BY <1>9 DEF return, TypeOK
  <2>9. Sourced(t)'
    BY <2>4, SourcedAway
  <2> QED BY <2>3, <2>9
<1>10. CASE shift_read_only
  <2>1. UNCHANGED <<pc, call, disk, src>> /\ head' \in Nat /\ head <= head'
    BY <1>10, <1>a DEF shift_read_only, marks, locals, TypeOK
  <2> SUFFICES ASSUME NEW u \in Threads PROVE Sourced(u)'
    OBVIOUS
  <2>2. pc[u] \in Labels
    BY DEF TypeOK
  <2>3. CASE pc[u] \in {"idle", "done"}
    BY <2>1, <2>3, SourcedAway
  <2>4. CASE pc[u] \in {"enter", "latch", "act", "io"}
    BY <2>1, <2>4, SourcedFrame
  <2> QED BY <2>2, <2>3, <2>4 DEF Labels
<1>11. CASE mark_read_only
  <2>1. UNCHANGED <<pc, call, disk, src>> /\ head' \in Nat /\ head <= head'
    BY <1>11, <1>a DEF mark_read_only, marks, locals, TypeOK
  <2> SUFFICES ASSUME NEW u \in Threads PROVE Sourced(u)'
    OBVIOUS
  <2>2. pc[u] \in Labels
    BY DEF TypeOK
  <2>3. CASE pc[u] \in {"idle", "done"}
    BY <2>1, <2>3, SourcedAway
  <2>4. CASE pc[u] \in {"enter", "latch", "act", "io"}
    BY <2>1, <2>4, SourcedFrame
  <2> QED BY <2>2, <2>3, <2>4 DEF Labels
<1>12. CASE shift_head
  <2>1. UNCHANGED <<pc, call, disk, src>> /\ head' \in Nat /\ head <= head'
    BY <1>12, <1>a DEF shift_head, marks, locals, TypeOK
  <2> SUFFICES ASSUME NEW u \in Threads PROVE Sourced(u)'
    OBVIOUS
  <2>2. pc[u] \in Labels
    BY DEF TypeOK
  <2>3. CASE pc[u] \in {"idle", "done"}
    BY <2>1, <2>3, SourcedAway
  <2>4. CASE pc[u] \in {"enter", "latch", "act", "io"}
    BY <2>1, <2>4, SourcedFrame
  <2> QED BY <2>2, <2>3, <2>4 DEF Labels
<1>13. CASE UNCHANGED vars
  <2>1. UNCHANGED <<pc, call, disk, src>> /\ head' \in Nat /\ head <= head'
    BY <1>13, <1>a DEF vars, marks, locals, TypeOK
  <2> SUFFICES ASSUME NEW u \in Threads PROVE Sourced(u)'
    OBVIOUS
  <2>2. pc[u] \in Labels
    BY DEF TypeOK
  <2>3. CASE pc[u] \in {"idle", "done"}
    BY <2>1, <2>3, SourcedAway
  <2>4. CASE pc[u] \in {"enter", "latch", "act", "io"}
    BY <2>1, <2>4, SourcedFrame
  <2> QED BY <2>2, <2>3, <2>4 DEF Labels
<1> QED BY <1>1, <1>2, <1>3, <1>4, <1>5, <1>6, <1>7, <1>8, <1>9, <1>10, <1>11, <1>12, <1>13, StepCases
   DEF Moves

LEMMA SolidStep ==
  ASSUME TypeOK, OneChain, Ordered, InProgress, Protected, Solid(log), [Next]_vars
  PROVE  Solid(log')
<1>1. PICK l, m : l = log /\ m = log'
  OBVIOUS
<1>2. CASE log' = log
  BY <1>2
<1>3. ASSUME NEW t \in Threads, NEW v, NEW dead, Rewrites(t, v, dead)
      PROVE  Solid(m)
  <2>1. PICK f : f = found(t)
    OBVIOUS
  <2>2. Rewrote(l, m, f, v, dead) /\ (dead \/ v # 0)
    BY <1>1, <1>3, <2>1 DEF Rewrites
  <2>3. \A i \in 1 .. Len(l) : i # f => m[i].tomb \/ m[i].val # 0
    BY <1>1, <2>2 DEF Rewrote, Solid, SameContent
  <2>4. m[f].tomb \/ m[f].val # 0
    BY <2>2 DEF Rewrote
  <2> QED BY <2>2, <2>3, <2>4 DEF Rewrote, Solid
<1>4. ASSUME NEW t \in Threads, NEW v, NEW dead, Grows(t, v, dead)
      PROVE  Solid(m)
  <2>1. PICK j, n : j = key(t) /\ n = Len(l)
    OBVIOUS
  <2>2. Grew(l, m, j, v, dead) /\ (dead \/ v # 0) /\ n \in Nat
    BY <1>1, <1>4, <2>1, LogType DEF Grows
  <2>3. \A i \in 1 .. n : m[i].tomb \/ m[i].val # 0
    BY <1>1, <2>1, <2>2 DEF Grew, Solid, SameContent
  <2>4. Len(m) = n + 1 /\ (m[n + 1].tomb \/ m[n + 1].val # 0)
    BY <2>1, <2>2 DEF Grew
  <2> QED BY <2>2, <2>3, <2>4 DEF Solid
<1>5. CASE \E t \in Threads : \E v, dead : Rewrites(t, v, dead)
  BY <1>1, <1>3, <1>5
<1>6. CASE \E t \in Threads : \E v, dead : Grows(t, v, dead)
  BY <1>1, <1>4, <1>6
<1> QED BY <1>2, <1>5, <1>6, LogCases

THEOREM SourcedInvariance == Spec => []LInv
<1>1. Init => LInv
  <2> SUFFICES ASSUME Init PROVE LInv
    OBVIOUS
  <2>1. IInv
    BY InitHolds
  <2>2. Solid(log)
    BY DEF Init, Solid
  <2>3. \A t \in Threads : Sourced(t)
    BY DEF Init, Sourced
  <2> QED BY <2>1, <2>2, <2>3 DEF LInv
<1>2. LInv /\ [Next]_vars => LInv'
  <2> SUFFICES ASSUME LInv, [Next]_vars PROVE LInv'
    OBVIOUS
  <2>1. /\ IInv /\ TypeOK /\ OneChain /\ Ordered /\ InProgress /\ Protected /\ Fetching
        /\ Solid(log) /\ \A t \in Threads : Sourced(t)
    BY DEF LInv, IInv
  <2>2. IInv'
    BY <2>1, StepHolds
  <2>3. Solid(log')
    BY <2>1, SolidStep
  <2>4. (\A t \in Threads : Sourced(t))'
    BY <2>1, SourcedStep
  <2> QED BY <2>2, <2>3, <2>4 DEF LInv
<1> QED BY <1>1, <1>2, PTL DEF Spec

-----------------------------------------------------------------------------
(* Every operation is atomic.                                              *)

(* The value of k, which the whole log spells out.                         *)
Now(k) == ImageOf(log, Len(log), k)

LEMMA ValueNow ==
  ASSUME IInv, NEW k
  PROVE  Value(k) = Now(k)
<1>1. OneChain /\ entry = Len(log) /\ Len(log) \in Nat /\ Len(log) \in 0 .. Len(log)
  BY LogType DEF IInv, OneChain
<1> QED BY <1>1, TraceNow DEF Value, Now

LEMMA ImageNext ==
  ASSUME IInv', NEW d, NEW e, NEW k, d \in 0 .. Len(log'), e = d
  PROVE  Image(e, k)' = ImageOf(log', d, k)
<1>1. OneChain' /\ Len(log') \in Nat
  BY DEF IInv, TypeOK
<1> QED BY <1>1, TraceNext

LEMMA ValueNext ==
  ASSUME IInv', NEW k
  PROVE  Value(k)' = ImageOf(log', Len(log'), k)
<1>1. OneChain' /\ entry' = Len(log') /\ Len(log') \in Nat /\ Len(log') \in 0 .. Len(log')
  BY DEF IInv, OneChain, TypeOK
<1>2. PICK e : e = entry'
  OBVIOUS
<1>3. Image(e, k)' = ImageOf(log', Len(log'), k)
  BY <1>1, <1>2, TraceNext
<1>4. Image(entry, k)' = Image(e, k)'
  BY <1>2 DEF Image, trace_back, Chain
<1> QED BY <1>3, <1>4 DEF Value

(* What an attempt goes by is the value of its key.                        *)
LEMMA ValueIs ==
  ASSUME LInv, InTime, NEW t \in Threads, Settled(t), kind(t) # "upsert"
  PROVE  value(t) = Now(key(t))
<1>0. TypeOK /\ OneChain /\ Ordered /\ InProgress /\ Protected /\ Fetching /\ Sourced(t)
  BY DEF LInv, IInv
<1>1. pc[t] = "act" /\ (OnDisk(t) => src[t] # None /\ unchanged_since_io(t))
  BY DEF Settled, MustRetry
<1>2. PICK l, n, k, h : l = log /\ n = Len(log) /\ k = key(t) /\ h = view[t].head
  OBVIOUS
<1>3. n \in Nat /\ h \in Nat /\ 1 <= h /\ h <= n + 1 /\ entry = n
  BY <1>0, <1>1, <1>2, LogType, ViewBounds DEF OneChain
<1>4. found(t) = Newest(l, n, k, h) /\ stopped(t) = h - 1
  BY <1>0, <1>1, <1>2, Found DEF lowest
<1>5. Now(key(t)) = ValueAt(l, Newest(l, n, k, 1))
  BY <1>2, ImageIs DEF Now
<1>6. CASE found(t) # 0
  <2>1. found(t) = Newest(l, n, k, 1)
    BY <1>0, <1>1, <1>2, <1>6, Found
  <2> QED BY <1>2, <1>5, <1>6, <2>1 DEF value, ValueAt
<1>7. CASE found(t) = 0 /\ h = 1
  <2>1. Newest(l, n, k, 1) = 0
    BY <1>4, <1>7
  <2>2. Now(key(t)) = Absent
    BY <1>5, <2>1 DEF ValueAt
  <2>3. ~OnDisk(t)
    BY <1>3, <1>4, <1>7 DEF OnDisk
  <2> QED BY <1>7, <2>2, <2>3 DEF value
<1>8. CASE found(t) = 0 /\ h # 1
  <2>1. OnDisk(t) /\ src[t] # None /\ unchanged_since_io(t)
    BY <1>1, <1>3, <1>4, <1>8 DEF OnDisk
  <2>2. PICK a : a = src[t].latest
    OBVIOUS
  <2>3. PICK b \in Nat : b < head /\ Bare(l, b, a, k) /\ src[t].val = ImageOf(l, b, k)
    BY <1>0, <1>1, <1>2, <2>1, <2>2 DEF Sourced
  <2>4. a \in Nat /\ b <= a /\ a <= n /\ Newest(l, a, k, b + 1) = 0
    BY <1>2, <2>1, <2>2, <2>3 DEF TypeOK, Sources, Bare, LInv, IInv
  <2>5. b + 1 \in Nat /\ b + 1 >= 1 /\ b + 1 <= a + 1 /\ (b + 1) - 1 = b
    BY <2>4
  <2>6. Newest(l, a, k, 1) = Newest(l, b, k, 1)
    BY <2>4, <2>5, NewestBelow
  <2>7. Newest(l, n, k, 1) = Newest(l, a, k, 1)
    <3>1. CASE a = n
      BY <3>1
    <3>2. CASE a # n
      <4>1. kind(t) # "read"
        BY <1>0, <1>1, <2>1 DEF Fetching
      <4>2. h <= head /\ head <= a + 1 /\ head \in Nat
        BY <1>0, <1>1, <1>2, <2>1, <2>2, <4>1 DEF Protected, InTime, TypeOK
      <4>3. PICK x : x = a + 1
        OBVIOUS
      <4>4. x \in Nat /\ h <= x /\ x >= 1 /\ x <= n + 1 /\ x - 1 = a
        BY <1>3, <2>4, <4>2, <4>3
      <4>5. Max({x, h}) = x
        <5>1. {x, h} \in SUBSET (0 .. x) /\ {x, h} # {}
          BY <1>3, <4>4
        <5>2. Max({x, h}) \in {x, h} /\ \A y \in {x, h} : y <= Max({x, h})
          BY <4>4, <5>1, MaxIs
        <5> QED BY <1>3, <4>4, <5>2
      <4>6. trace_back(entry, key(t), Max({src[t].latest + 1, view[t].head})) = 0
        BY <1>3, <2>1, <2>2, <3>2 DEF unchanged_since_io
      <4>7. trace_back(n, k, x) = 0
        BY <1>2, <1>3, <2>2, <4>3, <4>5, <4>6
      <4>8. trace_back(n, k, x) = Newest(l, n, k, x)
        BY <1>0, <1>2, <1>3, TraceNow
      <4> QED BY <1>3, <4>4, <4>7, <4>8, NewestBelow
    <3> QED BY <3>1, <3>2
  <2>8. ImageOf(l, b, k) = ValueAt(l, Newest(l, b, k, 1))
    BY ImageIs
  <2> QED BY <1>5, <1>8, <2>1, <2>3, <2>6, <2>7, <2>8 DEF value
<1> QED BY <1>6, <1>7, <1>8

LEMMA RewriteValue ==
  ASSUME IInv, NEW t \in Threads, NEW v, NEW dead, Rewrites(t, v, dead), NEW k
  PROVE  ImageOf(log', Len(log'), k)
         = IF k = key(t) THEN IF dead THEN Absent ELSE v ELSE Now(k)
<1>0. TypeOK /\ OneChain /\ Ordered /\ Protected
  BY DEF IInv
<1>1. PICK l, m, n, f, j : l = log /\ m = log' /\ n = Len(log) /\ f = found(t) /\ j = key(t)
  OBVIOUS
<1>2. Rewrote(l, m, f, v, dead) /\ pc[t] = "act"
  BY <1>1 DEF Rewrites, InPlace, Settled
<1>3. /\ n \in Nat /\ Len(m) = n /\ f \in 1 .. n /\ m[f].val = v /\ m[f].tomb = dead
      /\ \A i \in 1 .. n : m[i].key = l[i].key
      /\ \A i \in 1 .. n : i # f => m[i].val = l[i].val /\ m[i].tomb = l[i].tomb
  BY <1>0, <1>1, <1>2, LogType DEF Rewrote, SameContent
<1>4. f = Newest(l, n, j, 1) /\ l[f].key = j
  BY <1>0, <1>1, <1>2, <1>3, Found
<1>5. CASE k = j
  <2>1. Newest(m, n, k, 1) = f
    BY <1>3, <1>4, <1>5, NewestSame
  <2>2. ImageOf(m, n, k) = ValueAt(m, f)
    BY <2>1, ImageIs
  <2> QED BY <1>1, <1>3, <1>5, <2>2 DEF ValueAt
<1>6. CASE k # j
  <2>1. ImageOf(m, n, k) = ImageOf(l, n, k)
    BY <1>3, <1>4, <1>6, ImageOther
  <2> QED BY <1>1, <1>3, <1>6, <2>1 DEF Now
<1> QED BY <1>5, <1>6

LEMMA GrowValue ==
  ASSUME IInv, NEW t \in Threads, NEW v, NEW dead, Grows(t, v, dead), NEW k
  PROVE  ImageOf(log', Len(log'), k)
         = IF k = key(t) THEN IF dead THEN Absent ELSE v ELSE Now(k)
<1>1. PICK l, m, n, j : l = log /\ m = log' /\ n = Len(log) /\ j = key(t)
  OBVIOUS
<1>2. Grew(l, m, j, v, dead)
  BY <1>1 DEF Grows
<1>3. /\ n \in Nat /\ Len(m) = n + 1
      /\ m[n + 1].key = j /\ m[n + 1].val = v /\ m[n + 1].tomb = dead
      /\ \A i \in 1 .. n : m[i].key = l[i].key /\ m[i].val = l[i].val /\ m[i].tomb = l[i].tomb
  BY <1>1, <1>2, LogType DEF IInv, Grew, SameContent
<1>4. Newest(m, n + 1, k, 1) = IF m[n + 1].key = k THEN n + 1 ELSE Newest(m, n, k, 1)
  BY <1>3, NewestNext
<1>5. ImageOf(m, n + 1, k) = ValueAt(m, Newest(m, n + 1, k, 1))
  BY ImageIs
<1>6. CASE k = j
  BY <1>1, <1>3, <1>4, <1>5, <1>6 DEF ValueAt
<1>7. CASE k # j
  <2>1. ImageOf(m, n, k) = ImageOf(l, n, k) /\ ImageOf(m, n, k) = ValueAt(m, Newest(m, n, k, 1))
    BY <1>3, ImageSame, ImageIs
  <2> QED BY <1>1, <1>3, <1>4, <1>5, <1>7, <2>1 DEF Now
<1> QED BY <1>6, <1>7

-----------------------------------------------------------------------------
(* The steps of AtomicStore.                                               *)

(* What a read that has gone to disk will find is fixed.                   *)
LEMMA AnsweredFrame ==
  ASSUME IInv, IInv', [Next]_vars, NEW u \in Threads, pc'[u] = pc[u], call'[u] = call[u],
         answer'[u] = answer[u], disk'[u] = disk[u]
  PROVE  Answered(u)' = Answered(u)
<1>0. TypeOK /\ OneChain /\ Ordered /\ InProgress /\ Protected /\ Fetching
  BY DEF IInv
<1>1. CASE pc[u] = "io"
  <2>1. PICK d, k : d = disk[u] /\ k = key(u)
    OBVIOUS
  <2>2. d \in 0 .. Len(log) /\ d < head /\ Image(disk[u], key(u)) = ImageOf(log, d, k)
    BY <1>0, <1>1, <2>1, FetchedType
  <2>3. ImageOf(log', d, k) = ImageOf(log, d, k)
    BY <1>0, <2>2, BelowHead
  <2>4. Len(log) <= Len(log') /\ Len(log) \in Nat /\ Len(log') \in Nat
    BY <1>0, Frozen, LogType
  <2>5. Image(d, k)' = ImageOf(log', d, k)
    BY <2>2, <2>4, ImageNext
  <2>6. Image(disk[u], key(u))' = Image(d, k)'
    BY <2>1 DEF Image, trace_back, Chain, key
  <2> QED BY <1>1, <2>2, <2>3, <2>5, <2>6 DEF Answered, kind
<1>2. CASE pc[u] # "io"
  BY <1>2 DEF Answered
<1> QED BY <1>1, <1>2

LEMMA Stutters ==
  ASSUME IInv, IInv', log' = log, call' = call, \A u \in Threads : Answered(u)' = Answered(u)
  PROVE  UNCHANGED Atomic!avars
<1>1. \A k \in Keys : Value(k)' = Value(k)
  BY ValueNow, ValueNext DEF Now
<1> QED BY <1>1 DEF Atomic!avars

LEMMA EffectIs ==
  ASSUME NEW v
  PROVE  /\ Atomic!Effect("read", v) = v /\ Atomic!Answer("read", v) = v
         /\ Atomic!Effect("upsert", v) = Written /\ Atomic!Answer("upsert", v) = Written
         /\ Atomic!Effect("incr", v) = v + 1 /\ Atomic!Answer("incr", v) = v + 1
         /\ Atomic!Effect("setnx", v) = (IF v = Absent THEN Written ELSE v)
         /\ Atomic!Answer("setnx", v) = (IF v = Absent THEN 1 ELSE 0)
         /\ Atomic!Effect("take", v) = Absent /\ Atomic!Answer("take", v) = v
         /\ Atomic!Effect("delete", v) = Absent
         /\ Atomic!Answer("delete", v) = (IF v = Absent THEN 0 ELSE 1)
BY DEF Atomic!Effect, Atomic!Answer, Atomic!Absent, Absent

LEMMA Applies ==
  ASSUME IInv, IInv', NEW t \in Threads, pc[t] = "act", call' = call,
         \A k \in Keys : ImageOf(log', Len(log'), k)
                         = IF k = key(t) THEN Atomic!Effect(kind(t), Now(k)) ELSE Now(k),
         Answered(t)' = Atomic!Answer(kind(t), Now(key(t))),
         \A u \in Threads \ {t} : Answered(u)' = Answered(u)
  PROVE  Atomic!Apply(t)
<1>1. call[t] \in Calls /\ key(t) \in Keys /\ call[t] # None /\ Answered(t) = None
  BY CallType DEF IInv, InProgress, Answered
<1>2. PICK c : c = call[t]
  OBVIOUS
<1>3. c.key = key(t) /\ c.kind = kind(t)
  BY <1>2 DEF key, kind
<1>4. \A k \in Keys : Value(k) = Now(k) /\ Value(k)' = ImageOf(log', Len(log'), k)
  BY ValueNow, ValueNext
<1> DEFINE kv == [k \in Keys |-> Value(k)]
           ans == [u \in Threads |-> Answered(u)]
<1>5. kv' = [kv EXCEPT ![c.key] = Atomic!Effect(c.kind, kv[c.key])]
  BY <1>1, <1>3, <1>4
<1>6. ans' = [ans EXCEPT ![t] = Atomic!Answer(c.kind, kv[c.key])]
  BY <1>1, <1>3, <1>4
<1>7. ans[t] = None /\ call[t] # None
  BY <1>1
<1> QED BY <1>2, <1>5, <1>6, <1>7 DEF Atomic!Apply

(* The end of an operation, by what it does to the value of its key.       *)
LEMMA FinishApplies ==
  ASSUME IInv, IInv', [Next]_vars, NEW t \in Threads, NEW a, Finish(t, a),
         \A k \in Keys : ImageOf(log', Len(log'), k)
                         = IF k = key(t) THEN Atomic!Effect(kind(t), Now(k)) ELSE Now(k),
         a = Atomic!Answer(kind(t), Now(key(t)))
  PROVE  Atomic!Apply(t)
<1>1. pc[t] = "act" /\ pc'[t] = "done" /\ call' = call /\ answer'[t] = a
  BY DEF Finish, Done, Leave, IInv, TypeOK
<1>2. \A u \in Threads \ {t} : /\ pc'[u] = pc[u] /\ call'[u] = call[u]
                               /\ answer'[u] = answer[u] /\ disk'[u] = disk[u]
  BY DEF Finish, Done, Leave, IInv, TypeOK
<1>3. \A u \in Threads \ {t} : Answered(u)' = Answered(u)
  BY <1>2, AnsweredFrame
<1>4. Answered(t)' = Atomic!Answer(kind(t), Now(key(t)))
  BY <1>1 DEF Answered
<1> QED BY <1>1, <1>3, <1>4, Applies

(* With a value of its own: a record is rewritten, or one is added.        *)
LEMMA ChangeApplies ==
  ASSUME IInv, IInv', [Next]_vars, NEW t \in Threads, NEW v, NEW dead, NEW a, Finish(t, a),
         Rewrites(t, v, dead) \/ Grows(t, v, dead),
         Atomic!Effect(kind(t), Now(key(t))) = IF dead THEN Absent ELSE v,
         a = Atomic!Answer(kind(t), Now(key(t)))
  PROVE  Atomic!Apply(t)
<1>1. \A k \in Keys : ImageOf(log', Len(log'), k)
                      = IF k = key(t) THEN IF dead THEN Absent ELSE v ELSE Now(k)
  BY RewriteValue, GrowValue
<1>2. \A k \in Keys : ImageOf(log', Len(log'), k)
                      = IF k = key(t) THEN Atomic!Effect(kind(t), Now(k)) ELSE Now(k)
  BY <1>1
<1> QED BY <1>2, FinishApplies

LEMMA NoEffectApplies ==
  ASSUME LInv, InTime, IInv', [Next]_vars, NEW t \in Threads, no_effect(t)
  PROVE  Atomic!Apply(t)
<1>1. IInv /\ Settled(t) /\ pc[t] = "act" /\ log' = log /\ kind(t) # "upsert"
  BY DEF LInv, no_effect, Settled
<1>2. PICK v : v = Now(key(t))
  OBVIOUS
<1>3. value(t) = v
  BY <1>1, <1>2, ValueIs
<1>4. v \in Nat
  BY <1>1, <1>3, ValueType DEF IInv
<1>5. Atomic!Effect(kind(t), v) = v
  BY <1>3, EffectIs DEF no_effect
<1>6. Done(t, Atomic!Answer(kind(t), v)) /\ Atomic!Answer(kind(t), v) \in Nat
  <2>1. CASE kind(t) = "read" /\ Done(t, value(t))
    BY <1>3, <1>4, <2>1, EffectIs
  <2>2. CASE kind(t) \in {"delete", "take"} /\ value(t) = Absent /\ Done(t, Absent)
    BY <1>3, <2>2, EffectIs DEF Absent
  <2>3. CASE kind(t) = "setnx" /\ value(t) # Absent /\ Done(t, 0)
    BY <1>3, <2>3, EffectIs
  <2> QED BY <2>1, <2>2, <2>3 DEF no_effect
<1>7. Finish(t, Atomic!Answer(kind(t), v))
  BY <1>1, <1>6 DEF Finish
<1>8. \A k \in Keys : ImageOf(log', Len(log'), k)
                      = IF k = key(t) THEN Atomic!Effect(kind(t), Now(k)) ELSE Now(k)
  BY <1>1, <1>2, <1>5 DEF Now
<1> QED BY <1>1, <1>2, <1>7, <1>8, FinishApplies

LEMMA InPlaceApplies ==
  ASSUME LInv, InTime, IInv', [Next]_vars, NEW t \in Threads,
         in_place_writer(t) \/ in_place_updater(t) \/ in_place_delete(t)
  PROVE  Atomic!Apply(t)
<1>0. /\ IInv /\ TypeOK /\ OneChain /\ Ordered /\ InProgress /\ Protected
      /\ InPlace(t) /\ Settled(t) /\ Live(t) /\ pc[t] = "act"
  BY DEF LInv, IInv, in_place_writer, in_place_updater, in_place_delete, InPlace, Settled
<1>1. PICK v : v = Now(key(t))
  OBVIOUS
<1>2. kind(t) # "upsert" => value(t) = v
  BY <1>0, <1>1, ValueIs
<1>3. value(t) \in Nat /\ Written \in Nat
  BY <1>0, ValueType, WrittenAssumption
<1>4. CASE in_place_writer(t)
  <2>1. kind(t) = "upsert" /\ Done(t, Written) /\ Rewrites(t, Written, FALSE)
    BY <1>0, <1>4, RewriteIs DEF in_place_writer
  <2>2. Finish(t, Written)
    BY <1>0, <1>3, <2>1 DEF Finish
  <2>3. Atomic!Effect(kind(t), v) = Written /\ Atomic!Answer(kind(t), v) = Written
    BY <2>1, EffectIs
  <2> QED BY <1>0, <1>1, <2>1, <2>2, <2>3, ChangeApplies
<1>5. CASE in_place_updater(t)
  <2>1. kind(t) = "incr" /\ Done(t, value(t) + 1) /\ Rewrites(t, value(t) + 1, FALSE)
    BY <1>0, <1>5, RewriteIs DEF in_place_updater
  <2>2. PICK y : y = v + 1
    OBVIOUS
  <2>3. y \in Nat /\ y = value(t) + 1
    BY <1>2, <1>3, <2>1, <2>2
  <2>4. Finish(t, y) /\ Rewrites(t, y, FALSE)
    BY <1>0, <2>1, <2>3 DEF Finish
  <2>5. Atomic!Effect(kind(t), v) = y /\ Atomic!Answer(kind(t), v) = y
    BY <2>1, <2>2, EffectIs
  <2> QED BY <1>0, <1>1, <2>4, <2>5, ChangeApplies
<1>6. CASE in_place_delete(t)
  <2>1. /\ kind(t) \in {"delete", "take"} /\ Done(t, IF kind(t) = "take" THEN value(t) ELSE 1)
        /\ Rewrites(t, log[found(t)].val, TRUE)
    BY <1>0, <1>6, RewriteIs DEF in_place_delete
  <2>2. PICK y, w : y = (IF kind(t) = "take" THEN v ELSE 1) /\ w = log[found(t)].val
    OBVIOUS
  <2>3. v # Absent
    <3>1. value(t) = log[found(t)].val /\ ~log[found(t)].tomb /\ found(t) # 0
      BY <1>0 DEF value, Live
    <3>2. found(t) \in 1 .. Len(log)
      BY <1>0, <3>1, Found
    <3>3. log[found(t)].val # 0
      BY <3>1, <3>2 DEF LInv, Solid
    <3> QED BY <1>2, <2>1, <3>1, <3>3 DEF Absent
  <2>4. Finish(t, y) /\ Rewrites(t, w, TRUE)
    BY <1>0, <1>2, <1>3, <2>1, <2>2 DEF Finish
  <2>5. Atomic!Effect(kind(t), v) = Absent /\ Atomic!Answer(kind(t), v) = y
    BY <2>1, <2>2, <2>3, EffectIs
  <2> QED BY <1>0, <1>1, <2>4, <2>5, ChangeApplies
<1> QED BY <1>4, <1>5, <1>6

LEMMA AppendApplies ==
  ASSUME LInv, InTime, IInv', [Next]_vars, NEW t \in Threads,
         append_upsert(t) \/ rmw_initial(t) \/ rmw_copy(t) \/ delete_rcu(t)
  PROVE  Atomic!Apply(t)
<1>0. /\ IInv /\ TypeOK /\ OneChain /\ Ordered /\ InProgress /\ Protected
      /\ Settled(t) /\ pc[t] = "act"
  BY DEF LInv, IInv, append_upsert, rmw_initial, rmw_copy, delete_rcu, Settled
<1>1. PICK v : v = Now(key(t))
  OBVIOUS
<1>2. kind(t) # "upsert" => value(t) = v
  BY <1>0, <1>1, ValueIs
<1>3. value(t) \in Nat /\ Written \in Nat
  BY <1>0, ValueType, WrittenAssumption
<1>4. CASE append_upsert(t)
  <2>1. kind(t) = "upsert" /\ Done(t, Written) /\ Grows(t, Written, FALSE)
    BY <1>0, <1>4, GrowIs DEF append_upsert
  <2>2. Finish(t, Written)
    BY <1>0, <1>3, <2>1 DEF Finish
  <2>3. Atomic!Effect(kind(t), v) = Written /\ Atomic!Answer(kind(t), v) = Written
    BY <2>1, EffectIs
  <2> QED BY <1>0, <1>1, <2>1, <2>2, <2>3, ChangeApplies
<1>5. CASE rmw_initial(t)
  <2>1. /\ kind(t) \in {"incr", "setnx"} /\ value(t) = Absent /\ Done(t, 1)
        /\ Grows(t, IF kind(t) = "incr" THEN 1 ELSE Written, FALSE)
    BY <1>0, <1>5, GrowIs DEF rmw_initial
  <2>2. PICK y : y = IF kind(t) = "incr" THEN 1 ELSE Written
    OBVIOUS
  <2>3. Finish(t, 1) /\ Grows(t, y, FALSE)
    BY <1>0, <2>1, <2>2 DEF Finish
  <2>4. Atomic!Effect(kind(t), v) = y /\ Atomic!Answer(kind(t), v) = 1
    BY <1>2, <2>1, <2>2, EffectIs DEF Absent
  <2> QED BY <1>0, <1>1, <2>3, <2>4, ChangeApplies
<1>6. CASE rmw_copy(t)
  <2>1. kind(t) = "incr" /\ Done(t, value(t) + 1) /\ Grows(t, value(t) + 1, FALSE)
    BY <1>0, <1>6, GrowIs DEF rmw_copy
  <2>2. PICK y : y = v + 1
    OBVIOUS
  <2>3. y \in Nat /\ y = value(t) + 1
    BY <1>2, <1>3, <2>1, <2>2
  <2>4. Finish(t, y) /\ Grows(t, y, FALSE)
    BY <1>0, <2>1, <2>3 DEF Finish
  <2>5. Atomic!Effect(kind(t), v) = y /\ Atomic!Answer(kind(t), v) = y
    BY <2>1, <2>2, EffectIs
  <2> QED BY <1>0, <1>1, <2>4, <2>5, ChangeApplies
<1>7. CASE delete_rcu(t)
  <2>1. /\ kind(t) \in {"delete", "take"} /\ Done(t, IF kind(t) = "take" THEN value(t) ELSE 1)
        /\ value(t) # Absent /\ Grows(t, Absent, TRUE)
    BY <1>0, <1>7, GrowIs DEF delete_rcu
  <2>2. PICK y : y = IF kind(t) = "take" THEN v ELSE 1
    OBVIOUS
  <2>3. Finish(t, y)
    BY <1>0, <1>2, <1>3, <2>1, <2>2 DEF Finish
  <2>4. Atomic!Effect(kind(t), v) = Absent /\ Atomic!Answer(kind(t), v) = y
    BY <1>2, <2>1, <2>2, EffectIs
  <2> QED BY <1>0, <1>1, <2>1, <2>3, <2>4, ChangeApplies
<1> QED BY <1>4, <1>5, <1>6, <1>7

(* A read takes effect when it leaves for the disk.                        *)
LEMMA DiskApplies ==
  ASSUME LInv, IInv', [Next]_vars, NEW t \in Threads, go_to_disk(t), kind(t) = "read"
  PROVE  Atomic!Apply(t)
<1>0. IInv /\ TypeOK /\ OneChain /\ Ordered /\ InProgress /\ Protected
  BY DEF LInv, IInv
<1>1. /\ pc[t] = "act" /\ pc'[t] = "io" /\ call' = call /\ log' = log /\ found(t) = 0
      /\ disk'[t] = stopped(t)
  BY <1>0 DEF go_to_disk, Leave, OnDisk, TypeOK
<1>2. \A u \in Threads \ {t} : /\ pc'[u] = pc[u] /\ call'[u] = call[u]
                               /\ answer'[u] = answer[u] /\ disk'[u] = disk[u]
  BY <1>0 DEF go_to_disk, Leave, TypeOK
<1>3. \A u \in Threads \ {t} : Answered(u)' = Answered(u)
  BY <1>0, <1>2, AnsweredFrame
<1>4. PICK l, n, k, h : l = log /\ n = Len(log) /\ k = key(t) /\ h = view[t].head
  OBVIOUS
<1>5. n \in Nat /\ h \in Nat /\ 1 <= h /\ h <= n + 1
  BY <1>0, <1>1, <1>4, LogType, ViewBounds
<1>6. Newest(l, n, k, h) = 0 /\ stopped(t) = h - 1
  BY <1>0, <1>1, <1>4, Found DEF lowest
<1>7. Newest(l, n, k, 1) = Newest(l, h - 1, k, 1)
  BY <1>5, <1>6, NewestBelow
<1>8. ImageOf(l, n, k) = ImageOf(l, h - 1, k)
  BY <1>7, ImageIs
<1>9. PICK d : d = h - 1
  OBVIOUS
<1>10. Image(d, k)' = ImageOf(log', d, k)
  <2>1. d \in 0 .. Len(log')
    BY <1>1, <1>4, <1>5, <1>9
  <2> QED BY <2>1, ImageNext
<1>11. Image(disk[t], key(t))' = Image(d, k)'
  <2>1. disk'[t] = d /\ key(t)' = k
    BY <1>1, <1>4, <1>6, <1>9 DEF key
  <2> QED BY <2>1 DEF Image, trace_back, Chain
<1>12. Answered(t)' = Now(key(t))
  <2>1. kind(t)' = "read"
    BY <1>1 DEF kind
  <2>2. Answered(t)' = Image(disk[t], key(t))'
    BY <1>1, <2>1 DEF Answered
  <2> QED BY <1>1, <1>4, <1>8, <1>9, <1>10, <1>11, <2>2 DEF Now
<1>13. Answered(t)' = Atomic!Answer(kind(t), Now(key(t)))
  BY <1>12, EffectIs
<1>14. \A j \in Keys : ImageOf(log', Len(log'), j)
                       = IF j = key(t) THEN Atomic!Effect(kind(t), Now(j)) ELSE Now(j)
  BY <1>1, EffectIs DEF Now
<1> QED BY <1>0, <1>1, <1>3, <1>13, <1>14, Applies

LEMMA InvokeIs ==
  ASSUME IInv, IInv', [Next]_vars, NEW t \in Threads, invoke(t)
  PROVE  Atomic!Invoke(t)
<1>1. /\ pc[t] = "idle" /\ pc'[t] = "enter" /\ log' = log /\ answer' = answer
      /\ call' = [call EXCEPT ![t] = call'[t]]
  BY DEF invoke, IInv, TypeOK
<1>2. \A u \in Threads \ {t} : /\ pc'[u] = pc[u] /\ call'[u] = call[u]
                               /\ answer'[u] = answer[u] /\ disk'[u] = disk[u]
  BY DEF invoke, IInv, TypeOK
<1>3. \A u \in Threads \ {t} : Answered(u)' = Answered(u)
  BY <1>2, AnsweredFrame
<1>4. Answered(t)' = Answered(t)
  BY <1>1 DEF Answered
<1>5. call'[t] \in Atomic!Calls
  <2>1. call'[t] \in Calls \cup {None} /\ call'[t] # None
    BY <1>1 DEF IInv, TypeOK, InProgress
  <2> QED BY <2>1 DEF Calls, Kinds, Atomic!Calls, Atomic!Kinds
<1>6. \A k \in Keys : Value(k)' = Value(k)
  BY <1>1, ValueNow, ValueNext DEF Now
<1>7. call[t] = None
  BY <1>1 DEF IInv, InProgress
<1> QED BY <1>1, <1>3, <1>4, <1>5, <1>6, <1>7 DEF Atomic!Invoke

LEMMA ReturnIs ==
  ASSUME IInv, IInv', [Next]_vars, NEW t \in Threads, return(t)
  PROVE  Atomic!Return(t)
<1>1. /\ pc[t] = "done" /\ pc'[t] = "idle" /\ log' = log /\ answer'[t] = None
      /\ call' = [call EXCEPT ![t] = None]
  BY DEF return, IInv, TypeOK
<1>2. \A u \in Threads \ {t} : /\ pc'[u] = pc[u] /\ call'[u] = call[u]
                               /\ answer'[u] = answer[u] /\ disk'[u] = disk[u]
  BY DEF return, IInv, TypeOK
<1>3. \A u \in Threads \ {t} : Answered(u)' = Answered(u)
  BY <1>2, AnsweredFrame
<1>4. Answered(t)' = None /\ Answered(t) # None
  BY <1>1 DEF Answered, IInv, InProgress
<1>5. \A k \in Keys : Value(k)' = Value(k)
  BY <1>1, ValueNow, ValueNext DEF Now
<1> QED BY <1>1, <1>3, <1>4, <1>5 DEF Atomic!Return

(* The steps between: nothing is answered, nothing is changed.             *)
LEMMA BetweenStutters ==
  ASSUME IInv, IInv', [Next]_vars, NEW t \in Threads,
         \/ protect(t) \/ latch_and_load(t) \/ Backs(t) \/ io_update(t) \/ io_read(t)
         \/ go_to_disk(t) /\ kind(t) # "read",
         log' = log
  PROVE  UNCHANGED Atomic!avars
<1>1. \A u \in Threads \ {t} : /\ pc'[u] = pc[u] /\ call'[u] = call[u]
                               /\ answer'[u] = answer[u] /\ disk'[u] = disk[u]
  BY DEF protect, latch_and_load, Backs, io_update, io_read, go_to_disk, Leave, IInv, TypeOK
<1>2. \A u \in Threads \ {t} : Answered(u)' = Answered(u)
  BY <1>1, AnsweredFrame
<1>3. call' = call
  BY DEF protect, latch_and_load, Backs, io_update, io_read, go_to_disk, Leave
<1>4. Answered(t)' = Answered(t)
  <2>1. CASE protect(t) \/ latch_and_load(t) \/ Backs(t)
    <3>1. pc[t] # "io" /\ pc'[t] # "io" /\ answer' = answer
      BY <2>1 DEF protect, latch_and_load, Backs, Leave, IInv, TypeOK
    <3> QED BY <3>1 DEF Answered
  <2>2. CASE io_update(t)
    <3>1. kind(t) # "read" /\ kind(t)' = kind(t) /\ answer' = answer
      BY <1>3, <2>2 DEF io_update, kind
    <3> QED BY <3>1 DEF Answered
  <2>3. CASE io_read(t)
    <3>1. /\ pc[t] = "io" /\ kind(t) = "read" /\ pc'[t] = "done"
          /\ answer'[t] = Image(disk[t], key(t))
      BY <2>3 DEF io_read, IInv, TypeOK
    <3> QED BY <3>1 DEF Answered
  <2>4. CASE go_to_disk(t) /\ kind(t) # "read"
    <3>1. kind(t)' = kind(t) /\ answer' = answer
      BY <1>3, <2>4 DEF go_to_disk, kind
    <3> QED BY <2>4, <3>1 DEF Answered
  <2> QED BY <2>1, <2>2, <2>3, <2>4
<1> QED BY <1>2, <1>3, <1>4, Stutters

LEMMA StepRefines ==
  ASSUME LInv, InTime, IInv', [Next]_vars
  PROVE  Atomic!ANext \/ UNCHANGED Atomic!avars
<1>0. IInv
  BY DEF LInv
<1>1. CASE log_step \/ UNCHANGED vars
  <2>1. UNCHANGED <<log, pc, call, answer, disk>>
    BY <1>1 DEF log_step, shift_read_only, mark_read_only, shift_head, locals, vars
  <2>2. \A u \in Threads : Answered(u)' = Answered(u)
    BY <1>0, <2>1, AnsweredFrame
  <2> QED BY <1>0, <2>1, <2>2, Stutters
<1>2. ASSUME NEW t \in Threads, op_step(t) PROVE Atomic!ANext \/ UNCHANGED Atomic!avars
  <2>1. CASE invoke(t)
    BY <1>0, <2>1, InvokeIs DEF Atomic!ANext
  <2>2. CASE return(t)
    BY <1>0, <2>2, ReturnIs DEF Atomic!ANext
  <2>3. CASE no_effect(t)
    BY <2>3, NoEffectApplies DEF Atomic!ANext
  <2>4. CASE in_place_writer(t) \/ in_place_updater(t) \/ in_place_delete(t)
    BY <2>4, InPlaceApplies DEF Atomic!ANext
  <2>5. CASE append_upsert(t) \/ rmw_initial(t) \/ rmw_copy(t) \/ delete_rcu(t)
    BY <2>5, AppendApplies DEF Atomic!ANext
  <2>6. CASE go_to_disk(t) /\ kind(t) = "read"
    BY <2>6, DiskApplies DEF Atomic!ANext
  <2>7. CASE latch_busy(t) \/ retry(t) \/ allocation_blocked(t)
    <3>1. Backs(t) /\ log' = log
      BY <2>7 DEF latch_busy, retry, allocation_blocked, Settled, Retry, Backs
    <3> QED BY <1>0, <3>1, BetweenStutters
  <2>8. CASE \/ protect(t) \/ latch_and_load(t) \/ io_update(t) \/ io_read(t)
             \/ go_to_disk(t) /\ kind(t) # "read"
    <3>1. log' = log
      BY <2>8 DEF protect, latch_and_load, io_update, io_read, go_to_disk
    <3> QED BY <1>0, <2>8, <3>1, BetweenStutters
  <2> QED BY <1>2, <2>1, <2>2, <2>3, <2>4, <2>5, <2>6, <2>7, <2>8 DEF op_step
<1> QED BY <1>1, <1>2 DEF Next

LEMMA InitValues ==
  ASSUME Init
  PROVE  \A k \in Keys : Value(k) = Absent
<1>1. IInv /\ log = <<>> /\ Len(log) = 0
  BY InitHolds DEF Init
<1> TAKE k \in Keys
<1>2. Newest(log, 0, k, 1) \in 0 .. 0
  BY NewestIs
<1>3. Now(k) = ValueAt(log, Newest(log, 0, k, 1))
  BY <1>1, ImageIs DEF Now
<1> QED BY <1>1, <1>2, <1>3, ValueNow DEF ValueAt

LEMMA InitMaps ==
  ASSUME Init
  PROVE  Atomic!AInit
<1>1. \A t \in Threads : Answered(t) = None
  BY DEF Init, Answered
<1> QED BY <1>1, InitValues DEF Init, Atomic!AInit, Atomic!Absent, Absent

(* Every operation is atomic unless Head overtakes what an update saw      *)
(* before it went to disk: attempts of several threads that load, wait,    *)
(* fetch and start again act on the value their key has when they end.     *)
THEOREM LinearizableInTime == Spec /\ []InTime => Linearizable
<1>1. Init => Atomic!AInit
  BY InitMaps
<1>2. LInv /\ LInv' /\ InTime /\ [Next]_vars => [Atomic!ANext]_(Atomic!avars)
  BY StepRefines DEF LInv
<1> QED BY <1>1, <1>2, SourcedInvariance, PTL DEF Spec, Linearizable, Atomic!ASpec

-----------------------------------------------------------------------------
(* Checkpoints: the phases.                                                *)

At(p, v) == [phase |-> p, version |-> v]

Phases == {"rest", "prepare", "in_progress", "wait_flush"}
Waiting == {"prepare", "in_progress", "wait_flush", "rest"}
Steps ==
  Waiting \cup {"idle", "begun", "started", "prepared", "captured", "flushing", "written"}

(* What saver s has published, by its step.                                *)
Phased(s) ==
  /\ sys.version \in Versions
  /\ step[s] = "idle" => sys = At("rest", sys.version)
  /\ step[s] # "idle" => version[s] \in Versions /\ version[s] < MaxVersion
  /\ step[s] \in {"begun", "started"} => sys = At("rest", version[s])
  /\ step[s] \in {"prepare", "prepared"} => sys = At("prepare", version[s])
  /\ step[s] \in {"in_progress", "captured"} => sys = At("in_progress", version[s] + 1)
  /\ step[s] \in {"wait_flush", "flushing", "written"} => sys = At("wait_flush", version[s] + 1)
  /\ step[s] = "rest" => sys = At("rest", version[s] + 1)

(* The state that a thread inside has had since before the step.           *)
Before(p, v) ==
  IF p = "prepare" THEN At("rest", v)
  ELSE IF p = "in_progress" THEN At("prepare", v)
  ELSE IF p = "wait_flush" THEN At("in_progress", v + 1) ELSE At("wait_flush", v + 1)

(* A thread inside has seen the last transition, unless the saver still    *)
(* waits for it; then it has seen the one before.                          *)
Laggards(s) ==
  /\ lag[s] \subseteq {t \in Threads : pc[t] \in Inside}
  /\ step[s] \notin Waiting => lag[s] = {}
  /\ \A t \in Threads :
       pc[t] \in Inside => state[t] = IF t \in lag[s] THEN Before(step[s], version[s]) ELSE sys

-----------------------------------------------------------------------------
(* Checkpoints: the two versions in the log.                               *)

(* Record i of l is of the next version, for a checkpoint that began at b. *)
Later(l, b, i) == l[i].new /\ i >= b

(* The newest record of k, and its value, among the first a records of l   *)
(* without those of the next version.                                      *)
NewestKept(l, b, a, k) == Max({0} \cup {i \in 1 .. a : l[i].key = k /\ ~Later(l, b, i)})
Prefix(l, b, a, k) == ValueAt(l, NewestKept(l, b, a, k))

(* Where the checkpoint began, where it ends.                              *)
Spanned(s) ==
  /\ step[s] # "idle" =>
       start_address[s] \in Nat /\ 1 <= start_address[s] /\ start_address[s] <= tail
  /\ step[s] \notin {"idle", "begun"} => start = start_address[s]
  /\ step[s] \in {"captured", "wait_flush", "flushing"} =>
       final_address[s] \in Nat /\ 1 <= final_address[s] /\ final_address[s] <= tail

(* Until IN_PROGRESS no record is of the next version; then such a record  *)
(* lies above ReadOnly as every laggard found it, hence in memory.         *)
Divided(s) ==
  /\ step[s] \in {"begun", "started", "prepare", "prepared"} =>
       \A i \in 1 .. Len(log) : ~Later(log, start_address[s], i)
  /\ step[s] = "in_progress" =>
       \A t \in lag[s] : \A i \in 1 .. Len(log) :
         Later(log, start_address[s], i) => entered[t] <= i

(* The effects up to the current version are what the log spells out.      *)
Recent == \A v \in Versions : v >= sys.version => \A k \in Keys : snap[v][k] = Value(k)

(* The effects up to the captured version are what its records spell out.  *)
Capturing(s) ==
  /\ step[s] = "in_progress" =>
       \A k \in Keys : snap[version[s]][k] = Prefix(log, start_address[s], Len(log), k)
  /\ step[s] \in {"captured", "wait_flush", "flushing"} =>
       \A k \in Keys : snap[version[s]][k]
                       = Prefix(log, start_address[s], final_address[s] - 1, k)

(* And so it is for the checkpoint on disk, which nobody can touch.        *)
OnDevice(s) ==
  meta # None =>
    /\ meta \in [version : Versions, start : Nat, final : Nat]
    /\ meta.version < sys.version
    /\ step[s] \in {"begun", "started", "prepare", "prepared", "in_progress"} => meta.version < version[s]
    /\ 1 <= meta.final /\ meta.final <= safe_read_only
    /\ \A k \in Keys : snap[meta.version][k] = Prefix(log, meta.start, meta.final - 1, k)

SaverTypes ==
  /\ step \in [Savers -> Steps] /\ lag \in [Savers -> SUBSET Threads]
  /\ version \in [Savers -> Nat] /\ start_address \in [Savers -> Nat]
  /\ final_address \in [Savers -> Nat]
  /\ snap \in [Versions -> [Keys -> Nat]]
  /\ state \in [Threads -> [phase : Phases, version : Nat]]

CInv(s) ==
  /\ SaverTypes /\ Phased(s) /\ Laggards(s) /\ Spanned(s) /\ Divided(s)
  /\ Recent /\ Capturing(s) /\ OnDevice(s)

-----------------------------------------------------------------------------
(* The newest record that is not of the next version.                      *)

IsKept(l, b, a, k, x) ==
  \/ x = 0 /\ \A i \in 1 .. a : l[i].key = k => Later(l, b, i)
  \/ /\ x \in 1 .. a /\ l[x].key = k /\ ~Later(l, b, x)
     /\ \A i \in x + 1 .. a : l[i].key = k => Later(l, b, i)

LEMMA KeptIs ==
  ASSUME NEW l, NEW b, NEW a \in Nat, NEW k
  PROVE  IsKept(l, b, a, k, NewestKept(l, b, a, k)) /\ NewestKept(l, b, a, k) \in 0 .. a
<1> DEFINE S == {0} \cup {i \in 1 .. a : l[i].key = k /\ ~Later(l, b, i)}
           x == Max(S)
<1>1. S \in SUBSET (0 .. a) /\ S # {} /\ 0 \in S
  OBVIOUS
<1>2. x \in S /\ \A y \in S : y <= x
  <2> HIDE DEF S
  <2> QED BY <1>1, MaxIs
<1>3. x = NewestKept(l, b, a, k)
  BY DEF NewestKept
<1> HIDE DEF x
<1>4. CASE x = 0
  <2>1. ASSUME NEW i \in 1 .. a, l[i].key = k, ~Later(l, b, i) PROVE FALSE
    <3>1. i \in S /\ i \in Nat /\ ~(i <= 0)
      BY <2>1
    <3> QED BY <1>2, <1>4, <3>1
  <2> QED BY <1>3, <1>4, <2>1 DEF IsKept
<1>5. CASE x # 0
  <2>1. x \in 1 .. a /\ l[x].key = k /\ ~Later(l, b, x)
    BY <1>2, <1>5
  <2>2. ASSUME NEW i \in x + 1 .. a, l[i].key = k, ~Later(l, b, i) PROVE FALSE
    <3>1. i \in 1 .. a /\ ~(i <= x)
      BY <2>1
    <3>2. i \in S
      BY <2>2, <3>1
    <3> QED BY <1>2, <3>1, <3>2
  <2> QED BY <1>3, <2>1, <2>2 DEF IsKept
<1> QED BY <1>4, <1>5

LEMMA KeptUnique ==
  ASSUME NEW l, NEW b, NEW a \in Nat, NEW k, NEW x, IsKept(l, b, a, k, x)
  PROVE  NewestKept(l, b, a, k) = x
<1>1. PICK y : y = NewestKept(l, b, a, k)
  OBVIOUS
<1>2. IsKept(l, b, a, k, y)
  BY <1>1, KeptIs
<1>3. x = y
  BY <1>2 DEF IsKept
<1> QED BY <1>1, <1>3

(* Records that keep their key and version, and those of the prefix their  *)
(* value, spell out the same prefix.                                       *)
LEMMA PrefixSame ==
  ASSUME NEW l, NEW m, NEW b, NEW a \in Nat, NEW k,
         \A i \in 1 .. a : m[i].key = l[i].key /\ m[i].new = l[i].new,
         \A i \in 1 .. a : l[i].key = k /\ ~Later(l, b, i) =>
                             m[i].val = l[i].val /\ m[i].tomb = l[i].tomb
  PROVE  Prefix(m, b, a, k) = Prefix(l, b, a, k)
<1>1. PICK x : x = NewestKept(l, b, a, k)
  OBVIOUS
<1>2. IsKept(l, b, a, k, x)
  BY <1>1, KeptIs
<1>3. IsKept(m, b, a, k, x)
  BY <1>2 DEF IsKept, Later
<1>4. NewestKept(m, b, a, k) = x
  BY <1>3, KeptUnique
<1>5. x = 0 \/ (x \in 1 .. a /\ l[x].key = k /\ ~Later(l, b, x))
  BY <1>2 DEF IsKept
<1> QED BY <1>1, <1>4, <1>5 DEF Prefix, ValueAt

(* One more record.                                                        *)
LEMMA PrefixNext ==
  ASSUME NEW l, NEW b, NEW a \in Nat, NEW k, l[a + 1].key # k \/ Later(l, b, a + 1)
  PROVE  Prefix(l, b, a + 1, k) = Prefix(l, b, a, k)
<1>1. PICK x, c : x = NewestKept(l, b, a, k) /\ c = a + 1
  OBVIOUS
<1>2. IsKept(l, b, a, k, x) /\ c \in Nat
  BY <1>1, KeptIs
<1>3. IsKept(l, b, c, k, x)
  BY <1>1, <1>2 DEF IsKept
<1>4. NewestKept(l, b, c, k) = x
  BY <1>2, <1>3, KeptUnique
<1> QED BY <1>1, <1>4 DEF Prefix

(* A key whose newest record is not of the next version.                   *)
LEMMA PrefixWhole ==
  ASSUME NEW l, NEW b, NEW a \in Nat, NEW k,
         Newest(l, a, k, 1) # 0 => ~Later(l, b, Newest(l, a, k, 1))
  PROVE  Prefix(l, b, a, k) = ImageOf(l, a, k)
<1>1. PICK x : x = Newest(l, a, k, 1)
  OBVIOUS
<1>2. IsNewest(l, a, k, 1, x)
  BY <1>1, NewestIs
<1>3. IsKept(l, b, a, k, x)
  BY <1>1, <1>2 DEF IsNewest, IsKept
<1>4. NewestKept(l, b, a, k) = x
  BY <1>3, KeptUnique
<1> QED BY <1>1, <1>4, ImageIs DEF Prefix

-----------------------------------------------------------------------------
(* Steps of operations under a checkpoint.                                 *)

(* Only threads outside, or going out, see a new state.                    *)
LEMMA InsideStep ==
  ASSUME IInv, SaverTypes, NEW t \in Threads, op_step(t)
  PROVE  /\ sys' = sys /\ start' = start
         /\ \A u \in Threads \ {t} :
              pc'[u] = pc[u] /\ state'[u] = state[u] /\ entered'[u] = entered[u]
         /\ pc'[t] \in Inside =>
              \/ pc[t] \notin Inside /\ state'[t] = sys
              \/ pc[t] \in Inside /\ state'[t] = state[t] /\ entered'[t] = entered[t]
<1>0. /\ TypeOK /\ OneChain /\ Ordered /\ InProgress /\ Protected /\ Moves(t)
      /\ pc \in [Threads -> Labels] /\ entered \in [Threads -> Nat]
      /\ state \in [Threads -> [phase : Phases, version : Nat]]
  BY StepMoves DEF IInv, TypeOK, SaverTypes
<1>1. CASE invoke(t) \/ return(t) \/ io_update(t) \/ io_read(t)
  BY <1>0, <1>1 DEF invoke, return, io_update, io_read, Inside
<1>2. CASE protect(t)
  BY <1>0, <1>2 DEF protect, Inside
<1>3. CASE latch_and_load(t)
  BY <1>0, <1>3 DEF latch_and_load, Inside
<1>4. CASE Backs(t)
  BY <1>0, <1>4 DEF Backs, Leave, Inside
<1>5. CASE go_to_disk(t)
  BY <1>0, <1>5 DEF go_to_disk, Leave, Inside
<1>6. CASE \E a : Finish(t, a)
  BY <1>0, <1>6 DEF Finish, Done, Leave, Inside
<1> QED BY <1>0, <1>1, <1>2, <1>3, <1>4, <1>5, <1>6 DEF Moves

Ended(t) == pc[t] = "act" /\ pc'[t] = "done"

(* What an operation does to the log.                                      *)
LEMMA LogSteps ==
  ASSUME IInv, NEW t \in Threads, op_step(t)
  PROVE  \/ log' = log /\ entry' = entry /\ (Ended(t) => Settled(t) /\ kind(t) # "upsert")
         \/ Ended(t) /\ \E v, dead : Rewrites(t, v, dead)
         \/ Ended(t) /\ \E v, dead : Grows(t, v, dead)
<1>0. TypeOK /\ OneChain /\ Ordered /\ InProgress /\ Protected /\ pc \in [Threads -> Labels]
  BY DEF IInv, TypeOK
<1>1. ASSUME NEW a, Finish(t, a) PROVE Ended(t)
  BY <1>0, <1>1 DEF Finish, Done, Leave, Ended
<1>2. CASE Keeps(t) /\ log' = log /\ entry' = entry
  <2>1. ASSUME Ended(t) PROVE Settled(t) /\ kind(t) # "upsert"
    <3>1. pc[t] = "act" /\ pc'[t] = "done"
      BY <2>1 DEF Ended
    <3>2. ~(invoke(t) \/ protect(t) \/ latch_and_load(t) \/ io_update(t) \/ io_read(t) \/ return(t))
      BY <1>0, <3>1 DEF invoke, protect, latch_and_load, io_update, io_read, return
    <3>3. ~(latch_busy(t) \/ retry(t) \/ go_to_disk(t) \/ allocation_blocked(t))
      BY <1>0, <3>1 DEF latch_busy, retry, go_to_disk, allocation_blocked, Retry, Leave
    <3>4. no_effect(t)
      BY <1>2, <3>2, <3>3 DEF Keeps
    <3> QED BY <3>4 DEF no_effect
  <2> QED BY <1>2, <2>1
<1> QED BY <1>0, <1>1, <1>2, Ends

(* The key of an operation that goes on or ends is its key.                *)
LEMMA EndedKeeps ==
  ASSUME IInv, NEW t \in Threads, op_step(t), Ended(t)
  PROVE  call' = call /\ key(t) \in Keys
<1>0. /\ TypeOK /\ OneChain /\ Ordered /\ InProgress /\ Protected /\ Moves(t)
      /\ pc[t] = "act" /\ pc'[t] = "done" /\ pc \in [Threads -> Labels]
  BY StepMoves DEF IInv, TypeOK, Ended
<1>1. ~(invoke(t) \/ return(t))
  BY <1>0 DEF invoke, return
<1>2. call' = call
  BY <1>0, <1>1 DEF Moves, protect, latch_and_load, Backs, go_to_disk, io_update, io_read, Finish,
     Done, Leave
<1> QED BY <1>0, <1>2, CallType

(* The value of any other key stays.                                       *)
LEMMA OthersStay ==
  ASSUME IInv, IInv', NEW t \in Threads, op_step(t), NEW k, k # key(t) \/ ~Ended(t)
  PROVE  Value(k)' = Value(k)
<1>1. Value(k) = Now(k) /\ Value(k)' = ImageOf(log', Len(log'), k)
  BY ValueNow, ValueNext
<1>2. CASE log' = log
  BY <1>1, <1>2 DEF Now
<1>3. CASE Ended(t) /\ \E v, dead : Rewrites(t, v, dead)
  BY <1>1, <1>3, RewriteValue
<1>4. CASE Ended(t) /\ \E v, dead : Grows(t, v, dead)
  BY <1>1, <1>4, GrowValue
<1> QED BY <1>2, <1>3, <1>4, LogSteps

(* Keys and versions of records stay; a new record is of the version that  *)
(* its thread has seen.                                                    *)
LEMMA FlagsStay ==
  ASSUME IInv, NEW t \in Threads, op_step(t)
  PROVE  /\ Len(log) \in Nat
         /\ \A i \in 1 .. Len(log) : log'[i].key = log[i].key /\ log'[i].new = log[i].new
         /\ \/ Len(log') = Len(log)
            \/ /\ Len(log') = Len(log) + 1 /\ Ended(t)
               /\ log'[Len(log) + 1].new = in_new_version(state[t])
<1>0. Len(log) \in Nat
  BY LogType DEF IInv
<1>1. CASE log' = log
  BY <1>0, <1>1
<1>2. ASSUME NEW v, NEW dead, Rewrites(t, v, dead)
      PROVE  /\ Len(log') = Len(log)
             /\ \A i \in 1 .. Len(log) : log'[i].key = log[i].key /\ log'[i].new = log[i].new
  BY <1>2 DEF Rewrites, Rewrote
<1>3. ASSUME NEW v, NEW dead, Grows(t, v, dead)
      PROVE  /\ Len(log') = Len(log) + 1
             /\ log'[Len(log) + 1].new = in_new_version(state[t])
             /\ \A i \in 1 .. Len(log) : log'[i].key = log[i].key /\ log'[i].new = log[i].new
  BY <1>3 DEF Grows, Grew, SameContent
<1> QED BY <1>0, <1>1, <1>2, <1>3, LogSteps

(* The prefix spelled out by records that the operation may not touch.     *)
LEMMA PrefixStays ==
  ASSUME IInv, NEW t \in Threads, op_step(t), NEW b, NEW a \in 0 .. Len(log), NEW k,
         k # key(t) \/ Later(log, b, found(t)) \/ a < safe_read_only
  PROVE  Prefix(log', b, a, k) = Prefix(log, b, a, k)
<1>0. TypeOK /\ OneChain /\ Ordered /\ InProgress /\ Protected /\ Len(log) \in Nat
      /\ safe_read_only \in Nat
  BY LogType DEF IInv, TypeOK
<1>1. PICK l, m, n, f : l = log /\ m = log' /\ n = Len(log) /\ f = found(t)
  OBVIOUS
<1>2. a \in Nat /\ \A i \in 1 .. a : m[i].key = l[i].key /\ m[i].new = l[i].new
  BY <1>0, <1>1, FlagsStay
<1>3. CASE log' = log
  BY <1>3
<1>4. ASSUME NEW v, NEW dead, Rewrites(t, v, dead), NEW i \in 1 .. a, l[i].key = k, ~Later(l, b, i)
      PROVE  m[i].val = l[i].val /\ m[i].tomb = l[i].tomb
  <2>1. pc[t] = "act" /\ f >= view[t].read_only /\ Rewrote(l, m, f, v, dead)
    BY <1>1, <1>4 DEF Rewrites, InPlace, Settled
  <2>2. f \in 1 .. n
    BY <1>1, <2>1 DEF Rewrote
  <2>3. l[f].key = key(t) /\ safe_read_only <= f
    BY <1>0, <1>1, <2>1, <2>2, Found, ViewBounds
  <2>4. i # f
    BY <1>0, <1>1, <1>4, <2>2, <2>3
  <2>5. i \in 1 .. Len(l)
    BY <1>0, <1>1
  <2> QED BY <2>1, <2>4, <2>5 DEF Rewrote, SameContent
<1>5. ASSUME NEW v, NEW dead, Grows(t, v, dead), NEW i \in 1 .. a
      PROVE  m[i].val = l[i].val /\ m[i].tomb = l[i].tomb
  BY <1>0, <1>1, <1>5 DEF Grows, Grew, SameContent
<1>6. CASE \E v, dead : Rewrites(t, v, dead)
  <2>1. \A i \in 1 .. a : l[i].key = k /\ ~Later(l, b, i) => m[i].val = l[i].val /\ m[i].tomb = l[i].tomb
    BY <1>4, <1>6
  <2> QED BY <1>1, <1>2, <2>1, PrefixSame
<1>7. CASE \E v, dead : Grows(t, v, dead)
  <2>1. \A i \in 1 .. a : l[i].key = k /\ ~Later(l, b, i) => m[i].val = l[i].val /\ m[i].tomb = l[i].tomb
    BY <1>5, <1>7
  <2> QED BY <1>1, <1>2, <2>1, PrefixSame
<1> QED BY <1>3, <1>6, <1>7, LogSteps

(* And where the record it adds is no record of the prefix of k.           *)
LEMMA PrefixWholeStays ==
  ASSUME IInv, NEW t \in Threads, op_step(t), NEW b \in Nat, b <= Len(log) + 1, NEW k,
         k # key(t) \/ (Later(log, b, found(t)) /\ in_new_version(state[t]))
           \/ (log' # log /\ Len(log') # Len(log) /\ in_new_version(state[t]))
  PROVE  Prefix(log', b, Len(log'), k) = Prefix(log, b, Len(log), k)
<1>0. Len(log) \in Nat /\ Len(log) \in 0 .. Len(log) /\ IInv
  BY LogType DEF IInv
<1>1. PICK l, m, n : l = log /\ m = log' /\ n = Len(log)
  OBVIOUS
<1>2. CASE Len(m) = n
  BY <1>0, <1>1, <1>2, PrefixStays
<1>3. CASE Len(m) = n + 1 /\ m[n + 1].new = in_new_version(state[t]) /\ Ended(t)
  <2>1. PICK v, dead : Grows(t, v, dead)
    <3>1. ~(log' = log)
      BY <1>0, <1>1, <1>3
    <3>2. ~\E v, dead : Rewrites(t, v, dead)
      BY <1>0, <1>1, <1>3 DEF Rewrites, Rewrote
    <3> QED BY <3>1, <3>2, LogSteps
  <2>2. /\ m[n + 1].key = key(t) /\ \A i \in 1 .. n : SameContent(l, m, i) /\ m[i].new = l[i].new
    BY <1>1, <2>1 DEF Grows, Grew
  <2>3. Prefix(m, b, n, k) = Prefix(l, b, n, k)
    <3>1. \A i \in 1 .. n : m[i].key = l[i].key /\ m[i].new = l[i].new
      BY <2>2 DEF SameContent
    <3>2. \A i \in 1 .. n : l[i].key = k /\ ~Later(l, b, i) => m[i].val = l[i].val /\ m[i].tomb = l[i].tomb
      BY <2>2 DEF SameContent
    <3> QED BY <1>0, <1>1, <3>1, <3>2, PrefixSame
  <2>4. m[n + 1].key # k \/ Later(m, b, n + 1)
    BY <1>0, <1>1, <1>3, <2>2 DEF Later
  <2>5. Prefix(m, b, n + 1, k) = Prefix(m, b, n, k)
    BY <1>0, <1>1, <2>4, PrefixNext
  <2> QED BY <1>1, <1>3, <2>3, <2>5
<1> QED BY <1>1, <1>2, <1>3, FlagsStay

(* An operation of the next version leaves the prefix alone: what it may   *)
(* update in place is of its own version, and so is what it adds.          *)
LEMMA NextVersionStays ==
  ASSUME IInv, NEW t \in Threads, op_step(t), in_new_version(state[t]),
         NEW b \in Nat, b = start, b <= Len(log) + 1, NEW k
  PROVE  /\ Prefix(log', b, Len(log'), k) = Prefix(log, b, Len(log), k)
         /\ \A a \in 0 .. Len(log) : Prefix(log', b, a, k) = Prefix(log, b, a, k)
<1>1. CASE log' = log
  BY <1>1
<1>2. ASSUME NEW v, NEW dead, Rewrites(t, v, dead) PROVE Later(log, b, found(t))
  BY <1>2 DEF Rewrites, InPlace, cpr_blocks_in_place, record_in_new_version, Later
<1>3. CASE \E v, dead : Rewrites(t, v, dead)
  BY <1>2, <1>3, PrefixStays, PrefixWholeStays
<1>4. CASE \E v, dead : Grows(t, v, dead)
  <2>1. PICK l, m, n : l = log /\ m = log' /\ n = Len(log)
    OBVIOUS
  <2>2. /\ n \in Nat /\ Len(m) = n + 1
        /\ \A i \in 1 .. n : m[i].key = l[i].key /\ m[i].new = l[i].new
        /\ \A i \in 1 .. n : m[i].val = l[i].val /\ m[i].tomb = l[i].tomb
    <3>1. n \in Nat
      BY <2>1, LogType DEF IInv
    <3> QED BY <1>4, <2>1, <3>1 DEF Grows, Grew, SameContent
  <2>3. ASSUME NEW a \in 0 .. n PROVE Prefix(m, b, a, k) = Prefix(l, b, a, k)
    <3>1. /\ a \in Nat
          /\ \A i \in 1 .. a : m[i].key = l[i].key /\ m[i].new = l[i].new
          /\ \A i \in 1 .. a : l[i].key = k /\ ~Later(l, b, i) => m[i].val = l[i].val /\ m[i].tomb = l[i].tomb
      BY <2>2
    <3> QED BY <3>1, PrefixSame
  <2>4. Len(log') # Len(log) /\ log' # log
    BY <2>1, <2>2
  <2> QED BY <2>1, <2>3, <2>4, PrefixWholeStays
<1> QED BY <1>1, <1>3, <1>4, LogSteps

(* One of the captured version ends on a record of that version: the CPR   *)
(* gate turns it away from a newer one, which it finds, since such a       *)
(* record lies above ReadOnly as the operation entered.                    *)
LEMMA OldVersionOwns ==
  ASSUME IInv, IInv', NEW t \in Threads, op_step(t), Ended(t), state[t].phase = "prepare",
         NEW b, b = start, \A i \in 1 .. Len(log) : Later(log, b, i) => entered[t] <= i
  PROVE  Prefix(log', b, Len(log'), key(t)) = Value(key(t))'
<1>0. /\ TypeOK /\ OneChain /\ Ordered /\ InProgress /\ Protected /\ Len(log) \in Nat
      /\ Len(log') \in Nat /\ pc[t] = "act"
  BY LogType DEF IInv, TypeOK, Ended
<1>1. PICK l, m, n, k : l = log /\ m = log' /\ n = Len(log) /\ k = key(t)
  OBVIOUS
<1>2. found(t) \in 0 .. n /\ (found(t) # 0 => found(t) = Newest(l, n, k, 1))
  BY <1>0, <1>1, Found
<1>3. Settled(t) => (found(t) # 0 => ~Later(l, b, found(t)))
  BY <1>1 DEF Settled, MustRetry, cpr_gate, record_in_new_version, Later
<1>4. CASE log' = log /\ Settled(t) /\ kind(t) # "upsert"
  <2>1. CASE found(t) # 0
    <3>1. Newest(m, Len(m), k, 1) # 0 => ~Later(m, b, Newest(m, Len(m), k, 1))
      BY <1>1, <1>2, <1>3, <1>4, <2>1
    <3>2. Prefix(m, b, Len(m), k) = ImageOf(m, Len(m), k)
      BY <1>0, <1>1, <3>1, PrefixWhole
    <3> QED BY <1>1, <3>2, EndedKeeps, ValueNext DEF key
  <2>2. CASE found(t) = 0
    <3>1. PICK h, x : h = view[t].head /\ x = Newest(l, n, k, 1)
      OBVIOUS
    <3>2. /\ h \in Nat /\ 1 <= h /\ h <= n + 1 /\ Newest(l, n, k, h) = 0
      BY <1>0, <1>1, <1>4, <2>2, <3>1, Found, ViewBounds DEF lowest
    <3>3. x = Newest(l, h - 1, k, 1) /\ h - 1 \in Nat
      BY <1>0, <1>1, <3>1, <3>2, NewestBelow
    <3>4. x \in 0 .. h - 1
      BY <3>3, NewestIs
    <3>5. h <= entered[t] /\ entered[t] \in Nat
      <4>1. /\ h <= head /\ head <= safe_read_only /\ safe_read_only <= entered[t]
            /\ head \in Nat /\ safe_read_only \in Nat /\ entered[t] \in Nat
        BY <1>0, <3>1 DEF Protected, Ordered, TypeOK
      <4> QED BY <3>2, <4>1
    <3>6. x # 0 => ~Later(l, b, x)
      BY <1>0, <1>1, <3>2, <3>4, <3>5
    <3>7. Newest(m, Len(m), k, 1) # 0 => ~Later(m, b, Newest(m, Len(m), k, 1))
      BY <1>1, <1>4, <3>1, <3>6
    <3>8. Prefix(m, b, Len(m), k) = ImageOf(m, Len(m), k)
      BY <1>0, <1>1, <3>7, PrefixWhole
    <3> QED BY <1>1, <3>8, EndedKeeps, ValueNext DEF key
  <2> QED BY <2>1, <2>2
<1>5. ASSUME NEW v, NEW dead, Rewrites(t, v, dead)
      PROVE  Newest(m, Len(m), k, 1) # 0 => ~Later(m, b, Newest(m, Len(m), k, 1))
  <2>1. PICK f : f = found(t)
    OBVIOUS
  <2>2. Settled(t) /\ f # 0 /\ Rewrote(l, m, f, v, dead)
    BY <1>1, <1>5, <2>1 DEF Rewrites, InPlace, Live
  <2>3. Len(m) = n /\ \A i \in 1 .. n : m[i].key = l[i].key /\ m[i].new = l[i].new
    BY <1>1, <2>2 DEF Rewrote
  <2>4. Newest(m, n, k, 1) = f
    BY <1>0, <1>1, <1>2, <2>1, <2>2, <2>3, NewestSame
  <2>5. f \in 1 .. n
    BY <1>2, <2>1, <2>2
  <2> QED BY <1>3, <2>1, <2>2, <2>3, <2>4, <2>5 DEF Later
<1>6. ASSUME NEW v, NEW dead, Grows(t, v, dead)
      PROVE  Newest(m, Len(m), k, 1) # 0 => ~Later(m, b, Newest(m, Len(m), k, 1))
  <2>1. Grew(l, m, k, v, dead) /\ m[n + 1].new = in_new_version(state[t])
    BY <1>1, <1>6 DEF Grows
  <2>2. Len(m) = n + 1 /\ m[n + 1].key = k
    BY <1>1, <2>1 DEF Grew
  <2>3. Newest(m, n + 1, k, 1) = n + 1
    BY <1>0, <1>1, <2>2, NewestNext
  <2>4. ~m[n + 1].new
    BY <2>1 DEF in_new_version
  <2> QED BY <2>2, <2>3, <2>4 DEF Later
<1>7. CASE \E v, dead : Rewrites(t, v, dead) \/ Grows(t, v, dead)
  <2>1. Newest(m, Len(m), k, 1) # 0 => ~Later(m, b, Newest(m, Len(m), k, 1))
    BY <1>5, <1>6, <1>7
  <2>2. Prefix(m, b, Len(m), k) = ImageOf(m, Len(m), k)
    BY <1>0, <1>1, <2>1, PrefixWhole
  <2> QED BY <1>1, <2>2, EndedKeeps, ValueNext DEF key
<1> QED BY <1>4, <1>7, LogSteps

-----------------------------------------------------------------------------
(* operate keeps the invariant.                                            *)

LEMMA SysType ==
  ASSUME NEW s, Phased(s), SaverTypes, s \in Savers
  PROVE  /\ sys \in [phase : Phases, version : Nat] /\ sys.version \in Versions
         /\ Versions \subseteq Nat /\ MaxVersion \in Nat
         /\ sys.phase \in Phases /\ sys.version \in Nat
<1>1. Versions \subseteq Nat /\ MaxVersion \in Nat
  BY MaxVersionAssumption DEF Versions
<1>2. step[s] \in Steps /\ version[s] \in Nat
  BY DEF SaverTypes
<1>3. sys.version \in Versions
  BY DEF Phased
<1>a. sys.version \in Nat
  BY <1>1, <1>3, Zenon
<1>b. version[s] + 1 \in Nat
  BY <1>2
<1>4. version[s] + 1 \in Nat /\ sys.version \in Nat
  BY <1>a, <1>b
<1>5. sys \in [phase : Phases, version : Nat]
  BY <1>2, <1>4 DEF Phased, At, Phases, Steps, Waiting
<1> QED BY <1>1, <1>3, <1>4, <1>5

(* The state of a thread inside, by the step of the saver.                 *)
LEMMA StateInside ==
  ASSUME NEW s, s \in Savers, CInv(s), NEW t \in Threads, pc[t] \in Inside
  PROVE  /\ state[t].version \in Nat /\ state[t].version <= sys.version
         /\ step[s] \in {"begun", "started", "prepare", "prepared"} => ~in_new_version(state[t])
         /\ step[s] = "in_progress" => IF t \in lag[s] THEN state[t] = At("prepare", version[s])
                                       ELSE state[t] = At("in_progress", version[s] + 1)
         /\ step[s] \in {"captured", "wait_flush", "flushing"} =>
              in_new_version(state[t]) /\ state[t].version = version[s] + 1
         /\ meta # None => meta.version < state[t].version
<1>1. /\ Phased(s) /\ Laggards(s) /\ SaverTypes /\ OnDevice(s)
      /\ step[s] \in Steps /\ version[s] \in Nat /\ sys.version \in Nat
  BY SysType DEF CInv, SaverTypes
<1>2. state[t] = IF t \in lag[s] THEN Before(step[s], version[s]) ELSE sys
  BY <1>1 DEF Laggards
<1>3. t \in lag[s] => step[s] \in Waiting
  BY <1>1 DEF Laggards
<1>4. meta # None => meta.version < sys.version /\ meta.version \in Nat
  BY <1>1, MaxVersionAssumption DEF OnDevice, Versions
<1>5. CASE t \notin lag[s]
  BY <1>1, <1>2, <1>4, <1>5 DEF Phased, At, in_new_version
<1>6. CASE t \in lag[s] /\ step[s] = "prepare"
  BY <1>1, <1>2, <1>4, <1>6 DEF Phased, At, in_new_version, Before, OnDevice
<1>7. CASE t \in lag[s] /\ step[s] = "in_progress"
  BY <1>1, <1>2, <1>4, <1>7 DEF Phased, At, in_new_version, Before, OnDevice
<1>8. CASE t \in lag[s] /\ step[s] = "wait_flush"
  BY <1>1, <1>2, <1>4, <1>8 DEF Phased, At, in_new_version, Before, OnDevice
<1>9. CASE t \in lag[s] /\ step[s] = "rest"
  BY <1>1, <1>2, <1>4, <1>9 DEF Phased, At, in_new_version, Before, OnDevice
<1> QED BY <1>3, <1>5, <1>6, <1>7, <1>8, <1>9 DEF Waiting

LEMMA SnapStep ==
  ASSUME IInv, IInv', SaverTypes, NEW t \in Threads, operate(t)
  PROVE  /\ snap' \in [Versions -> [Keys -> Nat]]
         /\ \A v \in Versions, k \in Keys :
              snap'[v][k] = IF Ended(t) /\ ~(v < state[t].version) /\ k = key(t)
                            THEN Value(key(t))' ELSE snap[v][k]
<1>0. op_step(t) /\ snap \in [Versions -> [Keys -> Nat]]
  BY DEF operate, SaverTypes
<1>1. CASE Ended(t)
  <2>1. PICK x, j : x = Value(key(t))' /\ j = key(t)
    OBVIOUS
  <2>2. j \in Keys /\ x \in Nat
    <3>1. PICK e : e = key(t)'
      OBVIOUS
    <3>2. Value(key(t))' = Value(e)'
      BY <3>1 DEF Value, Image, trace_back
    <3>3. Value(e)' = ImageOf(log', Len(log'), e)
      BY ValueNext
    <3>4. log' \in Seq(Records) /\ Len(log') \in 0 .. Len(log')
      BY DEF IInv, TypeOK
    <3>5. ImageOf(log', Len(log'), e) \in Nat
      BY <3>4, ImageType
    <3> QED BY <1>0, <1>1, <2>1, <3>2, <3>3, <3>5, EndedKeeps
  <2>3. snap' = [v \in Versions |-> IF v < state[t].version THEN snap[v]
                                    ELSE [snap[v] EXCEPT ![j] = x]]
    BY <1>1, <2>1 DEF operate, Ended
  <2> QED BY <1>0, <1>1, <2>1, <2>2, <2>3
<1>2. CASE ~Ended(t)
  <2>1. snap' = snap
    BY <1>2 DEF operate, Ended
  <2> QED BY <1>0, <1>2, <2>1
<1> QED BY <1>1, <1>2

LEMMA OperateTypes ==
  ASSUME NEW s, s \in Savers, IInv, IInv', CInv(s), NEW t \in Threads, operate(t)
  PROVE  SaverTypes'
<1>0. op_step(t) /\ SaverTypes /\ Phased(s)
  BY DEF operate, CInv
<1>1. UNCHANGED <<step, version, start_address, final_address>>
  BY DEF operate, saver_locals
<1>2. lag' \in [Savers -> SUBSET Threads]
  BY <1>0 DEF operate, SaverTypes
<1>3. state' \in [Threads -> [phase : Phases, version : Nat]]
  <2>1. state \in [Threads -> [phase : Phases, version : Nat]]
        /\ sys \in [phase : Phases, version : Nat]
    BY <1>0, SysType DEF SaverTypes
  <2>2. state' = state \/ state' = [state EXCEPT ![t] = sys]
    BY <1>0, StepMoves
       DEF IInv, Moves, invoke, protect, latch_and_load, Backs, go_to_disk, io_update,
       io_read, Finish, Done, Leave, return
  <2> QED BY <2>1, <2>2
<1> QED BY <1>0, <1>1, <1>2, <1>3, SnapStep DEF SaverTypes

LEMMA OperateLaggards ==
  ASSUME NEW s, s \in Savers, IInv, CInv(s), NEW t \in Threads, operate(t)
  PROVE  Laggards(s)' /\ Phased(s)'
<1>0. op_step(t) /\ SaverTypes /\ Phased(s) /\ Laggards(s) /\ lag[s] \in SUBSET Threads
  BY DEF operate, CInv, SaverTypes
<1>1. UNCHANGED <<step, version>>
  BY DEF operate, saver_locals
<1>2. lag'[s] = IF pc'[t] \in Inside THEN lag[s] ELSE lag[s] \ {t}
  BY DEF operate
<1>3. /\ sys' = sys
      /\ \A u \in Threads \ {t} : pc'[u] = pc[u] /\ state'[u] = state[u]
      /\ pc'[t] \in Inside => \/ pc[t] \notin Inside /\ state'[t] = sys
                              \/ pc[t] \in Inside /\ state'[t] = state[t]
  BY <1>0, InsideStep
<1>4. Phased(s)'
  BY <1>0, <1>1, <1>3 DEF Phased
<1>5. lag'[s] \subseteq {u \in Threads : pc'[u] \in Inside}
  BY <1>0, <1>2, <1>3 DEF Laggards
<1>6. step'[s] \notin Waiting => lag'[s] = {}
  BY <1>0, <1>1, <1>2 DEF Laggards
<1>7. ASSUME NEW u \in Threads, pc'[u] \in Inside
      PROVE  state'[u] = IF u \in lag'[s] THEN Before(step'[s], version'[s]) ELSE sys'
  <2>1. CASE u # t
    <3>1. u \in lag'[s] <=> u \in lag[s]
      BY <1>2, <2>1
    <3> QED BY <1>0, <1>1, <1>3, <1>7, <2>1, <3>1 DEF Laggards
  <2>2. CASE u = t
    <3>1. lag'[s] = lag[s]
      BY <1>2, <1>7, <2>2
    <3>2. pc[t] \notin Inside => t \notin lag[s]
      BY <1>0 DEF Laggards
    <3> QED BY <1>0, <1>1, <1>3, <1>7, <2>2, <3>1, <3>2 DEF Laggards
  <2> QED BY <2>1, <2>2
<1> QED BY <1>4, <1>5, <1>6, <1>7 DEF Laggards

LEMMA OperateSpans ==
  ASSUME NEW s, s \in Savers, IInv, CInv(s), NEW t \in Threads, operate(t)
  PROVE  Spanned(s)' /\ Divided(s)'
<1>0. /\ op_step(t) /\ SaverTypes /\ Spanned(s) /\ Divided(s) /\ Laggards(s)
      /\ TypeOK /\ Ordered /\ Protected
      /\ lag[s] \in SUBSET Threads /\ start_address[s] \in Nat /\ final_address[s] \in Nat
  BY DEF operate, CInv, SaverTypes, IInv
<1>1. UNCHANGED <<step, version, start_address, final_address>> /\ start' = start
  BY <1>0, InsideStep DEF operate, saver_locals
<1>2. PICK l, m, n, b : l = log /\ m = log' /\ n = Len(log) /\ b = start_address[s]
  OBVIOUS
<1>3. /\ n \in Nat /\ \A i \in 1 .. n : m[i].key = l[i].key /\ m[i].new = l[i].new
      /\ \/ Len(m) = n
         \/ Len(m) = n + 1 /\ Ended(t) /\ m[n + 1].new = in_new_version(state[t])
  BY <1>0, <1>2, FlagsStay
<1>4. tail = n + 1 /\ tail' = Len(m) + 1 /\ tail <= tail' /\ Len(m) \in Nat
  BY <1>2, <1>3 DEF tail
<1>5. Spanned(s)'
  BY <1>0, <1>1, <1>3, <1>4 DEF Spanned
<1>6. \A i \in 1 .. n : Later(m, b, i) <=> Later(l, b, i)
  BY <1>3 DEF Later
<1>7. ASSUME step[s] \in {"begun", "started", "prepare", "prepared"}, NEW i \in 1 .. Len(m)
      PROVE  ~Later(m, b, i)
  <2>1. CASE i \in 1 .. n
    BY <1>0, <1>2, <1>6, <1>7, <2>1 DEF Divided
  <2>2. CASE i \notin 1 .. n
    <3>1. i = n + 1 /\ Ended(t) /\ m[i].new = in_new_version(state[t])
      BY <1>3, <2>2
    <3>2. pc[t] \in Inside
      BY <3>1 DEF Ended, Inside
    <3>3. ~in_new_version(state[t])
      BY <1>7, <3>2, StateInside
    <3> QED BY <3>1, <3>3 DEF Later
  <2> QED BY <2>1, <2>2
<1>8. ASSUME step[s] = "in_progress", NEW u \in lag'[s], NEW i \in 1 .. Len(m), Later(m, b, i)
      PROVE  entered'[u] <= i
  <2>1. u \in lag[s] /\ u \in Threads /\ entered'[u] = entered[u]
    <3>1. u \in lag[s] /\ u \in Threads /\ (u = t => pc'[t] \in Inside)
      BY <1>0, <1>8 DEF operate
    <3>2. pc[u] \in Inside
      BY <1>0, <3>1 DEF Laggards
    <3> QED BY <1>0, <3>1, <3>2, InsideStep
  <2>2. CASE i \in 1 .. n
    BY <1>0, <1>2, <1>6, <1>8, <2>1, <2>2 DEF Divided
  <2>3. CASE i \notin 1 .. n
    <3>1. i = n + 1
      BY <1>3, <2>3
    <3>2. pc[u] \in {"latch", "act"}
      BY <1>0, <2>1 DEF Laggards, Inside
    <3>3. /\ entered[u] <= read_only /\ read_only <= n + 1
          /\ entered[u] \in Nat /\ read_only \in Nat
      BY <1>0, <1>4, <2>1, <3>2 DEF Protected, Ordered, TypeOK
    <3> QED BY <1>3, <2>1, <3>1, <3>3
  <2> QED BY <2>2, <2>3
<1>9. Divided(s)'
  BY <1>1, <1>2, <1>7, <1>8 DEF Divided
<1> QED BY <1>5, <1>9

LEMMA OperateRecent ==
  ASSUME NEW s, s \in Savers, IInv, IInv', CInv(s), NEW t \in Threads, operate(t)
  PROVE  Recent'
<1>0. op_step(t) /\ SaverTypes /\ Phased(s) /\ Recent /\ Versions \subseteq Nat
      /\ sys.version \in Nat
  BY SysType DEF operate, CInv
<1>1. sys' = sys
  BY <1>0, InsideStep
<1>2. SUFFICES ASSUME NEW v \in Versions, v >= sys.version, NEW k \in Keys
               PROVE  snap'[v][k] = Value(k)'
  BY <1>1 DEF Recent
<1>3. snap[v][k] = Value(k)
  BY <1>0, <1>2 DEF Recent
<1>4. snap'[v][k] = IF Ended(t) /\ ~(v < state[t].version) /\ k = key(t)
                    THEN Value(key(t))' ELSE snap[v][k]
  BY <1>0, SnapStep
<1>5. CASE k # key(t) \/ ~Ended(t)
  <2>1. Value(k)' = Value(k)
    BY <1>0, <1>5, OthersStay
  <2> QED BY <1>3, <1>4, <1>5, <2>1
<1>6. CASE k = key(t) /\ Ended(t)
  <2>1. state[t].version \in Nat /\ state[t].version <= sys.version
    <3>1. pc[t] \in Inside
      BY <1>6 DEF Ended, Inside
    <3> QED BY <3>1, StateInside
  <2>2. ~(v < state[t].version)
    BY <1>0, <1>2, <2>1
  <2>3. Value(key(t))' = Value(k)'
    <3>1. key(t)' = k
      BY <1>0, <1>6, EndedKeeps DEF key
    <3> QED BY <3>1 DEF Value, Image, trace_back
  <2> QED BY <1>4, <1>6, <2>2, <2>3
<1> QED BY <1>5, <1>6

LEMMA OperateCaptures ==
  ASSUME NEW s, s \in Savers, IInv, IInv', CInv(s), NEW t \in Threads, operate(t)
  PROVE  Capturing(s)'
<1>0. /\ op_step(t) /\ SaverTypes /\ Phased(s) /\ Capturing(s) /\ Spanned(s) /\ Divided(s) /\ Laggards(s)
      /\ Versions \subseteq Nat /\ Len(log) \in Nat
      /\ version[s] \in Nat /\ start_address[s] \in Nat /\ final_address[s] \in Nat
  BY SysType, LogType DEF operate, CInv, SaverTypes, IInv
<1>1. UNCHANGED <<step, version, start_address, final_address>>
  BY DEF operate, saver_locals
<1>2. PICK l, m, b, w : l = log /\ m = log' /\ b = start_address[s] /\ w = version[s]
  OBVIOUS
<1>3. \A v \in Versions, k \in Keys :
        snap'[v][k] = IF Ended(t) /\ ~(v < state[t].version) /\ k = key(t)
                      THEN Value(key(t))' ELSE snap[v][k]
  BY <1>0, SnapStep
<1>4. step[s] # "idle" => w \in Versions
  BY <1>0, <1>2 DEF Phased
<1>5. Ended(t) => pc[t] \in Inside
  BY DEF Ended, Inside
<1>6. step[s] \in {"in_progress", "captured", "wait_flush", "flushing"} =>
        b = start /\ b <= Len(l) + 1 /\ b \in Nat
  BY <1>0, <1>2 DEF Spanned, tail
<1>7. ~Ended(t) => m = l /\ snap' = snap
  <2>1. ~Ended(t) => log' = log
    BY <1>0, LogSteps
  <2>2. ~Ended(t) => snap' = snap
    BY DEF operate, Ended
  <2> QED BY <1>2, <2>1, <2>2
<1>8. ASSUME step[s] = "in_progress", NEW k \in Keys
      PROVE  snap'[w][k] = Prefix(m, b, Len(m), k)
  <2>0. snap[w][k] = Prefix(l, b, Len(l), k) /\ w \in Versions
    BY <1>0, <1>2, <1>4, <1>8 DEF Capturing
  <2>1. CASE ~Ended(t)
    BY <1>7, <2>0, <2>1
  <2>2. CASE Ended(t) /\ t \notin lag[s]
    <3>1. state[t] = At("in_progress", w + 1)
      BY <1>2, <1>5, <1>8, <2>2, StateInside
    <3>2. in_new_version(state[t]) /\ w < state[t].version
      BY <1>0, <1>2, <3>1 DEF in_new_version, At
    <3>3. Prefix(m, b, Len(m), k) = Prefix(l, b, Len(l), k)
      BY <1>0, <1>2, <1>6, <1>8, <3>2, NextVersionStays
    <3> QED BY <1>3, <2>0, <3>2, <3>3
  <2>3. CASE Ended(t) /\ t \in lag[s]
    <3>1. state[t] = At("prepare", w)
      BY <1>2, <1>5, <1>8, <2>3, StateInside
    <3>2. state[t].phase = "prepare" /\ ~(w < state[t].version)
      BY <1>0, <1>2, <3>1 DEF At
    <3>3. CASE k = key(t)
      <4>1. \A i \in 1 .. Len(log) : Later(log, b, i) => entered[t] <= i
        BY <1>0, <1>2, <1>8, <2>3 DEF Divided
      <4>2. Prefix(m, b, Len(m), k) = Value(key(t))'
        BY <1>0, <1>2, <1>6, <1>8, <2>3, <3>2, <3>3, <4>1, OldVersionOwns
      <4> QED BY <1>3, <2>0, <2>3, <3>2, <3>3, <4>2
    <3>4. CASE k # key(t)
      <4>1. Prefix(m, b, Len(m), k) = Prefix(l, b, Len(l), k)
        BY <1>0, <1>2, <1>6, <1>8, <3>4, PrefixWholeStays
      <4> QED BY <1>3, <2>0, <3>4, <4>1
    <3> QED BY <3>3, <3>4
  <2> QED BY <2>1, <2>2, <2>3
<1>9. ASSUME step[s] \in {"captured", "wait_flush", "flushing"}, NEW k \in Keys
      PROVE  snap'[w][k] = Prefix(m, b, final_address[s] - 1, k)
  <2>0. snap[w][k] = Prefix(l, b, final_address[s] - 1, k) /\ w \in Versions
    BY <1>0, <1>2, <1>4, <1>9 DEF Capturing
  <2>1. CASE ~Ended(t)
    BY <1>7, <2>0, <2>1
  <2>2. CASE Ended(t)
    <3>1. in_new_version(state[t]) /\ w < state[t].version
      BY <1>0, <1>2, <1>5, <1>9, <2>2, StateInside
    <3>2. final_address[s] - 1 \in 0 .. Len(l)
      BY <1>0, <1>2, <1>9 DEF Spanned, tail
    <3>3. \A a \in 0 .. Len(l) : Prefix(m, b, a, k) = Prefix(l, b, a, k)
      BY <1>0, <1>2, <1>6, <1>9, <3>1, NextVersionStays
    <3> QED BY <1>3, <2>0, <3>1, <3>2, <3>3
  <2> QED BY <2>1, <2>2
<1> QED BY <1>1, <1>2, <1>8, <1>9 DEF Capturing

(* What the checkpoint on disk holds is out of reach.                      *)
LEMMA OperateOnDevice ==
  ASSUME NEW s, s \in Savers, IInv, IInv', CInv(s), NEW t \in Threads, operate(t)
  PROVE  OnDevice(s)'
<1>0. /\ op_step(t) /\ SaverTypes /\ Phased(s) /\ OnDevice(s) /\ Versions \subseteq Nat
      /\ Len(log) \in Nat /\ safe_read_only \in Nat /\ safe_read_only <= Len(log) + 1
  <2>1. safe_read_only <= read_only /\ read_only <= tail /\ read_only \in Nat
        /\ safe_read_only \in Nat
    BY DEF IInv, TypeOK, Ordered
  <2>2. tail = Len(log) + 1 /\ Len(log) \in Nat
    BY LogType DEF IInv
  <2>3. safe_read_only <= Len(log) + 1
    BY <2>1, <2>2
  <2> QED BY <2>1, <2>2, <2>3, SysType DEF operate, CInv
<1>1. UNCHANGED <<step, version, meta, sys, safe_read_only>>
  <2>1. UNCHANGED safe_read_only
    BY <1>0, StepMoves
       DEF IInv, Moves, invoke, protect, latch_and_load, Backs, go_to_disk, io_update,
       io_read, Finish, Done, Leave, return, marks
  <2> QED BY <1>0, <2>1, InsideStep DEF operate, saver_locals
<1>2. SUFFICES ASSUME meta # None, NEW k \in Keys
               PROVE  snap'[meta.version][k] = Prefix(log', meta.start, meta.final - 1, k)
  BY <1>0, <1>1 DEF OnDevice
<1>3. PICK v, b, f : v = meta.version /\ b = meta.start /\ f = meta.final
  OBVIOUS
<1>4. /\ v \in Versions /\ b \in Nat /\ f \in Nat /\ 1 <= f /\ f <= safe_read_only
      /\ snap[v][k] = Prefix(log, b, f - 1, k)
  BY <1>0, <1>2, <1>3 DEF OnDevice
<1>5. f - 1 \in 0 .. Len(log) /\ f - 1 < safe_read_only
  BY <1>0, <1>4
<1>6. Prefix(log', b, f - 1, k) = Prefix(log, b, f - 1, k)
  BY <1>0, <1>5, PrefixStays
<1>7. Ended(t) => v < state[t].version
  <2>1. Ended(t) => pc[t] \in Inside
    BY DEF Ended, Inside
  <2> QED BY <1>2, <1>3, <2>1, StateInside
<1>8. snap'[v][k] = snap[v][k]
  BY <1>0, <1>4, <1>7, SnapStep
<1> QED BY <1>3, <1>4, <1>6, <1>8

LEMMA OperateHolds ==
  ASSUME NEW s, s \in Savers, IInv, IInv', CInv(s), NEW t \in Threads, operate(t)
  PROVE  CInv(s)'
BY OperateTypes, OperateLaggards, OperateSpans, OperateRecent, OperateCaptures, OperateOnDevice
   DEF CInv

-----------------------------------------------------------------------------
(* The steps of the saver keep the invariant.                              *)

(* What holds before a step of saver s.                                    *)
Given(s) ==
  /\ SaverTypes /\ Phased(s) /\ Laggards(s) /\ Spanned(s) /\ Divided(s)
  /\ Recent /\ Capturing(s) /\ OnDevice(s)
  /\ s \in Savers /\ step[s] \in Steps /\ lag[s] \in SUBSET Threads /\ version[s] \in Nat
  /\ start_address[s] \in Nat /\ final_address[s] \in Nat
  /\ sys \in [phase : Phases, version : Nat] /\ sys.version \in Versions /\ sys.version \in Nat
  /\ (\A v \in Versions : v \in Nat /\ 1 <= v /\ v <= MaxVersion) /\ MaxVersion \in Nat
  /\ (\A v \in Nat : 1 <= v /\ v <= MaxVersion => v \in Versions)
  /\ (meta # None => meta.version \in Nat)
  /\ Len(log) \in Nat /\ tail = Len(log) + 1 /\ tail \in Nat /\ safe_read_only \in Nat

LEMMA GivenIs ==
  ASSUME NEW s, s \in Savers, IInv, CInv(s)
  PROVE  Given(s)
<1>1. /\ SaverTypes /\ Phased(s) /\ Laggards(s) /\ Spanned(s) /\ Divided(s)
      /\ Recent /\ Capturing(s) /\ OnDevice(s)
  BY DEF CInv
<1>2. /\ step[s] \in Steps /\ lag[s] \in SUBSET Threads /\ version[s] \in Nat
      /\ start_address[s] \in Nat /\ final_address[s] \in Nat
  BY <1>1 DEF SaverTypes
<1>3. /\ sys \in [phase : Phases, version : Nat] /\ sys.version \in Versions /\ sys.version \in Nat
  BY <1>1, SysType
<1>4. /\ (\A v \in Versions : v \in Nat /\ 1 <= v /\ v <= MaxVersion) /\ MaxVersion \in Nat
      /\ (\A v \in Nat : 1 <= v /\ v <= MaxVersion => v \in Versions)
  BY MaxVersionAssumption DEF Versions
<1>5. meta # None => meta.version \in Nat
  BY <1>1, <1>4 DEF OnDevice
<1>6. Len(log) \in Nat /\ tail = Len(log) + 1 /\ safe_read_only \in Nat
  BY LogType DEF IInv, TypeOK
<1>7. tail \in Nat
  BY <1>6
<1> QED BY <1>1, <1>2, <1>3, <1>4, <1>5, <1>6, <1>7 DEF Given

(* What it leaves alone.                                                   *)
Still(s) ==
  /\ UNCHANGED <<log, pc, state, entered, snap, safe_read_only>> /\ tail' = tail
  /\ \A k : Value(k)' = Value(k)

LEMMA StillIs ==
  ASSUME NEW s, UNCHANGED <<log, entry, pc, state, entered, snap, safe_read_only>>
  PROVE  Still(s)
<1>1. \A k : Value(k)' = Value(k)
  BY DEF Value, Image, trace_back, Chain
<1> QED BY <1>1 DEF Still, tail

LEMMA TakeCheckpointHolds ==
  ASSUME NEW s, s \in Savers, IInv, CInv(s), take_checkpoint(s)
  PROVE  CInv(s)'
<1>0. Given(s)
  BY GivenIs
<1>t. /\ step \in [Savers -> Steps] /\ lag \in [Savers -> SUBSET Threads]
      /\ version \in [Savers -> Nat] /\ start_address \in [Savers -> Nat]
      /\ final_address \in [Savers -> Nat]
  BY <1>0 DEF Given, SaverTypes
<1>1. /\ step[s] = "idle" /\ step'[s] = "begun"
      /\ version'[s] = sys.version
      /\ start_address'[s] = tail
      /\ final_address'[s] = final_address[s]
      /\ UNCHANGED <<sys, start, meta>>
      /\ lag'[s] = lag[s]
      /\ sys.phase = "rest" /\ sys.version < MaxVersion
  BY <1>t DEF take_checkpoint, vars, marks, savers, saver_locals, unchanged_store
<1>2. Still(s) /\ SaverTypes'
  <2>1. UNCHANGED <<log, entry, pc, state, entered, snap, safe_read_only>>
    BY DEF take_checkpoint, vars, marks, locals, savers, saver_locals, unchanged_store
  <2>2. SaverTypes'
    BY <1>0, <2>1
       DEF Given, SaverTypes, Steps, Waiting, take_checkpoint, savers, saver_locals, unchanged_store
  <2> QED BY <1>0, <2>1, <2>2, StillIs
<1>3. Phased(s)'
  BY <1>0, <1>1 DEF Given, Phased, At
<1>4. Laggards(s)'
  BY <1>0, <1>1, <1>2 DEF Given, Still, Laggards, Phased, Before, Waiting
<1>5. Spanned(s)'
  BY <1>0, <1>1, <1>2 DEF Given, Still, Spanned
<1>6. Divided(s)'
  BY <1>0, <1>1, <1>2 DEF Given, Still, Divided, Later
<1>7. Recent'
  BY <1>0, <1>1, <1>2 DEF Given, Still, Recent
<1>8. Capturing(s)'
  BY <1>0, <1>1, <1>2 DEF Given, Still, Capturing
<1>9. OnDevice(s)'
  BY <1>0, <1>1, <1>2 DEF Given, Still, OnDevice, Phased, At
<1> QED BY <1>2, <1>3, <1>4, <1>5, <1>6, <1>7, <1>8, <1>9 DEF CInv

LEMMA SetStartHolds ==
  ASSUME NEW s, s \in Savers, IInv, CInv(s), set_start(s)
  PROVE  CInv(s)'
<1>0. Given(s)
  BY GivenIs
<1>t. /\ step \in [Savers -> Steps] /\ lag \in [Savers -> SUBSET Threads]
      /\ version \in [Savers -> Nat] /\ start_address \in [Savers -> Nat]
      /\ final_address \in [Savers -> Nat]
  BY <1>0 DEF Given, SaverTypes
<1>1. /\ step[s] = "begun" /\ step'[s] = "started"
      /\ version'[s] = version[s]
      /\ start_address'[s] = start_address[s]
      /\ final_address'[s] = final_address[s]
      /\ start' = start_address[s]
      /\ UNCHANGED <<sys, meta>>
      /\ lag'[s] = lag[s]
  BY <1>t DEF set_start, vars, marks, savers, saver_locals, unchanged_store
<1>2. Still(s) /\ SaverTypes'
  <2>1. UNCHANGED <<log, entry, pc, state, entered, snap, safe_read_only>>
    BY DEF set_start, vars, marks, locals, savers, saver_locals, unchanged_store
  <2>2. SaverTypes'
    BY <1>0, <2>1
       DEF Given, SaverTypes, Steps, Waiting, set_start, savers, saver_locals, unchanged_store
  <2> QED BY <1>0, <2>1, <2>2, StillIs
<1>3. Phased(s)'
  BY <1>0, <1>1 DEF Given, Phased, At
<1>4. Laggards(s)'
  BY <1>0, <1>1, <1>2 DEF Given, Still, Laggards, Phased, Before, Waiting
<1>5. Spanned(s)'
  BY <1>0, <1>1, <1>2 DEF Given, Still, Spanned
<1>6. Divided(s)'
  BY <1>0, <1>1, <1>2 DEF Given, Still, Divided
<1>7. Recent'
  BY <1>0, <1>1, <1>2 DEF Given, Still, Recent
<1>8. Capturing(s)'
  BY <1>0, <1>1, <1>2 DEF Given, Still, Capturing
<1>9. OnDevice(s)'
  BY <1>0, <1>1, <1>2 DEF Given, Still, OnDevice, Phased, At
<1> QED BY <1>2, <1>3, <1>4, <1>5, <1>6, <1>7, <1>8, <1>9 DEF CInv

LEMMA ToPrepareHolds ==
  ASSUME NEW s, s \in Savers, IInv, CInv(s), to_prepare(s)
  PROVE  CInv(s)'
<1>0. Given(s)
  BY GivenIs
<1>t. /\ step \in [Savers -> Steps] /\ lag \in [Savers -> SUBSET Threads]
      /\ version \in [Savers -> Nat] /\ start_address \in [Savers -> Nat]
      /\ final_address \in [Savers -> Nat]
  BY <1>0 DEF Given, SaverTypes
<1>1. /\ step[s] = "started" /\ step'[s] = "prepare"
      /\ version'[s] = version[s]
      /\ start_address'[s] = start_address[s]
      /\ final_address'[s] = final_address[s]
      /\ sys' = At("prepare", version[s])
      /\ UNCHANGED <<start, meta>>
      /\ lag'[s] = {t \in Threads : pc[t] \in Inside}
  BY <1>t DEF to_prepare, Transition, At, vars, marks, savers, saver_locals, unchanged_store
<1>2. Still(s) /\ SaverTypes'
  <2>1. UNCHANGED <<log, entry, pc, state, entered, snap, safe_read_only>>
    BY DEF to_prepare, Transition, vars, marks, locals, savers, saver_locals, unchanged_store
  <2>2. SaverTypes'
    BY <1>0, <2>1
       DEF Given, SaverTypes, Steps, Waiting, to_prepare, Transition, savers, saver_locals, unchanged_store
  <2> QED BY <1>0, <2>1, <2>2, StillIs
<1>3. Phased(s)'
  BY <1>0, <1>1 DEF Given, Phased, At
<1>4. Laggards(s)'
  BY <1>0, <1>1, <1>2 DEF Given, Still, Laggards, Phased, Before, Waiting
<1>5. Spanned(s)'
  BY <1>0, <1>1, <1>2 DEF Given, Still, Spanned
<1>6. Divided(s)'
  BY <1>0, <1>1, <1>2 DEF Given, Still, Divided
<1>7. Recent'
  BY <1>0, <1>1, <1>2 DEF Given, Still, Recent, Phased, At
<1>8. Capturing(s)'
  BY <1>0, <1>1, <1>2 DEF Given, Still, Capturing
<1>9. OnDevice(s)'
  BY <1>0, <1>1, <1>2 DEF Given, Still, OnDevice, Phased, At
<1> QED BY <1>2, <1>3, <1>4, <1>5, <1>6, <1>7, <1>8, <1>9 DEF CInv

LEMMA PreparedHolds ==
  ASSUME NEW s, s \in Savers, IInv, CInv(s), prepared(s)
  PROVE  CInv(s)'
<1>0. Given(s)
  BY GivenIs
<1>t. /\ step \in [Savers -> Steps] /\ lag \in [Savers -> SUBSET Threads]
      /\ version \in [Savers -> Nat] /\ start_address \in [Savers -> Nat]
      /\ final_address \in [Savers -> Nat]
  BY <1>0 DEF Given, SaverTypes
<1>1. /\ step[s] = "prepare" /\ step'[s] = "prepared"
      /\ version'[s] = version[s]
      /\ start_address'[s] = start_address[s]
      /\ final_address'[s] = final_address[s]
      /\ UNCHANGED <<sys, start, meta>>
      /\ lag[s] = {} /\ lag'[s] = {}
  BY <1>t DEF prepared, Wait, vars, marks, savers, saver_locals, unchanged_store
<1>2. Still(s) /\ SaverTypes'
  <2>1. UNCHANGED <<log, entry, pc, state, entered, snap, safe_read_only>>
    BY DEF prepared, Wait, vars, marks, locals, savers, saver_locals, unchanged_store
  <2>2. SaverTypes'
    BY <1>0, <2>1
       DEF Given, SaverTypes, Steps, Waiting, prepared, Wait, savers, saver_locals, unchanged_store
  <2> QED BY <1>0, <2>1, <2>2, StillIs
<1>3. Phased(s)'
  BY <1>0, <1>1 DEF Given, Phased, At
<1>4. Laggards(s)'
  BY <1>0, <1>1, <1>2 DEF Given, Still, Laggards, Phased, Before, Waiting
<1>5. Spanned(s)'
  BY <1>0, <1>1, <1>2 DEF Given, Still, Spanned
<1>6. Divided(s)'
  BY <1>0, <1>1, <1>2 DEF Given, Still, Divided
<1>7. Recent'
  BY <1>0, <1>1, <1>2 DEF Given, Still, Recent
<1>8. Capturing(s)'
  BY <1>0, <1>1, <1>2 DEF Given, Still, Capturing
<1>9. OnDevice(s)'
  BY <1>0, <1>1, <1>2 DEF Given, Still, OnDevice
<1> QED BY <1>2, <1>3, <1>4, <1>5, <1>6, <1>7, <1>8, <1>9 DEF CInv

LEMMA ToInProgressHolds ==
  ASSUME NEW s, s \in Savers, IInv, CInv(s), to_in_progress(s)
  PROVE  CInv(s)'
<1>0. Given(s)
  BY GivenIs
<1>t. /\ step \in [Savers -> Steps] /\ lag \in [Savers -> SUBSET Threads]
      /\ version \in [Savers -> Nat] /\ start_address \in [Savers -> Nat]
      /\ final_address \in [Savers -> Nat]
  BY <1>0 DEF Given, SaverTypes
<1>1. /\ step[s] = "prepared" /\ step'[s] = "in_progress"
      /\ version'[s] = version[s]
      /\ start_address'[s] = start_address[s]
      /\ final_address'[s] = final_address[s]
      /\ sys' = At("in_progress", version[s] + 1)
      /\ UNCHANGED <<start, meta>>
      /\ lag'[s] = {t \in Threads : pc[t] \in Inside}
  BY <1>t DEF to_in_progress, Transition, At, vars, marks, savers, saver_locals, unchanged_store
<1>2. Still(s) /\ SaverTypes'
  <2>1. UNCHANGED <<log, entry, pc, state, entered, snap, safe_read_only>>
    BY DEF to_in_progress, Transition, vars, marks, locals, savers, saver_locals, unchanged_store
  <2>2. SaverTypes'
    BY <1>0, <2>1
       DEF Given, SaverTypes, Steps, Waiting, to_in_progress, Transition, savers, saver_locals, unchanged_store
  <2> QED BY <1>0, <2>1, <2>2, StillIs
<1>3. Phased(s)'
  BY <1>0, <1>1 DEF Given, Phased, At
<1>4. Laggards(s)'
  BY <1>0, <1>1, <1>2 DEF Given, Still, Laggards, Phased, Before, Waiting
<1>5. Spanned(s)'
  BY <1>0, <1>1, <1>2 DEF Given, Still, Spanned
<1>6. Divided(s)'
  BY <1>0, <1>1, <1>2 DEF Given, Still, Divided
<1>7. Recent'
  BY <1>0, <1>1, <1>2 DEF Given, Still, Recent, Phased, At
<1>8. Capturing(s)'
  <2>1. ASSUME NEW k \in Keys PROVE snap[version[s]][k] = Prefix(log, start_address[s], Len(log), k)
    <3>1. snap[version[s]][k] = Value(k)
      BY <1>0, <1>1 DEF Given, Recent, Phased, At
    <3>2. Value(k) = ImageOf(log, Len(log), k)
      BY ValueNow DEF Now
    <3>3. PICK x : x = Newest(log, Len(log), k, 1)
      OBVIOUS
    <3>4. x \in 0 .. Len(log) /\ Len(log) \in Nat
      BY <1>0, <3>3, NewestIs DEF Given
    <3>5. x # 0 => ~Later(log, start_address[s], x)
      BY <1>0, <1>1, <3>4 DEF Given, Divided
    <3>6. Prefix(log, start_address[s], Len(log), k) = ImageOf(log, Len(log), k)
      BY <3>3, <3>4, <3>5, PrefixWhole
    <3> QED BY <3>1, <3>2, <3>6
  <2> QED BY <1>1, <1>2, <2>1 DEF Still, Capturing
<1>9. OnDevice(s)'
  BY <1>0, <1>1, <1>2 DEF Given, Still, OnDevice, Phased, At
<1> QED BY <1>2, <1>3, <1>4, <1>5, <1>6, <1>7, <1>8, <1>9 DEF CInv

LEMMA CaptureFinalHolds ==
  ASSUME NEW s, s \in Savers, IInv, CInv(s), capture_final(s)
  PROVE  CInv(s)'
<1>0. Given(s)
  BY GivenIs
<1>t. /\ step \in [Savers -> Steps] /\ lag \in [Savers -> SUBSET Threads]
      /\ version \in [Savers -> Nat] /\ start_address \in [Savers -> Nat]
      /\ final_address \in [Savers -> Nat]
  BY <1>0 DEF Given, SaverTypes
<1>1. /\ step[s] = "in_progress" /\ step'[s] = "captured"
      /\ version'[s] = version[s]
      /\ start_address'[s] = start_address[s]
      /\ final_address'[s] = tail
      /\ UNCHANGED <<sys, start, meta>>
      /\ lag[s] = {} /\ lag'[s] = {}
  BY <1>t DEF capture_final, Wait, vars, marks, savers, saver_locals, unchanged_store
<1>2. Still(s) /\ SaverTypes'
  <2>1. UNCHANGED <<log, entry, pc, state, entered, snap, safe_read_only>>
    BY DEF capture_final, Wait, vars, marks, locals, savers, saver_locals, unchanged_store
  <2>2. SaverTypes'
    BY <1>0, <2>1
       DEF Given, SaverTypes, Steps, Waiting, capture_final, Wait, savers, saver_locals, unchanged_store
  <2> QED BY <1>0, <2>1, <2>2, StillIs
<1>3. Phased(s)'
  BY <1>0, <1>1 DEF Given, Phased, At
<1>4. Laggards(s)'
  BY <1>0, <1>1, <1>2 DEF Given, Still, Laggards, Phased, Before, Waiting
<1>5. Spanned(s)'
  BY <1>0, <1>1, <1>2 DEF Given, Still, Spanned
<1>6. Divided(s)'
  BY <1>0, <1>1, <1>2 DEF Given, Still, Divided
<1>7. Recent'
  BY <1>0, <1>1, <1>2 DEF Given, Still, Recent
<1>8. Capturing(s)'
  BY <1>0, <1>1, <1>2 DEF Given, Still, Capturing
<1>9. OnDevice(s)'
  BY <1>0, <1>1, <1>2 DEF Given, Still, OnDevice
<1> QED BY <1>2, <1>3, <1>4, <1>5, <1>6, <1>7, <1>8, <1>9 DEF CInv

LEMMA ToWaitFlushHolds ==
  ASSUME NEW s, s \in Savers, IInv, CInv(s), to_wait_flush(s)
  PROVE  CInv(s)'
<1>0. Given(s)
  BY GivenIs
<1>t. /\ step \in [Savers -> Steps] /\ lag \in [Savers -> SUBSET Threads]
      /\ version \in [Savers -> Nat] /\ start_address \in [Savers -> Nat]
      /\ final_address \in [Savers -> Nat]
  BY <1>0 DEF Given, SaverTypes
<1>1. /\ step[s] = "captured" /\ step'[s] = "wait_flush"
      /\ version'[s] = version[s]
      /\ start_address'[s] = start_address[s]
      /\ final_address'[s] = final_address[s]
      /\ sys' = At("wait_flush", version[s] + 1)
      /\ UNCHANGED <<start, meta>>
      /\ lag'[s] = {t \in Threads : pc[t] \in Inside}
  BY <1>t DEF to_wait_flush, Transition, At, vars, marks, savers, saver_locals, unchanged_store
<1>2. Still(s) /\ SaverTypes'
  <2>1. UNCHANGED <<log, entry, pc, state, entered, snap, safe_read_only>>
    BY DEF to_wait_flush, Transition, vars, marks, locals, savers, saver_locals, unchanged_store
  <2>2. SaverTypes'
    BY <1>0, <2>1
       DEF Given, SaverTypes, Steps, Waiting, to_wait_flush, Transition, savers, saver_locals, unchanged_store
  <2> QED BY <1>0, <2>1, <2>2, StillIs
<1>3. Phased(s)'
  BY <1>0, <1>1 DEF Given, Phased, At
<1>4. Laggards(s)'
  BY <1>0, <1>1, <1>2 DEF Given, Still, Laggards, Phased, Before, Waiting
<1>5. Spanned(s)'
  BY <1>0, <1>1, <1>2 DEF Given, Still, Spanned
<1>6. Divided(s)'
  BY <1>0, <1>1, <1>2 DEF Given, Still, Divided
<1>7. Recent'
  BY <1>0, <1>1, <1>2 DEF Given, Still, Recent, Phased, At
<1>8. Capturing(s)'
  BY <1>0, <1>1, <1>2 DEF Given, Still, Capturing
<1>9. OnDevice(s)'
  BY <1>0, <1>1, <1>2 DEF Given, Still, OnDevice, Phased, At
<1> QED BY <1>2, <1>3, <1>4, <1>5, <1>6, <1>7, <1>8, <1>9 DEF CInv

LEMMA FoldOverHolds ==
  ASSUME NEW s, s \in Savers, IInv, CInv(s), fold_over(s)
  PROVE  CInv(s)'
<1>0. Given(s)
  BY GivenIs
<1>t. /\ step \in [Savers -> Steps] /\ lag \in [Savers -> SUBSET Threads]
      /\ version \in [Savers -> Nat] /\ start_address \in [Savers -> Nat]
      /\ final_address \in [Savers -> Nat]
  BY <1>0 DEF Given, SaverTypes
<1>1. /\ step[s] = "wait_flush" /\ step'[s] = "flushing"
      /\ version'[s] = version[s]
      /\ start_address'[s] = start_address[s]
      /\ final_address'[s] = final_address[s]
      /\ UNCHANGED <<sys, start, meta>>
      /\ lag[s] = {} /\ lag'[s] = {}
  BY <1>t DEF fold_over, Wait, vars, marks, savers, saver_locals, unchanged_store
<1>2. Still(s) /\ SaverTypes'
  <2>1. UNCHANGED <<log, entry, pc, state, entered, snap, safe_read_only>>
    BY DEF fold_over, Wait, vars, marks, locals, savers, saver_locals, unchanged_store
  <2>2. SaverTypes'
    BY <1>0, <2>1
       DEF Given, SaverTypes, Steps, Waiting, fold_over, Wait, savers, saver_locals, unchanged_store
  <2> QED BY <1>0, <2>1, <2>2, StillIs
<1>3. Phased(s)'
  BY <1>0, <1>1 DEF Given, Phased, At
<1>4. Laggards(s)'
  BY <1>0, <1>1, <1>2 DEF Given, Still, Laggards, Phased, Before, Waiting
<1>5. Spanned(s)'
  BY <1>0, <1>1, <1>2 DEF Given, Still, Spanned
<1>6. Divided(s)'
  BY <1>0, <1>1, <1>2 DEF Given, Still, Divided
<1>7. Recent'
  BY <1>0, <1>1, <1>2 DEF Given, Still, Recent
<1>8. Capturing(s)'
  BY <1>0, <1>1, <1>2 DEF Given, Still, Capturing
<1>9. OnDevice(s)'
  BY <1>0, <1>1, <1>2 DEF Given, Still, OnDevice
<1> QED BY <1>2, <1>3, <1>4, <1>5, <1>6, <1>7, <1>8, <1>9 DEF CInv

LEMMA WriteMetaHolds ==
  ASSUME NEW s, s \in Savers, IInv, CInv(s), write_meta(s)
  PROVE  CInv(s)'
<1>0. Given(s)
  BY GivenIs
<1>t. /\ step \in [Savers -> Steps] /\ lag \in [Savers -> SUBSET Threads]
      /\ version \in [Savers -> Nat] /\ start_address \in [Savers -> Nat]
      /\ final_address \in [Savers -> Nat]
  BY <1>0 DEF Given, SaverTypes
<1>1. /\ step[s] = "flushing" /\ step'[s] = "written"
      /\ version'[s] = version[s]
      /\ start_address'[s] = start_address[s]
      /\ final_address'[s] = final_address[s]
      /\ meta' = [version |-> version[s], start |-> start_address[s], final |-> final_address[s]]
      /\ UNCHANGED <<sys, start>>
      /\ lag'[s] = lag[s]
      /\ safe_read_only >= final_address[s]
  BY <1>t DEF write_meta, vars, marks, savers, saver_locals, unchanged_store
<1>2. Still(s) /\ SaverTypes'
  <2>1. UNCHANGED <<log, entry, pc, state, entered, snap, safe_read_only>>
    BY DEF write_meta, vars, marks, locals, savers, saver_locals, unchanged_store
  <2>2. SaverTypes'
    BY <1>0, <2>1
       DEF Given, SaverTypes, Steps, Waiting, write_meta, savers, saver_locals, unchanged_store
  <2> QED BY <1>0, <2>1, <2>2, StillIs
<1>3. Phased(s)'
  BY <1>0, <1>1 DEF Given, Phased, At
<1>4. Laggards(s)'
  BY <1>0, <1>1, <1>2 DEF Given, Still, Laggards, Phased, Before, Waiting
<1>5. Spanned(s)'
  BY <1>0, <1>1, <1>2 DEF Given, Still, Spanned
<1>6. Divided(s)'
  BY <1>0, <1>1, <1>2 DEF Given, Still, Divided
<1>7. Recent'
  BY <1>0, <1>1, <1>2 DEF Given, Still, Recent
<1>8. Capturing(s)'
  BY <1>0, <1>1, <1>2 DEF Given, Still, Capturing
<1>9. OnDevice(s)'
  <2>1. /\ version[s] \in Versions /\ version[s] < sys.version
        /\ 1 <= final_address[s] /\ final_address[s] <= safe_read_only
        /\ \A k \in Keys : snap[version[s]][k] = Prefix(log, start_address[s], final_address[s] - 1, k)
    BY <1>0, <1>1 DEF Given, Phased, At, Spanned, Capturing
  <2>2. /\ meta' \in [version : Versions, start : Nat, final : Nat]
        /\ meta'.version = version[s] /\ meta'.start = start_address[s]
        /\ meta'.final = final_address[s]
    BY <1>0, <1>1, <2>1 DEF Given
  <2> QED BY <1>1, <1>2, <2>1, <2>2 DEF Still, OnDevice
<1> QED BY <1>2, <1>3, <1>4, <1>5, <1>6, <1>7, <1>8, <1>9 DEF CInv

LEMMA ToRestHolds ==
  ASSUME NEW s, s \in Savers, IInv, CInv(s), to_rest(s)
  PROVE  CInv(s)'
<1>0. Given(s)
  BY GivenIs
<1>t. /\ step \in [Savers -> Steps] /\ lag \in [Savers -> SUBSET Threads]
      /\ version \in [Savers -> Nat] /\ start_address \in [Savers -> Nat]
      /\ final_address \in [Savers -> Nat]
  BY <1>0 DEF Given, SaverTypes
<1>1. /\ step[s] = "written" /\ step'[s] = "rest"
      /\ version'[s] = version[s]
      /\ start_address'[s] = start_address[s]
      /\ final_address'[s] = final_address[s]
      /\ sys' = At("rest", version[s] + 1)
      /\ UNCHANGED <<start, meta>>
      /\ lag'[s] = {t \in Threads : pc[t] \in Inside}
  BY <1>t DEF to_rest, Transition, At, vars, marks, savers, saver_locals, unchanged_store
<1>2. Still(s) /\ SaverTypes'
  <2>1. UNCHANGED <<log, entry, pc, state, entered, snap, safe_read_only>>
    BY DEF to_rest, Transition, vars, marks, locals, savers, saver_locals, unchanged_store
  <2>2. SaverTypes'
    BY <1>0, <2>1
       DEF Given, SaverTypes, Steps, Waiting, to_rest, Transition, savers, saver_locals, unchanged_store
  <2> QED BY <1>0, <2>1, <2>2, StillIs
<1>3. Phased(s)'
  BY <1>0, <1>1 DEF Given, Phased, At
<1>4. Laggards(s)'
  BY <1>0, <1>1, <1>2 DEF Given, Still, Laggards, Phased, Before, Waiting
<1>5. Spanned(s)'
  BY <1>0, <1>1, <1>2 DEF Given, Still, Spanned
<1>6. Divided(s)'
  BY <1>0, <1>1, <1>2 DEF Given, Still, Divided
<1>7. Recent'
  BY <1>0, <1>1, <1>2 DEF Given, Still, Recent, Phased, At
<1>8. Capturing(s)'
  BY <1>0, <1>1, <1>2 DEF Given, Still, Capturing
<1>9. OnDevice(s)'
  BY <1>0, <1>1, <1>2 DEF Given, Still, OnDevice, Phased, At
<1> QED BY <1>2, <1>3, <1>4, <1>5, <1>6, <1>7, <1>8, <1>9 DEF CInv

LEMMA CheckpointDoneHolds ==
  ASSUME NEW s, s \in Savers, IInv, CInv(s), checkpoint_done(s)
  PROVE  CInv(s)'
<1>0. Given(s)
  BY GivenIs
<1>t. /\ step \in [Savers -> Steps] /\ lag \in [Savers -> SUBSET Threads]
      /\ version \in [Savers -> Nat] /\ start_address \in [Savers -> Nat]
      /\ final_address \in [Savers -> Nat]
  BY <1>0 DEF Given, SaverTypes
<1>1. /\ step[s] = "rest" /\ step'[s] = "idle"
      /\ version'[s] = 0
      /\ start_address'[s] = 0
      /\ final_address'[s] = 0
      /\ UNCHANGED <<sys, start, meta>>
      /\ lag[s] = {} /\ lag'[s] = {}
  BY <1>t DEF checkpoint_done, Wait, vars, marks, savers, saver_locals, unchanged_store
<1>2. Still(s) /\ SaverTypes'
  <2>1. UNCHANGED <<log, entry, pc, state, entered, snap, safe_read_only>>
    BY DEF checkpoint_done, Wait, vars, marks, locals, savers, saver_locals, unchanged_store
  <2>2. SaverTypes'
    BY <1>0, <2>1
       DEF Given, SaverTypes, Steps, Waiting, checkpoint_done, Wait, savers, saver_locals, unchanged_store
  <2> QED BY <1>0, <2>1, <2>2, StillIs
<1>3. Phased(s)'
  BY <1>0, <1>1 DEF Given, Phased, At
<1>4. Laggards(s)'
  BY <1>0, <1>1, <1>2 DEF Given, Still, Laggards, Phased, Before, Waiting
<1>5. Spanned(s)'
  BY <1>0, <1>1, <1>2 DEF Given, Still, Spanned
<1>6. Divided(s)'
  BY <1>0, <1>1, <1>2 DEF Given, Still, Divided
<1>7. Recent'
  BY <1>0, <1>1, <1>2 DEF Given, Still, Recent
<1>8. Capturing(s)'
  BY <1>0, <1>1, <1>2 DEF Given, Still, Capturing
<1>9. OnDevice(s)'
  BY <1>0, <1>1, <1>2 DEF Given, Still, OnDevice
<1> QED BY <1>2, <1>3, <1>4, <1>5, <1>6, <1>7, <1>8, <1>9 DEF CInv

-----------------------------------------------------------------------------
(* Checkpoints leave the operations alone.                                 *)

(* Only the phase, the start of the checkpoint and the copies of the phase *)
(* may change.                                                             *)
Aside ==
  UNCHANGED <<log, entry, head, safe_read_only, read_only, latch, readers, pc, call, answer,
              entered, view, disk, src, evictions>>

LEMMA AsideKeeps ==
  ASSUME Aside
  PROVE  (IInv => IInv') /\ (LInv => LInv')
<1>1. /\ TypeOK' = TypeOK /\ OneChain' = OneChain /\ Ordered' = Ordered
      /\ InProgress' = InProgress /\ Latched' = Latched
      /\ Protected' = Protected /\ Fetching' = Fetching
  BY DEF Aside, TypeOK, OneChain, Ordered, tail, InProgress, Latched, Protected, Fetching, kind
<1>2. NewestIsOpen' = NewestIsOpen
  BY DEF Aside, NewestIsOpen, trace_back, Chain, is_closed
<1>3. IInv => IInv'
  BY <1>1, <1>2 DEF IInv
<1>4. Solid(log) => Solid(log)'
  BY DEF Aside
<1>5. \A t \in Threads : Sourced(t)' = Sourced(t)
  BY DEF Aside, Sourced, key
<1> QED BY <1>3, <1>4, <1>5 DEF LInv

LEMMA AsideStutters ==
  ASSUME IInv, IInv', Aside
  PROVE  UNCHANGED Atomic!avars
<1>1. \A u \in Threads : Answered(u)' = Answered(u)
  BY DEF Aside, Answered, Image, trace_back, Chain, key, kind
<1> QED BY <1>1, Stutters DEF Aside

(* No checkpoint ends beyond the tail.                                     *)
Fits == final_address \in [Savers -> Nat] /\ \A s \in Savers : final_address[s] <= tail

LEMMA FoldOverShifts ==
  ASSUME IInv, Fits, NEW s \in Savers, fold_over(s)
  PROVE  [Next]_vars
<1>1. /\ read_only \in Nat /\ final_address[s] \in Nat /\ tail \in Nat
      /\ read_only <= tail /\ final_address[s] <= tail
  BY LogType DEF IInv, TypeOK, Ordered, Fits
<1>2. PICK f, r, m : f = final_address[s] /\ r = read_only /\ m = tail
  OBVIOUS
<1>3. Max({r, f}) \in {r, f} /\ \A y \in {r, f} : y <= Max({r, f})
  <2>1. {r, f} \in SUBSET (0 .. m) /\ {r, f} # {} /\ m \in Nat
    BY <1>1, <1>2
  <2> QED BY <2>1, MaxIs
<1>4. read_only' = Max({r, f})
  BY <1>2 DEF fold_over
<1>5. read_only' = read_only \/ read_only' \in read_only + 1 .. tail
  BY <1>1, <1>2, <1>3, <1>4
<1>6. UNCHANGED <<log, entry, head, safe_read_only, latch, readers, sys, start, pc,
                  locals, calls, evictions>>
  BY DEF fold_over
<1>7. CASE read_only' = read_only
  BY <1>6, <1>7 DEF vars, marks
<1>8. CASE read_only' \in read_only + 1 .. tail
  BY <1>6, <1>8 DEF Next, log_step, shift_read_only
<1> QED BY <1>5, <1>7, <1>8

(* For the operations a checkpoint is a shift of ReadOnly, and no more.    *)
LEMMA SaverCases ==
  ASSUME IInv, Fits, NEW s \in Savers, take_checkpoint(s) \/ saver_step(s)
  PROVE  Aside \/ [Next]_vars
<1>1. CASE fold_over(s)
  BY <1>1, FoldOverShifts
<1>2. CASE write_meta(s)
  BY <1>2 DEF write_meta, vars
<1>3. CASE \/ take_checkpoint(s) \/ set_start(s) \/ to_prepare(s) \/ prepared(s)
           \/ to_in_progress(s) \/ capture_final(s) \/ to_wait_flush(s) \/ to_rest(s)
           \/ checkpoint_done(s)
  <2>1. unchanged_store
    BY <1>3 DEF take_checkpoint, set_start, to_prepare, prepared, to_in_progress, capture_final,
       to_wait_flush, to_rest, checkpoint_done
  <2> QED BY <2>1 DEF unchanged_store, marks, locals, Aside
<1> QED BY <1>1, <1>2, <1>3 DEF saver_step

LEMMA FitsStep ==
  ASSUME IInv, Fits, RunNext
  PROVE  Fits'
<1>0. Len(log) \in Nat /\ tail = Len(log) + 1 /\ tail \in Nat
  BY LogType DEF IInv
<1>1. ASSUME [Next]_vars, final_address' = final_address PROVE Fits'
  <2>1. TypeOK /\ OneChain /\ Ordered /\ InProgress /\ Protected
    BY DEF IInv
  <2>2. Len(log) <= Len(log') /\ Len(log') \in Nat
    <3>1. IInv'
      BY <1>1, StepHolds
    <3> QED BY <1>1, <2>1, <3>1, Frozen DEF IInv, TypeOK
  <2>3. tail' = Len(log') + 1
    BY DEF tail
  <2>4. tail <= tail' /\ tail' \in Nat
    BY <1>0, <2>2, <2>3
  <2> QED BY <1>0, <1>1, <2>4 DEF Fits
<1>2. ASSUME NEW t \in Threads, operate(t) PROVE Fits'
  BY <1>1, <1>2 DEF operate, Next, saver_locals
<1>3. CASE move_marks
  BY <1>1, <1>3 DEF move_marks, Next, savers, saver_locals
<1>4. ASSUME NEW s \in Savers, take_checkpoint(s) \/ saver_step(s) PROVE Fits'
  <2>1. CASE fold_over(s)
    <3>1. [Next]_vars /\ final_address' = final_address
      BY <2>1, FoldOverShifts DEF fold_over, saver_locals
    <3> QED BY <1>1, <3>1
  <2>2. CASE write_meta(s)
    BY <1>1, <2>2 DEF write_meta, saver_locals
  <2>3. CASE capture_final(s)
    <3>1. final_address' = [final_address EXCEPT ![s] = tail] /\ tail' = tail
      BY <2>3 DEF capture_final, unchanged_store, tail
    <3> QED BY <1>0, <3>1 DEF Fits
  <2>4. CASE checkpoint_done(s)
    <3>1. final_address' = [final_address EXCEPT ![s] = 0] /\ tail' = tail
      BY <2>4 DEF checkpoint_done, unchanged_store, tail
    <3> QED BY <1>0, <3>1 DEF Fits
  <2>5. CASE \/ take_checkpoint(s) \/ set_start(s) \/ to_prepare(s) \/ prepared(s)
             \/ to_in_progress(s) \/ to_wait_flush(s) \/ to_rest(s)
    <3>1. final_address' = final_address /\ tail' = tail
      BY <2>5 DEF take_checkpoint, set_start, to_prepare, prepared, to_in_progress,
         to_wait_flush, to_rest, unchanged_store, saver_locals, tail
    <3> QED BY <3>1 DEF Fits
  <2> QED BY <1>4, <2>1, <2>2, <2>3, <2>4, <2>5 DEF saver_step
<1> QED BY <1>2, <1>3, <1>4 DEF RunNext

(* Every step before a crash is one of Store, or leaves it aside.          *)
LEMMA RunCases ==
  ASSUME IInv, Fits, RunNext
  PROVE  (Aside \/ [Next]_vars) /\ crashed' = crashed
<1>1. ASSUME NEW t \in Threads, operate(t) PROVE Next /\ crashed' = crashed
  BY <1>1 DEF operate, Next
<1>2. CASE move_marks
  BY <1>2 DEF move_marks, Next
<1>3. ASSUME NEW s \in Savers, take_checkpoint(s) \/ saver_step(s)
      PROVE  (Aside \/ [Next]_vars) /\ crashed' = crashed
  <2>1. crashed' = crashed
    BY <1>3 DEF take_checkpoint, saver_step, set_start, to_prepare, prepared, to_in_progress,
       capture_final, to_wait_flush, fold_over, write_meta, to_rest, checkpoint_done,
       unchanged_store
  <2> QED BY <1>3, <2>1, SaverCases
<1> QED BY <1>1, <1>2, <1>3 DEF RunNext

-----------------------------------------------------------------------------
(* Up to a crash every operation is atomic.                                *)

RInv == LInv /\ Fits

LEMMA RunHolds ==
  ASSUME RInv, RunNext
  PROVE  RInv'
<1>1. /\ IInv /\ TypeOK /\ OneChain /\ Ordered /\ InProgress /\ Protected /\ Fetching
      /\ Solid(log) /\ (\A t \in Threads : Sourced(t)) /\ Fits
  BY DEF RInv, LInv, IInv
<1>2. CASE [Next]_vars
  <2>1. IInv' /\ Solid(log') /\ (\A t \in Threads : Sourced(t))'
    BY <1>1, <1>2, StepHolds, SolidStep, SourcedStep
  <2> QED BY <1>1, <2>1, FitsStep DEF RInv, LInv
<1>3. CASE Aside
  BY <1>1, <1>3, AsideKeeps, FitsStep DEF RInv
<1> QED BY <1>1, <1>2, <1>3, RunCases

LEMMA RunInit ==
  ASSUME CInit
  PROVE  RInv
<1>1. IInv /\ Solid(log) /\ (\A t \in Threads : Sourced(t))
  BY InitHolds DEF CInit, Init, Solid, Sourced
<1>2. Fits
  BY LogType DEF CInit, Init, Fits, tail
<1> QED BY <1>1, <1>2 DEF RInv, LInv

LEMMA RunGuard ==
  ASSUME RunNext
  PROVE  ~crashed /\ ~crashed'
<1>1. ~crashed
  BY DEF RunNext, operate, move_marks, take_checkpoint, saver_step, set_start, to_prepare, prepared,
     to_in_progress, capture_final, to_wait_flush, fold_over, write_meta, to_rest, checkpoint_done
<1>2. crashed' = crashed
  BY DEF RunNext, operate, move_marks, take_checkpoint, saver_step, set_start, to_prepare, prepared,
     to_in_progress, capture_final, to_wait_flush, fold_over, write_meta, to_rest, checkpoint_done,
     unchanged_store
<1> QED BY <1>1, <1>2

(* The state of a run that has not crashed.                                *)
Running == ~crashed => RInv

LEMMA RunInvariance == CrashSpec => []Running
<1>1. CInit => Running
  BY RunInit DEF Running
<1>2. Running /\ [RunNext \/ crash_and_recover]_cvars => Running'
  <2> SUFFICES ASSUME Running, [RunNext \/ crash_and_recover]_cvars, ~crashed' PROVE RInv'
    BY DEF Running
  <2>1. CASE RunNext
    BY <2>1, RunGuard, RunHolds DEF Running
  <2>2. CASE crash_and_recover
    BY <2>2 DEF crash_and_recover
  <2>3. CASE UNCHANGED cvars
    <3>1. Aside /\ final_address' = final_address /\ tail' = tail /\ crashed' = crashed
      BY <2>3 DEF cvars, vars, savers, saver_locals, marks, locals, Aside, tail
    <3>2. LInv /\ Fits
      BY <3>1 DEF Running, RInv
    <3>3. LInv' /\ Fits'
      BY <3>1, <3>2, AsideKeeps DEF Fits
    <3> QED BY <3>3 DEF RInv
  <2> QED BY <2>1, <2>2, <2>3
<1> QED BY <1>1, <1>2, PTL DEF CrashSpec

(* Operations stay atomic while checkpoints shift the version under them,  *)
(* copy what they may not overwrite and freeze the log, for any number of  *)
(* savers and up to a crash: unless Head overtakes what an update saw      *)
(* before it went to disk.                                                 *)
THEOREM LinearizableUntilCrashInTime == CrashSpec /\ []InTime => LinearizableUntilCrash
<1>1. CInit => Atomic!AInit
  BY InitMaps DEF CInit
<1>2. Running /\ Running' /\ InTime /\ [RunNext \/ crash_and_recover]_cvars
      => [~crashed' => Atomic!ANext]_(Atomic!avars)
  <2> SUFFICES ASSUME Running, Running', InTime, [RunNext \/ crash_and_recover]_cvars, ~crashed'
               PROVE  Atomic!ANext \/ UNCHANGED Atomic!avars
    OBVIOUS
  <2>1. ASSUME LInv, LInv', Aside \/ [Next]_vars
        PROVE  Atomic!ANext \/ UNCHANGED Atomic!avars
    BY <2>1, AsideStutters, StepRefines DEF LInv
  <2>2. CASE RunNext
    <3>1. RInv /\ RInv'
      BY <2>2, RunGuard DEF Running
    <3> QED BY <2>1, <2>2, <3>1, RunCases DEF RInv, LInv
  <2>3. CASE crash_and_recover
    BY <2>3 DEF crash_and_recover
  <2>4. CASE UNCHANGED cvars
    <3>1. Aside /\ ~crashed
      BY <2>4 DEF cvars, vars, marks, locals, Aside
    <3>2. RInv /\ RInv'
      BY <3>1 DEF Running
    <3> QED BY <2>1, <3>1, <3>2 DEF RInv
  <2> QED BY <2>2, <2>3, <2>4
<1> QED BY <1>1, <1>2, RunInvariance, PTL DEF CrashSpec, LinearizableUntilCrash


-----------------------------------------------------------------------------
(* The checkpoint on disk is a prefix.                                     *)

LEMMA MarksOnly ==
  ASSUME NEW s, s \in Savers, IInv, CInv(s),
         UNCHANGED <<log, entry, sys, start, pc, state, entered, savers, meta, snap>>,
         safe_read_only' \in Nat, safe_read_only <= safe_read_only'
  PROVE  CInv(s)'
<1>0. Given(s)
  BY GivenIs
<1>1. UNCHANGED <<log, entry, sys, start, pc, state, entered, savers, meta, snap>>
  OBVIOUS
<1>2. /\ UNCHANGED <<step, lag, version, start_address, final_address>> /\ tail' = tail
      /\ \A k : Value(k)' = Value(k)
  BY <1>1 DEF savers, saver_locals, tail, Value, Image, trace_back, Chain
<1>3. safe_read_only' \in Nat /\ safe_read_only <= safe_read_only'
  OBVIOUS
<1>4. SaverTypes' /\ Phased(s)' /\ Spanned(s)'
  BY <1>0, <1>1, <1>2 DEF Given, SaverTypes, Phased, Spanned
<1>5. Laggards(s)' /\ Divided(s)'
  BY <1>0, <1>1, <1>2 DEF Given, Laggards, Divided
<1>6. Recent' /\ Capturing(s)'
  BY <1>0, <1>1, <1>2 DEF Given, Recent, Capturing
<1>7. OnDevice(s)'
  <2>1. meta' = meta /\ sys' = sys /\ snap' = snap /\ log' = log /\ step' = step
        /\ version' = version
    BY <1>1, <1>2
  <2>2. OnDevice(s) /\ safe_read_only \in Nat
    BY <1>0 DEF Given
  <2>3. meta # None => 1 <= meta.final /\ meta.final <= safe_read_only'
    <3>1. meta # None => meta.final \in Nat /\ 1 <= meta.final /\ meta.final <= safe_read_only
      BY <2>2 DEF OnDevice
    <3> QED BY <1>3, <2>2, <3>1
  <2> QED BY <2>1, <2>2, <2>3 DEF OnDevice
<1> QED BY <1>4, <1>5, <1>6, <1>7 DEF CInv

LEMMA MarksHolds ==
  ASSUME NEW s, s \in Savers, IInv, CInv(s), move_marks
  PROVE  CInv(s)'
<1>1. UNCHANGED <<log, entry, sys, start, pc, state, entered, savers, meta, snap>>
  BY DEF move_marks, log_step, shift_read_only, mark_read_only, shift_head, locals, savers,
     saver_locals
<1>2. safe_read_only' \in Nat /\ safe_read_only <= safe_read_only'
  <2>1. safe_read_only \in Nat /\ read_only \in Nat
    BY DEF IInv, TypeOK
  <2> QED BY <2>1 DEF move_marks, log_step, shift_read_only, mark_read_only, shift_head
<1> QED BY <1>1, <1>2, MarksOnly

LEMMA SaverHolds ==
  ASSUME NEW s, s \in Savers, IInv, CInv(s), take_checkpoint(s) \/ saver_step(s)
  PROVE  CInv(s)'
BY TakeCheckpointHolds, SetStartHolds, ToPrepareHolds, PreparedHolds, ToInProgressHolds,
   CaptureFinalHolds, ToWaitFlushHolds, FoldOverHolds, WriteMetaHolds, ToRestHolds,
   CheckpointDoneHolds DEF saver_step

LEMMA SaverInit ==
  ASSUME NEW s, s \in Savers, CInit
  PROVE  CInv(s)
<1>1. /\ step[s] = "idle" /\ lag[s] = {} /\ meta = None /\ sys = At("rest", 1)
      /\ \A t \in Threads : pc[t] = "idle"
  BY DEF CInit, Init, At
<1>2. 1 \in Versions /\ sys.version = 1 /\ Absent \in Nat
  BY <1>1, MaxVersionAssumption DEF Versions, At, Absent
<1>3. SaverTypes
  <2>1. state = [t \in Threads |-> At("rest", 1)]
        /\ At("rest", 1) \in [phase : Phases, version : Nat]
    BY DEF CInit, Init, At, Phases
  <2> QED BY <1>2, <2>1 DEF CInit, SaverTypes, Steps
<1>4. Phased(s) /\ Laggards(s) /\ Spanned(s) /\ Divided(s)
  BY <1>1, <1>2 DEF Phased, Laggards, Spanned, Divided, Inside, At
<1>5. Recent
  <2>1. \A k \in Keys : Value(k) = Absent
    BY InitValues DEF CInit
  <2> QED BY <2>1 DEF CInit, Recent
<1>6. Capturing(s) /\ OnDevice(s)
  BY <1>1 DEF Capturing, OnDevice
<1> QED BY <1>3, <1>4, <1>5, <1>6 DEF CInv

(* Before a crash no record is marked invalid.                             *)
Valid(l) == \A i \in 1 .. Len(l) : l[i].valid

LEMMA ValidStep ==
  ASSUME IInv, Valid(log), [Next]_vars
  PROVE  Valid(log')
<1>0. TypeOK /\ OneChain /\ Ordered /\ InProgress /\ Protected
  BY DEF IInv
<1>1. PICK l, m : l = log /\ m = log'
  OBVIOUS
<1>2. CASE log' = log
  BY <1>2
<1>3. ASSUME NEW t \in Threads, NEW v, NEW dead, Rewrites(t, v, dead)
      PROVE  Valid(m)
  <2>1. Rewrote(l, m, found(t), v, dead)
    BY <1>1, <1>3 DEF Rewrites
  <2> QED BY <1>1, <2>1 DEF Rewrote, Valid
<1>4. ASSUME NEW t \in Threads, NEW v, NEW dead, Grows(t, v, dead)
      PROVE  Valid(m)
  <2>1. PICK j, n : j = key(t) /\ n = Len(l)
    OBVIOUS
  <2>2. Grew(l, m, j, v, dead) /\ n \in Nat
    BY <1>0, <1>1, <1>4, <2>1, LogType DEF Grows
  <2>3. (\A i \in 1 .. n : m[i].valid) /\ Len(m) = n + 1 /\ m[n + 1].valid
    BY <1>1, <2>1, <2>2 DEF Grew, Valid
  <2> QED BY <2>2, <2>3 DEF Valid
<1>5. CASE \E t \in Threads : \E v, dead : Rewrites(t, v, dead)
  BY <1>1, <1>3, <1>5
<1>6. CASE \E t \in Threads : \E v, dead : Grows(t, v, dead)
  BY <1>1, <1>4, <1>6
<1> QED BY <1>0, <1>2, <1>5, <1>6, LogCases

(* What holds of the only saver s until a crash.                           *)
SInv(s) == IInv /\ Fits /\ CInv(s) /\ Valid(log)

LEMMA OnlySaverHolds ==
  ASSUME NEW s, Savers = {s}, SInv(s), RunNext
  PROVE  SInv(s)'
<1>1. s \in Savers /\ IInv /\ Fits /\ CInv(s) /\ Valid(log)
  BY DEF SInv
<1>2. Aside \/ [Next]_vars
  BY <1>1, RunCases
<1>3. IInv' /\ Valid(log)'
  <2>1. CASE Aside
    BY <1>1, <2>1, AsideKeeps DEF Aside
  <2>2. CASE [Next]_vars
    BY <1>1, <2>2, StepHolds, ValidStep
  <2> QED BY <1>2, <2>1, <2>2
<1>4. CInv(s)'
  <2>1. ASSUME NEW t \in Threads, operate(t) PROVE CInv(s)'
    BY <1>1, <1>3, <2>1, OperateHolds
  <2>2. CASE move_marks
    BY <1>1, <2>2, MarksHolds
  <2>3. CASE \E u \in Savers : take_checkpoint(u) \/ saver_step(u)
    BY <1>1, <2>3, SaverHolds
  <2> QED BY <2>1, <2>2, <2>3 DEF RunNext
<1>5. Fits'
  BY <1>1, FitsStep
<1> QED BY <1>3, <1>4, <1>5 DEF SInv

-----------------------------------------------------------------------------
(* The crash, and what recovery makes of the checkpoint.                   *)

(* A walk from the record that recovery links into the index meets, for    *)
(* each key, a record it keeps before one it undoes.                       *)
Unmixed ==
  meta # None =>
    \A b \in 1 .. meta.final - 1 : \A a \in 1 .. b - 1 :
      Kept(b) /\ Undone(a) => \E c \in a + 1 .. b : log[c].key = log[a].key /\ Kept(c)

(* The same of the first n records of l, for a checkpoint begun at b.      *)
Apart(l, b, n) ==
  \A i \in 1 .. n : \A a \in 1 .. i - 1 :
    ~Later(l, b, i) /\ Later(l, b, a) => \E c \in a + 1 .. i : l[c].key = l[a].key /\ ~Later(l, b, c)

(* The newest record that is kept, whatever its key.                       *)
Linked(l, b, n) == Max({0} \cup {a \in 1 .. n : ~Later(l, b, a)})

LEMMA LinkedIs ==
  ASSUME NEW l, NEW b, NEW n \in Nat
  PROVE  /\ Linked(l, b, n) \in 0 .. n
         /\ Linked(l, b, n) # 0 => ~Later(l, b, Linked(l, b, n))
         /\ \A a \in 1 .. n : ~Later(l, b, a) => a <= Linked(l, b, n)
<1> DEFINE S == {0} \cup {a \in 1 .. n : ~Later(l, b, a)}
           x == Max(S)
<1>1. S \in SUBSET (0 .. n) /\ S # {}
  OBVIOUS
<1>2. x \in S /\ \A y \in S : y <= x
  <2> HIDE DEF S
  <2> QED BY <1>1, MaxIs
<1>3. x = Linked(l, b, n)
  BY DEF Linked
<1>4. \A a \in 1 .. n : ~Later(l, b, a) => a <= x
  BY <1>2
<1> HIDE DEF x
<1> QED BY <1>2, <1>3, <1>4

(* What the walk finds is the newest record that is kept.                  *)
LEMMA WalkFindsKept ==
  ASSUME NEW l, NEW b, NEW n \in Nat, NEW k, Apart(l, b, n)
  PROVE  Newest(l, Linked(l, b, n), k, 1) = NewestKept(l, b, n, k)
<1>1. PICK e, x, y : /\ e = Linked(l, b, n) /\ x = Newest(l, e, k, 1)
                     /\ y = NewestKept(l, b, n, k)
  OBVIOUS
<1>2. /\ e \in 0 .. n /\ e \in Nat /\ (e # 0 => ~Later(l, b, e))
      /\ \A a \in 1 .. n : ~Later(l, b, a) => a <= e
  BY <1>1, LinkedIs
<1>3. IsNewest(l, e, k, 1, x) /\ x \in 0 .. e
  BY <1>1, <1>2, NewestIs
<1>4. IsKept(l, b, n, k, y) /\ y \in 0 .. n
  BY <1>1, KeptIs
<1>5. y <= x
  <2> SUFFICES ASSUME y # 0 PROVE y <= x
    BY <1>3
  <2>1. y \in 1 .. n /\ l[y].key = k /\ ~Later(l, b, y)
    BY <1>4 DEF IsKept
  <2>2. y \in 1 .. e
    BY <1>2, <2>1
  <2> QED BY <1>3, <2>1, <2>2 DEF IsNewest
<1>6. ~(y < x)
  <2> SUFFICES ASSUME y < x PROVE FALSE
    OBVIOUS
  <2>1. x \in 1 .. e /\ l[x].key = k /\ x \in y + 1 .. n
    BY <1>2, <1>3, <1>4 DEF IsNewest
  <2>2. Later(l, b, x)
    BY <1>4, <2>1 DEF IsKept
  <2>3. e \in 1 .. n /\ x \in 1 .. e - 1 /\ ~Later(l, b, e)
    BY <1>2, <2>1, <2>2
  <2>4. PICK c \in x + 1 .. e : l[c].key = l[x].key /\ ~Later(l, b, c)
    BY <2>2, <2>3 DEF Apart
  <2>5. c \in y + 1 .. n
    BY <1>2, <1>4, <2>1, <2>4
  <2> QED BY <1>4, <2>1, <2>4, <2>5 DEF IsKept
<1>7. x = y
  BY <1>3, <1>4, <1>5, <1>6
<1> QED BY <1>1, <1>7

(* A function on 1 .. n is a sequence of length n.                         *)
LEMMA SeqLen ==
  ASSUME NEW m, NEW n \in Nat, m = [a \in 1 .. n |-> m[a]]
  PROVE  Len(m) = n
<1> DEFINE T == {m[a] : a \in 1 .. n}
<1>1. m \in [1 .. n -> T]
  OBVIOUS
<1>2. m \in Seq(T) /\ DOMAIN m = 1 .. n
  BY <1>1
<1> HIDE DEF T
<1>3. Len(m) \in Nat /\ DOMAIN m = 1 .. Len(m)
  BY <1>2
<1> QED BY <1>2, <1>3

LEMMA CrashRecovers ==
  ASSUME NEW s, s \in Savers, SInv(s), Unmixed, crash_and_recover
  PROVE  RecoversPrefix'
<1>0. /\ IInv /\ TypeOK /\ OneChain /\ Ordered /\ OnDevice(s) /\ Valid(log) /\ Len(log) \in Nat
      /\ tail = Len(log) + 1 /\ meta # None
  BY LogType DEF SInv, IInv, CInv, crash_and_recover
<1>1. PICK l, m, b, f, n : /\ l = log /\ m = log' /\ b = meta.start /\ f = meta.final
                           /\ n = meta.final - 1
  OBVIOUS
<1>2. /\ f \in Nat /\ 1 <= f /\ n \in Nat /\ n = f - 1 /\ n <= Len(l) /\ b \in Nat
      /\ \A k \in Keys : snap[meta.version][k] = Prefix(l, b, n, k)
  <2>1. f \in Nat /\ b \in Nat /\ 1 <= f /\ f <= safe_read_only
        /\ \A k \in Keys : snap[meta.version][k] = Prefix(l, b, n, k)
    BY <1>0, <1>1 DEF OnDevice
  <2>2. safe_read_only \in Nat /\ read_only \in Nat /\ safe_read_only <= read_only
        /\ read_only <= tail
    BY <1>0 DEF TypeOK, Ordered
  <2> QED BY <1>0, <1>1, <2>1, <2>2
<1>3. \A a \in 1 .. n : (Kept(a) <=> ~Later(l, b, a)) /\ (Undone(a) <=> Later(l, b, a))
  <2> TAKE a \in 1 .. n
  <2>1. a \in 1 .. Len(log) /\ log[a].valid
    BY <1>0, <1>1, <1>2 DEF Valid
  <2> QED BY <1>1, <2>1 DEF Kept, Undone, Later
<1>4. Apart(l, b, n)
  <2> SUFFICES ASSUME NEW i \in 1 .. n, NEW a \in 1 .. i - 1, ~Later(l, b, i), Later(l, b, a)
               PROVE  \E c \in a + 1 .. i : l[c].key = l[a].key /\ ~Later(l, b, c)
    BY DEF Apart
  <2>1. a \in 1 .. n /\ Kept(i) /\ Undone(a)
    BY <1>2, <1>3
  <2>2. i \in 1 .. meta.final - 1
    BY <1>1
  <2>3. PICK c \in a + 1 .. i : log[c].key = log[a].key /\ Kept(c)
    BY <1>0, <2>1, <2>2 DEF Unmixed
  <2>4. c \in 1 .. n
    BY <1>2, <2>1, <2>3
  <2> QED BY <1>1, <1>3, <2>3, <2>4
<1>5. /\ Len(m) = n
      /\ \A a \in 1 .. n : /\ m[a].key = l[a].key /\ m[a].val = l[a].val /\ m[a].tomb = l[a].tomb
                           /\ m[a].prev = a - 1
  <2>1. m = [a \in 1 .. n |-> [log[a] EXCEPT !.valid = Kept(a),
                                             !.sealed = IF Kept(a) THEN FALSE ELSE @]]
    BY <1>1 DEF crash_and_recover
  <2>2. Len(m) = n
    <3>1. m = [a \in 1 .. n |-> m[a]]
      BY <2>1
    <3> QED BY <1>2, <3>1, SeqLen
  <2>3. ASSUME NEW a \in 1 .. n
        PROVE  /\ m[a].key = l[a].key /\ m[a].val = l[a].val /\ m[a].tomb = l[a].tomb
               /\ m[a].prev = a - 1
    <3>1. a \in 1 .. Len(log) /\ log[a] \in Records /\ log[a].prev = a - 1
      BY <1>0, <1>1, <1>2, LogType DEF OneChain
    <3>2. m[a] = [log[a] EXCEPT !.valid = Kept(a), !.sealed = IF Kept(a) THEN FALSE ELSE @]
      BY <2>1
    <3> QED BY <1>1, <3>1, <3>2 DEF Records
  <2> QED BY <2>2, <2>3
<1>6. PICK e : e = Linked(l, b, n)
  OBVIOUS
<1>7. entry' = e /\ e \in 0 .. n
  <2>1. entry' = Max({0} \union {a \in 1 .. n : Kept(a)})
    BY <1>1 DEF crash_and_recover
  <2>2. {a \in 1 .. n : Kept(a)} = {a \in 1 .. n : ~Later(l, b, a)}
    BY <1>3
  <2> QED BY <1>2, <1>6, <2>1, <2>2, LinkedIs DEF Linked
<1>8. ASSUME NEW k \in Keys PROVE Value(k)' = Prefix(l, b, n, k)
  <2>1. Chain(e)' = 1 .. e
    <3>1. Chain(e)' = (CHOOSE g : IsChain(g, m, n))[e]
      BY <1>1, <1>5 DEF Chain, IsChain
    <3>2. \A i \in 1 .. n : m[i].prev = i - 1
      BY <1>5
    <3>3. n \in Nat /\ e \in 0 .. n
      BY <1>2, <1>7
    <3>4. (CHOOSE g : IsChain(g, m, n))[e] = 1 .. e
      BY <3>2, <3>3, ChainIs, Zenon
    <3> QED BY <3>1, <3>4
  <2>2. trace_back(e, k, 1)' = Newest(m, e, k, 1)
    BY <1>1, <2>1 DEF trace_back, Newest
  <2>3. Image(e, k)' = ImageOf(m, e, k)
    BY <1>1, <2>2 DEF Image, ImageOf
  <2>4. Value(k)' = Image(e, k)'
    BY <1>7 DEF Value, Image, trace_back, Chain
  <2>5. ImageOf(m, e, k) = ImageOf(l, e, k)
    <3>1. e \in Nat /\ \A i \in 1 .. e : i \in 1 .. n
      BY <1>2, <1>7
    <3>2. \A i \in 1 .. e : m[i].key = l[i].key /\ m[i].val = l[i].val /\ m[i].tomb = l[i].tomb
      BY <1>5, <3>1
    <3> QED BY <3>1, <3>2, ImageSame
  <2>6. ImageOf(l, e, k) = ValueAt(l, Newest(l, e, k, 1))
    BY ImageIs
  <2>7. Newest(l, e, k, 1) = NewestKept(l, b, n, k)
    BY <1>2, <1>4, <1>6, WalkFindsKept
  <2> QED BY <2>3, <2>4, <2>5, <2>6, <2>7 DEF Prefix
<1>9. meta' = meta /\ snap' = snap
  BY DEF crash_and_recover
<1> QED BY <1>2, <1>8, <1>9 DEF RecoversPrefix

-----------------------------------------------------------------------------
(* The theorems on checkpoints.                                            *)

(* What is on disk once the metadata is written, before any crash.         *)
CheckpointIsPrefix ==
  ~crashed /\ meta # None =>
    /\ meta.final <= safe_read_only
    /\ \A k \in Keys : snap[meta.version][k] = Prefix(log, meta.start, meta.final - 1, k)

LEMMA OnlySaverInvariance ==
  ASSUME NEW s, Savers = {s}
  PROVE  CrashSpec => [](~crashed => SInv(s))
<1>1. CInit => SInv(s)
  <2> SUFFICES ASSUME CInit PROVE SInv(s)
    OBVIOUS
  <2>1. IInv /\ Fits /\ CInv(s)
    BY RunInit, SaverInit DEF RInv, LInv
  <2>2. Valid(log)
    BY DEF CInit, Init, Valid
  <2> QED BY <2>1, <2>2 DEF SInv
<1>2. (~crashed => SInv(s)) /\ [RunNext \/ crash_and_recover]_cvars => (~crashed => SInv(s))'
  <2> SUFFICES ASSUME ~crashed => SInv(s), [RunNext \/ crash_and_recover]_cvars, ~crashed'
               PROVE  SInv(s)'
    OBVIOUS
  <2>1. CASE RunNext
    BY <2>1, RunGuard, OnlySaverHolds
  <2>2. CASE crash_and_recover
    BY <2>2 DEF crash_and_recover
  <2>3. CASE UNCHANGED cvars
    <3>1. Aside /\ ~crashed
      BY <2>3 DEF cvars, vars, marks, locals, Aside
    <3>2. IInv /\ Fits /\ CInv(s) /\ Valid(log)
      BY <3>1 DEF SInv
    <3>3. IInv' /\ Valid(log)' /\ Fits'
      <4>1. final_address' = final_address /\ tail' = tail
        BY <2>3 DEF cvars, vars, savers, saver_locals, tail
      <4> QED BY <3>1, <3>2, <4>1, AsideKeeps DEF Aside, Fits
    <3>4. CInv(s)'
      <4>1. UNCHANGED <<log, entry, sys, start, pc, state, entered, savers, meta, snap>>
        BY <2>3 DEF cvars, vars, locals
      <4>2. safe_read_only' = safe_read_only /\ safe_read_only \in Nat
        BY <3>1, <3>2 DEF Aside, IInv, TypeOK
      <4>3. s \in Savers /\ safe_read_only' \in Nat /\ safe_read_only <= safe_read_only'
        BY <4>2
      <4> QED BY <3>2, <4>1, <4>3, MarksOnly
    <3> QED BY <3>3, <3>4 DEF SInv
  <2> QED BY <2>1, <2>2, <2>3
<1> QED BY <1>1, <1>2, PTL DEF CrashSpec

(* A checkpoint taken while operations run holds the effects of all        *)
(* operations of its version and of none of the next, in the records that  *)
(* recovery keeps, and these are on the device: for any number of keys,    *)
(* threads and checkpoints, one at a time.                                 *)
THEOREM CheckpointIsPrefixHolds ==
  ASSUME NEW s, Savers = {s}
  PROVE  CrashSpec => []CheckpointIsPrefix
<1>1. (~crashed => SInv(s)) => CheckpointIsPrefix
  BY DEF SInv, CInv, OnDevice, CheckpointIsPrefix
<1> QED BY <1>1, OnlySaverInvariance, PTL

LEMMA PrefixStep ==
  ASSUME NEW s, s \in Savers, ~crashed => SInv(s) /\ Unmixed, RecoversPrefix,
         [RunNext \/ crash_and_recover]_cvars
  PROVE  RecoversPrefix'
<1>1. CASE RunNext
  BY <1>1, RunGuard DEF RecoversPrefix
<1>2. CASE crash_and_recover
  <2>1. ~crashed
    BY <1>2 DEF crash_and_recover
  <2> QED BY <1>2, <2>1, CrashRecovers
<1>3. CASE UNCHANGED cvars
  <2>1. UNCHANGED <<log, entry, crashed, meta, snap>>
    BY <1>3 DEF cvars, vars
  <2>2. \A k : Value(k)' = Value(k)
    BY <2>1 DEF Value, Image, trace_back, Chain
  <2> QED BY <2>1, <2>2 DEF RecoversPrefix
<1> QED BY <1>1, <1>2, <1>3

(* Recovery restores that prefix, unless it links a record of one key      *)
(* above a record of another that it has undone.                           *)
THEOREM RecoversPrefixUnmixed ==
  ASSUME NEW s, Savers = {s}
  PROVE  CrashSpec /\ []Unmixed => []RecoversPrefix
<1>1. CInit => RecoversPrefix
  BY DEF CInit, RecoversPrefix
<1>2. /\ (~crashed => SInv(s)) /\ Unmixed /\ RecoversPrefix
      /\ [RunNext \/ crash_and_recover]_cvars
      => RecoversPrefix'
  BY PrefixStep
<1> QED BY <1>1, <1>2, OnlySaverInvariance, PTL DEF CrashSpec

(* With a chain of its own for the key there is no other key to mix with:  *)
(* what recovery restores is the effect of all operations of the           *)
(* checkpointed version and of none of the next.                           *)
THEOREM RecoversPrefixHolds ==
  ASSUME NEW s, Savers = {s}, NEW k, Keys = {k}
  PROVE  CrashSpec => []RecoversPrefix
<1>1. ASSUME SInv(s) PROVE Unmixed
  <2> SUFFICES ASSUME meta # None, NEW b \in 1 .. meta.final - 1, NEW a \in 1 .. b - 1, Kept(b)
               PROVE  \E c \in a + 1 .. b : log[c].key = log[a].key /\ Kept(c)
    BY DEF Unmixed
  <2>1. OnDevice(s) /\ TypeOK /\ Ordered
    BY <1>1 DEF SInv, CInv, IInv
  <2>2. /\ meta.final \in Nat /\ meta.final <= safe_read_only /\ safe_read_only \in Nat
        /\ read_only \in Nat /\ safe_read_only <= read_only /\ read_only <= tail
        /\ Len(log) \in Nat /\ tail = Len(log) + 1
    BY <2>1, LogType DEF OnDevice, TypeOK, Ordered
  <2>3. a \in 1 .. Len(log) /\ b \in 1 .. Len(log) /\ b \in a + 1 .. b
    BY <2>2
  <2>4. log[a].key \in Keys /\ log[b].key \in Keys
    BY <2>1, <2>3, LogType DEF Records
  <2> QED BY <2>3, <2>4
<1>2. CInit => RecoversPrefix
  BY DEF CInit, RecoversPrefix
<1>3. (~crashed => SInv(s)) /\ RecoversPrefix /\ [RunNext \/ crash_and_recover]_cvars
      => RecoversPrefix'
  BY <1>1, PrefixStep
<1> QED BY <1>2, <1>3, OnlySaverInvariance, PTL DEF CrashSpec
=============================================================================
