-------------------------- MODULE Transaction_proofs --------------------------
(***************************************************************************)
(* Theorems about Transaction, for any sessions, keys, commands, slots of  *)
(* the watch table and bounds: a watched write that was answered aborts    *)
(* the transaction, replay of the log reproduces the store, and EXEC is    *)
(* atomic.                                                                 *)
(***************************************************************************)
EXTENDS Transaction, TLAPS, WellFoundedInduction

Labels == {"idle", "run", "bump", "log", "check", "lock", "start", "commit"}
Values == Sessions \cup {None}
Stores == [Keys -> Values]
Latches == [exclusive : SUBSET Keys, shared : SUBSET Keys]
Entries == [op : {"Command", "TxnStart", "TxnCommit"}, by : Sessions, cmd : Commands \cup {None}]
Txns == [in_multi : BOOLEAN, dirty : BOOLEAN, queued : Seq(Commands), watches : Seq(Slots \X Nat)]

(* Type correctness of the state of Transaction.                           *)
TypeOK ==
  /\ db \in Stores
  /\ version \in [Slots -> Nat]
  /\ aof \in Seq(Entries)
  /\ pc \in [Sessions -> Labels]
  /\ todo \in [Sessions -> Seq(Commands)]
  /\ done \in [Sessions -> Nat]
  /\ replies \in [Sessions -> Seq(Values)]
  /\ txn \in [Sessions -> Txns]
  /\ locks \in [Sessions -> Latches \cup {None}]
  /\ before \in [Sessions -> [db : Stores, queue : Seq(Commands)] \cup {None}]
  /\ watched \in [Sessions -> SUBSET Keys]
  /\ hits \in SUBSET (Sessions \X Sessions)
  /\ stale \in SUBSET Sessions
  /\ reordered \in SUBSET Keys

(* Where a session is in its commands.                                     *)
Stage(s) ==
  /\ pc[s] \in {"idle", "check", "commit"} => todo[s] = <<>> /\ done[s] = 0 /\ ~txn_mode(s)
  /\ pc[s] = "lock" => done[s] = 0 /\ ~txn_mode(s)
  /\ pc[s] = "start" => done[s] = 0 /\ txn_mode(s)
  /\ pc[s] = "run" => IF todo[s] = <<>> THEN done[s] = 0 /\ txn_mode(s)
                      ELSE done[s] < Len(Current(s).keys)
  /\ pc[s] = "bump" => todo[s] # <<>> /\ Current(s).op = "set" /\ done[s] < Len(Current(s).keys)
  /\ pc[s] = "log" => todo[s] # <<>> /\ Current(s).op = "set" /\ done[s] = Len(Current(s).keys)
  /\ pc[s] \in {"run", "bump", "log"} /\ ~txn_mode(s) => Len(todo[s]) = 1 /\ Current(s).op = "set"

Progress == \A s \in Sessions : Stage(s)

-----------------------------------------------------------------------------
(* Watches.                                                                *)

Watches(s, x) == \E j \in 1 .. Len(txn[s].watches) : txn[s].watches[j][1] = x

(* A version that s remembers is no longer the version of its slot.        *)
Moved(s) ==
  \E j \in 1 .. Len(txn[s].watches) : txn[s].watches[j][2] < version[txn[s].watches[j][1]]

(* A session watches only outside EXEC, and remembers a version, current   *)
(* or old, for the slot of every key it watches.                           *)
Watching ==
  \A s \in Sessions :
    /\ watched[s] # {} => pc[s] \notin {"check", "lock", "start", "commit"} /\ ~txn_mode(s)
    /\ \A k \in watched[s] : Watches(s, SlotOf[k])
    /\ \A j \in 1 .. Len(txn[s].watches) :
         txn[s].watches[j][2] <= version[txn[s].watches[j][1]]

(* A write of a watched key has moved a version, or is about to.           *)
HitsBump ==
  \A h \in hits :
    /\ watched[h[1]] # {}
    /\ Moved(h[1]) \/ (pc[h[2]] = "bump" /\ Watches(h[1], SlotOf[Key(h[2])]))

StaleAborts ==
  \A s \in stale : Moved(s) /\ pc[s] \notin {"lock", "start", "commit"} /\ ~txn_mode(s)

-----------------------------------------------------------------------------
(* The log.                                                                *)

(* A key on its way to the log has the value its writer gave it.           *)
InHand ==
  \A s \in Sessions : \A k \in Unlogged(s) \ reordered : db[k] = s

-----------------------------------------------------------------------------
(* Transactions.                                                           *)

(* The databases and replies after the first n commands of a queue.        *)
Trace(q, s, d) ==
  LET after[n \in 0 .. Len(q)] ==
        IF n = 0 THEN [db |-> d, replies |-> <<>>]
        ELSE Atomic!Apply(after[n - 1], s, q[n])
  IN  after

(* Latches exclude.                                                        *)
Apart ==
  \A s, t \in Sessions :
    s # t /\ txn_mode(s) /\ txn_mode(t) =>
      locks[s].exclusive \cap (locks[t].exclusive \cup locks[t].shared) = {}

(* Queues are within their bound.                                          *)
QueuesFit ==
  \A s \in Sessions :
    /\ Len(txn[s].queued) <= MaxQueue
    /\ pc[s] = "lock" => Len(todo[s]) <= MaxQueue

(* The number of commands a transaction has executed, the database and the *)
(* replies that are theirs.                                                *)
Executed(s) == Len(before[s].queue) - Len(todo[s])
State(s) == Trace(before[s].queue, s, before[s].db)[Executed(s)]

Latched(s) == locks[s].exclusive \cup locks[s].shared

(* A running transaction holds the latches of its queue and has executed   *)
(* the commands that are not in todo.                                      *)
HoldingOf(s) ==
  /\ before[s] \in [db : Stores, queue : Seq(Commands)]
  /\ Len(before[s].queue) <= MaxQueue
  /\ locks[s].exclusive = command_keys(before[s].queue, "set")
  /\ locks[s].shared = command_keys(before[s].queue, "get") \ locks[s].exclusive
  /\ Executed(s) \in Nat
  /\ pc[s] = "start" => Executed(s) = 0
  /\ \A i \in 1 .. Len(todo[s]) : todo[s][i] = before[s].queue[Executed(s) + i]

Holding == \A s \in Sessions : txn_mode(s) => HoldingOf(s)

(* The first n values that command c reads.                                *)
Partial(x, c, n) == [j \in 1 .. n |-> x.db[c.keys[j]]]

(* What a running transaction has read and written is what it would have   *)
(* alone, from the database it locked.                                     *)
AloneOf(s) ==
  /\ \A k \in Latched(s) : db[k] = IF k \in Unlogged(s) THEN s ELSE State(s).db[k]
  /\ replies[s] = IF todo[s] # <<>> /\ Current(s).op = "get"
                  THEN State(s).replies \o Partial(State(s), Current(s), done[s])
                  ELSE State(s).replies

Alone == \A s \in Sessions : IF txn_mode(s) THEN AloneOf(s) ELSE replies[s] = <<>>

IInv ==
  /\ TypeOK /\ Progress
  /\ Watching /\ HitsBump /\ StaleAborts
  /\ InHand /\ ReplayReproducesStore
  /\ Apart /\ QueuesFit /\ Holding /\ Alone

-----------------------------------------------------------------------------
(* Facts about the operators.                                              *)

(* The command a session executes.                                         *)
LEMMA CurrentType ==
  ASSUME TypeOK, NEW s \in Sessions, todo[s] # <<>>
  PROVE  /\ Current(s) = todo[s][1]
         /\ Current(s) \in Commands
         /\ Current(s).op \in {"set", "get"}
         /\ Current(s).keys \in Seq(Keys)
         /\ Len(Current(s).keys) \in Nat \ {0}
         /\ Len(todo[s]) \in Nat \ {0}
         /\ Tail(todo[s]) \in Seq(Commands)
         /\ Len(Tail(todo[s])) = Len(todo[s]) - 1
<1>1. todo[s] \in Seq(Commands)
  BY DEF TypeOK
<1>2. Current(s) = todo[s][1] /\ Current(s) \in Commands
  BY <1>1 DEF Current
<1>3. Current(s) \in [op : {"set", "get"}, keys : Seq(Keys)] /\ Current(s).keys # <<>>
  BY <1>2, CommandsAssumption
<1>4. Current(s).op \in {"set", "get"} /\ Current(s).keys \in Seq(Keys)
  BY <1>3
<1>5. Len(Current(s).keys) \in Nat \ {0}
  <2> DEFINE q == Current(s).keys
  <2>1. q \in Seq(Keys) /\ q # <<>>
    BY <1>3, <1>4
  <2> HIDE DEF q
  <2>2. Len(q) \in Nat \ {0}
    BY <2>1
  <2> QED BY <2>2 DEF q
<1> QED BY <1>1, <1>2, <1>4, <1>5

(* The key it handles.                                                     *)
LEMMA KeyType ==
  ASSUME TypeOK, NEW s \in Sessions, todo[s] # <<>>, done[s] < Len(Current(s).keys)
  PROVE  /\ done[s] + 1 \in 1 .. Len(Current(s).keys)
         /\ Key(s) = Current(s).keys[done[s] + 1]
         /\ Key(s) \in Keys
<1>1. done[s] \in Nat
  BY DEF TypeOK
<1>2. Current(s).keys \in Seq(Keys)
  BY CurrentType
<1> QED BY <1>1, <1>2 DEF Key

(* The keys of a command on their way to the log.                          *)
LEMMA UnloggedCases ==
  ASSUME TypeOK, Progress, NEW s \in Sessions
  PROVE  /\ pc[s] \notin {"run", "bump", "log"} => Unlogged(s) = {}
         /\ todo[s] = <<>> => Unlogged(s) = {}
         /\ todo[s] # <<>> /\ Current(s).op = "get" => Unlogged(s) = {}
         /\ done[s] = 0 /\ pc[s] # "bump" => Unlogged(s) = {}
         /\ Unlogged(s) \subseteq Keys
<1>1. done[s] \in Nat /\ pc[s] \in Labels
  BY DEF TypeOK
<1>2. pc[s] \notin {"run", "bump", "log"} => done[s] = 0
  BY <1>1 DEF Progress, Stage, Labels
<1>3. done[s] = 0 /\ pc[s] # "bump" => Unlogged(s) = {}
  BY DEF Unlogged
<1>4. Unlogged(s) \subseteq Keys
  <2>1. CASE todo[s] = <<>> \/ Current(s).op # "set"
    BY <2>1 DEF Unlogged
  <2>2. CASE todo[s] # <<>> /\ Current(s).op = "set"
    <3>1. Current(s).keys \in Seq(Keys)
      BY <2>2, CurrentType
    <3>2. pc[s] = "bump" => done[s] + 1 <= Len(Current(s).keys)
      BY <1>1 DEF Progress, Stage
    <3>3. pc[s] \in Labels /\ done[s] <= Len(Current(s).keys)
      BY <1>1, <2>2, <3>1 DEF Progress, Stage, Labels
    <3> QED BY <1>1, <2>2, <3>1, <3>2, <3>3 DEF Unlogged
  <2> QED BY <2>1, <2>2
<1> QED BY <1>2, <1>3, <1>4 DEF Unlogged

-----------------------------------------------------------------------------
(* Induction over the naturals, for a set in place of a predicate, from    *)
(* the existence of minimal elements.                                      *)
LEMMA NatSetInduction ==
  ASSUME NEW S \in SUBSET Nat, 0 \in S, \A n \in S : n + 1 \in S
  PROVE  S = Nat
<1> DEFINE T == Nat \ S
           R == OpToRel(<, Nat)
<1>1. SUFFICES ASSUME T # {} PROVE FALSE
  OBVIOUS
<1>2. IsWellFoundedOn(R, Nat)
  BY NatLessThanWellFounded, Zenon
<1>3. T \subseteq Nat
  OBVIOUS
<1>4. PICK x \in T : \A y \in T : ~(<<y, x>> \in R)
  <2> HIDE DEF T, R
  <2> QED BY <1>1, <1>2, <1>3, WFMin
<1>5. x \in Nat /\ x # 0
  OBVIOUS
<1>6. x - 1 \in T
  BY <1>5
<1>7. <<x - 1, x>> \in R
  BY <1>5, <1>6 DEF OpToRel
<1> QED BY <1>4, <1>6, <1>7

-----------------------------------------------------------------------------
(* Replay of a log: after[n] is the store after the first n entries.       *)

ReplayStep(d, e) == IF e.op = "Command" THEN replay_one(d, e) ELSE d

IsReplay(g, f, n) ==
  g = [i \in 0 .. n |-> IF i = 0 THEN [k \in Keys |-> None] ELSE ReplayStep(g[i - 1], f[i])]

LEMMA ReplayExists ==
  ASSUME NEW f, NEW n \in Nat
  PROVE  \E g : IsReplay(g, f, n)
<1> DEFINE S == {m \in Nat : \E g : IsReplay(g, f, m)}
<1>1. 0 \in S
  <2> DEFINE g == [i \in 0 .. 0 |-> [k \in Keys |-> None]]
  <2>1. IsReplay(g, f, 0)
    BY DEF IsReplay
  <2> QED BY <2>1
<1>2. ASSUME NEW m \in S PROVE m + 1 \in S
  <2>1. m \in Nat
    OBVIOUS
  <2>2. PICK g : IsReplay(g, f, m)
    OBVIOUS
  <2> DEFINE h == [i \in 0 .. m + 1 |-> IF i = m + 1 THEN ReplayStep(g[m], f[m + 1]) ELSE g[i]]
  <2>3. \A i \in 0 .. m : g[i] = IF i = 0 THEN [k \in Keys |-> None] ELSE ReplayStep(g[i - 1], f[i])
    BY <2>1, <2>2 DEF IsReplay
  <2>4. \A i \in 0 .. m : h[i] = g[i]
    BY <2>1
  <2>5. \A i \in 0 .. m + 1 :
          h[i] = IF i = 0 THEN [k \in Keys |-> None] ELSE ReplayStep(h[i - 1], f[i])
    <3> TAKE i \in 0 .. m + 1
    <3>1. CASE i = 0
      <4>1. 0 \in 0 .. m
        BY <2>1
      <4> QED BY <2>3, <2>4, <3>1, <4>1
    <3>2. CASE i \in 1 .. m
      <4>1. i \in 0 .. m /\ i - 1 \in 0 .. m /\ i # 0
        BY <2>1, <3>2
      <4>2. h[i] = g[i] /\ h[i - 1] = g[i - 1]
        BY <2>4, <4>1
      <4>3. g[i] = ReplayStep(g[i - 1], f[i])
        BY <2>3, <4>1
      <4> HIDE DEF h
      <4> QED BY <4>1, <4>2, <4>3
    <3>3. CASE i = m + 1
      <4>1. i # 0 /\ i - 1 = m /\ m \in 0 .. m
        BY <2>1, <3>3
      <4>2. h[m] = g[m]
        BY <2>4, <4>1
      <4>3. h[i] = ReplayStep(g[m], f[m + 1])
        BY <3>3
      <4> HIDE DEF h
      <4> QED BY <3>3, <4>1, <4>2, <4>3
    <3> QED BY <2>1, <3>1, <3>2, <3>3
  <2>6. IsReplay(h, f, m + 1)
    <3>1. h = [i \in 0 .. m + 1 |-> h[i]]
      OBVIOUS
    <3> HIDE DEF h
    <3> QED BY <2>5, <3>1 DEF IsReplay
  <2> HIDE DEF h
  <2> QED BY <2>1, <2>6
<1>3. S = Nat
  <2>1. S \in SUBSET Nat
    OBVIOUS
  <2> HIDE DEF S
  <2> QED BY <1>1, <1>2, <2>1, NatSetInduction
<1> QED BY <1>3

(* Two replays that agree on their entries agree.                          *)
LEMMA ReplayUnique ==
  ASSUME NEW f, NEW m \in Nat, NEW g, IsReplay(g, f, m),
         NEW e, NEW n \in Nat, NEW h, IsReplay(h, e, n),
         m <= n, \A i \in 1 .. m : f[i] = e[i]
  PROVE  \A i \in 0 .. m : g[i] = h[i]
<1> DEFINE S == {i \in Nat : i <= m => g[i] = h[i]}
<1>1. 0 \in S
  BY DEF IsReplay
<1>2. ASSUME NEW i \in S PROVE i + 1 \in S
  <2>1. SUFFICES ASSUME i + 1 <= m PROVE g[i + 1] = h[i + 1]
    OBVIOUS
  <2>2. i \in Nat /\ i + 1 \in 1 .. m /\ i + 1 \in 0 .. m /\ i + 1 \in 0 .. n /\ i + 1 # 0
    BY <2>1
  <2>3. g[i] = h[i] /\ f[i + 1] = e[i + 1] /\ (i + 1) - 1 = i
    BY <2>1, <2>2
  <2>4. g[i + 1] = ReplayStep(g[i], f[i + 1])
    BY <2>2, <2>3 DEF IsReplay
  <2>5. h[i + 1] = ReplayStep(h[i], e[i + 1])
    BY <2>2, <2>3 DEF IsReplay
  <2> QED BY <2>3, <2>4, <2>5
<1>3. S = Nat
  <2>1. S \in SUBSET Nat
    OBVIOUS
  <2> HIDE DEF S
  <2> QED BY <1>1, <1>2, <2>1, NatSetInduction
<1> QED BY <1>3

(* What replay_entries computes.                                           *)
LEMMA ReplayEmpty == replay_entries(<<>>) = [k \in Keys |-> None]
<1> DEFINE g == CHOOSE g : IsReplay(g, <<>>, 0)
<1>1. IsReplay(g, <<>>, 0)
  BY ReplayExists
<1>2. replay_entries(<<>>) = g[0]
  BY DEF replay_entries, IsReplay, ReplayStep
<1> HIDE DEF g
<1> QED BY <1>1, <1>2 DEF IsReplay

LEMMA ReplayAppend ==
  ASSUME NEW f \in Seq(Entries), NEW e \in Entries
  PROVE  replay_entries(Append(f, e)) = ReplayStep(replay_entries(f), e)
<1> DEFINE n == Len(f)
           a == Append(f, e)
           g == CHOOSE g : IsReplay(g, f, n)
           h == CHOOSE h : IsReplay(h, a, n + 1)
<1>1. n \in Nat /\ n + 1 \in Nat /\ Len(a) = n + 1 /\ a[n + 1] = e /\ \A i \in 1 .. n : f[i] = a[i]
  OBVIOUS
<1>2. IsReplay(g, f, n) /\ IsReplay(h, a, n + 1)
  BY <1>1, ReplayExists
<1>3. replay_entries(f) = g[n]
  BY DEF replay_entries, IsReplay, ReplayStep
<1>4. replay_entries(a) = h[Len(a)]
  <2> DEFINE h2 == CHOOSE j : IsReplay(j, a, Len(a))
  <2>1. replay_entries(a) = h2[Len(a)]
    BY DEF replay_entries, IsReplay, ReplayStep
  <2> QED BY <1>1, <2>1
<1> HIDE DEF g, h, n, a
<1>5. g[n] = h[n]
  <2>1. n \in 0 .. n /\ n <= n + 1
    BY <1>1
  <2> QED BY <1>1, <1>2, <2>1, ReplayUnique
<1>6. h[n + 1] = ReplayStep(h[n], a[n + 1])
  <2>1. n + 1 \in 0 .. n + 1 /\ n + 1 # 0 /\ (n + 1) - 1 = n
    BY <1>1
  <2> QED BY <1>2, <2>1 DEF IsReplay
<1> QED BY <1>1, <1>3, <1>4, <1>5, <1>6 DEF a

-----------------------------------------------------------------------------
(* Execution of a queue, one command after the other.                      *)

TraceStep(x, s, c) == Atomic!Apply(x, s, c)

IsTrace(g, q, s, d, n) ==
  g = [i \in 0 .. n |-> IF i = 0 THEN [db |-> d, replies |-> <<>>] ELSE TraceStep(g[i - 1], s, q[i])]

LEMMA TraceExists ==
  ASSUME NEW q, NEW s, NEW d, NEW n \in Nat
  PROVE  \E g : IsTrace(g, q, s, d, n)
<1> DEFINE x == [db |-> d, replies |-> <<>>]
           S == {m \in Nat : \E g : IsTrace(g, q, s, d, m)}
<1>1. 0 \in S
  <2> DEFINE g == [i \in 0 .. 0 |-> x]
  <2>1. IsTrace(g, q, s, d, 0)
    BY DEF IsTrace
  <2> QED BY <2>1
<1>2. ASSUME NEW m \in S PROVE m + 1 \in S
  <2>1. m \in Nat
    OBVIOUS
  <2>2. PICK g : IsTrace(g, q, s, d, m)
    OBVIOUS
  <2> DEFINE h == [i \in 0 .. m + 1 |-> IF i = m + 1 THEN TraceStep(g[m], s, q[m + 1]) ELSE g[i]]
  <2>3. \A i \in 0 .. m : g[i] = IF i = 0 THEN x ELSE TraceStep(g[i - 1], s, q[i])
    BY <2>1, <2>2 DEF IsTrace
  <2> HIDE DEF x
  <2>4. \A i \in 0 .. m : h[i] = g[i]
    BY <2>1
  <2>5. \A i \in 0 .. m + 1 : h[i] = IF i = 0 THEN x ELSE TraceStep(h[i - 1], s, q[i])
    <3> TAKE i \in 0 .. m + 1
    <3>1. CASE i = 0
      <4>1. 0 \in 0 .. m
        BY <2>1
      <4> QED BY <2>3, <2>4, <3>1, <4>1
    <3>2. CASE i \in 1 .. m
      <4>1. i \in 0 .. m /\ i - 1 \in 0 .. m /\ i # 0
        BY <2>1, <3>2
      <4>2. h[i] = g[i] /\ h[i - 1] = g[i - 1]
        BY <2>4, <4>1
      <4>3. g[i] = TraceStep(g[i - 1], s, q[i])
        BY <2>3, <4>1
      <4> HIDE DEF h
      <4> QED BY <4>1, <4>2, <4>3
    <3>3. CASE i = m + 1
      <4>1. i # 0 /\ i - 1 = m /\ m \in 0 .. m
        BY <2>1, <3>3
      <4>2. h[m] = g[m]
        BY <2>4, <4>1
      <4>3. h[i] = TraceStep(g[m], s, q[m + 1])
        BY <3>3
      <4> HIDE DEF h
      <4> QED BY <3>3, <4>1, <4>2, <4>3
    <3> QED BY <2>1, <3>1, <3>2, <3>3
  <2>6. IsTrace(h, q, s, d, m + 1)
    <3>1. h = [i \in 0 .. m + 1 |-> h[i]]
      OBVIOUS
    <3> HIDE DEF h
    <3> QED BY <2>5, <3>1 DEF IsTrace, x
  <2> HIDE DEF h
  <2> QED BY <2>1, <2>6
<1>3. S = Nat
  <2>1. S \in SUBSET Nat
    OBVIOUS
  <2> HIDE DEF S
  <2> QED BY <1>1, <1>2, <2>1, NatSetInduction
<1> QED BY <1>3

(* What Trace and Run compute.                                             *)
LEMMA TraceDef ==
  ASSUME NEW q \in Seq(Commands), NEW s, NEW d
  PROVE  /\ Trace(q, s, d)[0] = [db |-> d, replies |-> <<>>]
         /\ \A n \in 1 .. Len(q) : Trace(q, s, d)[n] = TraceStep(Trace(q, s, d)[n - 1], s, q[n])
         /\ Atomic!Run(q, s, d) = Trace(q, s, d)[Len(q)]
<1> DEFINE g == CHOOSE g : IsTrace(g, q, s, d, Len(q))
<1>1. Len(q) \in Nat
  OBVIOUS
<1>2. IsTrace(g, q, s, d, Len(q))
  BY <1>1, TraceExists
<1>3. Trace(q, s, d) = g
  BY DEF Trace, IsTrace, TraceStep
<1>4. Atomic!Run(q, s, d) = g[Len(q)]
  BY DEF Atomic!Run, IsTrace, TraceStep
<1> HIDE DEF g
<1>5. g[0] = [db |-> d, replies |-> <<>>]
  BY <1>1, <1>2 DEF IsTrace
<1>6. \A n \in 1 .. Len(q) : g[n] = TraceStep(g[n - 1], s, q[n])
  <2> TAKE n \in 1 .. Len(q)
  <2>1. n \in 0 .. Len(q) /\ n # 0
    BY <1>1
  <2> QED BY <1>2, <2>1 DEF IsTrace
<1> QED BY <1>3, <1>4, <1>5, <1>6

(* The values that a command reads.                                        *)
Reads(x, c) == Partial(x, c, Len(c.keys))

Replies(x, c) == IF c.op = "get" THEN x.replies \o Reads(x, c) ELSE x.replies

(* One step.                                                               *)
LEMMA TraceStepDef ==
  ASSUME NEW x, NEW s \in Sessions, NEW c \in Commands,
         x.db \in Stores, x.replies \in Seq(Values)
  PROVE  /\ TraceStep(x, s, c).db \in Stores
         /\ TraceStep(x, s, c).replies \in Seq(Values)
         /\ \A k \in Keys : TraceStep(x, s, c).db[k] =
              IF c.op = "set" /\ k \in Range(c.keys) THEN s ELSE x.db[k]
         /\ TraceStep(x, s, c).replies = Replies(x, c)
<1>1. c.op \in {"set", "get"} /\ c.keys \in Seq(Keys)
  BY CommandsAssumption
<1>2. DOMAIN c.keys = 1 .. Len(c.keys) /\ Len(c.keys) \in Nat
  BY <1>1
<1>3. Reads(x, c) \in Seq(Values)
  <2>1. \A j \in 1 .. Len(c.keys) : x.db[c.keys[j]] \in Values
    BY <1>1 DEF Stores
  <2> QED BY <1>2, <2>1 DEF Reads, Partial
<1>4. TraceStep(x, s, c).db = [k \in Keys |-> IF c.op = "set" /\ k \in Range(c.keys) THEN s ELSE x.db[k]]
  BY DEF TraceStep, Atomic!Apply, Atomic!Write, Atomic!Range, Range
<1>5. TraceStep(x, s, c).replies = Replies(x, c)
  BY <1>2 DEF TraceStep, Atomic!Apply, Replies, Reads, Partial
<1>6. TraceStep(x, s, c).db \in Stores
  BY <1>4 DEF Stores, Values
<1>7. TraceStep(x, s, c).replies \in Seq(Values)
  BY <1>3, <1>5 DEF Replies
<1> QED BY <1>4, <1>5, <1>6, <1>7

LEMMA TraceType ==
  ASSUME NEW q \in Seq(Commands), NEW s \in Sessions, NEW d \in Stores
  PROVE  \A n \in 0 .. Len(q) :
           Trace(q, s, d)[n].db \in Stores /\ Trace(q, s, d)[n].replies \in Seq(Values)
<1> DEFINE g == Trace(q, s, d)
           S == {n \in Nat : n <= Len(q) => g[n].db \in Stores /\ g[n].replies \in Seq(Values)}
<1>0. /\ g[0] = [db |-> d, replies |-> <<>>]
      /\ \A n \in 1 .. Len(q) : g[n] = TraceStep(g[n - 1], s, q[n])
  BY TraceDef
<1> HIDE DEF g
<1>1. 0 \in S
  <2>1. g[0].db = d /\ g[0].replies = <<>>
    BY <1>0
  <2>2. g[0].db \in Stores /\ g[0].replies \in Seq(Values)
    BY <2>1
  <2> QED BY <2>2
<1>2. ASSUME NEW n \in S PROVE n + 1 \in S
  <2>1. SUFFICES ASSUME n + 1 <= Len(q)
                 PROVE  g[n + 1].db \in Stores /\ g[n + 1].replies \in Seq(Values)
    OBVIOUS
  <2>2. n \in Nat /\ n + 1 \in 1 .. Len(q) /\ (n + 1) - 1 = n /\ q[n + 1] \in Commands
    BY <2>1
  <2>3. g[n].db \in Stores /\ g[n].replies \in Seq(Values)
    BY <2>1, <2>2
  <2>4. g[n + 1] = TraceStep(g[n], s, q[n + 1])
    BY <1>0, <2>2
  <2> DEFINE x == g[n]
             c == q[n + 1]
             y == TraceStep(x, s, c)
  <2>5. y.db \in Stores /\ y.replies \in Seq(Values)
    <3>1. x.db \in Stores /\ x.replies \in Seq(Values) /\ c \in Commands
      BY <2>2, <2>3
    <3> HIDE DEF x, c
    <3> QED BY <3>1, TraceStepDef
  <2> HIDE DEF y
  <2>6. g[n + 1] = y
    BY <2>4 DEF y
  <2> QED BY <2>5, <2>6
<1>3. S = Nat
  <2>1. S \in SUBSET Nat
    OBVIOUS
  <2> HIDE DEF S
  <2> QED BY <1>1, <1>2, <2>1, NatSetInduction
<1> QED BY <1>3 DEF g

(* The keys of a command of a queue are keys of the queue.                 *)
LEMMA CommandKeys ==
  ASSUME NEW q \in Seq(Commands), NEW i \in 1 .. Len(q)
  PROVE  /\ q[i] \in Commands
         /\ Range(q[i].keys) \subseteq command_keys(q, q[i].op)
         /\ \A j \in 1 .. Len(q[i].keys) : q[i].keys[j] \in Range(q[i].keys)
         /\ Range(q[i].keys) \subseteq Keys
<1>1. q[i] \in Commands /\ i \in DOMAIN q
  OBVIOUS
<1>2. q[i].keys \in Seq(Keys)
  BY <1>1, CommandsAssumption
<1>3. Range(q[i].keys) \subseteq command_keys(q, q[i].op)
  BY <1>1 DEF command_keys
<1>4. DOMAIN q[i].keys = 1 .. Len(q[i].keys)
  BY <1>2
<1> QED BY <1>1, <1>2, <1>3, <1>4 DEF Range

LEMMA CommandKeysType ==
  ASSUME NEW q \in Seq(Commands), NEW op
  PROVE  command_keys(q, op) \subseteq Keys
<1> SUFFICES ASSUME NEW k \in command_keys(q, op) PROVE k \in Keys
  OBVIOUS
<1>1. PICK i \in DOMAIN q : k \in Range(q[i].keys)
  BY DEF command_keys
<1>2. i \in 1 .. Len(q)
  OBVIOUS
<1> QED BY <1>1, <1>2, CommandKeys

(* A queue writes only its keys, and what it reads and writes depends on   *)
(* nothing but the values of its keys.                                     *)
LEMMA TraceAgree ==
  ASSUME NEW q \in Seq(Commands), NEW s \in Sessions, NEW d \in Stores, NEW e \in Stores,
         \A k \in command_keys(q, "set") \cup command_keys(q, "get") : d[k] = e[k]
  PROVE  \A n \in 0 .. Len(q) :
           /\ Trace(q, s, d)[n].replies = Trace(q, s, e)[n].replies
           /\ \A k \in command_keys(q, "set") \cup command_keys(q, "get") :
                Trace(q, s, d)[n].db[k] = Trace(q, s, e)[n].db[k]
           /\ \A k \in Keys \ command_keys(q, "set") : Trace(q, s, d)[n].db[k] = d[k]
<1> DEFINE g == Trace(q, s, d)
           h == Trace(q, s, e)
           W == command_keys(q, "set")
           K == W \cup command_keys(q, "get")
           Same(n) == /\ g[n].replies = h[n].replies
                      /\ \A k \in K : g[n].db[k] = h[n].db[k]
                      /\ \A k \in Keys \ W : g[n].db[k] = d[k]
           S == {n \in Nat : n <= Len(q) => Same(n)}
<1>1. /\ g[0] = [db |-> d, replies |-> <<>>]
      /\ \A n \in 1 .. Len(q) : g[n] = TraceStep(g[n - 1], s, q[n])
  BY TraceDef
<1>2. /\ h[0] = [db |-> e, replies |-> <<>>]
      /\ \A n \in 1 .. Len(q) : h[n] = TraceStep(h[n - 1], s, q[n])
  BY TraceDef
<1>3. \A n \in 0 .. Len(q) : g[n].db \in Stores /\ g[n].replies \in Seq(Values)
  BY TraceType
<1>4. \A n \in 0 .. Len(q) : h[n].db \in Stores /\ h[n].replies \in Seq(Values)
  BY TraceType
<1>5. K \subseteq Keys
  BY CommandKeysType
<1>6. \A k \in K : d[k] = e[k]
  OBVIOUS
<1>7. \A i \in 1 .. Len(q) :
        /\ q[i].op \in {"set", "get"} /\ q[i].keys \in Seq(Keys)
        /\ Range(q[i].keys) \subseteq K
        /\ q[i].op = "set" => Range(q[i].keys) \subseteq W
        /\ \A j \in 1 .. Len(q[i].keys) : q[i].keys[j] \in K
  <2> TAKE i \in 1 .. Len(q)
  <2>1. q[i].op \in {"set", "get"} /\ q[i].keys \in Seq(Keys)
    BY CommandsAssumption
  <2>2. Range(q[i].keys) \subseteq command_keys(q, q[i].op)
        /\ \A j \in 1 .. Len(q[i].keys) : q[i].keys[j] \in Range(q[i].keys)
    BY CommandKeys
  <2> QED BY <2>1, <2>2
<1> HIDE DEF g, h, W, K
<1>8. 0 \in S
  <2>1. g[0].db = d /\ h[0].db = e /\ g[0].replies = <<>> /\ h[0].replies = <<>>
    BY <1>1, <1>2
  <2>2. Same(0)
    BY <1>6, <2>1
  <2> HIDE DEF Same
  <2> QED BY <2>2
<1>9. ASSUME NEW n \in S PROVE n + 1 \in S
  <2>1. SUFFICES ASSUME n + 1 <= Len(q) PROVE Same(n + 1)
    OBVIOUS
  <2>2. n \in Nat /\ n + 1 \in 1 .. Len(q) /\ (n + 1) - 1 = n /\ n \in 0 .. Len(q) /\ n <= Len(q)
    BY <2>1
  <2> DEFINE x == g[n]
             y == h[n]
             c == q[n + 1]
             u == TraceStep(x, s, c)
             v == TraceStep(y, s, c)
  <2>3. /\ x.replies = y.replies
        /\ \A k \in K : x.db[k] = y.db[k]
        /\ \A k \in Keys \ W : x.db[k] = d[k]
    BY <2>2
  <2>4. /\ x.db \in Stores /\ x.replies \in Seq(Values)
        /\ y.db \in Stores /\ y.replies \in Seq(Values)
        /\ c \in Commands /\ c.op \in {"set", "get"} /\ c.keys \in Seq(Keys)
        /\ Range(c.keys) \subseteq K
        /\ c.op = "set" => Range(c.keys) \subseteq W
        /\ \A j \in 1 .. Len(c.keys) : c.keys[j] \in K
    BY <1>3, <1>4, <1>7, <2>2
  <2>5. g[n + 1] = u /\ h[n + 1] = v
    BY <1>1, <1>2, <2>2
  <2> HIDE DEF x, y, c
  <2>6. /\ \A k \in Keys : u.db[k] = IF c.op = "set" /\ k \in Range(c.keys) THEN s ELSE x.db[k]
        /\ u.replies = Replies(x, c)
    BY <2>4, TraceStepDef
  <2>7. /\ \A k \in Keys : v.db[k] = IF c.op = "set" /\ k \in Range(c.keys) THEN s ELSE y.db[k]
        /\ v.replies = Replies(y, c)
    BY <2>4, TraceStepDef
  <2>8. Reads(x, c) = Reads(y, c)
    BY <2>3, <2>4 DEF Reads, Partial
  <2> HIDE DEF u, v
  <2>9. u.replies = v.replies
    BY <2>3, <2>6, <2>7, <2>8 DEF Replies
  <2>10. \A k \in K : u.db[k] = v.db[k]
    BY <1>5, <2>3, <2>6, <2>7
  <2>11. \A k \in Keys \ W : u.db[k] = d[k]
    BY <2>3, <2>4, <2>6
  <2> QED BY <2>5, <2>9, <2>10, <2>11
<1>10. S = Nat
  <2>1. S \in SUBSET Nat
    OBVIOUS
  <2> HIDE DEF S
  <2> QED BY <1>8, <1>9, <2>1, NatSetInduction
<1>11. \A n \in 0 .. Len(q) : Same(n)
  <2> HIDE DEF Same
  <2> QED BY <1>10
<1> QED BY <1>11 DEF g, h, W, K

-----------------------------------------------------------------------------
(* How the actions change the state of a transaction.                      *)

TxnBecomes(s, multi, dirty, queued, watches) ==
  /\ txn' \in [Sessions -> Txns]
  /\ txn'[s].in_multi = multi /\ txn'[s].dirty = dirty
  /\ txn'[s].queued = queued /\ txn'[s].watches = watches
  /\ \A t \in Sessions \ {s} : txn'[t] = txn[t]

LEMMA TxnChange ==
  ASSUME TypeOK, NEW s \in Sessions, NEW x \in Txns, txn' = [txn EXCEPT ![s] = x]
  PROVE  TxnBecomes(s, x.in_multi, x.dirty, x.queued, x.watches)
BY DEF TxnBecomes, TypeOK

LEMMA WatchTxn ==
  ASSUME TypeOK, NEW s \in Sessions, NEW k \in Keys, cmd_watch(s, k)
  PROVE  TxnBecomes(s, txn[s].in_multi, txn[s].dirty, txn[s].queued,
                    Append(txn[s].watches, <<SlotOf[k], version[SlotOf[k]]>>))
<1> DEFINE w == Append(txn[s].watches, <<SlotOf[k], version[SlotOf[k]]>>)
           x == [txn[s] EXCEPT !.watches = w]
<1>1. txn[s] \in Txns /\ SlotOf[k] \in Slots /\ version[SlotOf[k]] \in Nat
  BY SlotsAssumption DEF TypeOK
<1>2. w \in Seq(Slots \X Nat)
  BY <1>1 DEF Txns
<1>3. txn' = [txn EXCEPT ![s] = x]
  BY DEF cmd_watch, TypeOK
<1> HIDE DEF w
<1>4. x \in Txns /\ x.in_multi = txn[s].in_multi /\ x.dirty = txn[s].dirty
      /\ x.queued = txn[s].queued /\ x.watches = w
  BY <1>1, <1>2 DEF Txns
<1> HIDE DEF x
<1>5. TxnBecomes(s, x.in_multi, x.dirty, x.queued, x.watches)
  BY <1>3, <1>4, TxnChange
<1> QED BY <1>4, <1>5 DEF w

LEMMA MultiTxn ==
  ASSUME TypeOK, NEW s \in Sessions, cmd_multi(s)
  PROVE  TxnBecomes(s, TRUE, FALSE, <<>>, txn[s].watches)
<1> DEFINE e == <<>>
           x == [txn[s] EXCEPT !.in_multi = TRUE, !.dirty = FALSE, !.queued = e]
<1>1. txn[s] \in Txns /\ e \in Seq(Commands)
  BY DEF TypeOK
<1>2. txn' = [txn EXCEPT ![s] = x]
  BY DEF cmd_multi, TypeOK
<1> HIDE DEF e
<1>3. x \in Txns /\ x.in_multi = TRUE /\ x.dirty = FALSE /\ x.queued = e
      /\ x.watches = txn[s].watches
  BY <1>1 DEF Txns
<1> HIDE DEF x
<1>4. TxnBecomes(s, x.in_multi, x.dirty, x.queued, x.watches)
  BY <1>2, <1>3, TxnChange
<1> QED BY <1>3, <1>4 DEF e

LEMMA QueueTxn ==
  ASSUME TypeOK, NEW s \in Sessions, NEW c \in Commands, dispatch_queued(s, c)
  PROVE  TxnBecomes(s, txn[s].in_multi, txn[s].dirty, Append(txn[s].queued, c), txn[s].watches)
<1> DEFINE w == Append(txn[s].queued, c)
           x == [txn[s] EXCEPT !.queued = w]
<1>1. txn[s] \in Txns
  BY DEF TypeOK
<1>2. w \in Seq(Commands)
  BY <1>1 DEF Txns
<1>3. txn' = [txn EXCEPT ![s] = x]
  BY DEF dispatch_queued, TypeOK
<1> HIDE DEF w
<1>4. x \in Txns /\ x.in_multi = txn[s].in_multi /\ x.dirty = txn[s].dirty
      /\ x.queued = w /\ x.watches = txn[s].watches
  BY <1>1, <1>2 DEF Txns
<1> HIDE DEF x
<1>5. TxnBecomes(s, x.in_multi, x.dirty, x.queued, x.watches)
  BY <1>3, <1>4, TxnChange
<1> QED BY <1>4, <1>5 DEF w

LEMMA DirtyTxn ==
  ASSUME TypeOK, NEW s \in Sessions, validate_queueable(s)
  PROVE  TxnBecomes(s, txn[s].in_multi, TRUE, txn[s].queued, txn[s].watches)
<1> DEFINE x == [txn[s] EXCEPT !.dirty = TRUE]
<1>1. txn[s] \in Txns
  BY DEF TypeOK
<1>2. txn' = [txn EXCEPT ![s] = x]
  BY DEF validate_queueable, TypeOK
<1>3. x \in Txns /\ x.in_multi = txn[s].in_multi /\ x.dirty = TRUE
      /\ x.queued = txn[s].queued /\ x.watches = txn[s].watches
  BY <1>1 DEF Txns
<1> HIDE DEF x
<1>4. TxnBecomes(s, x.in_multi, x.dirty, x.queued, x.watches)
  BY <1>2, <1>3, TxnChange
<1> QED BY <1>3, <1>4

LEMMA UnwatchTxn ==
  ASSUME TypeOK, NEW s \in Sessions, cmd_unwatch(s)
  PROVE  TxnBecomes(s, txn[s].in_multi, txn[s].dirty, txn[s].queued, <<>>)
<1> DEFINE e == <<>>
           x == [txn[s] EXCEPT !.watches = e]
<1>1. txn[s] \in Txns /\ e \in Seq(Slots \X Nat)
  BY DEF TypeOK
<1>2. txn' = [txn EXCEPT ![s] = x]
  BY DEF cmd_unwatch, TypeOK
<1> HIDE DEF e
<1>3. x \in Txns /\ x.in_multi = txn[s].in_multi /\ x.dirty = txn[s].dirty
      /\ x.queued = txn[s].queued /\ x.watches = e
  BY <1>1 DEF Txns
<1> HIDE DEF x
<1>4. TxnBecomes(s, x.in_multi, x.dirty, x.queued, x.watches)
  BY <1>2, <1>3, TxnChange
<1> QED BY <1>3, <1>4 DEF e

(* A comparison that finds no difference passes to the next watch.         *)
Compared(s) ==
  /\ txn[s].watches # <<>>
  /\ pc[s] = "check"
  /\ version[Head(txn[s].watches)[1]] = Head(txn[s].watches)[2]
  /\ TxnBecomes(s, txn[s].in_multi, txn[s].dirty, txn[s].queued, Tail(txn[s].watches))
  /\ UNCHANGED <<db, version, aof, pc, todo, done, replies, locks, before, last, watched, hits, stale,
                 reordered, calls>>

(* One that does, EXEC of a dirty queue and DISCARD leave the transaction. *)
Discarded(s) ==
  /\ pc[s] \in {"idle", "check"}
  /\ pc' = [pc EXCEPT ![s] = "idle"]
  /\ TxnBecomes(s, FALSE, FALSE, <<>>, <<>>)
  /\ last' = [last EXCEPT ![s] = None]
  /\ watched' = [watched EXCEPT ![s] = {}]
  /\ hits' = {h \in hits : h[1] # s}
  /\ stale' = stale \ {s}
  /\ UNCHANGED <<db, version, aof, todo, done, replies, locks, before, reordered, calls>>

(* EXEC of a queue that is not dirty begins to compare.                    *)
Checking(s) ==
  /\ pc[s] = "idle"
  /\ pc' = [pc EXCEPT ![s] = "check"]
  /\ watched' = [watched EXCEPT ![s] = {}]
  /\ hits' = {h \in hits : h[1] # s}
  /\ UNCHANGED <<db, version, aof, todo, done, replies, txn, locks, before, last, stale, reordered, calls>>

LEMMA EmptyTxn ==
  ASSUME TypeOK, NEW s \in Sessions, txn' = [txn EXCEPT ![s] = NoTxn]
  PROVE  TxnBecomes(s, FALSE, FALSE, <<>>, <<>>)
<1>1. NoTxn \in Txns /\ NoTxn.in_multi = FALSE /\ NoTxn.dirty = FALSE
      /\ NoTxn.queued = <<>> /\ NoTxn.watches = <<>>
  BY DEF NoTxn, Txns
<1>2. TxnBecomes(s, NoTxn.in_multi, NoTxn.dirty, NoTxn.queued, NoTxn.watches)
  BY <1>1, TxnChange
<1> QED BY <1>1, <1>2

LEMMA SamePc ==
  ASSUME TypeOK, NEW s \in Sessions, pc[s] = "idle", UNCHANGED pc
  PROVE  pc' = [pc EXCEPT ![s] = "idle"]
BY DEF TypeOK

LEMMA DiscardCases ==
  ASSUME TypeOK, NEW s \in Sessions, cmd_discard(s)
  PROVE  Discarded(s)
BY EmptyTxn, SamePc DEF cmd_discard, discard, ForgetWatches, Discarded

LEMMA ExecCases ==
  ASSUME TypeOK, NEW s \in Sessions, cmd_exec(s)
  PROVE  Discarded(s) \/ Checking(s)
BY EmptyTxn, SamePc DEF cmd_exec, discard, ForgetWatches, Discarded, Checking, Goto

LEMMA CheckCases ==
  ASSUME TypeOK, NEW s \in Sessions, watch_check(s)
  PROVE  Discarded(s) \/ Compared(s)
<1> DEFINE w == txn[s].watches
<1>1. txn[s] \in Txns /\ w \in Seq(Slots \X Nat)
  BY DEF TypeOK, Txns
<1>2. w # <<>>
  BY DEF watch_check
<1>3. CASE version[Head(w)[1]] # Head(w)[2]
  <2>1. Goto(s, "check", "idle") /\ discard(s)
        /\ UNCHANGED <<db, version, aof, todo, done, replies, locks, before, reordered, calls>>
    BY <1>3 DEF watch_check
  <2> QED BY <2>1, EmptyTxn DEF Goto, discard, ForgetWatches, Discarded
<1>4. CASE version[Head(w)[1]] = Head(w)[2]
  <2> DEFINE x == [txn[s] EXCEPT !.watches = Tail(w)]
  <2>1. /\ pc[s] = "check"
        /\ txn' = [txn EXCEPT ![s] = x]
        /\ UNCHANGED <<db, version, aof, pc, todo, done, replies, locks, before, last, watched, hits, stale,
                       reordered, calls>>
    BY <1>4 DEF watch_check, TypeOK
  <2>2. Tail(w) \in Seq(Slots \X Nat)
    BY <1>1, <1>2
  <2>3. x \in Txns /\ x.in_multi = txn[s].in_multi /\ x.dirty = txn[s].dirty
        /\ x.queued = txn[s].queued /\ x.watches = Tail(w)
    BY <1>1, <2>2 DEF Txns
  <2> HIDE DEF x
  <2>4. TxnBecomes(s, x.in_multi, x.dirty, x.queued, x.watches)
    BY <2>1, <2>3, TxnChange
  <2> QED BY <1>2, <1>4, <2>1, <2>3, <2>4 DEF Compared
<1> QED BY <1>3, <1>4

(* A step inside a command.                                                *)

(* The next key is written.                                                *)
Writes(s) ==
  /\ pc[s] = "run" /\ todo[s] # <<>> /\ Current(s).op = "set"
  /\ done[s] \in Nat /\ done[s] < Len(Current(s).keys)
  /\ done[s] + 1 \in 1 .. Len(Current(s).keys)
  /\ Key(s) = Current(s).keys[done[s] + 1] /\ Key(s) \in Keys
  /\ pc' = [pc EXCEPT ![s] = "bump"]
  /\ db' = [db EXCEPT ![Key(s)] = s]

LEMMA WriteCases ==
  ASSUME TypeOK, Progress, NEW s \in Sessions, WriteKey(s)
  PROVE  Writes(s)
<1>1. pc[s] = "run" /\ todo[s] # <<>> /\ Current(s).op = "set"
      /\ pc' = [pc EXCEPT ![s] = "bump"] /\ db' = [db EXCEPT ![Key(s)] = s]
  BY DEF WriteKey, Running, Goto
<1>2. done[s] \in Nat /\ done[s] < Len(Current(s).keys)
  BY <1>1 DEF Progress, Stage, TypeOK
<1> QED BY <1>1, <1>2, KeyType DEF Writes

(* Its slot is bumped.                                                     *)
Bumps(s) ==
  /\ pc[s] = "bump" /\ todo[s] # <<>> /\ Current(s).op = "set"
  /\ done[s] \in Nat /\ done[s] < Len(Current(s).keys)
  /\ Len(Current(s).keys) \in Nat
  /\ Key(s) \in Keys /\ SlotOf[Key(s)] \in Slots
  /\ version' = [version EXCEPT ![SlotOf[Key(s)]] = version[SlotOf[Key(s)]] + 1]
  /\ done' = [done EXCEPT ![s] = done[s] + 1]
  /\ \/ /\ done[s] + 1 < Len(Current(s).keys)
        /\ pc' = [pc EXCEPT ![s] = "run"]
     \/ /\ done[s] + 1 = Len(Current(s).keys)
        /\ pc' = [pc EXCEPT ![s] = "log"]

LEMMA BumpCases ==
  ASSUME TypeOK, Progress, NEW s \in Sessions, bump_watch(s)
  PROVE  Bumps(s)
<1>1. pc[s] = "bump" /\ pc[s] \in Labels
  BY DEF bump_watch, Goto, TypeOK
<1>2. todo[s] # <<>> /\ Current(s).op = "set" /\ done[s] \in Nat /\ done[s] < Len(Current(s).keys)
  BY <1>1 DEF Progress, Stage, TypeOK
<1>3. Len(Current(s).keys) \in Nat /\ Key(s) \in Keys
  BY <1>2, CurrentType, KeyType
<1>4. SlotOf[Key(s)] \in Slots
  BY <1>3, SlotsAssumption
<1>5. version' = [version EXCEPT ![SlotOf[Key(s)]] = version[SlotOf[Key(s)]] + 1]
      /\ done' = [done EXCEPT ![s] = done[s] + 1]
  BY <1>4 DEF bump_watch, TypeOK
<1>6. pc' = [pc EXCEPT ![s] = IF done[s] + 1 < Len(Current(s).keys) THEN "run" ELSE "log"]
  BY DEF bump_watch, Goto
<1>7. done[s] + 1 < Len(Current(s).keys) \/ done[s] + 1 = Len(Current(s).keys)
  BY <1>2, <1>3
<1> QED BY <1>1, <1>2, <1>3, <1>4, <1>5, <1>6, <1>7 DEF Bumps

(* The command is logged.                                                  *)
Logs(s) ==
  /\ pc[s] = "log" /\ todo[s] # <<>> /\ Current(s).op = "set"
  /\ done[s] = Len(Current(s).keys)
  /\ Current(s) \in Commands
  /\ aof' = Append(aof, [op |-> "Command", by |-> s, cmd |-> Current(s)])
  /\ todo' = [todo EXCEPT ![s] = Tail(todo[s])]
  /\ done' = [done EXCEPT ![s] = 0]
  /\ \/ /\ txn_mode(s)
        /\ pc' = [pc EXCEPT ![s] = "run"]
        /\ stale' = stale
     \/ /\ ~txn_mode(s)
        /\ Len(todo[s]) = 1 /\ Tail(todo[s]) = <<>>
        /\ pc' = [pc EXCEPT ![s] = "idle"]
        /\ stale' = stale \cup {t \in Sessions : <<t, s>> \in hits}

LEMMA LogCases ==
  ASSUME TypeOK, Progress, NEW s \in Sessions, log_write(s)
  PROVE  Logs(s)
<1>1. pc[s] = "log"
  BY DEF log_write, Goto
<1>2. todo[s] # <<>> /\ Current(s).op = "set" /\ done[s] = Len(Current(s).keys)
      /\ (~txn_mode(s) => Len(todo[s]) = 1)
  BY <1>1 DEF Progress, Stage
<1>3. Current(s) \in Commands /\ Tail(todo[s]) \in Seq(Commands)
      /\ Len(Tail(todo[s])) = Len(todo[s]) - 1
  BY <1>2, CurrentType
<1>4. ~txn_mode(s) => Tail(todo[s]) = <<>>
  <2> DEFINE q == Tail(todo[s])
  <2>1. q \in Seq(Commands) /\ (~txn_mode(s) => Len(q) = 0)
    BY <1>2, <1>3
  <2> HIDE DEF q
  <2>2. ~txn_mode(s) => q = <<>>
    BY <2>1
  <2> QED BY <2>2 DEF q
<1>5. todo' = [todo EXCEPT ![s] = Tail(todo[s])] /\ done' = [done EXCEPT ![s] = 0]
      /\ aof' = Append(aof, [op |-> "Command", by |-> s, cmd |-> Current(s)])
  BY DEF log_write, enqueue, TypeOK
<1>6. pc' = [pc EXCEPT ![s] = IF txn_mode(s) THEN "run" ELSE "idle"]
      /\ stale' = IF txn_mode(s) THEN stale ELSE stale \cup {t \in Sessions : <<t, s>> \in hits}
  BY DEF log_write, Goto, After
<1> QED BY <1>1, <1>2, <1>3, <1>4, <1>5, <1>6 DEF Logs

(* The next key is read.                                                   *)
ReadsNext(s) ==
  /\ pc[s] = "run" /\ txn_mode(s) /\ todo[s] # <<>> /\ Current(s).op = "get"
  /\ done[s] \in Nat /\ done[s] < Len(Current(s).keys)
  /\ done[s] + 1 \in 1 .. Len(Current(s).keys)
  /\ Key(s) = Current(s).keys[done[s] + 1] /\ Key(s) \in Keys
  /\ replies' = [replies EXCEPT ![s] = Append(replies[s], db[Key(s)])]
  /\ \/ /\ done[s] + 1 < Len(Current(s).keys)
        /\ done' = [done EXCEPT ![s] = done[s] + 1]
        /\ todo' = todo
     \/ /\ done[s] + 1 = Len(Current(s).keys)
        /\ done' = [done EXCEPT ![s] = 0]
        /\ todo' = [todo EXCEPT ![s] = Tail(todo[s])]

LEMMA ReadCases ==
  ASSUME TypeOK, Progress, NEW s \in Sessions, ReadKey(s)
  PROVE  ReadsNext(s)
<1>1. pc[s] = "run" /\ todo[s] # <<>> /\ Current(s).op = "get"
  BY DEF ReadKey, Running
<1>2. done[s] \in Nat /\ done[s] < Len(Current(s).keys) /\ txn_mode(s)
  BY <1>1 DEF Progress, Stage, TypeOK
<1>3. Len(Current(s).keys) \in Nat /\ done[s] + 1 \in 1 .. Len(Current(s).keys)
      /\ Key(s) = Current(s).keys[done[s] + 1] /\ Key(s) \in Keys
  BY <1>1, <1>2, CurrentType, KeyType
<1>4. replies' = [replies EXCEPT ![s] = Append(replies[s], db[Key(s)])]
  BY DEF ReadKey, TypeOK
<1>5. CASE done[s] + 1 < Len(Current(s).keys)
  <2>1. done' = [done EXCEPT ![s] = done[s] + 1] /\ todo' = [todo EXCEPT ![s] = todo[s]]
    BY <1>5 DEF ReadKey, TypeOK
  <2>2. todo' = todo
    BY <2>1 DEF TypeOK
  <2> QED BY <1>1, <1>2, <1>3, <1>4, <1>5, <2>1, <2>2 DEF ReadsNext
<1>6. CASE done[s] + 1 = Len(Current(s).keys)
  <2>1. done' = [done EXCEPT ![s] = 0] /\ todo' = [todo EXCEPT ![s] = Tail(todo[s])]
    <3>1. ~(done[s] + 1 < Len(Current(s).keys))
      BY <1>2, <1>3, <1>6
    <3> QED BY <3>1 DEF ReadKey, TypeOK
  <2> QED BY <1>1, <1>2, <1>3, <1>4, <1>6, <2>1 DEF ReadsNext
<1> QED BY <1>2, <1>3, <1>5, <1>6

-----------------------------------------------------------------------------
(* Every step preserves the invariant.                                     *)

(* The type invariant.                                                     *)
LEMMA TypeStep ==
  ASSUME TypeOK, Progress, [Next]_vars
  PROVE  TypeOK'
<1>u. CASE UNCHANGED vars
  BY <1>u DEF TypeOK, vars, session, history
<1>1. ASSUME NEW s \in Sessions, NEW c \in Commands, exec_command(s, c) PROVE TypeOK'
  BY <1>1 DEF exec_command, TypeOK, Labels, Goto, Call, enqueue, history
<1>2. ASSUME NEW s \in Sessions, NEW c \in Commands, dispatch_queued(s, c) PROVE TypeOK'
  <2>1. txn' \in [Sessions -> Txns]
    BY <1>2, QueueTxn DEF TxnBecomes
  <2> QED BY <1>2, <2>1 DEF dispatch_queued, TypeOK, Goto, Call, enqueue, history
<1>3. ASSUME NEW s \in Sessions, NEW k \in Keys, cmd_watch(s, k) PROVE TypeOK'
  <2>1. txn' \in [Sessions -> Txns]
    BY <1>3, WatchTxn DEF TxnBecomes
  <2> QED BY <1>3, <2>1 DEF cmd_watch, TypeOK, Goto, Call, enqueue, history
<1>4. ASSUME NEW s \in Sessions, cmd_multi(s) PROVE TypeOK'
  <2>1. txn' \in [Sessions -> Txns]
    BY <1>4, MultiTxn DEF TxnBecomes
  <2> QED BY <1>4, <2>1 DEF cmd_multi, TypeOK, Goto, Call, enqueue, history
<1>5. ASSUME NEW s \in Sessions, validate_queueable(s) PROVE TypeOK'
  <2>1. txn' \in [Sessions -> Txns]
    BY <1>5, DirtyTxn DEF TxnBecomes
  <2> QED BY <1>5, <2>1 DEF validate_queueable, TypeOK, Goto, Call, enqueue, history
<1>6. ASSUME NEW s \in Sessions, cmd_discard(s) PROVE TypeOK'
  <2>1. Discarded(s)
    BY <1>6, DiscardCases
  <2> QED BY <2>1 DEF Discarded, TxnBecomes, TypeOK, Labels
<1>7. ASSUME NEW s \in Sessions, cmd_unwatch(s) PROVE TypeOK'
  <2>1. txn' \in [Sessions -> Txns]
    BY <1>7, UnwatchTxn DEF TxnBecomes
  <2> QED BY <1>7, <2>1 DEF cmd_unwatch, TypeOK, ForgetWatches
<1>8. ASSUME NEW s \in Sessions, cmd_exec(s) PROVE TypeOK'
  <2>1. Discarded(s) \/ Checking(s)
    BY <1>8, ExecCases
  <2> QED BY <2>1 DEF Discarded, Checking, TxnBecomes, TypeOK, Labels
<1>9. ASSUME NEW s \in Sessions, WriteKey(s) PROVE TypeOK'
  <2>0. Writes(s)
    BY <1>9, WriteCases
  <2>1. db' \in Stores /\ pc' \in [Sessions -> Labels]
    BY <2>0 DEF Writes, TypeOK, Labels, Stores, Values
  <2>2. hits' \in SUBSET (Sessions \X Sessions)
    BY <1>9 DEF WriteKey, TypeOK
  <2>3. reordered' \in SUBSET Keys
    BY <1>9, <2>0 DEF WriteKey, Writes, TypeOK
  <2> QED BY <1>9, <2>1, <2>2, <2>3 DEF WriteKey, TypeOK
<1>10. ASSUME NEW s \in Sessions, bump_watch(s) PROVE TypeOK'
  <2>0. Bumps(s)
    BY <1>10, BumpCases
  <2>1. version[SlotOf[Key(s)]] + 1 \in Nat /\ done[s] + 1 \in Nat
    BY <2>0 DEF Bumps, TypeOK
  <2>2. version' \in [Slots -> Nat] /\ done' \in [Sessions -> Nat]
    BY <2>0, <2>1 DEF Bumps, TypeOK
  <2>3. pc' \in [Sessions -> Labels]
    BY <2>0 DEF Bumps, TypeOK, Labels
  <2> QED BY <1>10, <2>2, <2>3 DEF bump_watch, TypeOK, history
<1>11. ASSUME NEW s \in Sessions, log_write(s) PROVE TypeOK'
  <2>0. Logs(s)
    BY <1>11, LogCases
  <2>1. Tail(todo[s]) \in Seq(Commands)
        /\ [op |-> "Command", by |-> s, cmd |-> Current(s)] \in Entries
    BY <2>0, CurrentType DEF Logs, Entries
  <2>2. aof' \in Seq(Entries)
    BY <2>0, <2>1 DEF Logs, TypeOK
  <2>3. pc' \in [Sessions -> Labels] /\ todo' \in [Sessions -> Seq(Commands)]
        /\ done' \in [Sessions -> Nat] /\ stale' \in SUBSET Sessions
    BY <2>0, <2>1 DEF Logs, TypeOK, Labels
  <2> QED BY <1>11, <2>2, <2>3 DEF log_write, TypeOK
<1>12. ASSUME NEW s \in Sessions, ReadKey(s) PROVE TypeOK'
  <2>0. ReadsNext(s)
    BY <1>12, ReadCases
  <2>1. Tail(todo[s]) \in Seq(Commands) /\ db[Key(s)] \in Values
    BY <2>0, CurrentType DEF ReadsNext, TypeOK, Stores
  <2>2. Append(replies[s], db[Key(s)]) \in Seq(Values)
    BY <2>1 DEF TypeOK
  <2>3. replies' \in [Sessions -> Seq(Values)]
    BY <2>0, <2>2 DEF ReadsNext, TypeOK
  <2>4. todo' \in [Sessions -> Seq(Commands)]
    BY <2>0, <2>1 DEF ReadsNext, TypeOK
  <2>5. done' \in [Sessions -> Nat]
    <3>1. done[s] + 1 \in Nat
      BY DEF TypeOK
    <3>2. done' = [done EXCEPT ![s] = done[s] + 1] \/ done' = [done EXCEPT ![s] = 0]
      BY <2>0 DEF ReadsNext
    <3>3. done \in [Sessions -> Nat]
      BY DEF TypeOK
    <3> QED BY <3>1, <3>2, <3>3
  <2> QED BY <1>12, <2>3, <2>4, <2>5 DEF ReadKey, TypeOK, history
<1>13. ASSUME NEW s \in Sessions, watch_check(s) PROVE TypeOK'
  <2>1. Discarded(s) \/ Compared(s)
    BY <1>13, CheckCases
  <2> QED BY <2>1 DEF Discarded, Compared, TxnBecomes, TypeOK, Labels
<1>14. ASSUME NEW s \in Sessions, take_queue(s) PROVE TypeOK'
  BY <1>14 DEF take_queue, TypeOK, Labels, Txns, NoTxn, Goto, Call, enqueue, history
<1>15. ASSUME NEW s \in Sessions, txn_lock(s) PROVE TypeOK'
  BY <1>15, CommandKeysType DEF txn_lock, TypeOK, Labels, Latches, Goto, Call, enqueue, history
<1>16. ASSUME NEW s \in Sessions, TxnStart(s) PROVE TypeOK'
  BY <1>16 DEF TxnStart, TypeOK, Labels, Entries, Goto, Call, enqueue, history
<1>17. ASSUME NEW s \in Sessions, txn_unlock(s) PROVE TypeOK'
  BY <1>17 DEF txn_unlock, TypeOK, Labels, Goto, Call, enqueue, history
<1>18. ASSUME NEW s \in Sessions, TxnCommit(s) PROVE TypeOK'
  BY <1>18 DEF TxnCommit, TypeOK, Labels, Entries, Goto, Call, enqueue, history
<1> QED BY <1>u, <1>1, <1>2, <1>3, <1>4, <1>5, <1>6, <1>7, <1>8, <1>9, <1>10, <1>11, <1>12, <1>13, <1>14, <1>15, <1>16, <1>17, <1>18
   DEF Next, Step

(* Progress.                                                               *)

LEMMA CommandLength ==
  ASSUME NEW c \in Commands
  PROVE  Len(c.keys) \in Nat \ {0}
<1> DEFINE q == c.keys
<1>1. q \in Seq(Keys) /\ q # <<>>
  BY CommandsAssumption
<1> HIDE DEF q
<1>2. Len(q) \in Nat \ {0}
  BY <1>1
<1> QED BY <1>2 DEF q

LEMMA LockedNotNone ==
  ASSUME TypeOK, NEW s \in Sessions, txn_lock(s)
  PROVE  locks'[s] # None
<1> DEFINE x == command_keys(todo[s], "set")
           r == command_keys(todo[s], "get") \ x
<1>1. todo[s] \in Seq(Commands)
  BY DEF TypeOK
<1>2. x \in SUBSET Keys /\ r \in SUBSET Keys
  BY <1>1, CommandKeysType
<1>3. locks'[s] = [exclusive |-> x, shared |-> r]
  BY DEF txn_lock, TypeOK
<1> HIDE DEF x, r
<1> QED BY <1>2, <1>3, NoneAssumption

LEMMA StageFrame ==
  ASSUME NEW t \in Sessions, Stage(t),
         pc'[t] = pc[t], todo'[t] = todo[t], done'[t] = done[t], locks'[t] = locks[t]
  PROVE  Stage(t)'
BY DEF Stage, txn_mode, Current

LEMMA StageDiscarded ==
  ASSUME TypeOK, Progress, NEW s \in Sessions, Discarded(s)
  PROVE  Progress'
<1>1. \A t \in Sessions \ {s} : pc'[t] = pc[t] /\ todo'[t] = todo[t] /\ done'[t] = done[t] /\ locks'[t] = locks[t]
  BY DEF Discarded, TypeOK
<1>2. pc[s] \in {"idle", "check"} /\ pc'[s] = "idle" /\ todo'[s] = todo[s] /\ done'[s] = done[s]
      /\ locks'[s] = locks[s]
  BY DEF Discarded, TypeOK
<1>3. \A t \in Sessions : Stage(t)
  BY DEF Progress
<1>4. Stage(s)'
  BY <1>2, <1>3 DEF Stage, txn_mode
<1> QED BY <1>1, <1>3, <1>4, StageFrame DEF Progress

LEMMA ProgressStep ==
  ASSUME TypeOK, Progress, [Next]_vars
  PROVE  Progress'
<1>f. \A t \in Sessions : Stage(t)
  BY DEF Progress
<1>u. CASE UNCHANGED vars
  <2>1. \A t \in Sessions : pc'[t] = pc[t] /\ todo'[t] = todo[t] /\ done'[t] = done[t] /\ locks'[t] = locks[t]
    BY <1>u DEF vars, session
  <2> QED BY <1>f, <2>1, StageFrame DEF Progress
<1>1. ASSUME NEW s \in Sessions, NEW c \in Commands, exec_command(s, c) PROVE Progress'
  <2>1. \A t \in Sessions \ {s} : pc'[t] = pc[t] /\ todo'[t] = todo[t] /\ done'[t] = done[t] /\ locks'[t] = locks[t]
    BY <1>1 DEF exec_command, Goto, TypeOK
  <2>2. Stage(s)'
    <3>1. pc'[s] = "run" /\ todo'[s] = <<c>> /\ done'[s] = done[s] /\ locks'[s] = locks[s]
          /\ pc[s] = "idle" /\ c.op = "set"
      BY <1>1 DEF exec_command, Goto, TypeOK
    <3>2. done[s] = 0 /\ ~txn_mode(s)
      BY <1>f, <3>1 DEF Stage
    <3>3. Current(s)' = c /\ todo'[s] # <<>> /\ Len(todo'[s]) = 1
      BY <3>1 DEF Current
    <3>4. Len(c.keys) \in Nat \ {0}
      BY CommandLength
    <3> QED BY <3>1, <3>2, <3>3, <3>4 DEF Stage, txn_mode
  <2> QED BY <1>f, <2>1, <2>2, StageFrame DEF Progress
<1>2. ASSUME NEW s \in Sessions, NEW c \in Commands, dispatch_queued(s, c) PROVE Progress'
  <2>1. \A t \in Sessions : pc'[t] = pc[t] /\ todo'[t] = todo[t] /\ done'[t] = done[t] /\ locks'[t] = locks[t]
    BY <1>2 DEF dispatch_queued
  <2> QED BY <1>f, <2>1, StageFrame DEF Progress
<1>3. ASSUME NEW s \in Sessions, NEW k \in Keys, cmd_watch(s, k) PROVE Progress'
  <2>1. \A t \in Sessions : pc'[t] = pc[t] /\ todo'[t] = todo[t] /\ done'[t] = done[t] /\ locks'[t] = locks[t]
    BY <1>3 DEF cmd_watch
  <2> QED BY <1>f, <2>1, StageFrame DEF Progress
<1>4. ASSUME NEW s \in Sessions, cmd_multi(s) PROVE Progress'
  <2>1. \A t \in Sessions : pc'[t] = pc[t] /\ todo'[t] = todo[t] /\ done'[t] = done[t] /\ locks'[t] = locks[t]
    BY <1>4 DEF cmd_multi
  <2> QED BY <1>f, <2>1, StageFrame DEF Progress
<1>5. ASSUME NEW s \in Sessions, validate_queueable(s) PROVE Progress'
  <2>1. \A t \in Sessions : pc'[t] = pc[t] /\ todo'[t] = todo[t] /\ done'[t] = done[t] /\ locks'[t] = locks[t]
    BY <1>5 DEF validate_queueable
  <2> QED BY <1>f, <2>1, StageFrame DEF Progress
<1>6. ASSUME NEW s \in Sessions, cmd_discard(s) PROVE Progress'
  <2>0. Discarded(s)
    BY <1>6, DiscardCases
  <2> QED BY <2>0, StageDiscarded
<1>7. ASSUME NEW s \in Sessions, cmd_unwatch(s) PROVE Progress'
  <2>1. \A t \in Sessions : pc'[t] = pc[t] /\ todo'[t] = todo[t] /\ done'[t] = done[t] /\ locks'[t] = locks[t]
    BY <1>7 DEF cmd_unwatch
  <2> QED BY <1>f, <2>1, StageFrame DEF Progress
<1>8. ASSUME NEW s \in Sessions, cmd_exec(s) PROVE Progress'
  <2>0. CASE Discarded(s)
    BY <2>0, StageDiscarded
  <2>3. CASE Checking(s)
    <3>1. \A t \in Sessions \ {s} : pc'[t] = pc[t] /\ todo'[t] = todo[t] /\ done'[t] = done[t] /\ locks'[t] = locks[t]
      BY <2>3 DEF Checking, TypeOK
    <3>2. pc[s] = "idle" /\ pc'[s] = "check" /\ todo'[s] = todo[s] /\ done'[s] = done[s]
          /\ locks'[s] = locks[s]
      BY <2>3 DEF Checking, TypeOK
    <3>3. Stage(s)'
      BY <1>f, <3>2 DEF Stage, txn_mode
    <3> QED BY <1>f, <3>1, <3>3, StageFrame DEF Progress
  <2> QED BY <1>8, <2>0, <2>3, ExecCases
<1>9. ASSUME NEW s \in Sessions, WriteKey(s) PROVE Progress'
  <2>1. \A t \in Sessions \ {s} : pc'[t] = pc[t] /\ todo'[t] = todo[t] /\ done'[t] = done[t] /\ locks'[t] = locks[t]
    BY <1>9 DEF WriteKey, Goto, TypeOK
  <2>2. Stage(s)'
    <3>0. Writes(s)
      BY <1>9, WriteCases
    <3>1. pc'[s] = "bump" /\ todo'[s] = todo[s] /\ done'[s] = done[s] /\ locks'[s] = locks[s]
      BY <1>9 DEF WriteKey, Goto, TypeOK
    <3>2. Current(s)' = Current(s)
      BY <3>1 DEF Current
    <3> QED BY <1>f, <3>0, <3>1, <3>2 DEF Stage, Writes, txn_mode
  <2> QED BY <1>f, <2>1, <2>2, StageFrame DEF Progress
<1>10. ASSUME NEW s \in Sessions, bump_watch(s) PROVE Progress'
  <2>1. \A t \in Sessions \ {s} : pc'[t] = pc[t] /\ todo'[t] = todo[t] /\ done'[t] = done[t] /\ locks'[t] = locks[t]
    BY <1>10 DEF bump_watch, Goto, TypeOK
  <2>2. Stage(s)'
    <3>0. Bumps(s)
      BY <1>10, BumpCases
    <3>1. todo'[s] = todo[s] /\ done'[s] = done[s] + 1 /\ locks'[s] = locks[s]
      BY <1>10, <3>0 DEF bump_watch, Bumps, TypeOK
    <3>2. \/ done[s] + 1 < Len(Current(s).keys) /\ pc'[s] = "run"
          \/ done[s] + 1 = Len(Current(s).keys) /\ pc'[s] = "log"
      BY <3>0 DEF Bumps, TypeOK
    <3>3. Current(s)' = Current(s)
      BY <3>1 DEF Current
    <3> QED BY <1>f, <3>0, <3>1, <3>2, <3>3 DEF Stage, Bumps, txn_mode
  <2> QED BY <1>f, <2>1, <2>2, StageFrame DEF Progress
<1>11. ASSUME NEW s \in Sessions, log_write(s) PROVE Progress'
  <2>1. \A t \in Sessions \ {s} : pc'[t] = pc[t] /\ todo'[t] = todo[t] /\ done'[t] = done[t] /\ locks'[t] = locks[t]
    BY <1>11 DEF log_write, Goto, TypeOK
  <2>2. Stage(s)'
    <3>0. Logs(s)
      BY <1>11, LogCases
    <3>1. todo'[s] = Tail(todo[s]) /\ done'[s] = 0 /\ locks'[s] = locks[s]
      BY <1>11, <3>0 DEF log_write, Logs, TypeOK
    <3>2. \/ txn_mode(s) /\ pc'[s] = "run"
          \/ ~txn_mode(s) /\ pc'[s] = "idle" /\ todo'[s] = <<>>
      BY <3>0, <3>1 DEF Logs, TypeOK
    <3>3. todo'[s] # <<>> => Len(Current(s)'.keys) \in Nat \ {0}
      <4> DEFINE q == Tail(todo[s])
      <4>1. q \in Seq(Commands)
        BY <3>0, CurrentType DEF Logs
      <4>2. q # <<>> => Head(q) \in Commands
        BY <4>1
      <4>3. q # <<>> => Len(Head(q).keys) \in Nat \ {0}
        BY <4>2, CommandLength
      <4> QED BY <3>1, <4>3 DEF Current
    <3> QED BY <3>1, <3>2, <3>3 DEF Stage, txn_mode
  <2> QED BY <1>f, <2>1, <2>2, StageFrame DEF Progress
<1>12. ASSUME NEW s \in Sessions, ReadKey(s) PROVE Progress'
  <2>1. \A t \in Sessions \ {s} : pc'[t] = pc[t] /\ todo'[t] = todo[t] /\ done'[t] = done[t] /\ locks'[t] = locks[t]
    <3>0. ReadsNext(s)
      BY <1>12, ReadCases
    <3> QED BY <1>12, <3>0 DEF ReadKey, ReadsNext, TypeOK
  <2>2. Stage(s)'
    <3>0. ReadsNext(s)
      BY <1>12, ReadCases
    <3>1. pc'[s] = "run" /\ pc[s] = "run" /\ locks'[s] = locks[s] /\ txn_mode(s)
      BY <1>12, <3>0 DEF ReadKey, ReadsNext
    <3>2. CASE done[s] + 1 < Len(Current(s).keys) /\ done' = [done EXCEPT ![s] = done[s] + 1]
               /\ todo' = todo
      <4>1. done'[s] = done[s] + 1 /\ Current(s)' = Current(s) /\ todo'[s] = todo[s]
        BY <3>2 DEF TypeOK, Current
      <4> QED BY <3>0, <3>1, <3>2, <4>1 DEF Stage, ReadsNext, txn_mode
    <3>3. CASE done' = [done EXCEPT ![s] = 0] /\ todo' = [todo EXCEPT ![s] = Tail(todo[s])]
      <4>1. done'[s] = 0 /\ todo'[s] = Tail(todo[s])
        BY <3>3 DEF TypeOK
      <4>2. todo'[s] # <<>> => Len(Current(s)'.keys) \in Nat \ {0}
        <5> DEFINE q == Tail(todo[s])
        <5>1. q \in Seq(Commands)
          BY <3>0, CurrentType DEF ReadsNext
        <5>2. q # <<>> => Head(q) \in Commands
          BY <5>1
        <5>3. q # <<>> => Len(Head(q).keys) \in Nat \ {0}
          BY <5>2, CommandLength
        <5> QED BY <4>1, <5>3 DEF Current
      <4> QED BY <3>1, <4>1, <4>2 DEF Stage, txn_mode
    <3> QED BY <3>0, <3>2, <3>3 DEF ReadsNext
  <2> QED BY <1>f, <2>1, <2>2, StageFrame DEF Progress
<1>13. ASSUME NEW s \in Sessions, watch_check(s) PROVE Progress'
  <2>0. CASE Discarded(s)
    BY <2>0, StageDiscarded
  <2>3. CASE Compared(s)
    <3>1. \A t \in Sessions : pc'[t] = pc[t] /\ todo'[t] = todo[t] /\ done'[t] = done[t] /\ locks'[t] = locks[t]
      BY <2>3 DEF Compared
    <3> QED BY <1>f, <3>1, StageFrame DEF Progress
  <2> QED BY <1>13, <2>0, <2>3, CheckCases
<1>14. ASSUME NEW s \in Sessions, take_queue(s) PROVE Progress'
  <2>1. \A t \in Sessions \ {s} : pc'[t] = pc[t] /\ todo'[t] = todo[t] /\ done'[t] = done[t] /\ locks'[t] = locks[t]
    BY <1>14 DEF take_queue, Goto, TypeOK
  <2>2. Stage(s)'
    <3>1. pc[s] = "check" /\ pc'[s] = "lock" /\ done'[s] = done[s] /\ locks'[s] = locks[s]
      BY <1>14 DEF take_queue, Goto, TypeOK
    <3> QED BY <1>f, <3>1 DEF Stage, txn_mode
  <2> QED BY <1>f, <2>1, <2>2, StageFrame DEF Progress
<1>15. ASSUME NEW s \in Sessions, txn_lock(s) PROVE Progress'
  <2>1. \A t \in Sessions \ {s} : pc'[t] = pc[t] /\ todo'[t] = todo[t] /\ done'[t] = done[t] /\ locks'[t] = locks[t]
    BY <1>15 DEF txn_lock, Goto, TypeOK
  <2>2. Stage(s)'
    <3>1. pc[s] = "lock" /\ pc'[s] = "start" /\ done'[s] = done[s]
      BY <1>15 DEF txn_lock, Goto, TypeOK
    <3>2. locks'[s] # None
      BY <1>15, LockedNotNone
    <3> QED BY <1>f, <3>1, <3>2 DEF Stage, txn_mode
  <2> QED BY <1>f, <2>1, <2>2, StageFrame DEF Progress
<1>16. ASSUME NEW s \in Sessions, TxnStart(s) PROVE Progress'
  <2>1. \A t \in Sessions \ {s} : pc'[t] = pc[t] /\ todo'[t] = todo[t] /\ done'[t] = done[t] /\ locks'[t] = locks[t]
    BY <1>16 DEF TxnStart, Goto, TypeOK
  <2>2. Stage(s)'
    <3>1. pc[s] = "start" /\ pc'[s] = "run" /\ done'[s] = done[s] /\ locks'[s] = locks[s]
          /\ todo'[s] = todo[s]
      BY <1>16 DEF TxnStart, Goto, TypeOK
    <3>2. done[s] = 0 /\ txn_mode(s)
      BY <1>f, <3>1 DEF Stage
    <3>3. todo[s] # <<>> => Len(Current(s).keys) \in Nat \ {0}
      BY CurrentType
    <3>4. Current(s)' = Current(s)
      BY <3>1 DEF Current
    <3> QED BY <3>1, <3>2, <3>3, <3>4 DEF Stage, txn_mode
  <2> QED BY <1>f, <2>1, <2>2, StageFrame DEF Progress
<1>17. ASSUME NEW s \in Sessions, txn_unlock(s) PROVE Progress'
  <2>1. \A t \in Sessions \ {s} : pc'[t] = pc[t] /\ todo'[t] = todo[t] /\ done'[t] = done[t] /\ locks'[t] = locks[t]
    BY <1>17 DEF txn_unlock, Goto, TypeOK
  <2>2. Stage(s)'
    <3>1. pc[s] = "run" /\ todo[s] = <<>> /\ pc'[s] = "commit" /\ done'[s] = done[s]
          /\ todo'[s] = todo[s] /\ locks'[s] = None
      BY <1>17 DEF txn_unlock, Goto, TypeOK
    <3> QED BY <1>f, <3>1 DEF Stage, txn_mode
  <2> QED BY <1>f, <2>1, <2>2, StageFrame DEF Progress
<1>18. ASSUME NEW s \in Sessions, TxnCommit(s) PROVE Progress'
  <2>1. \A t \in Sessions \ {s} : pc'[t] = pc[t] /\ todo'[t] = todo[t] /\ done'[t] = done[t] /\ locks'[t] = locks[t]
    BY <1>18 DEF TxnCommit, Goto, TypeOK
  <2>2. Stage(s)'
    <3>1. pc[s] = "commit" /\ pc'[s] = "idle" /\ done'[s] = done[s] /\ todo'[s] = todo[s]
          /\ locks'[s] = locks[s]
      BY <1>18 DEF TxnCommit, Goto, TypeOK
    <3> QED BY <1>f, <3>1 DEF Stage, txn_mode
  <2> QED BY <1>f, <2>1, <2>2, StageFrame DEF Progress
<1> QED BY <1>u, <1>1, <1>2, <1>3, <1>4, <1>5, <1>6, <1>7, <1>8, <1>9, <1>10, <1>11, <1>12, <1>13, <1>14, <1>15, <1>16, <1>17, <1>18
   DEF Next, Step

-----------------------------------------------------------------------------
(* Watches: how a step changes what the invariants about them speak of.    *)

(* Versions only grow.                                                     *)
LEMMA VersionGrows ==
  ASSUME TypeOK, Progress, [Next]_vars
  PROVE  \A x \in Slots : version[x] <= version'[x]
<1>t. version \in [Slots -> Nat]
  BY DEF TypeOK
<1>0. CASE UNCHANGED version
  BY <1>0, <1>t
<1>1. ASSUME NEW s \in Sessions, bump_watch(s) PROVE \A x \in Slots : version[x] <= version'[x]
  <2>1. Bumps(s)
    BY <1>1, BumpCases
  <2> QED BY <1>t, <2>1 DEF Bumps
<1> QED
  <2>1. \/ UNCHANGED version
        \/ (\E s \in Sessions : bump_watch(s))
    BY DEF Next, Step, vars, session, history, exec_command, dispatch_queued, cmd_watch,
           cmd_multi, validate_queueable, cmd_discard, cmd_unwatch, cmd_exec, WriteKey,
           log_write, ReadKey, watch_check, take_queue, txn_lock, TxnStart, txn_unlock,
           TxnCommit
  <2> QED BY <2>1, <1>0, <1>1

(* What becomes of the versions that a session remembers.                  *)
Dropped(a) ==
  /\ txn'[a].watches = <<>>
  /\ watched'[a] = {}
  /\ a \notin stale'
  /\ \A h \in hits' : h[1] # a

Added(a) ==
  /\ version' = version
  /\ \E x \in Slots : txn'[a].watches = Append(txn[a].watches, <<x, version[x]>>)

WatchFate(a) ==
  \/ txn'[a].watches = txn[a].watches
  \/ Dropped(a) \/ Added(a) \/ Compared(a)

LEMMA WatchEffect ==
  ASSUME TypeOK, NEW a \in Sessions, [Next]_vars
  PROVE  WatchFate(a)
<1>0. CASE UNCHANGED txn
  BY <1>0 DEF WatchFate
<1>1. ASSUME NEW s \in Sessions, NEW c \in Commands, dispatch_queued(s, c) PROVE WatchFate(a)
  <2>1. CASE a # s
    BY <1>1, <2>1, QueueTxn DEF TxnBecomes, WatchFate
  <2>2. CASE a = s
    BY <1>1, <2>2, QueueTxn DEF TxnBecomes, WatchFate
  <2> QED BY <2>1, <2>2
<1>2. ASSUME NEW s \in Sessions, NEW k \in Keys, cmd_watch(s, k) PROVE WatchFate(a)
  <2>1. CASE a # s
    BY <1>2, <2>1, WatchTxn DEF TxnBecomes, WatchFate
  <2>2. CASE a = s
    <3>1. SlotOf[k] \in Slots /\ version' = version
      BY <1>2, SlotsAssumption DEF cmd_watch, WatchFate
    <3>2. txn'[a].watches = Append(txn[a].watches, <<SlotOf[k], version[SlotOf[k]]>>)
      BY <1>2, <2>2, WatchTxn DEF TxnBecomes, WatchFate
    <3> QED BY <3>1, <3>2 DEF Added, WatchFate
  <2> QED BY <2>1, <2>2
<1>3. ASSUME NEW s \in Sessions, cmd_multi(s) PROVE WatchFate(a)
  <2>1. CASE a # s
    BY <1>3, <2>1, MultiTxn DEF TxnBecomes, WatchFate
  <2>2. CASE a = s
    BY <1>3, <2>2, MultiTxn DEF TxnBecomes, WatchFate
  <2> QED BY <2>1, <2>2
<1>4. ASSUME NEW s \in Sessions, validate_queueable(s) PROVE WatchFate(a)
  <2>1. CASE a # s
    BY <1>4, <2>1, DirtyTxn DEF TxnBecomes, WatchFate
  <2>2. CASE a = s
    BY <1>4, <2>2, DirtyTxn DEF TxnBecomes, WatchFate
  <2> QED BY <2>1, <2>2
<1>5. ASSUME NEW s \in Sessions, cmd_discard(s) PROVE WatchFate(a)
  <2>0. Discarded(s)
    BY <1>5, DiscardCases
  <2>1. CASE a # s
    BY <2>0, <2>1 DEF Discarded, TxnBecomes, WatchFate
  <2>2. CASE a = s
    <3>1. txn'[a].watches = <<>>
      BY <2>0, <2>2 DEF Discarded, TxnBecomes, WatchFate
    <3>2. watched'[a] = {} /\ a \notin stale' /\ \A h \in hits' : h[1] # a
      BY <2>0, <2>2 DEF Discarded, TypeOK, WatchFate
    <3> QED BY <3>1, <3>2 DEF Dropped, WatchFate
  <2> QED BY <2>1, <2>2
<1>6. ASSUME NEW s \in Sessions, cmd_unwatch(s) PROVE WatchFate(a)
  <2>1. CASE a # s
    BY <1>6, <2>1, UnwatchTxn DEF TxnBecomes, WatchFate
  <2>2. CASE a = s
    <3>1. txn'[a].watches = <<>>
      BY <1>6, <2>2, UnwatchTxn DEF TxnBecomes, WatchFate
    <3>2. watched'[a] = {} /\ a \notin stale' /\ \A h \in hits' : h[1] # a
      BY <1>6, <2>2 DEF cmd_unwatch, ForgetWatches, TypeOK, WatchFate
    <3> QED BY <3>1, <3>2 DEF Dropped, WatchFate
  <2> QED BY <2>1, <2>2
<1>7. ASSUME NEW s \in Sessions, cmd_exec(s) PROVE WatchFate(a)
  <2>0. CASE Discarded(s)
    <3>1. CASE a # s
      BY <2>0, <3>1 DEF Discarded, TxnBecomes, WatchFate
    <3>2. CASE a = s
      <4>1. txn'[a].watches = <<>>
        BY <2>0, <3>2 DEF Discarded, TxnBecomes, WatchFate
      <4>2. watched'[a] = {} /\ a \notin stale' /\ \A h \in hits' : h[1] # a
        BY <2>0, <3>2 DEF Discarded, TypeOK, WatchFate
      <4> QED BY <4>1, <4>2 DEF Dropped, WatchFate
    <3> QED BY <3>1, <3>2
  <2>1. CASE Checking(s)
    BY <2>1 DEF Checking, WatchFate
  <2> QED BY <1>7, <2>0, <2>1, ExecCases
<1>8. ASSUME NEW s \in Sessions, watch_check(s) PROVE WatchFate(a)
  <2>0. CASE Discarded(s)
    <3>1. CASE a # s
      BY <2>0, <3>1 DEF Discarded, TxnBecomes, WatchFate
    <3>2. CASE a = s
      <4>1. txn'[a].watches = <<>>
        BY <2>0, <3>2 DEF Discarded, TxnBecomes, WatchFate
      <4>2. watched'[a] = {} /\ a \notin stale' /\ \A h \in hits' : h[1] # a
        BY <2>0, <3>2 DEF Discarded, TypeOK, WatchFate
      <4> QED BY <4>1, <4>2 DEF Dropped, WatchFate
    <3> QED BY <3>1, <3>2
  <2>1. CASE Compared(s)
    <3>1. CASE a # s
      BY <2>1, <3>1 DEF Compared, TxnBecomes, WatchFate
    <3>2. CASE a = s
      BY <2>1, <3>2 DEF WatchFate
    <3> QED BY <3>1, <3>2
  <2> QED BY <1>8, <2>0, <2>1, CheckCases
<1>9. ASSUME NEW s \in Sessions, take_queue(s) PROVE WatchFate(a)
  <2>0. TxnBecomes(s, FALSE, FALSE, <<>>, <<>>) /\ txn[s].watches = <<>>
    BY <1>9, EmptyTxn DEF take_queue, WatchFate
  <2>1. CASE a # s
    BY <2>0, <2>1 DEF TxnBecomes, WatchFate
  <2>2. CASE a = s
    BY <2>0, <2>2 DEF TxnBecomes, WatchFate
  <2> QED BY <2>1, <2>2
<1> QED
  <2>1. \/ UNCHANGED txn
        \/ (\E s \in Sessions : \E c \in Commands : dispatch_queued(s, c))
        \/ (\E s \in Sessions : \E k \in Keys : cmd_watch(s, k))
        \/ (\E s \in Sessions : cmd_multi(s))
        \/ (\E s \in Sessions : validate_queueable(s))
        \/ (\E s \in Sessions : cmd_discard(s))
        \/ (\E s \in Sessions : cmd_unwatch(s))
        \/ (\E s \in Sessions : cmd_exec(s))
        \/ (\E s \in Sessions : watch_check(s))
        \/ (\E s \in Sessions : take_queue(s))
    BY DEF Next, Step, vars, session, history, exec_command, WriteKey, bump_watch, log_write,
           ReadKey, txn_lock, TxnStart, txn_unlock, TxnCommit
  <2> QED BY <2>1, <1>0, <1>1, <1>2, <1>3, <1>4, <1>5, <1>6, <1>7, <1>8, <1>9

(* A session outside the execution of a transaction stays there, unless it *)
(* remembers no version (any more).                                        *)
Outside(a) == pc[a] \notin {"lock", "start", "commit"} /\ ~txn_mode(a)

StaysOutside(a) ==
  /\ ~txn_mode(a)'
  /\ pc'[a] \notin {"lock", "start", "commit"} \/ txn[a].watches = <<>>
  /\ pc'[a] = "check" => pc[a] = "check" \/ watched'[a] = {}

LEMMA OutsideKept ==
  ASSUME TypeOK, Progress, NEW a \in Sessions, Outside(a), [Next]_vars
  PROVE  StaysOutside(a)
<1>0. CASE UNCHANGED <<pc, locks>>
  BY <1>0 DEF StaysOutside, Outside, txn_mode
<1>1. ASSUME NEW s \in Sessions, NEW c \in Commands, exec_command(s, c) PROVE StaysOutside(a)
  <2>1. CASE a # s
    BY <1>1, <2>1 DEF exec_command, Goto, TypeOK, StaysOutside, Outside, txn_mode
  <2>2. CASE a = s
    BY <1>1, <2>2 DEF exec_command, Goto, TypeOK, StaysOutside, Outside, txn_mode
  <2> QED BY <2>1, <2>2
<1>2. ASSUME NEW s \in Sessions, cmd_discard(s) PROVE StaysOutside(a)
  <2>0. Discarded(s)
    BY <1>2, DiscardCases
  <2> QED BY <2>0 DEF Discarded, TypeOK, StaysOutside, Outside, txn_mode
<1>3. ASSUME NEW s \in Sessions, cmd_exec(s) PROVE StaysOutside(a)
  <2>0. Discarded(s) \/ Checking(s)
    BY <1>3, ExecCases
  <2> QED BY <2>0 DEF Discarded, Checking, TypeOK, StaysOutside, Outside, txn_mode
<1>4. ASSUME NEW s \in Sessions, WriteKey(s) PROVE StaysOutside(a)
  <2>1. CASE a # s
    BY <1>4, <2>1 DEF WriteKey, Goto, TypeOK, StaysOutside, Outside, txn_mode
  <2>2. CASE a = s
    BY <1>4, <2>2 DEF WriteKey, Goto, TypeOK, StaysOutside, Outside, txn_mode
  <2> QED BY <2>1, <2>2
<1>5. ASSUME NEW s \in Sessions, bump_watch(s) PROVE StaysOutside(a)
  <2>0. Bumps(s) /\ locks' = locks
    BY <1>5, BumpCases DEF bump_watch
  <2> QED BY <2>0 DEF Bumps, TypeOK, StaysOutside, Outside, txn_mode
<1>6. ASSUME NEW s \in Sessions, log_write(s) PROVE StaysOutside(a)
  <2>0. Logs(s) /\ locks' = locks
    BY <1>6, LogCases DEF log_write
  <2> QED BY <2>0 DEF Logs, TypeOK, StaysOutside, Outside, txn_mode
<1>7. ASSUME NEW s \in Sessions, watch_check(s) PROVE StaysOutside(a)
  <2>0. Discarded(s) \/ Compared(s)
    BY <1>7, CheckCases
  <2> QED BY <2>0 DEF Discarded, Compared, TypeOK, StaysOutside, Outside, txn_mode
<1>8. ASSUME NEW s \in Sessions, take_queue(s) PROVE StaysOutside(a)
  <2>1. CASE a # s
    BY <1>8, <2>1 DEF take_queue, Goto, TypeOK, StaysOutside, Outside, txn_mode
  <2>2. CASE a = s
    BY <1>8, <2>2 DEF take_queue, Goto, TypeOK, StaysOutside, Outside, txn_mode
  <2> QED BY <2>1, <2>2
<1>9. ASSUME NEW s \in Sessions, txn_lock(s) PROVE StaysOutside(a)
  <2>1. CASE a # s
    BY <1>9, <2>1 DEF txn_lock, Goto, TypeOK, StaysOutside, Outside, txn_mode
  <2>2. CASE a = s
    BY <1>9, <2>2 DEF txn_lock, Goto, TypeOK, StaysOutside, Outside, txn_mode
  <2> QED BY <2>1, <2>2
<1>10. ASSUME NEW s \in Sessions, TxnStart(s) PROVE StaysOutside(a)
  <2>1. CASE a # s
    BY <1>10, <2>1 DEF TxnStart, Goto, TypeOK, StaysOutside, Outside, txn_mode
  <2>2. CASE a = s
    BY <1>10, <2>2 DEF TxnStart, Goto, TypeOK, StaysOutside, Outside, txn_mode
  <2> QED BY <2>1, <2>2
<1>11. ASSUME NEW s \in Sessions, txn_unlock(s) PROVE StaysOutside(a)
  <2>1. CASE a # s
    BY <1>11, <2>1 DEF txn_unlock, Goto, TypeOK, StaysOutside, Outside, txn_mode
  <2>2. CASE a = s
    BY <1>11, <2>2 DEF txn_unlock, Goto, TypeOK, StaysOutside, Outside, txn_mode
  <2> QED BY <2>1, <2>2
<1>12. ASSUME NEW s \in Sessions, TxnCommit(s) PROVE StaysOutside(a)
  <2>1. CASE a # s
    BY <1>12, <2>1 DEF TxnCommit, Goto, TypeOK, StaysOutside, Outside, txn_mode
  <2>2. CASE a = s
    BY <1>12, <2>2 DEF TxnCommit, Goto, TypeOK, StaysOutside, Outside, txn_mode
  <2> QED BY <2>1, <2>2
<1> QED
  <2>1. \/ UNCHANGED <<pc, locks>>
        \/ (\E s \in Sessions : \E c \in Commands : exec_command(s, c))
        \/ (\E s \in Sessions : cmd_discard(s))
        \/ (\E s \in Sessions : cmd_exec(s))
        \/ (\E s \in Sessions : WriteKey(s))
        \/ (\E s \in Sessions : bump_watch(s))
        \/ (\E s \in Sessions : log_write(s))
        \/ (\E s \in Sessions : watch_check(s))
        \/ (\E s \in Sessions : take_queue(s))
        \/ (\E s \in Sessions : txn_lock(s))
        \/ (\E s \in Sessions : TxnStart(s))
        \/ (\E s \in Sessions : txn_unlock(s))
        \/ (\E s \in Sessions : TxnCommit(s))
    BY DEF Next, Step, vars, session, history, dispatch_queued, cmd_watch, cmd_multi,
           validate_queueable, cmd_unwatch, ReadKey
  <2> QED BY <2>1, <1>0, <1>1, <1>2, <1>3, <1>4, <1>5, <1>6, <1>7, <1>8, <1>9, <1>10, <1>11, <1>12

(* Nothing but its bump moves a session that has written a key.            *)
LEMMA BumpFrame ==
  ASSUME TypeOK, Progress, NEW b \in Sessions, pc[b] = "bump", [Next]_vars
  PROVE  bump_watch(b) \/ (pc'[b] = "bump" /\ Key(b)' = Key(b))
<1>0. CASE UNCHANGED <<pc, todo, done>>
  BY <1>0 DEF Key, Current
<1>1. ASSUME NEW s \in Sessions, NEW c \in Commands, exec_command(s, c)
      PROVE  bump_watch(b) \/ (pc'[b] = "bump" /\ Key(b)' = Key(b))
  BY <1>1 DEF exec_command, Goto, Running, TypeOK, Key, Current
<1>2. ASSUME NEW s \in Sessions, cmd_discard(s)
      PROVE  bump_watch(b) \/ (pc'[b] = "bump" /\ Key(b)' = Key(b))
  <2>0. Discarded(s)
    BY <1>2, DiscardCases
  <2> QED BY <2>0 DEF Discarded, TypeOK, Key, Current
<1>3. ASSUME NEW s \in Sessions, cmd_exec(s)
      PROVE  bump_watch(b) \/ (pc'[b] = "bump" /\ Key(b)' = Key(b))
  <2>0. Discarded(s) \/ Checking(s)
    BY <1>3, ExecCases
  <2> QED BY <2>0 DEF Discarded, Checking, TypeOK, Key, Current
<1>4. ASSUME NEW s \in Sessions, WriteKey(s)
      PROVE  bump_watch(b) \/ (pc'[b] = "bump" /\ Key(b)' = Key(b))
  BY <1>4 DEF WriteKey, Goto, Running, TypeOK, Key, Current
<1>5. ASSUME NEW s \in Sessions, bump_watch(s)
      PROVE  bump_watch(b) \/ (pc'[b] = "bump" /\ Key(b)' = Key(b))
  <2>1. CASE b # s
    BY <1>5, <2>1 DEF bump_watch, Goto, TypeOK, Key, Current
  <2> QED BY <1>5, <2>1
<1>6. ASSUME NEW s \in Sessions, log_write(s)
      PROVE  bump_watch(b) \/ (pc'[b] = "bump" /\ Key(b)' = Key(b))
  BY <1>6 DEF log_write, Goto, Running, TypeOK, Key, Current
<1>7. ASSUME NEW s \in Sessions, ReadKey(s)
      PROVE  bump_watch(b) \/ (pc'[b] = "bump" /\ Key(b)' = Key(b))
  BY <1>7 DEF ReadKey, Goto, Running, TypeOK, Key, Current
<1>8. ASSUME NEW s \in Sessions, watch_check(s)
      PROVE  bump_watch(b) \/ (pc'[b] = "bump" /\ Key(b)' = Key(b))
  <2>0. Discarded(s) \/ Compared(s)
    BY <1>8, CheckCases
  <2> QED BY <2>0 DEF Discarded, Compared, TypeOK, Key, Current
<1>9. ASSUME NEW s \in Sessions, take_queue(s)
      PROVE  bump_watch(b) \/ (pc'[b] = "bump" /\ Key(b)' = Key(b))
  BY <1>9 DEF take_queue, Goto, Running, TypeOK, Key, Current
<1>10. ASSUME NEW s \in Sessions, txn_lock(s)
       PROVE  bump_watch(b) \/ (pc'[b] = "bump" /\ Key(b)' = Key(b))
  BY <1>10 DEF txn_lock, Goto, Running, TypeOK, Key, Current
<1>11. ASSUME NEW s \in Sessions, TxnStart(s)
       PROVE  bump_watch(b) \/ (pc'[b] = "bump" /\ Key(b)' = Key(b))
  BY <1>11 DEF TxnStart, Goto, Running, TypeOK, Key, Current
<1>12. ASSUME NEW s \in Sessions, txn_unlock(s)
       PROVE  bump_watch(b) \/ (pc'[b] = "bump" /\ Key(b)' = Key(b))
  BY <1>12 DEF txn_unlock, Goto, Running, TypeOK, Key, Current
<1>13. ASSUME NEW s \in Sessions, TxnCommit(s)
       PROVE  bump_watch(b) \/ (pc'[b] = "bump" /\ Key(b)' = Key(b))
  BY <1>13 DEF TxnCommit, Goto, Running, TypeOK, Key, Current
<1> QED
  <2>1. \/ UNCHANGED <<pc, todo, done>>
        \/ (\E s \in Sessions : \E c \in Commands : exec_command(s, c))
        \/ (\E s \in Sessions : cmd_discard(s))
        \/ (\E s \in Sessions : cmd_exec(s))
        \/ (\E s \in Sessions : WriteKey(s))
        \/ (\E s \in Sessions : bump_watch(s))
        \/ (\E s \in Sessions : log_write(s))
        \/ (\E s \in Sessions : ReadKey(s))
        \/ (\E s \in Sessions : watch_check(s))
        \/ (\E s \in Sessions : take_queue(s))
        \/ (\E s \in Sessions : txn_lock(s))
        \/ (\E s \in Sessions : TxnStart(s))
        \/ (\E s \in Sessions : txn_unlock(s))
        \/ (\E s \in Sessions : TxnCommit(s))
    BY DEF Next, Step, vars, session, history, dispatch_queued, cmd_watch, cmd_multi,
           validate_queueable, cmd_unwatch
  <2> QED BY <2>1, <1>0, <1>1, <1>2, <1>3, <1>4, <1>5, <1>6, <1>7, <1>8, <1>9, <1>10, <1>11, <1>12, <1>13

(* Only WATCH adds to what a session watches.                              *)
LEMMA WatchedEffect ==
  ASSUME TypeOK, NEW a \in Sessions, [Next]_vars
  PROVE  watched'[a] \subseteq watched[a] \/ \E x \in Keys : cmd_watch(a, x)
<1>0. CASE UNCHANGED watched
  BY <1>0
<1>1. ASSUME NEW s \in Sessions, NEW k \in Keys, cmd_watch(s, k)
      PROVE  watched'[a] \subseteq watched[a] \/ \E x \in Keys : cmd_watch(a, x)
  BY <1>1 DEF cmd_watch, TypeOK
<1>2. ASSUME NEW s \in Sessions, cmd_discard(s)
      PROVE  watched'[a] \subseteq watched[a] \/ \E x \in Keys : cmd_watch(a, x)
  <2>0. Discarded(s)
    BY <1>2, DiscardCases
  <2> QED BY <2>0 DEF Discarded, TypeOK
<1>3. ASSUME NEW s \in Sessions, cmd_unwatch(s)
      PROVE  watched'[a] \subseteq watched[a] \/ \E x \in Keys : cmd_watch(a, x)
  BY <1>3 DEF cmd_unwatch, ForgetWatches, TypeOK
<1>4. ASSUME NEW s \in Sessions, cmd_exec(s)
      PROVE  watched'[a] \subseteq watched[a] \/ \E x \in Keys : cmd_watch(a, x)
  <2>0. Discarded(s) \/ Checking(s)
    BY <1>4, ExecCases
  <2> QED BY <2>0 DEF Discarded, Checking, TypeOK
<1>5. ASSUME NEW s \in Sessions, watch_check(s)
      PROVE  watched'[a] \subseteq watched[a] \/ \E x \in Keys : cmd_watch(a, x)
  <2>0. Discarded(s) \/ Compared(s)
    BY <1>5, CheckCases
  <2> QED BY <2>0 DEF Discarded, Compared, TypeOK
<1> QED
  <2>1. \/ UNCHANGED watched
        \/ (\E s \in Sessions : \E k \in Keys : cmd_watch(s, k))
        \/ (\E s \in Sessions : cmd_discard(s))
        \/ (\E s \in Sessions : cmd_unwatch(s))
        \/ (\E s \in Sessions : cmd_exec(s))
        \/ (\E s \in Sessions : watch_check(s))
    BY DEF Next, Step, vars, session, history, exec_command, dispatch_queued, cmd_multi,
           validate_queueable, WriteKey, bump_watch, log_write, ReadKey, take_queue, txn_lock,
           TxnStart, txn_unlock, TxnCommit
  <2> QED BY <2>1, <1>0, <1>1, <1>2, <1>3, <1>4, <1>5

(* Where the hits come from.                                               *)
HitFate(h) ==
  \/ h \in hits /\ watched[h[1]] \subseteq watched'[h[1]]
  \/ /\ h[2] \in Sessions /\ WriteKey(h[2])
     /\ h = <<h[1], h[2]>> /\ h[1] \in Sessions
     /\ Key(h[2]) \in watched[h[1]] /\ watched' = watched

LEMMA HitsEffect ==
  ASSUME TypeOK, NEW h \in hits', [Next]_vars
  PROVE  HitFate(h)
<1>0. CASE UNCHANGED <<hits, watched>>
  BY <1>0 DEF HitFate
<1>1. ASSUME NEW s \in Sessions, NEW k \in Keys, cmd_watch(s, k) PROVE HitFate(h)
  BY <1>1 DEF cmd_watch, TypeOK, HitFate
<1>2. ASSUME NEW s \in Sessions, cmd_discard(s) PROVE HitFate(h)
  <2>0. Discarded(s)
    BY <1>2, DiscardCases
  <2> QED BY <2>0 DEF Discarded, TypeOK, HitFate
<1>3. ASSUME NEW s \in Sessions, cmd_unwatch(s) PROVE HitFate(h)
  BY <1>3 DEF cmd_unwatch, ForgetWatches, TypeOK, HitFate
<1>4. ASSUME NEW s \in Sessions, cmd_exec(s) PROVE HitFate(h)
  <2>1. CASE Discarded(s)
    BY <2>1 DEF Discarded, TypeOK, HitFate
  <2>2. CASE Checking(s)
    BY <2>2 DEF Checking, TypeOK, HitFate
  <2> QED BY <1>4, <2>1, <2>2, ExecCases
<1>5. ASSUME NEW s \in Sessions, WriteKey(s) PROVE HitFate(h)
  <2>1. hits' = hits \cup {<<t, s>> : t \in {t \in Sessions : Key(s) \in watched[t]}}
        /\ watched' = watched
    BY <1>5 DEF WriteKey
  <2> QED BY <1>5, <2>1 DEF HitFate
<1>6. ASSUME NEW s \in Sessions, watch_check(s) PROVE HitFate(h)
  <2>1. CASE Discarded(s)
    BY <2>1 DEF Discarded, TypeOK, HitFate
  <2>2. CASE Compared(s)
    BY <2>2 DEF Compared, HitFate
  <2> QED BY <1>6, <2>1, <2>2, CheckCases
<1> QED
  <2>1. \/ UNCHANGED <<hits, watched>>
        \/ (\E s \in Sessions : \E k \in Keys : cmd_watch(s, k))
        \/ (\E s \in Sessions : cmd_discard(s))
        \/ (\E s \in Sessions : cmd_unwatch(s))
        \/ (\E s \in Sessions : cmd_exec(s))
        \/ (\E s \in Sessions : WriteKey(s))
        \/ (\E s \in Sessions : watch_check(s))
    BY DEF Next, Step, vars, session, history, exec_command, dispatch_queued, cmd_multi,
           validate_queueable, bump_watch, log_write, ReadKey, take_queue, txn_lock, TxnStart,
           txn_unlock, TxnCommit
  <2> QED BY <2>1, <1>0, <1>1, <1>2, <1>3, <1>4, <1>5, <1>6

(* A session becomes stale when a write that hit it is answered.           *)
LEMMA StaleEffect ==
  ASSUME TypeOK, Progress, NEW a \in stale', [Next]_vars
  PROVE  a \in stale \/ \E b \in Sessions : <<a, b>> \in hits /\ pc[b] # "bump"
<1>0. CASE UNCHANGED stale
  BY <1>0
<1>1. ASSUME NEW s \in Sessions, cmd_discard(s)
      PROVE  a \in stale \/ \E b \in Sessions : <<a, b>> \in hits /\ pc[b] # "bump"
  <2>0. Discarded(s)
    BY <1>1, DiscardCases
  <2> QED BY <2>0 DEF Discarded
<1>2. ASSUME NEW s \in Sessions, cmd_unwatch(s)
      PROVE  a \in stale \/ \E b \in Sessions : <<a, b>> \in hits /\ pc[b] # "bump"
  BY <1>2 DEF cmd_unwatch
<1>3. ASSUME NEW s \in Sessions, cmd_exec(s)
      PROVE  a \in stale \/ \E b \in Sessions : <<a, b>> \in hits /\ pc[b] # "bump"
  <2>0. Discarded(s) \/ Checking(s)
    BY <1>3, ExecCases
  <2> QED BY <2>0 DEF Discarded, Checking
<1>4. ASSUME NEW s \in Sessions, log_write(s)
      PROVE  a \in stale \/ \E b \in Sessions : <<a, b>> \in hits /\ pc[b] # "bump"
  <2>0. Logs(s)
    BY <1>4, LogCases
  <2> QED BY <2>0 DEF Logs
<1>5. ASSUME NEW s \in Sessions, watch_check(s)
      PROVE  a \in stale \/ \E b \in Sessions : <<a, b>> \in hits /\ pc[b] # "bump"
  <2>0. Discarded(s) \/ Compared(s)
    BY <1>5, CheckCases
  <2> QED BY <2>0 DEF Discarded, Compared
<1>6. ASSUME NEW s \in Sessions, TxnCommit(s)
      PROVE  a \in stale \/ \E b \in Sessions : <<a, b>> \in hits /\ pc[b] # "bump"
  BY <1>6 DEF TxnCommit, Goto
<1> QED
  <2>1. \/ UNCHANGED stale
        \/ (\E s \in Sessions : cmd_discard(s))
        \/ (\E s \in Sessions : cmd_unwatch(s))
        \/ (\E s \in Sessions : cmd_exec(s))
        \/ (\E s \in Sessions : log_write(s))
        \/ (\E s \in Sessions : watch_check(s))
        \/ (\E s \in Sessions : TxnCommit(s))
    BY DEF Next, Step, vars, session, history, exec_command, dispatch_queued, cmd_watch,
           cmd_multi, validate_queueable, WriteKey, bump_watch, ReadKey, take_queue, txn_lock,
           TxnStart, txn_unlock
  <2> QED BY <2>1, <1>0, <1>1, <1>2, <1>3, <1>4, <1>5, <1>6

(* What a step leaves of the versions a session remembers.                 *)
LEMMA WatchesType ==
  ASSUME TypeOK, NEW a \in Sessions
  PROVE  /\ txn[a].watches \in Seq(Slots \X Nat)
         /\ Len(txn[a].watches) \in Nat
         /\ \A j \in 1 .. Len(txn[a].watches) :
              /\ txn[a].watches[j] \in Slots \X Nat
              /\ txn[a].watches[j][1] \in Slots /\ txn[a].watches[j][2] \in Nat
              /\ version[txn[a].watches[j][1]] \in Nat
<1>1. txn[a].watches \in Seq(Slots \X Nat) /\ version \in [Slots -> Nat]
  BY DEF TypeOK, Txns
<1> DEFINE w == txn[a].watches
<1>2. w \in Seq(Slots \X Nat)
  BY <1>1
<1> HIDE DEF w
<1>3. Len(w) \in Nat /\ \A j \in 1 .. Len(w) : w[j] \in Slots \X Nat
  BY <1>2
<1>4. \A j \in 1 .. Len(w) : w[j][1] \in Slots /\ w[j][2] \in Nat
  BY <1>3
<1> QED BY <1>1, <1>3, <1>4 DEF w

LEMMA MovedKept ==
  ASSUME TypeOK, Progress, TypeOK', NEW a \in Sessions, Moved(a), [Next]_vars
  PROVE  Moved(a)' \/ Dropped(a)
<1> DEFINE w == txn[a].watches
           v == txn'[a].watches
<1>1. PICK j \in 1 .. Len(w) : w[j][2] < version[w[j][1]]
  BY DEF Moved
<1>2. Len(w) \in Nat /\ w[j][1] \in Slots /\ w[j][2] \in Nat /\ w \in Seq(Slots \X Nat)
  BY WatchesType
<1>3. version[w[j][1]] <= version'[w[j][1]] /\ version[w[j][1]] \in Nat /\ version'[w[j][1]] \in Nat
  BY <1>2, VersionGrows DEF TypeOK
<1>4. w[j][2] < version'[w[j][1]]
  BY <1>1, <1>2, <1>3
<1>5. SUFFICES ASSUME NEW i \in 1 .. Len(v), v[i] = w[j] PROVE Moved(a)'
  <2>1. CASE v = w
    BY <1>5, <2>1
  <2>2. CASE Added(a)
    <3>1. PICK x \in Slots : v = Append(w, <<x, version[x]>>)
      BY <2>2 DEF Added
    <3>2. <<x, version[x]>> \in Slots \X Nat
      BY DEF TypeOK
    <3> HIDE DEF w, v
    <3>3. j \in 1 .. Len(v) /\ v[j] = w[j]
      BY <1>2, <3>1, <3>2
    <3> QED BY <1>5, <3>3
  <2>3. CASE Compared(a)
    <3>1. v = Tail(w) /\ w # <<>> /\ version[Head(w)[1]] = Head(w)[2]
      BY <2>3 DEF Compared, TxnBecomes
    <3> HIDE DEF w, v
    <3>2. Head(w) = w[1]
      BY <1>2, <3>1
    <3>3. j # 1
      BY <1>1, <1>2, <3>1, <3>2
    <3>4. j - 1 \in 1 .. Len(v) /\ v[j - 1] = w[j]
      BY <1>2, <3>1, <3>3
    <3> QED BY <1>5, <3>4
  <2> QED BY <2>1, <2>2, <2>3, WatchEffect DEF WatchFate
<1>6. v[i][2] < version'[v[i][1]]
  BY <1>4, <1>5
<1> QED BY <1>6 DEF Moved

LEMMA WatchesKept ==
  ASSUME TypeOK, Progress, Watching, NEW a \in Sessions, NEW x, Watches(a, x), watched'[a] # {},
         [Next]_vars
  PROVE  Watches(a, x)'
<1> DEFINE w == txn[a].watches
           v == txn'[a].watches
<1>1. PICK j \in 1 .. Len(w) : w[j][1] = x
  BY DEF Watches
<1>2. w \in Seq(Slots \X Nat) /\ Len(w) \in Nat
  BY WatchesType
<1>3. CASE v = w
  BY <1>1, <1>3 DEF Watches
<1>4. CASE Added(a)
  <2>1. PICK y \in Slots : v = Append(w, <<y, version[y]>>)
    BY <1>4 DEF Added
  <2>2. <<y, version[y]>> \in Slots \X Nat
    BY DEF TypeOK
  <2>3. j \in 1 .. Len(v) /\ v[j] = w[j]
    <3> HIDE DEF w, v
    <3> QED BY <1>2, <2>1, <2>2
  <2> QED BY <1>1, <2>3 DEF Watches
<1>5. CASE Compared(a)
  <2>1. pc[a] = "check" /\ watched'[a] = watched[a]
    BY <1>5 DEF Compared
  <2> QED BY <2>1 DEF Watching
<1> QED BY <1>3, <1>4, <1>5, WatchEffect DEF WatchFate, Dropped

-----------------------------------------------------------------------------
(* The invariants about watches.                                           *)

LEMMA WatchingStep ==
  ASSUME TypeOK, Progress, TypeOK', Watching, [Next]_vars
  PROVE  Watching'
<1> SUFFICES ASSUME NEW a \in Sessions
             PROVE  /\ watched'[a] # {} => pc'[a] \notin {"check", "lock", "start", "commit"} /\ ~txn_mode(a)'
                    /\ \A k \in watched'[a] : Watches(a, SlotOf[k])'
                    /\ \A j \in 1 .. Len(txn'[a].watches) :
                         txn'[a].watches[j][2] <= version'[txn'[a].watches[j][1]]
  BY DEF Watching
<1>1. ASSUME watched'[a] # {}
      PROVE  pc'[a] \notin {"check", "lock", "start", "commit"} /\ ~txn_mode(a)'
  <2>1. CASE \E k \in Keys : cmd_watch(a, k)
    <3>1. pc'[a] = "idle" /\ pc[a] = "idle" /\ locks' = locks
      BY <2>1 DEF cmd_watch
    <3>2. ~txn_mode(a)
      BY <3>1 DEF Progress, Stage
    <3> QED BY <3>1, <3>2 DEF txn_mode
  <2>2. CASE watched'[a] \subseteq watched[a]
    <3>1. watched[a] # {}
      BY <1>1, <2>2
    <3>2. PICK k \in watched[a] : Watches(a, SlotOf[k])
      BY <3>1 DEF Watching
    <3>3. txn[a].watches # <<>>
      BY <3>2, WatchesType DEF Watches
    <3>4. Outside(a) /\ pc[a] # "check"
      BY <3>1 DEF Watching, Outside
    <3>5. StaysOutside(a)
      BY <3>4, OutsideKept
    <3> QED BY <1>1, <3>3, <3>4, <3>5 DEF StaysOutside
  <2> QED BY <2>1, <2>2, WatchedEffect
<1>2. ASSUME NEW k \in watched'[a] PROVE Watches(a, SlotOf[k])'
  <2>1. CASE k \in watched[a]
    <3>1. Watches(a, SlotOf[k])
      BY <2>1 DEF Watching
    <3> DEFINE x == SlotOf[k]
    <3>2. Watches(a, x)'
      <4>1. Watches(a, x) /\ watched'[a] # {}
        BY <3>1
      <4> HIDE DEF x
      <4> QED BY <4>1, WatchesKept
    <3> QED BY <3>2
  <2>2. CASE k \notin watched[a]
    <3>1. PICK l \in Keys : cmd_watch(a, l)
      BY <2>2, WatchedEffect
    <3>2. k = l
      BY <2>2, <3>1 DEF cmd_watch, TypeOK
    <3> DEFINE w == txn[a].watches
               v == txn'[a].watches
    <3>3. v = Append(w, <<SlotOf[k], version[SlotOf[k]]>>)
      BY <3>1, <3>2, WatchTxn DEF TxnBecomes
    <3>4. w \in Seq(Slots \X Nat) /\ <<SlotOf[k], version[SlotOf[k]]>> \in Slots \X Nat
      BY <3>2, WatchesType, SlotsAssumption DEF TypeOK
    <3>5. Len(v) \in 1 .. Len(v) /\ v[Len(v)] = <<SlotOf[k], version[SlotOf[k]]>>
      <4> HIDE DEF w, v
      <4> QED BY <3>3, <3>4
    <3>6. v[Len(v)][1] = SlotOf[k]
      BY <3>5
    <3> QED BY <3>5, <3>6 DEF Watches
  <2> QED BY <2>1, <2>2
<1>3. ASSUME NEW j \in 1 .. Len(txn'[a].watches)
      PROVE  txn'[a].watches[j][2] <= version'[txn'[a].watches[j][1]]
  <2> DEFINE w == txn[a].watches
             v == txn'[a].watches
  <2>1. w \in Seq(Slots \X Nat) /\ Len(w) \in Nat
        /\ \A i \in 1 .. Len(w) : w[i] \in Slots \X Nat /\ w[i][1] \in Slots /\ w[i][2] \in Nat
    BY WatchesType
  <2>2. \A i \in 1 .. Len(w) : w[i][2] <= version[w[i][1]]
    BY DEF Watching
  <2>3. \A x \in Slots : version[x] \in Nat /\ version'[x] \in Nat /\ version[x] <= version'[x]
    BY VersionGrows DEF TypeOK
  <2>4. \A i \in 1 .. Len(w) : w[i][2] <= version'[w[i][1]]
    <3> TAKE i \in 1 .. Len(w)
    <3>1. w[i][1] \in Slots /\ w[i][2] \in Nat /\ w[i][2] <= version[w[i][1]]
      BY <2>1, <2>2
    <3> HIDE DEF w
    <3> QED BY <2>3, <3>1
  <2>5. SUFFICES v[j][2] <= version'[v[j][1]]
    OBVIOUS
  <2>6. CASE v = w
    BY <2>4, <2>6
  <2>7. CASE Added(a)
    <3>1. PICK x \in Slots : v = Append(w, <<x, version[x]>>) /\ version' = version
      BY <2>7 DEF Added
    <3>2. <<x, version[x]>> \in Slots \X Nat
      BY <2>3
    <3> HIDE DEF w
    <3>3. (j \in 1 .. Len(w) /\ v[j] = w[j]) \/ v[j] = <<x, version[x]>>
      BY <2>1, <3>1, <3>2
    <3>4. CASE v[j] = <<x, version[x]>>
      <4>1. v[j][1] = x /\ v[j][2] = version[x]
        BY <3>4
      <4> QED BY <2>3, <3>1, <4>1
    <3> QED BY <2>4, <3>3, <3>4
  <2>8. CASE Dropped(a)
    <3>1. v = <<>>
      BY <2>8 DEF Dropped
    <3> QED BY <3>1
  <2>9. CASE Compared(a)
    <3>1. v = Tail(w) /\ w # <<>>
      BY <2>9 DEF Compared, TxnBecomes
    <3> HIDE DEF w
    <3>2. j + 1 \in 1 .. Len(w) /\ v[j] = w[j + 1]
      BY <2>1, <3>1
    <3> QED BY <2>4, <3>2
  <2> QED BY <2>6, <2>7, <2>8, <2>9, WatchEffect DEF WatchFate
<1> QED BY <1>1, <1>2, <1>3

LEMMA HitsStep ==
  ASSUME TypeOK, Progress, TypeOK', Watching, HitsBump, [Next]_vars
  PROVE  HitsBump'
<1> SUFFICES ASSUME NEW h \in hits'
             PROVE  /\ watched'[h[1]] # {}
                    /\ \/ Moved(h[1])'
                       \/ pc'[h[2]] = "bump" /\ Watches(h[1], SlotOf[Key(h[2])])'
  BY DEF HitsBump
<1> DEFINE a == h[1]
           b == h[2]
<1>1. a \in Sessions /\ b \in Sessions
  BY DEF TypeOK
<1>2. CASE h \in hits /\ watched[a] \subseteq watched'[a]
  <2>1. watched[a] # {} /\ (Moved(a) \/ (pc[b] = "bump" /\ Watches(a, SlotOf[Key(b)])))
    BY <1>2 DEF HitsBump
  <2>2. watched'[a] # {}
    BY <1>2, <2>1
  <2> HIDE DEF a, b
  <2>3. CASE Moved(a)
    <3>1. Moved(a)'
      BY <1>1, <2>2, <2>3, MovedKept DEF Dropped
    <3> QED BY <2>2, <3>1 DEF a
  <2>4. CASE pc[b] = "bump" /\ Watches(a, SlotOf[Key(b)])
    <3> DEFINE x == SlotOf[Key(b)]
    <3>1. CASE bump_watch(b)
      <4>0. Bumps(b)
        BY <1>1, <3>1, BumpCases
      <4>1. PICK j \in 1 .. Len(txn[a].watches) : txn[a].watches[j][1] = x
        BY <2>4 DEF Watches
      <4>2. txn' = txn /\ version'[x] = version[x] + 1 /\ version[x] \in Nat
        BY <3>1, <4>0 DEF bump_watch, Bumps, TypeOK
      <4>3. txn[a].watches[j][2] <= version[x] /\ txn[a].watches[j][2] \in Nat
        BY <1>1, <4>1, WatchesType DEF Watching
      <4> HIDE DEF x
      <4>4. txn[a].watches[j][2] < version'[x]
        BY <4>2, <4>3
      <4>5. Moved(a)'
        BY <4>1, <4>2, <4>4 DEF Moved
      <4> QED BY <2>2, <4>5 DEF a
    <3>2. CASE pc'[b] = "bump" /\ Key(b)' = Key(b)
      <4>1. PICK y : y = SlotOf[Key(b)]
        OBVIOUS
      <4>2. Watches(a, y) /\ watched'[a] # {}
        BY <2>2, <2>4, <4>1
      <4>3. Watches(a, y)'
        BY <1>1, <4>2, WatchesKept
      <4>4. Watches(a, SlotOf[Key(b)])'
        BY <3>2, <4>1, <4>3 DEF Watches
      <4> QED BY <2>2, <3>2, <4>4 DEF a, b
    <3> QED BY <1>1, <2>4, <3>1, <3>2, BumpFrame
  <2> QED BY <2>1, <2>3, <2>4
<1>3. CASE WriteKey(b) /\ Key(b) \in watched[a] /\ watched' = watched
  <2>1. pc'[b] = "bump" /\ todo' = todo /\ done' = done /\ txn' = txn
    BY <1>1, <1>3 DEF WriteKey, Goto, TypeOK
  <2>2. Key(b)' = Key(b)
    BY <2>1 DEF Key, Current
  <2>3. Watches(a, SlotOf[Key(b)])
    BY <1>1, <1>3 DEF Watching
  <2>4. Watches(a, SlotOf[Key(b)])'
    BY <2>1, <2>2, <2>3 DEF Watches
  <2> QED BY <1>3, <2>1, <2>4
<1> QED BY <1>2, <1>3, HitsEffect DEF HitFate

LEMMA StaleStep ==
  ASSUME TypeOK, Progress, TypeOK', Watching, HitsBump, StaleAborts, [Next]_vars
  PROVE  StaleAborts'
<1> SUFFICES ASSUME NEW a \in stale'
             PROVE  Moved(a)' /\ pc'[a] \notin {"lock", "start", "commit"} /\ ~txn_mode(a)'
  BY DEF StaleAborts
<1>1. a \in Sessions
  BY DEF TypeOK
<1>2. Moved(a) /\ Outside(a)
  <2>1. CASE a \in stale
    BY <2>1 DEF StaleAborts, Outside
  <2>2. CASE \E b \in Sessions : <<a, b>> \in hits /\ pc[b] # "bump"
    <3>1. PICK b \in Sessions : <<a, b>> \in hits /\ pc[b] # "bump"
      BY <2>2
    <3>2. Moved(a) /\ watched[a] # {}
      BY <3>1 DEF HitsBump
    <3> QED BY <1>1, <3>2 DEF Watching, Outside
  <2> QED BY <2>1, <2>2, StaleEffect
<1>3. Moved(a)'
  BY <1>1, <1>2, MovedKept DEF Dropped
<1>4. txn[a].watches # <<>>
  BY <1>1, <1>2, WatchesType DEF Moved
<1>5. StaysOutside(a)
  BY <1>1, <1>2, OutsideKept
<1> QED BY <1>3, <1>4, <1>5 DEF StaysOutside

-----------------------------------------------------------------------------
(* The log.                                                                *)

LEMMA UnloggedFrame ==
  ASSUME NEW t \in Sessions, todo'[t] = todo[t], done'[t] = done[t],
         pc'[t] = "bump" <=> pc[t] = "bump"
  PROVE  Unlogged(t)' = Unlogged(t)
BY DEF Unlogged, Current

(* What becomes of the keys on their way to the log.                       *)
UnloggedFate(t) ==
  \/ Unlogged(t)' = Unlogged(t)
  \/ WriteKey(t) /\ Key(t) \in Keys /\ Unlogged(t)' = Unlogged(t) \cup {Key(t)}
  \/ log_write(t) /\ Unlogged(t) = Range(Current(t).keys) /\ Unlogged(t)' = {}

LEMMA UnloggedEffect ==
  ASSUME TypeOK, Progress, NEW t \in Sessions, [Next]_vars
  PROVE  UnloggedFate(t)
<1>0. CASE UNCHANGED <<pc, todo, done>>
  BY <1>0, UnloggedFrame DEF UnloggedFate
<1>1. ASSUME NEW s \in Sessions, NEW c \in Commands, exec_command(s, c) PROVE UnloggedFate(t)
  <2>1. CASE t # s
    <3>1. todo'[t] = todo[t] /\ done'[t] = done[t] /\ pc'[t] = pc[t]
      BY <1>1, <2>1 DEF exec_command, Goto, TypeOK
    <3> QED BY <3>1, UnloggedFrame DEF UnloggedFate
  <2>2. CASE t = s
    <3>1. pc[s] \in {"idle", "check"} /\ pc'[s] \in {"run", "lock"} /\ done'[s] = done[s]
      BY <1>1 DEF exec_command, Goto, TypeOK
    <3>2. done[s] = 0
      BY <3>1 DEF Progress, Stage
    <3>3. Unlogged(s) = {} /\ Unlogged(s)' = {}
      BY <3>1, <3>2 DEF Unlogged
    <3> QED BY <2>2, <3>3 DEF UnloggedFate
  <2> QED BY <2>1, <2>2
<1>2. ASSUME NEW s \in Sessions, cmd_discard(s) PROVE UnloggedFate(t)
  <2>0. Discarded(s)
    BY <1>2, DiscardCases
  <2>1. todo'[t] = todo[t] /\ done'[t] = done[t] /\ (pc'[t] = "bump" <=> pc[t] = "bump")
    BY <2>0 DEF Discarded, TypeOK
  <2> QED BY <2>1, UnloggedFrame DEF UnloggedFate
<1>3. ASSUME NEW s \in Sessions, cmd_exec(s) PROVE UnloggedFate(t)
  <2>0. Discarded(s) \/ Checking(s)
    BY <1>3, ExecCases
  <2>1. todo'[t] = todo[t] /\ done'[t] = done[t] /\ (pc'[t] = "bump" <=> pc[t] = "bump")
    BY <2>0 DEF Discarded, Checking, TypeOK
  <2> QED BY <2>1, UnloggedFrame DEF UnloggedFate
<1>4. ASSUME NEW s \in Sessions, WriteKey(s) PROVE UnloggedFate(t)
  <2>1. CASE t # s
    <3>1. todo'[t] = todo[t] /\ done'[t] = done[t] /\ pc'[t] = pc[t]
      BY <1>4, <2>1 DEF WriteKey, Goto, TypeOK
    <3> QED BY <3>1, UnloggedFrame DEF UnloggedFate
  <2>2. CASE t = s
    <3>0. Writes(s)
      BY <1>4, WriteCases
    <3>1. pc[s] = "run" /\ pc'[s] = "bump" /\ todo'[s] = todo[s] /\ done'[s] = done[s]
          /\ done[s] \in Nat
      BY <1>4, <3>0 DEF WriteKey, Goto, Writes, TypeOK
    <3>2. Current(s)' = Current(s) /\ todo[s] # <<>> /\ Current(s).op = "set"
      BY <3>0, <3>1 DEF Current, Writes
    <3>3. Unlogged(s) = {Current(s).keys[j] : j \in 1 .. done[s]}
          /\ Unlogged(s)' = {Current(s).keys[j] : j \in 1 .. done[s] + 1}
      BY <3>1, <3>2 DEF Unlogged
    <3>4. Key(s) = Current(s).keys[done[s] + 1] /\ Key(s) \in Keys
      BY <3>0 DEF Writes
    <3>5. Unlogged(s)' = Unlogged(s) \cup {Key(s)}
      <4>1. \A j : j \in 1 .. done[s] + 1 <=> (j \in 1 .. done[s] \/ j = done[s] + 1)
        BY <3>1
      <4> QED BY <3>3, <3>4, <4>1
    <3> QED BY <1>4, <2>2, <3>4, <3>5 DEF UnloggedFate
  <2> QED BY <2>1, <2>2
<1>5. ASSUME NEW s \in Sessions, bump_watch(s) PROVE UnloggedFate(t)
  <2>0. Bumps(s)
    BY <1>5, BumpCases
  <2>1. CASE t # s
    <3>1. todo'[t] = todo[t] /\ done'[t] = done[t] /\ pc'[t] = pc[t]
      BY <1>5, <2>0, <2>1 DEF bump_watch, Bumps, TypeOK
    <3> QED BY <3>1, UnloggedFrame DEF UnloggedFate
  <2>2. CASE t = s
    <3>1. pc[s] = "bump" /\ pc'[s] # "bump" /\ todo'[s] = todo[s] /\ done'[s] = done[s] + 1
      BY <1>5, <2>0 DEF bump_watch, Bumps, TypeOK
    <3>2. Current(s)' = Current(s)
      BY <3>1 DEF Current
    <3>3. Unlogged(s)' = Unlogged(s)
      BY <3>1, <3>2 DEF Unlogged
    <3> QED BY <2>2, <3>3 DEF UnloggedFate
  <2> QED BY <2>1, <2>2
<1>6. ASSUME NEW s \in Sessions, log_write(s) PROVE UnloggedFate(t)
  <2>0. Logs(s)
    BY <1>6, LogCases
  <2>1. CASE t # s
    <3>1. todo'[t] = todo[t] /\ done'[t] = done[t] /\ pc'[t] = pc[t]
      BY <1>6, <2>0, <2>1 DEF Logs, TypeOK
    <3> QED BY <3>1, UnloggedFrame DEF UnloggedFate
  <2>2. CASE t = s
    <3>1. pc[s] = "log" /\ pc'[s] \in {"run", "idle"} /\ done'[s] = 0
      BY <2>0 DEF Logs, TypeOK
    <3>2. Unlogged(s)' = {}
      BY <3>1 DEF Unlogged
    <3>3. Unlogged(s) = {Current(s).keys[j] : j \in 1 .. Len(Current(s).keys)}
      BY <2>0 DEF Logs, Unlogged
    <3>4. Current(s).keys \in Seq(Keys)
      BY <2>0, CurrentType DEF Logs
    <3>5. Unlogged(s) = Range(Current(s).keys)
      BY <3>3, <3>4 DEF Range
    <3> QED BY <1>6, <2>2, <3>2, <3>5 DEF UnloggedFate
  <2> QED BY <2>1, <2>2
<1>7. ASSUME NEW s \in Sessions, ReadKey(s) PROVE UnloggedFate(t)
  <2>0. ReadsNext(s)
    BY <1>7, ReadCases
  <2>1. CASE t # s
    <3>1. todo'[t] = todo[t] /\ done'[t] = done[t] /\ pc'[t] = pc[t]
      BY <1>7, <2>0, <2>1 DEF ReadKey, ReadsNext, TypeOK
    <3> QED BY <3>1, UnloggedFrame DEF UnloggedFate
  <2>2. CASE t = s
    <3>1. pc[s] = "run" /\ pc' = pc /\ Current(s).op = "get" /\ Unlogged(s) = {}
      BY <1>7, <2>0 DEF ReadKey, ReadsNext, Unlogged
    <3>2. CASE todo' = todo
      <4>1. Current(s)' = Current(s)
        BY <3>2 DEF Current
      <4>2. Unlogged(s)' = {}
        BY <3>1, <4>1 DEF Unlogged
      <4> QED BY <2>2, <3>1, <4>2 DEF UnloggedFate
    <3>3. CASE done' = [done EXCEPT ![s] = 0]
      <4>1. done'[s] = 0 /\ pc'[s] = "run"
        BY <3>1, <3>3 DEF TypeOK
      <4>2. Unlogged(s)' = {}
        BY <4>1 DEF Unlogged
      <4> QED BY <2>2, <3>1, <4>2 DEF UnloggedFate
    <3> QED BY <2>0, <3>2, <3>3 DEF ReadsNext
  <2> QED BY <2>1, <2>2
<1>8. ASSUME NEW s \in Sessions, watch_check(s) PROVE UnloggedFate(t)
  <2>0. Discarded(s) \/ Compared(s)
    BY <1>8, CheckCases
  <2>1. todo'[t] = todo[t] /\ done'[t] = done[t] /\ (pc'[t] = "bump" <=> pc[t] = "bump")
    BY <2>0 DEF Discarded, Compared, TypeOK
  <2> QED BY <2>1, UnloggedFrame DEF UnloggedFate
<1>9. ASSUME NEW s \in Sessions, take_queue(s) PROVE UnloggedFate(t)
  <2>1. CASE t # s
    <3>1. todo'[t] = todo[t] /\ done'[t] = done[t] /\ pc'[t] = pc[t]
      BY <1>9, <2>1 DEF take_queue, Goto, TypeOK
    <3> QED BY <3>1, UnloggedFrame DEF UnloggedFate
  <2>2. CASE t = s
    <3>1. pc[s] \in {"idle", "check"} /\ pc'[s] \in {"run", "lock"} /\ done'[s] = done[s]
      BY <1>9 DEF take_queue, Goto, TypeOK
    <3>2. done[s] = 0
      BY <3>1 DEF Progress, Stage
    <3>3. Unlogged(s) = {} /\ Unlogged(s)' = {}
      BY <3>1, <3>2 DEF Unlogged
    <3> QED BY <2>2, <3>3 DEF UnloggedFate
  <2> QED BY <2>1, <2>2
<1>10. ASSUME NEW s \in Sessions, txn_lock(s) PROVE UnloggedFate(t)
  <2>1. todo'[t] = todo[t] /\ done'[t] = done[t] /\ (pc'[t] = "bump" <=> pc[t] = "bump")
    BY <1>10 DEF txn_lock, Goto, TypeOK
  <2> QED BY <2>1, UnloggedFrame DEF UnloggedFate
<1>11. ASSUME NEW s \in Sessions, TxnStart(s) PROVE UnloggedFate(t)
  <2>1. todo'[t] = todo[t] /\ done'[t] = done[t] /\ (pc'[t] = "bump" <=> pc[t] = "bump")
    BY <1>11 DEF TxnStart, Goto, TypeOK
  <2> QED BY <2>1, UnloggedFrame DEF UnloggedFate
<1>12. ASSUME NEW s \in Sessions, txn_unlock(s) PROVE UnloggedFate(t)
  <2>1. todo'[t] = todo[t] /\ done'[t] = done[t] /\ (pc'[t] = "bump" <=> pc[t] = "bump")
    BY <1>12 DEF txn_unlock, Goto, TypeOK
  <2> QED BY <2>1, UnloggedFrame DEF UnloggedFate
<1>13. ASSUME NEW s \in Sessions, TxnCommit(s) PROVE UnloggedFate(t)
  <2>1. todo'[t] = todo[t] /\ done'[t] = done[t] /\ (pc'[t] = "bump" <=> pc[t] = "bump")
    BY <1>13 DEF TxnCommit, Goto, TypeOK
  <2> QED BY <2>1, UnloggedFrame DEF UnloggedFate
<1> QED
  <2>1. \/ UNCHANGED <<pc, todo, done>>
        \/ (\E s \in Sessions : \E c \in Commands : exec_command(s, c))
        \/ (\E s \in Sessions : cmd_discard(s))
        \/ (\E s \in Sessions : cmd_exec(s))
        \/ (\E s \in Sessions : WriteKey(s))
        \/ (\E s \in Sessions : bump_watch(s))
        \/ (\E s \in Sessions : log_write(s))
        \/ (\E s \in Sessions : ReadKey(s))
        \/ (\E s \in Sessions : watch_check(s))
        \/ (\E s \in Sessions : take_queue(s))
        \/ (\E s \in Sessions : txn_lock(s))
        \/ (\E s \in Sessions : TxnStart(s))
        \/ (\E s \in Sessions : txn_unlock(s))
        \/ (\E s \in Sessions : TxnCommit(s))
    BY DEF Next, Step, vars, session, history, dispatch_queued, cmd_watch, cmd_multi,
           validate_queueable, cmd_unwatch
  <2> QED BY <2>1, <1>0, <1>1, <1>2, <1>3, <1>4, <1>5, <1>6, <1>7, <1>8, <1>9, <1>10, <1>11, <1>12, <1>13

(* What a step does to the store and to the log.                           *)
LEMMA StoreFrame ==
  ASSUME [Next]_vars
  PROVE  UNCHANGED <<db, reordered>> \/ \E s \in Sessions : WriteKey(s)
BY DEF Next, Step, vars, session, history, exec_command, dispatch_queued, cmd_watch, cmd_multi,
       validate_queueable, cmd_discard, cmd_unwatch, cmd_exec, bump_watch, log_write, ReadKey,
       watch_check, take_queue, txn_lock, TxnStart, txn_unlock, TxnCommit

LEMMA LogFrame ==
  ASSUME [Next]_vars
  PROVE  aof' = aof \/ \E s \in Sessions : log_write(s) \/ TxnStart(s) \/ TxnCommit(s)
BY DEF Next, Step, vars, session, history, exec_command, dispatch_queued, cmd_watch, cmd_multi,
       validate_queueable, cmd_discard, cmd_unwatch, cmd_exec, bump_watch, WriteKey, ReadKey,
       watch_check, take_queue, txn_lock, txn_unlock

LEMMA InHandStep ==
  ASSUME TypeOK, Progress, InHand, [Next]_vars
  PROVE  InHand'
<1>1. CASE \E s \in Sessions : WriteKey(s)
  <2>1. PICK s \in Sessions : WriteKey(s)
    BY <1>1
  <2>2. Writes(s)
    BY <2>1, WriteCases
  <2>3. reordered' = IF \E u \in Sessions \ {s} : Key(s) \in Unlogged(u)
                     THEN reordered \cup {Key(s)} ELSE reordered \ {Key(s)}
    BY <2>1 DEF WriteKey
  <2>4. SUFFICES ASSUME NEW t \in Sessions, NEW k \in Unlogged(t)' \ reordered' PROVE db'[k] = t
    BY DEF InHand
  <2>5. /\ k # Key(s) => k \notin reordered
        /\ k = Key(s) => \A u \in Sessions \ {s} : Key(s) \notin Unlogged(u)
    BY <2>3, <2>4
  <2>6. db' = [db EXCEPT ![Key(s)] = s] /\ Key(s) \in Keys
    BY <2>2 DEF Writes
  <2>7. \A u \in Sessions : k # Key(s) /\ k \in Unlogged(u) => k \in Keys /\ db[k] = u
    BY <2>5, UnloggedCases DEF InHand
  <2>8. db \in [Keys -> Values]
    BY DEF TypeOK, Stores
  <2>9. CASE t = s
    <3>1. k \in Unlogged(s) \/ k = Key(s)
      <4>1. ~log_write(s)
        BY <2>1 DEF WriteKey, log_write, Goto
      <4> QED BY <2>9, <4>1, UnloggedEffect DEF UnloggedFate
    <3> QED BY <2>6, <2>7, <2>8, <2>9, <3>1
  <2>10. CASE t # s
    <3>1. k \in Unlogged(t)
      <4>1. todo'[t] = todo[t] /\ done'[t] = done[t] /\ pc'[t] = pc[t]
        BY <2>1, <2>10 DEF WriteKey, Goto, TypeOK
      <4> QED BY <4>1, UnloggedFrame
    <3>2. k # Key(s)
      BY <2>5, <2>10, <3>1
    <3> QED BY <2>6, <2>7, <2>8, <3>1, <3>2
  <2> QED BY <2>9, <2>10
<1>2. CASE UNCHANGED <<db, reordered>> /\ ~\E s \in Sessions : WriteKey(s)
  <2>1. \A t \in Sessions : Unlogged(t)' \subseteq Unlogged(t)
    BY <1>2, UnloggedEffect DEF UnloggedFate
  <2> QED BY <1>2, <2>1 DEF InHand
<1> QED BY <1>1, <1>2, StoreFrame

(* The log gives back the store.                                           *)
LEMMA ReplayStepHolds ==
  ASSUME TypeOK, Progress, InHand, ReplayReproducesStore, [Next]_vars
  PROVE  ReplayReproducesStore'
<1> SUFFICES ASSUME NEW k \in Keys \ reordered', \A t \in Sessions : k \notin Unlogged(t)'
             PROVE  replay_entries(aof')[k] = db'[k]
  BY DEF ReplayReproducesStore
<1>2. k \in reordered \/ ((\A t \in Sessions : k \notin Unlogged(t)) => replay_entries(aof)[k] = db[k])
  BY DEF ReplayReproducesStore
<1>3. CASE \E s \in Sessions : WriteKey(s)
  <2>1. PICK s \in Sessions : WriteKey(s)
    BY <1>3
  <2>2. Writes(s) /\ aof' = aof
    BY <2>1, WriteCases DEF WriteKey
  <2>3. k # Key(s) /\ k \notin Unlogged(s)
    <3>1. ~log_write(s)
      BY <2>1 DEF WriteKey, log_write, Goto
    <3>2. Unlogged(s)' = Unlogged(s) \cup {Key(s)}
      <4>1. pc[s] = "run" /\ pc'[s] = "bump" /\ todo'[s] = todo[s] /\ done'[s] = done[s]
            /\ done[s] \in Nat
        BY <2>1, <2>2 DEF WriteKey, Goto, Writes, TypeOK
      <4>2. Current(s)' = Current(s) /\ todo[s] # <<>> /\ Current(s).op = "set"
        BY <2>2, <4>1 DEF Current, Writes
      <4>3. Key(s) \in Unlogged(s)'
        BY <2>2, <4>1, <4>2 DEF Unlogged, Writes
      <4> QED BY <3>1, <4>3, UnloggedEffect DEF UnloggedFate
    <3> QED BY <3>2
  <2>4. \A t \in Sessions : k \notin Unlogged(t)
    <3> TAKE t \in Sessions
    <3>1. CASE t # s
      <4>1. todo'[t] = todo[t] /\ done'[t] = done[t] /\ pc'[t] = pc[t]
        BY <2>1, <3>1 DEF WriteKey, Goto, TypeOK
      <4> QED BY <4>1, UnloggedFrame
    <3> QED BY <2>3, <3>1
  <2>5. db'[k] = db[k]
    BY <2>2, <2>3 DEF Writes, TypeOK, Stores
  <2>6. k \notin reordered
    BY <2>1, <2>3 DEF WriteKey
  <2> QED BY <1>2, <2>6, <2>2, <2>4, <2>5
<1>4. CASE \E s \in Sessions : log_write(s)
  <2>1. PICK s \in Sessions : log_write(s)
    BY <1>4
  <2>2. Logs(s) /\ db' = db /\ k \notin reordered
    BY <2>1, LogCases DEF log_write
  <2> DEFINE e == [op |-> "Command", by |-> s, cmd |-> Current(s)]
  <2>3. aof' = Append(aof, e) /\ e \in Entries /\ aof \in Seq(Entries)
    BY <2>2 DEF Logs, Entries, TypeOK
  <2>4. replay_entries(aof') = ReplayStep(replay_entries(aof), e)
    <3> HIDE DEF e
    <3> QED BY <2>3, ReplayAppend
  <2>5. replay_entries(aof')[k] = IF k \in Range(Current(s).keys) THEN s ELSE replay_entries(aof)[k]
    BY <2>4 DEF ReplayStep, replay_one
  <2>6. Unlogged(s) = Range(Current(s).keys)
    <3>1. pc[s] = "log" /\ done[s] = Len(Current(s).keys) /\ todo[s] # <<>> /\ Current(s).op = "set"
      BY <2>2 DEF Logs
    <3>2. Current(s).keys \in Seq(Keys)
      BY <3>1, CurrentType
    <3> QED BY <3>1, <3>2 DEF Unlogged, Range
  <2>7. CASE k \in Unlogged(s)
    BY <2>2, <2>5, <2>6, <2>7 DEF InHand
  <2>8. CASE k \notin Unlogged(s)
    <3>1. \A t \in Sessions : k \notin Unlogged(t)
      <4> TAKE t \in Sessions
      <4>1. CASE t # s
        <5>1. todo'[t] = todo[t] /\ done'[t] = done[t] /\ pc'[t] = pc[t]
          BY <2>1, <4>1 DEF log_write, Goto, TypeOK
        <5> QED BY <5>1, UnloggedFrame
      <4> QED BY <2>8, <4>1
    <3> QED BY <1>2, <2>2, <2>5, <2>6, <2>8, <3>1
  <2> QED BY <2>7, <2>8
<1>5. CASE /\ ~\E s \in Sessions : WriteKey(s) \/ log_write(s)
           /\ aof' = aof \/ \E s \in Sessions : TxnStart(s) \/ TxnCommit(s)
  <2>1. db' = db /\ k \notin reordered
    BY <1>5, StoreFrame
  <2>2. \A t \in Sessions : k \notin Unlogged(t)
    BY <1>5, UnloggedEffect DEF UnloggedFate
  <2>3. replay_entries(aof') = replay_entries(aof)
    <3>1. CASE aof' = aof
      BY <3>1
    <3>2. CASE \E s \in Sessions : TxnStart(s) \/ TxnCommit(s)
      <4>1. PICK e \in Entries : aof' = Append(aof, e) /\ e.op # "Command"
        <5>1. PICK s \in Sessions : TxnStart(s) \/ TxnCommit(s)
          BY <3>2
        <5>2. PICK op \in {"TxnStart", "TxnCommit"} : aof' = Append(aof, [op |-> op, by |-> s, cmd |-> None])
          BY <5>1 DEF TxnStart, TxnCommit, enqueue
        <5>3. [op |-> op, by |-> s, cmd |-> None] \in Entries
          BY <5>2 DEF Entries
        <5> QED BY <5>2, <5>3
      <4>2. aof \in Seq(Entries)
        BY DEF TypeOK
      <4>3. replay_entries(aof') = ReplayStep(replay_entries(aof), e)
        BY <4>1, <4>2, ReplayAppend
      <4> QED BY <4>1, <4>3 DEF ReplayStep
    <3> QED BY <1>5, <3>1, <3>2
  <2> QED BY <1>2, <2>1, <2>2, <2>3
<1> QED BY <1>3, <1>4, <1>5, LogFrame

-----------------------------------------------------------------------------
(* Transactions: queues and latches.                                       *)

LEMMA QueuesStep ==
  ASSUME TypeOK, Progress, QueuesFit, [Next]_vars
  PROVE  QueuesFit'
<1>q. \A t \in Sessions : Len(txn[t].queued) <= MaxQueue /\ (pc[t] = "lock" => Len(todo[t]) <= MaxQueue)
  BY DEF QueuesFit
<1>e. Len(<<>>) = 0 /\ 0 <= MaxQueue
  BY MaxQueueAssumption
<1>0. CASE UNCHANGED <<txn, pc, todo>>
  BY <1>q, <1>0 DEF QueuesFit
<1>1. ASSUME NEW s \in Sessions, NEW c \in Commands, exec_command(s, c) PROVE QueuesFit'
  <2>1. txn' = txn /\ \A t \in Sessions : pc'[t] = "lock" => pc[t] = "lock" /\ todo'[t] = todo[t]
    BY <1>1 DEF exec_command, Goto, TypeOK
  <2> QED BY <1>q, <2>1 DEF QueuesFit
<1>2. ASSUME NEW s \in Sessions, NEW c \in Commands, dispatch_queued(s, c) PROVE QueuesFit'
  <2>1. Len(Append(txn[s].queued, c)) <= MaxQueue
    <3>1. txn[s].queued \in Seq(Commands) /\ Len(txn[s].queued) < MaxQueue
      BY <1>2 DEF dispatch_queued, TypeOK, Txns
    <3> QED BY <3>1, MaxQueueAssumption
  <2>2. \A t \in Sessions : txn'[t].queued = txn[t].queued \/ txn'[t].queued = Append(txn[s].queued, c)
    BY <1>2, QueueTxn DEF TxnBecomes
  <2>3. pc' = pc /\ todo' = todo
    BY <1>2 DEF dispatch_queued
  <2> QED BY <1>q, <2>1, <2>2, <2>3 DEF QueuesFit
<1>3. ASSUME NEW s \in Sessions, NEW k \in Keys, cmd_watch(s, k) PROVE QueuesFit'
  <2>1. \A t \in Sessions : txn'[t].queued = txn[t].queued
    BY <1>3, WatchTxn DEF TxnBecomes
  <2>2. pc' = pc /\ todo' = todo
    BY <1>3 DEF cmd_watch
  <2> QED BY <1>q, <1>e, <2>1, <2>2 DEF QueuesFit
<1>4. ASSUME NEW s \in Sessions, cmd_multi(s) PROVE QueuesFit'
  <2>1. \A t \in Sessions : txn'[t].queued = txn[t].queued \/ txn'[t].queued = <<>>
    BY <1>4, MultiTxn DEF TxnBecomes
  <2>2. pc' = pc /\ todo' = todo
    BY <1>4 DEF cmd_multi
  <2> QED BY <1>q, <1>e, <2>1, <2>2 DEF QueuesFit
<1>5. ASSUME NEW s \in Sessions, validate_queueable(s) PROVE QueuesFit'
  <2>1. \A t \in Sessions : txn'[t].queued = txn[t].queued
    BY <1>5, DirtyTxn DEF TxnBecomes
  <2>2. pc' = pc /\ todo' = todo
    BY <1>5 DEF validate_queueable
  <2> QED BY <1>q, <1>e, <2>1, <2>2 DEF QueuesFit
<1>6. ASSUME NEW s \in Sessions, cmd_discard(s) PROVE QueuesFit'
  <2>0. Discarded(s)
    BY <1>6, DiscardCases
  <2>1. \A t \in Sessions : txn'[t].queued = txn[t].queued \/ txn'[t].queued = <<>>
    BY <2>0 DEF Discarded, TxnBecomes
  <2>2. \A t \in Sessions : pc'[t] = "lock" => pc[t] = "lock" /\ todo'[t] = todo[t]
    BY <2>0 DEF Discarded, TypeOK
  <2> QED BY <1>q, <1>e, <2>1, <2>2 DEF QueuesFit
<1>7. ASSUME NEW s \in Sessions, cmd_unwatch(s) PROVE QueuesFit'
  <2>1. \A t \in Sessions : txn'[t].queued = txn[t].queued
    BY <1>7, UnwatchTxn DEF TxnBecomes
  <2>2. pc' = pc /\ todo' = todo
    BY <1>7 DEF cmd_unwatch
  <2> QED BY <1>q, <1>e, <2>1, <2>2 DEF QueuesFit
<1>8. ASSUME NEW s \in Sessions, cmd_exec(s) PROVE QueuesFit'
  <2>0. Discarded(s) \/ Checking(s)
    BY <1>8, ExecCases
  <2>1. \A t \in Sessions : txn'[t].queued = txn[t].queued \/ txn'[t].queued = <<>>
    BY <2>0 DEF Discarded, Checking, TxnBecomes
  <2>2. \A t \in Sessions : pc'[t] = "lock" => pc[t] = "lock" /\ todo'[t] = todo[t]
    BY <2>0 DEF Discarded, Checking, TypeOK
  <2> QED BY <1>q, <1>e, <2>1, <2>2 DEF QueuesFit
<1>9. ASSUME NEW s \in Sessions, WriteKey(s) PROVE QueuesFit'
  <2>1. txn' = txn /\ \A t \in Sessions : pc'[t] = "lock" => pc[t] = "lock" /\ todo'[t] = todo[t]
    BY <1>9 DEF WriteKey, Goto, TypeOK
  <2> QED BY <1>q, <2>1 DEF QueuesFit
<1>10. ASSUME NEW s \in Sessions, bump_watch(s) PROVE QueuesFit'
  <2>0. Bumps(s)
    BY <1>10, BumpCases
  <2>1. txn' = txn /\ \A t \in Sessions : pc'[t] = "lock" => pc[t] = "lock" /\ todo'[t] = todo[t]
    BY <1>10, <2>0 DEF bump_watch, Bumps, TypeOK
  <2> QED BY <1>q, <2>1 DEF QueuesFit
<1>11. ASSUME NEW s \in Sessions, log_write(s) PROVE QueuesFit'
  <2>0. Logs(s)
    BY <1>11, LogCases
  <2>1. txn' = txn /\ \A t \in Sessions : pc'[t] = "lock" => pc[t] = "lock" /\ todo'[t] = todo[t]
    BY <1>11, <2>0 DEF log_write, Logs, TypeOK
  <2> QED BY <1>q, <2>1 DEF QueuesFit
<1>12. ASSUME NEW s \in Sessions, ReadKey(s) PROVE QueuesFit'
  <2>0. ReadsNext(s)
    BY <1>12, ReadCases
  <2>1. txn' = txn /\ \A t \in Sessions : pc'[t] = "lock" => pc[t] = "lock" /\ todo'[t] = todo[t]
    BY <1>12, <2>0 DEF ReadKey, ReadsNext, TypeOK
  <2> QED BY <1>q, <2>1 DEF QueuesFit
<1>13. ASSUME NEW s \in Sessions, watch_check(s) PROVE QueuesFit'
  <2>0. Discarded(s) \/ Compared(s)
    BY <1>13, CheckCases
  <2>1. \A t \in Sessions : txn'[t].queued = txn[t].queued \/ txn'[t].queued = <<>>
    BY <2>0 DEF Discarded, Compared, TxnBecomes
  <2>2. \A t \in Sessions : pc'[t] = "lock" => pc[t] = "lock" /\ todo'[t] = todo[t]
    BY <2>0 DEF Discarded, Compared, TypeOK
  <2> QED BY <1>q, <1>e, <2>1, <2>2 DEF QueuesFit
<1>14. ASSUME NEW s \in Sessions, take_queue(s) PROVE QueuesFit'
  <2>1. TxnBecomes(s, FALSE, FALSE, <<>>, <<>>)
    BY <1>14, EmptyTxn DEF take_queue
  <2>2. \A t \in Sessions : txn'[t].queued = txn[t].queued \/ txn'[t].queued = <<>>
    BY <2>1 DEF TxnBecomes
  <2>3. todo'[s] = txn[s].queued /\ \A t \in Sessions \ {s} : pc'[t] = pc[t] /\ todo'[t] = todo[t]
    BY <1>14 DEF take_queue, Goto, TypeOK
  <2>4. Len(todo'[s]) <= MaxQueue
    BY <1>q, <2>3
  <2>5. \A t \in Sessions : pc'[t] = "lock" => Len(todo'[t]) <= MaxQueue
    BY <1>q, <2>3, <2>4
  <2> QED BY <1>q, <1>e, <2>2, <2>5 DEF QueuesFit
<1>15. ASSUME NEW s \in Sessions, txn_lock(s) PROVE QueuesFit'
  <2>1. txn' = txn /\ \A t \in Sessions : pc'[t] = "lock" => pc[t] = "lock" /\ todo'[t] = todo[t]
    BY <1>15 DEF txn_lock, Goto, TypeOK
  <2> QED BY <1>q, <2>1 DEF QueuesFit
<1>16. ASSUME NEW s \in Sessions, TxnStart(s) PROVE QueuesFit'
  <2>1. txn' = txn /\ \A t \in Sessions : pc'[t] = "lock" => pc[t] = "lock" /\ todo'[t] = todo[t]
    BY <1>16 DEF TxnStart, Goto, TypeOK
  <2> QED BY <1>q, <2>1 DEF QueuesFit
<1>17. ASSUME NEW s \in Sessions, txn_unlock(s) PROVE QueuesFit'
  <2>1. txn' = txn /\ \A t \in Sessions : pc'[t] = "lock" => pc[t] = "lock" /\ todo'[t] = todo[t]
    BY <1>17 DEF txn_unlock, Goto, TypeOK
  <2> QED BY <1>q, <2>1 DEF QueuesFit
<1>18. ASSUME NEW s \in Sessions, TxnCommit(s) PROVE QueuesFit'
  <2>1. txn' = txn /\ \A t \in Sessions : pc'[t] = "lock" => pc[t] = "lock" /\ todo'[t] = todo[t]
    BY <1>18 DEF TxnCommit, Goto, TypeOK
  <2> QED BY <1>q, <2>1 DEF QueuesFit
<1> QED
  <2>1. \/ UNCHANGED <<txn, pc, todo>>
        \/ (\E s \in Sessions : \E c \in Commands : exec_command(s, c))
        \/ (\E s \in Sessions : \E c \in Commands : dispatch_queued(s, c))
        \/ (\E s \in Sessions : \E k \in Keys : cmd_watch(s, k))
        \/ (\E s \in Sessions : cmd_multi(s))
        \/ (\E s \in Sessions : validate_queueable(s))
        \/ (\E s \in Sessions : cmd_discard(s))
        \/ (\E s \in Sessions : cmd_unwatch(s))
        \/ (\E s \in Sessions : cmd_exec(s))
        \/ (\E s \in Sessions : WriteKey(s))
        \/ (\E s \in Sessions : bump_watch(s))
        \/ (\E s \in Sessions : log_write(s))
        \/ (\E s \in Sessions : ReadKey(s))
        \/ (\E s \in Sessions : watch_check(s))
        \/ (\E s \in Sessions : take_queue(s))
        \/ (\E s \in Sessions : txn_lock(s))
        \/ (\E s \in Sessions : TxnStart(s))
        \/ (\E s \in Sessions : txn_unlock(s))
        \/ (\E s \in Sessions : TxnCommit(s))
    BY DEF Next, Step, vars, session, history
  <2> QED BY <2>1, <1>0, <1>1, <1>2, <1>3, <1>4, <1>5, <1>6, <1>7, <1>8, <1>9, <1>10, <1>11, <1>12, <1>13, <1>14, <1>15, <1>16, <1>17, <1>18

LEMMA ApartStep ==
  ASSUME TypeOK, Apart, [Next]_vars
  PROVE  Apart'
<1>0. CASE UNCHANGED locks
  BY <1>0 DEF Apart, txn_mode
<1>1. ASSUME NEW s \in Sessions, txn_lock(s) PROVE Apart'
  <2> DEFINE x == command_keys(todo[s], "set")
             r == command_keys(todo[s], "get") \ x
  <2>1. locks'[s] = [exclusive |-> x, shared |-> r]
        /\ \A t \in Sessions \ {s} : locks'[t] = locks[t]
    BY <1>1 DEF txn_lock, TypeOK
  <2>2. /\ \A k \in x : CanWrite(s, k)
        /\ \A k \in r : CanRead(s, k)
    BY <1>1 DEF txn_lock
  <2> HIDE DEF x, r
  <2>3. locks'[s].exclusive = x /\ locks'[s].shared = r
    BY <2>1
  <2>4. ASSUME NEW t \in Sessions \ {s}, txn_mode(t)
        PROVE  x \cap (locks[t].exclusive \cup locks[t].shared) = {}
               /\ locks[t].exclusive \cap (x \cup r) = {}
    BY <2>2, <2>4 DEF CanWrite, CanRead
  <2> QED BY <2>1, <2>3, <2>4 DEF Apart, txn_mode
<1>2. ASSUME NEW s \in Sessions, txn_unlock(s) PROVE Apart'
  <2>1. locks'[s] = None /\ \A t \in Sessions \ {s} : locks'[t] = locks[t]
    BY <1>2 DEF txn_unlock, TypeOK
  <2> QED BY <2>1 DEF Apart, txn_mode
<1> QED
  <2>1. \/ UNCHANGED locks
        \/ (\E s \in Sessions : txn_lock(s))
        \/ (\E s \in Sessions : txn_unlock(s))
    BY DEF Next, Step, vars, session, history, exec_command, dispatch_queued, cmd_watch,
           cmd_multi, validate_queueable, cmd_discard, cmd_unwatch, cmd_exec, WriteKey,
           bump_watch, log_write, ReadKey, watch_check, take_queue, TxnStart, TxnCommit
  <2> QED BY <2>1, <1>0, <1>1, <1>2

(* What a transaction holds and has executed.                              *)

LEMMA HoldingFrame ==
  ASSUME NEW t \in Sessions, txn_mode(t) => HoldingOf(t),
         locks'[t] = locks[t], before'[t] = before[t], todo'[t] = todo[t],
         pc'[t] = "start" => pc[t] = "start"
  PROVE  txn_mode(t)' => HoldingOf(t)'
BY DEF txn_mode, HoldingOf, Executed

(* One more command is executed.                                           *)
LEMMA HoldingNext ==
  ASSUME TypeOK, NEW t \in Sessions, HoldingOf(t), todo[t] # <<>>,
         locks'[t] = locks[t], before'[t] = before[t], todo'[t] = Tail(todo[t]), pc'[t] # "start"
  PROVE  HoldingOf(t)' /\ Executed(t)' = Executed(t) + 1
<1> DEFINE q == todo[t]
<1>1. q \in Seq(Commands) /\ q # <<>>
  BY DEF TypeOK
<1>2. Len(q) \in Nat /\ Len(Tail(q)) = Len(q) - 1
      /\ \A i \in 1 .. Len(Tail(q)) : i + 1 \in 1 .. Len(q) /\ Tail(q)[i] = q[i + 1]
  <2> HIDE DEF q
  <2> QED BY <1>1
<1>3. before[t] \in [db : Stores, queue : Seq(Commands)]
  BY DEF HoldingOf, TypeOK
<1>4. Len(before[t].queue) \in Nat
  BY <1>3
<1>5. Executed(t)' = Executed(t) + 1
  <2>1. PICK m, n, p : m = Len(before[t].queue) /\ n = Len(q) /\ p = Len(Tail(q))
    OBVIOUS
  <2>2. Executed(t) = m - n /\ Executed(t)' = m - p
    BY <2>1 DEF Executed
  <2>3. m \in Nat /\ n \in Nat /\ p = n - 1
    BY <1>2, <1>4, <2>1
  <2>4. m - p = (m - n) + 1
    BY <2>3
  <2> QED BY <2>2, <2>4
<1>6. \A i \in 1 .. Len(Tail(q)) : Tail(q)[i] = before[t].queue[Executed(t) + 1 + i]
  <2> TAKE i \in 1 .. Len(Tail(q))
  <2>1. Executed(t) \in Nat /\ i \in Nat /\ i + 1 \in 1 .. Len(q)
    BY <1>2 DEF HoldingOf
  <2>2. Tail(q)[i] = q[i + 1] /\ q[i + 1] = before[t].queue[Executed(t) + (i + 1)]
    BY <1>2, <2>1 DEF HoldingOf
  <2>3. Executed(t) + (i + 1) = Executed(t) + 1 + i
    BY <2>1
  <2> QED BY <2>2, <2>3
<1> QED BY <1>5, <1>6 DEF HoldingOf

LEMMA HoldingStep ==
  ASSUME TypeOK, Progress, QueuesFit, Holding, [Next]_vars
  PROVE  Holding'
<1>h. \A t \in Sessions : txn_mode(t) => HoldingOf(t)
  BY DEF Holding
<1>0. CASE UNCHANGED <<locks, before, todo, pc>>
  BY <1>h, <1>0, HoldingFrame DEF Holding
<1>1. ASSUME NEW s \in Sessions, NEW c \in Commands, exec_command(s, c) PROVE Holding'
  <2>1. \A t \in Sessions \ {s} : /\ locks'[t] = locks[t] /\ before'[t] = before[t] /\ todo'[t] = todo[t]
                                  /\ pc'[t] = "start" => pc[t] = "start"
    BY <1>1 DEF exec_command, Goto, TypeOK, history
  <2>2. ~txn_mode(s)'
    <3>1. pc[s] \in {"idle", "check"} /\ locks' = locks
      BY <1>1 DEF exec_command, Goto
    <3> QED BY <3>1 DEF Progress, Stage, txn_mode
  <2> QED BY <1>h, <2>1, <2>2, HoldingFrame DEF Holding
<1>2. ASSUME NEW s \in Sessions, cmd_discard(s) PROVE Holding'
  <2>0. Discarded(s)
    BY <1>2, DiscardCases
  <2>1. \A t \in Sessions : /\ locks'[t] = locks[t] /\ before'[t] = before[t] /\ todo'[t] = todo[t]
                            /\ pc'[t] = "start" => pc[t] = "start"
    BY <2>0 DEF Discarded, TypeOK
  <2> QED BY <1>h, <2>1, HoldingFrame DEF Holding
<1>3. ASSUME NEW s \in Sessions, cmd_exec(s) PROVE Holding'
  <2>0. Discarded(s) \/ Checking(s)
    BY <1>3, ExecCases
  <2>1. \A t \in Sessions : /\ locks'[t] = locks[t] /\ before'[t] = before[t] /\ todo'[t] = todo[t]
                            /\ pc'[t] = "start" => pc[t] = "start"
    BY <2>0 DEF Discarded, Checking, TypeOK
  <2> QED BY <1>h, <2>1, HoldingFrame DEF Holding
<1>4. ASSUME NEW s \in Sessions, WriteKey(s) PROVE Holding'
  <2>1. \A t \in Sessions : /\ locks'[t] = locks[t] /\ before'[t] = before[t] /\ todo'[t] = todo[t]
                            /\ pc'[t] = "start" => pc[t] = "start"
    BY <1>4 DEF WriteKey, Goto, TypeOK
  <2> QED BY <1>h, <2>1, HoldingFrame DEF Holding
<1>5. ASSUME NEW s \in Sessions, bump_watch(s) PROVE Holding'
  <2>0. Bumps(s)
    BY <1>5, BumpCases
  <2>1. \A t \in Sessions : /\ locks'[t] = locks[t] /\ before'[t] = before[t] /\ todo'[t] = todo[t]
                            /\ pc'[t] = "start" => pc[t] = "start"
    BY <1>5, <2>0 DEF bump_watch, Bumps, TypeOK, history
  <2> QED BY <1>h, <2>1, HoldingFrame DEF Holding
<1>6. ASSUME NEW s \in Sessions, log_write(s) PROVE Holding'
  <2>0. Logs(s)
    BY <1>6, LogCases
  <2>1. \A t \in Sessions \ {s} : /\ locks'[t] = locks[t] /\ before'[t] = before[t] /\ todo'[t] = todo[t]
                                  /\ pc'[t] = "start" => pc[t] = "start"
    BY <1>6, <2>0 DEF log_write, Logs, TypeOK
  <2>2. locks'[s] = locks[s] /\ before'[s] = before[s] /\ todo'[s] = Tail(todo[s])
        /\ pc'[s] # "start" /\ todo[s] # <<>>
    BY <1>6, <2>0 DEF log_write, Logs, TypeOK
  <2>3. txn_mode(s)' => HoldingOf(s)'
    BY <1>h, <2>2, HoldingNext DEF txn_mode
  <2> QED BY <1>h, <2>1, <2>3, HoldingFrame DEF Holding
<1>7. ASSUME NEW s \in Sessions, ReadKey(s) PROVE Holding'
  <2>0. ReadsNext(s)
    BY <1>7, ReadCases
  <2>1. \A t \in Sessions \ {s} : /\ locks'[t] = locks[t] /\ before'[t] = before[t] /\ todo'[t] = todo[t]
                                  /\ pc'[t] = "start" => pc[t] = "start"
    BY <1>7, <2>0 DEF ReadKey, ReadsNext, TypeOK, history
  <2>2. locks'[s] = locks[s] /\ before'[s] = before[s] /\ pc'[s] # "start" /\ todo[s] # <<>>
    BY <1>7, <2>0 DEF ReadKey, ReadsNext, history
  <2>3. todo'[s] = todo[s] \/ todo'[s] = Tail(todo[s])
    BY <2>0 DEF ReadsNext, TypeOK
  <2>4. CASE todo'[s] = todo[s]
    BY <1>h, <2>1, <2>2, <2>4, HoldingFrame DEF Holding
  <2>5. CASE todo'[s] = Tail(todo[s])
    <3>1. txn_mode(s)' => HoldingOf(s)'
      BY <1>h, <2>2, <2>5, HoldingNext DEF txn_mode
    <3> QED BY <1>h, <2>1, <3>1, HoldingFrame DEF Holding
  <2> QED BY <2>3, <2>4, <2>5
<1>8. ASSUME NEW s \in Sessions, watch_check(s) PROVE Holding'
  <2>0. Discarded(s) \/ Compared(s)
    BY <1>8, CheckCases
  <2>1. \A t \in Sessions : /\ locks'[t] = locks[t] /\ before'[t] = before[t] /\ todo'[t] = todo[t]
                            /\ pc'[t] = "start" => pc[t] = "start"
    BY <2>0 DEF Discarded, Compared, TypeOK
  <2> QED BY <1>h, <2>1, HoldingFrame DEF Holding
<1>9. ASSUME NEW s \in Sessions, take_queue(s) PROVE Holding'
  <2>1. \A t \in Sessions \ {s} : /\ locks'[t] = locks[t] /\ before'[t] = before[t] /\ todo'[t] = todo[t]
                                  /\ pc'[t] = "start" => pc[t] = "start"
    BY <1>9 DEF take_queue, Goto, TypeOK, history
  <2>2. ~txn_mode(s)'
    <3>1. pc[s] \in {"idle", "check"} /\ locks' = locks
      BY <1>9 DEF take_queue, Goto
    <3> QED BY <3>1 DEF Progress, Stage, txn_mode
  <2> QED BY <1>h, <2>1, <2>2, HoldingFrame DEF Holding
<1>10. ASSUME NEW s \in Sessions, txn_lock(s) PROVE Holding'
  <2>1. \A t \in Sessions \ {s} : /\ locks'[t] = locks[t] /\ before'[t] = before[t] /\ todo'[t] = todo[t]
                                  /\ pc'[t] = "start" => pc[t] = "start"
    BY <1>10 DEF txn_lock, Goto, TypeOK
  <2> DEFINE x == command_keys(todo[s], "set")
             r == command_keys(todo[s], "get")
  <2>2. /\ locks'[s] = [exclusive |-> x, shared |-> r \ x]
        /\ before'[s] = [db |-> db, queue |-> todo[s]]
        /\ todo'[s] = todo[s] /\ pc[s] = "lock"
    BY <1>10 DEF txn_lock, Goto, TypeOK
  <2>3. before'[s].queue = todo[s] /\ locks'[s].exclusive = x /\ locks'[s].shared = r \ x
    BY <2>2
  <2>4. todo[s] \in Seq(Commands) /\ Len(todo[s]) <= MaxQueue /\ Len(todo[s]) \in Nat
    BY <2>2 DEF TypeOK, QueuesFit
  <2>5. Executed(s)' = 0
    BY <2>2, <2>3, <2>4 DEF Executed
  <2>6. before'[s] \in [db : Stores, queue : Seq(Commands)]
    BY <2>2, <2>4 DEF TypeOK
  <2>7. HoldingOf(s)'
    BY <2>2, <2>3, <2>4, <2>5, <2>6 DEF HoldingOf
  <2> QED BY <1>h, <2>1, <2>7, HoldingFrame DEF Holding
<1>11. ASSUME NEW s \in Sessions, TxnStart(s) PROVE Holding'
  <2>1. \A t \in Sessions : /\ locks'[t] = locks[t] /\ before'[t] = before[t] /\ todo'[t] = todo[t]
                            /\ pc'[t] = "start" => pc[t] = "start"
    BY <1>11 DEF TxnStart, Goto, TypeOK, history
  <2> QED BY <1>h, <2>1, HoldingFrame DEF Holding
<1>12. ASSUME NEW s \in Sessions, txn_unlock(s) PROVE Holding'
  <2>1. \A t \in Sessions \ {s} : /\ locks'[t] = locks[t] /\ before'[t] = before[t] /\ todo'[t] = todo[t]
                                  /\ pc'[t] = "start" => pc[t] = "start"
    BY <1>12 DEF txn_unlock, Goto, TypeOK
  <2>2. ~txn_mode(s)'
    BY <1>12 DEF txn_unlock, TypeOK, txn_mode
  <2> QED BY <1>h, <2>1, <2>2, HoldingFrame DEF Holding
<1>13. ASSUME NEW s \in Sessions, TxnCommit(s) PROVE Holding'
  <2>1. \A t \in Sessions : /\ locks'[t] = locks[t] /\ before'[t] = before[t] /\ todo'[t] = todo[t]
                            /\ pc'[t] = "start" => pc[t] = "start"
    BY <1>13 DEF TxnCommit, Goto, TypeOK
  <2> QED BY <1>h, <2>1, HoldingFrame DEF Holding
<1> QED
  <2>1. \/ UNCHANGED <<locks, before, todo, pc>>
        \/ (\E s \in Sessions : \E c \in Commands : exec_command(s, c))
        \/ (\E s \in Sessions : cmd_discard(s))
        \/ (\E s \in Sessions : cmd_exec(s))
        \/ (\E s \in Sessions : WriteKey(s))
        \/ (\E s \in Sessions : bump_watch(s))
        \/ (\E s \in Sessions : log_write(s))
        \/ (\E s \in Sessions : ReadKey(s))
        \/ (\E s \in Sessions : watch_check(s))
        \/ (\E s \in Sessions : take_queue(s))
        \/ (\E s \in Sessions : txn_lock(s))
        \/ (\E s \in Sessions : TxnStart(s))
        \/ (\E s \in Sessions : txn_unlock(s))
        \/ (\E s \in Sessions : TxnCommit(s))
    BY DEF Next, Step, vars, session, history, dispatch_queued, cmd_watch, cmd_multi,
           validate_queueable, cmd_unwatch
  <2> QED BY <2>1, <1>0, <1>1, <1>2, <1>3, <1>4, <1>5, <1>6, <1>7, <1>8, <1>9, <1>10, <1>11, <1>12, <1>13

-----------------------------------------------------------------------------
(* Transactions: what is read and written.                                 *)

LEMMA ConcatEmpty ==
  ASSUME NEW r \in Seq(Values), NEW x, NEW c
  PROVE  r \o Partial(x, c, 0) = r
<1>1. Partial(x, c, 0) = <<>>
  BY DEF Partial
<1> QED BY <1>1

LEMMA ConcatAppend ==
  ASSUME NEW r \in Seq(Values), NEW x, NEW c, NEW n \in Nat,
         \A j \in 1 .. n + 1 : x.db[c.keys[j]] \in Values
  PROVE  r \o Partial(x, c, n + 1) = Append(r \o Partial(x, c, n), x.db[c.keys[n + 1]])
<1> DEFINE p == Partial(x, c, n)
           y == x.db[c.keys[n + 1]]
           q == Partial(x, c, n + 1)
<1>1. p \in Seq(Values) /\ Len(p) = n /\ \A j \in 1 .. n : p[j] = x.db[c.keys[j]]
  BY DEF Partial
<1>2. q \in Seq(Values) /\ Len(q) = n + 1 /\ \A j \in 1 .. n + 1 : q[j] = x.db[c.keys[j]]
  BY DEF Partial
<1>3. y \in Values
  OBVIOUS
<1>4. q[n + 1] = y /\ \A j \in 1 .. n : q[j] = p[j]
  BY <1>1, <1>2
<1> HIDE DEF p, q, y
<1>5. q = Append(p, y)
  BY <1>1, <1>2, <1>3, <1>4
<1>6. r \o Append(p, y) = Append(r \o p, y)
  BY <1>1, <1>3
<1> QED BY <1>5, <1>6 DEF p, q, y

(* The state of a transaction, and the state after its next command.       *)
LEMMA StateType ==
  ASSUME TypeOK, NEW s \in Sessions, HoldingOf(s)
  PROVE  /\ State(s).db \in Stores /\ State(s).replies \in Seq(Values)
         /\ before[s].queue \in Seq(Commands) /\ before[s].db \in Stores
         /\ Executed(s) \in 0 .. Len(before[s].queue)
         /\ Executed(s) + Len(todo[s]) = Len(before[s].queue)
<1>1. before[s].queue \in Seq(Commands) /\ before[s].db \in Stores
  BY DEF HoldingOf
<1>2. PICK m, n : m = Len(before[s].queue) /\ n = Len(todo[s])
  OBVIOUS
<1>3. m \in Nat /\ n \in Nat /\ Executed(s) = m - n /\ Executed(s) \in Nat
  BY <1>1, <1>2 DEF TypeOK, HoldingOf, Executed
<1>4. Executed(s) \in 0 .. m /\ Executed(s) + n = m
  BY <1>3
<1> QED BY <1>1, <1>2, <1>4, TraceType DEF State

LEMMA StateNext ==
  ASSUME TypeOK, NEW s \in Sessions, HoldingOf(s), todo[s] # <<>>,
         before'[s] = before[s], Executed(s)' = Executed(s) + 1
  PROVE  State(s)' = TraceStep(State(s), s, Current(s))
<1> DEFINE q == before[s].queue
           d == before[s].db
           n == Executed(s)
<1>1. q \in Seq(Commands) /\ n \in Nat /\ n + Len(todo[s]) = Len(q)
  BY StateType DEF HoldingOf
<1>2. Len(todo[s]) \in Nat \ {0} /\ Current(s) = todo[s][1]
  BY CurrentType
<1>3. Current(s) = q[n + 1]
  BY <1>2 DEF HoldingOf
<1>4. n + 1 \in 1 .. Len(q) /\ (n + 1) - 1 = n
  BY <1>1, <1>2
<1>5. Trace(q, s, d)[n + 1] = TraceStep(Trace(q, s, d)[n], s, q[n + 1])
  <2> HIDE DEF q, d, n
  <2>1. \A i \in 1 .. Len(q) : Trace(q, s, d)[i] = TraceStep(Trace(q, s, d)[i - 1], s, q[i])
    BY <1>1, TraceDef
  <2> QED BY <1>4, <2>1
<1>6. State(s)' = Trace(q, s, d)[n + 1]
  BY DEF State
<1>7. State(s) = Trace(q, s, d)[n]
  BY DEF State
<1> QED BY <1>3, <1>5, <1>6, <1>7

(* The keys of the current command are latched.                            *)
LEMMA CurrentLatched ==
  ASSUME TypeOK, NEW s \in Sessions, HoldingOf(s), todo[s] # <<>>
  PROVE  /\ \A j \in 1 .. Len(Current(s).keys) : Current(s).keys[j] \in Latched(s)
         /\ Current(s).op = "set" =>
              \A j \in 1 .. Len(Current(s).keys) : Current(s).keys[j] \in locks[s].exclusive
<1> DEFINE q == before[s].queue
           i == Executed(s) + 1
<1>1. q \in Seq(Commands) /\ i \in 1 .. Len(q)
  BY StateType, CurrentType
<1>2. Current(s) = q[i]
  BY CurrentType DEF HoldingOf
<1> HIDE DEF q, i
<1>3. /\ Range(q[i].keys) \subseteq command_keys(q, q[i].op)
      /\ \A j \in 1 .. Len(q[i].keys) : q[i].keys[j] \in Range(q[i].keys)
  BY <1>1, CommandKeys
<1>4. \A j \in 1 .. Len(Current(s).keys) : Current(s).keys[j] \in command_keys(q, Current(s).op)
  BY <1>2, <1>3
<1>5. Current(s).op \in {"set", "get"}
  BY CurrentType
<1> QED BY <1>4, <1>5 DEF HoldingOf, Latched, q

(* Nobody writes what another session has latched.                         *)
LEMMA WriteForeign ==
  ASSUME TypeOK, Progress, Apart, Holding, NEW s \in Sessions, WriteKey(s),
         NEW t \in Sessions \ {s}, txn_mode(t)
  PROVE  Key(s) \notin Latched(t)
<1>1. Writes(s)
  BY WriteCases
<1>2. CASE ~txn_mode(s)
  <2>1. CanWrite(s, Key(s))
    BY <1>2 DEF WriteKey
  <2> QED BY <2>1 DEF CanWrite, Latched
<1>3. CASE txn_mode(s)
  <2>1. Key(s) \in locks[s].exclusive
    BY <1>1, <1>3, CurrentLatched DEF Writes, Holding
  <2>2. locks[s].exclusive \cap (locks[t].exclusive \cup locks[t].shared) = {}
    BY <1>3 DEF Apart
  <2> QED BY <2>1, <2>2 DEF Latched
<1> QED BY <1>2, <1>3

LEMMA AloneFrame ==
  ASSUME NEW t \in Sessions, IF txn_mode(t) THEN AloneOf(t) ELSE replies[t] = <<>>,
         locks'[t] = locks[t], before'[t] = before[t], todo'[t] = todo[t], done'[t] = done[t],
         replies'[t] = replies[t], Unlogged(t)' = Unlogged(t),
         txn_mode(t) => \A k \in Latched(t) : db'[k] = db[k]
  PROVE  IF txn_mode(t)' THEN AloneOf(t)' ELSE replies'[t] = <<>>
<1>1. txn_mode(t)' <=> txn_mode(t)
  BY DEF txn_mode
<1>2. CASE ~txn_mode(t)
  BY <1>1, <1>2
<1>3. CASE txn_mode(t)
  <2>1. State(t)' = State(t) /\ Current(t)' = Current(t) /\ Latched(t)' = Latched(t)
    BY DEF State, Executed, Current, Latched
  <2>2. AloneOf(t)'
    BY <1>3, <2>1 DEF AloneOf
  <2> QED BY <1>1, <1>3, <2>2
<1> QED BY <1>2, <1>3

(* What becomes of the part of the state that belongs to session t.        *)
Still(t) ==
  /\ locks'[t] = locks[t] /\ before'[t] = before[t]
  /\ todo'[t] = todo[t] /\ done'[t] = done[t] /\ replies'[t] = replies[t]
  /\ pc'[t] = "bump" <=> pc[t] = "bump"

SessionFate(t) ==
  \/ Still(t)
  \/ \E c \in Commands : exec_command(t, c)
  \/ WriteKey(t) \/ bump_watch(t) \/ log_write(t) \/ ReadKey(t)
  \/ take_queue(t) \/ txn_lock(t) \/ txn_unlock(t)

LEMMA SessionEffect ==
  ASSUME TypeOK, Progress, NEW t \in Sessions, [Next]_vars
  PROVE  SessionFate(t)
<1>0. CASE UNCHANGED <<locks, before, todo, done, replies, pc>>
  BY <1>0 DEF Still, SessionFate
<1>1. ASSUME NEW s \in Sessions, NEW c \in Commands, exec_command(s, c) PROVE SessionFate(t)
  <2>1. CASE t = s
    BY <1>1, <2>1 DEF SessionFate
  <2>2. CASE t # s
    <3>1. Still(t)
      BY <1>1, <2>2 DEF exec_command, Goto, Still, TypeOK, history
    <3> QED BY <3>1 DEF SessionFate
  <2> QED BY <2>1, <2>2
<1>2. ASSUME NEW s \in Sessions, cmd_discard(s) PROVE SessionFate(t)
  <2>0. Discarded(s)
    BY <1>2, DiscardCases
  <2>1. locks' = locks /\ before' = before /\ todo' = todo /\ done' = done /\ replies' = replies
    BY <1>2 DEF cmd_discard
  <2>2. pc'[t] = "bump" <=> pc[t] = "bump"
    BY <2>0 DEF Discarded, TypeOK
  <2> QED BY <2>1, <2>2 DEF Still, SessionFate
<1>3. ASSUME NEW s \in Sessions, cmd_exec(s) PROVE SessionFate(t)
  <2>0. Discarded(s) \/ Checking(s)
    BY <1>3, ExecCases
  <2>1. locks' = locks /\ before' = before /\ todo' = todo /\ done' = done /\ replies' = replies
    BY <1>3 DEF cmd_exec
  <2>2. pc'[t] = "bump" <=> pc[t] = "bump"
    BY <2>0 DEF Discarded, Checking, TypeOK
  <2> QED BY <2>1, <2>2 DEF Still, SessionFate
<1>4. ASSUME NEW s \in Sessions, WriteKey(s) PROVE SessionFate(t)
  <2>1. CASE t = s
    BY <1>4, <2>1 DEF SessionFate
  <2>2. CASE t # s
    <3>1. Still(t)
      BY <1>4, <2>2 DEF WriteKey, Goto, Still, TypeOK, history
    <3> QED BY <3>1 DEF SessionFate
  <2> QED BY <2>1, <2>2
<1>5. ASSUME NEW s \in Sessions, bump_watch(s) PROVE SessionFate(t)
  <2>0. Bumps(s)
    BY <1>5, BumpCases
  <2>1. CASE t = s
    BY <1>5, <2>1 DEF SessionFate
  <2>2. CASE t # s
    <3>1. Still(t)
      BY <1>5, <2>0, <2>2 DEF bump_watch, Bumps, Still, TypeOK, history
    <3> QED BY <3>1 DEF SessionFate
  <2> QED BY <2>1, <2>2
<1>6. ASSUME NEW s \in Sessions, log_write(s) PROVE SessionFate(t)
  <2>0. Logs(s)
    BY <1>6, LogCases
  <2>1. CASE t = s
    BY <1>6, <2>1 DEF SessionFate
  <2>2. CASE t # s
    <3>1. Still(t)
      BY <1>6, <2>0, <2>2 DEF log_write, Logs, Still, TypeOK
    <3> QED BY <3>1 DEF SessionFate
  <2> QED BY <2>1, <2>2
<1>7. ASSUME NEW s \in Sessions, ReadKey(s) PROVE SessionFate(t)
  <2>0. ReadsNext(s)
    BY <1>7, ReadCases
  <2>1. CASE t = s
    BY <1>7, <2>1 DEF SessionFate
  <2>2. CASE t # s
    <3>1. Still(t)
      BY <1>7, <2>0, <2>2 DEF ReadKey, ReadsNext, Still, TypeOK, history
    <3> QED BY <3>1 DEF SessionFate
  <2> QED BY <2>1, <2>2
<1>8. ASSUME NEW s \in Sessions, watch_check(s) PROVE SessionFate(t)
  <2>0. Discarded(s) \/ Compared(s)
    BY <1>8, CheckCases
  <2>1. locks' = locks /\ before' = before /\ todo' = todo /\ done' = done /\ replies' = replies
    BY <1>8 DEF watch_check
  <2>2. pc'[t] = "bump" <=> pc[t] = "bump"
    BY <2>0 DEF Discarded, Compared, TypeOK
  <2> QED BY <2>1, <2>2 DEF Still, SessionFate
<1>9. ASSUME NEW s \in Sessions, take_queue(s) PROVE SessionFate(t)
  <2>1. CASE t = s
    BY <1>9, <2>1 DEF SessionFate
  <2>2. CASE t # s
    <3>1. Still(t)
      BY <1>9, <2>2 DEF take_queue, Goto, Still, TypeOK, history
    <3> QED BY <3>1 DEF SessionFate
  <2> QED BY <2>1, <2>2
<1>10. ASSUME NEW s \in Sessions, txn_lock(s) PROVE SessionFate(t)
  <2>1. CASE t = s
    BY <1>10, <2>1 DEF SessionFate
  <2>2. CASE t # s
    <3>1. Still(t)
      BY <1>10, <2>2 DEF txn_lock, Goto, Still, TypeOK, history
    <3> QED BY <3>1 DEF SessionFate
  <2> QED BY <2>1, <2>2
<1>11. ASSUME NEW s \in Sessions, TxnStart(s) PROVE SessionFate(t)
  <2>1. Still(t)
    BY <1>11 DEF TxnStart, Goto, Still, TypeOK, history
  <2> QED BY <2>1 DEF SessionFate
<1>12. ASSUME NEW s \in Sessions, txn_unlock(s) PROVE SessionFate(t)
  <2>1. CASE t = s
    BY <1>12, <2>1 DEF SessionFate
  <2>2. CASE t # s
    <3>1. Still(t)
      BY <1>12, <2>2 DEF txn_unlock, Goto, Still, TypeOK, history
    <3> QED BY <3>1 DEF SessionFate
  <2> QED BY <2>1, <2>2
<1>13. ASSUME NEW s \in Sessions, TxnCommit(s) PROVE SessionFate(t)
  <2>1. Still(t)
    BY <1>13 DEF TxnCommit, Goto, Still, TypeOK, history
  <2> QED BY <2>1 DEF SessionFate
<1> QED
  <2>1. \/ UNCHANGED <<locks, before, todo, done, replies, pc>>
        \/ (\E s \in Sessions : \E c \in Commands : exec_command(s, c))
        \/ (\E s \in Sessions : cmd_discard(s))
        \/ (\E s \in Sessions : cmd_exec(s))
        \/ (\E s \in Sessions : WriteKey(s))
        \/ (\E s \in Sessions : bump_watch(s))
        \/ (\E s \in Sessions : log_write(s))
        \/ (\E s \in Sessions : ReadKey(s))
        \/ (\E s \in Sessions : watch_check(s))
        \/ (\E s \in Sessions : take_queue(s))
        \/ (\E s \in Sessions : txn_lock(s))
        \/ (\E s \in Sessions : TxnStart(s))
        \/ (\E s \in Sessions : txn_unlock(s))
        \/ (\E s \in Sessions : TxnCommit(s))
    BY DEF Next, Step, vars, session, history, dispatch_queued, cmd_watch, cmd_multi,
           validate_queueable, cmd_unwatch
  <2> QED BY <2>1, <1>0, <1>1, <1>2, <1>3, <1>4, <1>5, <1>6, <1>7, <1>8, <1>9, <1>10, <1>11, <1>12, <1>13

(* What a transaction has latched is written by nobody else.               *)
LEMMA LatchedKept ==
  ASSUME TypeOK, Progress, Apart, Holding, [Next]_vars, NEW t \in Sessions, txn_mode(t), ~WriteKey(t)
  PROVE  \A k \in Latched(t) : db'[k] = db[k]
<1>1. CASE db' = db
  BY <1>1
<1>2. ASSUME NEW s \in Sessions, WriteKey(s) PROVE \A k \in Latched(t) : db'[k] = db[k]
  <2>1. Writes(s)
    BY <1>2, WriteCases
  <2>2. Key(s) \notin Latched(t)
    BY <1>2, WriteForeign
  <2>3. Latched(t) \subseteq Keys
    BY DEF Latched, txn_mode, TypeOK, Latches
  <2> QED BY <2>1, <2>2, <2>3 DEF Writes, TypeOK, Stores
<1> QED BY <1>1, <1>2, StoreFrame

LEMMA AloneStep ==
  ASSUME TypeOK, Progress, Apart, Holding, Holding', Alone, [Next]_vars
  PROVE  Alone'
<1> DEFINE Goal(t) == IF txn_mode(t)' THEN AloneOf(t)' ELSE replies'[t] = <<>>
<1> SUFFICES ASSUME NEW t \in Sessions PROVE Goal(t)
  BY DEF Alone
<1> HIDE DEF Goal
<1>1. IF txn_mode(t) THEN AloneOf(t) ELSE replies[t] = <<>>
  BY DEF Alone
<1>2. txn_mode(t) => HoldingOf(t)
  BY DEF Holding
<1>3. txn_mode(t)' => HoldingOf(t)'
  BY DEF Holding
<1>4. UnloggedFate(t)
  BY UnloggedEffect
<1>5. CASE Still(t)
  <2>1. ~WriteKey(t)
    BY <1>5 DEF Still, WriteKey, Goto, TypeOK
  <2>2. txn_mode(t) => \A k \in Latched(t) : db'[k] = db[k]
    BY <2>1, LatchedKept
  <2>3. Unlogged(t)' = Unlogged(t)
    BY <1>5, UnloggedFrame DEF Still
  <2> QED BY <1>1, <1>5, <2>2, <2>3, AloneFrame DEF Still, Goal
<1>6. ASSUME NEW c \in Commands, exec_command(t, c) PROVE Goal(t)
  <2>1. pc[t] = "idle" /\ locks' = locks /\ replies' = replies
    BY <1>6 DEF exec_command, Goto
  <2>2. ~txn_mode(t) /\ ~txn_mode(t)'
    BY <2>1 DEF Progress, Stage, txn_mode
  <2> QED BY <1>1, <2>1, <2>2 DEF Goal
<1>7. CASE take_queue(t)
  <2>1. pc[t] = "check" /\ locks' = locks /\ replies' = replies
    BY <1>7 DEF take_queue, Goto
  <2>2. ~txn_mode(t) /\ ~txn_mode(t)'
    BY <2>1 DEF Progress, Stage, txn_mode
  <2> QED BY <1>1, <2>1, <2>2 DEF Goal
<1>8. CASE txn_unlock(t)
  BY <1>8 DEF txn_unlock, TypeOK, txn_mode, Goal
<1>9. CASE WriteKey(t)
  <2>1. Writes(t)
    BY <1>9, WriteCases
  <2>2. locks' = locks /\ before' = before /\ todo' = todo /\ done' = done /\ replies' = replies
    BY <1>9 DEF WriteKey
  <2>3. State(t)' = State(t) /\ Current(t)' = Current(t) /\ Latched(t)' = Latched(t)
        /\ (txn_mode(t)' <=> txn_mode(t))
    BY <2>2 DEF State, Executed, Current, Latched, txn_mode
  <2>4. CASE ~txn_mode(t)
    BY <1>1, <2>2, <2>3, <2>4 DEF Goal
  <2>5. CASE txn_mode(t)
    <3>1. Unlogged(t)' = Unlogged(t) \cup {Key(t)}
      <4>1. pc[t] = "run" /\ pc'[t] = "bump" /\ done[t] \in Nat /\ todo[t] # <<>>
            /\ Current(t).op = "set"
            /\ Key(t) = Current(t).keys[done[t] + 1]
        BY <2>1 DEF Writes, TypeOK
      <4>2. Key(t) \in Unlogged(t)'
        BY <2>2, <2>3, <4>1 DEF Unlogged
      <4> QED BY <1>4, <1>9, <4>1, <4>2 DEF UnloggedFate, log_write, Goto
    <3>2. Latched(t) \subseteq Keys
      BY <2>5 DEF Latched, txn_mode, TypeOK, Latches
    <3>3. \A k \in Latched(t) : db'[k] = IF k = Key(t) THEN t ELSE db[k]
      BY <2>1, <3>2 DEF Writes, TypeOK, Stores
    <3>4. \A k \in Latched(t) : db'[k] = IF k \in Unlogged(t)' THEN t ELSE State(t).db[k]
      BY <1>1, <2>5, <3>1, <3>3 DEF AloneOf
    <3>5. todo[t] # <<>> /\ Current(t).op = "set" /\ replies[t] = State(t).replies
      BY <1>1, <2>1, <2>5 DEF AloneOf, Writes
    <3>6. AloneOf(t)'
      BY <2>2, <2>3, <3>4, <3>5 DEF AloneOf
    <3> QED BY <2>3, <2>5, <3>6 DEF Goal
  <2> QED BY <2>4, <2>5
<1>10. CASE bump_watch(t)
  <2>1. Bumps(t)
    BY <1>10, BumpCases
  <2>2. locks' = locks /\ before' = before /\ todo' = todo /\ replies' = replies /\ db' = db
    BY <1>10 DEF bump_watch, history
  <2>3. State(t)' = State(t) /\ Current(t)' = Current(t) /\ Latched(t)' = Latched(t)
        /\ (txn_mode(t)' <=> txn_mode(t))
    BY <2>2 DEF State, Executed, Current, Latched, txn_mode
  <2>4. CASE ~txn_mode(t)
    BY <1>1, <2>2, <2>3, <2>4 DEF Goal
  <2>5. CASE txn_mode(t)
    <3>1. Unlogged(t)' = Unlogged(t)
      BY <1>4, <1>10 DEF UnloggedFate, bump_watch, log_write, WriteKey, Goto
    <3>2. todo[t] # <<>> /\ Current(t).op = "set"
      BY <2>1 DEF Bumps
    <3>3. AloneOf(t)'
      BY <1>1, <2>2, <2>3, <2>5, <3>1, <3>2 DEF AloneOf
    <3> QED BY <2>3, <2>5, <3>3 DEF Goal
  <2> QED BY <2>4, <2>5
<1>11. CASE txn_lock(t)
  <2>1. pc[t] = "lock" /\ done[t] = 0 /\ replies[t] = <<>> /\ replies'[t] = <<>> /\ db' = db
    BY <1>1, <1>11 DEF txn_lock, Goto, Progress, Stage
  <2>2. txn_mode(t)' /\ before'[t].db = db /\ before'[t].queue = todo[t] /\ todo'[t] = todo[t]
        /\ done'[t] = 0 /\ pc'[t] = "start"
    BY <1>11, <2>1, NoneAssumption, CommandKeysType DEF txn_lock, Goto, TypeOK, txn_mode
  <2>3. todo[t] \in Seq(Commands) /\ db \in Stores
    BY DEF TypeOK
  <2>4. Executed(t)' = 0
    BY <1>3, <2>2 DEF HoldingOf
  <2>5. State(t)' = Trace(todo[t], t, db)[0]
    BY <2>2, <2>4 DEF State
  <2>6. State(t)' = [db |-> db, replies |-> <<>>]
    BY <2>3, <2>5, TraceDef
  <2>7. Unlogged(t)' = {}
    BY <2>2 DEF Unlogged
  <2>8. State(t)'.db = db /\ State(t)'.replies = <<>>
    BY <2>6
  <2>9. <<>> \in Seq(Values)
    OBVIOUS
  <2>10. <<>> \o Partial(State(t)', Current(t)', 0) = <<>>
    <3>1. PICK x, c : x = State(t)' /\ c = Current(t)'
      OBVIOUS
    <3>2. <<>> \o Partial(x, c, 0) = <<>>
      BY <2>9, ConcatEmpty
    <3> QED BY <3>1, <3>2
  <2>11. AloneOf(t)'
    BY <2>1, <2>2, <2>7, <2>8, <2>10 DEF AloneOf
  <2> QED BY <2>2, <2>11 DEF Goal
<1>12. CASE log_write(t)
  <2>1. Logs(t)
    BY <1>12, LogCases
  <2>2. locks' = locks /\ before' = before /\ replies' = replies /\ db' = db
    BY <1>12 DEF log_write
  <2>3. Latched(t)' = Latched(t) /\ (txn_mode(t)' <=> txn_mode(t))
    BY <2>2 DEF Latched, txn_mode
  <2>4. CASE ~txn_mode(t)
    BY <1>1, <2>2, <2>3, <2>4 DEF Goal
  <2>5. CASE txn_mode(t)
    <3> DEFINE x == State(t)
               c == Current(t)
    <3>1. todo[t] # <<>> /\ c.op = "set" /\ c \in Commands /\ todo'[t] = Tail(todo[t])
          /\ done'[t] = 0 /\ pc'[t] = "run" /\ pc[t] = "log"
      BY <2>1, <2>5 DEF Logs, TypeOK
    <3>2. Executed(t)' = Executed(t) + 1
      BY <1>2, <2>2, <2>5, <3>1, HoldingNext
    <3>3. State(t)' = TraceStep(x, t, c)
      BY <1>2, <2>2, <2>5, <3>1, <3>2, StateNext
    <3>4. x.db \in Stores /\ x.replies \in Seq(Values)
      BY <1>2, <2>5, StateType
    <3>5. Unlogged(t) = Range(c.keys) /\ Unlogged(t)' = {}
      BY <1>4, <1>12, <3>1, <2>1, CurrentType
         DEF UnloggedFate, Unlogged, WriteKey, log_write, Goto, Logs, Range
    <3>6. Latched(t) \subseteq Keys
      BY <2>5 DEF Latched, txn_mode, TypeOK, Latches
    <3>7. /\ \A k \in Latched(t) : db[k] = IF k \in Unlogged(t) THEN t ELSE x.db[k]
          /\ replies[t] = x.replies
      BY <1>1, <2>5, <3>1 DEF AloneOf
    <3> HIDE DEF x, c
    <3>8. /\ \A k \in Keys : TraceStep(x, t, c).db[k] = IF k \in Range(c.keys) THEN t ELSE x.db[k]
          /\ TraceStep(x, t, c).replies = x.replies
      <4>1. /\ \A k \in Keys : TraceStep(x, t, c).db[k] = IF c.op = "set" /\ k \in Range(c.keys) THEN t ELSE x.db[k]
            /\ TraceStep(x, t, c).replies = Replies(x, c)
        BY <3>1, <3>4, TraceStepDef
      <4>2. Replies(x, c) = x.replies
        BY <3>1 DEF Replies
      <4> QED BY <3>1, <4>1, <4>2
    <3>9. PICK y : y = State(t)'
      OBVIOUS
    <3>10. /\ \A k \in Latched(t) : db[k] = y.db[k]
           /\ replies[t] = y.replies /\ y.replies \in Seq(Values)
      BY <3>3, <3>4, <3>5, <3>6, <3>7, <3>8, <3>9
    <3>11. PICK e : e = Current(t)'
      OBVIOUS
    <3>12. y.replies \o Partial(y, e, 0) = y.replies
      BY <3>10, ConcatEmpty
    <3>13. AloneOf(t)'
      BY <2>2, <2>3, <3>1, <3>5, <3>9, <3>10, <3>11, <3>12 DEF AloneOf
    <3> QED BY <2>3, <2>5, <3>13 DEF Goal
  <2> QED BY <2>4, <2>5
<1>13. CASE ReadKey(t)
  <2>1. ReadsNext(t)
    BY <1>13, ReadCases
  <2>2. locks' = locks /\ before' = before /\ db' = db /\ pc' = pc
    BY <1>13 DEF ReadKey, history
  <2>3. Latched(t)' = Latched(t) /\ txn_mode(t)' /\ txn_mode(t)
    BY <2>1, <2>2 DEF Latched, txn_mode, ReadsNext
  <2> DEFINE x == State(t)
             c == Current(t)
             n == done[t]
  <2>4. /\ todo[t] # <<>> /\ c.op = "get" /\ c \in Commands /\ c.keys \in Seq(Keys)
        /\ n \in Nat /\ n + 1 \in 1 .. Len(c.keys) /\ Key(t) = c.keys[n + 1] /\ pc[t] = "run"
    BY <2>1, CurrentType DEF ReadsNext
  <2>5. x.db \in Stores /\ x.replies \in Seq(Values)
    BY <1>2, <2>3, StateType
  <2>6. Unlogged(t) = {} /\ Unlogged(t)' = {}
    <3>1. Unlogged(t) = {}
      BY <2>4, UnloggedCases
    <3> QED BY <1>4, <1>13, <2>4, <3>1 DEF UnloggedFate, WriteKey, Running
  <2>7. /\ \A k \in Latched(t) : db[k] = x.db[k]
        /\ replies[t] = x.replies \o Partial(x, c, n)
    BY <1>1, <2>3, <2>4, <2>6 DEF AloneOf
  <2>8. db[Key(t)] = x.db[c.keys[n + 1]]
    BY <1>2, <2>3, <2>4, <2>7, CurrentLatched
  <2>9. replies'[t] = Append(replies[t], db[Key(t)])
    BY <2>1 DEF ReadsNext, TypeOK
  <2>10. \A j \in 1 .. n + 1 : x.db[c.keys[j]] \in Values
    <3>1. \A j \in 1 .. n + 1 : j \in 1 .. Len(c.keys)
      BY <2>4
    <3> QED BY <2>4, <2>5, <3>1 DEF Stores
  <2>11. CASE n + 1 < Len(c.keys) /\ done' = [done EXCEPT ![t] = n + 1] /\ todo' = todo
    <3>1. done'[t] = n + 1
      BY <2>11 DEF TypeOK
    <3>2. State(t)' = x /\ Current(t)' = c
      BY <2>2, <2>11 DEF State, Executed, Current
    <3> HIDE DEF x, c, n
    <3>3. replies'[t] = x.replies \o Partial(x, c, n + 1)
      <4>1. x.replies \o Partial(x, c, n + 1) = Append(x.replies \o Partial(x, c, n), x.db[c.keys[n + 1]])
        <5>1. x.replies \in Seq(Values) /\ n \in Nat
          BY <2>4, <2>5
        <5> QED BY <2>10, <5>1, ConcatAppend
      <4> QED BY <2>7, <2>8, <2>9, <4>1
    <3>4. AloneOf(t)'
      BY <2>2, <2>3, <2>4, <2>6, <2>7, <2>11, <3>1, <3>2, <3>3 DEF AloneOf
    <3> QED BY <2>3, <3>4 DEF Goal
  <2>12. CASE n + 1 = Len(c.keys) /\ done' = [done EXCEPT ![t] = 0]
              /\ todo' = [todo EXCEPT ![t] = Tail(todo[t])]
    <3>1. done'[t] = 0 /\ todo'[t] = Tail(todo[t])
      BY <2>12 DEF TypeOK
    <3>2. Executed(t)' = Executed(t) + 1
      BY <1>2, <2>2, <2>3, <2>4, <3>1, HoldingNext
    <3>3. State(t)' = TraceStep(x, t, c)
      BY <1>2, <2>2, <2>3, <2>4, <3>2, StateNext
    <3>4. Latched(t) \subseteq Keys
      BY <2>3 DEF Latched, txn_mode, TypeOK, Latches
    <3> HIDE DEF x, c, n
    <3>5. /\ \A k \in Keys : TraceStep(x, t, c).db[k] = x.db[k]
          /\ TraceStep(x, t, c).replies = Replies(x, c)
          /\ TraceStep(x, t, c).replies \in Seq(Values)
      <4>1. /\ \A k \in Keys : TraceStep(x, t, c).db[k] = IF c.op = "set" /\ k \in Range(c.keys) THEN t ELSE x.db[k]
            /\ TraceStep(x, t, c).replies = Replies(x, c)
            /\ TraceStep(x, t, c).replies \in Seq(Values)
        BY <2>4, <2>5, TraceStepDef
      <4> QED BY <2>4, <4>1
    <3>6. Replies(x, c) = x.replies \o Partial(x, c, n + 1)
      BY <2>4, <2>12 DEF Replies, Reads
    <3>7. replies'[t] = x.replies \o Partial(x, c, n + 1)
      <4>1. x.replies \o Partial(x, c, n + 1) = Append(x.replies \o Partial(x, c, n), x.db[c.keys[n + 1]])
        <5>1. x.replies \in Seq(Values) /\ n \in Nat
          BY <2>4, <2>5
        <5> QED BY <2>10, <5>1, ConcatAppend
      <4> QED BY <2>7, <2>8, <2>9, <4>1
    <3>8. PICK y, e : y = State(t)' /\ e = Current(t)'
      OBVIOUS
    <3>9. /\ \A k \in Latched(t) : db[k] = y.db[k]
          /\ replies'[t] = y.replies /\ y.replies \in Seq(Values)
      BY <2>7, <3>3, <3>4, <3>5, <3>6, <3>7, <3>8
    <3>10. y.replies \o Partial(y, e, 0) = y.replies
      BY <3>9, ConcatEmpty
    <3>11. AloneOf(t)'
      BY <2>2, <2>3, <2>6, <3>1, <3>8, <3>9, <3>10 DEF AloneOf
    <3> QED BY <2>3, <3>11 DEF Goal
  <2> QED BY <2>1, <2>11, <2>12 DEF ReadsNext
<1> QED
  <2>1. SessionFate(t)
    BY SessionEffect
  <2> QED BY <1>5, <1>6, <1>7, <1>8, <1>9, <1>10, <1>11, <1>12, <1>13, <2>1 DEF SessionFate

-----------------------------------------------------------------------------
(* The inductive invariant.                                                *)

LEMMA InitHolds ==
  ASSUME Init
  PROVE  IInv
<1>1. TypeOK
  <2>1. NoTxn \in Txns
    BY DEF NoTxn, Txns
  <2>2. reordered \in SUBSET Keys
    BY DEF Init
  <2>3. db \in Stores /\ version \in [Slots -> Nat] /\ aof \in Seq(Entries)
    BY DEF Init, Stores, Values
  <2>4. pc \in [Sessions -> Labels] /\ todo \in [Sessions -> Seq(Commands)]
        /\ done \in [Sessions -> Nat]
    BY DEF Init, Labels
  <2>5. replies \in [Sessions -> Seq(Values)] /\ txn \in [Sessions -> Txns]
    BY <2>1 DEF Init
  <2>6. locks \in [Sessions -> Latches \cup {None}]
        /\ before \in [Sessions -> [db : Stores, queue : Seq(Commands)] \cup {None}]
    BY DEF Init
  <2>7. watched \in [Sessions -> SUBSET Keys] /\ hits \in SUBSET (Sessions \X Sessions)
        /\ stale \in SUBSET Sessions
    BY DEF Init
  <2> QED BY <2>2, <2>3, <2>4, <2>5, <2>6, <2>7 DEF TypeOK
<1>2. \A s \in Sessions : /\ pc[s] = "idle" /\ todo[s] = <<>> /\ done[s] = 0 /\ ~txn_mode(s)
                          /\ replies[s] = <<>> /\ watched[s] = {}
                          /\ txn[s].queued = <<>> /\ txn[s].watches = <<>>
  BY DEF Init, txn_mode, NoTxn
<1>3. Progress
  BY <1>2 DEF Progress, Stage
<1>4. Watching /\ HitsBump /\ StaleAborts
  <2>1. \A s \in Sessions : Len(txn[s].watches) = 0
    BY <1>2
  <2> QED BY <1>2, <2>1 DEF Init, Watching, HitsBump, StaleAborts
<1>5. InHand
  BY <1>2 DEF InHand, Unlogged
<1>6. ReplayReproducesStore
  BY ReplayEmpty DEF Init, ReplayReproducesStore
<1>7. Apart /\ Holding /\ Alone
  BY <1>2 DEF Apart, Holding, Alone
<1>8. QueuesFit
  <2>1. \A s \in Sessions : Len(txn[s].queued) = 0 /\ pc[s] # "lock"
    BY <1>2
  <2> QED BY <2>1, MaxQueueAssumption DEF QueuesFit
<1> QED BY <1>1, <1>3, <1>4, <1>5, <1>6, <1>7, <1>8 DEF IInv

LEMMA StepHolds ==
  ASSUME IInv, [Next]_vars
  PROVE  IInv'
<1> USE DEF IInv
<1>1. TypeOK' /\ Progress'
  BY TypeStep, ProgressStep
<1>2. Watching' /\ HitsBump' /\ StaleAborts'
  BY <1>1, WatchingStep, HitsStep, StaleStep
<1>3. InHand' /\ ReplayReproducesStore'
  BY InHandStep, ReplayStepHolds
<1>4. Apart' /\ QueuesFit' /\ Holding'
  BY ApartStep, QueuesStep, HoldingStep
<1>5. Alone'
  BY <1>4, AloneStep
<1> QED BY <1>1, <1>2, <1>3, <1>4, <1>5

(* The inductive invariant holds in every reachable state: any sessions,   *)
(* keys, commands, slots and queue bound.                                  *)
THEOREM Invariance == Spec => []IInv
<1>1. Init => IInv
  BY InitHolds
<1>2. IInv /\ [Next]_vars => IInv'
  BY StepHolds
<1> QED BY <1>1, <1>2, PTL DEF Spec

(* A write of a watched key that was answered before EXEC was called       *)
(* aborts the transaction: bump_watch moves the version before the answer, *)
(* whichever keys share a slot.                                            *)
THEOREM WatchedWriteAbortsHolds == Spec => []WatchedWriteAborts
<1>1. IInv => WatchedWriteAborts
  BY DEF IInv, StaleAborts, WatchedWriteAborts
<1> QED BY <1>1, Invariance, PTL

(* replay_entries gives back the store, but for the keys on their way to   *)
(* the log, unless two writes of a key entered the log in the other order. *)
THEOREM ReplayReproducesStoreHolds == Spec => []ReplayReproducesStore
<1>1. IInv => ReplayReproducesStore
  BY DEF IInv
<1> QED BY <1>1, Invariance, PTL

-----------------------------------------------------------------------------
(* Transactions are atomic.                                                *)

(* Session s of latches l has key k latched exclusively.                   *)
Owns(l, s, k) == l[s] # None /\ k \in l[s].exclusive

(* Visible, of given latches, stores before and store.                     *)
VisibleOf(l, b, d) ==
  [k \in Keys |->
     IF \E s \in Sessions : Owns(l, s, k)
     THEN b[CHOOSE s \in Sessions : Owns(l, s, k)].db[k]
     ELSE d[k]]

OneOwner(l) == \A s, t \in Sessions : \A k \in Keys : Owns(l, s, k) /\ Owns(l, t, k) => s = t

LEMMA VisibleValue ==
  ASSUME NEW l, NEW b, NEW d, OneOwner(l), NEW k \in Keys
  PROVE  /\ (\A s \in Sessions : ~Owns(l, s, k)) => VisibleOf(l, b, d)[k] = d[k]
         /\ \A s \in Sessions : Owns(l, s, k) => VisibleOf(l, b, d)[k] = b[s].db[k]
<1>1. (\A s \in Sessions : ~Owns(l, s, k)) => VisibleOf(l, b, d)[k] = d[k]
  BY DEF VisibleOf
<1>2. ASSUME NEW s \in Sessions, Owns(l, s, k) PROVE VisibleOf(l, b, d)[k] = b[s].db[k]
  <2> DEFINE t == CHOOSE t \in Sessions : Owns(l, t, k)
  <2>1. t \in Sessions /\ Owns(l, t, k)
    BY <1>2
  <2>2. t = s
    BY <1>2, <2>1 DEF OneOwner
  <2>3. VisibleOf(l, b, d)[k] = b[t].db[k]
    BY <1>2 DEF VisibleOf
  <2> QED BY <2>2, <2>3
<1> QED BY <1>1, <1>2

LEMMA VisibleIs ==
  /\ Visible = VisibleOf(locks, before, db)
  /\ Visible' = VisibleOf(locks', before', db')
BY DEF Visible, VisibleOf, Owns, txn_mode

LEMMA ApartOwners ==
  ASSUME Apart
  PROVE  OneOwner(locks)
BY DEF Apart, OneOwner, Owns, txn_mode

LEMMA VisibleType ==
  ASSUME TypeOK, Apart, Holding
  PROVE  Visible \in Stores
<1>1. OneOwner(locks)
  BY ApartOwners
<1>2. ASSUME NEW k \in Keys PROVE Visible[k] \in Values
  <2>1. CASE \A s \in Sessions : ~Owns(locks, s, k)
    <3>1. Visible[k] = db[k]
      BY <1>1, <2>1, VisibleValue, VisibleIs
    <3> QED BY <3>1 DEF TypeOK, Stores
  <2>2. ASSUME NEW s \in Sessions, Owns(locks, s, k) PROVE Visible[k] \in Values
    <3>1. Visible[k] = before[s].db[k]
      BY <1>1, <2>2, VisibleValue, VisibleIs
    <3>2. before[s].db \in Stores
      BY <2>2 DEF Holding, HoldingOf, Owns, txn_mode
    <3> QED BY <3>1, <3>2 DEF Stores
  <2> QED BY <2>1, <2>2
<1> QED BY <1>2 DEF Visible, Stores

(* A write inside a transaction is not visible, a single one is.           *)
LEMMA WriteRefines ==
  ASSUME IInv, NEW s \in Sessions, WriteKey(s)
  PROVE  Atomic!Next \/ UNCHANGED Atomic!vars
<1> USE DEF IInv
<1>1. Writes(s)
  BY WriteCases
<1>2. locks' = locks /\ before' = before /\ last' = last
  BY DEF WriteKey
<1>3. OneOwner(locks)
  BY ApartOwners
<1>4. Key(s) \in Keys /\ \A k \in Keys : db'[k] = IF k = Key(s) THEN s ELSE db[k]
  BY <1>1 DEF Writes, TypeOK, Stores
<1> DEFINE u == VisibleOf(locks, before, db)
           v == VisibleOf(locks, before, db')
<1>5. Visible = u /\ Visible' = v
  BY <1>2, VisibleIs
<1>6. u = [k \in Keys |-> u[k]] /\ v = [k \in Keys |-> v[k]]
  BY DEF VisibleOf
<1>7. ASSUME NEW k \in Keys
      PROVE  /\ (\A t \in Sessions : ~Owns(locks, t, k)) => u[k] = db[k] /\ v[k] = db'[k]
             /\ \A t \in Sessions : Owns(locks, t, k) => u[k] = v[k]
  BY <1>3, VisibleValue
<1> HIDE DEF u, v
<1>8. \A k \in Keys : k # Key(s) => u[k] = v[k]
  BY <1>4, <1>7
<1>9. CASE txn_mode(s)
  <2>1. Key(s) \in locks[s].exclusive
    BY <1>1, <1>9, CurrentLatched DEF Holding, Writes
  <2>2. u[Key(s)] = v[Key(s)]
    BY <1>4, <1>7, <1>9, <2>1 DEF Owns, txn_mode
  <2>3. u = v
    BY <1>6, <1>8, <2>2
  <2> QED BY <1>2, <1>5, <2>3 DEF Atomic!vars
<1>10. CASE ~txn_mode(s)
  <2>1. CanWrite(s, Key(s))
    BY <1>10 DEF WriteKey
  <2>2. \A t \in Sessions : ~Owns(locks, t, Key(s))
    BY <1>10, <2>1 DEF CanWrite, Owns, txn_mode
  <2>3. v[Key(s)] = s
    BY <1>4, <1>7, <2>2
  <2>4. v = [u EXCEPT ![Key(s)] = s]
    BY <1>4, <1>6, <1>8, <2>3
  <2>5. Atomic!Single(s)
    BY <1>2, <1>4, <1>5, <2>4 DEF Atomic!Single
  <2> QED BY <2>5 DEF Atomic!Next
<1> QED BY <1>9, <1>10

(* Taking the latches changes nothing visible.                             *)
LEMMA LockRefines ==
  ASSUME IInv, IInv', NEW s \in Sessions, txn_lock(s)
  PROVE  UNCHANGED Atomic!vars
<1> USE DEF IInv
<1> DEFINE l == locks'
           b == before'
           u == VisibleOf(locks, before, db)
           v == VisibleOf(l, b, db)
           x == command_keys(todo[s], "set")
<1>1. pc[s] = "lock" /\ ~txn_mode(s)
  BY DEF txn_lock, Goto, Progress, Stage
<1>2. /\ db' = db /\ last' = last
      /\ l[s].exclusive = x /\ b[s].db = db
      /\ \A t \in Sessions \ {s} : l[t] = locks[t] /\ b[t] = before[t]
      /\ \A k \in x : CanWrite(s, k)
  BY DEF txn_lock, TypeOK
<1>3. OneOwner(locks) /\ OneOwner(l)
  <2>1. OneOwner(locks)'
    BY DEF Apart, OneOwner, Owns, txn_mode
  <2> QED BY <2>1, ApartOwners
<1>4. Visible = u /\ Visible' = v
  BY <1>2, VisibleIs
<1>5. u = [k \in Keys |-> u[k]] /\ v = [k \in Keys |-> v[k]]
  BY DEF VisibleOf
<1>6. \A k \in Keys : /\ (\A t \in Sessions : ~Owns(locks, t, k)) => u[k] = db[k]
                      /\ \A t \in Sessions : Owns(locks, t, k) => u[k] = before[t].db[k]
  BY <1>3, VisibleValue
<1>7. \A k \in Keys : /\ (\A t \in Sessions : ~Owns(l, t, k)) => v[k] = db[k]
                      /\ \A t \in Sessions : Owns(l, t, k) => v[k] = b[t].db[k]
  <2> HIDE DEF l, b
  <2> QED BY <1>3, VisibleValue
<1> HIDE DEF l, b, u, v, x
<1>8. ASSUME NEW k \in Keys PROVE u[k] = v[k]
  <2>1. CASE Owns(l, s, k)
    <3>1. k \in x
      BY <1>2, <2>1 DEF Owns
    <3>2. \A t \in Sessions : ~Owns(locks, t, k)
      BY <1>1, <1>2, <3>1 DEF CanWrite, Owns, txn_mode
    <3> QED BY <1>2, <1>6, <1>7, <2>1, <3>2
  <2>2. CASE ~Owns(l, s, k)
    <3>1. \A t \in Sessions : Owns(l, t, k) <=> Owns(locks, t, k)
      BY <1>1, <1>2, <2>2 DEF Owns, txn_mode
    <3>2. \A t \in Sessions : Owns(l, t, k) => b[t] = before[t]
      BY <1>2, <2>2
    <3> QED BY <1>6, <1>7, <3>1, <3>2
  <2> QED BY <2>1, <2>2
<1>9. u = v
  BY <1>5, <1>8
<1> QED BY <1>2, <1>4, <1>9 DEF Atomic!vars

(* Releasing them makes the transaction visible as a whole.                *)
LEMMA UnlockRefines ==
  ASSUME IInv, NEW s \in Sessions, txn_unlock(s)
  PROVE  Atomic!Exec(s)
<1> USE DEF IInv
<1> DEFINE l == locks'
           b == before'
           u == VisibleOf(locks, before, db)
           v == VisibleOf(l, b, db)
           q == before[s].queue
           d == before[s].db
           n == Len(q)
           W == command_keys(q, "set")
           K == W \cup command_keys(q, "get")
<1>1. txn_mode(s) /\ todo[s] = <<>> /\ HoldingOf(s) /\ AloneOf(s)
  BY DEF txn_unlock, Holding, Alone
<1>2. /\ db' = db
      /\ l[s] = None
      /\ \A t \in Sessions \ {s} : l[t] = locks[t] /\ b[t] = before[t]
      /\ last' = [last EXCEPT ![s] = [queue |-> q, replies |-> replies[s]]]
  BY DEF txn_unlock, TypeOK
<1>3. OneOwner(locks)
  BY ApartOwners
<1>4. \A t \in Sessions, k \in Keys : Owns(l, t, k) => t # s /\ Owns(locks, t, k) /\ b[t] = before[t]
  BY <1>2 DEF Owns
<1>5. OneOwner(l)
  BY <1>3, <1>4 DEF OneOwner
<1>6. Visible = u /\ Visible' = v
  BY <1>2, VisibleIs
<1>7. u \in Stores
  BY <1>6, VisibleType
<1>8. v = [k \in Keys |-> v[k]]
  BY DEF VisibleOf
<1>9. \A k \in Keys : /\ (\A t \in Sessions : ~Owns(locks, t, k)) => u[k] = db[k]
                      /\ \A t \in Sessions : Owns(locks, t, k) => u[k] = before[t].db[k]
  BY <1>3, VisibleValue
<1>10. \A k \in Keys : /\ (\A t \in Sessions : ~Owns(l, t, k)) => v[k] = db[k]
                       /\ \A t \in Sessions : Owns(l, t, k) => v[k] = b[t].db[k]
  <2> HIDE DEF l, b
  <2> QED BY <1>5, VisibleValue
<1>11. q \in Seq(Commands) /\ d \in Stores /\ n \in Nat /\ Executed(s) = n /\ n <= MaxQueue
  <2>1. q \in Seq(Commands) /\ d \in Stores /\ Executed(s) + Len(todo[s]) = n
        /\ Executed(s) \in Nat /\ n <= MaxQueue
    BY <1>1, StateType DEF HoldingOf
  <2>2. Len(todo[s]) = 0
    BY <1>1
  <2> QED BY <2>1, <2>2
<1>12. State(s) = Trace(q, s, d)[n]
  BY <1>11 DEF State
<1>13. locks[s].exclusive = W /\ Latched(s) = K
  BY <1>1 DEF HoldingOf, Latched
<1>14. Unlogged(s) = {}
  BY <1>1, UnloggedCases
<1>15. replies[s] = State(s).replies /\ \A k \in K : db[k] = State(s).db[k]
  BY <1>1, <1>13, <1>14 DEF AloneOf
<1>16. K \subseteq Keys
  BY <1>11, CommandKeysType
<1>17. \A k \in K, t \in Sessions \ {s} : ~Owns(locks, t, k)
  <2>1. \A t \in Sessions \ {s} : txn_mode(t) => locks[t].exclusive \cap (locks[s].exclusive \cup locks[s].shared) = {}
    BY <1>1 DEF Apart
  <2> QED BY <1>13, <2>1 DEF Owns, txn_mode, Latched
<1>18. \A k \in Keys \ W : ~Owns(locks, s, k)
  BY <1>13 DEF Owns
<1>19. \A k \in W : Owns(locks, s, k)
  BY <1>1, <1>13 DEF Owns, txn_mode
<1> HIDE DEF l, b, u, v, q, d, W, K, n
<1>20. \A k \in Keys \ W : Trace(q, s, d)[n].db[k] = d[k]
  <2>1. n \in 0 .. n
    BY <1>11
  <2>2. \A i \in 0 .. Len(q) : \A k \in Keys \ W : Trace(q, s, d)[i].db[k] = d[k]
    BY <1>11, TraceAgree DEF W
  <2> QED BY <2>1, <2>2 DEF n
<1>21. \A k \in K : d[k] = u[k]
  <2> TAKE k \in K
  <2>1. CASE k \in W
    BY <1>9, <1>16, <1>19, <2>1 DEF d
  <2>2. CASE k \notin W
    <3>1. \A t \in Sessions : ~Owns(locks, t, k)
      BY <1>16, <1>17, <1>18, <2>2
    <3>2. u[k] = db[k]
      BY <1>9, <1>16, <3>1
    <3>3. db[k] = d[k]
      BY <1>12, <1>15, <1>16, <1>20, <2>2
    <3> QED BY <3>2, <3>3
  <2> QED BY <2>1, <2>2
<1> DEFINE x == Trace(q, s, d)[n]
           y == Trace(q, s, u)[n]
<1>22. x.replies = y.replies /\ (\A k \in K : x.db[k] = y.db[k]) /\ (\A k \in Keys \ W : y.db[k] = u[k])
  <2>1. n \in 0 .. n
    BY <1>11
  <2>2. \A i \in 0 .. Len(q) : /\ Trace(q, s, d)[i].replies = Trace(q, s, u)[i].replies
                               /\ \A k \in K : Trace(q, s, d)[i].db[k] = Trace(q, s, u)[i].db[k]
    BY <1>7, <1>11, <1>21, TraceAgree DEF W, K
  <2>3. \A i \in 0 .. Len(q) : \A k \in Keys \ W : Trace(q, s, u)[i].db[k] = u[k]
    BY <1>7, <1>11, TraceAgree DEF W
  <2> QED BY <2>1, <2>2, <2>3 DEF n
<1>23. y.db \in Stores
  <2>1. n \in 0 .. Len(q)
    BY <1>11 DEF n
  <2> QED BY <1>7, <1>11, <2>1, TraceType
<1>24. Atomic!Run(q, s, u) = y
  BY <1>11, TraceDef DEF n
<1> HIDE DEF x, y
<1>25. ASSUME NEW k \in Keys PROVE v[k] = y.db[k]
  <2>1. CASE k \in W
    <3>1. k \in K /\ \A t \in Sessions : ~Owns(l, t, k)
      BY <1>4, <1>17, <2>1 DEF K
    <3>2. v[k] = db[k]
      BY <1>10, <3>1
    <3>3. db[k] = x.db[k]
      BY <1>12, <1>15, <3>1 DEF x
    <3> QED BY <1>22, <3>1, <3>2, <3>3
  <2>2. CASE k \notin W
    <3>1. \A t \in Sessions : Owns(l, t, k) <=> Owns(locks, t, k)
      BY <1>2, <1>18, <2>2 DEF Owns
    <3>2. v[k] = u[k]
      BY <1>4, <1>9, <1>10, <3>1
    <3> QED BY <1>22, <2>2, <3>2
  <2> QED BY <2>1, <2>2
<1>26. v = y.db
  BY <1>8, <1>23, <1>25 DEF Stores
<1>27. q \in Atomic!Queues
  <2>1. n \in 0 .. MaxQueue
    BY <1>11, MaxQueueAssumption
  <2>2. q \in [1 .. n -> Commands]
    BY <1>11 DEF n
  <2> QED BY <2>1, <2>2 DEF Atomic!Queues
<1>28. replies[s] = y.replies
  BY <1>12, <1>15, <1>22 DEF x
<1> QED BY <1>2, <1>6, <1>24, <1>26, <1>27, <1>28 DEF Atomic!Exec

LEMMA DiscardRefines ==
  ASSUME NEW s \in Sessions, discard(s), UNCHANGED <<db, locks, before>>
  PROVE  Atomic!Abort(s)
<1>1. Visible' = Visible
  BY VisibleIs
<1> QED BY <1>1 DEF discard, Atomic!Abort

(* Every step is a step of the abstract specification, or none.            *)
LEMMA StepRefines ==
  ASSUME IInv, IInv', [Next]_vars
  PROVE  Atomic!Next \/ UNCHANGED Atomic!vars
<1>0. CASE UNCHANGED <<db, locks, before, last>>
  BY <1>0, VisibleIs DEF Atomic!vars
<1>1. ASSUME NEW s \in Sessions, cmd_discard(s) PROVE Atomic!Next \/ UNCHANGED Atomic!vars
  <2>1. CASE discard(s)
    <3>1. Atomic!Abort(s)
      BY <1>1, <2>1, DiscardRefines DEF cmd_discard
    <3> QED BY <3>1 DEF Atomic!Next
  <2>2. CASE UNCHANGED <<db, locks, before, last>>
    BY <1>0, <2>2
  <2> QED BY <1>1, <2>1, <2>2 DEF cmd_discard
<1>2. ASSUME NEW s \in Sessions, cmd_exec(s) PROVE Atomic!Next \/ UNCHANGED Atomic!vars
  <2>1. CASE discard(s)
    <3>1. Atomic!Abort(s)
      BY <1>2, <2>1, DiscardRefines DEF cmd_exec
    <3> QED BY <3>1 DEF Atomic!Next
  <2>2. CASE UNCHANGED <<db, locks, before, last>>
    BY <1>0, <2>2
  <2> QED BY <1>2, <2>1, <2>2 DEF cmd_exec
<1>3. ASSUME NEW s \in Sessions, WriteKey(s) PROVE Atomic!Next \/ UNCHANGED Atomic!vars
  BY <1>3, WriteRefines
<1>4. ASSUME NEW s \in Sessions, watch_check(s) PROVE Atomic!Next \/ UNCHANGED Atomic!vars
  <2>1. CASE discard(s)
    <3>1. Atomic!Abort(s)
      BY <1>4, <2>1, DiscardRefines DEF watch_check
    <3> QED BY <3>1 DEF Atomic!Next
  <2>2. CASE UNCHANGED <<db, locks, before, last>>
    BY <1>0, <2>2
  <2> QED BY <1>4, <2>1, <2>2 DEF watch_check
<1>5. ASSUME NEW s \in Sessions, txn_lock(s) PROVE Atomic!Next \/ UNCHANGED Atomic!vars
  BY <1>5, LockRefines
<1>6. ASSUME NEW s \in Sessions, txn_unlock(s) PROVE Atomic!Next \/ UNCHANGED Atomic!vars
  <2>1. Atomic!Exec(s)
    BY <1>6, UnlockRefines
  <2> QED BY <2>1 DEF Atomic!Next
<1> QED
  <2>1. \/ UNCHANGED <<db, locks, before, last>>
        \/ (\E s \in Sessions : cmd_discard(s))
        \/ (\E s \in Sessions : cmd_exec(s))
        \/ (\E s \in Sessions : WriteKey(s))
        \/ (\E s \in Sessions : watch_check(s))
        \/ (\E s \in Sessions : txn_lock(s))
        \/ (\E s \in Sessions : txn_unlock(s))
    BY DEF Next, Step, vars, session, history, exec_command, dispatch_queued, cmd_watch,
           cmd_multi, validate_queueable, cmd_unwatch, bump_watch, log_write, ReadKey,
           take_queue, TxnStart, TxnCommit
  <2> QED BY <2>1, <1>0, <1>1, <1>2, <1>3, <1>4, <1>5, <1>6

(* Transactions are atomic: the sessions implement AtomicTransactions,     *)
(* whose transactions execute in one step, with Visible as its database.   *)
(* txn_unlock is that step.                                                *)
THEOREM SerializableHolds == Spec => Serializable
<1>1. Init => Atomic!Init
  <2> SUFFICES ASSUME Init PROVE Atomic!Init
    OBVIOUS
  <2>1. \A s \in Sessions : ~txn_mode(s)
    BY DEF Init, txn_mode
  <2>2. Visible = [k \in Keys |-> None]
    BY <2>1 DEF Init, Visible
  <2> QED BY <2>2 DEF Init, Atomic!Init
<1>2. IInv /\ IInv' /\ [Next]_vars => [Atomic!Next]_(Atomic!vars)
  BY StepRefines
<1> QED BY <1>1, <1>2, Invariance, PTL DEF Spec, Serializable, Atomic!Spec

=============================================================================
