----------------------------- MODULE BucketLatch -----------------------------
(***************************************************************************)
(* The bucket latches of crates/tsavorite/src/index.rs, the operations of  *)
(* store.rs that take one latch, and the transactions that take several.   *)
(*                                                                         *)
(* A latch shares its 64-bit word (entry 7 of the bucket) with the link to *)
(* the overflow bucket, so that every compare-and-swap on one part fails   *)
(* when another thread has changed the other.  A bounded spin is a choice, *)
(* at every failed attempt, between trying again and giving up.            *)
(***************************************************************************)
EXTENDS Integers, FiniteSets, FiniteSetsExt

CONSTANTS
  Threads,
  Buckets,     (* bucket numbers, in the order transactions lock them      *)
  MaxShared,   (* 2^15 - 1 in the code: SHARED_MASK                        *)
  MaxCalls     (* bound: operations and transactions a thread starts       *)

ASSUME BucketsAssumption ==
  Buckets \subseteq Nat /\ IsFiniteSet(Buckets) /\ Buckets # {}
ASSUME ThreadsAssumption == IsFiniteSet(Threads)
ASSUME MaxSharedAssumption == MaxShared \in Nat \ {0}
ASSUME MaxCallsAssumption == MaxCalls \in Nat

Modes == {"shared", "exclusive"}
Zero == [shared |-> 0, exclusive |-> FALSE, linked |-> FALSE]

VARIABLES
  word,    (* word[b]: entry 7 of bucket b                                 *)
  pc,
  txn,     (* txn[t]: the call of t is a transaction                       *)
  todo,    (* todo[t]: <<bucket, mode>> pairs txn_lock has yet to take     *)
  bucket,  (* bucket[t]: the bucket of the try_lock in progress            *)
  mode,    (* mode[t]: its mode                                            *)
  cur,     (* cur[t]: the word t last loaded                               *)
  held,    (* held[t][b]: the latch t holds on b, or "no"                  *)
  calls    (* calls[t]: calls t may still start                            *)

vars == <<word, pc, txn, todo, bucket, mode, cur, held, calls>>

Init ==
  /\ word = [b \in Buckets |-> Zero]
  /\ pc = [t \in Threads |-> "idle"]
  /\ txn = [t \in Threads |-> FALSE]
  /\ todo = [t \in Threads |-> {}]
  /\ bucket \in [Threads -> {Min(Buckets)}]
  /\ mode = [t \in Threads |-> "shared"]
  /\ cur = [t \in Threads |-> Zero]
  /\ held = [t \in Threads |-> [b \in Buckets |-> "no"]]
  /\ calls = [t \in Threads |-> MaxCalls]

Goto(t, from, to) ==
  /\ pc[t] = from
  /\ pc' = [pc EXCEPT ![t] = to]

Start(t) == calls[t] > 0 /\ calls' = [calls EXCEPT ![t] = @ - 1]

-----------------------------------------------------------------------------
(* Who calls: an operation for one latch, a transaction for several.       *)

\* store.rs latch(): an operation outside a transaction tries once.
latch(t) ==
  /\ Start(t)
  /\ Goto(t, "idle", "load")
  /\ \E b \in Buckets, m \in Modes :
       /\ bucket' = [bucket EXCEPT ![t] = b]
       /\ mode' = [mode EXCEPT ![t] = m]
  /\ txn' = [txn EXCEPT ![t] = FALSE]
  /\ UNCHANGED <<word, todo, cur, held>>

\* txn_lock: the keys of the transaction, as buckets and modes.
txn_lock(t) ==
  /\ Start(t)
  /\ Goto(t, "idle", "txn")
  /\ \E keys \in (SUBSET (Buckets \X Modes)) \ {{}} :
       todo' = [todo EXCEPT ![t] = keys]
  /\ txn' = [txn EXCEPT ![t] = TRUE]
  /\ UNCHANGED <<word, bucket, mode, cur, held>>

\* Sorted by bucket, exclusive first, one latch per bucket.
NextBucket(t) == Min({k[1] : k \in todo[t]})

NextMode(t) ==
  IF <<NextBucket(t), "exclusive">> \in todo[t] THEN "exclusive" ELSE "shared"

\* Mutant: the keys are locked in the order of the commands, unsorted.
txn_lock_next_unsorted(t) ==
  /\ Goto(t, "txn", "load")
  /\ \E k \in todo[t] :
       /\ bucket' = [bucket EXCEPT ![t] = k[1]]
       /\ mode' = [mode EXCEPT ![t] =
            IF <<k[1], "exclusive">> \in todo[t] THEN "exclusive" ELSE "shared"]
       /\ todo' = [todo EXCEPT ![t] = {j \in @ : j[1] # k[1]}]
  /\ UNCHANGED <<word, txn, cur, held, calls>>

txn_lock_next(t) ==
  /\ todo[t] # {}
  /\ Goto(t, "txn", "load")
  /\ bucket' = [bucket EXCEPT ![t] = NextBucket(t)]
  /\ mode' = [mode EXCEPT ![t] = NextMode(t)]
  /\ todo' = [todo EXCEPT ![t] = {k \in @ : k[1] # NextBucket(t)}]
  /\ UNCHANGED <<word, txn, cur, held, calls>>

txn_lock_done(t) ==
  /\ todo[t] = {}
  /\ Goto(t, "txn", "in")
  /\ UNCHANGED <<word, txn, todo, bucket, mode, cur, held, calls>>

-----------------------------------------------------------------------------
(* try_lock_shared and try_lock_exclusive.                                 *)

Blocked(w, m) == w.exclusive \/ (m = "shared" /\ w.shared = MaxShared)

try_lock_load(t) ==
  LET w == word[bucket[t]] IN
  /\ ~Blocked(w, mode[t])
  /\ Goto(t, "load", "cas")
  /\ cur' = [cur EXCEPT ![t] = w]
  /\ UNCHANGED <<word, txn, todo, bucket, mode, held, calls>>

\* All spins have met a blocked word.
try_lock_give_up(t) ==
  /\ Blocked(word[bucket[t]], mode[t])
  /\ Goto(t, "load", "failed")
  /\ UNCHANGED <<word, txn, todo, bucket, mode, cur, held, calls>>

\* What a thread does with the latch it has just taken.
Acquired(t) ==
  /\ pc' = [pc EXCEPT ![t] = IF txn[t] THEN "txn" ELSE "in"]
  /\ held' = [held EXCEPT ![t][bucket[t]] = mode[t]]

try_lock_shared(t) ==
  /\ pc[t] = "cas" /\ mode[t] = "shared"
  /\ word[bucket[t]] = cur[t]
  /\ word' = [word EXCEPT ![bucket[t]].shared = @ + 1]
  /\ Acquired(t)
  /\ UNCHANGED <<txn, todo, bucket, mode, cur, calls>>

\* Mutant: a store of the word that was loaded, in place of the
\* compare-and-swap.
try_lock_exclusive_store(t) ==
  /\ mode[t] = "exclusive"
  /\ Goto(t, "cas", "readers")
  /\ word' = [word EXCEPT ![bucket[t]] = [cur[t] EXCEPT !.exclusive = TRUE]]
  /\ UNCHANGED <<txn, todo, bucket, mode, cur, held, calls>>

\* The exclusive bit keeps new readers out; those inside must leave.
try_lock_exclusive(t) ==
  /\ mode[t] = "exclusive"
  /\ Goto(t, "cas", "readers")
  /\ word[bucket[t]] = cur[t]
  /\ word' = [word EXCEPT ![bucket[t]].exclusive = TRUE]
  /\ UNCHANGED <<txn, todo, bucket, mode, cur, held, calls>>

try_lock_cas_lost(t) ==
  /\ pc[t] = "cas"
  /\ word[bucket[t]] # cur[t]
  /\ \E l \in {"load", "failed"} : pc' = [pc EXCEPT ![t] = l]
  /\ UNCHANGED <<word, txn, todo, bucket, mode, cur, held, calls>>

\* Mutant: the writer does not wait for the readers.
readers_gone_early(t) ==
  /\ pc[t] = "readers"
  /\ Acquired(t)
  /\ UNCHANGED <<word, txn, todo, bucket, mode, cur, calls>>

readers_gone(t) ==
  /\ pc[t] = "readers"
  /\ word[bucket[t]].shared = 0
  /\ Acquired(t)
  /\ UNCHANGED <<word, txn, todo, bucket, mode, cur, calls>>

\* Mutant: the whole latch is given back, the readers' count with it.
readers_timeout_zeroes(t) ==
  /\ word[bucket[t]].shared # 0
  /\ Goto(t, "readers", "failed")
  /\ word' = [word EXCEPT ![bucket[t]].exclusive = FALSE,
                          ![bucket[t]].shared = 0]
  /\ UNCHANGED <<txn, todo, bucket, mode, cur, held, calls>>

\* The wait for the readers has used up its spins: give the bit back.
readers_timeout(t) ==
  /\ word[bucket[t]].shared # 0
  /\ Goto(t, "readers", "failed")
  /\ word' = [word EXCEPT ![bucket[t]].exclusive = FALSE]
  /\ UNCHANGED <<txn, todo, bucket, mode, cur, held, calls>>

\* An operation answers RetryLater to its caller, which makes a new attempt;
\* txn_lock yields and tries the same bucket again.
try_lock_failed(t) ==
  /\ Goto(t, "failed", "load")
  /\ UNCHANGED <<word, txn, todo, bucket, mode, cur, held, calls>>

-----------------------------------------------------------------------------
(* Latch::drop and txn_unlock; a session that is dropped inside a          *)
(* transaction unlocks the same way.                                       *)

unlock_call(t) ==
  /\ Goto(t, "in", "unlock")
  /\ UNCHANGED <<word, txn, todo, bucket, mode, cur, held, calls>>

Held(t) == {b \in Buckets : held[t][b] # "no"}

unlock(t) ==
  /\ pc[t] = "unlock"
  /\ Held(t) # {}
  /\ LET b == Min(Held(t)) IN
     /\ held' = [held EXCEPT ![t][b] = "no"]
     /\ word' = IF held[t][b] = "shared"
          THEN [word EXCEPT ![b].shared = (@ - 1) % (MaxShared + 1)]
          ELSE [word EXCEPT ![b].exclusive = FALSE]
  /\ UNCHANGED <<pc, txn, todo, bucket, mode, cur, calls>>

unlock_return(t) ==
  /\ Held(t) = {}
  /\ Goto(t, "unlock", "idle")
  /\ UNCHANGED <<word, txn, todo, bucket, mode, cur, held, calls>>

-----------------------------------------------------------------------------
(* find_tag_or_free links an overflow bucket through the same word, with   *)
(* or without the latch.                                                   *)

link_load(t) ==
  /\ Start(t)
  /\ Goto(t, "idle", "link")
  /\ \E b \in Buckets :
       /\ ~word[b].linked
       /\ bucket' = [bucket EXCEPT ![t] = b]
       /\ cur' = [cur EXCEPT ![t] = word[b]]
  /\ UNCHANGED <<word, txn, todo, mode, held>>

link_cas(t) ==
  /\ word[bucket[t]] = cur[t]
  /\ Goto(t, "link", "idle")
  /\ word' = [word EXCEPT ![bucket[t]] = [cur[t] EXCEPT !.linked = TRUE]]
  /\ UNCHANGED <<txn, todo, bucket, mode, cur, held, calls>>

\* compare_exchange returned the current word: done if it is linked.
link_lost(t) ==
  /\ pc[t] = "link"
  /\ word[bucket[t]] # cur[t]
  /\ cur' = [cur EXCEPT ![t] = word[bucket[t]]]
  /\ pc' = [pc EXCEPT ![t] = IF word[bucket[t]].linked THEN "idle" ELSE "link"]
  /\ UNCHANGED <<word, txn, todo, bucket, mode, held, calls>>

-----------------------------------------------------------------------------

call_step(t) == latch(t) \/ txn_lock(t) \/ link_load(t)

inner_step(t) ==
  \/ txn_lock_next(t) \/ txn_lock_done(t)
  \/ try_lock_load(t) \/ try_lock_give_up(t) \/ try_lock_shared(t)
  \/ try_lock_exclusive(t) \/ try_lock_cas_lost(t)
  \/ readers_gone(t) \/ readers_timeout(t) \/ try_lock_failed(t)
  \/ unlock_call(t) \/ unlock(t) \/ unlock_return(t)
  \/ link_cas(t) \/ link_lost(t)

Next == \E t \in Threads : call_step(t) \/ inner_step(t)

Spec == Init /\ [][Next]_vars

(***************************************************************************)
(* A call once made is carried through: every thread is scheduled, and the *)
(* body of an operation or transaction, having finitely many steps, ends.  *)
(***************************************************************************)
Fairness == \A t \in Threads : WF_vars(inner_step(t))

FairSpec == Spec /\ Fairness

-----------------------------------------------------------------------------

(***************************************************************************)
(* A thread that holds a bucket exclusively is alone with it, across the   *)
(* race of readers coming in with writers that wait for readers to leave.  *)
(***************************************************************************)
MutualExclusion ==
  \A b \in Buckets : \A t, u \in Threads :
    t # u /\ held[t][b] = "exclusive" => held[u][b] = "no"

(***************************************************************************)
(* The two debug_asserts of unlock_shared and unlock_exclusive: a thread   *)
(* that unlocks finds its own lock in the word; and the count of the word  *)
(* is that of its readers and stays within its bits.                       *)
(***************************************************************************)
UnlockAsserts ==
  \A b \in Buckets :
    /\ \A t \in Threads : pc[t] = "unlock" =>
         /\ held[t][b] = "shared" => word[b].shared # 0
         /\ held[t][b] = "exclusive" => word[b].exclusive
    /\ word[b].shared = Cardinality({t \in Threads : held[t][b] = "shared"})
    /\ word[b].shared <= MaxShared

(***************************************************************************)
(* No latch traffic ever loses an overflow bucket, nor does linking one    *)
(* change the latch: the link is set once and for all.                     *)
(***************************************************************************)
LinkKept == [][\A b \in Buckets : word[b].linked => word'[b].linked]_vars

(***************************************************************************)
(* Deadlock freedom of two-phase locking in bucket order: every            *)
(* transaction gets all its latches, every operation its one, when each    *)
(* thread makes finitely many calls.                                       *)
(***************************************************************************)
EveryoneGetsIn ==
  \A t \in Threads : pc[t] \in {"txn", "load"} ~> pc[t] = "in"
=============================================================================
