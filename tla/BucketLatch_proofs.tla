-------------------------- MODULE BucketLatch_proofs --------------------------
(***************************************************************************)
(* Proofs about BucketLatch, for any number of threads, buckets and calls  *)
(* and any width of the readers' count.                                    *)
(*                                                                         *)
(* The latch word is the only state the threads share; what makes it a     *)
(* latch is its relation to what each thread believes it holds.  IInv      *)
(* states that relation for every point between the steps of try_lock and  *)
(* unlock.                                                                 *)
(***************************************************************************)
EXTENDS BucketLatch, FiniteSetTheorems, WellFoundedInduction, TLAPS

Words == [shared : Nat, exclusive : BOOLEAN, linked : BOOLEAN]

Labels == {"idle", "txn", "load", "cas", "readers", "failed", "in", "unlock",
           "link"}

TypeOK ==
  /\ word \in [Buckets -> Words]
  /\ pc \in [Threads -> Labels]
  /\ txn \in [Threads -> BOOLEAN]
  /\ todo \in [Threads -> SUBSET (Buckets \X Modes)]
  /\ bucket \in [Threads -> Buckets]
  /\ mode \in [Threads -> Modes]
  /\ cur \in [Threads -> Words]
  /\ held \in [Threads -> [Buckets -> Modes \union {"no"}]]
  /\ calls \in [Threads -> Nat]

Readers(b) == {t \in Threads : held[t][b] = "shared"}

\* t has set the exclusive bit of b: it holds b, or waits for its readers.
Owns(t, b) ==
  held[t][b] = "exclusive" \/ (pc[t] = "readers" /\ bucket[t] = b)

\* The count of a word is the number of its readers, within its bits.
Counts ==
  \A b \in Buckets :
    word[b].shared = Cardinality(Readers(b)) /\ word[b].shared <= MaxShared

\* The exclusive bit of a word is set exactly while it has an owner.
Bit == \A b \in Buckets : word[b].exclusive <=> \E t \in Threads : Owns(t, b)

OneOwner ==
  \A b \in Buckets : \A t, u \in Threads : Owns(t, b) /\ Owns(u, b) => t = u

\* An owner that is in has seen the last reader leave, and none came after.
Alone ==
  \A b \in Buckets : \A t \in Threads :
    held[t][b] = "exclusive" => word[b].shared = 0

\* The word a compare-and-swap expects admits the latch.
Admits ==
  \A t \in Threads :
    /\ pc[t] = "cas" => ~Blocked(cur[t], mode[t])
    /\ pc[t] = "readers" => mode[t] = "exclusive"

\* A thread never asks for a latch it holds; txn_lock takes one per bucket.
NoReentry ==
  \A t \in Threads :
    /\ pc[t] \in {"load", "cas", "readers", "failed"} =>
         held[t][bucket[t]] = "no" /\ \A k \in todo[t] : k[1] # bucket[t]
    /\ \A k \in todo[t] : held[t][k[1]] = "no"
    /\ pc[t] \in {"idle", "link"} => \A b \in Buckets : held[t][b] = "no"
    /\ pc[t] \in {"idle", "link", "in", "unlock"} \/ ~txn[t] => todo[t] = {}

IInv ==
  TypeOK /\ Counts /\ Bit /\ OneOwner /\ Alone /\ Admits /\ NoReentry

USE BucketsAssumption, ThreadsAssumption, MaxSharedAssumption,
    MaxCallsAssumption
USE DEF Modes, Zero, Goto, Start, Acquired

\* A step of thread t.
Step(t) == call_step(t) \/ inner_step(t)

\* What unlock does to the latch it gives back.
UnlockEffect(t, b) ==
  /\ held' = [held EXCEPT ![t][b] = "no"]
  /\ word' = IF held[t][b] = "shared"
       THEN [word EXCEPT ![b].shared = (@ - 1) % (MaxShared + 1)]
       ELSE [word EXCEPT ![b].exclusive = FALSE]

-----------------------------------------------------------------------------
(* What the operators of the model return.                                 *)

\* The bucket that sorts first is one of the buckets.
LEMMA MinIn ==
  ASSUME NEW S \in SUBSET Nat, S # {}
  PROVE  Min(S) \in S
<1>1. PICK x \in S : \A y \in S : ~(<<y, x>> \in OpToRel(<, Nat))
  BY NatLessThanWellFounded, WFMin
<1>2. ASSUME NEW y \in S PROVE x =< y
  <2>1. <<y, x>> \notin {ss \in Nat \X Nat : ss[1] < ss[2]}
    BY <1>1, Zenon DEF OpToRel
  <2> QED
    BY <2>1
<1> QED
  BY <1>2 DEF Min

\* A count within its bits is not changed by the mask.
LEMMA MaskNoop ==
  ASSUME NEW n \in Nat, n <= MaxShared
  PROVE  n % (MaxShared + 1) = n
  OBVIOUS

\* The mask keeps a count within its bits.
LEMMA MaskNat ==
  ASSUME NEW n \in Int
  PROVE  n % (MaxShared + 1) \in Nat
  OBVIOUS

\* What latch traffic makes of a word.
LEMMA WordUpdates ==
  ASSUME NEW w \in Words, NEW n \in Nat
  PROVE  /\ [w EXCEPT !.shared = n] \in Words
         /\ [w EXCEPT !.shared = n].shared = n
         /\ [w EXCEPT !.shared = n].exclusive = w.exclusive
         /\ [w EXCEPT !.shared = n].linked = w.linked
         /\ [w EXCEPT !.exclusive = FALSE] \in Words
         /\ [w EXCEPT !.exclusive = FALSE].shared = w.shared
         /\ [w EXCEPT !.exclusive = FALSE].exclusive = FALSE
         /\ [w EXCEPT !.exclusive = FALSE].linked = w.linked
  BY DEF Words

LEMMA ReadersFinite ==
  ASSUME NEW b \in Buckets
  PROVE  IsFiniteSet(Readers(b)) /\ Cardinality(Readers(b)) \in Nat
  BY FS_Subset, FS_CardinalityType DEF Readers

\* The bucket txn_lock takes next is the bucket of one of its keys, and the
\* keys that are left are in other buckets.
LEMMA NextBucketIn ==
  ASSUME TypeOK, NEW t \in Threads, todo[t] # {}
  PROVE  /\ NextBucket(t) \in Buckets
         /\ NextMode(t) \in Modes
         /\ \E k \in todo[t] : k[1] = NextBucket(t)
<1> DEFINE S == {k[1] : k \in todo[t]}
<1>1. todo[t] \subseteq Buckets \X Modes
  BY DEF TypeOK
<1>2. S \in SUBSET Nat /\ S # {}
  BY <1>1
<1>3. Min(S) \in S
  BY <1>2, MinIn
<1> QED
  BY <1>1, <1>3 DEF NextBucket, NextMode

\* The latch unlock gives back is one the thread holds.
LEMMA MinHeld ==
  ASSUME NEW t \in Threads, Held(t) # {}
  PROVE  Min(Held(t)) \in Buckets /\ held[t][Min(Held(t))] # "no"
  BY MinIn DEF Held

-----------------------------------------------------------------------------

\* A step of t leaves what the other threads hold and are doing alone.
LEMMA OtherThreads ==
  ASSUME TypeOK, NEW t \in Threads, Step(t)
  PROVE  \A u \in Threads \ {t} :
           /\ pc'[u] = pc[u] /\ txn'[u] = txn[u] /\ todo'[u] = todo[u]
           /\ bucket'[u] = bucket[u] /\ mode'[u] = mode[u]
           /\ cur'[u] = cur[u] /\ held'[u] = held[u]
  BY DEF
       TypeOK, Step, call_step, inner_step, latch, txn_lock, link_load,
       txn_lock_next, txn_lock_done, try_lock_load, try_lock_give_up,
       try_lock_shared, try_lock_exclusive, try_lock_cas_lost, readers_gone,
       readers_timeout, try_lock_failed, unlock_call, unlock, unlock_return,
       link_cas, link_lost

\* Every step keeps the variables within their types.
LEMMA TypeStep == ASSUME TypeOK, NEW t \in Threads, Step(t) PROVE TypeOK'
<1>1. CASE latch(t)
  BY <1>1 DEF TypeOK, Labels, Words, latch
<1>2. CASE txn_lock(t)
  <2> PICK keys \in (SUBSET (Buckets \X Modes)) \ {{}} :
             todo' = [todo EXCEPT ![t] = keys]
    BY <1>2 DEF txn_lock
  <2> QED
    BY <1>2 DEF TypeOK, Labels, txn_lock
<1>3. CASE link_load(t)
  BY <1>3 DEF TypeOK, Labels, Words, link_load
<1>4. CASE txn_lock_next(t)
  <2>1. todo[t] # {}
    BY <1>4 DEF txn_lock_next
  <2>2. NextBucket(t) \in Buckets /\ NextMode(t) \in Modes
    BY <2>1, NextBucketIn
  <2>3. {k \in todo[t] : k[1] # NextBucket(t)} \in SUBSET (Buckets \X Modes)
    BY DEF TypeOK
  <2> QED
    BY <1>4, <2>2, <2>3 DEF TypeOK, Labels, txn_lock_next
<1>5. CASE txn_lock_done(t)
  BY <1>5 DEF TypeOK, Labels, Words, txn_lock_done
<1>6. CASE try_lock_load(t)
  BY <1>6 DEF TypeOK, Labels, Words, try_lock_load
<1>7. CASE try_lock_give_up(t)
  BY <1>7 DEF TypeOK, Labels, Words, try_lock_give_up
<1>8. CASE try_lock_shared(t)
  <2>1. [word[bucket[t]] EXCEPT !.shared = @ + 1] \in Words
    <3>1. word[bucket[t]] \in Words
      BY DEF TypeOK
    <3>2. word[bucket[t]].shared + 1 \in Nat
      BY <3>1 DEF Words
    <3> QED
      BY <3>1, <3>2, WordUpdates
  <2>2. word' \in [Buckets -> Words]
    BY <1>8, <2>1 DEF TypeOK, try_lock_shared
  <2> QED
    BY <1>8, <2>2 DEF TypeOK, Labels, try_lock_shared
<1>9. CASE try_lock_exclusive(t)
  BY <1>9 DEF TypeOK, Labels, Words, try_lock_exclusive
<1>10. CASE try_lock_cas_lost(t)
  BY <1>10 DEF TypeOK, Labels, Words, try_lock_cas_lost
<1>11. CASE readers_gone(t)
  BY <1>11 DEF TypeOK, Labels, Words, readers_gone
<1>12. CASE readers_timeout(t)
  BY <1>12 DEF TypeOK, Labels, Words, readers_timeout
<1>13. CASE try_lock_failed(t)
  BY <1>13 DEF TypeOK, Labels, Words, try_lock_failed
<1>14. CASE unlock_call(t)
  BY <1>14 DEF TypeOK, Labels, Words, unlock_call
<1>15. CASE unlock(t)
  <2> DEFINE b == Min(Held(t))
  <2>1. b \in Buckets
    BY <1>15, MinHeld DEF unlock
  <2>2. UnlockEffect(t, b)
    BY <1>15 DEF unlock, UnlockEffect
  <2> HIDE DEF b
  <2>3. word[b] \in Words
    BY <2>1 DEF TypeOK
  <2>4. (word[b].shared - 1) % (MaxShared + 1) \in Nat
    BY <2>3, MaskNat DEF Words
  <2>5. word' \in [Buckets -> Words]
    BY <2>1, <2>2, <2>3, <2>4, WordUpdates DEF TypeOK, UnlockEffect
  <2>6. held' \in [Threads -> [Buckets -> Modes \union {"no"}]]
    BY <2>1, <2>2 DEF TypeOK, UnlockEffect
  <2> QED
    BY <1>15, <2>5, <2>6 DEF TypeOK, unlock
<1>16. CASE unlock_return(t)
  BY <1>16 DEF TypeOK, Labels, Words, unlock_return
<1>17. CASE link_cas(t)
  BY <1>17 DEF TypeOK, Labels, Words, link_cas
<1>18. CASE link_lost(t)
  BY <1>18 DEF TypeOK, Labels, Words, link_lost
<1> QED
  BY <1>1, <1>2, <1>3, <1>4, <1>5, <1>6, <1>7, <1>8, <1>9,
     <1>10, <1>11, <1>12, <1>13, <1>14, <1>15, <1>16, <1>17, <1>18 DEF
       Step, call_step, inner_step

\* The exclusive bit and the link are changed without touching the rest of
\* the word.
LEMMA WordKept ==
  ASSUME TypeOK, NEW t \in Threads, NEW b \in Buckets
  PROVE  /\ try_lock_exclusive(t) \/ readers_timeout(t) =>
              /\ word'[b].shared = word[b].shared
              /\ word'[b].linked = word[b].linked
         /\ try_lock_shared(t) =>
              word'[b].linked = word[b].linked
         /\ link_cas(t) =>
              /\ word'[b].shared = word[b].shared
              /\ word'[b].exclusive = word[b].exclusive
              /\ word[b].linked => word'[b].linked
<1>1. word[b] \in Words /\ bucket[t] \in Buckets /\ cur[t] \in Words
  BY DEF TypeOK
<1>2. CASE try_lock_exclusive(t)
  BY <1>1, <1>2 DEF TypeOK, Words, try_lock_exclusive,
       link_cas, readers_timeout, try_lock_shared
<1>3. CASE readers_timeout(t)
  BY <1>1, <1>3 DEF TypeOK, Words, try_lock_exclusive,
       link_cas, readers_timeout, try_lock_shared
<1>4. CASE try_lock_shared(t)
  BY <1>1, <1>4 DEF TypeOK, Words, try_lock_exclusive,
       link_cas, readers_timeout, try_lock_shared
<1>5. CASE link_cas(t)
  <2>1. word' = [word EXCEPT ![bucket[t]] = [cur[t] EXCEPT !.linked = TRUE]]
    BY <1>5 DEF link_cas
  <2>2. word[bucket[t]] = cur[t]
    BY <1>5 DEF link_cas
  <2>3. word'[b] = IF b = bucket[t]
          THEN [word[b] EXCEPT !.linked = TRUE] ELSE word[b]
    BY <2>1, <2>2 DEF TypeOK
  <2> QED
    BY <1>1, <1>5, <2>3 DEF Words, try_lock_exclusive,
       link_cas, readers_timeout, try_lock_shared
<1> QED
  BY <1>2, <1>3, <1>4, <1>5

\* The count follows the readers: a reader that comes in was not one, and the
\* count it saw left room; a reader that leaves is counted.
LEMMA CountsStep ==
  ASSUME IInv, TypeOK', NEW t \in Threads, Step(t) PROVE Counts'
<1> USE DEF IInv
<1>1. CASE try_lock_shared(t)
  <2> SUFFICES ASSUME NEW b \in Buckets
               PROVE  /\ word'[b].shared = Cardinality(Readers(b)')
                      /\ word'[b].shared <= MaxShared
    BY DEF Counts
  <2>1. CASE b = bucket[t]
    <3>1. t \notin Readers(b) /\ Readers(b)' = Readers(b) \union {t}
      BY <1>1, <2>1 DEF TypeOK, NoReentry, Readers, try_lock_shared
    <3>2. word'[b].shared = word[b].shared + 1
      BY <1>1, <2>1 DEF TypeOK, Words, try_lock_shared
    <3>3. word[b].shared # MaxShared
      BY <1>1, <2>1 DEF Admits, Blocked, try_lock_shared
    <3>4. Cardinality(Readers(b)') = Cardinality(Readers(b)) + 1
      BY <3>1, ReadersFinite, FS_AddElement
    <3> QED
      BY <3>2, <3>3, <3>4, ReadersFinite DEF Counts
  <2>2. CASE b # bucket[t]
    <3>1. Readers(b)' = Readers(b) /\ word'[b] = word[b]
      BY <1>1, <2>2 DEF TypeOK, Readers, try_lock_shared
    <3> QED
      BY <3>1 DEF Counts
  <2> QED
    BY <2>1, <2>2
<1>2. CASE readers_gone(t)
  <2> SUFFICES ASSUME NEW b \in Buckets PROVE Readers(b)' = Readers(b)
    BY <1>2 DEF Counts, readers_gone
  <2> QED
    BY <1>2 DEF TypeOK, Admits, NoReentry, Readers, readers_gone
<1>3. CASE unlock(t)
  <2> DEFINE m == Min(Held(t))
  <2>1. m \in Buckets /\ held[t][m] # "no"
    BY <1>3, MinHeld DEF unlock
  <2>2. UnlockEffect(t, m)
    BY <1>3 DEF unlock, UnlockEffect
  <2> HIDE DEF m
  <2> SUFFICES ASSUME NEW b \in Buckets
               PROVE  /\ word'[b].shared = Cardinality(Readers(b)')
                      /\ word'[b].shared <= MaxShared
    BY DEF Counts
  <2>3. CASE b = m /\ held[t][b] = "shared"
    <3>1. t \in Readers(b) /\ Readers(b)' = Readers(b) \ {t}
      BY <2>2, <2>3 DEF TypeOK, Readers, UnlockEffect
    <3>2. /\ Cardinality(Readers(b)') = Cardinality(Readers(b)) - 1
          /\ Cardinality(Readers(b)') \in Nat
      BY <3>1, ReadersFinite, FS_RemoveElement, FS_CardinalityType
    <3>3. word'[b].shared = (word[b].shared - 1) % (MaxShared + 1)
      BY <2>2, <2>3 DEF TypeOK, Words, UnlockEffect
    <3>4. word[b].shared - 1 \in Nat /\ word[b].shared - 1 <= MaxShared
      BY <3>2, ReadersFinite DEF Counts
    <3>5. word'[b].shared = word[b].shared - 1
      BY <3>3, <3>4, MaskNoop
    <3> QED
      BY <3>2, <3>4, <3>5 DEF Counts
  <2>4. CASE b # m \/ held[t][b] # "shared"
    <3>1. Readers(b)' = Readers(b)
      BY <2>1, <2>2, <2>4 DEF TypeOK, Readers, UnlockEffect
    <3>2. word'[b].shared = word[b].shared
      BY <2>1, <2>2, <2>4 DEF TypeOK, Words, UnlockEffect
    <3> QED
      BY <3>1, <3>2 DEF Counts
  <2> QED
    BY <2>3, <2>4
<1>4. CASE /\ UNCHANGED held
           /\ \A b \in Buckets : word'[b].shared = word[b].shared
  BY <1>4 DEF Counts, Readers
<1>5. CASE try_lock_exclusive(t) \/ readers_timeout(t) \/ link_cas(t)
  <2>1. UNCHANGED held
    BY <1>5 DEF try_lock_exclusive, readers_timeout, link_cas
  <2> QED
    BY <1>4, <1>5, <2>1, WordKept
<1>6. CASE UNCHANGED <<held, word>>
  BY <1>4, <1>6
<1> QED
  BY <1>1, <1>2, <1>3, <1>5, <1>6 DEF
       Step, call_step, inner_step, latch, txn_lock, link_load, txn_lock_next,
       txn_lock_done, try_lock_load, try_lock_give_up, try_lock_cas_lost,
       try_lock_failed, unlock_call, unlock_return, link_lost

\* Only the thread whose compare-and-swap found the bit clear owns the bucket,
\* and the bit is cleared by that thread alone.
LEMMA OwnersStep ==
  ASSUME IInv, TypeOK', NEW t \in Threads, Step(t) PROVE Bit' /\ OneOwner'
<1> USE DEF IInv
<1>1. CASE try_lock_shared(t)
  <2>1. \A b \in Buckets : word'[b].exclusive = word[b].exclusive
    BY <1>1 DEF TypeOK, Words, try_lock_shared
  <2>2. \A b \in Buckets, u \in Threads : Owns(u, b)' <=> Owns(u, b)
    BY <1>1 DEF TypeOK, NoReentry, Owns, try_lock_shared
  <2> QED
    BY <2>1, <2>2 DEF Bit, OneOwner
<1>2. CASE try_lock_exclusive(t)
  <2>1. ~word[bucket[t]].exclusive
    BY <1>2 DEF Admits, Blocked, try_lock_exclusive
  <2>2. \A u \in Threads : ~Owns(u, bucket[t])
    BY <2>1 DEF TypeOK, Bit
  <2>3. \A b \in Buckets, u \in Threads :
          Owns(u, b)' <=> Owns(u, b) \/ (u = t /\ b = bucket[t])
    BY <1>2 DEF TypeOK, Owns, try_lock_exclusive
  <2>4. \A b \in Buckets :
          word'[b].exclusive <=> b = bucket[t] \/ word[b].exclusive
    BY <1>2 DEF TypeOK, Words, try_lock_exclusive
  <2>5. Bit'
    BY <2>2, <2>3, <2>4 DEF TypeOK, Bit
  <2>6. OneOwner'
    BY <2>2, <2>3 DEF OneOwner
  <2> QED
    BY <2>5, <2>6
<1>3. CASE readers_gone(t)
  <2>1. \A b \in Buckets, u \in Threads : Owns(u, b)' <=> Owns(u, b)
    BY <1>3 DEF TypeOK, Admits, Owns, readers_gone
  <2> QED
    BY <1>3, <2>1 DEF Bit, OneOwner, readers_gone
<1>4. CASE readers_timeout(t)
  <2>1. Owns(t, bucket[t])
    BY <1>4 DEF Owns, readers_timeout
  <2>2. \A b \in Buckets, u \in Threads :
          Owns(u, b)' <=> Owns(u, b) /\ ~(u = t /\ b = bucket[t])
    BY <1>4 DEF TypeOK, NoReentry, Owns, readers_timeout
  <2>3. \A b \in Buckets :
          word'[b].exclusive <=> b # bucket[t] /\ word[b].exclusive
    BY <1>4 DEF TypeOK, Words, readers_timeout
  <2>4. Bit'
    <3> SUFFICES ASSUME NEW b \in Buckets
                 PROVE  word'[b].exclusive <=> \E u \in Threads : Owns(u, b)'
      BY DEF Bit
    <3>1. CASE b = bucket[t]
      BY <2>1, <2>2, <2>3, <3>1 DEF OneOwner
    <3>2. CASE b # bucket[t]
      BY <2>2, <2>3, <3>2 DEF Bit
    <3> QED
      BY <3>1, <3>2
  <2>5. OneOwner'
    BY <2>2 DEF OneOwner
  <2> QED
    BY <2>4, <2>5
<1>5. CASE unlock(t)
  <2> DEFINE m == Min(Held(t))
  <2>1. m \in Buckets /\ held[t][m] # "no"
    BY <1>5, MinHeld DEF unlock
  <2>2. UnlockEffect(t, m) /\ pc[t] = "unlock" /\ UNCHANGED <<pc, bucket>>
    BY <1>5 DEF unlock, UnlockEffect
  <2> HIDE DEF m
  <2>3. \A b \in Buckets, u \in Threads :
          Owns(u, b)' <=> Owns(u, b) /\ ~(u = t /\ b = m)
    BY <2>1, <2>2 DEF TypeOK, Owns, UnlockEffect
  <2>4. CASE held[t][m] = "exclusive"
    <3>1. \A b \in Buckets :
            word'[b].exclusive <=> b # m /\ word[b].exclusive
      BY <2>1, <2>2, <2>4 DEF TypeOK, Words, UnlockEffect
    <3>2. Owns(t, m)
      BY <2>4 DEF Owns
    <3>3. Bit'
      BY <2>1, <2>3, <3>1, <3>2 DEF Bit, OneOwner
    <3>4. OneOwner'
      BY <2>3 DEF OneOwner
    <3> QED
      BY <3>3, <3>4
  <2>5. CASE held[t][m] = "shared"
    <3>1. \A b \in Buckets : word'[b].exclusive = word[b].exclusive
      BY <2>1, <2>2, <2>5 DEF TypeOK, Words, UnlockEffect
    <3>2. ~Owns(t, m)
      BY <2>2, <2>5 DEF Owns
    <3> QED
      BY <2>1, <2>3, <3>1, <3>2 DEF Bit, OneOwner
  <2> QED
    BY <2>1, <2>4, <2>5 DEF TypeOK
<1>6. CASE /\ \A b \in Buckets : word'[b].exclusive = word[b].exclusive
           /\ UNCHANGED held
           /\ pc[t] # "readers" /\ pc'[t] # "readers"
  <2>1. \A b \in Buckets, u \in Threads : Owns(u, b)' <=> Owns(u, b)
    BY <1>6, OtherThreads DEF Owns
  <2> QED
    BY <1>6, <2>1 DEF Bit, OneOwner
<1>7. CASE link_cas(t)
  <2>1. UNCHANGED held /\ pc[t] # "readers" /\ pc'[t] # "readers"
    BY <1>7 DEF TypeOK, link_cas
  <2> QED
    BY <1>6, <1>7, <2>1, WordKept
<1>8. CASE UNCHANGED <<held, word>> /\ pc[t] # "readers" /\ pc'[t] # "readers"
  BY <1>6, <1>8
<1> QED
  BY <1>1, <1>2, <1>3, <1>4, <1>5, <1>7, <1>8 DEF
       TypeOK, Step, call_step, inner_step, latch, txn_lock, link_load,
       txn_lock_next, txn_lock_done, try_lock_load, try_lock_give_up,
       try_lock_cas_lost, try_lock_failed, unlock_call, unlock_return,
       link_lost

\* No reader comes in while the exclusive bit is set, and a writer goes in only
\* after the last reader has left.
LEMMA AloneStep ==
  ASSUME IInv, TypeOK', NEW t \in Threads, Step(t) PROVE Alone'
<1> USE DEF IInv
<1>1. CASE try_lock_shared(t)
  <2>1. \A u \in Threads : ~Owns(u, bucket[t])
    BY <1>1 DEF TypeOK, Admits, Blocked, Bit, try_lock_shared
  <2> QED
    BY <1>1, <2>1 DEF TypeOK, Words, Alone, Owns, try_lock_shared
<1>2. CASE readers_gone(t)
  BY <1>2 DEF TypeOK, Alone, readers_gone
<1>3. CASE unlock(t)
  <2> DEFINE m == Min(Held(t))
  <2>1. m \in Buckets /\ held[t][m] # "no"
    BY <1>3, MinHeld DEF unlock
  <2>2. UnlockEffect(t, m)
    BY <1>3 DEF unlock, UnlockEffect
  <2> HIDE DEF m
  <2>3. CASE held[t][m] = "shared"
    <3>1. t \in Readers(m)
      BY <2>3 DEF Readers
    <3>2. word[m].shared # 0
      BY <2>1, <3>1, ReadersFinite, FS_EmptySet DEF Counts
    <3>3. \A u \in Threads : held[u][m] # "exclusive"
      BY <2>1, <3>2 DEF Alone
    <3> QED
      BY <2>1, <2>2, <2>3, <3>3 DEF TypeOK, Words, Alone, UnlockEffect
  <2>4. CASE held[t][m] # "shared"
    BY <2>1, <2>2, <2>4 DEF TypeOK, Words, Alone, UnlockEffect
  <2> QED
    BY <2>3, <2>4
<1>4. CASE /\ UNCHANGED held
           /\ \A b \in Buckets : word'[b].shared = word[b].shared
  BY <1>4 DEF Alone
<1>5. CASE try_lock_exclusive(t) \/ readers_timeout(t) \/ link_cas(t)
  <2>1. UNCHANGED held
    BY <1>5 DEF try_lock_exclusive, readers_timeout, link_cas
  <2> QED
    BY <1>4, <1>5, <2>1, WordKept
<1>6. CASE UNCHANGED <<held, word>>
  BY <1>4, <1>6
<1> QED
  BY <1>1, <1>2, <1>3, <1>5, <1>6 DEF
       Step, call_step, inner_step, latch, txn_lock, link_load, txn_lock_next,
       txn_lock_done, try_lock_load, try_lock_give_up, try_lock_cas_lost,
       try_lock_failed, unlock_call, unlock_return, link_lost

\* A compare-and-swap is made with a word that was looked at.
LEMMA AdmitsStep ==
  ASSUME IInv, TypeOK', NEW t \in Threads, Step(t) PROVE Admits'
<1> USE DEF IInv
<1>1. CASE pc'[t] \notin {"cas", "readers"}
  BY <1>1, OtherThreads DEF Admits
<1>2. CASE try_lock_load(t)
  BY <1>2 DEF TypeOK, Admits, Blocked, try_lock_load
<1>3. CASE try_lock_exclusive(t)
  BY <1>3 DEF TypeOK, Admits, try_lock_exclusive
<1> QED
  BY <1>1, <1>2, <1>3 DEF
       TypeOK, Labels, Step, call_step, inner_step, latch, txn_lock,
       link_load, txn_lock_next, txn_lock_done, try_lock_give_up,
       try_lock_shared, try_lock_cas_lost, readers_gone, readers_timeout,
       try_lock_failed, unlock_call, unlock, unlock_return, link_cas,
       link_lost

\* txn_lock takes one latch per bucket and an operation only one.
LEMMA NoReentryStep ==
  ASSUME IInv, TypeOK', NEW t \in Threads, Step(t) PROVE NoReentry'
<1> USE DEF IInv
<1>1. CASE txn_lock_next(t)
  <2>1. /\ NextBucket(t) \in Buckets
        /\ \E k \in todo[t] : k[1] = NextBucket(t)
    BY <1>1, NextBucketIn DEF txn_lock_next
  <2>2. held[t][NextBucket(t)] = "no"
    BY <2>1 DEF NoReentry
  <2>3. \A k \in todo'[t] : k \in todo[t] /\ k[1] # NextBucket(t)
    BY <1>1 DEF TypeOK, txn_lock_next
  <2>4. bucket'[t] = NextBucket(t) /\ pc'[t] = "load" /\ pc[t] = "txn"
    BY <1>1 DEF TypeOK, txn_lock_next
  <2>5. UNCHANGED <<held, txn>>
    BY <1>1 DEF txn_lock_next
  <2> QED
    BY <2>2, <2>3, <2>4, <2>5, OtherThreads DEF NoReentry
<1>2. CASE readers_gone(t) \/ try_lock_shared(t)
  <2>1. /\ \A b \in Buckets :
             held'[t][b] = IF b = bucket[t] THEN mode[t] ELSE held[t][b]
        /\ pc'[t] = IF txn[t] THEN "txn" ELSE "in"
        /\ UNCHANGED <<todo, txn>>
        /\ pc[t] \in {"cas", "readers"}
    BY <1>2 DEF TypeOK, readers_gone, try_lock_shared
  <2>2. \A k \in todo[t] : k[1] \in Buckets /\ k[1] # bucket[t]
    BY <2>1 DEF TypeOK, NoReentry
  <2>3. \A k \in todo'[t] : held'[t][k[1]] = "no"
    <3> SUFFICES ASSUME NEW k \in todo[t] PROVE held'[t][k[1]] = "no"
      BY <2>1
    <3>1. held[t][k[1]] = "no"
      BY DEF NoReentry
    <3>2. k[1] \in Buckets /\ k[1] # bucket[t]
      BY <2>2
    <3>3. PICK b : b = k[1]
      OBVIOUS
    <3>4. held'[t][b] = held[t][b]
      BY <2>1, <3>2, <3>3
    <3> QED BY <3>1, <3>3, <3>4
  <2>4. pc'[t] = "txn" \/ (pc'[t] = "in" /\ todo'[t] = {})
    BY <2>1 DEF NoReentry
  <2>5. ~txn'[t] => todo'[t] = {}
    BY <2>1 DEF NoReentry
  <2> QED
    BY <2>3, <2>4, <2>5, OtherThreads DEF NoReentry
<1>3. CASE unlock(t)
  <2> DEFINE m == Min(Held(t))
  <2>1. m \in Buckets
    BY <1>3, MinHeld DEF unlock
  <2>2. /\ UnlockEffect(t, m) /\ pc[t] = "unlock"
        /\ UNCHANGED <<pc, bucket, todo, txn>>
    BY <1>3 DEF unlock, UnlockEffect
  <2> HIDE DEF m
  <2>3. todo'[t] = {} /\ pc'[t] = "unlock"
    BY <2>2 DEF NoReentry
  <2> QED
    BY <2>3, OtherThreads DEF NoReentry
<1>4. CASE unlock_return(t)
  BY <1>4, OtherThreads DEF TypeOK, NoReentry, Held, unlock_return
<1>5. CASE latch(t)
  BY <1>5, OtherThreads DEF TypeOK, NoReentry, latch
<1>6. CASE txn_lock(t)
  <2>1. PICK keys \in (SUBSET (Buckets \X Modes)) \ {{}} :
               todo' = [todo EXCEPT ![t] = keys]
    BY <1>6 DEF txn_lock
  <2>2. \A k \in todo'[t] : k[1] \in Buckets
    BY <2>1 DEF TypeOK
  <2>3. /\ pc[t] = "idle" /\ pc'[t] = "txn" /\ txn'[t]
        /\ UNCHANGED held
    BY <1>6 DEF TypeOK, txn_lock
  <2>4. \A k \in todo'[t] : held'[t][k[1]] = "no"
    BY <2>2, <2>3 DEF NoReentry
  <2> QED
    BY <2>3, <2>4, OtherThreads DEF NoReentry
<1>7. CASE /\ UNCHANGED <<held, txn, todo>>
           /\ \/ /\ {pc[t], pc'[t]} \subseteq
                      {"load", "cas", "readers", "failed"}
                 /\ UNCHANGED bucket
              \/ {pc[t], pc'[t]} \subseteq {"idle", "link"}
              \/ pc[t] = "in" /\ pc'[t] = "unlock"
              \/ pc[t] = "txn" /\ pc'[t] = "in" /\ todo[t] = {}
  BY <1>7, OtherThreads DEF NoReentry
<1> QED
  BY <1>1, <1>2, <1>3, <1>4, <1>5, <1>6, <1>7 DEF
       TypeOK, Step, call_step, inner_step, link_load, txn_lock_done,
       try_lock_load, try_lock_give_up, try_lock_exclusive, try_lock_cas_lost,
       readers_timeout, try_lock_failed, unlock_call, link_cas, link_lost

-----------------------------------------------------------------------------

LEMMA InitIInv == Init => IInv
<1> SUFFICES ASSUME Init PROVE IInv
  OBVIOUS
<1>1. Min(Buckets) \in Buckets
  BY MinIn
<1>2. TypeOK
  BY <1>1 DEF Init, TypeOK, Words, Labels
<1>3. Counts
  <2>1. \A b \in Buckets : Readers(b) = {}
    BY DEF Init, Readers
  <2>2. \A b \in Buckets : word[b].shared = 0
    BY DEF Init
  <2> QED
    BY <2>1, <2>2, FS_EmptySet DEF Counts
<1> QED
  BY <1>2, <1>3 DEF Init, IInv, Bit, OneOwner, Alone, Admits, NoReentry, Owns

LEMMA NextIInv == IInv /\ [Next]_vars => IInv'
<1> SUFFICES ASSUME IInv, [Next]_vars PROVE IInv'
  OBVIOUS
<1>1. CASE Next
  <2>1. PICK t \in Threads : Step(t)
    BY <1>1 DEF Next, Step
  <2>2. TypeOK'
    BY <2>1, TypeStep DEF IInv
  <2> QED
    BY <2>1, <2>2, CountsStep, OwnersStep, AloneStep, AdmitsStep,
       NoReentryStep DEF IInv
<1>2. CASE UNCHANGED vars
  BY <1>2 DEF vars, IInv, TypeOK, Counts, Readers, Bit, OneOwner, Alone,
       Admits, NoReentry, Owns, Blocked
<1> QED
  BY <1>1, <1>2

\* A thread that holds a bucket exclusively is alone with it, whatever the
\* number of readers that race with the writers of try_lock_exclusive.
THEOREM MutualExclusionHolds == Spec => []MutualExclusion
<1>1. IInv => MutualExclusion
  <2> SUFFICES ASSUME IInv, NEW b \in Buckets, NEW t \in Threads,
                      NEW u \in Threads, t # u, held[t][b] = "exclusive"
               PROVE  held[u][b] = "no"
    BY DEF MutualExclusion
  <2>1. held[u][b] # "exclusive"
    BY DEF IInv, OneOwner, Owns
  <2>2. u \notin Readers(b)
    BY ReadersFinite, FS_EmptySet DEF IInv, Alone, Counts
  <2>3. held[u][b] \in {"shared", "exclusive", "no"}
    BY DEF IInv, TypeOK
  <2> QED
    BY <2>1, <2>2, <2>3 DEF Readers
<1> QED
  BY InitIInv, NextIInv, <1>1, PTL DEF Spec

\* The debug_asserts of unlock_shared and unlock_exclusive hold, and the
\* readers' count neither drifts from the readers nor overflows its bits.
THEOREM UnlockAssertsHold == Spec => []UnlockAsserts
<1>1. IInv => UnlockAsserts
  <2> SUFFICES ASSUME IInv PROVE UnlockAsserts
    OBVIOUS
  <2>1. ASSUME NEW b \in Buckets, NEW t \in Threads, held[t][b] = "shared"
        PROVE  word[b].shared # 0
    <3>1. t \in Readers(b)
      BY <2>1 DEF Readers
    <3> QED
      BY <3>1, ReadersFinite, FS_EmptySet DEF IInv, Counts
  <2>2. ASSUME NEW b \in Buckets, NEW t \in Threads, held[t][b] = "exclusive"
        PROVE  word[b].exclusive
    BY <2>2 DEF IInv, Bit, Owns
  <2> QED
    BY <2>1, <2>2 DEF IInv, Counts, Readers, UnlockAsserts
<1> QED
  BY InitIInv, NextIInv, <1>1, PTL DEF Spec

\* No step of a latch or of another link takes an overflow link back.
THEOREM LinkKeptHolds == Spec => LinkKept
<1>1. IInv /\ [Next]_vars =>
        [\A b \in Buckets : word[b].linked => word'[b].linked]_vars
  <2> SUFFICES ASSUME IInv, NEW t \in Threads, Step(t), NEW b \in Buckets,
                      word[b].linked
               PROVE  word'[b].linked
    BY DEF Next, Step
  <2>1. CASE unlock(t)
    <3> DEFINE m == Min(Held(t))
    <3>1. m \in Buckets /\ UnlockEffect(t, m)
      BY <2>1, MinHeld DEF unlock, UnlockEffect
    <3> HIDE DEF m
    <3> QED
      BY <3>1 DEF IInv, TypeOK, Words, UnlockEffect
  <2>2. CASE \/ try_lock_shared(t) \/ try_lock_exclusive(t)
             \/ readers_timeout(t) \/ link_cas(t)
    BY <2>2, WordKept DEF IInv
  <2>3. CASE UNCHANGED word
    BY <2>3
  <2> QED
    BY <2>1, <2>2, <2>3 DEF
         Step, call_step, inner_step, latch, txn_lock, link_load,
         txn_lock_next, txn_lock_done, try_lock_load, try_lock_give_up,
         try_lock_cas_lost, readers_gone, try_lock_failed, unlock_call,
         unlock_return, link_lost
<1> QED
  BY InitIInv, NextIInv, <1>1, PTL DEF Spec, LinkKept
=============================================================================
