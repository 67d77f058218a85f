-------------------------- MODULE HashIndex_proofs --------------------------
(***************************************************************************)
(* Proofs about HashIndex, for any number of threads, tags, entries per    *)
(* bucket and overflow buckets.                                            *)
(*                                                                         *)
(* The argument of the two-phase insert: a claimant publishes its tag      *)
(* before it scans, so that of two claimants of a tag at least one still   *)
(* has the other's entry ahead of it, meets it and withdraws.  The         *)
(* argument of find_tag: a final entry never goes away, so that one that   *)
(* was there at the call stays ahead of the walk until the walk meets it.  *)
(***************************************************************************)
EXTENDS HashIndex, TLAPS

Labels == {"idle", "find", "find_end", "missing", "scan", "scan_end", "link",
           "claim", "rescan", "rescan_end", "withdraw", "confirm", "found",
           "panic"}

TypeOK ==
  /\ tag \in [Entries -> Tags \union {None}]
  /\ tentative \in [Entries -> BOOLEAN]
  /\ link \in [Places -> 0 .. ArenaLen]
  /\ overflow_next \in Nat \ {0}
  /\ pc \in [Threads -> Labels]
  /\ want \in [Threads -> Tags \union {None}]
  /\ bkt \in [Threads -> Places]
  /\ idx \in [Threads -> 1 .. EntriesPerBucket]
  /\ new \in [Threads -> Nat]
  /\ free \in [Threads -> Entries \union {None}]
  /\ mine \in [Threads -> Entries \union {None}]
  /\ present \in [Threads -> BOOLEAN]

Claiming(t) == pc[t] \in {"rescan", "rescan_end", "withdraw", "confirm"}

\* The walk of t is done with entry e.
Behind(t, e) ==
  \/ e[1] < bkt[t]
  \/ e[1] = bkt[t] /\ e[2] < idx[t]
  \/ /\ pc[t] \in {"find_end", "scan_end", "rescan_end"}
     /\ e[1] = bkt[t] /\ e[2] = idx[t]

\* Thread t, rescanning, has found no rival in entry e.
Passed(t, e) ==
  \/ pc[t] = "confirm"
  \/ pc[t] \in {"rescan", "rescan_end"} /\ Behind(t, e)

\* The k-th bucket has been linked.
Linked(k) == k = 1 \/ link[k - 1] # 0

\* Buckets are linked in the order of their places, each with an address
\* handed out after that of the one before.
LinksGrow ==
  /\ \A k \in Places : link[k] < overflow_next
  /\ \A k \in Places : link[k] # 0 => link[k] >= k
  /\ \A j, k \in Places : j < k /\ link[k] # 0 => link[j] # 0
  /\ \A t \in Threads : pc[t] = "link" =>
       /\ new[t] \in 1 .. ArenaLen /\ new[t] < overflow_next
       /\ bkt[t] # 1 => new[t] > link[bkt[t] - 1]

\* Walks, free entries and occupied entries stay on the linked chain.
OnChain ==
  /\ \A e \in Entries : tag[e] # None => Linked(e[1])
  /\ \A t \in Threads :
       /\ Linked(bkt[t])
       /\ free[t] # None => Linked(free[t][1])

\* Where a walk stands, and what it has to go on with.
AtLabels ==
  \A t \in Threads :
    /\ pc[t] = "claim" => free[t] # None
    /\ pc[t] \in {"find_end", "scan_end", "link", "rescan_end"} =>
         idx[t] = EntriesPerBucket
    /\ pc[t] \in {"idle", "missing", "found"} => bkt[t] = 1 /\ idx[t] = 1
    /\ pc[t] # "idle" => want[t] \in Tags

\* A claimant owns its tentative entry; who was given an entry finds the tag
\* in it.
Claims ==
  \A t \in Threads :
    /\ Claiming(t) => /\ mine[t] # None
                      /\ tag[mine[t]] = want[t] /\ tentative[mine[t]]
                      /\ \A u \in Threads \ {t} :
                           Claiming(u) => mine[u] # mine[t]
    /\ pc[t] = "found" => mine[t] # None /\ Final(mine[t], want[t])

\* Publish, then scan: of two claimants of a tag at most one has passed the
\* other's entry, and none has passed a final one.
ScansCross ==
  \A t \in Threads : Claiming(t) =>
    /\ \A e \in Entries : Passed(t, e) => ~Final(e, want[t])
    /\ \A u \in Threads \ {t} :
         Claiming(u) /\ want[u] = want[t] =>
           ~(Passed(t, mine[u]) /\ Passed(u, mine[t]))

\* find_tag still has an entry with the tag ahead of it, if there was one.
Ahead ==
  \A t \in Threads :
    /\ pc[t] \in {"find", "find_end"} /\ present[t] =>
         \E e \in Entries : Final(e, want[t]) /\ ~Behind(t, e)
    /\ pc[t] = "missing" => ~present[t]

IInv ==
  /\ TypeOK
  /\ LinksGrow
  /\ OnChain
  /\ AtLabels
  /\ Claims
  /\ ScansCross
  /\ Ahead
  /\ UniqueTag

USE EntriesAssumption, ArenaAssumption, NoneAssumption
USE DEF Goto, chain, place, Here, LastBucket, Final

\* A step of thread t.
Step(t) == find_step(t) \/ scan_step(t) \/ claim_step(t)

-----------------------------------------------------------------------------
(* Entries, walks and final entries.                                       *)

LEMMA PlaceBefore ==
  ASSUME NEW k \in Places
  PROVE  /\ k \in Nat /\ k >= 1 /\ k <= ArenaLen + 1
         /\ k # 1 => k - 1 \in Places
  BY DEF Places

LEMMA EntryPlace ==
  ASSUME NEW e \in Entries
  PROVE  /\ e[1] \in Places /\ e[1] \in Nat /\ e[1] >= 1 /\ e[1] <= ArenaLen + 1
         /\ e[2] \in 1 .. EntriesPerBucket
         /\ e[2] \in Nat /\ e[2] >= 1 /\ e[2] <= EntriesPerBucket
  BY DEF Entries, Places

LEMMA SameEntryPlace ==
  ASSUME NEW e \in Entries, NEW f \in Entries, e[1] = f[1], e[2] = f[2]
  PROVE  e = f
  BY DEF Entries

LEMMA HereIn ==
  ASSUME TypeOK, NEW t \in Threads
  PROVE  /\ Here(t) \in Entries /\ Here(t)[1] = bkt[t] /\ Here(t)[2] = idx[t]
         /\ bkt[t] \in Nat /\ bkt[t] >= 1 /\ idx[t] \in Nat /\ idx[t] >= 1
  BY DEF TypeOK, Entries, Places

\* A step of t leaves the locals of the other threads alone.
LEMMA OtherThreads ==
  ASSUME TypeOK, NEW t \in Threads, Step(t)
  PROVE  \A u \in Threads \ {t} :
           /\ pc'[u] = pc[u] /\ want'[u] = want[u] /\ bkt'[u] = bkt[u]
           /\ idx'[u] = idx[u] /\ new'[u] = new[u] /\ free'[u] = free[u]
           /\ mine'[u] = mine[u] /\ present'[u] = present[u]
  BY DEF
       Step, find_step, scan_step, claim_step, TypeOK, find_tag, find_tag_hit,
       find_tag_pass, find_tag_next, find_tag_none, find_or_create_tag,
       scan_hit, scan_pass, scan_next, scan_free, scan_full, link_overflow,
       claim, claim_lost, rescan_rival, rescan_pass, rescan_next,
       rescan_clear, withdraw, confirm, Call, Return, Rewind, Advance,
       FollowLink

\* What a walk has behind it is what it has loaded: one entry more with every
\* load, nothing more when it follows a link, nothing when it starts.
LEMMA WalkAdvances ==
  ASSUME TypeOK, NEW t \in Threads, NEW e \in Entries,
         NEW here \in {"find", "scan", "rescan"},
         NEW end \in {"find_end", "scan_end", "rescan_end"},
         pc[t] = here, Advance(t, here, end)
  PROVE  Behind(t, e)' <=> Behind(t, e) \/ e = Here(t)
<1>1. e[1] \in Nat /\ e[2] \in Nat /\ e[2] <= EntriesPerBucket
  BY EntryPlace
<1>2. e = Here(t) <=> e[1] = bkt[t] /\ e[2] = idx[t]
  BY HereIn, SameEntryPlace
<1>3. bkt[t] \in Nat /\ idx[t] \in Nat
  BY HereIn
<1>4. CASE idx[t] = EntriesPerBucket
  <2>1. pc'[t] = end /\ bkt' = bkt /\ idx' = idx
    BY <1>4 DEF TypeOK, Advance
  <2> QED
    BY <1>1, <1>2, <1>3, <2>1 DEF Behind
<1>5. CASE idx[t] # EntriesPerBucket
  <2>1. pc' = pc /\ bkt' = bkt /\ idx'[t] = idx[t] + 1
    BY <1>5 DEF TypeOK, Advance
  <2> QED
    BY <1>1, <1>2, <1>3, <2>1 DEF Behind
<1> QED
  BY <1>4, <1>5

LEMMA WalkFollows ==
  ASSUME TypeOK, AtLabels, NEW t \in Threads, NEW e \in Entries,
         NEW here \in {"find", "scan", "rescan"},
         NEW end \in {"find_end", "scan_end", "rescan_end"},
         FollowLink(t, end, here)
  PROVE  Behind(t, e)' <=> Behind(t, e)
<1>1. pc[t] = end /\ pc'[t] = here /\ bkt'[t] = bkt[t] + 1 /\ idx'[t] = 1
  BY DEF TypeOK, FollowLink
<1>2. idx[t] = EntriesPerBucket
  BY <1>1 DEF AtLabels
<1>3. /\ e[1] \in Nat /\ e[2] \in Nat
      /\ e[2] >= 1 /\ e[2] <= EntriesPerBucket
  BY EntryPlace
<1>4. bkt[t] \in Nat
  BY HereIn
<1> QED
  BY <1>1, <1>2, <1>3, <1>4 DEF Behind

LEMMA WalkStarts ==
  ASSUME NEW t \in Threads, NEW e \in Entries, bkt[t] = 1, idx[t] = 1,
         pc[t] \notin {"find_end", "scan_end", "rescan_end"}
  PROVE  ~Behind(t, e)
  BY EntryPlace DEF Behind

\* A walk that ends at the last bucket has every occupied entry behind it.
LEMMA WalkEnds ==
  ASSUME TypeOK, LinksGrow, OnChain, AtLabels, NEW t \in Threads,
         pc[t] \in {"find_end", "rescan_end"}, LastBucket(t),
         NEW e \in Entries, tag[e] # None
  PROVE  Behind(t, e)
<1>1. Linked(e[1])
  BY DEF OnChain
<1>2. /\ e[1] \in Nat /\ e[1] >= 1 /\ e[1] <= ArenaLen + 1
      /\ e[2] \in Nat /\ e[2] <= EntriesPerBucket
  BY EntryPlace
<1>3. bkt[t] \in Nat /\ bkt[t] >= 1 /\ bkt[t] \in Places
  BY HereIn DEF TypeOK
<1>4. ~(e[1] > bkt[t])
  <2> SUFFICES ASSUME e[1] > bkt[t] PROVE FALSE
    OBVIOUS
  <2>1. link[e[1] - 1] # 0
    BY <1>1, <1>2, <1>3 DEF Linked
  <2>2. e[1] - 1 \in Places /\ e[1] - 1 >= bkt[t]
    BY <1>2, <1>3 DEF Places
  <2>3. link[bkt[t]] # 0
    <3>1. CASE bkt[t] = e[1] - 1
      BY <2>1, <3>1
    <3>2. CASE bkt[t] < e[1] - 1
      BY <1>3, <2>1, <2>2, <3>2 DEF LinksGrow
    <3> QED
      BY <1>2, <1>3, <2>2, <3>1, <3>2
  <2> QED
    BY <2>3
<1>5. idx[t] = EntriesPerBucket
  BY DEF AtLabels
<1> QED
  BY <1>2, <1>3, <1>4, <1>5 DEF Behind

\* Whatever the threads do, a final entry stays as it is: a claim takes an
\* empty entry, and a claimant changes only its own tentative one.
LEMMA FinalKept ==
  ASSUME IInv, NEW t \in Threads, Step(t), NEW e \in Entries, NEW g \in Tags,
         Final(e, g)
  PROVE  Final(e, g)'
<1> USE DEF IInv
<1>1. CASE claim(t)
  BY <1>1 DEF TypeOK, claim
<1>2. CASE withdraw(t) \/ confirm(t)
  <2>1. mine[t] # e
    BY <1>2 DEF Claims, Claiming, withdraw, confirm
  <2> QED
    BY <1>2, <2>1 DEF TypeOK, withdraw, confirm
<1>3. CASE UNCHANGED <<tag, tentative>>
  BY <1>3
<1> QED
  BY <1>1, <1>2, <1>3 DEF
       Step, find_step, scan_step, claim_step, find_tag, find_tag_hit,
       find_tag_pass, find_tag_next, find_tag_none, find_or_create_tag,
       scan_hit, scan_pass, scan_next, scan_free, scan_full, link_overflow,
       claim_lost, rescan_rival, rescan_pass, rescan_next, rescan_clear, Call,
       Return, Rewind, Advance, FollowLink

-----------------------------------------------------------------------------

\* Every step keeps the variables within their types.  A walk follows a link
\* only to a place on the chain, because links grow.
LEMMA TypeStep == ASSUME IInv, NEW t \in Threads, Step(t) PROVE TypeOK'
<1> USE DEF IInv
<1>1. CASE find_tag(t)
  <2> PICK g \in Tags :
             /\ want' = [want EXCEPT ![t] = g]
             /\ present' = [present EXCEPT ![t] = \E i \in Entries : Final(i, g)]
    BY <1>1 DEF Call, find_tag
  <2> QED
    BY <1>1 DEF TypeOK, Labels, Call, find_tag
<1>2. CASE find_tag_hit(t)
  <2>1. Here(t) \in Entries
    BY HereIn
  <2>2. 1 \in Places /\ 1 \in 1 .. EntriesPerBucket
    BY DEF Places
  <2> QED
    BY <1>2, <2>1, <2>2 DEF TypeOK, Labels, find_tag_hit, Return, Rewind
<1>3. CASE find_tag_pass(t)
  BY <1>3, HereIn DEF TypeOK, Labels, find_tag_pass, Advance
<1>4. CASE find_tag_next(t)
  <2>1. bkt[t] + 1 \in Places /\ 1 \in 1 .. EntriesPerBucket
    BY <1>4 DEF TypeOK, LinksGrow, Places, FollowLink, find_tag_next
  <2> QED
    BY <1>4, <2>1 DEF TypeOK, Labels, FollowLink, find_tag_next
<1>5. CASE find_tag_none(t)
  BY <1>5 DEF TypeOK, Labels, Places, find_tag_none, Return, Rewind
<1>6. CASE find_or_create_tag(t)
  <2> PICK g \in Tags :
             /\ want' = [want EXCEPT ![t] = g]
             /\ present' = [present EXCEPT ![t] = \E i \in Entries : Final(i, g)]
    BY <1>6 DEF Call, find_or_create_tag
  <2> QED
    BY <1>6 DEF TypeOK, Labels, Call, find_or_create_tag
<1>7. CASE scan_hit(t)
  <2>1. Here(t) \in Entries
    BY HereIn
  <2>2. 1 \in Places /\ 1 \in 1 .. EntriesPerBucket
    BY DEF Places
  <2> QED
    BY <1>7, <2>1, <2>2 DEF TypeOK, Labels, scan_hit, Return, Rewind
<1>8. CASE scan_pass(t)
  <2>1. free' \in [Threads -> Entries \union {None}]
    BY <1>8, HereIn DEF TypeOK, scan_pass
  <2>2. /\ pc' \in [Threads -> Labels]
        /\ idx' \in [Threads -> 1 .. EntriesPerBucket]
        /\ bkt' = bkt
    BY <1>8 DEF TypeOK, Labels, Advance, scan_pass
  <2> QED
    BY <1>8, <2>1, <2>2 DEF TypeOK, scan_pass
<1>9. CASE scan_next(t)
  <2>1. bkt[t] + 1 \in Places /\ 1 \in 1 .. EntriesPerBucket
    BY <1>9 DEF TypeOK, LinksGrow, Places, FollowLink, scan_next
  <2> QED
    BY <1>9, <2>1 DEF TypeOK, Labels, FollowLink, scan_next
<1>10. CASE scan_free(t)
  BY <1>10 DEF TypeOK, Labels, scan_free
<1>11. CASE scan_full(t)
  BY <1>11 DEF TypeOK, Labels, scan_full
<1>12. CASE link_overflow(t)
  <2>1. new[t] \in 1 .. ArenaLen
    BY <1>12 DEF LinksGrow, link_overflow
  <2>2. link' \in [Places -> 0 .. ArenaLen]
    BY <1>12, <2>1 DEF TypeOK, link_overflow
  <2> QED
    BY <1>12, <2>2 DEF TypeOK, Labels, link_overflow
<1>13. CASE claim(t)
  BY <1>13 DEF TypeOK, Labels, AtLabels, Places, claim, Rewind
<1>14. CASE claim_lost(t)
  BY <1>14 DEF TypeOK, Labels, Places, claim_lost, Return, Rewind
<1>15. CASE rescan_rival(t)
  BY <1>15 DEF TypeOK, Labels, rescan_rival
<1>16. CASE rescan_pass(t)
  BY <1>16, HereIn DEF TypeOK, Labels, rescan_pass, Advance
<1>17. CASE rescan_next(t)
  <2>1. bkt[t] + 1 \in Places /\ 1 \in 1 .. EntriesPerBucket
    BY <1>17 DEF TypeOK, LinksGrow, Places, FollowLink, rescan_next
  <2> QED
    BY <1>17, <2>1 DEF TypeOK, Labels, FollowLink, rescan_next
<1>18. CASE rescan_clear(t)
  BY <1>18 DEF TypeOK, Labels, rescan_clear
<1>19. CASE withdraw(t)
  BY <1>19 DEF
       TypeOK, Labels, Claims, Claiming, Places, withdraw, Return, Rewind
<1>20. CASE confirm(t)
  BY <1>20 DEF
       TypeOK, Labels, Claims, Claiming, Places, confirm, Return, Rewind
<1> QED
  BY <1>1, <1>2, <1>3, <1>4, <1>5, <1>6, <1>7, <1>8, <1>9, <1>10,
     <1>11, <1>12, <1>13, <1>14, <1>15, <1>16, <1>17, <1>18, <1>19, <1>20 DEF
       Step, find_step, scan_step, claim_step

\* An overflow bucket is linked once, behind linked buckets, with an address
\* handed out after those of the buckets before it.
LEMMA LinksGrowStep ==
  ASSUME IInv, TypeOK', NEW t \in Threads, Step(t) PROVE LinksGrow'
<1> USE DEF IInv
<1>1. CASE scan_full(t)
  <2>1. /\ overflow_next' = overflow_next + 1 /\ UNCHANGED <<link, bkt>>
        /\ new'[t] = overflow_next
        /\ pc'[t] = "link" => overflow_next <= ArenaLen
    BY <1>1 DEF TypeOK, scan_full
  <2>2. /\ \A k \in Places : link[k] \in Nat /\ link[k] < overflow_next
        /\ overflow_next \in Nat \ {0}
    BY DEF TypeOK, LinksGrow
  <2>3. bkt[t] # 1 => bkt[t] - 1 \in Places
    BY PlaceBefore DEF TypeOK
  <2>4. \A k \in Places : link'[k] < overflow_next'
    BY <2>1, <2>2
  <2>5. ASSUME NEW u \in Threads, pc'[u] = "link"
        PROVE  /\ new'[u] \in 1 .. ArenaLen /\ new'[u] < overflow_next'
               /\ bkt'[u] # 1 => new'[u] > link'[bkt'[u] - 1]
    <3>1. CASE u = t
      BY <2>1, <2>2, <2>3, <2>5, <3>1
    <3>2. CASE u # t
      BY <2>1, <2>2, <2>5, <3>2, OtherThreads DEF LinksGrow
    <3> QED
      BY <3>1, <3>2
  <2> QED
    BY <2>1, <2>4, <2>5 DEF LinksGrow
<1>2. CASE link_overflow(t)
  <2> DEFINE b == bkt[t]
  <2>1. /\ b \in Places /\ b \in Nat /\ b >= 1
        /\ b # 1 => b - 1 \in Places
    BY PlaceBefore DEF TypeOK
  <2>2. /\ new[t] \in 1 .. ArenaLen /\ new[t] < overflow_next
        /\ b # 1 => new[t] > link[b - 1]
    BY <1>2 DEF LinksGrow, link_overflow
  <2>3. b # 1 => link[b - 1] # 0
    BY DEF OnChain, Linked
  <2>4. /\ \A k \in Places :
             link'[k] = IF k = b /\ link[k] = 0 THEN new[t] ELSE link[k]
        /\ UNCHANGED <<overflow_next, bkt>>
        /\ pc'[t] # "link"
    BY <1>2 DEF TypeOK, link_overflow
  <2>5. \A k \in Places : link[k] \in Nat /\ k \in Nat
    BY DEF TypeOK, Places
  <2> HIDE DEF b
  <2>6. \A k \in Places : link'[k] < overflow_next'
    BY <2>2, <2>4 DEF LinksGrow
  <2>7. ASSUME NEW k \in Places, link'[k] # 0 PROVE link'[k] >= k
    <3>1. CASE k = b /\ link[k] = 0
      <4>1. new[t] >= b
        <5>1. CASE b = 1
          BY <2>2, <5>1
        <5>2. CASE b # 1
          <6>1. link[b - 1] >= b - 1 /\ link[b - 1] \in Nat
            BY <2>1, <2>3, <2>5, <5>2 DEF LinksGrow
          <6> QED
            BY <2>1, <2>2, <5>2, <6>1
        <5> QED
          BY <5>1, <5>2
      <4> QED
        BY <2>4, <3>1, <4>1
    <3>2. CASE ~(k = b /\ link[k] = 0)
      BY <2>4, <2>7, <3>2 DEF LinksGrow
    <3> QED
      BY <3>1, <3>2
  <2>8. ASSUME NEW j \in Places, NEW k \in Places, j < k, link'[k] # 0
        PROVE  link'[j] # 0
    <3>1. link[j] # 0 => link'[j] # 0
      BY <2>4
    <3>2. CASE link[k] # 0
      BY <2>8, <3>1, <3>2 DEF LinksGrow
    <3>3. CASE link[k] = 0
      <4>1. k = b
        BY <2>4, <2>8, <3>3
      <4>2. b # 1 /\ j <= b - 1
        BY <2>1, <2>5, <2>8, <4>1 DEF Places
      <4>3. link[j] # 0
        <5>1. CASE j = b - 1
          BY <2>3, <4>2, <5>1
        <5>2. CASE j < b - 1
          BY <2>1, <2>3, <4>2, <5>2 DEF LinksGrow
        <5> QED
          BY <2>1, <2>5, <4>2, <5>1, <5>2
      <4> QED
        BY <3>1, <4>3
    <3> QED
      BY <3>2, <3>3
  <2>9. ASSUME NEW u \in Threads, pc'[u] = "link"
        PROVE  /\ new'[u] \in 1 .. ArenaLen /\ new'[u] < overflow_next'
               /\ bkt'[u] # 1 => new'[u] > link'[bkt'[u] - 1]
    <3>1. u # t /\ pc[u] = "link" /\ new'[u] = new[u] /\ bkt'[u] = bkt[u]
      BY <2>4, <2>9, OtherThreads
    <3>2. bkt[u] # 1 => /\ link[bkt[u] - 1] # 0
                        /\ bkt[u] - 1 \in Places
      BY PlaceBefore DEF TypeOK, OnChain, Linked
    <3>3. bkt[u] # 1 => link'[bkt[u] - 1] = link[bkt[u] - 1]
      BY <2>4, <3>2
    <3> QED
      BY <2>4, <3>1, <3>3 DEF LinksGrow
  <2> QED
    BY <2>6, <2>7, <2>8, <2>9 DEF LinksGrow
<1>3. CASE UNCHANGED <<link, overflow_next>> /\ pc'[t] # "link"
  BY <1>3, OtherThreads DEF LinksGrow
<1> QED
  BY <1>1, <1>2, <1>3 DEF
       Step, find_step, scan_step, claim_step, TypeOK, find_tag, find_tag_hit,
       find_tag_pass, find_tag_next, find_tag_none, find_or_create_tag,
       scan_hit, scan_pass, scan_next, scan_free, claim, claim_lost,
       rescan_rival, rescan_pass, rescan_next, rescan_clear, withdraw,
       confirm, Call, Return, Rewind, Advance, FollowLink

\* A link once set stays: what was on the chain remains on it.
LEMMA LinkedKept ==
  ASSUME IInv, NEW t \in Threads, Step(t), NEW k \in Places, Linked(k)
  PROVE  Linked(k)'
<1>1. CASE link_overflow(t)
  <2>1. \A j \in Places : link[j] # 0 => link'[j] # 0
    BY <1>1 DEF IInv, TypeOK, link_overflow
  <2>2. k # 1 => k - 1 \in Places
    BY DEF Places
  <2> QED
    BY <2>1, <2>2 DEF Linked
<1>2. CASE UNCHANGED link
  BY <1>2 DEF Linked
<1> QED
  BY <1>1, <1>2 DEF
       Step, find_step, scan_step, claim_step, find_tag, find_tag_hit,
       find_tag_pass, find_tag_next, find_tag_none, find_or_create_tag,
       scan_hit, scan_pass, scan_next, scan_free, scan_full, claim,
       claim_lost, rescan_rival, rescan_pass, rescan_next, rescan_clear,
       withdraw, confirm, Call, Return, Rewind, Advance, FollowLink

\* Only a linked bucket is walked into or filled.
LEMMA OnChainStep ==
  ASSUME IInv, TypeOK', NEW t \in Threads, Step(t) PROVE OnChain'
<1> USE DEF IInv
<1>1. ASSUME NEW e \in Entries, tag'[e] # None PROVE Linked(e[1])'
  <2>1. CASE tag[e] # None
    BY <2>1, EntryPlace, LinkedKept DEF OnChain
  <2>2. CASE tag[e] = None
    <3>1. claim(t)
      <4>1. CASE withdraw(t)
        BY <1>1, <2>2, <4>1 DEF TypeOK, withdraw
      <4> QED
        BY <1>1, <2>2, <4>1 DEF
             Step, find_step, scan_step, claim_step, find_tag, find_tag_hit,
             find_tag_pass, find_tag_next, find_tag_none, find_or_create_tag,
             scan_hit, scan_pass, scan_next, scan_free, scan_full,
             link_overflow, claim_lost, rescan_rival, rescan_pass,
             rescan_next, rescan_clear, confirm, Call, Return, Rewind,
             Advance, FollowLink
    <3>2. free[t] = e
      BY <1>1, <2>2, <3>1 DEF TypeOK, claim
    <3>3. Linked(e[1])
      BY <3>2 DEF OnChain
    <3> QED
      BY <3>3, EntryPlace, LinkedKept
  <2> QED
    BY <2>1, <2>2
<1>2. ASSUME NEW u \in Threads PROVE Linked(bkt[u])'
  <2>1. CASE bkt'[u] = 1
    BY <2>1 DEF Linked
  <2>2. CASE bkt'[u] = bkt[u]
    <3>1. bkt[u] \in Places /\ Linked(bkt[u])
      BY DEF TypeOK, OnChain
    <3>2. ASSUME NEW k \in Places, k = bkt[u], Linked(k) PROVE Linked(bkt[u])'
      BY <2>2, <3>2, LinkedKept DEF Linked
    <3> QED
      BY <3>1, <3>2
  <2>3. CASE find_tag_next(t) \/ scan_next(t) \/ rescan_next(t)
    <3>1. CASE u = t
      <4>1. bkt'[t] = bkt[t] + 1 /\ link[bkt[t]] # 0 /\ UNCHANGED link
        BY <2>3 DEF TypeOK, FollowLink, find_tag_next, scan_next, rescan_next
      <4>2. bkt[t] \in Nat
        BY HereIn
      <4>3. bkt'[t] - 1 = bkt[t]
        BY <4>1, <4>2
      <4> QED
        BY <3>1, <4>1, <4>3 DEF Linked
    <3>2. CASE u # t
      BY <2>2, <3>2, OtherThreads
    <3> QED
      BY <3>1, <3>2
  <2> QED
    <3>1. CASE u # t
      BY <2>2, <3>1, OtherThreads
    <3>2. CASE u = t
      BY <2>1, <2>2, <2>3, <3>2 DEF TypeOK,
           Step, find_step, scan_step, claim_step, find_tag, find_tag_hit,
           find_tag_pass, find_tag_none, find_or_create_tag, scan_hit,
           scan_pass, scan_free, scan_full, link_overflow, claim, claim_lost,
           rescan_rival, rescan_pass, rescan_clear, withdraw, confirm, Call,
           Return, Rewind, Advance
    <3> QED
      BY <3>1, <3>2
<1>3. ASSUME NEW u \in Threads, free'[u] # None PROVE Linked(free[u][1])'
  <2>1. CASE free'[u] = free[u]
    <3>1. free[u] \in Entries /\ Linked(free[u][1])
      BY <1>3, <2>1 DEF TypeOK, OnChain
    <3>2. ASSUME NEW k \in Places, k = free[u][1], Linked(k)
          PROVE  Linked(free[u][1])'
      BY <2>1, <3>2, LinkedKept DEF Linked
    <3> QED
      BY <3>1, <3>2, EntryPlace
  <2>2. CASE free'[u] = Here(t)
    <3>1. CASE scan_pass(t)
      <4>1. Linked(bkt[t]) /\ UNCHANGED link
        BY <3>1 DEF OnChain, scan_pass
      <4>2. free'[u][1] = bkt[t]
        BY <2>2, HereIn
      <4> QED
        BY <4>1, <4>2 DEF Linked
    <3>2. CASE ~scan_pass(t)
      <4>1. free'[u] \in {None, free[u]}
        BY <3>2, OtherThreads DEF TypeOK,
             Step, find_step, scan_step, claim_step, find_tag, find_tag_hit,
             find_tag_pass, find_tag_next, find_tag_none, find_or_create_tag,
             scan_hit, scan_next, scan_free, scan_full, link_overflow, claim,
             claim_lost, rescan_rival, rescan_pass, rescan_next, rescan_clear,
             withdraw, confirm, Call, Return, Rewind, Advance, FollowLink
      <4> QED
        BY <1>3, <2>1, <4>1
    <3> QED
      BY <3>1, <3>2
  <2> QED
    <3>1. CASE u # t
      BY <2>1, <3>1, OtherThreads
    <3>2. CASE u = t
      <4>1. free'[t] \in {None, free[t], Here(t)}
        BY DEF TypeOK,
             Step, find_step, scan_step, claim_step, find_tag, find_tag_hit,
             find_tag_pass, find_tag_next, find_tag_none, find_or_create_tag,
             scan_hit, scan_pass, scan_next, scan_free, scan_full,
             link_overflow, claim, claim_lost, rescan_rival, rescan_pass,
             rescan_next, rescan_clear, withdraw, confirm, Call, Return,
             Rewind, Advance, FollowLink
      <4> QED
        BY <1>3, <2>1, <2>2, <3>2, <4>1
    <3> QED
      BY <3>1, <3>2
<1> QED
  BY <1>1, <1>2, <1>3 DEF OnChain

\* Walks end on a bucket's last entry and start on the chain's first.
LEMMA AtLabelsStep ==
  ASSUME IInv, TypeOK', NEW t \in Threads, Step(t) PROVE AtLabels'
<1> USE DEF IInv
<1> SUFFICES /\ pc'[t] = "claim" => free'[t] # None
             /\ pc'[t] \in {"find_end", "scan_end", "link", "rescan_end"} =>
                  idx'[t] = EntriesPerBucket
             /\ pc'[t] \in {"idle", "missing", "found"} =>
                  bkt'[t] = 1 /\ idx'[t] = 1
             /\ pc'[t] # "idle" => want'[t] \in Tags
  BY OtherThreads DEF AtLabels
<1>1. CASE find_tag(t) \/ find_or_create_tag(t)
  BY <1>1 DEF TypeOK, AtLabels, find_tag, find_or_create_tag, Call
<1>2. CASE pc[t] # "idle" /\ want'[t] = want[t]
  <2>1. want'[t] \in Tags
    BY <1>2 DEF AtLabels
  <2> QED
    BY <1>2, <2>1 DEF TypeOK, AtLabels,
         Step, find_step, scan_step, claim_step, find_tag, find_tag_hit,
         find_tag_pass, find_tag_next, find_tag_none, find_or_create_tag,
         scan_hit, scan_pass, scan_next, scan_free, scan_full, link_overflow,
         claim, claim_lost, rescan_rival, rescan_pass, rescan_next,
         rescan_clear, withdraw, confirm, Call, Return, Rewind, Advance,
         FollowLink
<1> QED
  BY <1>1, <1>2 DEF
       Step, find_step, scan_step, claim_step, TypeOK, find_tag_hit,
       find_tag_pass, find_tag_next, find_tag_none, scan_hit, scan_pass,
       scan_next, scan_free, scan_full, link_overflow, claim, claim_lost,
       rescan_rival, rescan_pass, rescan_next, rescan_clear, withdraw,
       confirm, Return, Rewind, Advance, FollowLink

\* Two claimants never share an entry, and who was given an entry keeps it.
LEMMA ClaimsStep ==
  ASSUME IInv, TypeOK', NEW t \in Threads, Step(t) PROVE Claims'
<1> USE DEF IInv
<1>1. ASSUME NEW u \in Threads, pc'[u] = "found"
      PROVE  mine'[u] # None /\ Final(mine[u], want[u])'
  <2>1. CASE pc[u] = "found" /\ mine'[u] = mine[u] /\ want'[u] = want[u]
    <3>1. /\ mine[u] \in Entries /\ Final(mine[u], want[u]) /\ want[u] \in Tags
      BY <2>1 DEF TypeOK, Claims, AtLabels
    <3>2. ASSUME NEW e \in Entries, NEW x \in Tags, e = mine[u], x = want[u]
          PROVE  Final(mine[u], want[u])'
      BY <2>1, <3>1, <3>2, FinalKept
    <3> QED
      BY <2>1, <3>1, <3>2
  <2>2. CASE u = t
    <3>1. CASE find_tag_hit(t) \/ scan_hit(t)
      <4>1. /\ mine'[t] = Here(t) /\ want'[t] = want[t]
            /\ UNCHANGED <<tag, tentative>> /\ Final(Here(t), want[t])
        BY <3>1 DEF TypeOK, find_tag_hit, scan_hit, Return
      <4> QED
        BY <2>2, <4>1, HereIn
    <3>2. CASE confirm(t)
      <4>1. /\ mine'[t] = mine[t] /\ want'[t] = want[t] /\ tag' = tag
            /\ tentative' = [tentative EXCEPT ![mine[t]] = FALSE]
        BY <3>2 DEF TypeOK, confirm, Return
      <4>2. mine[t] \in Entries /\ tag[mine[t]] = want[t]
        BY <3>2 DEF TypeOK, Claims, Claiming, confirm
      <4> QED
        BY <2>2, <4>1, <4>2 DEF TypeOK
    <3> QED
      BY <1>1, <2>2, <3>1, <3>2 DEF TypeOK,
           Step, find_step, scan_step, claim_step, find_tag, find_tag_pass,
           find_tag_next, find_tag_none, find_or_create_tag, scan_pass,
           scan_next, scan_free, scan_full, link_overflow, claim, claim_lost,
           rescan_rival, rescan_pass, rescan_next, rescan_clear, withdraw,
           Call, Advance, FollowLink, Return, Rewind
  <2> QED
    BY <1>1, <2>1, <2>2, OtherThreads
<1>2. ASSUME NEW u \in Threads, Claiming(u)'
      PROVE  /\ mine'[u] # None
             /\ tag'[mine'[u]] = want'[u] /\ tentative'[mine'[u]]
  <2>1. CASE claim(t)
    <3>1. /\ free[t] \in Entries /\ tag[free[t]] = None
          /\ mine'[t] = free[t] /\ want' = want
          /\ tag' = [tag EXCEPT ![free[t]] = want[t]]
          /\ tentative' = [tentative EXCEPT ![free[t]] = TRUE]
      BY <2>1 DEF TypeOK, AtLabels, claim
    <3>2. CASE u = t
      BY <3>1, <3>2 DEF TypeOK
    <3>3. CASE u # t
      <4>1. mine'[u] = mine[u] /\ Claiming(u)
        BY <1>2, <3>3, OtherThreads DEF Claiming
      <4>2. /\ mine[u] \in Entries /\ want[u] \in Tags /\ mine[u] # free[t]
            /\ tag[mine[u]] = want[u] /\ tentative[mine[u]]
        BY <3>1, <4>1 DEF TypeOK, Claims, AtLabels, Claiming
      <4> QED
        BY <3>1, <4>1, <4>2 DEF TypeOK
    <3> QED
      BY <3>2, <3>3
  <2>2. CASE withdraw(t) \/ confirm(t)
    <3>1. /\ Claiming(t) /\ ~Claiming(t)' /\ want' = want
          /\ \A e \in Entries \ {mine[t]} :
               tag'[e] = tag[e] /\ tentative'[e] = tentative[e]
      BY <2>2 DEF TypeOK, Claiming, withdraw, confirm, Return
    <3>2. u # t /\ Claiming(u) /\ mine'[u] = mine[u]
      BY <1>2, <3>1, OtherThreads DEF Claiming
    <3>3. mine[u] \in Entries \ {mine[t]}
      BY <3>1, <3>2 DEF TypeOK, Claims
    <3> QED
      BY <3>1, <3>2, <3>3 DEF Claims
  <2>3. CASE /\ UNCHANGED <<tag, tentative>>
             /\ Claiming(t)' => Claiming(t) /\ mine'[t] = mine[t]
                                            /\ want'[t] = want[t]
    BY <1>2, <2>3, OtherThreads DEF Claims, Claiming
  <2> QED
    BY <2>1, <2>2, <2>3 DEF TypeOK, Claiming,
         Step, find_step, scan_step, claim_step, find_tag, find_tag_hit,
         find_tag_pass, find_tag_next, find_tag_none, find_or_create_tag,
         scan_hit, scan_pass, scan_next, scan_free, scan_full, link_overflow,
         claim_lost, rescan_rival, rescan_pass, rescan_next, rescan_clear,
         Call, Return, Rewind, Advance, FollowLink
<1>3. ASSUME NEW u \in Threads, NEW v \in Threads \ {u},
             Claiming(u)', Claiming(v)'
      PROVE  mine'[v] # mine'[u]
  <2>1. CASE claim(t)
    <3>1. /\ free[t] \in Entries /\ tag[free[t]] = None /\ mine'[t] = free[t]
      BY <2>1 DEF TypeOK, AtLabels, claim
    <3>2. ASSUME NEW w \in Threads \ {t}, Claiming(w)'
          PROVE  mine'[w] = mine[w] /\ mine[w] # free[t] /\ Claiming(w)
      <4>1. mine'[w] = mine[w] /\ Claiming(w)
        BY <3>2, OtherThreads DEF Claiming
      <4>2. tag[mine[w]] = want[w] /\ want[w] \in Tags
        BY <4>1 DEF Claims, AtLabels, Claiming
      <4> QED
        BY <3>1, <4>1, <4>2
    <3> QED
      BY <1>3, <3>1, <3>2 DEF Claims
  <2>2. CASE Claiming(t)' => Claiming(t) /\ mine'[t] = mine[t]
    BY <1>3, <2>2, OtherThreads DEF Claims, Claiming
  <2> QED
    BY <2>1, <2>2 DEF TypeOK, Claiming,
         Step, find_step, scan_step, claim_step, find_tag, find_tag_hit,
         find_tag_pass, find_tag_next, find_tag_none, find_or_create_tag,
         scan_hit, scan_pass, scan_next, scan_free, scan_full, link_overflow,
         claim_lost, rescan_rival, rescan_pass, rescan_next, rescan_clear,
         withdraw, confirm, Call, Return, Rewind, Advance, FollowLink
<1> QED
  BY <1>1, <1>2, <1>3 DEF Claims

\* A tag is made final only by a thread that has passed every other entry.
LEMMA UniqueTagStep ==
  ASSUME IInv, TypeOK', NEW t \in Threads, Step(t) PROVE UniqueTag'
<1> USE DEF IInv
<1>1. CASE claim(t)
  <2>1. \A e \in Entries, x \in Tags : Final(e, x)' => Final(e, x)
    BY <1>1 DEF TypeOK, AtLabels, claim
  <2> QED
    BY <2>1 DEF UniqueTag
<1>2. CASE withdraw(t)
  <2>1. \A e \in Entries, x \in Tags : Final(e, x)' => Final(e, x)
    BY <1>2 DEF TypeOK, withdraw
  <2> QED
    BY <2>1 DEF UniqueTag
<1>3. CASE confirm(t)
  <2>1. \A e \in Entries : ~Final(e, want[t])
    BY <1>3 DEF ScansCross, Claiming, Passed, confirm
  <2>2. tag[mine[t]] = want[t]
    BY <1>3 DEF Claims, Claiming, confirm
  <2>3. \A e \in Entries, x \in Tags :
          Final(e, x)' => Final(e, x) \/ (e = mine[t] /\ x = want[t])
    BY <1>3, <2>2 DEF TypeOK, confirm
  <2> QED
    BY <2>1, <2>3 DEF UniqueTag
<1>4. CASE UNCHANGED <<tag, tentative>>
  BY <1>4 DEF UniqueTag
<1> QED
  BY <1>1, <1>2, <1>3, <1>4 DEF
       Step, find_step, scan_step, claim_step, find_tag, find_tag_hit,
       find_tag_pass, find_tag_next, find_tag_none, find_or_create_tag,
       scan_hit, scan_pass, scan_next, scan_free, scan_full, link_overflow,
       claim_lost, rescan_rival, rescan_pass, rescan_next, rescan_clear, Call,
       Return, Rewind, Advance, FollowLink

\* What t has passed after a step of its own: no final entry of its tag, and
\* the entry of another claimant only if that one still has t's ahead.
LEMMA PassedStep ==
  ASSUME IInv, NEW t \in Threads, Step(t), Claiming(t)',
         NEW e \in Entries, Passed(t, e)'
  PROVE  /\ Claiming(t) /\ want'[t] = want[t] /\ mine'[t] = mine[t]
         /\ ~Final(e, want[t])
         /\ \A u \in Threads \ {t} :
              Claiming(u) /\ want[u] = want[t] /\ mine[u] = e =>
                ~Passed(u, mine[t])
<1> USE DEF IInv
<1>1. CASE rescan_pass(t) \/ rescan_next(t) \/ rescan_clear(t)
  <2>1. /\ Claiming(t) /\ want'[t] = want[t] /\ mine'[t] = mine[t]
        /\ pc[t] \in {"rescan", "rescan_end"} /\ want[t] \in Tags
    BY <1>1 DEF TypeOK, AtLabels, Claiming, rescan_pass, rescan_next,
         FollowLink, rescan_clear
  <2>2. CASE Passed(t, e)
    BY <2>1, <2>2 DEF ScansCross
  <2>3. CASE e = Here(t) /\ ~Rival(t)
    <3>1. CASE e = mine[t]
      BY <2>1, <3>1 DEF Claims
    <3>2. CASE tag[e] # want[t]
      BY <2>1, <3>2 DEF Claims
    <3> QED
      BY <2>3, <3>1, <3>2 DEF Rival
  <2>4. CASE tag[e] = None
    BY <2>1, <2>4 DEF Claims
  <2>5. CASE rescan_pass(t)
    <3>1. /\ pc[t] = "rescan" /\ Advance(t, "rescan", "rescan_end")
          /\ ~Rival(t)
      BY <2>5 DEF rescan_pass
    <3>2. Behind(t, e)'
      BY <3>1 DEF TypeOK, Passed, Advance
    <3>3. Behind(t, e) \/ e = Here(t)
      BY <3>1, <3>2, WalkAdvances
    <3> QED
      BY <2>2, <2>3, <3>1, <3>3 DEF Passed
  <2>6. CASE rescan_next(t)
    <3>1. FollowLink(t, "rescan_end", "rescan")
      BY <2>6 DEF rescan_next
    <3>2. Behind(t, e)'
      BY <3>1 DEF TypeOK, Passed, FollowLink
    <3>3. Behind(t, e)
      BY <3>1, <3>2, WalkFollows
    <3> QED
      BY <2>1, <2>2, <3>3 DEF Passed
  <2>7. CASE rescan_clear(t)
    <3>1. pc[t] = "rescan_end" /\ LastBucket(t)
      BY <2>7 DEF rescan_clear
    <3>2. tag[e] # None => Behind(t, e)
      BY <3>1, WalkEnds
    <3> QED
      BY <2>2, <2>4, <3>1, <3>2 DEF Passed
  <2> QED
    BY <1>1, <2>5, <2>6, <2>7
<1>2. CASE claim(t)
  <2>1. bkt'[t] = 1 /\ idx'[t] = 1 /\ pc'[t] = "rescan"
    BY <1>2 DEF TypeOK, claim, Rewind
  <2>2. e[1] \in Nat /\ e[2] \in Nat /\ e[1] >= 1 /\ e[2] >= 1
    BY EntryPlace
  <2> QED
    BY <2>1, <2>2 DEF Passed, Behind
<1>3. CASE pc'[t] \notin {"rescan", "rescan_end", "confirm"}
  BY <1>3 DEF Passed
<1> QED
  BY <1>1, <1>2, <1>3 DEF
       Step, find_step, scan_step, claim_step, TypeOK, find_tag, find_tag_hit,
       find_tag_pass, find_tag_next, find_tag_none, find_or_create_tag,
       scan_hit, scan_pass, scan_next, scan_free, scan_full, link_overflow,
       claim_lost, rescan_rival, withdraw, confirm, Call, Return, Rewind,
       Advance, FollowLink

\* Publish, then scan: of two claimants of a tag one meets the other, and a
\* tag becomes final only in an entry no claimant of it has passed.
LEMMA ScansCrossStep ==
  ASSUME IInv, TypeOK', NEW t \in Threads, Step(t) PROVE ScansCross'
<1> USE DEF IInv
<1>1. ASSUME NEW u \in Threads \ {t}
      PROVE  /\ Claiming(u)' <=> Claiming(u)
             /\ want'[u] = want[u] /\ mine'[u] = mine[u]
             /\ \A e \in Entries : Passed(u, e)' <=> Passed(u, e)
  <2>1. /\ pc'[u] = pc[u] /\ bkt'[u] = bkt[u] /\ idx'[u] = idx[u]
        /\ want'[u] = want[u] /\ mine'[u] = mine[u]
    BY OtherThreads
  <2> QED
    BY <2>1 DEF Claiming, Passed, Behind
<1>2. ASSUME NEW e \in Entries, NEW g \in Tags, Final(e, g)'
      PROVE  \/ Final(e, g)
             \/ confirm(t) /\ e = mine[t] /\ g = want[t]
  <2>1. CASE claim(t)
    BY <1>2, <2>1 DEF TypeOK, AtLabels, claim
  <2>2. CASE withdraw(t)
    BY <1>2, <2>2 DEF TypeOK, withdraw
  <2>3. CASE confirm(t)
    <3>1. tag[mine[t]] = want[t]
      BY <2>3 DEF Claims, Claiming, confirm
    <3> QED
      BY <1>2, <2>3, <3>1 DEF TypeOK, confirm
  <2>4. CASE UNCHANGED <<tag, tentative>>
    BY <1>2, <2>4
  <2> QED
    BY <2>1, <2>2, <2>3, <2>4 DEF
         Step, find_step, scan_step, claim_step, find_tag, find_tag_hit,
         find_tag_pass, find_tag_next, find_tag_none, find_or_create_tag,
         scan_hit, scan_pass, scan_next, scan_free, scan_full, link_overflow,
         claim_lost, rescan_rival, rescan_pass, rescan_next, rescan_clear,
         Call, Return, Rewind, Advance, FollowLink
<1>3. ASSUME NEW v \in Threads, Claiming(v)', NEW e \in Entries, Passed(v, e)'
      PROVE  ~Final(e, want[v])'
  <2>1. want[v] \in Tags /\ want'[v] = want[v] /\ Claiming(v)
    <3>1. Claiming(v) /\ want'[v] = want[v]
      <4>1. CASE v = t
        BY <1>3, <4>1, PassedStep
      <4>2. CASE v # t
        BY <1>1, <1>3, <4>2
      <4> QED
        BY <4>1, <4>2
    <3> QED
      BY <3>1 DEF AtLabels, Claiming
  <2>2. ~Final(e, want[v])
    <3>1. CASE v = t
      BY <1>3, <3>1, PassedStep
    <3>2. CASE v # t
      BY <1>1, <1>3, <3>2 DEF ScansCross
    <3> QED
      BY <3>1, <3>2
  <2>3. ~(confirm(t) /\ e = mine[t] /\ want[v] = want[t])
    <3> SUFFICES ASSUME confirm(t), e = mine[t], want[v] = want[t] PROVE FALSE
      OBVIOUS
    <3>1. pc[t] = "confirm" /\ pc'[t] = "found"
      BY DEF TypeOK, confirm, Return
    <3>2. v # t
      BY <1>3, <3>1 DEF Claiming
    <3>3. Passed(v, mine[t]) /\ Passed(t, mine[v])
      BY <1>1, <1>3, <3>1, <3>2 DEF Passed
    <3>4. Claiming(t)
      BY <3>1 DEF Claiming
    <3> QED
      BY <2>1, <3>2, <3>3, <3>4 DEF ScansCross
  <2> QED
    BY <1>2, <2>1, <2>2, <2>3
<1>4. ASSUME NEW u \in Threads \ {t}, Claiming(t)', Claiming(u)',
             want'[u] = want'[t], NEW d \in Entries, d = mine'[u],
             NEW e \in Entries, e = mine'[t], Passed(t, d)'
      PROVE  ~Passed(u, e)'
  <2>1. Claiming(u) /\ want'[u] = want[u] /\ mine[u] = d
    BY <1>1, <1>4
  <2>2. /\ want'[t] = want[t] /\ mine'[t] = mine[t]
        /\ \A w \in Threads \ {t} :
             Claiming(w) /\ want[w] = want[t] /\ mine[w] = d =>
               ~Passed(w, mine[t])
    BY <1>4, PassedStep
  <2>3. ~Passed(u, e)
    BY <1>4, <2>1, <2>2
  <2> QED
    BY <1>1, <2>3
<1>5. ASSUME NEW v \in Threads, NEW u \in Threads \ {v}, Claiming(v)',
             Claiming(u)', want'[u] = want'[v]
      PROVE  ~(Passed(v, mine[u])' /\ Passed(u, mine[v])')
  <2>1. mine'[u] \in Entries /\ mine'[v] \in Entries
    <3>1. Claims'
      BY ClaimsStep
    <3> QED
      BY <1>5, <3>1 DEF TypeOK, Claims
  <2>2. CASE v = t
    BY <1>4, <1>5, <2>1, <2>2
  <2>3. CASE u = t
    BY <1>4, <1>5, <2>1, <2>3
  <2>4. CASE u # t /\ v # t
    <3>1. /\ Claiming(u) /\ Claiming(v) /\ want[u] = want[v]
          /\ mine'[u] = mine[u] /\ mine'[v] = mine[v]
      BY <1>1, <1>5, <2>4
    <3>2. ~(Passed(v, mine[u]) /\ Passed(u, mine[v]))
      BY <1>5, <3>1 DEF ScansCross
    <3>3. /\ Passed(v, mine[u])' => Passed(v, mine[u])
          /\ Passed(u, mine[v])' => Passed(u, mine[v])
      BY <2>1, <2>4, <3>1, OtherThreads DEF Passed, Behind
    <3> QED
      BY <3>2, <3>3
  <2> QED
    BY <2>2, <2>3, <2>4
<1> QED
  BY <1>3, <1>5 DEF ScansCross

\* find_tag walks towards the entry that was there when it was called.
LEMMA AheadStep ==
  ASSUME IInv, TypeOK', NEW t \in Threads, Step(t) PROVE Ahead'
<1> USE DEF IInv
<1>1. ASSUME NEW u \in Threads \ {t}, pc'[u] \in {"find", "find_end"},
             present'[u]
      PROVE  \E e \in Entries : Final(e, want[u])' /\ ~Behind(u, e)'
  <2>1. /\ pc'[u] = pc[u] /\ bkt'[u] = bkt[u] /\ idx'[u] = idx[u]
        /\ want'[u] = want[u] /\ present'[u] = present[u]
    BY OtherThreads
  <2>2. PICK e \in Entries : Final(e, want[u]) /\ ~Behind(u, e)
    BY <1>1, <2>1 DEF Ahead
  <2>3. want[u] \in Tags
    BY <1>1, <2>1 DEF AtLabels
  <2>4. ASSUME NEW g \in Tags, g = want[u] PROVE Final(e, want[u])'
    BY <2>1, <2>2, <2>4, FinalKept
  <2>5. ~Behind(u, e)'
    BY <2>1, <2>2 DEF Behind
  <2> QED
    BY <2>3, <2>4, <2>5
<1>2. ASSUME NEW u \in Threads \ {t}, pc'[u] = "missing" PROVE ~present'[u]
  BY <1>2, OtherThreads DEF Ahead
<1>3. ASSUME pc'[t] \in {"find", "find_end"}, present'[t]
      PROVE  \E e \in Entries : Final(e, want[t])' /\ ~Behind(t, e)'
  <2>1. CASE find_tag(t)
    <3>1. PICK g \in Tags :
            /\ want' = [want EXCEPT ![t] = g]
            /\ present' = [present EXCEPT ![t] = \E i \in Entries : Final(i, g)]
      BY <2>1 DEF find_tag, Call
    <3>2. /\ bkt'[t] = 1 /\ idx'[t] = 1 /\ pc'[t] = "find"
          /\ UNCHANGED <<tag, tentative>>
      BY <2>1 DEF TypeOK, AtLabels, find_tag, Call
    <3>3. PICK e \in Entries : Final(e, g)
      BY <1>3, <3>1 DEF TypeOK
    <3>4. e[1] \in Nat /\ e[2] \in Nat /\ e[1] >= 1 /\ e[2] >= 1
      BY EntryPlace
    <3>5. ~Behind(t, e)'
      BY <3>2, <3>4 DEF Behind
    <3>6. Final(e, want[t])'
      BY <3>1, <3>2, <3>3 DEF TypeOK
    <3> QED
      BY <3>5, <3>6
  <2>2. CASE find_tag_pass(t) \/ find_tag_next(t)
    <3>1. /\ pc[t] \in {"find", "find_end"} /\ present[t]
          /\ want'[t] = want[t] /\ UNCHANGED <<tag, tentative>>
      BY <1>3, <2>2 DEF find_tag_pass, find_tag_next, FollowLink
    <3>2. PICK e \in Entries : Final(e, want[t]) /\ ~Behind(t, e)
      BY <3>1 DEF Ahead
    <3>3. ~Behind(t, e)'
      <4>1. CASE find_tag_pass(t)
        <5>1. /\ pc[t] = "find" /\ Advance(t, "find", "find_end")
              /\ ~Final(Here(t), want[t])
          BY <4>1 DEF find_tag_pass
        <5>2. e # Here(t)
          BY <3>2, <5>1
        <5> QED
          BY <3>2, <5>1, <5>2, WalkAdvances
      <4>2. CASE find_tag_next(t)
        <5>1. FollowLink(t, "find_end", "find")
          BY <4>2 DEF find_tag_next
        <5> QED
          BY <3>2, <5>1, WalkFollows
      <4> QED
        BY <2>2, <4>1, <4>2
    <3> QED
      BY <3>1, <3>2, <3>3
  <2> QED
    BY <1>3, <2>1, <2>2 DEF TypeOK,
         Step, find_step, scan_step, claim_step, find_tag_hit, find_tag_none,
         find_or_create_tag, scan_hit, scan_pass, scan_next, scan_free,
         scan_full, link_overflow, claim, claim_lost, rescan_rival,
         rescan_pass, rescan_next, rescan_clear, withdraw, confirm, Return,
         Rewind, Call, Advance, FollowLink
<1>4. ASSUME pc'[t] = "missing" PROVE ~present'[t]
  <2>1. find_tag_none(t)
    BY <1>4 DEF TypeOK,
         Step, find_step, scan_step, claim_step, find_tag, find_tag_hit,
         find_tag_pass, find_tag_next, find_or_create_tag, scan_hit,
         scan_pass, scan_next, scan_free, scan_full, link_overflow, claim,
         claim_lost, rescan_rival, rescan_pass, rescan_next, rescan_clear,
         withdraw, confirm, Call, Return, Rewind, Advance, FollowLink
  <2>2. pc[t] = "find_end" /\ LastBucket(t) /\ present' = present
    BY <2>1 DEF find_tag_none
  <2>3. ASSUME present[t] PROVE FALSE
    <3>1. PICK e \in Entries : Final(e, want[t]) /\ ~Behind(t, e)
      BY <2>2, <2>3 DEF Ahead
    <3>2. tag[e] # None
      BY <2>2, <3>1 DEF AtLabels
    <3> QED
      BY <2>2, <3>1, <3>2, WalkEnds
  <2> QED
    BY <2>2, <2>3
<1> QED
  BY <1>1, <1>2, <1>3, <1>4 DEF Ahead

-----------------------------------------------------------------------------

LEMMA InitIInv == Init => IInv
<1> SUFFICES ASSUME Init PROVE IInv
  OBVIOUS
<1>1. TypeOK
  BY DEF Init, TypeOK, Labels, Places
<1>2. LinksGrow /\ OnChain /\ AtLabels
  BY DEF Init, LinksGrow, OnChain, AtLabels, Linked
<1>3. Claims /\ ScansCross /\ Ahead
  BY DEF Init, Claims, ScansCross, Ahead, Claiming
<1>4. UniqueTag
  BY DEF Init, UniqueTag
<1> QED
  BY <1>1, <1>2, <1>3, <1>4 DEF IInv

LEMMA NextIInv == IInv /\ [Next]_vars => IInv'
<1> SUFFICES ASSUME IInv, [Next]_vars PROVE IInv'
  OBVIOUS
<1>1. CASE Next
  <2>1. PICK t \in Threads : Step(t)
    BY <1>1 DEF Next, Step
  <2>2. TypeOK'
    BY <2>1, TypeStep
  <2> QED
    BY <2>1, <2>2, LinksGrowStep, OnChainStep, AtLabelsStep, ClaimsStep,
       ScansCrossStep, AheadStep, UniqueTagStep DEF IInv
<1>2. CASE UNCHANGED vars
  <2>1. /\ TypeOK' /\ LinksGrow' /\ OnChain' /\ AtLabels'
    BY <1>2 DEF vars, IInv, TypeOK, LinksGrow, OnChain, AtLabels, Linked
  <2>2. Claims' /\ ScansCross' /\ Ahead' /\ UniqueTag'
    BY <1>2 DEF vars, IInv, Claims, ScansCross, Ahead, UniqueTag, Claiming,
         Passed, Behind
  <2> QED
    BY <2>1, <2>2 DEF IInv
<1> QED
  BY <1>1, <1>2

\* The invariant index.rs states at its head, for any number of threads that
\* insert: a chain never has two non-tentative entries with the same tag.
THEOREM UniqueTagHolds == Spec => []UniqueTag
<1>1. IInv => UniqueTag
  BY DEF IInv
<1> QED
  BY InitIInv, NextIInv, <1>1, PTL DEF Spec

\* All threads that find_tag and find_or_create_tag have given an entry for a
\* tag hold the same entry.
THEOREM SameEntryHolds == Spec => []SameEntry
<1>1. IInv => SameEntry
  <2> SUFFICES ASSUME IInv, NEW t \in Threads, NEW u \in Threads,
                      pc[t] = "found", pc[u] = "found", want[t] = want[u]
               PROVE  mine[t] = mine[u]
    BY DEF SameEntry
  <2>1. mine[t] \in Entries /\ mine[u] \in Entries /\ want[t] \in Tags
    BY DEF IInv, TypeOK, Claims, AtLabels
  <2>2. Final(mine[t], want[t]) /\ Final(mine[u], want[t])
    BY DEF IInv, Claims
  <2> QED
    BY <2>1, <2>2 DEF IInv, UniqueTag
<1> QED
  BY InitIInv, NextIInv, <1>1, PTL DEF Spec

\* find_tag does not miss a tag that was on the chain when it was called,
\* however many buckets are linked and entries claimed while it walks.
THEOREM NoMissedTagHolds == Spec => []NoMissedTag
<1>1. IInv => NoMissedTag
  BY DEF IInv, Ahead, NoMissedTag
<1> QED
  BY InitIInv, NextIInv, <1>1, PTL DEF Spec
=============================================================================
