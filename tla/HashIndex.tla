------------------------------ MODULE HashIndex ------------------------------
(***************************************************************************)
(* The bucket chain of crates/tsavorite/src/index.rs: find_tag and the     *)
(* two-phase tentative protocol of find_or_create_tag, one action per load *)
(* or compare-and-swap of an entry word.                                   *)
(*                                                                         *)
(* One chain is modelled; chains share nothing but the overflow arena.     *)
(* An entry is a pair: the place of its bucket on the chain and its place  *)
(* in the bucket; link[k] is the overflow word of the k-th bucket.         *)
(* The address in an entry belongs to the store: no step here depends on   *)
(* it.                                                                     *)
(***************************************************************************)
EXTENDS Integers

CONSTANTS
  Threads,
  Tags,
  EntriesPerBucket,  (* 7 in the code                                      *)
  ArenaLen,          (* overflow buckets the arena holds                   *)
  None               (* an empty entry, no free slot yet, no tag           *)

ASSUME EntriesAssumption == EntriesPerBucket \in Nat \ {0}
ASSUME ArenaAssumption == ArenaLen \in Nat

\* Every entry of the chain once all of the arena is linked to it.
Places == 1 .. ArenaLen + 1
Entries == Places \X (1 .. EntriesPerBucket)

ASSUME NoneAssumption == None \notin Tags /\ None \notin Entries

VARIABLES
  tag,            (* tag[i]: the tag of entry i, None when it is empty     *)
  tentative,      (* tentative[i]: its tentative bit                       *)
  link,           (* link[k]: address of the bucket after the k-th, or 0   *)
  overflow_next,  (* address of the next overflow bucket to hand out       *)
  pc,
  want,           (* want[t]: the tag t looks for                          *)
  bkt, idx,       (* <<bkt[t], idx[t]>>: the entry t loads next            *)
  new,            (* new[t]: the overflow bucket t is about to link        *)
  free,           (* free[t]: first empty entry met by find_tag_or_free    *)
  mine,           (* mine[t]: the entry t has claimed or was given         *)
  present         (* present[t]: history, the tag was there at the call    *)

vars == <<tag, tentative, link, overflow_next, pc, want, bkt, idx, new,
          free, mine, present>>
chain == <<tag, tentative, link, overflow_next>>
place == <<bkt, idx>>

Init ==
  /\ tag = [i \in Entries |-> None]
  /\ tentative = [i \in Entries |-> FALSE]
  /\ link = [k \in Places |-> 0]
  /\ overflow_next = 1
  /\ pc = [t \in Threads |-> "idle"]
  /\ want = [t \in Threads |-> None]
  /\ bkt = [t \in Threads |-> 1]
  /\ idx = [t \in Threads |-> 1]
  /\ new = [t \in Threads |-> 0]
  /\ free = [t \in Threads |-> None]
  /\ mine = [t \in Threads |-> None]
  /\ present = [t \in Threads |-> FALSE]

-----------------------------------------------------------------------------

Here(t) == <<bkt[t], idx[t]>>

LastBucket(t) == link[bkt[t]] = 0

Final(i, g) == tag[i] = g /\ ~tentative[i]

Goto(t, from, to) ==
  /\ pc[t] = from
  /\ pc' = [pc EXCEPT ![t] = to]

Rewind(t) ==
  /\ bkt' = [bkt EXCEPT ![t] = 1]
  /\ idx' = [idx EXCEPT ![t] = 1]

Return(t, to, i) ==
  /\ pc' = [pc EXCEPT ![t] = to]
  /\ mine' = [mine EXCEPT ![t] = i]
  /\ free' = [free EXCEPT ![t] = None]
  /\ Rewind(t)

\* One load of a walk that ends in label end; what it does with the entry is
\* said by its caller.
Advance(t, here, end) ==
  \/ /\ idx[t] = EntriesPerBucket
     /\ Goto(t, here, end)
     /\ UNCHANGED place
  \/ /\ idx[t] # EntriesPerBucket
     /\ idx' = [idx EXCEPT ![t] = @ + 1]
     /\ UNCHANGED <<bkt, pc>>

\* Reading the link word: on to the next bucket, or the walk is over.
FollowLink(t, end, here) ==
  /\ ~LastBucket(t)
  /\ Goto(t, end, here)
  /\ bkt' = [bkt EXCEPT ![t] = @ + 1]
  /\ idx' = [idx EXCEPT ![t] = 1]

Call(t, label) ==
  /\ pc[t] \in {"idle", "missing", "found"}
  /\ \E g \in Tags :
       /\ want' = [want EXCEPT ![t] = g]
       /\ present' = [present EXCEPT ![t] = \E i \in Entries : Final(i, g)]
  /\ pc' = [pc EXCEPT ![t] = label]
  /\ mine' = [mine EXCEPT ![t] = None]
  /\ UNCHANGED <<chain, place, new, free>>

-----------------------------------------------------------------------------
(* find_tag: walk_chain for a non-tentative entry.                         *)

find_tag(t) == Call(t, "find")

find_tag_hit(t) ==
  /\ pc[t] = "find"
  /\ Final(Here(t), want[t])
  /\ Return(t, "found", Here(t))
  /\ UNCHANGED <<chain, want, new, present>>

find_tag_pass(t) ==
  /\ pc[t] = "find"
  /\ ~Final(Here(t), want[t])
  /\ Advance(t, "find", "find_end")
  /\ UNCHANGED <<chain, want, free, mine, new, present>>

find_tag_next(t) ==
  /\ FollowLink(t, "find_end", "find")
  /\ UNCHANGED <<chain, want, free, mine, new, present>>

\* Mutant: find_tag looks at one bucket and does not follow the link.
find_tag_none_early(t) ==
  /\ pc[t] = "find_end"
  /\ Return(t, "missing", None)
  /\ UNCHANGED <<chain, want, new, present>>

find_tag_none(t) ==
  /\ pc[t] = "find_end"
  /\ LastBucket(t)
  /\ Return(t, "missing", None)
  /\ UNCHANGED <<chain, want, new, present>>

-----------------------------------------------------------------------------
(* find_or_create_tag, phase 1: find_tag_or_free.                          *)

find_or_create_tag(t) == Call(t, "scan")

scan_hit(t) ==
  /\ pc[t] = "scan"
  /\ Final(Here(t), want[t])
  /\ Return(t, "found", Here(t))
  /\ UNCHANGED <<chain, want, new, present>>

scan_pass(t) ==
  /\ pc[t] = "scan"
  /\ ~Final(Here(t), want[t])
  /\ free' = [free EXCEPT ![t] = IF tag[Here(t)] = None /\ @ = None
                                   THEN Here(t) ELSE @]
  /\ Advance(t, "scan", "scan_end")
  /\ UNCHANGED <<chain, want, mine, new, present>>

scan_next(t) ==
  /\ FollowLink(t, "scan_end", "scan")
  /\ UNCHANGED <<chain, want, free, mine, new, present>>

scan_free(t) ==
  /\ LastBucket(t) /\ free[t] # None
  /\ Goto(t, "scan_end", "claim")
  /\ UNCHANGED <<chain, want, place, free, mine, new, present>>

\* The chain is full: alloc_overflow_bucket, whose assert fails once the
\* arena is used up.
scan_full(t) ==
  /\ LastBucket(t) /\ free[t] = None
  /\ Goto(t, "scan_end", IF overflow_next <= ArenaLen THEN "link" ELSE "panic")
  /\ new' = [new EXCEPT ![t] = overflow_next]
  /\ overflow_next' = overflow_next + 1
  /\ UNCHANGED <<tag, tentative, link, want, place, free, mine, present>>

\* The compare-and-swap loop on the link word: ours is linked, or somebody
\* else's is and ours leaks.  Either way the loop in find_tag_or_free starts
\* over at the same bucket.
link_overflow(t) ==
  /\ Goto(t, "link", "scan")
  /\ link' = [link EXCEPT ![bkt[t]] = IF @ = 0 THEN new[t] ELSE @]
  /\ idx' = [idx EXCEPT ![t] = 1]
  /\ new' = [new EXCEPT ![t] = 0]
  /\ UNCHANGED <<tag, tentative, overflow_next, want, bkt, free, mine, present>>

-----------------------------------------------------------------------------
(* Phase 2: claim the free entry tentatively, look for another claimant.   *)

claim(t) ==
  /\ Goto(t, "claim", "rescan")
  /\ tag[free[t]] = None
  /\ tag' = [tag EXCEPT ![free[t]] = want[t]]
  /\ tentative' = [tentative EXCEPT ![free[t]] = TRUE]
  /\ mine' = [mine EXCEPT ![t] = free[t]]
  /\ free' = [free EXCEPT ![t] = None]
  /\ Rewind(t)
  /\ UNCHANGED <<link, overflow_next, want, new, present>>

\* The compare-and-swap fails: start over.
claim_lost(t) ==
  /\ pc[t] = "claim"
  /\ tag[free[t]] # None
  /\ Return(t, "scan", None)
  /\ UNCHANGED <<chain, want, new, present>>

\* Mutant: the second scan skips tentative entries, as the first one does.
Rival_final(t) == Here(t) # mine[t] /\ Final(Here(t), want[t])

Rival(t) == Here(t) # mine[t] /\ tag[Here(t)] = want[t]

rescan_rival(t) ==
  /\ Rival(t)
  /\ Goto(t, "rescan", "withdraw")
  /\ UNCHANGED <<chain, want, place, free, mine, new, present>>

rescan_pass(t) ==
  /\ pc[t] = "rescan"
  /\ ~Rival(t)
  /\ Advance(t, "rescan", "rescan_end")
  /\ UNCHANGED <<chain, want, free, mine, new, present>>

rescan_next(t) ==
  /\ FollowLink(t, "rescan_end", "rescan")
  /\ UNCHANGED <<chain, want, free, mine, new, present>>

rescan_clear(t) ==
  /\ LastBucket(t)
  /\ Goto(t, "rescan_end", "confirm")
  /\ UNCHANGED <<chain, want, place, free, mine, new, present>>

\* Mutant: a claimant that has seen a rival returns its own entry all the same.
withdraw_keeps(t) ==
  /\ pc[t] = "withdraw"
  /\ tentative' = [tentative EXCEPT ![mine[t]] = FALSE]
  /\ Return(t, "found", mine[t])
  /\ UNCHANGED <<tag, link, overflow_next, want, new, present>>

withdraw(t) ==
  /\ pc[t] = "withdraw"
  /\ tag' = [tag EXCEPT ![mine[t]] = None]
  /\ tentative' = [tentative EXCEPT ![mine[t]] = FALSE]
  /\ Return(t, "scan", None)
  /\ UNCHANGED <<link, overflow_next, want, new, present>>

\* Phase 3: the plain store that clears the tentative bit.
confirm(t) ==
  /\ pc[t] = "confirm"
  /\ tentative' = [tentative EXCEPT ![mine[t]] = FALSE]
  /\ Return(t, "found", mine[t])
  /\ UNCHANGED <<tag, link, overflow_next, want, new, present>>

-----------------------------------------------------------------------------

find_step(t) ==
  \/ find_tag(t) \/ find_tag_hit(t) \/ find_tag_pass(t) \/ find_tag_next(t)
  \/ find_tag_none(t)

scan_step(t) ==
  \/ find_or_create_tag(t) \/ scan_hit(t) \/ scan_pass(t) \/ scan_next(t)
  \/ scan_free(t) \/ scan_full(t) \/ link_overflow(t)

claim_step(t) ==
  \/ claim(t) \/ claim_lost(t) \/ rescan_rival(t) \/ rescan_pass(t)
  \/ rescan_next(t) \/ rescan_clear(t) \/ withdraw(t) \/ confirm(t)

Next == \E t \in Threads : find_step(t) \/ scan_step(t) \/ claim_step(t)

Spec == Init /\ [][Next]_vars

-----------------------------------------------------------------------------

(***************************************************************************)
(* The invariant index.rs states at its head: at most one non-tentative    *)
(* entry per tag on a chain.                                               *)
(***************************************************************************)
UniqueTag ==
  \A i, j \in Entries : \A g \in Tags : Final(i, g) /\ Final(j, g) => i = j

(***************************************************************************)
(* All threads that were given an entry for a tag were given the same one: *)
(* otherwise they would grow two record chains and each would miss the     *)
(* other's updates.                                                        *)
(***************************************************************************)
SameEntry ==
  \A t, u \in Threads :
    pc[t] = "found" /\ pc[u] = "found" /\ want[t] = want[u] => mine[t] = mine[u]

(***************************************************************************)
(* find_tag never misses a tag that was on the chain when it was called,   *)
(* whatever is claimed, withdrawn and linked while it walks.               *)
(***************************************************************************)
NoMissedTag == \A t \in Threads : pc[t] = "missing" => ~present[t]
=============================================================================
