-------------------------- MODULE LightEpoch_proofs --------------------------
(***************************************************************************)
(* Proofs about LightEpoch, for any sets of threads and actions, any size  *)
(* of the epoch table and any bound on current.                            *)
(*                                                                         *)
(* One lemma per conjunct of IInv: the actions that can disturb it, one by *)
(* one, and then the frame, the condition under which all others keep it.  *)
(***************************************************************************)
EXTENDS LightEpoch, FiniteSetTheorems, TLAPS

USE MaxThreadsAssumption, MaxEpochAssumption, NoneAssumption

USE DEF UNPROTECTED, Slots, Goto, is_protected, Tagged,
        tableVars, drainVars, localVars, history

\* A step of thread t.
Step(t) == inner_step(t) \/ call_step(t)

-----------------------------------------------------------------------------

\* The number push and drain store in drain_count is a natural number.
LEMMA CountNat == ASSUME TypeOK PROVE Cardinality(drain) \in Nat
  BY ActionsAssumption, FS_Subset, FS_CardinalityType DEF TypeOK

\* No method of LightEpoch takes current back.
LEMMA CurrentGrows ==
  ASSUME TypeOK, NEW t \in Threads, Step(t)
  PROVE  current' \in Nat \ {0} /\ current' >= current
<1>1. CASE UNCHANGED current
  BY <1>1 DEF TypeOK
<1>2. CASE Increment
  BY <1>2 DEF TypeOK, Increment
<1>3. CASE current' = current + 1
  BY <1>3 DEF TypeOK
<1> QED
  BY <1>1, <1>2, <1>3 DEF
       Step, inner_step, call_step, drain_step, my_slot, protect_load,
       protect_store, refresh_load, refresh_store, unprotect, release_thread,
       bump_current_epoch, publish, load_prior, push, push_count,
       bump_after_push, check_count, compute_safe_start, compute_safe_step,
       drain_busy, drain_empty, drain_partition, drain_set_count, run_action,
       drain_return, drain_all_call, drain_all_bump, drain_all_exit,
       drain_all_return

\* A step of t leaves the locals of the other threads alone.
LEMMA OtherThreads ==
  ASSUME TypeOK, NEW t \in Threads, Step(t)
  PROVE  \A u \in Threads \ {t} : pc'[u] = pc[u] /\ min'[u] = min[u]
  BY DEF
       Step, inner_step, call_step, drain_step, TypeOK, my_slot, protect_load,
       protect_store, refresh_load, refresh_store, unprotect, release_thread,
       bump_current_epoch, publish, load_prior, push, push_count,
       bump_after_push, check_count, compute_safe_start, compute_safe_step,
       drain_busy, drain_empty, drain_partition, drain_set_count, run_action,
       drain_return, drain_all_call, drain_all_bump, drain_all_exit,
       drain_all_return

\* Every step keeps the variables within their types; push needs to know that
\* a registration in progress has an action.
LEMMA TypeStep == ASSUME IInv, NEW t \in Threads, Step(t) PROVE TypeOK'
<1> USE DEF IInv
<1>1. CASE my_slot(t)
  <2> PICK s \in Slots : /\ owner' = [owner EXCEPT ![s] = t]
                        /\ slot' = [slot EXCEPT ![t] = s]
    BY <1>1 DEF my_slot
  <2> QED
    BY <1>1 DEF TypeOK, my_slot
<1>2. CASE protect_load(t)
  BY <1>2 DEF TypeOK, Labels, Phases, protect_load
<1>3. CASE protect_store(t)
  BY <1>3 DEF TypeOK, Labels, Phases, protect_store
<1>4. CASE refresh_load(t)
  BY <1>4 DEF TypeOK, Labels, Phases, refresh_load
<1>5. CASE refresh_store(t)
  BY <1>5 DEF TypeOK, Labels, Phases, refresh_store
<1>6. CASE unprotect(t)
  BY <1>6 DEF TypeOK, Labels, Phases, unprotect
<1>7. CASE release_thread(t)
  BY <1>7 DEF TypeOK, Labels, Phases, release_thread
<1>8. CASE bump_current_epoch(t)
  BY <1>8, CurrentGrows DEF TypeOK, Labels, Phases, bump_current_epoch
<1>9. CASE publish(t)
  <2> PICK a \in Actions :
             /\ phase' = [phase EXCEPT ![a] = "published"]
             /\ act' = [act EXCEPT ![t] = a]
             /\ stale' = [u \in Threads |->
                  IF is_protected(u) THEN stale[u] \union {a} ELSE stale[u]]
    BY <1>9 DEF publish
  <2> QED
    BY <1>9 DEF TypeOK, Labels, Phases, publish
<1>10. CASE load_prior(t)
  BY <1>10 DEF TypeOK, Labels, Phases, load_prior
<1>11. CASE push(t)
  BY <1>11 DEF TypeOK, Registering, Labels, Phases, push
<1>12. CASE push_count(t)
  BY <1>12, CountNat DEF TypeOK, Labels, Phases, push_count
<1>13. CASE bump_after_push(t)
  BY <1>13, CurrentGrows DEF TypeOK, Labels, Phases, bump_after_push
<1>14. CASE check_count(t)
  BY <1>14, CountNat DEF TypeOK, Labels, Phases, check_count
<1>15. CASE compute_safe_start(t)
  BY <1>15 DEF TypeOK, Labels, Phases, compute_safe_start
<1>16. CASE compute_safe_step(t)
  <2> DEFINE e == table[next[t]]
            m == IF e # UNPROTECTED /\ e < min[t] THEN e ELSE min[t]
            k == IF next[t] = MAX_THREADS THEN 1 ELSE next[t] + 1
  <2>1. m \in Nat /\ k \in Slots
    BY DEF TypeOK
  <2>2. min' = [min EXCEPT ![t] = m] /\ next' = [next EXCEPT ![t] = k]
    BY <1>16 DEF compute_safe_step
  <2> HIDE DEF m, k
  <2>3. pc' \in [Threads -> Labels]
    BY <1>16 DEF TypeOK, Labels, compute_safe_step
  <2>4. min' \in [Threads -> Nat] /\ next' \in [Threads -> Slots]
    BY <2>1, <2>2 DEF TypeOK
  <2> QED
    BY <1>16, <2>3, <2>4 DEF TypeOK, compute_safe_step
<1>17. CASE drain_busy(t)
  BY <1>17 DEF TypeOK, Labels, Phases, drain_busy
<1>18. CASE drain_empty(t)
  BY <1>18 DEF TypeOK, Labels, Phases, drain_empty
<1>19. CASE drain_partition(t)
  BY <1>19 DEF TypeOK, Labels, Phases, drain_partition, Safe, safe
<1>20. CASE drain_set_count(t)
  BY <1>20, CountNat DEF TypeOK, Labels, Phases, drain_set_count
<1>21. CASE run_action(t)
  <2> PICK a \in ready[t] : /\ ready' = [ready EXCEPT ![t] = @ \ {a}]
                           /\ phase' = [phase EXCEPT ![a] = "done"]
    BY <1>21 DEF run_action
  <2> QED
    BY <1>21 DEF TypeOK, Phases, run_action
<1>22. CASE drain_return(t)
  BY <1>22 DEF TypeOK, Labels, Phases, drain_return
<1>23. CASE drain_all_call(t)
  BY <1>23 DEF TypeOK, Labels, Phases, drain_all_call, Registered
<1>24. CASE drain_all_bump(t)
  BY <1>24, CurrentGrows DEF TypeOK, Labels, Phases, drain_all_bump
<1>25. CASE drain_all_exit(t)
  BY <1>25 DEF TypeOK, Labels, Phases, drain_all_exit
<1>26. CASE drain_all_return(t)
  BY <1>26 DEF TypeOK, Labels, Phases, drain_all_return
<1> QED
  BY <1>1, <1>2, <1>3, <1>4, <1>5, <1>6, <1>7, <1>8, <1>9, <1>10, <1>11,
     <1>12, <1>13, <1>14, <1>15, <1>16, <1>17, <1>18, <1>19, <1>20, <1>21,
     <1>22, <1>23, <1>24, <1>25, <1>26
  DEF Step, inner_step, call_step, drain_step

\* Slots change hands through my_slot and release_thread only.
LEMMA SlotsOwnedStep ==
  ASSUME IInv, TypeOK', NEW t \in Threads, Step(t) PROVE SlotsOwned'
<1> USE DEF IInv
<1>a. current' \in Nat \ {0} /\ current' >= current
  BY CurrentGrows
<1>b. \A u \in Threads \ {t} : pc'[u] = pc[u] /\ min'[u] = min[u]
  BY OtherThreads
<1>1. CASE my_slot(t)
  BY <1>1 DEF TypeOK, SlotsOwned, my_slot
<1>2. CASE protect_load(t)
  BY <1>2 DEF TypeOK, SlotsOwned, protect_load
<1>3. CASE protect_store(t)
  BY <1>3 DEF TypeOK, SlotsOwned, protect_store
<1>4. CASE refresh_load(t)
  BY <1>4 DEF TypeOK, SlotsOwned, refresh_load
<1>5. CASE refresh_store(t)
  BY <1>5 DEF TypeOK, SlotsOwned, refresh_store
<1>6. CASE unprotect(t)
  BY <1>6 DEF TypeOK, SlotsOwned, unprotect
<1>7. CASE release_thread(t)
  BY <1>7 DEF TypeOK, SlotsOwned, release_thread
<1>8. CASE /\ UNCHANGED <<table, owner, slot, seen>>
            /\ pc'[t] \notin {"protect", "refresh"}
  <2>1. \A u \in Threads : pc'[u] \in {"protect", "refresh"} => pc'[u] = pc[u]
    BY <1>8, <1>b
  <2>2. current \in Nat /\ \A u \in Threads : seen[u] \in Nat
    BY DEF TypeOK
  <2> QED
    BY <1>8, <1>a, <2>1, <2>2 DEF SlotsOwned
<1> QED
  BY <1>1, <1>2, <1>3, <1>4, <1>5, <1>6, <1>7, <1>8 DEF
       Step, inner_step, call_step, drain_step, TypeOK, bump_current_epoch,
       publish, load_prior, push, push_count, bump_after_push, check_count,
       compute_safe_start, compute_safe_step, drain_busy, drain_empty,
       drain_partition, drain_set_count, run_action, drain_return,
       drain_all_call, drain_all_bump, drain_all_exit, drain_all_return

\* Every epoch stored in the table was loaded from current.
LEMMA EpochsBehindStep ==
  ASSUME IInv, TypeOK', NEW t \in Threads, Step(t) PROVE EpochsBehind'
<1> USE DEF IInv
<1>a. current' \in Nat \ {0} /\ current' >= current
  BY CurrentGrows
<1>b. \A u \in Threads \ {t} : pc'[u] = pc[u] /\ min'[u] = min[u]
  BY OtherThreads
<1>1. CASE protect_store(t)
  BY <1>1 DEF TypeOK, EpochsBehind, SlotsOwned, protect_store
<1>2. CASE refresh_store(t)
  BY <1>2 DEF TypeOK, EpochsBehind, SlotsOwned, refresh_store
<1>3. CASE unprotect(t)
  BY <1>3 DEF TypeOK, EpochsBehind, SlotsOwned, unprotect
<1>4. CASE release_thread(t)
  BY <1>4 DEF TypeOK, EpochsBehind, SlotsOwned, release_thread
<1>5. CASE UNCHANGED table
  BY <1>5, <1>a, <1>b DEF TypeOK, EpochsBehind
<1> QED
  BY <1>1, <1>2, <1>3, <1>4, <1>5 DEF
       Step, inner_step, call_step, drain_step, TypeOK, my_slot, protect_load,
       refresh_load, bump_current_epoch, publish, load_prior, push,
       push_count, bump_after_push, check_count, compute_safe_start,
       compute_safe_step, drain_busy, drain_empty, drain_partition,
       drain_set_count, run_action, drain_return, drain_all_call,
       drain_all_bump, drain_all_exit, drain_all_return

\* Every tag of an action was loaded from current.
LEMMA PriorsBehindStep ==
  ASSUME IInv, TypeOK', NEW t \in Threads, Step(t) PROVE PriorsBehind'
<1> USE DEF IInv
<1>a. current' \in Nat \ {0} /\ current' >= current
  BY CurrentGrows
<1>b. \A u \in Threads \ {t} : pc'[u] = pc[u] /\ min'[u] = min[u]
  BY OtherThreads
<1>1. CASE publish(t)
  BY <1>1 DEF TypeOK, PriorsBehind, publish
<1>2. CASE load_prior(t)
  BY <1>2 DEF TypeOK, PriorsBehind, load_prior
<1>3. CASE push(t)
  BY <1>3 DEF TypeOK, PriorsBehind, Registering, push
<1>4. CASE drain_partition(t)
  BY <1>4 DEF TypeOK, PriorsBehind, ListsDisjoint, Safe, drain_partition
<1>5. CASE run_action(t)
  BY <1>5 DEF TypeOK, PriorsBehind, ListsDisjoint, run_action
<1>6. CASE UNCHANGED <<phase, prior>>
  BY <1>6, <1>a, <1>b DEF TypeOK, PriorsBehind
<1> QED
  BY <1>1, <1>2, <1>3, <1>4, <1>5, <1>6 DEF
       Step, inner_step, call_step, drain_step, TypeOK, my_slot, protect_load,
       protect_store, refresh_load, refresh_store, unprotect, release_thread,
       bump_current_epoch, push_count, bump_after_push, check_count,
       compute_safe_start, compute_safe_step, drain_busy, drain_empty,
       drain_set_count, drain_return, drain_all_call, drain_all_bump,
       drain_all_exit, drain_all_return

\* The mutex moves an action from one list to one other.
LEMMA ListsDisjointStep ==
  ASSUME IInv, TypeOK', NEW t \in Threads, Step(t) PROVE ListsDisjoint'
<1> USE DEF IInv
<1>1. CASE publish(t)
  BY <1>1 DEF TypeOK, ListsDisjoint, Registering, publish
<1>2. CASE load_prior(t)
  BY <1>2 DEF TypeOK, ListsDisjoint, Registering, load_prior
<1>3. CASE push(t)
  BY <1>3 DEF TypeOK, ListsDisjoint, Registering, push
<1>4. CASE drain_partition(t)
  BY <1>4 DEF TypeOK, ListsDisjoint, Registering, drain_partition, Safe, safe
<1>5. CASE run_action(t)
  <2> PICK a \in ready[t] : /\ ready' = [ready EXCEPT ![t] = @ \ {a}]
                           /\ phase' = [phase EXCEPT ![a] = "done"]
    BY <1>5 DEF run_action
  <2>1. \A u \in Threads : a \notin ready'[u]
    BY DEF TypeOK, ListsDisjoint
  <2>2. \A u \in Threads : ready'[u] \subseteq ready[u]
    BY DEF TypeOK
  <2>3. \A b \in Actions : b # a => phase'[b] = phase[b]
    BY DEF TypeOK
  <2>4. a \notin drain /\ drain' = drain
    BY <1>5 DEF ListsDisjoint, run_action
  <2>5. drain \subseteq Actions /\ \A u \in Threads : ready[u] \subseteq Actions
    BY DEF TypeOK
  <2> QED
    BY <2>1, <2>2, <2>3, <2>4, <2>5 DEF ListsDisjoint
<1>6. CASE UNCHANGED <<phase, drain, ready>>
  BY <1>6 DEF TypeOK, ListsDisjoint
<1> QED
  BY <1>1, <1>2, <1>3, <1>4, <1>5, <1>6 DEF
       Step, inner_step, call_step, drain_step, TypeOK, my_slot, protect_load,
       protect_store, refresh_load, refresh_store, unprotect, release_thread,
       bump_current_epoch, push_count, bump_after_push, check_count,
       compute_safe_start, compute_safe_step, drain_busy, drain_empty,
       drain_set_count, drain_return, drain_all_call, drain_all_bump,
       drain_all_exit, drain_all_return

\* Two registrations never own the same action.
LEMMA RegisteringStep ==
  ASSUME IInv, TypeOK', NEW t \in Threads, Step(t) PROVE Registering'
<1> USE DEF IInv
<1>a. current' \in Nat \ {0} /\ current' >= current
  BY CurrentGrows
<1>b. \A u \in Threads \ {t} : pc'[u] = pc[u] /\ min'[u] = min[u]
  BY OtherThreads
<1>1. CASE publish(t)
  <2> PICK a \in Actions : /\ phase[a] = "idle"
                          /\ phase' = [phase EXCEPT ![a] = "published"]
                          /\ act' = [act EXCEPT ![t] = a]
    BY <1>1 DEF publish
  <2>1. \A u \in Threads : act[u] # a
    BY DEF Registering
  <2>2. pc'[t] = "prior" /\ act'[t] = a /\ phase'[a] = "published"
    BY <1>1 DEF TypeOK, publish
  <2>3. \A u \in Threads \ {t} : act'[u] = act[u]
    BY DEF TypeOK
  <2>4. \A b \in Actions \ {a} : phase'[b] = phase[b]
    BY DEF TypeOK
  <2>5. \A u \in Threads : act[u] \in Actions \union {None}
    BY DEF TypeOK
  <2> QED
    BY <1>b, <2>1, <2>2, <2>3, <2>4, <2>5 DEF Registering
<1>2. CASE load_prior(t)
  <2> DEFINE a == act[t]
  <2>1. a \in Actions /\ pc'[t] = "push" /\ act' = act
    BY <1>2 DEF TypeOK, Registering, load_prior
  <2>2. phase'[a] = "loaded" /\ \A b \in Actions \ {a} : phase'[b] = phase[b]
    BY <1>2, <2>1 DEF TypeOK, load_prior
  <2>3. \A u \in Threads : act[u] \in Actions \union {None}
    BY DEF TypeOK
  <2>4. \A u \in Threads \ {t} : act[u] # a
    BY <2>1 DEF Registering
  <2> HIDE DEF a
  <2>5. act[t] = a
    BY DEF a
  <2> QED
    BY <1>b, <2>1, <2>2, <2>3, <2>4, <2>5 DEF Registering
<1>3. CASE push(t)
  <2> DEFINE a == act[t]
  <2>1. a \in Actions /\ pc'[t] = "push_count" /\ act' = act
    BY <1>3 DEF TypeOK, Registering, push
  <2>2. phase'[a] = "queued" /\ \A b \in Actions \ {a} : phase'[b] = phase[b]
    BY <1>3, <2>1 DEF TypeOK, push
  <2>3. \A u \in Threads : act[u] \in Actions \union {None}
    BY DEF TypeOK
  <2>4. \A u \in Threads \ {t} : act[u] # a
    BY <2>1 DEF Registering
  <2> HIDE DEF a
  <2>5. act[t] = a
    BY DEF a
  <2> QED
    BY <1>b, <2>1, <2>2, <2>3, <2>4, <2>5 DEF Registering
<1>4. CASE bump_after_push(t)
  BY <1>4, <1>b DEF TypeOK, Registering, bump_after_push
<1>5. CASE drain_partition(t)
  BY <1>5, <1>b DEF TypeOK, Registering, ListsDisjoint, drain_partition, Safe
<1>6. CASE run_action(t)
  BY <1>6, <1>b DEF TypeOK, Registering, ListsDisjoint, run_action
<1>7. CASE UNCHANGED <<phase, act>> /\ pc'[t] \notin {"prior", "push"}
  BY <1>7, <1>a, <1>b DEF TypeOK, Registering
<1> QED
  BY <1>1, <1>2, <1>3, <1>4, <1>5, <1>6, <1>7 DEF
       Step, inner_step, call_step, drain_step, TypeOK, my_slot, protect_load,
       protect_store, refresh_load, refresh_store, unprotect, release_thread,
       bump_current_epoch, push_count, check_count, compute_safe_start,
       compute_safe_step, drain_busy, drain_empty, drain_set_count,
       drain_return, drain_all_call, drain_all_bump, drain_all_exit,
       drain_all_return

\* A thread that stores into its slot leaves the epochs of the others alone.
LEMMA OtherSlots ==
  ASSUME IInv, NEW t \in Threads, slot[t] # None, NEW e,
         table' = [table EXCEPT ![slot[t]] = e]
  PROVE  \A u \in Threads \ {t} :
            slot[u] # None => table'[slot[u]] = table[slot[u]]
  BY DEF IInv, TypeOK, SlotsOwned

\* A thread keeps its published epoch as long as it may hold old state, and
\* an action is tagged after its publication.
LEMMA HoldersBehindStep ==
  ASSUME IInv, TypeOK', NEW t \in Threads, Step(t) PROVE HoldersBehind'
<1> USE DEF IInv
<1>1. CASE my_slot(t)
  BY <1>1 DEF TypeOK, HoldersBehind, my_slot
<1>2. CASE protect_store(t)
  <2>1. slot[t] # None /\ stale[t] = {}
    BY <1>2 DEF TypeOK, SlotsOwned, HoldersBehind, protect_store
  <2>2. table' = [table EXCEPT ![slot[t]] = seen[t]]
    BY <1>2 DEF protect_store
  <2>3. \A u \in Threads \ {t} :
           slot[u] # None => table'[slot[u]] = table[slot[u]]
    BY <2>1, <2>2, OtherSlots
  <2>4. \A u \in Threads : stale'[u] = IF u = t THEN {} ELSE stale[u]
    BY <1>2, <2>1 DEF TypeOK, protect_store
  <2> QED
    BY <1>2, <2>3, <2>4 DEF HoldersBehind, protect_store
<1>3. CASE refresh_store(t)
  <2>1. slot[t] # None
    BY <1>3 DEF TypeOK, SlotsOwned, refresh_store
  <2>2. table' = [table EXCEPT ![slot[t]] = seen[t]]
    BY <1>3 DEF refresh_store
  <2>3. \A u \in Threads \ {t} :
           slot[u] # None => table'[slot[u]] = table[slot[u]]
    BY <2>1, <2>2, OtherSlots
  <2>4. \A u \in Threads : stale'[u] = IF u = t THEN {} ELSE stale[u]
    BY <1>3, <2>1 DEF TypeOK, refresh_store
  <2> QED
    BY <1>3, <2>3, <2>4 DEF HoldersBehind, refresh_store
<1>4. CASE unprotect(t)
  <2>1. slot[t] # None
    BY <1>4 DEF TypeOK, SlotsOwned, unprotect
  <2>2. table' = [table EXCEPT ![slot[t]] = UNPROTECTED]
    BY <1>4 DEF unprotect
  <2>3. \A u \in Threads \ {t} :
           slot[u] # None => table'[slot[u]] = table[slot[u]]
    BY <2>1, <2>2, OtherSlots
  <2>4. \A u \in Threads : stale'[u] = IF u = t THEN {} ELSE stale[u]
    BY <1>4, <2>1 DEF TypeOK, unprotect
  <2> QED
    BY <1>4, <2>3, <2>4 DEF HoldersBehind, unprotect
<1>5. CASE release_thread(t)
  <2>1. table' = [table EXCEPT ![slot[t]] = UNPROTECTED] /\ slot[t] # None
    BY <1>5 DEF release_thread
  <2>2. \A u \in Threads \ {t} :
           slot[u] # None => table'[slot[u]] = table[slot[u]]
    BY <2>1, OtherSlots
  <2>3. \A u \in Threads : stale'[u] = IF u = t THEN {} ELSE stale[u]
    BY <1>5 DEF TypeOK, release_thread
  <2>4. \A u \in Threads \ {t} : slot'[u] = slot[u]
    BY <1>5 DEF TypeOK, release_thread
  <2> QED
    BY <1>5, <2>2, <2>3, <2>4 DEF HoldersBehind, release_thread
<1>6. CASE publish(t)
  BY <1>6 DEF TypeOK, HoldersBehind, publish
<1>7. CASE load_prior(t)
  BY <1>7 DEF TypeOK, HoldersBehind, EpochsBehind, Registering, load_prior
<1>8. CASE push(t)
  BY <1>8 DEF TypeOK, HoldersBehind, Registering, push
<1>9. CASE drain_partition(t)
  BY <1>9 DEF TypeOK, HoldersBehind, ListsDisjoint, Safe, drain_partition
<1>10. CASE run_action(t)
  BY <1>10 DEF TypeOK, HoldersBehind, ListsDisjoint, run_action
<1>11. CASE UNCHANGED <<table, slot, phase, prior, stale>>
  BY <1>11 DEF TypeOK, HoldersBehind
<1> QED
  BY <1>1, <1>2, <1>3, <1>4, <1>5, <1>6, <1>7, <1>8, <1>9, <1>10, <1>11 DEF
       Step, inner_step, call_step, drain_step, TypeOK, protect_load,
       refresh_load, bump_current_epoch, push_count, bump_after_push,
       check_count, compute_safe_start, compute_safe_step, drain_busy,
       drain_empty, drain_set_count, drain_return, drain_all_call,
       drain_all_bump, drain_all_exit, drain_all_return

\* The scan: an action tagged after the scan loaded current is not safe under
\* it, and passing the slot of a holder makes the action unsafe.
LEMMA ScanSoundStep ==
  ASSUME IInv, TypeOK', NEW t \in Threads, Step(t) PROVE ScanSound'
<1> USE DEF IInv
<1>a. current' \in Nat \ {0} /\ current' >= current
  BY CurrentGrows
<1>b. \A u \in Threads \ {t} : pc'[u] = pc[u] /\ min'[u] = min[u]
  BY OtherThreads
<1>1. CASE my_slot(t)
  BY <1>1 DEF TypeOK, ScanSound, HoldersBehind, my_slot
<1>2. CASE refresh_store(t)
  BY <1>2 DEF TypeOK, ScanSound, refresh_store
<1>3. CASE unprotect(t)
  BY <1>3 DEF TypeOK, ScanSound, unprotect
<1>4. CASE release_thread(t)
  BY <1>4 DEF TypeOK, ScanSound, release_thread
<1>5. CASE publish(t)
  <2> PICK a \in Actions :
             /\ phase' = [phase EXCEPT ![a] = "published"]
             /\ stale' = [u \in Threads |->
                  IF is_protected(u) THEN stale[u] \union {a} ELSE stale[u]]
    BY <1>5 DEF publish
  <2>1. \A v \in Threads : \A b \in stale'[v] :
           Tagged(b)' => b \in stale[v] /\ Tagged(b)
    BY DEF TypeOK
  <2>2. UNCHANGED <<current, slot, prior, min, next>>
    BY <1>5 DEF publish
  <2>3. pc'[t] = "prior" /\ pc[t] = "run"
    BY <1>5 DEF TypeOK, publish
  <2> QED
    BY <1>b, <2>1, <2>2, <2>3 DEF ScanSound
<1>6. CASE load_prior(t)
  <2> DEFINE b == act[t]
  <2>1. b \in Actions /\ phase[b] = "published"
    BY <1>6 DEF TypeOK, Registering, load_prior
  <2>2. \A u \in Threads : pc'[u] \in {"scan", "try_lock"} => u # t
    BY <1>6 DEF TypeOK, load_prior
  <2>3. \A u \in Threads : pc'[u] \in {"scan", "try_lock"} =>
                            prior'[b] >= min'[u]
    BY <1>6, <2>1, <2>2 DEF TypeOK, ScanSound, load_prior
  <2>4. \A a \in Actions : a # b => prior'[a] = prior[a] /\ phase'[a] = phase[a]
    BY <1>6 DEF TypeOK, load_prior
  <2>5. UNCHANGED <<current, stale, min, next, slot>>
    BY <1>6 DEF load_prior
  <2>6. \A u \in Threads : pc'[u] # "scan" => next'[u] = 1
    BY <1>6, <2>5 DEF TypeOK, ScanSound, load_prior
  <2>7. \A u \in Threads : u # t => pc'[u] = pc[u]
    BY <1>6 DEF TypeOK, load_prior
  <2>8. \A v \in Threads : stale[v] \subseteq Actions
    BY DEF TypeOK
  <2> HIDE DEF b
  <2>9. ASSUME NEW u \in Threads, pc'[u] \in {"scan", "try_lock"},
               NEW v \in Threads, NEW a \in stale'[v],
               Tagged(a)', prior'[a] < min'[u]
        PROVE  pc'[u] = "scan" /\ slot'[v] >= next'[u]
    <3>1. a # b
      <4>1. prior'[a] \in Nat /\ min'[u] \in Nat
        BY <2>5, <2>8, <2>9 DEF TypeOK
      <4> QED
        BY <2>3, <2>9, <4>1
    <3> QED
      BY <2>2, <2>4, <2>5, <2>7, <2>8, <2>9, <3>1 DEF ScanSound
  <2> QED
    BY <2>2, <2>5, <2>6, <2>7, <2>9 DEF ScanSound
<1>7. CASE push(t)
  BY <1>7 DEF TypeOK, ScanSound, Registering, push
<1>8. CASE compute_safe_start(t)
  <2>1. UNCHANGED <<current, slot, phase, prior, stale, next>>
    BY <1>8 DEF compute_safe_start
  <2>2. pc'[t] = "scan" /\ min'[t] = current /\ next[t] = 1
    BY <1>8 DEF TypeOK, ScanSound, compute_safe_start
  <2>3. \A v \in Threads : stale[v] # {} => slot[v] \in Slots
    BY DEF TypeOK, HoldersBehind
  <2>4. current \in Nat /\ \A v \in Threads : stale[v] # {} => slot[v] >= 1
    BY <2>3 DEF TypeOK
  <2> QED
    BY <1>b, <2>1, <2>2, <2>4 DEF ScanSound
<1>9. CASE compute_safe_step(t)
  <2> DEFINE e == table[next[t]]
  <2>1. UNCHANGED <<current, table, slot, phase, prior, stale>>
    BY <1>9 DEF compute_safe_step
  <2>2. /\ min'[t] \in Nat /\ min'[t] <= min[t]
        /\ e # UNPROTECTED => min'[t] <= e
    BY <1>9 DEF TypeOK, compute_safe_step
  <2>3. IF next[t] = MAX_THREADS
          THEN pc'[t] = "try_lock" /\ next'[t] = 1
          ELSE pc'[t] = "scan" /\ next'[t] = next[t] + 1
    BY <1>9 DEF TypeOK, compute_safe_step
  <2>4. \A u \in Threads \ {t} : /\ pc'[u] = pc[u] /\ min'[u] = min[u]
                                /\ next'[u] = next[u]
    BY <1>9 DEF TypeOK, compute_safe_step
  <2>5. ASSUME NEW v \in Threads, NEW a \in stale[v],
               Tagged(a), prior[a] < min'[t]
        PROVE  pc'[t] = "scan" /\ slot[v] >= next'[t]
    <3>1. /\ a \in Actions /\ slot[v] \in Slots
          /\ table[slot[v]] # UNPROTECTED /\ table[slot[v]] <= prior[a]
      BY <2>5 DEF TypeOK, HoldersBehind
    <3>2. slot[v] >= next[t]
      BY <1>9, <2>2, <2>5, <3>1 DEF TypeOK, ScanSound, compute_safe_step
    <3>3. slot[v] # next[t]
      <4>1. prior[a] \in Nat /\ table[slot[v]] \in Nat
        BY <3>1 DEF TypeOK
      <4> QED
        BY <2>2, <2>5, <3>1, <4>1
    <3>4. next[t] \in Slots
      BY DEF TypeOK
    <3> QED
      BY <2>3, <3>1, <3>2, <3>3, <3>4
  <2>6. min'[t] <= current
    BY <1>9, <2>2 DEF TypeOK, ScanSound, compute_safe_step
  <2>7. pc'[t] # "scan" => next'[t] = 1
    BY <2>3
  <2> HIDE DEF e
  <2> QED
    BY <2>1, <2>4, <2>5, <2>6, <2>7 DEF ScanSound
<1>10. CASE drain_partition(t)
  BY <1>10 DEF TypeOK, ScanSound, ListsDisjoint, Safe, drain_partition
<1>11. CASE run_action(t)
  BY <1>11 DEF TypeOK, ScanSound, ListsDisjoint, run_action
<1>12. CASE /\ UNCHANGED <<slot, phase, prior, stale, next>>
             /\ pc[t] # "scan" /\ pc'[t] \notin {"scan", "try_lock"}
  <2>1. \A u \in Threads : pc'[u] \in {"scan", "try_lock"} =>
                            pc'[u] = pc[u] /\ min'[u] = min[u]
    BY <1>12, <1>b
  <2>2. \A u \in Threads : pc'[u] # "scan" => pc[u] # "scan"
    BY <1>12, <1>b
  <2>3. current \in Nat /\ \A u \in Threads : min[u] \in Nat
    BY DEF TypeOK
  <2> QED
    BY <1>12, <1>a, <2>1, <2>2, <2>3 DEF ScanSound
<1> QED
  BY <1>1, <1>2, <1>3, <1>4, <1>5, <1>6, <1>7, <1>8, <1>9, <1>10, <1>11, <1>12 DEF
       Step, inner_step, call_step, drain_step, TypeOK, protect_load,
       protect_store, refresh_load, bump_current_epoch, push_count,
       bump_after_push, check_count, drain_busy, drain_empty, drain_set_count,
       drain_return, drain_all_call, drain_all_bump, drain_all_exit,
       drain_all_return

\* A finished scan under which an action is safe has met no holder.
LEMMA NoEarlyReclaimStep ==
  ASSUME IInv, TypeOK', NEW t \in Threads, Step(t) PROVE NoEarlyReclaim'
<1> USE DEF IInv
<1>1. CASE refresh_store(t)
  BY <1>1 DEF TypeOK, NoEarlyReclaim, refresh_store
<1>2. CASE unprotect(t)
  BY <1>2 DEF TypeOK, NoEarlyReclaim, unprotect
<1>3. CASE release_thread(t)
  BY <1>3 DEF TypeOK, NoEarlyReclaim, release_thread
<1>4. CASE publish(t)
  BY <1>4 DEF TypeOK, NoEarlyReclaim, publish
<1>5. CASE load_prior(t)
  BY <1>5 DEF TypeOK, NoEarlyReclaim, Registering, load_prior
<1>6. CASE push(t)
  BY <1>6 DEF TypeOK, NoEarlyReclaim, Registering, push
<1>7. CASE drain_partition(t)
  <2>1. \A a \in Safe(t) : Tagged(a) /\ prior[a] < min[t]
    <3>1. \A a \in drain : phase[a] = "queued" /\ prior[a] \in Nat
      BY DEF TypeOK, ListsDisjoint
    <3>2. min[t] \in Nat
      BY DEF TypeOK
    <3> QED
      BY <3>1, <3>2 DEF Safe, safe
  <2>2. \A a \in Safe(t) : \A v \in Threads : a \notin stale[v]
    BY <1>7, <2>1 DEF TypeOK, ScanSound, drain_partition
  <2> QED
    BY <1>7, <2>2 DEF TypeOK, NoEarlyReclaim, drain_partition
<1>8. CASE run_action(t)
  BY <1>8 DEF TypeOK, NoEarlyReclaim, ListsDisjoint, run_action
<1>9. CASE UNCHANGED <<phase, stale>>
  BY <1>9 DEF TypeOK, NoEarlyReclaim
<1> QED
  BY <1>1, <1>2, <1>3, <1>4, <1>5, <1>6, <1>7, <1>8, <1>9 DEF
       Step, inner_step, call_step, drain_step, TypeOK, my_slot, protect_load,
       protect_store, refresh_load, bump_current_epoch, push_count,
       bump_after_push, check_count, compute_safe_start, compute_safe_step,
       drain_busy, drain_empty, drain_set_count, drain_return, drain_all_call,
       drain_all_bump, drain_all_exit, drain_all_return

-----------------------------------------------------------------------------

\* IInv holds initially: nothing is protected, registered or scanned.
LEMMA InitIInv == Init => IInv
<1> SUFFICES ASSUME Init PROVE IInv
  OBVIOUS
<1>1. TypeOK
  BY DEF Init, TypeOK, Labels, Phases
<1>2. SlotsOwned /\ EpochsBehind
  BY DEF Init, SlotsOwned, EpochsBehind
<1>3. PriorsBehind /\ ListsDisjoint /\ Registering
  BY DEF Init, PriorsBehind, ListsDisjoint, Registering
<1>4. HoldersBehind /\ ScanSound /\ NoEarlyReclaim
  BY DEF Init, HoldersBehind, ScanSound, NoEarlyReclaim
<1> QED
  BY <1>1, <1>2, <1>3, <1>4 DEF IInv

\* IInv is inductive.
LEMMA NextIInv == IInv /\ [Next]_vars => IInv'
<1> SUFFICES ASSUME IInv, [Next]_vars PROVE IInv'
  OBVIOUS
<1>1. ASSUME NEW t \in Threads, Step(t) PROVE IInv'
  <2>1. TypeOK'
    BY <1>1, TypeStep
  <2>2. /\ SlotsOwned' /\ EpochsBehind' /\ PriorsBehind' /\ ListsDisjoint'
        /\ Registering' /\ HoldersBehind' /\ ScanSound' /\ NoEarlyReclaim'
    BY <1>1, <2>1, SlotsOwnedStep, EpochsBehindStep, PriorsBehindStep,
       ListsDisjointStep, RegisteringStep, HoldersBehindStep, ScanSoundStep,
       NoEarlyReclaimStep
  <2> QED
    BY <2>1, <2>2 DEF IInv
<1>2. CASE UNCHANGED vars
  BY <1>2 DEF vars, IInv, TypeOK, SlotsOwned, EpochsBehind, PriorsBehind,
     ListsDisjoint, Registering, HoldersBehind, ScanSound, NoEarlyReclaim
<1> QED
  BY <1>1, <1>2 DEF Next, Step

(***************************************************************************)
(* The methods of LightEpoch keep every variable within its type.          *)
(***************************************************************************)
THEOREM TypeCorrect == Spec => []TypeOK
<1>1. IInv => TypeOK
  BY DEF IInv
<1> QED
  BY InitIInv, NextIInv, <1>1, PTL DEF Spec

(***************************************************************************)
(* Reclamation safety: drain never runs, or takes off the list in order to *)
(* run, an action whose retired state a protected thread may still hold.   *)
(***************************************************************************)
THEOREM ReclaimSafety == Spec => []NoEarlyReclaim
<1>1. IInv => NoEarlyReclaim
  BY DEF IInv
<1> QED
  BY InitIInv, NextIInv, <1>1, PTL DEF Spec

-----------------------------------------------------------------------------

\* Every step is, seen through the mapping, a step of the promise.
LEMMA StepRefines ==
  ASSUME IInv, IInv', NEW t \in Threads, Step(t)
  PROVE  Promise!DNext \/ UNCHANGED <<Protected, stale, Retirement>>
<1> USE DEF IInv
<1>1. CASE protect_store(t)
  <2>1. t \notin Protected /\ Protected' = Protected \union {t}
    BY <1>1 DEF TypeOK, SlotsOwned, protect_store, Protected
  <2>2. UNCHANGED <<stale, Retirement>>
    BY <1>1 DEF protect_store, Retirement
  <2> QED
    BY <2>1, <2>2 DEF Promise!DNext, Promise!Enter
<1>2. CASE refresh_store(t)
  <2>1. t \in Protected /\ Protected' = Protected
    BY <1>2 DEF TypeOK, SlotsOwned, refresh_store, Protected
  <2>2. stale' = [stale EXCEPT ![t] = {}] /\ UNCHANGED Retirement
    BY <1>2 DEF refresh_store, Retirement
  <2> QED
    BY <2>1, <2>2 DEF Promise!DNext, Promise!Renew
<1>3. CASE unprotect(t)
  <2>1. t \in Protected /\ Protected' = Protected \ {t}
    BY <1>3 DEF TypeOK, SlotsOwned, unprotect, Protected
  <2>2. stale' = [stale EXCEPT ![t] = {}] /\ UNCHANGED Retirement
    BY <1>3 DEF unprotect, Retirement
  <2> QED
    BY <2>1, <2>2 DEF Promise!DNext, Promise!Leave
<1>4. CASE release_thread(t)
  <2>1. Protected' = Protected \ {t}
    BY <1>4 DEF TypeOK, SlotsOwned, release_thread, Protected
  <2>2. stale' = [stale EXCEPT ![t] = {}] /\ UNCHANGED Retirement
    BY <1>4 DEF release_thread, Retirement
  <2>3. CASE t \in Protected
    BY <2>1, <2>2, <2>3 DEF Promise!DNext, Promise!Leave
  <2>4. CASE t \notin Protected
    <3>1. stale[t] = {}
      BY <2>4 DEF HoldersBehind, Protected
    <3> QED
      BY <2>1, <2>2, <2>4, <3>1 DEF TypeOK
  <2> QED
    BY <2>3, <2>4
<1>5. CASE publish(t)
  <2> PICK a \in Actions :
             /\ phase[a] = "idle"
             /\ phase' = [phase EXCEPT ![a] = "published"]
             /\ stale' = [u \in Threads |->
                  IF is_protected(u) THEN stale[u] \union {a} ELSE stale[u]]
    BY <1>5 DEF publish
  <2>1. Retirement[a] = "no" /\ Retirement' = [Retirement EXCEPT ![a] = "pending"]
    BY DEF TypeOK, Retirement
  <2>2. stale' = [u \in Threads |->
                    IF u \in Protected THEN stale[u] \union {a} ELSE stale[u]]
    BY DEF Protected
  <2>3. UNCHANGED Protected
    BY <1>5 DEF publish, Protected
  <2> QED
    BY <2>1, <2>2, <2>3 DEF Promise!DNext, Promise!Retire
<1>6. CASE run_action(t)
  <2> PICK a \in ready[t] : phase' = [phase EXCEPT ![a] = "done"]
    BY <1>6 DEF run_action
  <2>1. a \in Actions /\ phase[a] = "ready"
    BY DEF TypeOK, ListsDisjoint
  <2>2. \A u \in Threads : a \notin stale[u]
    BY <2>1 DEF NoEarlyReclaim
  <2>3. Retirement[a] = "pending" /\ Retirement' = [Retirement EXCEPT ![a] = "done"]
    BY <2>1 DEF TypeOK, Retirement
  <2>4. UNCHANGED <<Protected, stale>>
    BY <1>6 DEF run_action, Protected
  <2> QED
    BY <2>1, <2>2, <2>3, <2>4 DEF Promise!DNext, Promise!Reclaim
<1>7. CASE my_slot(t)
  <2>1. UNCHANGED Protected
    BY <1>7 DEF TypeOK, SlotsOwned, HoldersBehind, my_slot, Protected
  <2> QED
    BY <1>7, <2>1 DEF my_slot, Retirement
<1>8. CASE load_prior(t) \/ push(t) \/ drain_partition(t)
  <2>1. \A a \in Actions : phase'[a] # phase[a] =>
           {phase[a], phase'[a]} \intersect {"idle", "done"} = {}
    BY <1>8 DEF TypeOK, Registering, ListsDisjoint, load_prior, push,
                drain_partition, Safe
  <2>2. UNCHANGED Retirement
    BY <2>1 DEF Retirement
  <2> QED
    BY <1>8, <2>2 DEF Protected, load_prior, push, drain_partition
<1>9. CASE UNCHANGED <<table, slot, phase, stale>>
  BY <1>9 DEF Protected, Retirement
<1> QED
  BY <1>1, <1>2, <1>3, <1>4, <1>5, <1>6, <1>7, <1>8, <1>9 DEF
       Step, inner_step, call_step, drain_step, protect_load, refresh_load,
       bump_current_epoch, push_count, bump_after_push, check_count,
       compute_safe_start, compute_safe_step, drain_busy, drain_empty,
       drain_set_count, drain_return, drain_all_call, drain_all_bump,
       drain_all_exit, drain_all_return

(***************************************************************************)
(* The epoch protocol of epoch.rs implements DeferredReclamation, which is *)
(* all that log.rs and store.rs rely on.                                   *)
(***************************************************************************)
THEOREM Implementation == Spec => ImplementsPromise
<1>1. Init => Promise!DInit
  BY DEF Init, Promise!DInit, Protected, Retirement
<1>2. IInv /\ IInv' /\ [Next]_vars => [Promise!DNext]_(Promise!dvars)
  <2> SUFFICES ASSUME IInv, IInv', [Next]_vars
               PROVE  Promise!DNext \/ UNCHANGED <<Protected, stale, Retirement>>
    BY DEF Promise!dvars
  <2>1. CASE UNCHANGED vars
    BY <2>1 DEF vars, Protected, Retirement
  <2>2. CASE Next
    BY <2>2, StepRefines DEF Next, Step
  <2> QED
    BY <2>1, <2>2
<1> QED
  BY InitIInv, NextIInv, <1>1, <1>2, PTL DEF Spec, ImplementsPromise,
     Promise!DSpec
=============================================================================
