------------------------------ MODULE LightEpoch ------------------------------
(***************************************************************************)
(* crates/tsavorite/src/epoch.rs, one action per access to shared memory.  *)
(*                                                                         *)
(* A thread's call is a path through pc: "run" is the caller's own code,   *)
(* every other label is the point inside a method of LightEpoch where the  *)
(* thread stands.  A store operation runs at "run" with a non-zero epoch   *)
(* in its slot.  Memory is sequentially consistent.                        *)
(*                                                                         *)
(* stale is a history variable: stale[t] holds the retirements published   *)
(* while t was protected, whose old state t may therefore still look at.   *)
(***************************************************************************)
EXTENDS Integers, FiniteSets

CONSTANTS
  Threads,      (* threads that share one LightEpoch                       *)
  Actions,      (* deferred actions a run may register                     *)
  MAX_THREADS,  (* slots of the epoch table                                *)
  MaxEpoch,     (* bound on the bumps of spinning waiters                  *)
  None          (* no owner, no slot, no action                            *)

ASSUME MaxThreadsAssumption == MAX_THREADS \in Nat \ {0}
ASSUME MaxEpochAssumption == MaxEpoch \in Nat \ {0}
ASSUME NoneAssumption == None \notin Threads \union Actions \union Nat
ASSUME ActionsAssumption == IsFiniteSet(Actions)

UNPROTECTED == 0

Slots == 1 .. MAX_THREADS

VARIABLES
  current,      (* LightEpoch.current                                      *)
  table,        (* table[s]: the epoch published in slot s                 *)
  owner,        (* owner[s]: the thread that owns slot s, or None          *)
  slot,         (* slot[t]: the thread-local MY_SLOT                       *)
  drain,        (* actions in the drain list                               *)
  prior,        (* prior[a]: DrainAction.epoch of a                        *)
  lock,         (* holder of the drain mutex                               *)
  drain_count,
  pc,
  ret,          (* ret[t]: where the current call of drain returns to      *)
  seen,         (* seen[t]: the value of current the thread last loaded    *)
  act,          (* act[t]: the action a bump_with_action call registers    *)
  min,          (* min[t]: local min of compute_safe_epoch                 *)
  next,         (* next[t]: the slot compute_safe_epoch loads next         *)
  ready,        (* ready[t]: actions taken off the list, not yet run       *)
  phase,        (* phase[a]: progress of action a (history)                *)
  stale,        (* history, see above                                      *)
  await         (* await[t]: actions registered when drain_all began       *)

tableVars == <<table, owner, slot>>
drainVars == <<drain, prior, lock, drain_count, ready>>
localVars == <<ret, seen, act, min, next, await>>
history == <<phase, stale>>
vars == <<current, tableVars, drainVars, localVars, history, pc>>

Phases == {"idle", "published", "loaded", "queued", "ready", "done"}

Labels == {"run", "protect", "refresh", "check", "scan0", "scan", "try_lock",
           "count", "exec", "prior", "push", "push_count", "bump",
           "wait", "waited"}

Init ==
  /\ current = 1
  /\ table = [s \in Slots |-> UNPROTECTED]
  /\ owner = [s \in Slots |-> None]
  /\ slot = [t \in Threads |-> None]
  /\ drain = {}
  /\ prior = [a \in Actions |-> 0]
  /\ lock = None
  /\ drain_count = 0
  /\ pc = [t \in Threads |-> "run"]
  /\ ret = [t \in Threads |-> "run"]
  /\ seen = [t \in Threads |-> 0]
  /\ act = [t \in Threads |-> None]
  /\ min = [t \in Threads |-> 0]
  /\ next = [t \in Threads |-> 1]
  /\ ready = [t \in Threads |-> {}]
  /\ phase = [a \in Actions |-> "idle"]
  /\ stale = [t \in Threads |-> {}]
  /\ await = [t \in Threads |-> {}]

-----------------------------------------------------------------------------

Goto(t, from, to) ==
  /\ pc[t] = from
  /\ pc' = [pc EXCEPT ![t] = to]

is_protected(t) == slot[t] # None /\ table[slot[t]] # UNPROTECTED

\* Claim a slot by compare-and-swap on its owner; a thread that finds none
\* panics, which here is a thread that never leaves "run" again.
my_slot(t) ==
  /\ pc[t] = "run"
  /\ slot[t] = None
  /\ \E s \in Slots :
       /\ owner[s] = None
       /\ owner' = [owner EXCEPT ![s] = t]
       /\ slot' = [slot EXCEPT ![t] = s]
  /\ UNCHANGED <<current, table, drainVars, localVars, history, pc>>

protect_load(t) ==
  /\ slot[t] # None /\ ~is_protected(t)
  /\ Goto(t, "run", "protect")
  /\ seen' = [seen EXCEPT ![t] = current]
  /\ UNCHANGED <<current, tableVars, drainVars, ret, act, min, next, await,
                 history>>

\* The SeqCst store; the caller reads shared state only after it.
protect_store(t) ==
  /\ Goto(t, "protect", "run")
  /\ table' = [table EXCEPT ![slot[t]] = seen[t]]
  /\ seen' = [seen EXCEPT ![t] = 0]
  /\ UNCHANGED <<current, owner, slot, drainVars, ret, act, min, next, await,
                 history>>

refresh_load(t) ==
  /\ is_protected(t)
  /\ Goto(t, "run", "refresh")
  /\ seen' = [seen EXCEPT ![t] = current]
  /\ UNCHANGED <<current, tableVars, drainVars, ret, act, min, next, await,
                 history>>

\* A caller of refresh holds no pointer across it.
refresh_store(t) ==
  /\ Goto(t, "refresh", "check")
  /\ table' = [table EXCEPT ![slot[t]] = seen[t]]
  /\ stale' = [stale EXCEPT ![t] = {}]
  /\ seen' = [seen EXCEPT ![t] = 0]
  /\ UNCHANGED <<current, owner, slot, drainVars, ret, act, min, next, await,
                 phase>>

unprotect(t) ==
  /\ pc[t] = "run"
  /\ is_protected(t)
  /\ table' = [table EXCEPT ![slot[t]] = UNPROTECTED]
  /\ stale' = [stale EXCEPT ![t] = {}]
  /\ UNCHANGED <<current, owner, slot, drainVars, localVars, phase, pc>>

\* Both stores of release_thread: the slot is cleared before it is given up.
release_thread(t) ==
  /\ pc[t] = "run"
  /\ slot[t] # None
  /\ table' = [table EXCEPT ![slot[t]] = UNPROTECTED]
  /\ owner' = [owner EXCEPT ![slot[t]] = None]
  /\ slot' = [slot EXCEPT ![t] = None]
  /\ stale' = [stale EXCEPT ![t] = {}]
  /\ UNCHANGED <<current, drainVars, localVars, phase, pc>>

-----------------------------------------------------------------------------

\* Locals are reset when they die, so that equal situations are equal states.

\* current.fetch_add(1) of a bare bump, cut off at MaxEpoch: a waiter spins on
\* it without bound.  The fetch_add that ends a registration is never cut off,
\* so current always passes the prior of a registered action.
Increment == current' = IF current < MaxEpoch THEN current + 1 ELSE current

bump_current_epoch(t) ==
  /\ Goto(t, "run", "check")
  /\ Increment
  /\ UNCHANGED <<tableVars, drainVars, localVars, history>>

\* The caller publishes the new state (log.rs: the compare-and-swap on
\* read_only or head) and calls bump_with_action.
publish(t) ==
  /\ Goto(t, "run", "prior")
  /\ \E a \in Actions :
       /\ phase[a] = "idle"
       /\ phase' = [phase EXCEPT ![a] = "published"]
       /\ act' = [act EXCEPT ![t] = a]
       /\ stale' = [u \in Threads |->
                      IF is_protected(u) THEN stale[u] \union {a} ELSE stale[u]]
  /\ UNCHANGED <<current, tableVars, drainVars, ret, seen, min, next, await>>

load_prior(t) ==
  /\ Goto(t, "prior", "push")
  /\ prior' = [prior EXCEPT ![act[t]] = current]
  /\ phase' = [phase EXCEPT ![act[t]] = "loaded"]
  /\ UNCHANGED <<current, tableVars, drain, lock, drain_count, ready, localVars,
                 stale>>

push(t) ==
  /\ Goto(t, "push", "push_count")
  /\ lock = None
  /\ lock' = t
  /\ drain' = drain \union {act[t]}
  /\ phase' = [phase EXCEPT ![act[t]] = "queued"]
  /\ UNCHANGED <<current, tableVars, prior, drain_count, ready, localVars, stale>>

push_count(t) ==
  /\ Goto(t, "push_count", "bump")
  /\ drain_count' = Cardinality(drain)
  /\ lock' = None
  /\ UNCHANGED <<current, tableVars, drain, prior, ready, localVars, history>>

\* bump_with_action drains without looking at drain_count.
bump_after_push(t) ==
  /\ Goto(t, "bump", "scan0")
  /\ current' = current + 1
  /\ act' = [act EXCEPT ![t] = None]
  /\ UNCHANGED <<tableVars, drainVars, ret, seen, min, next, await, history>>

-----------------------------------------------------------------------------

check_count(t) ==
  /\ Goto(t, "check", IF drain_count > 0 THEN "scan0" ELSE ret[t])
  /\ UNCHANGED <<current, tableVars, drainVars, localVars, history>>

compute_safe_start(t) ==
  /\ Goto(t, "scan0", "scan")
  /\ min' = [min EXCEPT ![t] = current]
  /\ UNCHANGED <<current, tableVars, drainVars, ret, seen, act, next, await,
                 history>>

\* Mutant: the loop over the table does not stop at its end.
compute_safe_step_overrun(t) ==
  LET e == table[next[t]] IN
  /\ Goto(t, "scan", IF next[t] = MAX_THREADS THEN "try_lock" ELSE "scan")
  /\ min' = [min EXCEPT ![t] = IF e # UNPROTECTED /\ e < @ THEN e ELSE @]
  /\ next' = [next EXCEPT ![t] = @ + 1]
  /\ UNCHANGED <<current, tableVars, drainVars, ret, seen, act, await, history>>

compute_safe_step(t) ==
  LET e == table[next[t]] IN
  /\ Goto(t, "scan", IF next[t] = MAX_THREADS THEN "try_lock" ELSE "scan")
  /\ min' = [min EXCEPT ![t] = IF e # UNPROTECTED /\ e < @ THEN e ELSE @]
  /\ next' = [next EXCEPT ![t] = IF @ = MAX_THREADS THEN 1 ELSE @ + 1]
  /\ UNCHANGED <<current, tableVars, drainVars, ret, seen, act, await, history>>

\* Mutant: an epoch somebody is still in counts as safe.
safe_inclusive(t) == min[t]

safe(t) == min[t] - 1

\* try_lock fails: somebody else is at the list.
drain_busy(t) ==
  /\ lock # None
  /\ Goto(t, "try_lock", ret[t])
  /\ min' = [min EXCEPT ![t] = 0]
  /\ UNCHANGED <<current, tableVars, drainVars, ret, seen, act, next, await,
                 history>>

drain_empty(t) ==
  /\ lock = None /\ drain = {}
  /\ Goto(t, "try_lock", ret[t])
  /\ min' = [min EXCEPT ![t] = 0]
  /\ UNCHANGED <<current, tableVars, drainVars, ret, seen, act, next, await,
                 history>>

Safe(t) == {a \in drain : prior[a] <= safe(t)}

\* Mutant: the actions that are not yet safe are not put back.
drain_partition_drops(t) ==
  /\ lock = None /\ drain # {}
  /\ Goto(t, "try_lock", "count")
  /\ lock' = t
  /\ ready' = [ready EXCEPT ![t] = Safe(t)]
  /\ drain' = {}
  /\ phase' = [a \in Actions |-> IF a \in Safe(t) THEN "ready" ELSE phase[a]]
  /\ min' = [min EXCEPT ![t] = 0]
  /\ UNCHANGED <<current, tableVars, prior, drain_count, ret, seen, act, next,
                 await, stale>>

drain_partition(t) ==
  /\ lock = None /\ drain # {}
  /\ Goto(t, "try_lock", "count")
  /\ lock' = t
  /\ ready' = [ready EXCEPT ![t] = Safe(t)]
  /\ drain' = drain \ Safe(t)
  /\ phase' = [a \in Actions |-> IF a \in Safe(t) THEN "ready" ELSE phase[a]]
  /\ min' = [min EXCEPT ![t] = 0]
  /\ UNCHANGED <<current, tableVars, prior, drain_count, ret, seen, act, next,
                 await, stale>>

\* Mutant: drain_count is not stored after the partition.
drain_set_count_forgotten(t) ==
  /\ Goto(t, "count", "exec")
  /\ lock' = None
  /\ UNCHANGED <<current, tableVars, drain, prior, drain_count, ready, localVars,
                 history>>

drain_set_count(t) ==
  /\ Goto(t, "count", "exec")
  /\ drain_count' = Cardinality(drain)
  /\ lock' = None
  /\ UNCHANGED <<current, tableVars, drain, prior, ready, localVars, history>>

\* The actions run outside the mutex, one at a time.
run_action(t) ==
  /\ pc[t] = "exec"
  /\ \E a \in ready[t] :
       /\ ready' = [ready EXCEPT ![t] = @ \ {a}]
       /\ phase' = [phase EXCEPT ![a] = "done"]
  /\ UNCHANGED <<current, tableVars, drain, prior, lock, drain_count, localVars,
                 stale, pc>>

drain_return(t) ==
  /\ ready[t] = {}
  /\ Goto(t, "exec", ret[t])
  /\ UNCHANGED <<current, tableVars, drainVars, localVars, history>>

-----------------------------------------------------------------------------

\* Actions whose registration has left the mutex and that have not run.
Registered ==
  {a \in Actions : phase[a] \in {"queued", "ready"}}
     \ {act[u] : u \in {v \in Threads : pc[v] = "push_count"}}

\* drain_all_blocking: called outside any protected region.
drain_all_call(t) ==
  /\ ~is_protected(t)
  /\ Goto(t, "run", "wait")
  /\ await' = [await EXCEPT ![t] = Registered]
  /\ UNCHANGED <<current, tableVars, drainVars, ret, seen, act, min, next, history>>

drain_all_bump(t) ==
  /\ drain_count > 0
  /\ Goto(t, "wait", "check")
  /\ Increment
  /\ ret' = [ret EXCEPT ![t] = "wait"]
  /\ UNCHANGED <<tableVars, drainVars, seen, act, min, next, await, history>>

drain_all_exit(t) ==
  /\ drain_count = 0
  /\ Goto(t, "wait", "waited")
  /\ ret' = [ret EXCEPT ![t] = "run"]
  /\ UNCHANGED <<current, tableVars, drainVars, seen, act, min, next, await,
                 history>>

drain_all_return(t) ==
  /\ Goto(t, "waited", "run")
  /\ await' = [await EXCEPT ![t] = {}]
  /\ UNCHANGED <<current, tableVars, drainVars, ret, seen, act, min, next, history>>

-----------------------------------------------------------------------------

drain_step(t) ==
  \/ check_count(t) \/ compute_safe_start(t) \/ compute_safe_step(t)
  \/ drain_busy(t) \/ drain_empty(t) \/ drain_partition(t)
  \/ drain_set_count(t) \/ run_action(t) \/ drain_return(t)

\* A step inside a call already made: the thread is scheduled until it returns.
inner_step(t) ==
  \/ protect_store(t) \/ refresh_store(t)
  \/ load_prior(t) \/ push(t) \/ push_count(t) \/ bump_after_push(t)
  \/ drain_step(t)
  \/ drain_all_bump(t) \/ drain_all_exit(t) \/ drain_all_return(t)

call_step(t) ==
  \/ my_slot(t) \/ protect_load(t) \/ refresh_load(t) \/ unprotect(t)
  \/ release_thread(t) \/ bump_current_epoch(t) \/ publish(t)
  \/ drain_all_call(t)

Next == \E t \in Threads : inner_step(t) \/ call_step(t)

Spec == Init /\ [][Next]_vars

(***************************************************************************)
(* A call once made goes on to its end (the operating system schedules     *)
(* every thread), and an operation, having finitely many steps, leaves its *)
(* protected region whatever it refreshes or bumps on the way.  No call is *)
(* ever bound to be made.                                                  *)
(***************************************************************************)
Fairness ==
  \A t \in Threads :
    WF_vars(inner_step(t)) /\ SF_vars(unprotect(t))

FairSpec == Spec /\ Fairness

-----------------------------------------------------------------------------

(***************************************************************************)
(* Types of the variables, as the declarations of epoch.rs give them.      *)
(***************************************************************************)
TypeOK ==
  /\ current \in Nat \ {0}
  /\ table \in [Slots -> Nat]
  /\ owner \in [Slots -> Threads \union {None}]
  /\ slot \in [Threads -> Slots \union {None}]
  /\ drain \subseteq Actions
  /\ prior \in [Actions -> Nat]
  /\ lock \in Threads \union {None}
  /\ drain_count \in Nat
  /\ pc \in [Threads -> Labels]
  /\ ret \in [Threads -> {"run", "wait"}]
  /\ seen \in [Threads -> Nat]
  /\ act \in [Threads -> Actions \union {None}]
  /\ min \in [Threads -> Nat]
  /\ next \in [Threads -> Slots]
  /\ ready \in [Threads -> SUBSET Actions]
  /\ phase \in [Actions -> Phases]
  /\ stale \in [Threads -> SUBSET Actions]
  /\ await \in [Threads -> SUBSET Actions]

(***************************************************************************)
(* The reason the epoch exists: once drain has decided that an action may  *)
(* run, no thread is still in the protected region in which it could have  *)
(* seen the state that the action retires.  The decision uses a scan of    *)
(* the table that races with protect, refresh, unprotect and slot reuse.   *)
(***************************************************************************)
NoEarlyReclaim ==
  \A a \in Actions : phase[a] \in {"ready", "done"} =>
    \A t \in Threads : a \notin stale[t]

(***************************************************************************)
(* The detailed protocol implements the abstract promise: every step is a  *)
(* step of DeferredReclamation or changes nothing it can see.              *)
(***************************************************************************)
Protected == {t \in Threads : is_protected(t)}

Retirement == [a \in Actions |-> IF phase[a] = "idle" THEN "no"
                                 ELSE IF phase[a] = "done" THEN "done"
                                 ELSE "pending"]

Promise == INSTANCE DeferredReclamation WITH
  inside <- Protected, retired <- Retirement

ImplementsPromise == Promise!DSpec

(***************************************************************************)
(* The inductive strengthening of NoEarlyReclaim.                          *)
(***************************************************************************)
\* A slot belongs to one thread, and a thread between the load and the store
\* of protect or refresh has one.
SlotsOwned ==
  /\ \A s \in Slots : owner[s] = None => table[s] = UNPROTECTED
  /\ \A t \in Threads :
       /\ slot[t] # None => owner[slot[t]] = t
       /\ pc[t] \in {"protect", "refresh"} =>
            slot[t] # None /\ seen[t] > 0 /\ seen[t] <= current
       /\ pc[t] = "protect" => table[slot[t]] = UNPROTECTED
       /\ pc[t] = "refresh" => table[slot[t]] # UNPROTECTED

\* No published epoch is ahead of current.
EpochsBehind == \A s \in Slots : table[s] <= current

\* A prior that has been loaded.
Tagged(a) == phase[a] \notin {"idle", "published"}

PriorsBehind == \A a \in Actions : Tagged(a) => prior[a] <= current

\* An action is in the lists its phase says, and in one of them only.
ListsDisjoint ==
  /\ \A a \in drain : phase[a] = "queued"
  /\ \A t \in Threads : \A a \in ready[t] : phase[a] = "ready"
  /\ \A t, u \in Threads : t # u => ready[t] \intersect ready[u] = {}

\* A registration in progress owns its action.
Registering ==
  /\ \A t \in Threads :
       /\ act[t] # None => phase[act[t]] # "idle"
       /\ pc[t] = "prior" => act[t] # None /\ phase[act[t]] = "published"
       /\ pc[t] = "push" => act[t] # None /\ phase[act[t]] = "loaded"
  /\ \A t, u \in Threads : t # u /\ act[t] # None => act[t] # act[u]

\* A thread that may hold the state an action retires is protected, in an
\* epoch no later than the one the action is tagged with.
HoldersBehind ==
  \A t \in Threads : \A a \in stale[t] :
    /\ is_protected(t)
    /\ phase[a] # "idle"
    /\ Tagged(a) => table[slot[t]] <= prior[a]

\* A scan under which an action would be safe has not yet passed the slot of
\* a thread that holds what the action retires.
ScanSound ==
  \A u \in Threads :
    /\ pc[u] # "scan" => next[u] = 1
    /\ pc[u] \in {"scan", "try_lock"} =>
         /\ min[u] <= current
         /\ \A t \in Threads : \A a \in stale[t] :
              Tagged(a) /\ prior[a] < min[u] =>
                pc[u] = "scan" /\ slot[t] >= next[u]

IInv ==
  /\ TypeOK
  /\ SlotsOwned
  /\ EpochsBehind
  /\ PriorsBehind
  /\ ListsDisjoint
  /\ Registering
  /\ HoldersBehind
  /\ ScanSound
  /\ NoEarlyReclaim

(***************************************************************************)
(* A caller of drain_all_blocking gets out of its loop, whatever the other *)
(* threads protect, register and drain meanwhile.                          *)
(***************************************************************************)
DrainAllTerminates ==
  \A t \in Threads : pc[t] = "wait" ~> pc[t] = "run"

(***************************************************************************)
(* No registered action is stranded: if anybody calls drain_all_blocking   *)
(* after its registration, it runs.                                        *)
(***************************************************************************)
AwaitedActionRuns ==
  \A t \in Threads, a \in Actions : a \in await[t] ~> phase[a] = "done"
=============================================================================
