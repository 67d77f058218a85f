-------------------------------- MODULE Store --------------------------------
(***************************************************************************)
(* The operations of crates/tsavorite/src/store.rs on one hash chain: all  *)
(* keys here share a tag, hence an index entry and a bucket latch.         *)
(*                                                                         *)
(* An attempt at an operation has three steps: protect (and re-read the    *)
(* system state), take the latch and load the entry and the watermarks,    *)
(* act on what was loaded and leave.  Between them other threads run and   *)
(* the log moves its watermarks; I/O happens between attempts, outside     *)
(* protection and latch.                                                   *)
(*                                                                         *)
(* The log is the sequence of its records: the address of a record is its  *)
(* position.  One copy of a record stands for memory and device            *)
(* (HybridLog!FlushedIsFinal and PointerValid).  The latch is what         *)
(* BucketLatch shows; nobody changes the entry without it, so that a       *)
(* compare-and-swap on the entry succeeds.  Values do not expire.          *)
(***************************************************************************)
EXTENDS Integers, Sequences, FiniteSets, FiniteSetsExt

CONSTANTS
  Threads,
  Keys,
  Ops,           (* the operations that are called                         *)
  Written,       (* the value upserts write                                *)
  MaxLog,        (* bound: records                                         *)
  MaxCalls,      (* bound: operations called                               *)
  MaxEvictions,  (* bound: moves of Head                                   *)
  None

Kinds == {"read", "upsert", "incr", "take", "setnx", "delete"}
Rmws == {"incr", "take", "setnx"}

ASSUME OpsAssumption == Ops \subseteq Kinds
ASSUME WrittenAssumption == Written \in Nat \ {0}
ASSUME NoneAssumption ==
  /\ None \notin Threads \union Nat
  /\ None \notin [kind : Kinds, key : Keys] \union [val : Nat, latest : Nat]
ASSUME BoundsAssumption == MaxLog \in Nat /\ MaxCalls \in Nat /\ MaxEvictions \in Nat

VARIABLES
  log,                              (* the records                         *)
  entry,                            (* address in the index entry, or 0    *)
  head, safe_read_only, read_only,  (* watermarks                          *)
  latch,                            (* the exclusive holder, or None       *)
  readers,                          (* the shared holders                  *)
  sys,                              (* phase and version                   *)
  start,                            (* checkpoint_start_address            *)
  pc,
  call,          (* call[t]: the operation in progress, or None            *)
  answer,        (* answer[t]: its result                                  *)
  state,         (* state[t]: the session's copy of sys                    *)
  entered,       (* entered[t]: ReadOnly when t entered protection         *)
  view,          (* view[t]: watermarks loaded in this attempt             *)
  disk,          (* disk[t]: address at which the chain goes on on disk    *)
  src,           (* src[t]: what the I/O brought: value, and chain head    *)
  calls, evictions                  (* bounds                              *)

marks == <<head, safe_read_only, read_only>>
locals == <<call, answer, state, entered, view, disk, src>>
vars == <<log, entry, marks, latch, readers, sys, start, pc, locals, calls,
          evictions>>

Absent == 0
NoView == [head |-> 0, read_only |-> 0, safe_read_only |-> 0]
MAX_ADDRESS == MaxLog + 2

Init ==
  /\ log = <<>> /\ entry = 0
  /\ head = 1 /\ safe_read_only = 1 /\ read_only = 1
  /\ latch = None /\ readers = {}
  /\ sys = [phase |-> "rest", version |-> 1]
  /\ start = MAX_ADDRESS
  /\ pc = [t \in Threads |-> "idle"]
  /\ call = [t \in Threads |-> None]
  /\ answer = [t \in Threads |-> None]
  /\ state = [t \in Threads |-> sys]
  /\ entered = [t \in Threads |-> 0]
  /\ view = [t \in Threads |-> NoView]
  /\ disk = [t \in Threads |-> 0]
  /\ src = [t \in Threads |-> None]
  /\ calls = 0
  /\ evictions = 0

tail == Len(log) + 1
in_new_version(s) == s.phase \in {"in_progress", "wait_flush"}
record_in_new_version(a) == log[a].new /\ a >= start
is_closed(a) == log[a].sealed \/ ~log[a].valid

\* The addresses of a chain, from a down.
Chain(a) ==
  LET chain[b \in 0 .. Len(log)] == IF b = 0 THEN {} ELSE {b} \union chain[log[b].prev]
  IN chain[a]

\* trace_back: the newest record of k at min or above, or 0; and where the
\* walk stops when there is none.
trace_back(a, k, min) ==
  Max({0} \union {b \in Chain(a) : b >= min /\ log[b].key = k})

Stopped(a, min) == Max({0} \union {b \in Chain(a) : b < min})

\* find_on_disk, which looks at no flag but the tombstone.
Image(a, k) ==
  LET b == trace_back(a, k, 1)
  IN IF b = 0 \/ log[b].tomb THEN Absent ELSE log[b].val

-----------------------------------------------------------------------------
(* The frame of an operation.                                              *)

key(t) == call[t].key
kind(t) == call[t].kind

invoke(t) ==
  /\ pc[t] = "idle" /\ calls < MaxCalls
  /\ pc' = [pc EXCEPT ![t] = "enter"]
  /\ calls' = calls + 1
  /\ \E o \in Ops, k \in Keys : call' = [call EXCEPT ![t] = [kind |-> o, key |-> k]]
  /\ UNCHANGED <<log, entry, marks, latch, readers, sys, start, answer, state,
                 entered, view, disk, src, evictions>>

\* protected: enter the epoch, then sync_state.
protect(t) ==
  /\ pc[t] = "enter"
  /\ pc' = [pc EXCEPT ![t] = "latch"]
  /\ entered' = [entered EXCEPT ![t] = read_only]
  /\ state' = [state EXCEPT ![t] = sys]
  /\ UNCHANGED <<log, entry, marks, latch, readers, sys, start, call, answer,
                 view, disk, src, calls, evictions>>

\* Find the slot, latch its bucket, load the entry and the watermarks.
latch_and_load(t) ==
  /\ pc[t] = "latch" /\ latch = None
  /\ IF kind(t) = "read"
       THEN readers' = readers \union {t} /\ UNCHANGED latch
       ELSE readers = {} /\ latch' = t /\ UNCHANGED readers
  /\ view' = [view EXCEPT ![t] =
       [head |-> head, read_only |-> read_only, safe_read_only |-> safe_read_only]]
  /\ pc' = [pc EXCEPT ![t] = "act"]
  /\ UNCHANGED <<log, entry, marks, sys, start, call, answer, state, entered,
                 disk, src, calls, evictions>>

\* The latch is dropped, then protection.
Leave(t, to) ==
  /\ pc' = [pc EXCEPT ![t] = to]
  /\ latch' = IF latch = t THEN None ELSE latch
  /\ readers' = readers \ {t}
  /\ entered' = [entered EXCEPT ![t] = 0]
  /\ view' = [view EXCEPT ![t] = NoView]
  /\ UNCHANGED <<marks, sys, start, call, state, calls, evictions>>

Done(t, a) ==
  /\ answer' = [answer EXCEPT ![t] = a]
  /\ disk' = [disk EXCEPT ![t] = 0]
  /\ src' = [src EXCEPT ![t] = None]
  /\ Leave(t, "done")

\* RetryLater, RetryNow and CprShift: another attempt.
Retry(t) == Leave(t, "enter") /\ UNCHANGED <<log, entry, answer, disk, src>>

\* The latch was not to be had.
latch_busy(t) ==
  /\ pc[t] = "latch"
  /\ latch # None \/ (kind(t) # "read" /\ readers # {})
  /\ Retry(t)

return(t) ==
  /\ pc[t] = "done"
  /\ pc' = [pc EXCEPT ![t] = "idle"]
  /\ call' = [call EXCEPT ![t] = None]
  /\ answer' = [answer EXCEPT ![t] = None]
  /\ UNCHANGED <<log, entry, marks, latch, readers, sys, start, state, entered,
                 view, disk, src, calls, evictions>>

-----------------------------------------------------------------------------
(* What an attempt finds.                                                  *)

\* Mutant: every operation looks in the mutable region only.
lowest_mutable(t) == view[t].read_only

\* Upsert is blind: it looks in the mutable region only.
lowest(t) == IF kind(t) = "upsert" THEN view[t].read_only ELSE view[t].head

found(t) == trace_back(entry, key(t), lowest(t))
stopped(t) == Stopped(entry, view[t].head)

\* The chain goes on on disk, for an operation that cares.
OnDisk(t) == kind(t) # "upsert" /\ found(t) = 0 /\ stopped(t) # 0

cpr_gate(t) ==
  found(t) # 0 /\ \/ state[t].phase = "prepare" /\ record_in_new_version(found(t))
                  \/ is_closed(found(t))

\* Mutant: records of the version being captured are updated in place.
cpr_blocks_in_place_never(t) == FALSE

cpr_blocks_in_place(t) ==
  in_new_version(state[t]) /\ ~record_in_new_version(found(t))

Fuzzy(t) ==
  /\ kind(t) \in Rmws
  /\ found(t) >= view[t].safe_read_only /\ found(t) < view[t].read_only

\* After an I/O: no newer record of the key above the chain head seen then.
unchanged_since_io(t) ==
  \/ src[t].latest = entry
  \/ trace_back(entry, key(t), Max({src[t].latest + 1, view[t].head})) = 0

MustRetry(t) ==
  \/ cpr_gate(t)
  \/ found(t) # 0 /\ ~log[found(t)].tomb /\ Fuzzy(t)
  \/ OnDisk(t) /\ src[t] # None /\ ~unchanged_since_io(t)

retry(t) == pc[t] = "act" /\ MustRetry(t) /\ Retry(t)

\* The record this attempt decided to go by, and its value.
Settled(t) == pc[t] = "act" /\ ~MustRetry(t) /\ (OnDisk(t) => src[t] # None)

\* Mutant: a tombstone in memory is taken for a value.
value_tombless(t) ==
  IF found(t) # 0
    THEN log[found(t)].val
    ELSE IF OnDisk(t) THEN src[t].val ELSE Absent

value(t) ==
  IF found(t) # 0
    THEN IF log[found(t)].tomb THEN Absent ELSE log[found(t)].val
    ELSE IF OnDisk(t) THEN src[t].val ELSE Absent

Live(t) == found(t) # 0 /\ ~log[found(t)].tomb

InPlace(t) ==
  /\ Settled(t) /\ Live(t)
  /\ found(t) >= view[t].read_only
  /\ ~cpr_blocks_in_place(t)

-----------------------------------------------------------------------------
(* Ways an attempt ends without a record of its own.                       *)

go_to_disk(t) ==
  /\ pc[t] = "act" /\ OnDisk(t) /\ ~cpr_gate(t) /\ src[t] = None
  /\ disk' = [disk EXCEPT ![t] = stopped(t)]
  /\ src' = [src EXCEPT ![t] = [val |-> Absent, latest |-> entry]]
  /\ Leave(t, "io")
  /\ UNCHANGED <<log, entry, answer>>

\* find_on_disk, then the next attempt; a read answers from what it found.
io_update(t) ==
  /\ pc[t] = "io" /\ kind(t) # "read"
  /\ pc' = [pc EXCEPT ![t] = "enter"]
  /\ src' = [src EXCEPT ![t].val = Image(disk[t], key(t))]
  /\ disk' = [disk EXCEPT ![t] = 0]
  /\ UNCHANGED <<log, entry, marks, latch, readers, sys, start, call, answer,
                 state, entered, view, calls, evictions>>

io_read(t) ==
  /\ pc[t] = "io" /\ kind(t) = "read"
  /\ pc' = [pc EXCEPT ![t] = "done"]
  /\ answer' = [answer EXCEPT ![t] = Image(disk[t], key(t))]
  /\ src' = [src EXCEPT ![t] = None]
  /\ disk' = [disk EXCEPT ![t] = 0]
  /\ UNCHANGED <<log, entry, marks, latch, readers, sys, start, call, state,
                 entered, view, calls, evictions>>

\* Nothing to do: reads; delete and take of nothing; setnx of something.
no_effect(t) ==
  /\ Settled(t)
  /\ \/ kind(t) = "read" /\ Done(t, value(t))
     \/ kind(t) \in {"delete", "take"} /\ value(t) = Absent /\ Done(t, Absent)
     \/ kind(t) = "setnx" /\ value(t) # Absent /\ Done(t, 0)
  /\ UNCHANGED <<log, entry>>

-----------------------------------------------------------------------------
(* Updates in place.                                                       *)

in_place_writer(t) ==
  /\ InPlace(t) /\ kind(t) = "upsert"
  /\ log' = [log EXCEPT ![found(t)].val = Written]
  /\ Done(t, Written)
  /\ UNCHANGED entry

in_place_updater(t) ==
  /\ InPlace(t) /\ kind(t) = "incr"
  /\ log' = [log EXCEPT ![found(t)].val = @ + 1]
  /\ Done(t, value(t) + 1)
  /\ UNCHANGED entry

in_place_delete(t) ==
  /\ InPlace(t) /\ kind(t) \in {"delete", "take"}
  /\ log' = [log EXCEPT ![found(t)].tomb = TRUE]
  /\ Done(t, IF kind(t) = "take" THEN value(t) ELSE 1)
  /\ UNCHANGED entry

-----------------------------------------------------------------------------
(* Updates by a new record at the tail: allocate_record, cas_into_chain,   *)
(* and the seal on the old record.                                         *)

Append_record(t, v, dead, seals) ==
  /\ Len(log) < MaxLog
  /\ LET old == IF seals THEN [log EXCEPT ![found(t)].sealed = TRUE] ELSE log IN
     log' = Append(old, [key |-> key(t), val |-> v, prev |-> entry, tomb |-> dead,
                         new |-> in_new_version(state[t]), sealed |-> FALSE,
                         valid |-> TRUE])
  /\ entry' = tail

\* Whether an rmw seals its source: only one in the mutable region.
Mutable(t) == Live(t) /\ found(t) >= view[t].read_only

append_upsert(t) ==
  /\ Settled(t) /\ kind(t) = "upsert"
  /\ Append_record(t, Written, FALSE, Live(t))
  /\ Done(t, Written)

rmw_initial(t) ==
  /\ Settled(t) /\ kind(t) \in {"incr", "setnx"} /\ value(t) = Absent
  /\ Append_record(t, IF kind(t) = "incr" THEN 1 ELSE Written, FALSE, FALSE)
  /\ Done(t, 1)

rmw_copy(t) ==
  /\ Settled(t) /\ kind(t) = "incr" /\ value(t) # Absent
  /\ Append_record(t, value(t) + 1, FALSE, Mutable(t))
  /\ Done(t, value(t) + 1)

\* Only where it may not be done in place.
delete_rcu(t) ==
  /\ Settled(t) /\ kind(t) \in {"delete", "take"} /\ value(t) # Absent
  /\ ~InPlace(t)
  /\ Append_record(t, Absent, TRUE, IF kind(t) = "delete" THEN Live(t) ELSE Mutable(t))
  /\ Done(t, IF kind(t) = "take" THEN value(t) ELSE 1)

\* The attempt needs a record of its own: an upsert or an incr whenever the
\* new value may not fit into the old record.
Appends(t) ==
  \/ kind(t) \in {"upsert", "incr"}
  \/ kind(t) = "setnx" /\ value(t) = Absent
  \/ kind(t) \in {"delete", "take"} /\ value(t) # Absent /\ ~InPlace(t)

\* Mutant: the source is sealed before the allocation, which then fails.
allocation_blocked_sealed(t) ==
  /\ Settled(t) /\ Appends(t)
  /\ log' = IF Mutable(t) THEN [log EXCEPT ![found(t)].sealed = TRUE] ELSE log
  /\ Leave(t, "enter")
  /\ UNCHANGED <<entry, answer, disk, src>>

\* The log has no room yet: RetryLater.
allocation_blocked(t) ==
  /\ Settled(t) /\ Appends(t)
  /\ Retry(t)

-----------------------------------------------------------------------------
(* The log's watermarks, as HybridLog moves them.                          *)

shift_read_only ==
  /\ \E a \in read_only + 1 .. tail : read_only' = a
  /\ UNCHANGED <<log, entry, head, safe_read_only, latch, readers, sys, start, pc,
                 locals, calls, evictions>>

\* Mutant: SafeReadOnly follows ReadOnly at once, not through the epoch.
mark_read_only_now ==
  /\ \E a \in safe_read_only + 1 .. read_only : safe_read_only' = a
  /\ UNCHANGED <<log, entry, head, read_only, latch, readers, sys, start, pc,
                 locals, calls, evictions>>

\* The deferred action: every thread inside has entered under an address as
\* high as the new one (0 marks a thread outside).
mark_read_only ==
  /\ \E a \in safe_read_only + 1 .. read_only :
       /\ \A t \in Threads : entered[t] # 0 => entered[t] >= a
       /\ safe_read_only' = a
  /\ UNCHANGED <<log, entry, head, read_only, latch, readers, sys, start, pc,
                 locals, calls, evictions>>

shift_head ==
  /\ evictions < MaxEvictions
  /\ evictions' = evictions + 1
  /\ \E a \in head + 1 .. safe_read_only : head' = a
  /\ UNCHANGED <<log, entry, safe_read_only, read_only, latch, readers, sys, start,
                 pc, locals, calls>>

-----------------------------------------------------------------------------

op_step(t) ==
  \/ invoke(t) \/ protect(t) \/ latch_and_load(t) \/ latch_busy(t) \/ retry(t)
  \/ go_to_disk(t) \/ io_update(t) \/ io_read(t) \/ no_effect(t)
  \/ in_place_writer(t) \/ in_place_updater(t) \/ in_place_delete(t)
  \/ append_upsert(t) \/ rmw_initial(t) \/ rmw_copy(t) \/ delete_rcu(t)
  \/ allocation_blocked(t) \/ return(t)

log_step == shift_read_only \/ mark_read_only \/ shift_head

Next == (\E t \in Threads : op_step(t)) \/ log_step

Spec == Init /\ [][Next]_vars

-----------------------------------------------------------------------------

(***************************************************************************)
(* Every operation is atomic: reads, blind writes, read-modify-writes and  *)
(* deletes of several threads, in place or by copy, in memory or from      *)
(* disk, are steps of AtomicStore on the map that the chain spells out.    *)
(***************************************************************************)
Value(k) == Image(entry, k)

\* A read that has gone to disk has taken effect: what it will find is fixed.
Answered(t) ==
  IF pc[t] = "io" /\ kind(t) = "read" THEN Image(disk[t], key(t)) ELSE answer[t]

Atomic == INSTANCE AtomicStore WITH
  kv <- [k \in Keys |-> Value(k)],
  answer <- [t \in Threads |-> Answered(t)]

Linearizable == Atomic!ASpec

(***************************************************************************)
(* Below SafeReadOnly a record keeps its key, value, link and tombstone    *)
(* for good: the flush there never races an update in place.               *)
(***************************************************************************)
Content(r) == <<r.key, r.val, r.prev, r.tomb>>

SafeIsFrozen ==
  [][\A a \in 1 .. safe_read_only - 1 : Content(log'[a]) = Content(log[a])]_vars

(***************************************************************************)
(* The newest record of a key is open: an operation that meets a sealed or *)
(* invalid record and retries does not do so for ever.                     *)
(***************************************************************************)
NewestIsOpen ==
  \A k \in Keys : LET a == trace_back(entry, k, 1) IN a # 0 => ~is_closed(a)
=============================================================================
