# TLA+ models of mini-garnet

mini-garnet is a small Redis-compatible server (`crates/garnet`) on a log-structured
key-value engine (`crates/tsavorite`). This directory models the engine's
concurrency and checkpoints, and the server's durability, transactions, string
commands and connections, checks the models with TLC, and proves the safety of the
epoch protocol, index, latches, log, store, checkpoints, transactions, operation log,
string commands and connections, the framing of commands included, with TLAPS. `PROJECT.json` lists the components, runs, mutants,
source lines of every definition, hazards and theorems; this file explains them. Source paths are relative to `src/crates`.

## 1. The system

| Part | State | Operations | Used by |
|---|---|---|---|
| `LightEpoch` (tsavorite/epoch.rs) | current epoch, slot table, drain list and its count | protect, refresh, unprotect, release_thread, bump_current_epoch, bump_with_action, drain_all_blocking | log, store, checkpoint |
| Hash index (index.rs) | buckets of 7 entries and an overflow word, overflow arena | find_tag, find_or_create_tag, clear | store, recovery, FLUSHALL |
| Bucket latches (index.rs, store.rs) | 16 bits of the overflow word | try_lock_shared/exclusive, unlock, txn_lock, txn_unlock | store operations, EXEC |
| Hybrid log (log.rs) | packed tail, seven watermarks, page frames, device | try_allocate, shift_read_only_address, shift_head_address, flush_until, scan | store, checkpoint |
| Store (store.rs) | hash chains of records over index and log | read, upsert, rmw, delete | commands |
| Checkpoint (checkpoint.rs) | system state (phase, version), start address, metadata file | take_checkpoint, recover | SAVE, start-up |
| Append-only file (garnet/aof.rs) | buffer, file, committed address | enqueue, commit, wait_committed, truncate, replay | every write command |
| SAVE and start-up (shared.rs) | checkpoint metadata and log together | checkpoint, recover | SAVE, main |
| Transactions (commands.rs, shared.rs) | per-session MULTI queue, watch table | WATCH, MULTI, EXEC, DISCARD, UNWATCH | connections |
| String commands (commands.rs, functions.rs) | value, expiry and capacity of records, scratch output | the callbacks of upsert and RMW, one per `StringOp` | connections, replay |
| Connections, RESP (server.rs, resp.rs) | one thread and buffer per connection, count of connections | accept, recv, parse, dispatch, flush | clients |

How they interact. A connection thread runs a command through a store session. An
operation *protects* itself in the epoch table, latches one bucket, walks the hash
chain, and updates a record in place, copies it to the tail, or leaves the
protection to read the disk and comes back. Allocation at the tail turns pages,
which publishes new ReadOnly and Head addresses; the consequences (flush, page
close) are *deferred actions* that run when every thread has left the epoch in
which the old boundary could be seen. A checkpoint changes the global phase and
waits, through the same mechanism, until every thread has seen it. After the store
has changed, the command is appended to the operation log; SAVE combines a
checkpoint with the truncation of that log.

What is hard: nearly every step is a single load, store or compare-and-swap that
other threads' steps can separate from the next one; boundaries are read once and
used after they moved; deferred actions run on any thread and in any order;
crashes may hit between any two durable steps. `PROJECT.json` lists the hazards one
by one with the line where each bites and the property that would catch it.

What makes each part correct:

* epoch: an action runs only when nobody can still see what it retires
  (`NoEarlyReclaim`), runs once, and runs eventually if someone waits for it;
* index: one final entry per tag and chain, which all callers get, and which no
  lookup misses;
* latches: exclusion, no lost bit in the shared word, no deadlock of transactions;
* log: ordered watermarks, fresh allocations, valid pointers, flushed data final;
* store: every operation is atomic between call and return;
* checkpoint: recovery restores all of version v and nothing of v+1;
* durability: what was answered survives crashes and SAVEs, replay applies each
  write once and in the order of the effects, every write is answered;
* transactions: EXEC is atomic, and aborts after a write of a watched key;
* string commands: the answer and the value do not depend on where in the log the
  record lies, nor on when the log is replayed;
* connections: commands are framed alike however the bytes arrive, replies leave
  before a thread waits, every thread finds an epoch slot.

## 2. Modules

| Module | Models | Relies on |
|---|---|---|
| `DeferredReclamation` | the promise of epoch protection (abstract) | |
| `LightEpoch` | epoch.rs, one action per access to shared memory | implements `DeferredReclamation` |
| `HashIndex` | find_tag and find_or_create_tag on one chain | |
| `BucketLatch` | latch word, latch, txn_lock, txn_unlock | |
| `HybridLog` | log.rs and the accesses store operations make to pages | `DeferredReclamation`'s guard for its jobs |
| `AtomicStore` | a map with atomic operations (abstract) | |
| `Store` | the four operations on one chain | implements `AtomicStore`; latches as `BucketLatch`, one copy of a record as `HybridLog` |
| `Checkpoint` | take_checkpoint, crash, recover; extends `Store` | |
| `Durability` | aof.rs, log_write, SAVE, start-up recovery | store atomic as in `Store`, snapshots as in `Checkpoint` |
| `AtomicTransactions` | a map with atomic transactions (abstract) | |
| `Transaction` | single commands, WATCH, MULTI, EXEC, their log entries, replay | implements `AtomicTransactions` (`db <- Visible`); sorted latching as `BucketLatch` |
| `StringFunctions` | the string commands and their callbacks on one record; logging and replay | a key's operations atomic as in `Store` |
| `Server` | accept loop, connection threads, receive buffer, RESP parser | epoch slots as in `LightEpoch` |
| `…_proofs` | type invariant, inductive invariant and theorems of `LightEpoch`, `HashIndex`, `BucketLatch`, `HybridLog`, `Store` with `Checkpoint`, `Durability` with `StringFunctions`, `Transaction`, `Server` | the modules each extends |
| `MC…` | small instances and symmetry sets for TLC | |

Each layer uses the layer below through the property that is checked there, which is
what keeps the state spaces small: `HybridLog` starts a job when no thread has it in
`stale` (that is `Reclaim` of `DeferredReclamation`), `Store` has no page frames
(`HybridLog!PointerValid`, `FlushedIsFinal`), the store of `Durability` is the
sequence of the writes that took effect.
Where a lower property fails in a corner (section 4), the upper module
models the intended lower layer; the failure is reported where it arises.

Correspondence with the code:

* **LightEpoch.** `current`, `table`, `owner`, `slot` (the thread-local cache),
  `drain`, `drain_count` and `lock` are the fields of the struct. A call is a path through `pc`;
  the safe-epoch scan visits one slot per step, so that protects, refreshes and slot
  reuse interleave with it. `publish` is the caller's store of the new boundary
  before `bump_with_action` (log.rs, `shift_read_only_address`). `stale`, `await` and
  `phase` are history. Memory is sequentially consistent; the code's orderings on
  the accesses the argument needs are SeqCst.
* **HashIndex.** An entry word is a tag and a tentative bit. Every scan reads one entry
  or one link per step. An exhausted arena is the assertion that ends the thread.
* **BucketLatch.** The word has the shared count, the exclusive bit and the link.
  A bounded spin is a choice between trying again and giving up, since what a
  bound counts is scheduling. `link_*` are the compare-and-swaps of `find_tag_or_free`
  on the same word.
* **HybridLog.** Addresses count 64-byte units and the page header is one unit. The tail
  is one number, page times `OffsetLimit` plus offset, so that the carry of the packed
  word is there. Memory and device hold, at the first unit of each record, what was
  last stored; `written` is what the program wrote, `used` what it was given. A job is
  a deferred action; flushes write page by page and may fail.
* **Store.** An attempt has three steps (protect and read the phase; latch and load
  entry and watermarks; act). All keys share a tag, which makes every chain a
  collision. Watermark moves and evictions happen between any two steps, limited
  by threads that are inside. `incr`, `take`, `setnx` stand for RMW callbacks that
  copy, delete and cancel.
* **Checkpoint.** `Transition` sets the phase and `Wait` passes when all threads that were
  inside have left. `lag` holds them. `crash_and_recover` keeps what the last metadata
  covers, undoes v+1 records from its start address on and rebuilds the entry.
  `snap[v]` is history: the map with the effects of all operations of version v.
* **Durability.** A write is a number, in the order of execution, and stands for any command that changed the store: no two are
  assumed to commute. Store, log and checkpoint are sequences of writes; `Torn` in the file is a fragment. A crash keeps the
  committed entries, any number of the written ones, and possibly a fragment. `acked`, `overlap` (writes of which one was
  executed between the effect and the log entry of the other) and `exposed` (writes executed while a SAVE ran or logged behind a
  fragment, until a checkpoint or a recovery has them) are history.
* **Transaction.** A write has three steps, as in `after_write`: its effect under the latch, the bump of the watched
  version, the log entry; a command of several keys has them for each key where the code has. `watch_check`
  precedes `txn_lock`, as in `cmd_exec`. `before` is the store when the latches were taken, which makes
  `Visible`, the store without the writes of running transactions, the refinement mapping; `last` is what EXEC answered.
  `watched`, `hits` and `stale` follow a write of a watched key from its effect to its answer; `reordered` has
  the keys whose last write came between another session's write of the key and its log entry; a later write that meets none removes the key.
* **StringFunctions.** A record has value, capacity, expiry slot, expiry and region. `exec_command` is the path of one
  command through its handler, the store's choice between in-place update, copy and initial record, and the callbacks
  of that choice, with the scratch output the callbacks leave for the reply. `Drift` moves a record into the read-only region.
  Expiry arguments come in seconds and milliseconds, relative and absolute, and `TTL` rounds up to seconds.
  `replica` is a second store that executes what was logged, at the logged clock, in regions of its own;
  `Save` restarts it from the checkpoint. `Ref` is the reference: what a command means on a value and an expiry.
* **Server.** Bytes are ASCII codes and `recv` takes any number of them that fits. A connection counts the bytes received
  (`rcv`), consumed (`head`) and moved out of the buffer (`base`). `parse_command` is re-run on what
  has arrived, as in the code: `NextBulk` is one turn of its loop over
  arguments, `Words` the loop of an inline command. `IsStream` says what a client sends: the parts of a stream (`ends`) and the commands it should be taken for. `live` is the accept loop's counter; `slot` the epoch slot a thread takes with its first command. `Writing` says that a thread is in `write_all`, which lasts until the client reads.

Definitions whose comment begins with "Mutant" are deliberate faults; no specification uses
them. Each property is broken by the one `PROJECT.json` pairs it with.

## 3. Runs

| Run | Properties | Shows |
|---|---|---|
| `LightEpoch` | TypeOK, NoEarlyReclaim, ImplementsPromise, DrainAllTerminates, AwaitedActionRuns | reclamation is safe, implements the abstract promise, and no action is left behind by skipped drains |
| `HashIndex` | UniqueTag, SameEntry, NoMissedTag | the tentative protocol on a growing chain |
| `BucketLatch` | MutualExclusion, UnlockAsserts, LinkKept, EveryoneGetsIn | latches and links in one word; sorted locking does not deadlock |
| `HybridLog` | WatermarkOrder, PointerValid, FlushedIsFinal, TailCoversRecords, AllocationIsFresh | allocation, page turns, flush (with a failing write) and eviction together |
| `HybridLog_live` | AllocationCompletes, FoldOverCompletes | from a recovered log: nobody waits for a page or a flush for ever |
| `Store` | NewestIsOpen, Linearizable, SafeIsFrozen | operations are atomic across regions and one eviction |
| `Store_disk` (violation) | Linearizable | with a second eviction an increment is lost: after its disk read an update overlooks a record that was written and evicted meanwhile (store.rs:938) |
| `Checkpoint` | RecoversPrefix, LinearizableUntilCrash, CheckpointCompletes | a crash anywhere recovers exactly version v, the version shift disturbs no operation, and a checkpoint ends unless a crash ends it |
| `Durability` | SavedSurvives, ReplayReproduces, EveryWriteAnswered | what was answered survives SAVEs and crashes, replay reproduces the writes and their order, every write is answered; the exceptions are below |
| `StringFunctions` | RegionIndependent, ValueFits, ReplayAgrees | the callbacks of one command agree with a reference in every region, sizes suffice, replay at the logged times gives the same keys |
| `Transaction` | WatchedWriteAborts, ReplayReproducesStore, Serializable, CommandsAnswered | EXEC is atomic, aborts on a watched write that was answered, is replayed, and is answered |
| `Server` | Framing, RepliesFlushed, SlotsSuffice, BatchEnds | incremental parsing in a growing buffer; the connection limit covers the epoch table; batches end |

All runs pass but `Store_disk`, whose counterexample is the finding of `PROJECT.json`. Type invariants are stated and proved in the `_proofs` modules; what a run checks of them is part of
the invariants here: the width of the shared count in `UnlockAsserts`, the limits of the buffer in `Framing`. Where the code departs from a property in a corner, the property names the exception or the bounds leave
the corner out, and section 4 says how to see it. `SavedSurvives` excepts the writes in `exposed`, one by one;
`ReplayReproduces` is about a log that no SAVE has truncated and excepts the order of pairs in `overlap`; `EveryWriteAnswered` ends with the first SAVE.
`BatchEnds` excepts a thread that stays in the write to a client that does not read, `ReplayReproducesStore` the keys in `reordered`. `TailCoversRecords` excepts a full odd page,
`RegionIndependent` and `ReplayAgrees` the commands that `KnownDivergence` and `RegionDependent` list.

### Bounds

* `LightEpoch`: two threads, two slots and one action: a scan, a drain and a protection interleave, slots are
  released and reused. `MaxEpoch` 2 bounds only the bumps of spinning waiters; registrations raise `current`
  beyond it. The safety properties are proved without these bounds; only the liveness rests on them. The same is true of the other modules with a
  `_proofs` module, within the hypotheses of section 5.
* `HashIndex`: three threads, two tags, two entries a bucket and one overflow bucket: the chain grows,
  two tags compete for a slot, a third thread reads. The protocol compares two claimants at a time.
* `BucketLatch`: `MaxShared` 1 (of 2^15 - 1) is reached by one reader, so the second thread meets saturation; two
  buckets are the smallest deadlock; two calls each let a thread come back while the other still waits.
* `HybridLog`: pages of three units, two frames, so every second page reuses a frame;
  records of one and two units fill a page exactly, overrun it and leave a rest; four pages of
  addresses; `MaxOffset` bounds how far spinning allocators push the tail.
  `HybridLog_live` starts from a recovered log whose next allocations need a page turn.
* `Store`: three operations by two threads on a log of three records: one writer's record,
  its copy, and one more of the same chain; an eviction fits between any two steps. `Store_disk` has a second eviction, on one key.
* `Checkpoint`: three operations of two threads (reads, increments, deletes) and one checkpoint on a log of three records: a record from before, a laggard of
  the old version and an operation of the new one meet around every phase change and crash. One key and one saver (section 4 says what two do).
* `Durability`: two sessions, three writes, two SAVEs, two crashes: a session's entry committed by the other, overlapping writes logged in either order,
  writes before, during and after a SAVE, and entries behind a torn one that the second crash loses or the second SAVE rescues.
* `StringFunctions`: one key; values "9", "99" and "a" of at most `MaxLen` 2 bytes, integers up to 99, increments 1 and -10: values
  that fit a record, outgrow it, shrink, overflow and are no integers. Expiries of 0 and 1 in all four units and a clock of two ticks of a millisecond:
  records with and without expiry, live and expired. Nine combinations of SET options. Every command is tried in every reachable state.
* `Transaction`: two sessions and two keys in two slots of the watch table; commands on both keys, a queue of two, three calls: a
  transaction of several commands meets another session's single write or transaction at every step.
* `Server`: three clients for two places, so that one is refused or waits for another to leave. Buffers of 4, 8 and 13 bytes. One client
  sends one of eight streams (two commands, QUIT with a command behind it, CRLF inside a value, blank and inline commands, a command that fits the largest
  buffer exactly, one that does not, three kinds of malformed input) cut anywhere; the others send a short one, come and go.

Symmetry is used in safety runs only. Deadlock is checked in `LightEpoch`, `HashIndex` and `HybridLog_live`; elsewhere a
behaviour may stop: at its bound on calls, with clients that send nothing (`Server`), or, in `HybridLog`, after a device error that no later flush repairs.

### Fairness

Weak fairness of a thread's steps inside a call: the operating system schedules every thread. No call is ever bound to be made.
`LightEpoch` has strong fairness for `unprotect`, since an operation has finitely many steps and leaves whatever it
refreshed or bumped on the way (refresh disables and re-enables the action). The mutex of the drain list
is a std Mutex, which promises a waiter nothing, and no fairness is assumed for it; with two actions in the list a
registering thread may therefore starve while others drain again and again, and the liveness holds only if the mutex lets it in. `HybridLog`'s jobs are weakly fair
because whoever waits for one bumps the epoch in a loop, and `LightEpoch!AwaitedActionRuns` says that this
runs it. In `Transaction` a session's steps inside a command are weakly fair, its calls are not;
in `Server` the threads and the refusal of the accept loop are, except while a thread writes its replies: `write_all` (server.rs:146) has no
timeout and returns when the client reads, which no client is bound to do; the arrival of bytes and of clients is not fair either. In `Checkpoint` the threads inside
an operation, the saver and the marking of pages are, and a crash may end all of it; that a thread inside an operation can always take a step, on which the form of its fairness
relies (`Advances`), was checked with TLC. The device works in the liveness run; after a write error with nothing written later `wait_flushed`
would indeed never return.

## 4. Further disagreements

The run `Store_disk` keeps one disagreement as a run of its own, since it loses an update with no crash and no error involved. The same modules show
the others with other constants or without an exception; each is reproduced by editing the named `.cfg` or definition:

| Where | What | With |
|---|---|---|
| log.rs:265 | the additions of waiting allocators, one for each try (log.rs:297), carry out of the 32-bit offset into the page number if the page turn takes long enough; with 1 GiB pages and records as large a few tries do | `HybridLog`, `OffsetLimit = 12`, `MaxOffset = 13`: AllocationIsFresh |
| log.rs:609 | recovery at a tail on a page boundary lets the next record start inside the page header | `HybridLog`, `InitialTails = {3}`: AllocationIsFresh |
| store.rs:590 | an undone v+1 record is read back through the chain of another key with its tag | `Checkpoint`, two keys, `Ops = {"upsert", "incr", "delete"}`: RecoversPrefix |
| checkpoint.rs:136 | two savers both pass the REST check and overwrite each other's start address | `Checkpoint`, two savers, the same `Ops`: RecoversPrefix |
| log.rs:218 | the tail of a full odd page reads as its beginning, since offset `page_size` is ORed into the page bits; a checkpoint then takes a `final` that does not cover "every v record" (checkpoint.rs:21) | `HybridLog`, TailCoversRecords without its exception |
| store.rs:938, 1089 | after its disk read an RMW or a delete looks for newer records in memory only; one that was written and evicted meanwhile is overlooked, against "No newer in-memory record for this key appeared since the IO" (store.rs:941) and the test `concurrent_incr_is_atomic_and_never_loses_updates` | the run `Store_disk` |
| shared.rs:142 | SAVE truncates the whole log, with the entries of writes acknowledged after the snapshot, against "Everything up to aof_addr is now in the checkpoint" (shared.rs:140) | `Durability`, `execute` without its change of `exposed`: SavedSurvives |
| aof.rs:98 | the reopened log appends behind a torn entry, where replay stops after the next crash | `Durability`, `Behind(x) == exposed`: SavedSurvives |
| commands.rs:717 | EXEC compares versions before it locks, so a write that took effect but is not yet answered may be committed over, against "EXEC aborts if it changed" (shared.rs:17) | `Transaction`, with `WriteKey` adding the watchers of its key to `stale`: WatchedWriteAborts |
| functions.rs:439, 474 | a command on an expired record in the read-only region: SET GET and GETSET are cancelled and answer what an earlier command left in the scratch output, GETEX revives the key with an empty value, SETNX stores the value, answers 0 and is not logged | `StringFunctions`, RegionIndependent without `ExpiredReadOnly` |
| functions.rs:439 | SET XX, SET GET and GETSET without expiry clear a TTL in place and keep it on a copy (with XX KEEPTTL the reverse); KEEPTTL with an expiry ignores it in place and applies it on a copy | the same without `TtlDependsOnCopy` or `KeepTtlWithExpiry` |
| functions.rs, commands.rs | PERSIST answers 1 for a read-only record without TTL, DEL 1 for an expired key, SET GET ignores NX and XX | the same without the rest of `KnownDivergence` |
| commands.rs:109 | a command is logged after its latch is released, so log order may differ from the order of effects, and for writes that do not commute replay does not reproduce "the exact state" (aof.rs:8) | `Durability`, ReplayReproduces with FALSE for `{a, b} \in overlap` |

`Durability` states ReplayReproduces and EveryWriteAnswered until a SAVE because both fail without it: recovery
replays the whole file even if the checkpoint holds it already (shared.rs:169), so that a crash between metadata and truncation applies a write twice, and `truncate` resets the committed address
under a session that waits for an address of the old log (aof.rs:213).

Seen by reading, and not stated as a property of a run:

* `drain_all_blocking` (epoch.rs:235) stops at a count of 0, which `drain` stores before it runs the actions it took; with
  another thread draining, it returns before they have run, against its comment (epoch.rs:233).
* `HashIndex::clear` (index.rs:428) zeroes the word with the latch bits under its holders; FLUSHALL calls it with no lock, and neither
  logs itself nor bumps watched versions, so that a replay brings the keys back.
* `scan_live` (store.rs:371) refreshes its epoch in the callback and goes on with the page pointer it got before.
* A scan leaves a page at an all-zero header and so misses records behind one that is allocated but not yet written.
* A crash inside a logged transaction leaves TxnStart without TxnCommit, and `replay` (shared.rs:203) executes what is there.
* MSET outside of MULTI writes its keys one by one; other sessions see some of them.
* An expiry at time 0 (PEXPIREAT with 0) is stored as "no expiry".
* `--maxclients` (main.rs:30) may exceed the 128 epoch slots; `Server` assumes it does not (`ClientsAssumption`).
* Overflow buckets whose link CAS loses are never returned to the arena (index.rs:247).

## 5. Proofs

TLC checks the instances of section 3; the theorems below hold for every value of the constants that satisfies the named
assumptions of the modules, in particular for any number of threads, sessions, clients, keys, records and calls. Each
`*_proofs` module states its `TypeOK` and the inductive invariant `IInv`, and is laid out alike: facts about the operators, one lemma per
conjunct of `IInv` with one step per action that can disturb it, `Spec => []IInv`, and the theorems.

| Module | Theorems |
|---|---|
| `LightEpoch_proofs` | `TypeCorrect`, `ReclaimSafety` (NoEarlyReclaim), `Implementation` (ImplementsPromise) |
| `BucketLatch_proofs` | `MutualExclusionHolds`, `UnlockAssertsHold`, `LinkKeptHolds` |
| `HashIndex_proofs` | `UniqueTagHolds`, `SameEntryHolds`, `NoMissedTagHolds` |
| `HybridLog_proofs` | `WatermarkOrderHolds`, `PointerValidHolds`, `FlushedIsFinalHolds`, `TailCoversRecordsHolds`, `AllocationIsFreshHolds` |
| `Store_proofs` | of `Store`: `LinearizableInTime`, `NewestIsOpenHolds`, `SafeIsFrozenHolds`; of `Checkpoint`: `LinearizableUntilCrashInTime`, `CheckpointIsPrefixHolds`, `RecoversPrefixUnmixed`, `RecoversPrefixHolds` |
| `Transaction_proofs` | `WatchedWriteAbortsHolds`, `ReplayReproducesStoreHolds`, `SerializableHolds` |
| `Durability_proofs` | of `Durability`: `SavedSurvivesHolds`, `ReplayReproducesHolds`; of `StringFunctions`: `RegionIndependentHolds`, `ValueFitsHolds`, `ReplayAgreesHolds` |
| `Server_proofs` | `FramingHolds`, `SlotsSufficeHolds`, `RepliesFlushedHolds` |

`TypeCorrect`, `LinkKeptHolds`, `SafeIsFrozenHolds`, `AllocationIsFreshHolds` and `ReplayReproducesHolds` aside, the theorems are invariants or
refinements; the refinements are `Implementation`, `LinearizableInTime`, `LinearizableUntilCrashInTime` and `SerializableHolds`.

### Assumptions

The constants' assumptions stand in the modules that declare them, and TLC evaluates them in the runs. They say that bounds are
numbers, that `None` is no thread, number or record, and:

* `LightEpoch`: `MAX_THREADS` and `MaxEpoch` are positive, `Actions` is finite;
* `BucketLatch`: buckets are finitely many numbers (they are sorted), threads are finitely many, the count of readers has at least one bit;
* `HybridLog`: pages of at least two units, at least two frames, records that fit a page behind its header, and
  `OffsetLimit >= 2 * PageSize` with `MaxOffset < OffsetLimit`: the carry of section 4 is excluded. This is a bound on
  scheduling, at any page size: every spinning allocator adds its size again on each try (log.rs:297-305), and the code does not limit how many tries fit into one page turn;
* `Server`: `maxclients <= MaxThreads`, which the command line should respect and main.rs does not enforce (section 4). `Framing` also needs to know
  what was sent: `IsStream` says that a stream is a sequence of parts, each of which the parser, given this part alone, takes for exactly one command, or the last one
  for an error, and that its `commands` are the non-empty ones up to the first QUIT or the first part larger than the buffer. This restricts no client: any bytes are the beginning of
  such a stream, since bytes that stop inside a command are one whose rest never arrives, and all that follows a malformed command is part of it;
* `Transaction`: a command names at least one key; `Durability`: sessions are finitely many;
* `StringFunctions`: operands are sequences of bytes, the deltas fit the integers, the options are those of SET. The theorems
  do not use the bound `MaxLen` on the length of operands.

These theorems have hypotheses of their own. Each excludes a behaviour of section 4 in which the property fails, and no more
than the proof needs:

* `AllocationIsFreshHolds`: recovery does not leave the tail inside a page header (log.rs:609);
* `LinearizableInTime`: `[]InTime`, Head never overtakes the chain head that an update saw before its disk read (store.rs:938). This is the exact
  window of `unchanged_since_io`, which looks for newer records in memory only. TLC agrees: with more than one eviction `Linearizable` fails, and under the constraint
  `InTime` it holds. `Store_disk` is a behaviour outside of it;
  `LinearizableUntilCrashInTime` is the same for operations under checkpoints;
* `CheckpointIsPrefixHolds`, `RecoversPrefixUnmixed` and `RecoversPrefixHolds`: there is one saver (checkpoint.rs:136), which may take any number of checkpoints;
* `RecoversPrefixUnmixed`: `[]Unmixed`, a walk from the record that recovery links into the index meets, for each key, a record it keeps before
  one it undoes (store.rs:590). `RecoversPrefixHolds` is the corollary without it for one key, that is, for a key that shares its tag with no other;
  `CheckpointIsPrefixHolds`, what is on disk before recovery links it, needs neither.

The theorems of `Durability` have none: any sessions, writes, SAVEs and crashes.

### Arguments

**LightEpoch.** `NoEarlyReclaim` is not inductive: it speaks of actions already judged safe, while the judgement rests on a scan that
takes many steps. `IInv` adds what the scan relies on. `SlotsOwned`: a slot has one owner, and an unowned slot is unprotected.
`EpochsBehind`, `PriorsBehind`: no published epoch and no tag is ahead of `current`. `ListsDisjoint`, `Registering`: an action is in one list, and its
registration belongs to one thread. `HoldersBehind`: a thread that may see what an action retires is protected in an epoch no later
than the action's tag; this is where the order in `bump_with_action` matters: publish, load the tag, then increment. `ScanSound`: if a scan's
minimum so far would declare an action safe, the slots of all threads that may see its old state are still ahead of the
scan; a thread that enters behind the scan enters after the publication and is no holder.

**BucketLatch.** The word is related to what each thread believes it holds, at every point between the steps: `Counts` (the count
is the number of readers, within its bits), `Bit` and `OneOwner` (the exclusive bit has one owner, who is in or waits for
readers), `Alone` (an owner that is in has seen the last reader leave), `Admits` (the word a compare-and-swap expects
admits the latch), `NoReentry` (nobody asks for a latch it holds, since txn_lock takes one per bucket). Exclusion and the unlock assertions follow;
without `NoReentry` the count would not be the number of readers.

**HashIndex.** `ScansCross` is the argument of the tentative protocol: a claimant publishes before it scans, so of two claimants of a
tag at most one has passed the other's entry, and none has passed a final one. `Ahead` is the argument of find_tag: an entry that was final at the
call is still ahead of the walk. Both need the shape of the chain: `LinksGrow`, `OnChain`, `AtLabels`, `Claims`.

**HybridLog.** The watermarks move in two steps, so `Order` also holds what jobs and threads on their way carry
(`Published`, `Running`, `Flushing`, `InHand`). `OneTurner`: past the end of a page one thread turns it, which makes allocations
fresh. `Floors` is the use of the epoch: the safe watermarks stay below what a thread inside has loaded or allocated, since the
job that would move one past it has this thread in its way. `Memory`: between SafeHead and the end of the tail's page memory has the last word, below FlushedUntil the device;
`PointerValid` and `FlushedIsFinal` follow from it and `Floors`.

**Store.** `OneChain`: the chain is the log, so that `trace_back` is the newest record of a key at an address or above. `Latched`: nobody
acts beside one that changes the chain. `Protected`: SafeReadOnly stays below the ReadOnly a thread inside has loaded, so that what is frozen
cannot be updated in place, and Head below that. `Sourced`: what an operation fetches from disk was the value of its key when it left memory: no record of the key lies
between where it reads and the chain head it saw. With `InTime` the check after the I/O sees every record added since, so the value
an attempt goes by is that of its key now (`ValueIs`), and its end is `Apply` of `AtomicStore`. A read that goes to disk is applied
when it leaves memory: what it will find is frozen. `Solid`: a record that is no tombstone has a value, so that a delete that answers 1 deleted something.

**Checkpoint.** `IInv` of `Store` holds on, since a saver only moves the phase, the version and ReadOnly, and a gate only sends an operation back or makes it copy; so do the steps of the refinement.
For the snapshot the saver's step is followed: `Phased` (phase and version are those of its step), `Laggards` (a thread inside has seen the last transition, or the saver waits for it and it has
seen the one before), `Spanned` (where the checkpoint begins and ends), `Divided` (before IN_PROGRESS no record is of the next version, and after it such a record lies above the ReadOnly of every
laggard, so that no laggard writes over or below one). Then `Recent` (the effects up to the current version are the log's), `Capturing` (those of the version being captured are what the log spells out without records of
the next one; this is where a laggard of v may still write, and one of v+1 must copy) and `OnDevice` (the same for the metadata on disk, whose records are below SafeReadOnly and so frozen) are inductive together.
`CheckpointIsPrefix` is part of `OnDevice`. Recovery invalidates the records of v+1 and links the newest kept one; by induction along the chain its walk finds for each key the newest kept record if `Unmixed`.

**Transaction.** `Watching`, `HitsBump`, `StaleAborts` follow a write of a watched key: its version has moved or its writer is about to move it, and a
writer that was answered has. `InHand`: a key on its way to the log has the value its writer gave it; the log replayed is the store but for these and the keys in `reordered`. For atomicity,
`Apart` (latches exclude), `Holding` and `Alone`: a running transaction has the latches of its queue, the database and the replies are those of its queue's first commands on the store
it began with, and nobody else touches its keys. Every step keeps `Visible`, except the single write, which is `Single`, and the unlock, which is `Exec` of the whole queue.

**Durability.** Two invariants. `SaveInv`, for what survives: `Captured` (the store has the checkpoint, and a snapshot being written has all of the store but exposed writes) and
`Persisted` (a logged write is exposed, or in the checkpoint, or will be found by replay once its address is committed; an answered one is found now). `Persisted` speaks of addresses, so that it does not matter who
committed. `truncate` keeps it because what the checkpoint has not is exposed by then; a crash because the entries up to `committed` survive and, but for exposed writes, lie before any fragment.
`OrderInv`, for replay: `Numbered` (a write is once in the store, once in the log or on its way to it) and `Ordered` (the log up to the first fragment, followed by the writes on their way, has the order of the store but for pairs in `overlap`).

**StringFunctions.** The proof separates three questions. What each callback makes of a record: `Created`, `CopiedIs` and `FitIs` for the initial record, the copy and the update in place, with
their sizes (`Sound`: a value within its capacity, an expiry with its slot; `ValueFits` follows). What an operation does with one callback per region: one lemma per `StringOp` says that in whatever region, with whatever
capacity and scratch output, the record it leaves holds (`Holds`) the same value and expiry. What a command means: one lemma per handler that it meets `Ref` (`Meets`), given the exceptions of
`KnownDivergence`; together they are `RegionIndependent`. For the log the invariant `Replica` says that store and replica hold the same at the current clock unless a listed divergence happened; since an unexpired
value stays equal and an expired one stays gone (`LaterAgrees`), they hold the same at every later clock. The decimal text of a number fits the width `INCR` allots by induction over numbers; GETRANGE is
compared with its reference position by position.

**Server.** `Counted`: the accept loop's counter is the number of open connections, plus the one it is about to refuse. `SlotInside`, `RepliesOwed`: slots belong to
open connections; replies sent and owed add up to the commands dispatched. These use nothing of the parser.
`Framing` rests on one fact about it, `CommandMoved`: if `parse_command` finds a command or an error in some bytes, it finds the same, at the shifted place, in any bytes that contain them (`Within`), whatever
precedes and follows; and a command ends inside the bytes it was found in. It is proved from the bottom up: line ends (`CrlfMoved`), one bulk string (`BulkMoved`), the loop over them (`BulkStringsMoved`,
by induction over their number), arrays and inline lines. `Outcome` applies it twice: the next part lies within the buffer if it has arrived, and both part and buffer lie within the stream; so the parser finds the part if it is there,
and a command it finds earlier would end beyond the bytes received. The invariant `Framed` says where the connection stands: the head of the buffer is the end of part n, the commands of
the first n parts are dispatched (`Used`), and a thread that reads has not got all of part n + 1 (`Waits`), so that a full buffer of the largest size means a part that is larger.

Facts about data that need induction (the greatest element of a set, the chain as a recursive function, the log replayed, the first n commands of a queue, the digits of a number, the arguments of a command) go through induction over
sets of numbers (`NatSetInduction`): the set of those n for which the fact holds is all of Nat.

### What stays with TLC

* All liveness: fairness and ENABLED are outside this prover (DrainAllTerminates, AwaitedActionRuns, EveryoneGetsIn, AllocationCompletes, FoldOverCompletes, CheckpointCompletes,
  EveryWriteAnswered, CommandsAnswered, BatchEnds).
* What the hypotheses above leave out: several savers.

## 6. Not modelled

* Weak memory: the models are sequentially consistent.
* The give-up after a million retries (`MAX_RETRIES`), which fairness excludes.
* scan_live and count_live (KEYS, SCAN, DBSIZE), `glob_match`, and `HashIndex::clear` (FLUSHALL).
* The overflow of expiry arguments (commands.rs:838 multiplies by 1000), white space outside of ASCII around numbers.
* I/O errors of checkpoint and operation log. Device errors of page flushes are.
* Byte offsets inside a record, the hash function, the device, the wording of replies, configuration: pure conversions or I/O.

The documented order of watermarks begins with `Begin <= ClosedUntil` (log.rs:16); a new log has Begin 64 and ClosedUntil 0, so
`WatermarkOrder` starts at ClosedUntil.

## 7. Plan

Done: the modules above. Next, in this order:

1. FLUSHALL's clear as an actor of `BucketLatch` and `HashIndex`; scan_live as an actor of `HybridLog`: pointer validity across its
   refresh, and which records a scan may miss or report twice while the tail moves.
2. I/O errors inside take_checkpoint and on append to the operation log.
3. `glob_match` against a reference.
