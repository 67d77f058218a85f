----------------------------- MODULE Transaction -----------------------------
(***************************************************************************)
(* Sessions of the server: single commands, WATCH, MULTI and EXEC          *)
(* (crates/garnet/src/commands.rs), the table of watched versions and the  *)
(* replay of the operation log (crates/garnet/src/shared.rs).              *)
(*                                                                         *)
(* A write takes effect under the latch of its key, then bumps the version *)
(* of the key's slot, then is appended to the log: three steps, and the    *)
(* latch is held in the first only, unless a transaction holds it.  The    *)
(* latches of a transaction are taken in one step: taking them one by one  *)
(* (BucketLatch) only excludes more.  A command sets or gets a list of     *)
(* keys (SET, MSET, DEL; GET, MGET); the value written is the session.     *)
(***************************************************************************)
EXTENDS Naturals, Sequences, SequencesExt

CONSTANTS
  Sessions,
  Keys,
  Commands,      (* [op : {"set", "get"}, keys : Seq(Keys)]                *)
  Slots,         (* slots of the watch table                               *)
  SlotOf,        (* SlotOf[k]: the slot of key k                           *)
  MaxQueue,      (* bound: queued commands                                 *)
  MaxCalls,      (* bound: WATCH, MULTI and single commands                *)
  None

ASSUME CommandsAssumption ==
  \A c \in Commands : c \in [op : {"set", "get"}, keys : Seq(Keys)] /\ c.keys # <<>>
ASSUME SlotsAssumption == SlotOf \in [Keys -> Slots]
ASSUME MaxQueueAssumption == MaxQueue \in Nat
ASSUME NoneAssumption == None \notin [exclusive : SUBSET Keys, shared : SUBSET Keys]

VARIABLES
  db,            (* the store                                              *)
  version,       (* WatchTable: version of every slot                      *)
  aof,           (* the operation log                                      *)
  pc,            (* progress of every session                              *)
  todo,          (* commands the session is executing, the current first   *)
  done,          (* keys of the current command already handled            *)
  replies,       (* values the transaction has read                        *)
  txn,           (* TxnState: in_multi, dirty, queued, watches             *)
  locks,         (* txn_locks: keys latched, None outside txn_mode         *)
  before,        (* history: store and queue when the transaction locked   *)
  last,          (* history: queue and replies of the last transaction     *)
  watched,       (* history: the keys a session watches                    *)
  hits,          (* history: <<s, t>>: since s watches a key, t wrote it   *)
  stale,         (* history: sessions with such a write answered before    *)
                 (* they called EXEC                                       *)
  reordered,     (* history: keys whose last write came between another    *)
                 (* session's write of the key and its log entry           *)
  calls          (* bound                                                  *)

session == <<pc, todo, done, replies, txn, locks>>
history == <<before, last, watched, hits, stale, reordered>>
vars == <<db, version, aof, session, history, calls>>

NoTxn == [in_multi |-> FALSE, dirty |-> FALSE, queued |-> <<>>, watches |-> <<>>]

Init ==
  /\ db = [k \in Keys |-> None]
  /\ version = [x \in Slots |-> 0]
  /\ aof = <<>>
  /\ pc = [s \in Sessions |-> "idle"]
  /\ todo = [s \in Sessions |-> <<>>]
  /\ done = [s \in Sessions |-> 0]
  /\ replies = [s \in Sessions |-> <<>>]
  /\ txn = [s \in Sessions |-> NoTxn]
  /\ locks = [s \in Sessions |-> None]
  /\ before = [s \in Sessions |-> None]
  /\ last = [s \in Sessions |-> None]
  /\ watched = [s \in Sessions |-> {}]
  /\ hits = {} /\ stale = {}
  /\ reordered = {}
  /\ calls = 0

Goto(s, from, to) ==
  /\ pc[s] = from
  /\ pc' = [pc EXCEPT ![s] = to]

Call == calls < MaxCalls /\ calls' = calls + 1

enqueue(op, s, c) == aof' = Append(aof, [op |-> op, by |-> s, cmd |-> c])

-----------------------------------------------------------------------------
(* Latches.                                                                *)

(* The keys that the commands of q write ("set"), or read ("get").         *)
command_keys(q, op) == UNION {Range(q[j].keys) : j \in {j \in DOMAIN q : q[j].op = op}}

txn_mode(s) == locks[s] # None

(* The latch of k is free for session s to write, or to read.              *)
CanWrite(s, k) == \A t \in Sessions \ {s} : txn_mode(t) => k \notin locks[t].exclusive \cup locks[t].shared
CanRead(s, k) == \A t \in Sessions \ {s} : txn_mode(t) => k \notin locks[t].exclusive

-----------------------------------------------------------------------------
(* One command, alone or in a transaction.                                 *)

Current(s) == Head(todo[s])
Running(s, op) == pc[s] = "run" /\ todo[s] # <<>> /\ Current(s).op = op
Key(s) == Current(s).keys[done[s] + 1]

(* Keys that session s has written and not logged yet.                     *)
Unlogged(s) ==
  IF todo[s] = <<>> \/ Current(s).op # "set" THEN {}
  ELSE {Current(s).keys[j] : j \in 1 .. IF pc[s] = "bump" THEN done[s] + 1 ELSE done[s]}

(* Where a session goes when the current command is done.                  *)
After(s) == IF txn_mode(s) THEN "run" ELSE "idle"

(* A single write is called (a single read leaves no trace here).          *)
exec_command(s, c) ==
  /\ Call
  /\ c.op = "set"
  /\ ~txn[s].in_multi
  /\ Goto(s, "idle", "run")
  /\ todo' = [todo EXCEPT ![s] = <<c>>]
  /\ UNCHANGED <<db, version, aof, done, replies, txn, locks, history>>

(* Write the next key; outside txn_mode this takes its latch.              *)
WriteKey(s) ==
  /\ Running(s, "set")
  /\ txn_mode(s) \/ CanWrite(s, Key(s))
  /\ Goto(s, "run", "bump")
  /\ db' = [db EXCEPT ![Key(s)] = s]
  /\ hits' = hits \cup {<<t, s>> : t \in {t \in Sessions : Key(s) \in watched[t]}}
  /\ reordered' = IF \E t \in Sessions \ {s} : Key(s) \in Unlogged(t)
                  THEN reordered \cup {Key(s)} ELSE reordered \ {Key(s)}
  /\ UNCHANGED <<version, aof, todo, done, replies, txn, locks, before, last, watched, stale, calls>>

(* Mutant of bump_watch: only the first key of a command is bumped.        *)
bump_watch_first(s) ==
  LET more == done[s] + 1 < Len(Current(s).keys)
  IN  /\ Goto(s, "bump", IF more THEN "run" ELSE "log")
      /\ version' = IF done[s] > 0 THEN version ELSE [version EXCEPT ![SlotOf[Key(s)]] = @ + 1]
      /\ done' = [done EXCEPT ![s] = @ + 1]
      /\ UNCHANGED <<db, aof, todo, replies, txn, locks, history, calls>>

bump_watch(s) ==
  LET more == done[s] + 1 < Len(Current(s).keys)
  IN  /\ Goto(s, "bump", IF more THEN "run" ELSE "log")
      /\ version' = [version EXCEPT ![SlotOf[Key(s)]] = @ + 1]
      /\ done' = [done EXCEPT ![s] = @ + 1]
      /\ UNCHANGED <<db, aof, todo, replies, txn, locks, history, calls>>

(* Mutant of log_write: inside a transaction only the brackets are logged. *)
log_write_outside(s) ==
  /\ Goto(s, "log", After(s))
  /\ IF txn_mode(s) THEN UNCHANGED aof ELSE enqueue("Command", s, Current(s))
  /\ todo' = [todo EXCEPT ![s] = Tail(@)]
  /\ done' = [done EXCEPT ![s] = 0]
  /\ stale' = IF txn_mode(s) THEN stale ELSE stale \cup {t \in Sessions : <<t, s>> \in hits}
  /\ UNCHANGED <<db, version, replies, txn, locks, before, last, watched, hits, reordered, calls>>

(* Append the command to the log; a single command is then answered.       *)
log_write(s) ==
  /\ Goto(s, "log", After(s))
  /\ enqueue("Command", s, Current(s))
  /\ todo' = [todo EXCEPT ![s] = Tail(@)]
  /\ done' = [done EXCEPT ![s] = 0]
  /\ stale' = IF txn_mode(s) THEN stale ELSE stale \cup {t \in Sessions : <<t, s>> \in hits}
  /\ UNCHANGED <<db, version, replies, txn, locks, before, last, watched, hits, reordered, calls>>

(* Read the next key, in a transaction: no latch is taken.                 *)
ReadKey(s) ==
  LET more == done[s] + 1 < Len(Current(s).keys)
  IN  /\ Running(s, "get")
      /\ UNCHANGED pc
      /\ replies' = [replies EXCEPT ![s] = Append(@, db[Key(s)])]
      /\ done' = [done EXCEPT ![s] = IF more THEN @ + 1 ELSE 0]
      /\ todo' = [todo EXCEPT ![s] = IF more THEN @ ELSE Tail(@)]
      /\ UNCHANGED <<db, version, aof, txn, locks, history, calls>>

-----------------------------------------------------------------------------
(* WATCH, MULTI, the queue and what ends it.                               *)

cmd_watch(s, k) ==
  /\ Call
  /\ pc[s] = "idle" /\ ~txn[s].in_multi
  /\ txn' = [txn EXCEPT ![s].watches = Append(@, <<SlotOf[k], version[SlotOf[k]]>>)]
  /\ watched' = [watched EXCEPT ![s] = @ \cup {k}]
  /\ UNCHANGED <<db, version, aof, pc, todo, done, replies, locks, before, last, hits, stale, reordered>>

cmd_multi(s) ==
  /\ Call
  /\ pc[s] = "idle" /\ ~txn[s].in_multi
  /\ txn' = [txn EXCEPT ![s].in_multi = TRUE, ![s].dirty = FALSE, ![s].queued = <<>>]
  /\ UNCHANGED <<db, version, aof, pc, todo, done, replies, locks, history>>

(* Inside MULTI a command is queued; one that may not be queued makes the  *)
(* transaction dirty, and what is queued after it can only be discarded.   *)
dispatch_queued(s, c) ==
  /\ pc[s] = "idle" /\ txn[s].in_multi
  /\ Len(txn[s].queued) < MaxQueue /\ ~txn[s].dirty
  /\ txn' = [txn EXCEPT ![s].queued = Append(@, c)]
  /\ UNCHANGED <<db, version, aof, pc, todo, done, replies, locks, history, calls>>

validate_queueable(s) ==
  /\ pc[s] = "idle" /\ txn[s].in_multi
  /\ txn' = [txn EXCEPT ![s].dirty = TRUE]
  /\ UNCHANGED <<db, version, aof, pc, todo, done, replies, locks, history, calls>>

(* Session s stops watching.                                               *)
ForgetWatches(s) ==
  /\ watched' = [watched EXCEPT ![s] = {}]
  /\ hits' = {h \in hits : h[1] # s}

(* Leave the transaction without executing it.                             *)
discard(s) ==
  /\ txn' = [txn EXCEPT ![s] = NoTxn]
  /\ last' = [last EXCEPT ![s] = None]
  /\ ForgetWatches(s)
  /\ stale' = stale \ {s}

(* DISCARD, RESET.                                                         *)
cmd_discard(s) ==
  /\ pc[s] = "idle" /\ txn[s].in_multi
  /\ discard(s)
  /\ UNCHANGED <<db, version, aof, pc, todo, done, replies, locks, before, reordered, calls>>

cmd_unwatch(s) ==
  /\ pc[s] = "idle" /\ ~txn[s].in_multi /\ txn[s].watches # <<>>
  /\ txn' = [txn EXCEPT ![s].watches = <<>>]
  /\ ForgetWatches(s)
  /\ stale' = stale \ {s}
  /\ UNCHANGED <<db, version, aof, pc, todo, done, replies, locks, before, last, reordered, calls>>

-----------------------------------------------------------------------------
(* EXEC: check, lock, run, unlock.                                         *)

cmd_exec(s) ==
  /\ txn[s].in_multi
  /\ IF txn[s].dirty THEN pc[s] = "idle" /\ discard(s) /\ UNCHANGED pc
     ELSE /\ Goto(s, "idle", "check")
          /\ ForgetWatches(s)
          /\ UNCHANGED <<txn, last, stale>>
  /\ UNCHANGED <<db, version, aof, todo, done, replies, locks, before, reordered, calls>>

(* Compare one watched version; the first that differs aborts.             *)
watch_check(s) ==
  LET w == Head(txn[s].watches)
  IN  /\ txn[s].watches # <<>>
      /\ IF version[w[1]] # w[2]
         THEN Goto(s, "check", "idle") /\ discard(s)
         ELSE /\ pc[s] = "check"
              /\ txn' = [txn EXCEPT ![s].watches = Tail(@)]
              /\ UNCHANGED <<pc, last, stale, watched, hits>>
      /\ UNCHANGED <<db, version, aof, todo, done, replies, locks, before, reordered, calls>>

(* No conflict: take the queue.                                            *)
take_queue(s) ==
  /\ txn[s].watches = <<>>
  /\ Goto(s, "check", "lock")
  /\ todo' = [todo EXCEPT ![s] = txn[s].queued]
  /\ txn' = [txn EXCEPT ![s] = NoTxn]
  /\ UNCHANGED <<db, version, aof, done, replies, locks, history, calls>>

(* Mutant of txn_lock: only what is written is latched.                    *)
txn_lock_writes(s) ==
  LET x == command_keys(todo[s], "set")
  IN  /\ Goto(s, "lock", "start")
      /\ \A k \in x : CanWrite(s, k)
      /\ locks' = [locks EXCEPT ![s] = [exclusive |-> x, shared |-> {}]]
      /\ before' = [before EXCEPT ![s] = [db |-> db, queue |-> todo[s]]]
      /\ UNCHANGED <<db, version, aof, todo, done, replies, txn, last, watched, hits, stale, reordered, calls>>

(* Mutant of txn_lock: no dedup, so a key that is read and written is      *)
(* latched twice and the second attempt waits for the first.               *)
txn_lock_twice(s) ==
  LET x == command_keys(todo[s], "set")
      r == command_keys(todo[s], "get")
  IN  /\ Goto(s, "lock", "start")
      /\ \A k \in x : CanWrite(s, k)
      /\ \A k \in r : CanRead(s, k) /\ k \notin x
      /\ locks' = [locks EXCEPT ![s] = [exclusive |-> x, shared |-> r]]
      /\ before' = [before EXCEPT ![s] = [db |-> db, queue |-> todo[s]]]
      /\ UNCHANGED <<db, version, aof, todo, done, replies, txn, last, watched, hits, stale, reordered, calls>>

txn_lock(s) ==
  LET x == command_keys(todo[s], "set")
      r == command_keys(todo[s], "get") \ x
  IN  /\ Goto(s, "lock", "start")
      /\ \A k \in x : CanWrite(s, k)
      /\ \A k \in r : CanRead(s, k)
      /\ locks' = [locks EXCEPT ![s] = [exclusive |-> x, shared |-> r]]
      /\ before' = [before EXCEPT ![s] = [db |-> db, queue |-> todo[s]]]
      /\ UNCHANGED <<db, version, aof, todo, done, replies, txn, last, watched, hits, stale, reordered, calls>>

TxnStart(s) ==
  /\ Goto(s, "start", "run")
  /\ enqueue("TxnStart", s, None)
  /\ UNCHANGED <<db, version, todo, done, replies, txn, locks, history, calls>>

txn_unlock(s) ==
  /\ txn_mode(s) /\ todo[s] = <<>>
  /\ Goto(s, "run", "commit")
  /\ locks' = [locks EXCEPT ![s] = None]
  /\ last' = [last EXCEPT ![s] = [queue |-> before[s].queue, replies |-> replies[s]]]
  /\ before' = [before EXCEPT ![s] = None]
  /\ replies' = [replies EXCEPT ![s] = <<>>]
  /\ UNCHANGED <<db, version, aof, todo, done, txn, watched, hits, stale, reordered, calls>>

(* The transaction is answered.                                            *)
TxnCommit(s) ==
  /\ Goto(s, "commit", "idle")
  /\ enqueue("TxnCommit", s, None)
  /\ stale' = (stale \ {s}) \cup {t \in Sessions : <<t, s>> \in hits}
  /\ UNCHANGED <<db, version, todo, done, replies, txn, locks, before, last, watched, hits, reordered, calls>>

Step(s) ==
  \/ WriteKey(s) \/ bump_watch(s) \/ log_write(s) \/ ReadKey(s)
  \/ watch_check(s) \/ take_queue(s) \/ txn_lock(s) \/ TxnStart(s) \/ txn_unlock(s) \/ TxnCommit(s)

Next == \E s \in Sessions :
  \/ \E c \in Commands : exec_command(s, c) \/ dispatch_queued(s, c)
  \/ \E k \in Keys : cmd_watch(s, k)
  \/ cmd_multi(s) \/ validate_queueable(s) \/ cmd_discard(s) \/ cmd_unwatch(s) \/ cmd_exec(s)
  \/ Step(s)

Spec == Init /\ [][Next]_vars
FairSpec == Spec /\ \A s \in Sessions : WF_vars(Step(s))

-----------------------------------------------------------------------------
(* Replay of the log at start-up: brackets do not delay or drop commands,  *)
(* and a bracket ends at the first TxnCommit, whosever it is.              *)

replay_one(d, e) == [k \in Keys |-> IF k \in Range(e.cmd.keys) THEN e.by ELSE d[k]]

replay_entries(entries) ==
  LET after[n \in 0 .. Len(entries)] ==
        IF n = 0 THEN [k \in Keys |-> None]
        ELSE IF entries[n].op = "Command" THEN replay_one(after[n - 1], entries[n])
        ELSE after[n - 1]
  IN  after[Len(entries)]

-----------------------------------------------------------------------------
(* A write of a watched key that took effect after the WATCH was answered, *)
(* and was itself answered before EXEC was called, aborts the transaction: *)
(* bump_watch comes after the effect and before the answer, on every key   *)
(* of the command.  (A write still unanswered when EXEC checks its         *)
(* versions may be committed over.)                                        *)
WatchedWriteAborts == \A s \in stale : pc[s] # "lock" /\ ~txn_mode(s)

(* What a crash now would give back: a key without a write on its way to   *)
(* the log has in the replayed store the value it has in the store, in the *)
(* middle of transactions too.  Except a key whose last write was executed *)
(* while another write of it waited for its log entry (commands.rs:109     *)
(* logs after the effect, in either order), until it is written again.     *)
ReplayReproducesStore ==
  \A k \in Keys \ reordered :
    (\A s \in Sessions : k \notin Unlogged(s)) => replay_entries(aof)[k] = db[k]

(* The store without the writes of running transactions.                   *)
Visible ==
  [k \in Keys |->
     IF \E s \in Sessions : txn_mode(s) /\ k \in locks[s].exclusive
     THEN before[CHOOSE s \in Sessions : txn_mode(s) /\ k \in locks[s].exclusive].db[k]
     ELSE db[k]]

Atomic == INSTANCE AtomicTransactions WITH db <- Visible

(* Transactions are atomic: what they read and write is what they would    *)
(* have alone, at the moment txn_unlock releases their latches, while      *)
(* other sessions execute single commands and transactions.                *)
Serializable == Atomic!Spec

(* EXEC is answered: its versions are compared, its latches obtained and   *)
(* every queued command executed, and so is every single command.          *)
CommandsAnswered == \A s \in Sessions : []<>(pc[s] = "idle")
=============================================================================
