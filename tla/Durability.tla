------------------------------ MODULE Durability ------------------------------
(***************************************************************************)
(* How a write survives a crash: the operation log (crates/garnet/src/     *)
(* aof.rs), the bookkeeping a command does after it has written            *)
(* (commands.rs, log_write), SAVE and the recovery at start-up             *)
(* (shared.rs).                                                            *)
(*                                                                         *)
(* A write is any command that changed the store.  It is a number, in the  *)
(* order of execution, and the store is the sequence of the writes that    *)
(* took effect, one at a time (Store!Linearizable): nothing is assumed of  *)
(* what they do, and two of them need not commute.  A checkpoint is a      *)
(* consistent snapshot taken at one instant, written later                 *)
(* (Checkpoint!RecoversPrefix).  Addresses in the log count entries.       *)
(***************************************************************************)
EXTENDS Integers, Sequences, FiniteSets, Functions

CONSTANTS
  Sessions,
  Modes,         (* CommitMode: "always", "interval", "never"              *)
  CommitWaits,   (* --aof-commit-wait                                      *)
  MaxCalls,      (* bound: write commands                                  *)
  MaxSaves,      (* bound: SAVE commands                                   *)
  MaxCrashes     (* bound: crashes                                         *)

ASSUME SessionsAssumption == IsFiniteSet(Sessions)
ASSUME ModesAssumption == Modes \subseteq {"always", "interval", "never"}
ASSUME CommitWaitsAssumption == CommitWaits \subseteq BOOLEAN
ASSUME BoundsAssumption == MaxCalls \in Nat /\ MaxSaves \in Nat /\ MaxCrashes \in Nat

\* An entry that a crash left incomplete; writes are numbered from 1.
Torn == 0

VARIABLES
  mode, aof_commit_wait,    (* configuration                               *)
  kv,           (* the writes in the store, in the order of their effect   *)
  file,         (* entries in the file, written = Len(file)                *)
  buf,          (* entries appended but not written                        *)
  committed,    (* entries fsynced                                         *)
  meta,         (* the snapshot of the last checkpoint on disk             *)
  pc, cmd,      (* per session: progress and write, 0 if idle              *)
  end,          (* end[c]: the address enqueue returned                    *)
  saver,        (* progress of SAVE                                        *)
  snapshot,     (* what the checkpoint in progress has captured            *)
  acked,        (* history: the writes the server has answered             *)
  overlap,      (* history: pairs of writes of which one was executed      *)
                (* between the effect of the other and its log entry       *)
  exposed,      (* history: writes executed while a SAVE ran, or logged    *)
                (* behind a torn entry, until a checkpoint has them or a   *)
                (* recovery has found them                                 *)
  calls, saves, crashes     (* bounds                                      *)

config == <<mode, aof_commit_wait>>
aof == <<file, buf, committed>>
sessions == <<pc, cmd, end>>
save == <<saver, snapshot, saves>>
history == <<acked, overlap, exposed>>
vars == <<config, kv, aof, meta, sessions, save, history, calls, crashes>>

Init ==
  /\ mode \in Modes /\ aof_commit_wait \in CommitWaits
  /\ kv = <<>>
  /\ file = <<>> /\ buf = <<>> /\ committed = 0
  /\ meta = <<>>
  /\ pc = [c \in Sessions |-> "idle"]
  /\ cmd = [c \in Sessions |-> 0]
  /\ end = [c \in Sessions |-> 0]
  /\ saver = "idle" /\ snapshot = <<>>
  /\ acked = {} /\ overlap = {} /\ exposed = {}
  /\ calls = 0 /\ saves = 0 /\ crashes = 0

written == Len(file)

Goto(c, from, to) ==
  /\ pc[c] = from
  /\ pc' = [pc EXCEPT ![c] = to]

-----------------------------------------------------------------------------
(* A write command: the store first, then the log, then the answer.        *)

execute(c) ==
  /\ calls < MaxCalls
  /\ calls' = calls + 1
  /\ Goto(c, "idle", "executed")
  /\ cmd' = [cmd EXCEPT ![c] = calls']
  /\ kv' = Append(kv, calls')
  /\ overlap' = overlap \union {{cmd[d], calls'} : d \in {d \in Sessions : pc[d] = "executed"}}
  /\ exposed' = IF saver = "idle" THEN exposed ELSE exposed \union {calls'}
  /\ UNCHANGED <<config, aof, meta, end, save, acked, crashes>>

\* Replay will not get past what a crash left incomplete.
Behind(x) == IF Torn \in Range(file) THEN exposed \union {x} ELSE exposed

\* Mutant: the buffer that goes to the file goes without the new entry.
enqueue_drops(c) ==
  /\ Goto(c, "executed", IF mode = "always" THEN "commit" ELSE "logged")
  /\ end' = [end EXCEPT ![c] = written + Len(buf) + 1]
  /\ \/ buf' = Append(buf, cmd[c]) /\ UNCHANGED file
     \/ file' = file \o buf /\ buf' = <<>>
  /\ exposed' = Behind(cmd[c])
  /\ UNCHANGED <<config, kv, committed, meta, cmd, save, acked, overlap, calls, crashes>>

\* Aof::enqueue, the part under the mutex; a large buffer goes to the file.
enqueue(c) ==
  /\ Goto(c, "executed", IF mode = "always" THEN "commit" ELSE "logged")
  /\ end' = [end EXCEPT ![c] = written + Len(buf) + 1]
  /\ \/ buf' = Append(buf, cmd[c]) /\ UNCHANGED file
     \/ file' = file \o Append(buf, cmd[c]) /\ buf' = <<>>
  /\ exposed' = Behind(cmd[c])
  /\ UNCHANGED <<config, kv, committed, meta, cmd, save, acked, overlap, calls, crashes>>

\* Mutant: an empty buffer means that there is nothing to fsync.
Commit_skips_empty ==
  /\ file' = file \o buf
  /\ buf' = <<>>
  /\ committed' = IF buf = <<>> THEN committed ELSE Len(file')

\* flush_buffer_locked, and the fsync.
Commit ==
  /\ file' = file \o buf
  /\ buf' = <<>>
  /\ committed' = Len(file')

enqueue_commit(c) ==
  /\ Goto(c, "commit", "logged")
  /\ Commit
  /\ UNCHANGED <<config, kv, meta, cmd, end, save, history, calls, crashes>>

\* log_write: with --aof-commit-wait the answer waits for the commit.
Answered(c) ==
  /\ acked' = acked \union {cmd[c]}
  /\ cmd' = [cmd EXCEPT ![c] = 0]
  /\ end' = [end EXCEPT ![c] = 0]
  /\ UNCHANGED <<overlap, exposed>>

answer(c) ==
  /\ aof_commit_wait => committed >= end[c]
  /\ Goto(c, "logged", "idle")
  /\ Answered(c)
  /\ UNCHANGED <<config, kv, aof, meta, save, calls, crashes>>

wait_committed(c) ==
  /\ aof_commit_wait /\ committed < end[c]
  /\ Goto(c, "logged", "waiting")
  /\ Commit
  /\ UNCHANGED <<config, kv, meta, cmd, end, save, history, calls, crashes>>

\* The loop on the condition variable, woken when committed changes.
woken(c) ==
  /\ committed >= end[c]
  /\ Goto(c, "waiting", "idle")
  /\ Answered(c)
  /\ UNCHANGED <<config, kv, aof, meta, save, calls, crashes>>

\* The background thread of CommitMode::Interval.
interval_commit ==
  /\ mode = "interval"
  /\ committed < written + Len(buf)
  /\ Commit
  /\ UNCHANGED <<config, kv, meta, sessions, save, history, calls, crashes>>

-----------------------------------------------------------------------------
(* SAVE: Shared::checkpoint.                                               *)

take_checkpoint ==
  /\ saver = "idle" /\ saves < MaxSaves
  /\ saves' = saves + 1
  /\ saver' = "captured"
  /\ snapshot' = kv
  /\ UNCHANGED <<config, kv, aof, meta, sessions, history, calls, crashes>>

write_meta ==
  /\ saver = "captured"
  /\ saver' = "written"
  /\ meta' = snapshot
  /\ exposed' = exposed \ Range(snapshot)
  /\ UNCHANGED <<config, kv, aof, sessions, snapshot, saves, acked, overlap, calls, crashes>>

\* Mutant: the log is cut off before the checkpoint is written.
truncate_early ==
  /\ saver \in {"captured", "written"}
  /\ saver' = IF saver = "captured" THEN "captured" ELSE "idle"
  /\ snapshot' = IF saver = "captured" THEN snapshot ELSE <<>>
  /\ file' = <<>> /\ buf' = <<>> /\ committed' = 0
  /\ UNCHANGED <<config, kv, meta, sessions, saves, history, calls, crashes>>

truncate ==
  /\ saver = "written"
  /\ saver' = "idle"
  /\ snapshot' = <<>>
  /\ file' = <<>> /\ buf' = <<>> /\ committed' = 0
  /\ UNCHANGED <<config, kv, meta, sessions, saves, history, calls, crashes>>

-----------------------------------------------------------------------------
(* A crash: the fsynced entries survive, of the others any prefix, the     *)
(* last one perhaps in part.  Then Aof::open and Shared::recover.          *)

Surviving ==
  {SubSeq(file, 1, n) : n \in committed .. written}
    \union {Append(SubSeq(file, 1, n), Torn) : n \in committed .. written - 1}

\* Aof::replay stops at what it cannot parse.
Readable(f) ==
  {n \in 0 .. Len(f) : \A i \in 1 .. n : f[i] # Torn}

replay(f, v) ==
  v \o SubSeq(f, 1, CHOOSE n \in Readable(f) : \A m \in Readable(f) : m <= n)

crash_and_recover ==
  /\ crashes < MaxCrashes
  /\ crashes' = crashes + 1
  /\ \E f \in Surviving :
       /\ file' = f /\ committed' = Len(f)
       /\ kv' = replay(f, meta)
  /\ buf' = <<>>
  /\ pc' = [c \in Sessions |-> "idle"]
  /\ cmd' = [c \in Sessions |-> 0]
  /\ end' = [c \in Sessions |-> 0]
  /\ saver' = "idle" /\ snapshot' = <<>>
  /\ exposed' = exposed \ Range(kv')
  /\ UNCHANGED <<config, meta, acked, overlap, saves, calls>>

-----------------------------------------------------------------------------

session_step(c) ==
  \/ enqueue(c) \/ enqueue_commit(c) \/ answer(c) \/ wait_committed(c) \/ woken(c)

save_step == write_meta \/ truncate

Next ==
  \/ \E c \in Sessions : execute(c) \/ session_step(c)
  \/ interval_commit
  \/ take_checkpoint \/ save_step
  \/ crash_and_recover

Spec == Init /\ [][Next]_vars

(***************************************************************************)
(* Sessions and SAVE are scheduled; so is the background committer.        *)
(***************************************************************************)
FairSpec ==
  /\ Spec
  /\ \A c \in Sessions : WF_vars(session_step(c))
  /\ WF_vars(save_step) /\ WF_vars(interval_commit)

-----------------------------------------------------------------------------

(***************************************************************************)
(* Durability, with a log that is committed on every append, or with       *)
(* --aof-commit-wait: what was answered is in the checkpoint or in the     *)
(* readable part of the log at every moment of any number of SAVEs and     *)
(* crashes, whoever committed it, and survives.  Not so are the writes     *)
(* that are executed while a SAVE runs (shared.rs:142 truncates entries    *)
(* that its checkpoint has not) or logged behind a torn entry (aof.rs:104  *)
(* appends after it), until another checkpoint has them.                   *)
(***************************************************************************)
SavedSurvives ==
  mode = "always" \/ aof_commit_wait => acked \ exposed \subseteq Range(kv)

(***************************************************************************)
(* What aof.rs, lines 6 to 8, can promise: replay of a log that no SAVE    *)
(* has truncated gives, after any number of crashes, writes that were in   *)
(* the store, each once; all of them, when nothing was in flight and all   *)
(* was fsynced behind no torn entry; and in the order of their effect but  *)
(* for those whose calls overlapped.  These are logged in either order     *)
(* (commands.rs:109 logs after the effect), so for writes that do not      *)
(* commute "the exact state" of aof.rs is not reproduced.                  *)
(***************************************************************************)
Before(s, a, b) == \E i, j \in DOMAIN s : i < j /\ s[i] = a /\ s[j] = b

Quiet ==
  /\ \A c \in Sessions : pc[c] = "idle"
  /\ committed = written + Len(buf)
  /\ Torn \notin Range(file)

ReplayReproduces ==
  [][saves = 0 /\ crashes' # crashes =>
       /\ IsInjective(kv') /\ Range(kv') \subseteq Range(kv)
       /\ Quiet => Range(kv) \subseteq Range(kv')
       /\ \A a, b \in Range(kv') : Before(kv, a, b) /\ Before(kv', b, a) => {a, b} \in overlap
    ]_vars

(***************************************************************************)
(* A write command is answered, whoever commits its entry, unless a SAVE   *)
(* truncates the log under it.                                             *)
(***************************************************************************)
EveryWriteAnswered ==
  \A c \in Sessions : pc[c] # "idle" ~> pc[c] = "idle" \/ saves > 0
=============================================================================
