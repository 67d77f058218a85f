------------------------------ MODULE Checkpoint ------------------------------
(***************************************************************************)
(* crates/tsavorite/src/checkpoint.rs on top of Store: fold-over           *)
(* checkpoints driven by the phases of Concurrent Prefix Recovery, a crash *)
(* at any moment, and the recovery of the store from the last checkpoint.  *)
(*                                                                         *)
(* The phase change waits, through the epoch, until no thread is inside an *)
(* operation it began under another phase.  A record is on the device once *)
(* SafeReadOnly has passed it (the flush is part of that job).             *)
(***************************************************************************)
EXTENDS Store

CONSTANTS
  Savers,     (* threads that call take_checkpoint                         *)
  MaxVersion  (* bound: the version a checkpoint may lead to               *)

ASSUME MaxVersionAssumption == MaxVersion \in Nat \ {0}

VARIABLES
  step,       (* step[s]: where saver s stands                             *)
  lag,        (* lag[s]: threads inside since before its last transition   *)
  version,    (* version[s]: the version v it captures                     *)
  start_address,   (* start_address[s], final_address[s]: its locals       *)
  final_address,
  meta,       (* the metadata on disk, or None                             *)
  crashed,    (* the process has been killed and has recovered             *)
  snap        (* history, snap[v][k]: key k after the operations of        *)
              (* versions up to v                                          *)

saver_locals == <<version, start_address, final_address>>
savers == <<step, lag, saver_locals>>
cvars == <<vars, savers, meta, crashed, snap>>

Versions == 1 .. MaxVersion

CInit ==
  /\ Init
  /\ step = [s \in Savers |-> "idle"]
  /\ lag = [s \in Savers |-> {}]
  /\ version = [s \in Savers |-> 0]
  /\ start_address = [s \in Savers |-> 0]
  /\ final_address = [s \in Savers |-> 0]
  /\ meta = None
  /\ crashed = FALSE
  /\ snap = [v \in Versions |-> [k \in Keys |-> Absent]]

-----------------------------------------------------------------------------

Inside == {"latch", "act"}

\* A step of an operation; one that takes effect belongs to the version its
\* thread has seen.
operate(t) ==
  /\ ~crashed
  /\ op_step(t)
  /\ snap' = IF pc[t] = "act" /\ pc'[t] = "done"
               THEN [v \in Versions |->
                       IF v < state[t].version THEN snap[v]
                       ELSE [snap[v] EXCEPT ![key(t)] = Value(key(t))']]
               ELSE snap
  /\ lag' = [s \in Savers |-> IF pc'[t] \in Inside THEN lag[s] ELSE lag[s] \ {t}]
  /\ UNCHANGED <<step, saver_locals, meta, crashed>>

move_marks == ~crashed /\ log_step /\ UNCHANGED <<savers, meta, crashed, snap>>

\* transition_and_wait: publish the new phase, then wait for the laggards.
Transition(s, from, to, new) ==
  /\ step[s] = from
  /\ step' = [step EXCEPT ![s] = to]
  /\ sys' = new
  /\ lag' = [lag EXCEPT ![s] = {t \in Threads : pc[t] \in Inside}]

Wait(s, from, to) ==
  /\ step[s] = from /\ lag[s] = {}
  /\ step' = [step EXCEPT ![s] = to]
  /\ UNCHANGED lag

unchanged_store ==
  UNCHANGED <<log, entry, marks, latch, readers, pc, locals, calls, evictions,
              meta, crashed, snap>>

\* REST: refuse unless idle, capture the start of the fuzzy region.
take_checkpoint(s) ==
  /\ ~crashed
  /\ step[s] = "idle" /\ sys.phase = "rest" /\ sys.version < MaxVersion
  /\ step' = [step EXCEPT ![s] = "begun"]
  /\ version' = [version EXCEPT ![s] = sys.version]
  /\ start_address' = [start_address EXCEPT ![s] = tail]
  /\ UNCHANGED <<lag, sys, start, final_address>> /\ unchanged_store

set_start(s) ==
  /\ ~crashed
  /\ step[s] = "begun"
  /\ step' = [step EXCEPT ![s] = "started"]
  /\ start' = start_address[s]
  /\ UNCHANGED <<lag, sys, saver_locals>> /\ unchanged_store

to_prepare(s) ==
  /\ ~crashed
  /\ Transition(s, "started", "prepare",
                [phase |-> "prepare", version |-> version[s]])
  /\ UNCHANGED <<start, saver_locals>> /\ unchanged_store

prepared(s) ==
  /\ ~crashed
  /\ Wait(s, "prepare", "prepared")
  /\ UNCHANGED <<sys, start, saver_locals>>
  /\ unchanged_store

to_in_progress(s) ==
  /\ ~crashed
  /\ Transition(s, "prepared", "in_progress",
                [phase |-> "in_progress", version |-> version[s] + 1])
  /\ UNCHANGED <<start, saver_locals>> /\ unchanged_store

\* Every v record lies below the tail now.
capture_final(s) ==
  /\ ~crashed
  /\ Wait(s, "in_progress", "captured")
  /\ final_address' = [final_address EXCEPT ![s] = tail]
  /\ UNCHANGED <<sys, start, version, start_address>> /\ unchanged_store

to_wait_flush(s) ==
  /\ ~crashed
  /\ Transition(s, "captured", "wait_flush",
                [phase |-> "wait_flush", version |-> version[s] + 1])
  /\ UNCHANGED <<start, saver_locals>> /\ unchanged_store

\* Mutant: nothing is shifted, the flush is left to the operations.
fold_over_forgotten(s) ==
  /\ ~crashed
  /\ Wait(s, "wait_flush", "flushing")
  /\ UNCHANGED <<vars, saver_locals, meta, crashed, snap>>

\* shift_read_only_address(final).
fold_over(s) ==
  /\ ~crashed
  /\ Wait(s, "wait_flush", "flushing")
  /\ read_only' = Max({read_only, final_address[s]})
  /\ UNCHANGED <<log, entry, head, safe_read_only, latch, readers, sys, start, pc,
                 locals, calls, evictions, saver_locals, meta, crashed, snap>>

\* wait_flushed, sync, and the metadata by write-and-rename.
write_meta(s) ==
  /\ ~crashed
  /\ step[s] = "flushing" /\ safe_read_only >= final_address[s]
  /\ step' = [step EXCEPT ![s] = "written"]
  /\ meta' = [version |-> version[s], start |-> start_address[s],
              final |-> final_address[s]]
  /\ UNCHANGED <<vars, lag, saver_locals, crashed, snap>>

to_rest(s) ==
  /\ ~crashed
  /\ Transition(s, "written", "rest",
                [phase |-> "rest", version |-> version[s] + 1])
  /\ UNCHANGED <<start, saver_locals>> /\ unchanged_store

checkpoint_done(s) ==
  /\ ~crashed
  /\ Wait(s, "rest", "idle")
  /\ version' = [version EXCEPT ![s] = 0]
  /\ start_address' = [start_address EXCEPT ![s] = 0]
  /\ final_address' = [final_address EXCEPT ![s] = 0]
  /\ UNCHANGED <<sys, start>> /\ unchanged_store

-----------------------------------------------------------------------------

\* The records recovery puts into the index again, and those it undoes.
Undone(a) == log[a].valid /\ log[a].new /\ a >= meta.start
Kept(a) == log[a].valid /\ ~Undone(a)

\* The process dies with a checkpoint on disk and Store::recover rebuilds the
\* store from it: addresses, flags, index.
crash_and_recover ==
  /\ ~crashed /\ meta # None
  /\ crashed' = TRUE
  /\ log' = [a \in 1 .. meta.final - 1 |->
               [log[a] EXCEPT !.valid = Kept(a),
                              !.sealed = IF Kept(a) THEN FALSE ELSE @]]
  /\ entry' = Max({0} \union {a \in 1 .. meta.final - 1 : Kept(a)})
  /\ head' = meta.final /\ safe_read_only' = meta.final /\ read_only' = meta.final
  /\ latch' = None /\ readers' = {}
  /\ sys' = [phase |-> "rest", version |-> meta.version + 1]
  /\ start' = MAX_ADDRESS
  /\ pc' = [t \in Threads |-> "idle"]
  /\ call' = [t \in Threads |-> None]
  /\ answer' = [t \in Threads |-> None]
  /\ state' = [t \in Threads |-> sys']
  /\ entered' = [t \in Threads |-> 0]
  /\ view' = [t \in Threads |-> NoView]
  /\ disk' = [t \in Threads |-> 0]
  /\ src' = [t \in Threads |-> None]
  /\ step' = [s \in Savers |-> "idle"]
  /\ lag' = [s \in Savers |-> {}]
  /\ UNCHANGED <<calls, evictions, saver_locals, meta, snap>>

-----------------------------------------------------------------------------

saver_step(s) ==
  \/ set_start(s) \/ to_prepare(s) \/ prepared(s) \/ to_in_progress(s)
  \/ capture_final(s) \/ to_wait_flush(s) \/ fold_over(s) \/ write_meta(s)
  \/ to_rest(s) \/ checkpoint_done(s)

RunNext ==
  \/ \E t \in Threads : operate(t)
  \/ move_marks
  \/ \E s \in Savers : take_checkpoint(s) \/ saver_step(s)

CrashSpec == CInit /\ [][RunNext \/ crash_and_recover]_cvars

\* No step of an operation blocks: a thread inside a call can always take
\* one (a busy latch or a full log is left and tried again), and every one
\* moves its pc.
Advances(t) ==
  /\ ~crashed /\ pc[t] # "idle"
  /\ \E to \in {"enter", "latch", "act", "io", "done", "idle"} : pc' = [pc EXCEPT ![t] = to]

(***************************************************************************)
(* Operations and the checkpoint are scheduled, and the job that a move of *)
(* ReadOnly leaves behind runs: the waiting saver bumps the epoch.         *)
(***************************************************************************)
FairSpec ==
  /\ CrashSpec
  /\ \A t \in Threads : WF_pc(Advances(t))
  /\ \A s \in Savers : WF_step(saver_step(s))
  /\ WF_safe_read_only(~crashed /\ mark_read_only)

-----------------------------------------------------------------------------

(***************************************************************************)
(* Concurrent Prefix Recovery: what recovery restores is the effect of all *)
(* operations of the checkpointed version and of none of the next, though  *)
(* both kinds were running while the checkpoint was taken.                 *)
(***************************************************************************)
RecoversPrefix == crashed => \A k \in Keys : Value(k) = snap[meta.version][k]

(***************************************************************************)
(* Up to a crash, operations stay atomic while the version shifts under    *)
(* them: records are copied, sealed and frozen, and no effect is lost.     *)
(***************************************************************************)
LinearizableUntilCrash ==
  Atomic!AInit /\ [][~crashed' => Atomic!ANext]_(Atomic!avars)

(***************************************************************************)
(* A checkpoint once begun completes or dies in a crash, whatever          *)
(* operations are called.                                                  *)
(***************************************************************************)
CheckpointCompletes == \A s \in Savers : step[s] # "idle" ~> step[s] = "idle"
=============================================================================
