-------------------------- MODULE AtomicTransactions --------------------------
(***************************************************************************)
(* What EXEC promises: the queued commands of a transaction execute as one *)
(* step, or not at all.  A command outside of a transaction writes each of *)
(* its keys in a step of its own.                                          *)
(***************************************************************************)
EXTENDS Naturals, Sequences, SequencesExt

CONSTANTS Keys, Sessions, Commands, MaxQueue, None

VARIABLES
  db,            (* value of every key                                     *)
  last           (* last[s]: queue and replies of the last transaction of  *)
                 (* s that committed, None if it was aborted               *)

vars == <<db, last>>

Queues == UNION {[1 .. n -> Commands] : n \in 0 .. MaxQueue}

(* The database after command c of session s.                              *)
Write(d, s, c) ==
  [k \in Keys |-> IF c.op = "set" /\ k \in Range(c.keys) THEN s ELSE d[k]]

(* Execute one command: the database and the values read so far.           *)
Apply(x, s, c) ==
  [db |-> Write(x.db, s, c),
   replies |-> IF c.op = "get" THEN x.replies \o [j \in DOMAIN c.keys |-> x.db[c.keys[j]]]
               ELSE x.replies]

(* Execute a queue.                                                        *)
Run(q, s, d) ==
  LET after[n \in 0 .. Len(q)] ==
        IF n = 0 THEN [db |-> d, replies |-> <<>>]
        ELSE Apply(after[n - 1], s, q[n])
  IN  after[Len(q)]

Init ==
  /\ db = [k \in Keys |-> None]
  /\ last = [s \in Sessions |-> None]

Single(s) ==
  /\ \E k \in Keys : db' = [db EXCEPT ![k] = s]
  /\ UNCHANGED last

Exec(s) ==
  \E q \in Queues :
    /\ db' = Run(q, s, db).db
    /\ last' = [last EXCEPT ![s] = [queue |-> q, replies |-> Run(q, s, db).replies]]

Abort(s) ==
  /\ last' = [last EXCEPT ![s] = None]
  /\ UNCHANGED db

Next == \E s \in Sessions : Single(s) \/ Exec(s) \/ Abort(s)

Spec == Init /\ [][Next]_vars
=============================================================================
