-------------------------------- MODULE Server --------------------------------
(***************************************************************************)
(* The network layer: the accept loop and the connection threads of        *)
(* crates/garnet/src/server.rs, with the incremental parser of             *)
(* crates/garnet/src/resp.rs.                                              *)
(*                                                                         *)
(* A client sends a stream of bytes (ASCII codes); the server reads it in  *)
(* chunks of any size.  Commands are dispatched one at a time; what they   *)
(* do to the store is left out, except that the first one claims a slot of *)
(* the epoch table for its thread.                                         *)
(***************************************************************************)
EXTENDS Integers, FiniteSets, Sequences, SequencesExt

CONSTANTS
  Clients,
  Streams,       (* what each client may send: [bytes, commands, bad, ends] *)
  maxclients,    (* --maxclients                                           *)
  MaxThreads,    (* slots of the epoch table                               *)
  InitialRecv,   (* first size of a receive buffer                         *)
  MaxRecv,       (* largest size of a receive buffer                       *)
  MaxArray,      (* most arguments of a command                            *)
  IntMax,        (* largest integer                                        *)
  None

ASSUME ClientsAssumption == maxclients \in Nat \ {0} /\ maxclients <= MaxThreads
ASSUME MaxThreadsAssumption == MaxThreads \in Nat
ASSUME NoneAssumption == None \notin {"quit", "protocol", "large", "eof"} \cup Int
ASSUME BufferAssumption == InitialRecv \in Nat \ {0} /\ InitialRecv <= MaxRecv /\ MaxRecv \in Nat

VARIABLES
  live,          (* connections counted by the accept loop                 *)
  acceptor,      (* the accept loop: "accept", or the client it refuses    *)
  conn           (* conn[c]: the thread that serves client c, its buffer   *)

vars == <<live, acceptor, conn>>

-----------------------------------------------------------------------------
(* RESP.  Positions are 1-based; a result is <<"more">>, <<"error">> or    *)
(* <<"ok", position after the command, arguments>>.                        *)

CR == 13
LF == 10
Space == 32
Star == 42
Minus == 45
Zero == 48
Dollar == 36
Quit == <<113>>

More == <<"more">>
Error == <<"error">>
Parsed(next, args) == <<"ok", next, args>>

find_crlf(buf, pos) ==
  LET ends == {j \in pos .. Len(buf) - 1 : buf[j] = CR /\ buf[j + 1] = LF}
  IN  IF ends = {} THEN None ELSE Min(ends)

(* A length in the protocol, None if it is not one.                        *)
parse_int(s) ==
  LET digits == IF s # <<>> /\ s[1] = Minus THEN Tail(s) ELSE s
      value[n \in 0 .. Len(digits)] == IF n = 0 THEN 0 ELSE 10 * value[n - 1] + (digits[n] - Zero)
      abs == value[Len(digits)]
  IN  IF digits = <<>> \/ ~(Range(digits) \subseteq Zero .. Zero + 9) THEN None
      ELSE IF abs \notin 0 .. IntMax THEN None ELSE IF digits = s THEN abs ELSE -abs

(* One bulk string at cur.                                                 *)
BulkString(buf, cur) ==
  LET cr == find_crlf(buf, cur + 1)
      len == parse_int(SubSeq(buf, cur + 1, cr - 1))
      end == cr + 2 + len
  IN  IF cur > Len(buf) THEN More
      ELSE IF buf[cur] # Dollar THEN Error
      ELSE IF cr = None THEN More
      ELSE IF len = None \/ len < 0 THEN Error
      ELSE IF end + 1 > Len(buf) THEN More
      ELSE IF buf[end] # CR \/ buf[end + 1] # LF THEN Error
      ELSE Parsed(end + 2, <<SubSeq(buf, cr + 2, end - 1)>>)

(* The command so far, and one more bulk string.                           *)
Results == {More, Error} \cup ({"ok"} \X Nat \X Seq(Seq(Nat)))

NextBulk(buf) ==
  [sofar \in Results |->
    LET p == BulkString(buf, sofar[2])
    IN  IF sofar[1] # "ok" THEN sofar
        ELSE IF p[1] # "ok" THEN p ELSE Parsed(p[2], sofar[3] \o p[3])]

BulkStrings(buf, cur, count) ==
  LET read[n \in 0 .. count] == IF n = 0 THEN Parsed(cur, <<>>) ELSE NextBulk(buf)[read[n - 1]]
  IN  read[count]

parse_array(buf, pos) ==
  LET cr == find_crlf(buf, pos + 1)
      count == parse_int(SubSeq(buf, pos + 1, cr - 1))
  IN  IF cr = None THEN More
      ELSE IF count = None \/ count < 0 \/ count > MaxArray THEN Error
      ELSE BulkStrings(buf, cr + 2, count)

(* The words of a line, which spaces separate.                             *)
Words(line) ==
  LET starts == {j \in DOMAIN line : line[j] # Space /\ (j = 1 \/ line[j - 1] = Space)}
      word(j) == SubSeq(line, j, Min({m \in j .. Len(line) + 1 : m > Len(line) \/ line[m] = Space}) - 1)
      order == SetToSortSeq(starts, <)
  IN  [n \in DOMAIN order |-> word(order[n])]

parse_inline(buf, pos) ==
  LET cr == find_crlf(buf, pos)
  IN  IF cr = None THEN More ELSE Parsed(cr + 2, Words(SubSeq(buf, pos, cr - 1)))

parse_command(buf, pos) ==
  IF pos > Len(buf) THEN More
  ELSE IF buf[pos] = Star THEN parse_array(buf, pos) ELSE parse_inline(buf, pos)

-----------------------------------------------------------------------------
(* What clients send.                                                      *)

(* A stream is cut into parts; part j ends with byte x.ends[j].            *)
PartEnd(x, j) == IF j = 0 THEN 0 ELSE x.ends[j]
PartSize(x, j) == PartEnd(x, j) - PartEnd(x, j - 1)

(* What the parser makes of part j by itself.                              *)
Alone(x, j) == parse_command(SubSeq(x.bytes, PartEnd(x, j - 1) + 1, PartEnd(x, j)), 1)

(* The parts before j fit the buffer, and none is a QUIT; commands[m] is   *)
(* part at[m].                                                             *)
Reached(x, at, j) ==
  /\ \A i \in 1 .. j - 1 : PartSize(x, i) <= MaxRecv
  /\ \A m \in DOMAIN at : at[m] < j => x.commands[m][1] # Quit

(* Part j is malformed, or one command: of x.commands, unless it is empty  *)
(* or fits no buffer.                                                      *)
IsPart(x, at, j) ==
  LET p == Alone(x, j)
      mine == {m \in DOMAIN at : at[m] = j}
  IN  IF x.bad /\ j = Len(x.ends) THEN p = Error /\ mine = {}
      ELSE /\ p = Parsed(PartSize(x, j) + 1, p[3])
           /\ mine = {} <=> p[3] = <<>> \/ PartSize(x, j) > MaxRecv
           /\ \A m \in mine : x.commands[m] = p[3]

(* A stream with the commands that the server should dispatch.  Any bytes  *)
(* begin some stream: if they stop inside a command, its rest never        *)
(* arrives; what follows a malformed command belongs to that part.         *)
IsStream(x) ==
  /\ x.bytes \in Seq(Nat) /\ x.ends \in Seq(Nat) /\ x.bad \in BOOLEAN
  /\ x.commands \in Seq(Seq(Seq(Nat)))
  /\ \A j \in DOMAIN x.ends : PartSize(x, j) > 0
  /\ PartEnd(x, Len(x.ends)) = Len(x.bytes)
  /\ x.bad => x.ends # <<>>
  /\ \E at \in [DOMAIN x.commands -> DOMAIN x.ends] :
       /\ \A m, n \in DOMAIN at : m < n => at[m] < at[n]
       /\ \A m \in DOMAIN at : Reached(x, at, at[m])
       /\ \A j \in DOMAIN x.ends : Reached(x, at, j) => IsPart(x, at, j)

ASSUME StreamsAssumption == \A c \in Clients : \A x \in Streams[c] : IsStream(x)

-----------------------------------------------------------------------------
(* Connections.                                                            *)

Closed ==
  [pc |-> "closed", stream |-> None, rcv |-> 0, base |-> 0, head |-> 0, cap |-> 0,
   dispatched |-> <<>>, sent |-> 0, owed |-> 0, slot |-> FALSE, why |-> None]

Init ==
  /\ live = 0
  /\ acceptor = "accept"
  /\ conn = [c \in Clients |-> Closed]

Step(c, from, changed) ==
  /\ conn[c].pc = from
  /\ conn' = [conn EXCEPT ![c] = changed]

(* Threads that own a slot of the epoch table.                             *)
Holders == {c \in Clients : conn[c].slot}

(* The accept loop takes a connection that fits below maxclients, and      *)
(* starts its thread; the session and the buffers are new.                 *)
accept(c) ==
  /\ acceptor = "accept"
  /\ live < maxclients
  /\ live' = live + 1
  /\ \E x \in Streams[c] :
       Step(c, "closed", [Closed EXCEPT !.pc = "read", !.stream = x, !.cap = InitialRecv])
  /\ UNCHANGED acceptor

(* It has counted one connection too many, and takes it back before it     *)
(* answers that the limit is reached.                                      *)
refuse(c) ==
  /\ acceptor = "accept"
  /\ conn[c].pc = "closed"
  /\ live >= maxclients
  /\ live' = live + 1
  /\ acceptor' = "refuse"
  /\ UNCHANGED conn

refused ==
  /\ acceptor = "refuse"
  /\ live' = live - 1
  /\ acceptor' = "accept"
  /\ UNCHANGED conn

(* The receive buffer is full: double it, up to the limit.                 *)
grow(c) ==
  LET k == conn[c]
  IN  /\ k.rcv - k.base = k.cap
      /\ Step(c, "read", IF k.cap >= MaxRecv THEN [k EXCEPT !.pc = "drop", !.why = "large"]
                         ELSE [k EXCEPT !.cap = Min({k.cap * 2, MaxRecv})])
      /\ UNCHANGED <<live, acceptor>>

(* Some of the bytes the client has sent arrive.                           *)
recv(c) ==
  LET k == conn[c]
  IN  /\ k.rcv - k.base < k.cap
      /\ \E n \in 1 .. Min({k.cap - (k.rcv - k.base), Len(k.stream.bytes) - k.rcv}) :
           Step(c, "read", [k EXCEPT !.pc = "parse", !.rcv = @ + n, !.owed = 0])
      /\ UNCHANGED <<live, acceptor>>

(* The client closes, or the connection breaks while the server reads.     *)
recv_end(c) ==
  /\ conn[c].rcv - conn[c].base < conn[c].cap
  /\ Step(c, "read", [conn[c] EXCEPT !.pc = "drop", !.why = "eof"])
  /\ UNCHANGED <<live, acceptor>>

(* The result of parsing at the head of the buffer.                        *)
NextCommand(k) == parse_command(SubSeq(k.stream.bytes, k.base + 1, k.rcv), k.head - k.base + 1)

(* Mutant of dispatch: an empty command is skipped without moving on.      *)
dispatch_stays(c) ==
  LET k == conn[c]
  IN  /\ k.pc = "parse"
      /\ \E p \in {NextCommand(k)} :
           /\ p[1] = "ok"
           /\ Step(c, "parse", IF p[3] = <<>> THEN k
                               ELSE [k EXCEPT !.head = k.base + p[2] - 1,
                                              !.dispatched = Append(@, p[3]), !.owed = @ + 1, !.slot = TRUE,
                                              !.pc = IF p[3][1] = Quit THEN "flush" ELSE "parse",
                                              !.why = IF p[3][1] = Quit THEN "quit" ELSE None])
      /\ UNCHANGED <<live, acceptor>>

(* Dispatch the next complete command of the batch; QUIT ends it.  A       *)
(* command without arguments is consumed and not answered.                 *)
dispatch(c) ==
  LET k == conn[c]
  IN  /\ k.pc = "parse"
      /\ \E p \in {NextCommand(k)} :
           /\ p[1] = "ok"
           /\ Step(c, "parse", IF p[3] = <<>> THEN [k EXCEPT !.head = k.base + p[2] - 1]
                               ELSE [k EXCEPT !.head = k.base + p[2] - 1,
                                              !.dispatched = Append(@, p[3]), !.owed = @ + 1, !.slot = TRUE,
                                              !.pc = IF p[3][1] = Quit THEN "flush" ELSE "parse",
                                              !.why = IF p[3][1] = Quit THEN "quit" ELSE None])
      /\ UNCHANGED <<live, acceptor>>

(* The rest is incomplete, or malformed: an error is owed, then the end.   *)
batch_end(c) ==
  LET k == conn[c]
  IN  /\ k.pc = "parse"
      /\ \E p \in {NextCommand(k)} :
           /\ p[1] # "ok"
           /\ Step(c, "parse", IF p = Error THEN [k EXCEPT !.pc = "flush", !.why = "protocol", !.owed = @ + 1]
                               ELSE [k EXCEPT !.pc = "flush"])
      /\ UNCHANGED <<live, acceptor>>

(* Mutant of flush: replies wait until the buffer is used up.              *)
flush_lazy(c) ==
  LET k == conn[c]
      out == IF k.head = k.rcv THEN [k EXCEPT !.sent = @ + k.owed, !.owed = 0, !.base = k.head]
             ELSE [k EXCEPT !.base = k.head]
  IN  /\ Step(c, "flush", [out EXCEPT !.pc = IF k.why = None THEN "read" ELSE "drop"])
      /\ UNCHANGED <<live, acceptor>>

(* Mutant of flush: the unconsumed tail is lost.                           *)
flush_forgets(c) ==
  LET k == conn[c]
      out == [k EXCEPT !.sent = @ + k.owed, !.owed = 0, !.base = k.rcv, !.head = k.rcv]
  IN  /\ Step(c, "flush", [out EXCEPT !.pc = IF k.why = None THEN "read" ELSE "drop"])
      /\ UNCHANGED <<live, acceptor>>

(* One flush per batch; then the thread ends, or the unconsumed tail moves *)
(* to the front of the buffer.  Writing may fail; it takes as long as the  *)
(* client needs to read, which FairSpec does not bound.                    *)
flush(c) ==
  LET k == conn[c]
      out == [k EXCEPT !.sent = @ + k.owed, !.owed = 0, !.base = k.head]
  IN  /\ \/ Step(c, "flush", [out EXCEPT !.pc = IF k.why = None THEN "read" ELSE "drop"])
         \/ k.owed > 0 /\ Step(c, "flush", [k EXCEPT !.pc = "drop", !.why = "eof"])
      /\ UNCHANGED <<live, acceptor>>

(* Mutant of drop_session: the thread's slot is not given back.            *)
drop_session_keeps(c) ==
  /\ Step(c, "drop", [conn[c] EXCEPT !.pc = "ended"])
  /\ UNCHANGED <<live, acceptor>>

(* The thread ends: the session gives its epoch slot back ...              *)
drop_session(c) ==
  /\ Step(c, "drop", [conn[c] EXCEPT !.pc = "ended", !.slot = FALSE])
  /\ UNCHANGED <<live, acceptor>>

(* ... then ConnSlot is dropped.                                           *)
drop_conn_slot(c) ==
  /\ conn[c].pc = "ended"
  /\ live' = live - 1
  /\ conn' = [conn EXCEPT ![c] = [Closed EXCEPT !.slot = conn[c].slot]]
  /\ UNCHANGED acceptor

Thread(c) ==
  \/ grow(c) \/ dispatch(c) \/ batch_end(c) \/ flush(c) \/ drop_session(c) \/ drop_conn_slot(c)

Next ==
  \/ refused
  \/ \E c \in Clients : accept(c) \/ refuse(c) \/ recv(c) \/ recv_end(c) \/ Thread(c)

Spec == Init /\ [][Next]_vars

(* The thread is in write_all, which has no timeout: it may wait for ever  *)
(* for a client that does not read its replies.                            *)
Writing(c) == conn[c].pc = "flush" /\ conn[c].owed > 0

(* Threads run, but for the write.  Clients owe nothing: neither to send   *)
(* nor to read.                                                            *)
FairSpec ==
  Spec /\ WF_vars(refused) /\ \A c \in Clients : WF_vars(~Writing(c) /\ Thread(c))

-----------------------------------------------------------------------------
(* A stream with a command that fits no buffer.                            *)
TooLarge(x) == \E j \in DOMAIN x.ends : PartSize(x, j) > MaxRecv

(* However the stream is cut into chunks, through growth and compaction of *)
(* the buffer: the commands dispatched are the first ones the client sent; *)
(* when all its bytes have arrived and the thread waits for more, or ends  *)
(* by QUIT or by a protocol error, they are all of them; and a connection  *)
(* is only closed on malformed input, and only outgrows the buffer with a  *)
(* command larger than MAX_RECV, which the buffer never exceeds.           *)
Framing ==
  \A c \in Clients :
    LET k == conn[c]
    IN  k.pc # "closed" =>
          /\ IsPrefix(k.dispatched, k.stream.commands)
          /\ k.base <= k.head /\ k.head <= k.rcv /\ k.rcv - k.base <= k.cap /\ k.cap <= MaxRecv
          /\ k.why \in {"quit", "protocol"} \/ (k.pc = "read" /\ k.rcv = Len(k.stream.bytes) /\ ~TooLarge(k.stream))
               => k.dispatched = k.stream.commands
          /\ k.why = "protocol" => k.stream.bad
          /\ k.why = "large" => TooLarge(k.stream)
          /\ k.stream.bad /\ k.rcv = Len(k.stream.bytes) => k.pc # "read"

(* A thread that waits for its client has sent every reply it owes: a      *)
(* client that waits for replies before it sends more is not kept waiting. *)
RepliesFlushed ==
  \A c \in Clients : conn[c].pc = "read" => conn[c].sent = Len(conn[c].dispatched)

(* The counter of the accept loop is exact, so that the limit refuses and  *)
(* admits the right clients however threads end, and every thread that     *)
(* touches the store finds a slot of the epoch table: the slot is given    *)
(* back before the connection is uncounted.                                *)
SlotsSuffice ==
  /\ live = Cardinality({c \in Clients : conn[c].pc # "closed"}) + (IF acceptor = "refuse" THEN 1 ELSE 0)
  /\ Cardinality({c \in Clients : conn[c].pc # "closed"} \cup Holders) <= maxclients
  /\ Cardinality(Holders) <= MaxThreads

(* A batch ends, and so does a thread whose client has left: the thread    *)
(* comes back to its client or frees its connection.  The exception is a   *)
(* client that never reads a reply and never closes: the thread, and its   *)
(* place below maxclients, stay in the write (server.rs:146).              *)
BatchEnds ==
  \A c \in Clients : []<>(conn[c].pc \in {"read", "closed"}) \/ <>[]Writing(c)
=============================================================================
