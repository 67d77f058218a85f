---------------------------- MODULE Server_proofs ----------------------------
(***************************************************************************)
(* Proofs about Server, for any set of clients, any streams and any sizes  *)
(* of the buffer.  How connections are counted and how replies are batched *)
(* does not depend on the parser.  The framing of commands does: the       *)
(* parser finds in the buffer what it finds in each part of the stream by  *)
(* itself, however many bytes the buffer holds.                            *)
(***************************************************************************)
EXTENDS Server, FiniteSetTheorems, SequenceTheorems, WellFoundedInduction, TLAPS

Labels == {"closed", "read", "parse", "flush", "drop", "ended"}

Fields == {"pc", "stream", "rcv", "base", "head", "cap", "dispatched", "sent",
           "owed", "slot", "why"}

IsSeq(s) == \E S : s \in Seq(S)

\* A connection, as far as the theorems look into it.
Typed(k) ==
  /\ DOMAIN k = Fields
  /\ k.pc \in Labels
  /\ IsSeq(k.dispatched)
  /\ k.sent \in Nat /\ k.owed \in Nat
  /\ k.slot \in BOOLEAN

TypeOK ==
  /\ live \in Nat
  /\ acceptor \in {"accept", "refuse"}
  /\ conn = [c \in Clients |-> conn[c]]
  /\ \A c \in Clients : Typed(conn[c])

\* The replies of the batch in progress are owed, those before it are sent.
Owing(k) ==
  /\ k.pc \in {"read", "parse"} => k.why = None
  /\ k.pc = "read" => k.owed = 0
  /\ k.pc \in {"read", "parse", "flush"} /\ k.why \in {None, "quit"} =>
       k.sent + k.owed = Len(k.dispatched)

RepliesOwed == \A c \in Clients : Owing(conn[c])

\* A thread has a slot of the epoch table only while its session lives.
SlotInside ==
  \A c \in Clients : conn[c].slot => conn[c].pc \notin {"closed", "ended"}

Open == {c \in Clients : conn[c].pc # "closed"}

\* The counter of the accept loop, and the limit it enforces.
Counted ==
  /\ IsFiniteSet(Open)
  /\ live = Cardinality(Open) + (IF acceptor = "refuse" THEN 1 ELSE 0)
  /\ Cardinality(Open) <= maxclients

IInv == TypeOK /\ RepliesOwed /\ SlotInside /\ Counted

USE ClientsAssumption, MaxThreadsAssumption, NoneAssumption

-----------------------------------------------------------------------------
(* Sequences and records.                                                  *)

\* One more command is dispatched.
LEMMA AppendLen ==
  ASSUME NEW s, NEW x, IsSeq(s)
  PROVE  IsSeq(Append(s, x)) /\ Len(Append(s, x)) = Len(s) + 1 /\ Len(s) \in Nat
<1>1. PICK S : s \in Seq(S)
  BY DEF IsSeq
<1>2. s \in Seq(S \union {x})
  BY <1>1, SeqMonotonic
<1>3. /\ Append(s, x) \in Seq(S \union {x})
      /\ Len(Append(s, x)) = Len(s) + 1 /\ Len(s) \in Nat
  BY <1>2, AppendProperties, LenProperties
<1> QED
  BY <1>3 DEF IsSeq

LEMMA EmptyLen == IsSeq(<<>>) /\ Len(<<>>) = 0
  BY EmptySeq DEF IsSeq

\* What one step makes of the connection of one client.
LEMMA StepConn ==
  ASSUME TypeOK, NEW c \in Clients, NEW from, NEW k, Step(c, from, k)
  PROVE  /\ conn[c].pc = from /\ conn'[c] = k
         /\ \A d \in Clients \ {c} : conn'[d] = conn[d]
         /\ conn' = [d \in Clients |-> conn'[d]]
  BY DEF TypeOK, Step

-----------------------------------------------------------------------------

\* A step of client c or of the thread that serves it.
ConnStep(c) == accept(c) \/ recv(c) \/ recv_end(c) \/ Thread(c)

\* What is known of one connection.
Good(k) ==
  /\ Typed(k)
  /\ Owing(k)
  /\ k.slot => k.pc \notin {"closed", "ended"}

\* A step of c leaves the other connections alone, keeps its own good, opens
\* it in accept and closes it in drop_conn_slot.
LEMMA ConnKept ==
  ASSUME IInv, NEW c \in Clients, ConnStep(c)
  PROVE  /\ Good(conn'[c])
         /\ \A d \in Clients \ {c} : conn'[d] = conn[d]
         /\ conn' = [d \in Clients |-> conn'[d]]
         /\ conn[c].pc = "closed" <=> accept(c)
         /\ conn'[c].pc = "closed" <=> drop_conn_slot(c)
<1> USE DEF IInv
<1> DEFINE k == conn[c]
<1>k. Good(k)
  BY DEF TypeOK, RepliesOwed, SlotInside, Good
\* A step within an open connection.
<1>s. ASSUME NEW from \in {"read", "parse", "flush", "drop"}, NEW n,
             Step(c, from, n), Good(n), n.pc # "closed"
      PROVE  /\ Good(conn'[c]) /\ conn'[c].pc # "closed" /\ k.pc # "closed"
             /\ \A d \in Clients \ {c} : conn'[d] = conn[d]
             /\ conn' = [d \in Clients |-> conn'[d]]
             /\ ~accept(c) /\ ~drop_conn_slot(c)
  <2>1. /\ k.pc = from /\ conn'[c] = n
        /\ \A d \in Clients \ {c} : conn'[d] = conn[d]
        /\ conn' = [d \in Clients |-> conn'[d]]
    BY <1>s, StepConn
  <2>2. ~accept(c) /\ ~drop_conn_slot(c)
    BY <2>1 DEF accept, drop_conn_slot, Step
  <2> QED
    BY <1>s, <2>1, <2>2
<1>1. CASE accept(c)
  <2>1. PICK x \in Streams[c] :
          Step(c, "closed", [Closed EXCEPT !.pc = "read", !.stream = x,
                                           !.cap = InitialRecv])
    BY <1>1 DEF accept
  <2> DEFINE n == [Closed EXCEPT !.pc = "read", !.stream = x,
                                 !.cap = InitialRecv]
  <2>2. /\ k.pc = "closed" /\ conn'[c] = n
        /\ \A d \in Clients \ {c} : conn'[d] = conn[d]
        /\ conn' = [d \in Clients |-> conn'[d]]
    BY <2>1, StepConn
  <2>3. /\ n.pc = "read" /\ n.why = None /\ n.owed = 0 /\ n.sent = 0
        /\ n.dispatched = <<>> /\ n.slot = FALSE /\ DOMAIN n = Fields
    BY DEF Closed, Fields
  <2> HIDE DEF n
  <2>a. IsSeq(n.dispatched) /\ Len(n.dispatched) = 0
    BY <2>3, EmptyLen, Zenon
  <2>b. /\ n.pc = "read" /\ n.why = None /\ n.owed = 0 /\ n.sent = 0
        /\ n.slot = FALSE /\ DOMAIN n = Fields
    BY <2>3
  <2>c. n.slot \in BOOLEAN /\ n.pc \in Labels
    BY <2>b, Zenon DEF Labels
  <2>d. n.sent \in Nat /\ n.owed \in Nat
    BY <2>b
  <2>t. Typed(n)
    BY <2>a, <2>b, <2>c, <2>d, Zenon DEF Typed
  <2>4. Typed(n) /\ Owing(n)
    BY <2>a, <2>b, <2>t DEF Owing
  <2>5. ~drop_conn_slot(c)
    BY <2>2 DEF drop_conn_slot
  <2> QED
    BY <1>1, <2>2, <2>3, <2>4, <2>5 DEF Good
<1>2. CASE recv(c)
  <2>1. PICK i :
          Step(c, "read", [k EXCEPT !.pc = "parse", !.rcv = @ + i, !.owed = 0])
    BY <1>2 DEF recv
  <2>2. k.pc = "read"
    BY <2>1 DEF Step
  <2> DEFINE n == [k EXCEPT !.pc = "parse", !.rcv = @ + i, !.owed = 0]
  <2>f. /\ DOMAIN n = Fields /\ n.pc = "parse" /\ n.slot = k.slot
        /\ n.why = k.why
        /\ n.owed = 0 /\ n.sent = k.sent
        /\ n.dispatched = k.dispatched
    BY <1>k DEF Good, Typed, Fields
  <2> HIDE DEF n
  <2>g. Good(n) /\ n.pc # "closed"
    BY <1>k, <2>2, <2>f DEF Good, Typed, Owing, Labels
  <2> QED
    BY <1>2, <1>s, <2>1, <2>g DEF n
<1>3. CASE recv_end(c)
  <2> DEFINE n == [k EXCEPT !.pc = "drop", !.why = "eof"]
  <2>f. /\ DOMAIN n = Fields /\ n.pc = "drop" /\ n.slot = k.slot
        /\ n.why = "eof"
        /\ n.owed = k.owed /\ n.sent = k.sent
        /\ n.dispatched = k.dispatched
    BY <1>k DEF Good, Typed, Fields
  <2> HIDE DEF n
  <2>g. Good(n) /\ n.pc # "closed"
    BY <1>k, <2>f DEF Good, Typed, Owing, Labels
  <2>1. Step(c, "read", n)
    BY <1>3 DEF recv_end, n
  <2> QED
    BY <1>3, <1>s, <2>1, <2>g
<1>4. CASE grow(c)
  <2>1. CASE k.cap >= MaxRecv
    <3> DEFINE n == [k EXCEPT !.pc = "drop", !.why = "large"]
    <3>f. /\ DOMAIN n = Fields /\ n.pc = "drop" /\ n.slot = k.slot
          /\ n.why = "large"
          /\ n.owed = k.owed /\ n.sent = k.sent
          /\ n.dispatched = k.dispatched
      BY <1>k DEF Good, Typed, Fields
    <3> HIDE DEF n
    <3>g. Good(n) /\ n.pc # "closed"
      BY <1>k, <3>f DEF Good, Typed, Owing, Labels
    <3>1. Step(c, "read", n)
      BY <1>4, <2>1 DEF grow, n
    <3> QED
      BY <1>4, <1>s, <3>1, <3>g
  <2>2. CASE ~(k.cap >= MaxRecv)
    <3>1. k.pc = "read"
      BY <1>4 DEF grow, Step
    <3> DEFINE n == [k EXCEPT !.cap = Min({k.cap * 2, MaxRecv})]
    <3>f. /\ DOMAIN n = Fields /\ n.pc = k.pc /\ n.slot = k.slot
          /\ n.why = k.why
          /\ n.owed = k.owed /\ n.sent = k.sent
          /\ n.dispatched = k.dispatched
      BY <1>k DEF Good, Typed, Fields
    <3> HIDE DEF n
    <3>g. Good(n) /\ n.pc # "closed"
      BY <1>k, <3>1, <3>f DEF Good, Typed, Owing, Labels
    <3>2. Step(c, "read", n)
      BY <1>4, <2>2 DEF grow, n
    <3> QED
      BY <1>4, <1>s, <3>2, <3>g
  <2> QED
    BY <2>1, <2>2
<1>5. CASE dispatch(c)
  <2> DEFINE p == NextCommand(k)
             cmd == p[3]
  <2>1. k.pc = "parse"
    BY <1>5 DEF dispatch
  <2>2. CASE cmd = <<>>
    <3> DEFINE n == [k EXCEPT !.head = k.base + p[2] - 1]
    <3>f. /\ DOMAIN n = Fields /\ n.pc = k.pc /\ n.slot = k.slot
          /\ n.why = k.why
          /\ n.owed = k.owed /\ n.sent = k.sent
          /\ n.dispatched = k.dispatched
      BY <1>k DEF Good, Typed, Fields
    <3> HIDE DEF n
    <3>g. Good(n) /\ n.pc # "closed"
      BY <1>k, <2>1, <3>f DEF Good, Typed, Owing, Labels
    <3>1. Step(c, "parse", n)
      BY <1>5, <2>2 DEF dispatch, n
    <3> QED
      BY <1>5, <1>s, <3>1, <3>g
  <2>3. CASE cmd # <<>>
    <3> DEFINE l == IF cmd[1] = Quit THEN "flush" ELSE "parse"
               w == IF cmd[1] = Quit THEN "quit" ELSE None
    <3> DEFINE n == [k EXCEPT !.head = k.base + p[2] - 1,
                     !.dispatched = Append(@, cmd), !.owed = @ + 1,
                     !.slot = TRUE, !.pc = l, !.why = w]
    <3>f. /\ DOMAIN n = Fields /\ n.pc = l /\ n.slot = TRUE
          /\ n.why = w
          /\ n.owed = k.owed + 1 /\ n.sent = k.sent
          /\ n.dispatched = Append(k.dispatched, cmd)
      BY <1>k DEF Good, Typed, Fields
    <3> HIDE DEF n
    <3>1. Step(c, "parse", n)
      BY <1>5, <2>3 DEF dispatch, n
    <3>2. IsSeq(n.dispatched) /\ Len(n.dispatched) = Len(k.dispatched) + 1
      BY <1>k, <3>f, AppendLen DEF Good, Typed
    <3>3. /\ k.sent + k.owed = Len(k.dispatched)
          /\ k.sent \in Nat /\ k.owed \in Nat /\ k.why = None
      BY <1>k, <2>1 DEF Good, Typed, Owing
    <3>4. \/ n.pc = "flush" /\ n.why = "quit"
          \/ n.pc = "parse" /\ n.why = None
      BY <3>f
    <3>5. n.sent + n.owed = Len(n.dispatched) /\ n.owed \in Nat
      <4>1. n.sent = k.sent /\ n.owed = k.owed + 1
        BY <3>f, Zenon
      <4>2. Len(n.dispatched) = Len(k.dispatched) + 1
        BY <3>2
      <4>3. k.sent + k.owed = Len(k.dispatched) /\ k.sent \in Nat /\ k.owed \in Nat
        BY <3>3
      <4> HIDE DEF k
      <4> QED
        BY <4>1, <4>2, <4>3
    <3>6. Owing(n)
      BY <3>4, <3>5 DEF Owing
    <3>g. Good(n) /\ n.pc # "closed"
      BY <3>f, <3>2, <3>3, <3>4, <3>5, <3>6 DEF Good, Typed, Labels
    <3> QED
      BY <1>5, <1>s, <3>1, <3>g
  <2> QED
    BY <2>2, <2>3
<1>6. CASE batch_end(c)
  <2>1. k.pc = "parse"
    BY <1>6 DEF batch_end
  <2>2. CASE NextCommand(k) = Error
    <3> DEFINE n == [k EXCEPT !.pc = "flush", !.why = "protocol", !.owed = @ + 1]
    <3>f. /\ DOMAIN n = Fields /\ n.pc = "flush" /\ n.slot = k.slot
          /\ n.why = "protocol"
          /\ n.owed = k.owed + 1 /\ n.sent = k.sent
          /\ n.dispatched = k.dispatched
      BY <1>k DEF Good, Typed, Fields
    <3> HIDE DEF n
    <3>g. Good(n) /\ n.pc # "closed"
      BY <1>k, <2>1, <3>f DEF Good, Typed, Owing, Labels
    <3>1. Step(c, "parse", n)
      BY <1>6, <2>2 DEF batch_end, n
    <3> QED
      BY <1>6, <1>s, <3>1, <3>g
  <2>3. CASE NextCommand(k) # Error
    <3> DEFINE n == [k EXCEPT !.pc = "flush"]
    <3>f. /\ DOMAIN n = Fields /\ n.pc = "flush" /\ n.slot = k.slot
          /\ n.why = k.why
          /\ n.owed = k.owed /\ n.sent = k.sent
          /\ n.dispatched = k.dispatched
      BY <1>k DEF Good, Typed, Fields
    <3> HIDE DEF n
    <3>g. Good(n) /\ n.pc # "closed"
      BY <1>k, <2>1, <3>f DEF Good, Typed, Owing, Labels
    <3>1. Step(c, "parse", n)
      BY <1>6, <2>3 DEF batch_end, n
    <3> QED
      BY <1>6, <1>s, <3>1, <3>g
  <2> QED
    BY <2>2, <2>3
<1>7. CASE flush(c)
  <2>1. k.pc = "flush"
    BY <1>7 DEF flush, Step
  <2> DEFINE out == [k EXCEPT !.sent = @ + k.owed, !.owed = 0, !.base = k.head]
             sent == [out EXCEPT !.pc = IF k.why = None THEN "read" ELSE "drop"]
  <2>2. CASE Step(c, "flush", sent)
    <3> DEFINE l == IF k.why = None THEN "read" ELSE "drop"
    <3> DEFINE n == sent
    <3>f. /\ DOMAIN n = Fields /\ n.pc = l /\ n.slot = k.slot
          /\ n.why = k.why
          /\ n.owed = 0 /\ n.sent = k.sent + k.owed
          /\ n.dispatched = k.dispatched
      BY <1>k DEF Good, Typed, Fields
    <3> HIDE DEF n
    <3>g. Good(n) /\ n.pc # "closed"
      BY <1>k, <2>1, <3>f DEF Good, Typed, Owing, Labels
    <3>1. Step(c, "flush", n)
      BY <2>2 DEF n
    <3> QED
      BY <1>7, <1>s, <3>1, <3>g
  <2>3. CASE Step(c, "flush", [k EXCEPT !.pc = "drop", !.why = "eof"])
    <3> DEFINE n == [k EXCEPT !.pc = "drop", !.why = "eof"]
    <3>f. /\ DOMAIN n = Fields /\ n.pc = "drop" /\ n.slot = k.slot
          /\ n.why = "eof"
          /\ n.owed = k.owed /\ n.sent = k.sent
          /\ n.dispatched = k.dispatched
      BY <1>k DEF Good, Typed, Fields
    <3> HIDE DEF n
    <3>g. Good(n) /\ n.pc # "closed"
      BY <1>k, <2>1, <3>f DEF Good, Typed, Owing, Labels
    <3>1. Step(c, "flush", n)
      BY <2>3 DEF n
    <3> QED
      BY <1>7, <1>s, <3>1, <3>g
  <2> QED
    BY <1>7, <2>2, <2>3 DEF flush
<1>8. CASE drop_session(c)
  <2> DEFINE n == [k EXCEPT !.pc = "ended", !.slot = FALSE]
  <2>f. /\ DOMAIN n = Fields /\ n.pc = "ended" /\ n.slot = FALSE
        /\ n.why = k.why
        /\ n.owed = k.owed /\ n.sent = k.sent
        /\ n.dispatched = k.dispatched
    BY <1>k DEF Good, Typed, Fields
  <2> HIDE DEF n
  <2>g. Good(n) /\ n.pc # "closed"
    BY <1>k, <2>f DEF Good, Typed, Owing, Labels
  <2>1. Step(c, "drop", n)
    BY <1>8 DEF drop_session, n
  <2> QED
    BY <1>8, <1>s, <2>1, <2>g
<1>9. CASE drop_conn_slot(c)
  <2> DEFINE n == [Closed EXCEPT !.slot = k.slot]
  <2>1. /\ k.pc = "ended" /\ k.slot = FALSE
    BY <1>9, <1>k DEF drop_conn_slot, Good, Typed
  <2>2. /\ n.pc = "closed" /\ n.sent = 0 /\ n.owed = 0 /\ n.slot = k.slot
        /\ n.dispatched = <<>> /\ DOMAIN n = Fields
    BY DEF Closed, Fields
  <2>3. /\ conn'[c] = n
        /\ \A d \in Clients \ {c} : conn'[d] = conn[d]
        /\ conn' = [d \in Clients |-> conn'[d]]
    BY <1>9 DEF TypeOK, drop_conn_slot
  <2> HIDE DEF n
  <2>a. IsSeq(n.dispatched)
    BY <2>2, EmptyLen, Zenon
  <2>b. /\ n.pc = "closed" /\ n.sent = 0 /\ n.owed = 0 /\ n.slot = FALSE
        /\ DOMAIN n = Fields
    BY <2>1, <2>2
  <2>c. n.slot \in BOOLEAN /\ n.pc \in Labels
    BY <2>b, Zenon DEF Labels
  <2>d. n.sent \in Nat /\ n.owed \in Nat
    BY <2>b
  <2>t. Typed(n)
    BY <2>a, <2>b, <2>c, <2>d, Zenon DEF Typed
  <2>4. Good(n)
    BY <2>b, <2>t DEF Good, Owing
  <2>5. ~accept(c)
    BY <2>1 DEF accept, Step
  <2> QED
    BY <1>9, <2>1, <2>2, <2>3, <2>4, <2>5
<1> QED
  BY <1>1, <1>2, <1>3, <1>4, <1>5, <1>6, <1>7, <1>8, <1>9 DEF ConnStep, Thread

\* The counter of the accept loop follows the connections, and the limit holds.
LEMMA CountedStep == ASSUME IInv, Next PROVE Counted' /\ live' \in Nat
<1> USE DEF IInv
<1>n. Cardinality(Open) \in Nat
  BY FS_CardinalityType DEF Counted
<1>1. CASE refused
  <2>1. Open' = Open
    BY <1>1 DEF Open, refused
  <2> QED
    BY <1>1, <1>n, <2>1 DEF Counted, refused
<1>2. ASSUME NEW c \in Clients, refuse(c) PROVE Counted' /\ live' \in Nat
  <2>1. Open' = Open
    BY <1>2 DEF Open, refuse
  <2> QED
    BY <1>2, <1>n, <2>1 DEF Counted, refuse
<1>3. ASSUME NEW c \in Clients, ConnStep(c) PROVE Counted' /\ live' \in Nat
  <2>1. /\ \A d \in Clients \ {c} : conn'[d] = conn[d]
        /\ conn[c].pc = "closed" <=> accept(c)
        /\ conn'[c].pc = "closed" <=> drop_conn_slot(c)
    BY <1>3, ConnKept
  <2>2. CASE accept(c)
    <3>1. ~drop_conn_slot(c)
      BY <2>1, <2>2 DEF drop_conn_slot
    <3>2. c \notin Open /\ Open' = Open \union {c}
      BY <2>1, <2>2, <3>1 DEF Open
    <3>3. /\ IsFiniteSet(Open')
          /\ Cardinality(Open') = Cardinality(Open) + 1
      BY <3>2, FS_AddElement DEF Counted
    <3>4. acceptor' = acceptor /\ acceptor = "accept" /\ live < maxclients
          /\ live' = live + 1
      BY <2>2 DEF accept
    <3> QED
      BY <1>n, <3>3, <3>4 DEF Counted
  <2>3. CASE drop_conn_slot(c)
    <3>1. ~accept(c)
      BY <2>1, <2>3 DEF drop_conn_slot
    <3>2. c \in Open /\ Open' = Open \ {c}
      BY <2>1, <2>3, <3>1 DEF Open
    <3>3. /\ IsFiniteSet(Open')
          /\ Cardinality(Open') = Cardinality(Open) - 1
          /\ Cardinality(Open') \in Nat
      BY <3>2, FS_RemoveElement, FS_CardinalityType DEF Counted
    <3>4. acceptor' = acceptor /\ live' = live - 1
      BY <2>3 DEF drop_conn_slot
    <3> QED
      BY <1>n, <3>3, <3>4 DEF Counted
  <2>4. CASE ~accept(c) /\ ~drop_conn_slot(c)
    <3>1. Open' = Open
      BY <2>1, <2>4 DEF Open
    <3>2. UNCHANGED <<live, acceptor>>
      BY <1>3, <2>4 DEF ConnStep, Thread, grow, recv, recv_end, dispatch,
           batch_end, flush, drop_session
    <3> QED
      BY <3>1, <3>2 DEF Counted, TypeOK
  <2> QED
    BY <2>2, <2>3, <2>4
<1> QED
  BY <1>1, <1>2, <1>3 DEF Next, ConnStep

LEMMA InitIInv == Init => IInv
<1> SUFFICES ASSUME Init PROVE IInv
  OBVIOUS
<1>1. \A c \in Clients :
        /\ DOMAIN conn[c] = Fields /\ conn[c].pc = "closed"
        /\ conn[c].dispatched = <<>>
        /\ conn[c].sent = 0 /\ conn[c].owed = 0 /\ conn[c].slot = FALSE
  BY DEF Init, Closed, Fields
<1>2. \A c \in Clients : IsSeq(conn[c].dispatched)
  BY <1>1, EmptyLen, Zenon
<1>3. TypeOK
  <2>1. conn = [c \in Clients |-> conn[c]]
    BY DEF Init
  <2>2. \A c \in Clients : Typed(conn[c])
    <3> SUFFICES ASSUME NEW c \in Clients PROVE Typed(conn[c])
      OBVIOUS
    <3>1. /\ DOMAIN conn[c] = Fields /\ conn[c].pc = "closed"
          /\ conn[c].sent = 0 /\ conn[c].owed = 0 /\ conn[c].slot = FALSE
      BY <1>1
    <3>2. IsSeq(conn[c].dispatched)
      BY <1>2
    <3>3. conn[c].slot \in BOOLEAN /\ conn[c].pc \in Labels
      BY <3>1, Zenon DEF Labels
    <3>4. conn[c].sent \in Nat /\ conn[c].owed \in Nat
      BY <3>1
    <3> QED
      BY <3>1, <3>2, <3>3, <3>4, Zenon DEF Typed
  <2> QED
    BY <2>1, <2>2 DEF Init, TypeOK
<1>4. RepliesOwed /\ SlotInside
  BY <1>1 DEF RepliesOwed, Owing, SlotInside
<1>5. Open = {}
  BY <1>1 DEF Open
<1>6. Counted
  BY <1>5, FS_EmptySet DEF Init, Counted
<1> QED
  BY <1>3, <1>4, <1>6 DEF IInv

LEMMA NextIInv == IInv /\ [Next]_vars => IInv'
<1> SUFFICES ASSUME IInv, [Next]_vars PROVE IInv'
  OBVIOUS
<1>1. CASE Next
  <2>1. Counted' /\ live' \in Nat
    BY <1>1, CountedStep
  <2>2. acceptor' \in {"accept", "refuse"}
    BY <1>1 DEF IInv, TypeOK, Next, Thread, accept, refuse, refused, recv,
         recv_end, grow, dispatch, batch_end, flush, drop_session,
         drop_conn_slot
  <2>3. CASE UNCHANGED conn
    BY <2>1, <2>2, <2>3 DEF IInv, TypeOK, RepliesOwed, SlotInside
  <2>4. ASSUME NEW c \in Clients, ConnStep(c) PROVE IInv'
    <3>1. /\ Good(conn'[c])
          /\ \A d \in Clients \ {c} : conn'[d] = conn[d]
          /\ conn' = [d \in Clients |-> conn'[d]]
      BY <2>4, ConnKept
    <3>2. \A d \in Clients : Good(conn[d])
      BY DEF IInv, TypeOK, RepliesOwed, SlotInside, Good
    <3>3. \A d \in Clients : Good(conn'[d])
      BY <3>1, <3>2
    <3> QED
      BY <2>1, <2>2, <3>1, <3>3 DEF IInv, TypeOK, RepliesOwed, SlotInside, Good
  <2> QED
    BY <1>1, <2>3, <2>4 DEF Next, ConnStep, refuse, refused
<1>2. CASE UNCHANGED vars
  BY <1>2 DEF vars, IInv, TypeOK, RepliesOwed, SlotInside, Counted, Open
<1> QED
  BY <1>1, <1>2

\* The counter is exact whatever the order in which threads end and clients
\* are refused, and every thread that serves a client finds a free slot of
\* the epoch table.
THEOREM SlotsSufficeHolds == Spec => []SlotsSuffice
<1>1. IInv => SlotsSuffice
  <2> SUFFICES ASSUME IInv PROVE SlotsSuffice
    OBVIOUS
  <2>1. Holders \in SUBSET Open /\ Open \union Holders = Open
    BY DEF IInv, SlotInside, Holders, Open
  <2>2. /\ Cardinality(Open) \in Nat /\ Cardinality(Holders) \in Nat
        /\ Cardinality(Holders) <= Cardinality(Open)
    BY <2>1, FS_Subset, FS_CardinalityType DEF IInv, Counted
  <2>3. Cardinality(Holders) <= MaxThreads
    BY <2>2 DEF IInv, Counted
  <2> QED
    BY <2>1, <2>3 DEF IInv, Counted, SlotsSuffice, Open
<1> QED
  BY InitIInv, NextIInv, <1>1, PTL DEF Spec

\* A connection thread that waits for its client has answered every command it
\* has dispatched, whatever the batches the bytes arrived in.
THEOREM RepliesFlushedHolds == Spec => []RepliesFlushed
<1>1. IInv => RepliesFlushed
  <2> SUFFICES ASSUME IInv, NEW c \in Clients, conn[c].pc = "read"
               PROVE  conn[c].sent = Len(conn[c].dispatched)
    BY DEF RepliesFlushed
  <2>1. Owing(conn[c]) /\ Typed(conn[c])
    BY DEF IInv, TypeOK, RepliesOwed
  <2> QED
    BY <2>1 DEF Owing, Typed
<1> QED
  BY InitIInv, NextIInv, <1>1, PTL DEF Spec

-----------------------------------------------------------------------------
(* Numbers.                                                                *)

LEMMA LeastElement ==
  ASSUME NEW T \in SUBSET Nat, T # {}
  PROVE  \E x \in T : \A y \in T : x <= y
<1> DEFINE R == OpToRel(<, Nat)
<1>1. IsWellFoundedOn(R, Nat)
  BY NatLessThanWellFounded, Zenon
<1>2. PICK x \in T : \A y \in T : ~(<<y, x>> \in R)
  <2> HIDE DEF R
  <2> QED BY <1>1, WFMin
<1>3. ASSUME NEW y \in T PROVE x <= y
  <2>1. x \in Nat /\ y \in Nat
    OBVIOUS
  <2>2. y < x => <<y, x>> \in R
    BY <2>1 DEF OpToRel
  <2>3. ~(y < x)
    BY <1>2, <2>2
  <2> QED BY <2>1, <2>3
<1> QED BY <1>2, <1>3

LEMMA NatSetInduction ==
  ASSUME NEW S \in SUBSET Nat, 0 \in S, \A n \in S : n + 1 \in S
  PROVE  S = Nat
<1> SUFFICES ASSUME Nat \ S # {} PROVE FALSE
  OBVIOUS
<1>1. PICK x \in Nat \ S : \A y \in Nat \ S : x <= y
  BY LeastElement
<1>2. x \in Nat /\ x # 0 /\ x - 1 \in Nat /\ ~(x <= x - 1)
  BY <1>1
<1>3. x - 1 \in S
  BY <1>1, <1>2
<1>4. (x - 1) + 1 = x
  BY <1>2
<1> QED BY <1>1, <1>3, <1>4

LEMMA MinIs ==
  ASSUME NEW T \in SUBSET Nat, NEW x \in T, \A y \in T : x <= y
  PROVE  Min(T) = x
<1>1. \A z \in T : (\A y \in T : z <= y) => z = x
  <2> SUFFICES ASSUME NEW z \in T, \A y \in T : z <= y PROVE z = x
    OBVIOUS
  <2>1. z <= x /\ x <= z /\ z \in Nat /\ x \in Nat
    OBVIOUS
  <2> QED BY <2>1
<1> QED BY <1>1 DEF Min

LEMMA MinTwo ==
  ASSUME NEW a \in Int, NEW b \in Int
  PROVE  Min({a, b}) = IF a <= b THEN a ELSE b
<1>1. \E x \in {a, b} : \A y \in {a, b} : x <= y
  OBVIOUS
<1>2. \A x \in {a, b} : (\A y \in {a, b} : x <= y) => x = IF a <= b THEN a ELSE b
  OBVIOUS
<1> QED BY <1>1, <1>2 DEF Min

-----------------------------------------------------------------------------
(* The parser on a part of what the client sends.                          *)

\* The bytes of u stand in w behind the first d.
Within(u, w, d) ==
  /\ u \in Seq(Nat) /\ w \in Seq(Nat) /\ d \in Nat
  /\ Len(u) + d <= Len(w)
  /\ \A i \in 1 .. Len(u) : w[i + d] = u[i]

\* A result, with the positions of w for those of u.
Moved(p, d) == IF p[1] = "ok" THEN Parsed(p[2] + d, p[3]) ELSE p

LEMMA Kinds ==
  /\ More[1] = "more" /\ Error[1] = "error" /\ More # Error
  /\ \A n, a : Parsed(n, a)[1] = "ok" /\ Parsed(n, a)[2] = n /\ Parsed(n, a)[3] = a
  /\ \A n, a : Parsed(n, a) # More /\ Parsed(n, a) # Error
<1>1. More[1] = "more" /\ Error[1] = "error" /\ "more" # "error"
  BY DEF More, Error
<1>2. \A n, a : Parsed(n, a)[1] = "ok" /\ Parsed(n, a)[2] = n /\ Parsed(n, a)[3] = a
  BY DEF Parsed
<1> QED BY <1>1, <1>2

LEMMA MovedIs ==
  ASSUME NEW d
  PROVE  /\ Moved(Error, d) = Error
         /\ \A n, a : Moved(Parsed(n, a), d) = Parsed(n + d, a)
BY Kinds DEF Moved

LEMMA SubMoved ==
  ASSUME NEW u, NEW w, NEW d, Within(u, w, d), NEW a \in Nat \ {0}, NEW b \in Int, b <= Len(u)
  PROVE  SubSeq(w, a + d, b + d) = SubSeq(u, a, b) /\ SubSeq(u, a, b) \in Seq(Nat)
<1>1. PICK f, g, x, y : f = SubSeq(u, a, b) /\ g = SubSeq(w, x, y) /\ x = a + d /\ y = b + d
  OBVIOUS
<1>2. d \in Nat /\ Len(u) \in Nat /\ Len(w) \in Nat /\ Len(u) + d <= Len(w)
  BY DEF Within
<1>3. x \in Int /\ y \in Int /\ a \in Int /\ y - x + 1 = b - a + 1 /\ (x <= y <=> a <= b)
  BY <1>1, <1>2
<1>4. \A i \in a .. b : u[i] \in Nat
  BY <1>2 DEF Within
<1>5. \A i \in x .. y : w[i] \in Nat
  <2>1. 1 <= x /\ y <= Len(w)
    BY <1>1, <1>2
  <2>2. \A i \in 1 .. Len(w) : w[i] \in Nat
    BY DEF Within
  <2> QED BY <1>2, <1>3, <2>1, <2>2
<1>6. /\ f \in Seq(Nat) /\ Len(f) = (IF a <= b THEN b - a + 1 ELSE 0)
      /\ \A i \in 1 .. b - a + 1 : f[i] = u[a + i - 1]
  BY <1>1, <1>3, <1>4, SubSeqProperties
<1>7. /\ g \in Seq(Nat) /\ Len(g) = (IF x <= y THEN y - x + 1 ELSE 0)
      /\ \A i \in 1 .. y - x + 1 : g[i] = w[x + i - 1]
  BY <1>1, <1>3, <1>5, SubSeqProperties
<1>8. ASSUME NEW i \in 1 .. Len(f) PROVE g[i] = f[i]
  <2>1. i \in 1 .. b - a + 1
    BY <1>3, <1>6
  <2>2. a + i - 1 \in 1 .. Len(u) /\ (a + i - 1) + d = x + i - 1
    BY <1>1, <1>2, <2>1
  <2>3. w[(a + i - 1) + d] = u[a + i - 1]
    BY <2>2 DEF Within
  <2>4. g[i] = w[x + i - 1] /\ f[i] = u[a + i - 1]
    BY <1>3, <1>6, <1>7, <2>1
  <2> QED BY <2>2, <2>3, <2>4
<1>9. Len(g) = Len(f)
  BY <1>3, <1>6, <1>7
<1> QED BY <1>1, <1>6, <1>7, <1>8, <1>9, SeqEqual

LEMMA CrlfMoved ==
  ASSUME NEW u, NEW w, NEW d, Within(u, w, d), NEW pos \in Nat \ {0},
         NEW j, j = find_crlf(u, pos), j # None
  PROVE  j \in Nat /\ pos <= j /\ j < Len(u) /\ find_crlf(w, pos + d) = j + d
<1> DEFINE E == {i \in pos .. Len(u) - 1 : u[i] = CR /\ u[i + 1] = LF}
           F == {i \in pos + d .. Len(w) - 1 : w[i] = CR /\ w[i + 1] = LF}
<1>0. d \in Nat /\ Len(u) \in Nat /\ Len(w) \in Nat /\ Len(u) + d <= Len(w)
  BY DEF Within
<1>1. E # {} /\ j = Min(E)
  BY DEF find_crlf
<1>2. E \in SUBSET Nat /\ F \in SUBSET Nat
  BY <1>0
<1>3. PICK e \in E : \A y \in E : e <= y
  <2> HIDE DEF E
  <2> QED BY <1>1, <1>2, LeastElement
<1>4. j = e
  <2> HIDE DEF E
  <2> QED BY <1>1, <1>2, <1>3, MinIs
<1>5. /\ j \in Nat /\ pos <= j /\ j < Len(u) /\ j \in 1 .. Len(u) /\ j + 1 \in 1 .. Len(u)
      /\ u[j] = CR /\ u[j + 1] = LF
  BY <1>0, <1>4
<1>6. j + d \in F
  <2>0. w[j + d] = u[j] /\ w[(j + 1) + d] = u[j + 1]
    BY <1>5 DEF Within
  <2>1. w[j + d] = CR /\ w[(j + d) + 1] = LF
    <3>1. (j + 1) + d = (j + d) + 1
      BY <1>0, <1>5
    <3> QED BY <1>5, <2>0, <3>1
  <2>2. j + d \in pos + d .. Len(w) - 1
    BY <1>0, <1>5
  <2> QED BY <2>1, <2>2
<1>7. ASSUME NEW y \in F, y < j + d PROVE FALSE
  <2>1. PICK i : i = y - d
    OBVIOUS
  <2>2. /\ i \in Nat /\ pos <= i /\ i < j /\ i \in 1 .. Len(u) /\ i + 1 \in 1 .. Len(u)
        /\ i + d = y /\ (i + 1) + d = y + 1
    <3>1. y \in Int /\ pos + d <= y
      BY <1>0, <1>2
    <3>2. y < j + d
      BY <1>7
    <3> HIDE DEF E, F
    <3>3. i \in Int /\ i + d = y /\ (i + 1) + d = y + 1
      BY <1>0, <2>1, <3>1
    <3>4. pos <= i /\ i < j
      BY <1>0, <1>5, <3>1, <3>2, <3>3
    <3> QED BY <1>0, <1>5, <3>3, <3>4
  <2>3. w[i + d] = u[i] /\ w[(i + 1) + d] = u[i + 1]
    BY <2>2 DEF Within
  <2>4. w[y] = CR /\ w[y + 1] = LF
    BY <1>7
  <2>5. u[i] = CR /\ u[i + 1] = LF
    BY <2>2, <2>3, <2>4
  <2>6. i \in E
    BY <1>0, <1>5, <2>2, <2>5
  <2> QED BY <1>3, <1>4, <2>2, <2>6
<1>8. \A y \in F : j + d <= y
  <2> TAKE y \in F
  <2>1. y \in Nat /\ ~(y < j + d)
    BY <1>2, <1>7
  <2> QED BY <1>0, <1>5, <2>1
<1>9. Min(F) = j + d
  <2> HIDE DEF F
  <2> QED BY <1>2, <1>6, <1>8, MinIs
<1>10. find_crlf(w, pos + d) = IF F = {} THEN None ELSE Min(F)
  BY DEF find_crlf
<1> HIDE DEF E, F
<1> QED BY <1>5, <1>6, <1>9, <1>10

LEMMA IntType ==
  ASSUME NEW s
  PROVE  parse_int(s) = None \/ parse_int(s) \in Int
<1>1. parse_int(s) = None \/ \E a \in 0 .. IntMax : parse_int(s) = a \/ parse_int(s) = -a
  BY Zenon DEF parse_int
<1> QED BY <1>1

-----------------------------------------------------------------------------
(* Commands.                                                               *)

\* BulkString with its parts named.
BulkOf(buf, cur, cr, len, end) ==
  IF cur > Len(buf) THEN More
  ELSE IF buf[cur] # Dollar THEN Error
  ELSE IF cr = None THEN More
  ELSE IF len = None \/ len < 0 THEN Error
  ELSE IF end + 1 > Len(buf) THEN More
  ELSE IF buf[end] # CR \/ buf[end + 1] # LF THEN Error
  ELSE Parsed(end + 2, <<SubSeq(buf, cr + 2, end - 1)>>)

LEMMA BulkIs ==
  ASSUME NEW buf, NEW cur, NEW cr, cr = find_crlf(buf, cur + 1),
         NEW len, len = parse_int(SubSeq(buf, cur + 1, cr - 1)), NEW end, end = cr + 2 + len
  PROVE  BulkString(buf, cur) = BulkOf(buf, cur, cr, len, end)
BY DEF BulkString, BulkOf

\* A bulk string that begins at cur and ends inside of u.
IsBulk(p, u, cur) ==
  \E next \in Nat, a \in Seq(Nat) : p = Parsed(next, <<a>>) /\ cur < next /\ next <= Len(u) + 1

LEMMA BulkMoved ==
  ASSUME NEW u, NEW w, NEW d, Within(u, w, d), NEW cur \in Nat \ {0},
         NEW p, p = BulkString(u, cur), p # More
  PROVE  BulkString(w, cur + d) = Moved(p, d) /\ (p = Error \/ IsBulk(p, u, cur))
<1>0. d \in Nat /\ Len(u) \in Nat /\ Len(w) \in Nat /\ Len(u) + d <= Len(w)
  BY DEF Within
<1>1. PICK c1, n1, e1 : /\ c1 = find_crlf(u, cur + 1)
                        /\ n1 = parse_int(SubSeq(u, cur + 1, c1 - 1)) /\ e1 = c1 + 2 + n1
  OBVIOUS
<1>2. PICK at, c2, n2, e2 : /\ at = cur + d /\ c2 = find_crlf(w, at + 1)
                            /\ n2 = parse_int(SubSeq(w, at + 1, c2 - 1)) /\ e2 = c2 + 2 + n2
  OBVIOUS
<1>3. p = BulkOf(u, cur, c1, n1, e1) /\ BulkString(w, at) = BulkOf(w, at, c2, n2, e2)
  BY <1>1, <1>2, BulkIs
<1> USE DEF BulkOf
<1>5. ~(cur > Len(u))
  BY <1>3
<1>6. ~(at > Len(w)) /\ w[at] = u[cur]
  <2>1. cur \in 1 .. Len(u) /\ ~(at > Len(w))
    BY <1>0, <1>2, <1>5
  <2> QED BY <1>2, <2>1 DEF Within
<1>7. CASE u[cur] # Dollar
  <2>1. p = Error /\ BulkString(w, at) = Error
    BY <1>3, <1>5, <1>6, <1>7
  <2> QED BY <1>2, <2>1, MovedIs
<1>8. CASE u[cur] = Dollar
  <2>1. c1 # None
    BY <1>3, <1>5, <1>8
  <2>2. c1 \in Nat /\ cur + 1 <= c1 /\ c1 < Len(u) /\ find_crlf(w, (cur + 1) + d) = c1 + d
    <3>1. cur + 1 \in Nat \ {0}
      OBVIOUS
    <3> QED BY <1>1, <2>1, <3>1, CrlfMoved
  <2>3. c2 = c1 + d /\ c2 # None
    <3>1. (cur + 1) + d = at + 1
      BY <1>0, <1>2
    <3>2. c2 = c1 + d
      BY <1>2, <2>2, <3>1
    <3>3. c2 \in Int
      BY <1>0, <2>2, <3>2
    <3> QED BY <3>2, <3>3
  <2>4. n2 = n1
    <3>0. PICK x, y : x = cur + 1 /\ y = c1 - 1
      OBVIOUS
    <3>1. x \in Nat \ {0} /\ y \in Int /\ y <= Len(u)
      BY <1>0, <2>2, <3>0
    <3>2. SubSeq(w, x + d, y + d) = SubSeq(u, x, y) /\ SubSeq(u, x, y) \in Seq(Nat)
      BY <3>1, SubMoved
    <3>3. x + d = at + 1 /\ y + d = c2 - 1
      BY <1>0, <1>2, <2>2, <2>3, <3>0
    <3> QED BY <1>1, <1>2, <3>0, <3>2, <3>3
  <2>5. CASE n1 = None \/ n1 < 0
    <3>1. p = Error /\ BulkString(w, at) = Error
      BY <1>3, <1>5, <1>6, <1>8, <2>1, <2>3, <2>4, <2>5
    <3> QED BY <1>2, <3>1, MovedIs
  <2>6. CASE ~(n1 = None \/ n1 < 0)
    <3>1. n1 \in Int /\ 0 <= n1
      BY <1>1, <2>6, IntType
    <3>2. ~(e1 + 1 > Len(u))
      BY <1>3, <1>5, <1>8, <2>1, <2>6
    <3>3. /\ e1 \in Nat /\ c1 + 2 <= e1 /\ e1 \in 1 .. Len(u) /\ e1 + 1 \in 1 .. Len(u)
          /\ e2 = e1 + d /\ ~(e2 + 1 > Len(w)) /\ e2 + 1 = (e1 + 1) + d
      <4>1. e1 = c1 + 2 + n1 /\ e2 = c1 + d + 2 + n1
        BY <1>1, <1>2, <2>3, <2>4
      <4> QED BY <1>0, <2>2, <3>1, <3>2, <4>1
    <3>4. w[e1 + d] = u[e1] /\ w[(e1 + 1) + d] = u[e1 + 1]
      BY <3>3 DEF Within
    <3>5. w[e2] = u[e1] /\ w[e2 + 1] = u[e1 + 1]
      BY <3>3, <3>4
    <3>6. CASE u[e1] # CR \/ u[e1 + 1] # LF
      <4>1. p = Error /\ BulkString(w, at) = Error
        BY <1>3, <1>5, <1>6, <1>8, <2>1, <2>3, <2>4, <2>6, <3>2, <3>3, <3>5, <3>6
      <4> QED BY <1>2, <4>1, MovedIs
    <3>7. CASE ~(u[e1] # CR \/ u[e1 + 1] # LF)
      <4>1. /\ p = Parsed(e1 + 2, <<SubSeq(u, c1 + 2, e1 - 1)>>)
            /\ BulkString(w, at) = Parsed(e2 + 2, <<SubSeq(w, c2 + 2, e2 - 1)>>)
        BY <1>3, <1>5, <1>6, <1>8, <2>1, <2>3, <2>4, <2>6, <3>2, <3>3, <3>5, <3>7
      <4>2. c1 + 2 \in Nat \ {0} /\ e1 - 1 \in Int /\ e1 - 1 <= Len(u)
        BY <1>0, <2>2, <3>3
      <4>3. /\ SubSeq(w, (c1 + 2) + d, (e1 - 1) + d) = SubSeq(u, c1 + 2, e1 - 1)
            /\ SubSeq(u, c1 + 2, e1 - 1) \in Seq(Nat)
        BY <4>2, SubMoved
      <4>4. (c1 + 2) + d = c2 + 2 /\ (e1 - 1) + d = e2 - 1 /\ e2 + 2 = (e1 + 2) + d
        BY <1>0, <2>2, <2>3, <3>3
      <4>5. BulkString(w, at) = Parsed((e1 + 2) + d, <<SubSeq(u, c1 + 2, e1 - 1)>>)
        BY <4>1, <4>3, <4>4
      <4>6. e1 + 2 \in Nat /\ cur < e1 + 2 /\ e1 + 2 <= Len(u) + 1
        BY <1>0, <2>2, <3>3
      <4>7. IsBulk(p, u, cur)
        BY <4>1, <4>3, <4>6 DEF IsBulk
      <4>8. Moved(p, d) = BulkString(w, at)
        BY <4>1, <4>5, MovedIs
      <4> QED BY <1>2, <4>7, <4>8
    <3> QED BY <3>6, <3>7
  <2> QED BY <2>5, <2>6
<1> QED BY <1>7, <1>8

\* The command after n bulk strings, for n up to count.
IsRead(g, buf, cur, n) ==
  g = [i \in 0 .. n |-> IF i = 0 THEN Parsed(cur, <<>>) ELSE NextBulk(buf)[g[i - 1]]]

LEMMA ReadExists ==
  ASSUME NEW buf, NEW cur, NEW n \in Nat
  PROVE  \E g : IsRead(g, buf, cur, n)
<1> DEFINE S == {m \in Nat : \E g : IsRead(g, buf, cur, m)}
<1>1. 0 \in S
  <2> DEFINE g == [i \in 0 .. 0 |-> Parsed(cur, <<>>)]
  <2>1. IsRead(g, buf, cur, 0)
    BY DEF IsRead
  <2> QED BY <2>1
<1>2. ASSUME NEW m \in S PROVE m + 1 \in S
  <2>1. m \in Nat
    OBVIOUS
  <2>2. PICK g : IsRead(g, buf, cur, m)
    OBVIOUS
  <2> DEFINE h == [i \in 0 .. m + 1 |-> IF i = m + 1 THEN NextBulk(buf)[g[m]] ELSE g[i]]
  <2>3. \A i \in 0 .. m : g[i] = IF i = 0 THEN Parsed(cur, <<>>) ELSE NextBulk(buf)[g[i - 1]]
    BY <2>1, <2>2 DEF IsRead
  <2>4. \A i \in 0 .. m : h[i] = g[i]
    BY <2>1
  <2>5. \A i \in 0 .. m + 1 :
          h[i] = IF i = 0 THEN Parsed(cur, <<>>) ELSE NextBulk(buf)[h[i - 1]]
    <3> TAKE i \in 0 .. m + 1
    <3>1. CASE i \in 0 .. m
      <4>1. i # 0 => i - 1 \in 0 .. m
        BY <2>1, <3>1
      <4>2. h[i] = g[i] /\ (i # 0 => h[i - 1] = g[i - 1])
        BY <2>4, <3>1, <4>1
      <4> HIDE DEF h
      <4> QED BY <2>3, <3>1, <4>2
    <3>2. CASE i = m + 1
      <4>1. i # 0 /\ i - 1 = m /\ m \in 0 .. m
        BY <2>1, <3>2
      <4>2. h[m] = g[m] /\ h[i] = NextBulk(buf)[g[m]]
        BY <2>4, <3>2, <4>1
      <4> HIDE DEF h
      <4> QED BY <3>2, <4>1, <4>2
    <3> QED BY <2>1, <3>1, <3>2
  <2>6. IsRead(h, buf, cur, m + 1)
    <3>1. h = [i \in 0 .. m + 1 |-> h[i]]
      OBVIOUS
    <3> HIDE DEF h
    <3> QED BY <2>5, <3>1 DEF IsRead
  <2> HIDE DEF h
  <2> QED BY <2>1, <2>6
<1>3. S = Nat
  <2>1. S \in SUBSET Nat
    OBVIOUS
  <2> HIDE DEF S
  <2> QED BY <1>1, <1>2, <2>1, NatSetInduction
<1> QED BY <1>3

ReadBy(g, buf, cur, n) ==
  /\ BulkStrings(buf, cur, n) = g[n] /\ g[0] = Parsed(cur, <<>>)
  /\ \A i \in 0 .. n - 1 : g[i + 1] = NextBulk(buf)[g[i]]

LEMMA ReadIs ==
  ASSUME NEW buf, NEW cur, NEW n \in Nat
  PROVE  \E g : ReadBy(g, buf, cur, n)
<1> DEFINE g == CHOOSE g : IsRead(g, buf, cur, n)
<1>1. IsRead(g, buf, cur, n)
  BY ReadExists
<1>2. BulkStrings(buf, cur, n) = g[n]
  BY DEF BulkStrings, IsRead
<1> HIDE DEF g
<1>3. g[0] = Parsed(cur, <<>>)
  BY <1>1 DEF IsRead
<1>4. ASSUME NEW i \in 0 .. n - 1 PROVE g[i + 1] = NextBulk(buf)[g[i]]
  <2>1. i + 1 \in 0 .. n /\ i + 1 # 0 /\ (i + 1) - 1 = i
    BY <1>4
  <2>2. g[i + 1] = NextBulk(buf)[g[(i + 1) - 1]]
    BY <1>1, <2>1 DEF IsRead
  <2> QED BY <2>1, <2>2
<1>5. ReadBy(g, buf, cur, n)
  BY <1>2, <1>3, <1>4 DEF ReadBy
<1> QED BY <1>5

\* One more bulk string, for each kind of result so far.
LEMMA NextIs ==
  ASSUME NEW buf
  PROVE  /\ NextBulk(buf)[More] = More /\ NextBulk(buf)[Error] = Error
         /\ \A n \in Nat, a \in Seq(Seq(Nat)) :
              NextBulk(buf)[Parsed(n, a)] =
                LET p == BulkString(buf, n)
                IN  IF p[1] # "ok" THEN p ELSE Parsed(p[2], a \o p[3])
<1>1. /\ More \in Results /\ Error \in Results
      /\ \A n \in Nat, a \in Seq(Seq(Nat)) : Parsed(n, a) \in Results
  BY DEF Results, Parsed
<1>2. \A s \in Results :
        NextBulk(buf)[s] = LET p == BulkString(buf, s[2])
                           IN  IF s[1] # "ok" THEN s
                               ELSE IF p[1] # "ok" THEN p ELSE Parsed(p[2], s[3] \o p[3])
  BY DEF NextBulk
<1>3. NextBulk(buf)[More] = More /\ NextBulk(buf)[Error] = Error
  <2>1. More[1] # "ok" /\ Error[1] # "ok"
    BY Kinds
  <2> QED BY <1>1, <1>2, <2>1
<1>4. ASSUME NEW n \in Nat, NEW a \in Seq(Seq(Nat))
      PROVE  NextBulk(buf)[Parsed(n, a)] =
               LET p == BulkString(buf, n)
               IN  IF p[1] # "ok" THEN p ELSE Parsed(p[2], a \o p[3])
  <2>1. PICK s : s = Parsed(n, a)
    OBVIOUS
  <2>2. s[1] = "ok" /\ s[2] = n /\ s[3] = a /\ s \in Results
    BY <1>1, <2>1, Kinds
  <2>3. NextBulk(buf)[s] = LET p == BulkString(buf, s[2])
                           IN  IF s[1] # "ok" THEN s
                               ELSE IF p[1] # "ok" THEN p ELSE Parsed(p[2], s[3] \o p[3])
    BY <1>2, <2>2
  <2> QED BY <2>1, <2>2, <2>3
<1> QED BY <1>3, <1>4

\* A command that begins at cur and ends inside of u.
IsCommand(p, u, cur) ==
  \E next \in Nat, a \in Seq(Seq(Nat)) : p = Parsed(next, a) /\ cur <= next /\ next <= Len(u) + 1

\* What is known of a prefix is known of the whole.
Same(p, q, u, cur, d) ==
  p = More \/ (q = Moved(p, d) /\ (p = Error \/ IsCommand(p, u, cur)))

LEMMA NextMoved ==
  ASSUME NEW u, NEW w, NEW d, Within(u, w, d), NEW cur \in Nat \ {0},
         NEW p, NEW q, Same(p, q, u, cur, d)
  PROVE  Same(NextBulk(u)[p], NextBulk(w)[q], u, cur, d)
<1>0. d \in Nat /\ Len(u) \in Nat
  BY DEF Within
<1>1. CASE p = More
  BY <1>1, NextIs DEF Same
<1>2. CASE p = Error
  <2>1. q = Error
    BY <1>2, Kinds, MovedIs DEF Same
  <2> QED BY <1>2, <2>1, NextIs, MovedIs DEF Same
<1>3. CASE p # More /\ p # Error
  <2>1. PICK n \in Nat, a \in Seq(Seq(Nat)) : p = Parsed(n, a) /\ cur <= n /\ n <= Len(u) + 1
    BY <1>3 DEF Same, IsCommand
  <2>2. q = Parsed(n + d, a) /\ n + d \in Nat /\ n \in Nat \ {0}
    <3>1. q = Moved(p, d)
      BY <1>3 DEF Same
    <3>2. Moved(Parsed(n, a), d) = Parsed(n + d, a)
      BY MovedIs
    <3>3. n + d \in Nat /\ n \in Nat \ {0}
      BY <1>0, <2>1
    <3> QED BY <2>1, <3>1, <3>2, <3>3
  <2>3. PICK r, s, m : r = BulkString(u, n) /\ m = n + d /\ s = BulkString(w, m)
    OBVIOUS
  <2>4. /\ NextBulk(u)[p] = IF r[1] # "ok" THEN r ELSE Parsed(r[2], a \o r[3])
        /\ NextBulk(w)[q] = IF s[1] # "ok" THEN s ELSE Parsed(s[2], a \o s[3])
    BY <2>1, <2>2, <2>3, NextIs
  <2>5. CASE r = More
    <3>1. NextBulk(u)[p] = More
      BY <2>4, <2>5, Kinds
    <3> QED BY <3>1 DEF Same
  <2>6. CASE r # More
    <3>1. s = Moved(r, d) /\ (r = Error \/ IsBulk(r, u, n))
      BY <2>2, <2>3, <2>6, BulkMoved
    <3>2. CASE r = Error
      <4>1. s = Error
        BY <3>1, <3>2, MovedIs
      <4>2. NextBulk(u)[p] = Error /\ NextBulk(w)[q] = Error
        BY <2>4, <3>2, <4>1, Kinds
      <4> QED BY <4>2, MovedIs DEF Same
    <3>3. CASE IsBulk(r, u, n)
      <4>1. PICK next \in Nat, v \in Seq(Nat) : r = Parsed(next, <<v>>) /\ n < next /\ next <= Len(u) + 1
        BY <3>3 DEF IsBulk
      <4>2. s = Parsed(next + d, <<v>>)
        BY <3>1, <4>1, MovedIs
      <4>3. PICK b : b = a \o <<v>>
        OBVIOUS
      <4>4. b \in Seq(Seq(Nat))
        BY <4>3
      <4>5. NextBulk(u)[p] = Parsed(next, b) /\ NextBulk(w)[q] = Parsed(next + d, b)
        BY <2>4, <4>1, <4>2, <4>3, Kinds
      <4>6. cur <= next
        BY <2>1, <4>1
      <4>7. IsCommand(Parsed(next, b), u, cur)
        BY <4>1, <4>4, <4>6 DEF IsCommand
      <4> QED BY <4>5, <4>7, MovedIs DEF Same
    <3> QED BY <3>1, <3>2, <3>3
  <2> QED BY <2>5, <2>6
<1> QED BY <1>1, <1>2, <1>3

LEMMA BulkStringsMoved ==
  ASSUME NEW u, NEW w, NEW d, Within(u, w, d), NEW cur \in Nat \ {0}, cur <= Len(u) + 1,
         NEW count \in Nat
  PROVE  Same(BulkStrings(u, cur, count), BulkStrings(w, cur + d, count), u, cur, d)
<1>a. PICK g : ReadBy(g, u, cur, count)
  BY ReadIs
<1>b. PICK at, h : at = cur + d /\ ReadBy(h, w, at, count)
  BY ReadIs
<1>1. /\ BulkStrings(u, cur, count) = g[count] /\ g[0] = Parsed(cur, <<>>)
      /\ \A i \in 0 .. count - 1 : g[i + 1] = NextBulk(u)[g[i]]
  BY <1>a DEF ReadBy
<1>2. /\ BulkStrings(w, cur + d, count) = h[count] /\ h[0] = Parsed(cur + d, <<>>)
      /\ \A i \in 0 .. count - 1 : h[i + 1] = NextBulk(w)[h[i]]
  BY <1>b DEF ReadBy
<1> DEFINE S == {n \in Nat : n <= count => Same(g[n], h[n], u, cur, d)}
<1>3. 0 \in S
  <2>1. <<>> \in Seq(Seq(Nat)) /\ cur \in Nat
    OBVIOUS
  <2>2. IsCommand(g[0], u, cur)
    <3>1. cur <= cur
      OBVIOUS
    <3>2. IsCommand(Parsed(cur, <<>>), u, cur)
      BY <2>1, <3>1, Zenon DEF IsCommand
    <3> QED BY <1>1, <3>2
  <2>3. h[0] = Moved(g[0], d)
    <3>1. Moved(Parsed(cur, <<>>), d) = Parsed(cur + d, <<>>)
      BY MovedIs
    <3> QED BY <1>1, <1>2, <3>1
  <2> QED BY <2>2, <2>3 DEF Same
<1>4. ASSUME NEW n \in S PROVE n + 1 \in S
  <2> SUFFICES ASSUME n + 1 <= count PROVE Same(g[n + 1], h[n + 1], u, cur, d)
    BY <1>4
  <2>1. n \in Nat /\ n \in 0 .. count - 1 /\ Same(g[n], h[n], u, cur, d)
    BY <1>4
  <2>2. g[n + 1] = NextBulk(u)[g[n]] /\ h[n + 1] = NextBulk(w)[h[n]]
    BY <1>1, <1>2, <2>1
  <2>3. Same(NextBulk(u)[g[n]], NextBulk(w)[h[n]], u, cur, d)
    BY <2>1, NextMoved
  <2> QED BY <2>2, <2>3
<1>5. S = Nat
  <2>1. S \in SUBSET Nat
    OBVIOUS
  <2> HIDE DEF S
  <2> QED BY <1>3, <1>4, <2>1, NatSetInduction
<1>6. Same(g[count], h[count], u, cur, d)
  BY <1>5
<1> QED BY <1>1, <1>2, <1>6

LEMMA ArrayMoved ==
  ASSUME NEW u, NEW w, NEW d, Within(u, w, d), NEW pos \in Nat \ {0}
  PROVE  Same(parse_array(u, pos), parse_array(w, pos + d), u, pos, d)
<1>0. d \in Nat /\ Len(u) \in Nat /\ Len(w) \in Nat
  BY DEF Within
<1>1. PICK c1, n1 : c1 = find_crlf(u, pos + 1) /\ n1 = parse_int(SubSeq(u, pos + 1, c1 - 1))
  OBVIOUS
<1>2. PICK at, c2, n2 : /\ at = pos + d /\ c2 = find_crlf(w, at + 1)
                        /\ n2 = parse_int(SubSeq(w, at + 1, c2 - 1))
  OBVIOUS
<1>3. parse_array(u, pos) = IF c1 = None THEN More
                            ELSE IF n1 = None \/ n1 < 0 \/ n1 > MaxArray THEN Error
                            ELSE BulkStrings(u, c1 + 2, n1)
  BY <1>1 DEF parse_array
<1>4. parse_array(w, at) = IF c2 = None THEN More
                           ELSE IF n2 = None \/ n2 < 0 \/ n2 > MaxArray THEN Error
                           ELSE BulkStrings(w, c2 + 2, n2)
  BY <1>2 DEF parse_array
<1>5. CASE c1 = None
  BY <1>3, <1>5 DEF Same
<1>6. CASE c1 # None
  <2>2. c1 \in Nat /\ pos + 1 <= c1 /\ c1 < Len(u) /\ find_crlf(w, (pos + 1) + d) = c1 + d
    <3>1. pos + 1 \in Nat \ {0}
      OBVIOUS
    <3> QED BY <1>1, <1>6, <3>1, CrlfMoved
  <2>3. c2 = c1 + d /\ c2 # None
    <3>1. (pos + 1) + d = at + 1
      BY <1>0, <1>2
    <3>2. c2 = c1 + d
      BY <1>2, <2>2, <3>1
    <3>3. c2 \in Int
      BY <1>0, <2>2, <3>2
    <3> QED BY <3>2, <3>3, NoneAssumption
  <2>4. n2 = n1
    <3>0. PICK x, y : x = pos + 1 /\ y = c1 - 1
      OBVIOUS
    <3>1. x \in Nat \ {0} /\ y \in Int /\ y <= Len(u)
      BY <1>0, <2>2, <3>0
    <3>2. SubSeq(w, x + d, y + d) = SubSeq(u, x, y) /\ SubSeq(u, x, y) \in Seq(Nat)
      BY <3>1, SubMoved
    <3>3. x + d = at + 1 /\ y + d = c2 - 1
      BY <1>0, <1>2, <2>2, <2>3, <3>0
    <3> QED BY <1>1, <1>2, <3>0, <3>2, <3>3
  <2>5. CASE n1 = None \/ n1 < 0 \/ n1 > MaxArray
    <3>1. parse_array(u, pos) = Error /\ parse_array(w, at) = Error
      BY <1>3, <1>4, <1>6, <2>3, <2>4, <2>5
    <3> QED BY <1>2, <3>1, MovedIs DEF Same
  <2>6. CASE ~(n1 = None \/ n1 < 0 \/ n1 > MaxArray)
    <3>1. n1 \in Nat
      <4>1. n1 \in Int /\ ~(n1 < 0)
        BY <1>1, <2>6, IntType
      <4> QED BY <4>1
    <3>2. parse_array(u, pos) = BulkStrings(u, c1 + 2, n1) /\ parse_array(w, at) = BulkStrings(w, c2 + 2, n1)
      BY <1>3, <1>4, <1>6, <2>3, <2>4, <2>6
    <3>3. PICK x : x = c1 + 2
      OBVIOUS
    <3>4. x \in Nat \ {0} /\ x <= Len(u) + 1 /\ c2 + 2 = x + d /\ pos <= x
      BY <1>0, <2>2, <2>3, <3>3
    <3>5. Same(BulkStrings(u, x, n1), BulkStrings(w, x + d, n1), u, x, d)
      BY <3>1, <3>4, BulkStringsMoved
    <3>6. \A p : IsCommand(p, u, x) => IsCommand(p, u, pos)
      <4> SUFFICES ASSUME NEW p, IsCommand(p, u, x) PROVE IsCommand(p, u, pos)
        OBVIOUS
      <4>1. PICK next \in Nat, a \in Seq(Seq(Nat)) : p = Parsed(next, a) /\ x <= next /\ next <= Len(u) + 1
        BY DEF IsCommand
      <4>2. pos <= next
        BY <3>4, <4>1
      <4> QED BY <4>1, <4>2 DEF IsCommand
    <3>7. Same(BulkStrings(u, x, n1), BulkStrings(w, x + d, n1), u, pos, d)
      BY <3>5, <3>6 DEF Same
    <3> QED BY <1>2, <3>2, <3>3, <3>4, <3>7
  <2> QED BY <2>5, <2>6
<1> QED BY <1>5, <1>6

\* A result that ends inside of u.
Ends(p, u) == p = Error \/ \E next \in Nat : \E a : p = Parsed(next, a) /\ next <= Len(u) + 1

\* What follows a complete command, or an error, and what comes before it
\* does not change how it is parsed.
LEMMA CommandMoved ==
  ASSUME NEW u, NEW w, NEW d, Within(u, w, d), NEW pos \in Nat \ {0},
         NEW p, p = parse_command(u, pos), p # More
  PROVE  parse_command(w, pos + d) = Moved(p, d) /\ Ends(p, u)
<1>0. d \in Nat /\ Len(u) \in Nat /\ Len(w) \in Nat /\ Len(u) + d <= Len(w)
  BY DEF Within
<1>1. PICK at : at = pos + d
  OBVIOUS
<1>2. ~(pos > Len(u))
  BY DEF parse_command
<1>3. ~(at > Len(w)) /\ w[at] = u[pos]
  <2>1. pos \in 1 .. Len(u) /\ ~(at > Len(w))
    BY <1>0, <1>1, <1>2
  <2> QED BY <1>1, <2>1 DEF Within
<1>4. CASE u[pos] = Star
  <2>1. p = parse_array(u, pos) /\ parse_command(w, at) = parse_array(w, at)
    BY <1>2, <1>3, <1>4 DEF parse_command
  <2>2. Same(p, parse_command(w, at), u, pos, d)
    BY <1>1, <2>1, ArrayMoved
  <2>3. parse_command(w, at) = Moved(p, d) /\ (p = Error \/ IsCommand(p, u, pos))
    BY <2>2 DEF Same
  <2>4. Ends(p, u)
    BY <2>3 DEF Ends, IsCommand
  <2> QED BY <1>1, <2>3, <2>4
<1>5. CASE u[pos] # Star
  <2>1. p = parse_inline(u, pos) /\ parse_command(w, at) = parse_inline(w, at)
    BY <1>2, <1>3, <1>5 DEF parse_command
  <2>2. PICK c1, c2 : c1 = find_crlf(u, pos) /\ c2 = find_crlf(w, at)
    OBVIOUS
  <2>3. /\ p = IF c1 = None THEN More ELSE Parsed(c1 + 2, Words(SubSeq(u, pos, c1 - 1)))
        /\ parse_inline(w, at) = IF c2 = None THEN More ELSE Parsed(c2 + 2, Words(SubSeq(w, at, c2 - 1)))
    BY <2>1, <2>2 DEF parse_inline
  <2>4. c1 # None
    BY <2>3
  <2>5. c1 \in Nat /\ pos <= c1 /\ c1 < Len(u) /\ c2 = c1 + d
    BY <1>1, <2>2, <2>4, CrlfMoved
  <2>6. c2 # None
    <3>1. c2 \in Int
      BY <1>0, <2>5
    <3> QED BY <3>1, NoneAssumption
  <2>7. PICK y : y = c1 - 1
    OBVIOUS
  <2>8. y \in Int /\ y <= Len(u) /\ c2 - 1 = y + d /\ c2 + 2 = (c1 + 2) + d
    BY <1>0, <2>5, <2>7
  <2>9. SubSeq(w, pos + d, y + d) = SubSeq(u, pos, y) /\ SubSeq(u, pos, y) \in Seq(Nat)
    BY <2>8, SubMoved
  <2>10. PICK a : a = Words(SubSeq(u, pos, y))
    OBVIOUS
  <2>11. p = Parsed(c1 + 2, a)
    BY <2>3, <2>4, <2>7, <2>10
  <2>12. parse_command(w, at) = Parsed((c1 + 2) + d, a)
    BY <1>1, <2>1, <2>3, <2>6, <2>8, <2>9, <2>10
  <2>13. c1 + 2 \in Nat /\ c1 + 2 <= Len(u) + 1
    BY <1>0, <2>5
  <2>14. Ends(p, u)
    BY <2>11, <2>13 DEF Ends
  <2> QED BY <1>1, <2>11, <2>12, <2>14, MovedIs
<1> QED BY <1>4, <1>5

-----------------------------------------------------------------------------
(* Where a connection stands in its stream.                                *)

\* The commands of a stream are those of its parts.
IsCut(x, at) ==
  /\ at \in [DOMAIN x.commands -> DOMAIN x.ends]
  /\ \A m, n \in DOMAIN at : m < n => at[m] < at[n]
  /\ \A m \in DOMAIN at : Reached(x, at, at[m])
  /\ \A j \in DOMAIN x.ends : Reached(x, at, j) => IsPart(x, at, j)

\* The receive buffer holds the bytes after base up to rcv, those up to head
\* are used, and it has room for cap.
Buffer(k) ==
  /\ k.rcv \in Nat /\ k.base \in Nat /\ k.head \in Nat /\ k.cap \in Nat \ {0}
  /\ k.base <= k.head /\ k.head <= k.rcv /\ k.rcv <= Len(k.stream.bytes)
  /\ k.rcv - k.base <= k.cap /\ k.cap <= MaxRecv

\* The first n parts are used, and their commands dispatched.
Used(k, at, n) ==
  /\ n \in 0 .. Len(k.stream.ends) /\ k.head = PartEnd(k.stream, n)
  /\ k.stream.bad => n < Len(k.stream.ends)
  /\ Len(k.dispatched) <= Len(k.stream.commands)
  /\ \A i \in 1 .. Len(k.dispatched) : k.dispatched[i] = k.stream.commands[i]
  /\ \A m \in DOMAIN at : m <= Len(k.dispatched) <=> at[m] <= n

\* The next part has not arrived as a whole.
Waits(k, n) == n < Len(k.stream.ends) => k.rcv < PartEnd(k.stream, n + 1)

\* Why the thread is where it is.
Control(k, at, n) ==
  /\ k.why = None => Reached(k.stream, at, n + 1)
  /\ k.pc = "read" => k.base = k.head
  /\ k.pc = "read" \/ (k.pc = "flush" /\ k.why = None) => Waits(k, n)
  /\ k.why \in {"quit", "protocol"} => Len(k.dispatched) = Len(k.stream.commands)
  /\ k.why = "protocol" => k.stream.bad
  /\ k.why = "large" => TooLarge(k.stream)

Placed(k, at, n) == IsCut(k.stream, at) /\ Used(k, at, n) /\ Control(k, at, n)

Framed(k) == IsStream(k.stream) /\ Buffer(k) /\ \E at : \E n : Placed(k, at, n)

StreamsFramed == \A c \in Clients : conn[c].pc # "closed" => Framed(conn[c])

USE BufferAssumption

LEMMA StreamType ==
  ASSUME NEW x, IsStream(x)
  PROVE  /\ x.bytes \in Seq(Nat) /\ x.ends \in Seq(Nat) /\ x.commands \in Seq(Seq(Seq(Nat)))
         /\ Len(x.bytes) \in Nat /\ Len(x.ends) \in Nat /\ Len(x.commands) \in Nat
         /\ DOMAIN x.ends = 1 .. Len(x.ends) /\ DOMAIN x.commands = 1 .. Len(x.commands)
         /\ x.bad => Len(x.ends) # 0
<1>1. /\ x.bytes \in Seq(Nat) /\ x.ends \in Seq(Nat) /\ x.commands \in Seq(Seq(Seq(Nat)))
      /\ x.bad => x.ends # <<>>
  BY DEF IsStream
<1> QED BY <1>1, LenProperties, EmptySeq

LEMMA PartEnds ==
  ASSUME NEW x, IsStream(x)
  PROVE  /\ PartEnd(x, 0) = 0 /\ PartEnd(x, Len(x.ends)) = Len(x.bytes)
         /\ \A j \in 0 .. Len(x.ends) : PartEnd(x, j) \in Nat /\ PartEnd(x, j) <= Len(x.bytes)
         /\ \A j \in 0 .. Len(x.ends) - 1 :
              /\ PartEnd(x, j) < PartEnd(x, j + 1)
              /\ PartSize(x, j + 1) = PartEnd(x, j + 1) - PartEnd(x, j)
<1>0. PICK N : N = Len(x.ends)
  OBVIOUS
<1>1. /\ x.ends \in Seq(Nat) /\ N \in Nat /\ DOMAIN x.ends = 1 .. N /\ Len(x.bytes) \in Nat
  BY <1>0, StreamType
<1>2. /\ PartEnd(x, N) = Len(x.bytes)
      /\ \A j \in 1 .. N : PartSize(x, j) > 0
  BY <1>0, <1>1 DEF IsStream
<1>3. PartEnd(x, 0) = 0 /\ \A j \in 1 .. N : PartEnd(x, j) = x.ends[j]
  BY <1>1 DEF PartEnd
<1>4. \A j \in 0 .. N : PartEnd(x, j) \in Nat
  <2> TAKE j \in 0 .. N
  <2>1. CASE j = 0
    BY <1>3, <2>1
  <2>2. CASE j # 0
    <3>1. j \in 1 .. N /\ x.ends[j] \in Nat
      BY <1>0, <1>1, <2>2
    <3> QED BY <1>3, <3>1
  <2> QED BY <2>1, <2>2
<1>5. ASSUME NEW j \in 0 .. N - 1
      PROVE  /\ PartEnd(x, j) < PartEnd(x, j + 1)
             /\ PartSize(x, j + 1) = PartEnd(x, j + 1) - PartEnd(x, j)
  <2>1. j + 1 \in 1 .. N /\ j \in 0 .. N /\ j + 1 \in 0 .. N /\ (j + 1) - 1 = j
    BY <1>1
  <2>2. PartSize(x, j + 1) = PartEnd(x, j + 1) - PartEnd(x, (j + 1) - 1)
    BY DEF PartSize
  <2>3. PartSize(x, j + 1) = PartEnd(x, j + 1) - PartEnd(x, j)
    BY <2>1, <2>2
  <2>4. PartSize(x, j + 1) > 0 /\ PartEnd(x, j) \in Nat /\ PartEnd(x, j + 1) \in Nat
    BY <1>2, <1>4, <2>1
  <2> QED BY <2>3, <2>4
<1> DEFINE S == {i \in Nat : i <= N => PartEnd(x, N - i) <= PartEnd(x, N)}
<1>6. S = Nat
  <2>1. 0 \in S
    <3>1. PartEnd(x, N) \in Nat /\ N - 0 = N
      BY <1>1, <1>4
    <3>2. PartEnd(x, N - 0) <= PartEnd(x, N)
      BY <3>1
    <3> QED BY <3>2
  <2>2. ASSUME NEW i \in S PROVE i + 1 \in S
    <3> SUFFICES ASSUME i + 1 <= N PROVE PartEnd(x, N - (i + 1)) <= PartEnd(x, N)
      BY <2>2
    <3>1. i \in Nat /\ i <= N /\ PartEnd(x, N - i) <= PartEnd(x, N)
      BY <1>1, <2>2
    <3>2. PICK j : j = N - (i + 1)
      OBVIOUS
    <3>3. j \in 0 .. N - 1 /\ j \in 0 .. N /\ j + 1 \in 0 .. N /\ j + 1 = N - i /\ N \in 0 .. N
      BY <1>1, <3>1, <3>2
    <3>4. PartEnd(x, j) < PartEnd(x, j + 1)
      BY <1>5, <3>3
    <3>5. PartEnd(x, j) \in Nat /\ PartEnd(x, j + 1) \in Nat /\ PartEnd(x, N) \in Nat
      BY <1>4, <3>3
    <3>6. PartEnd(x, j + 1) <= PartEnd(x, N)
      BY <3>1, <3>3
    <3>7. PartEnd(x, j) <= PartEnd(x, N)
      BY <3>4, <3>5, <3>6
    <3> QED BY <3>2, <3>7
  <2>3. S \in SUBSET Nat
    OBVIOUS
  <2> HIDE DEF S
  <2> QED BY <2>1, <2>2, <2>3, NatSetInduction
<1>7. ASSUME NEW j \in 0 .. N PROVE PartEnd(x, j) <= Len(x.bytes)
  <2>1. PICK i : i = N - j
    OBVIOUS
  <2>2. i \in Nat /\ i <= N /\ N - i = j
    BY <1>1, <2>1
  <2>3. PartEnd(x, N - i) <= PartEnd(x, N)
    BY <1>6, <2>2
  <2> QED BY <1>2, <2>2, <2>3
<1> QED BY <1>0, <1>2, <1>3, <1>4, <1>5, <1>7

\* A run of bytes of a stream.
LEMMA SubIs ==
  ASSUME NEW s \in Seq(Nat), NEW f \in Nat, NEW g \in Nat, f <= g, g <= Len(s)
  PROVE  /\ SubSeq(s, f + 1, g) \in Seq(Nat) /\ Len(SubSeq(s, f + 1, g)) = g - f
         /\ \A n \in 1 .. g - f : SubSeq(s, f + 1, g)[n] = s[n + f]
<1>0. Len(s) \in Nat
  OBVIOUS
<1>1. PICK e, u : e = f + 1 /\ u = SubSeq(s, e, g)
  OBVIOUS
<1>2. e \in Int /\ g \in Int /\ g - e + 1 = g - f
  BY <1>1
<1>3. \A n \in e .. g : s[n] \in Nat
  <2>1. 1 <= e
    BY <1>1
  <2> QED BY <1>0, <1>2, <2>1
<1>4. /\ u \in Seq(Nat) /\ Len(u) = (IF e <= g THEN g - e + 1 ELSE 0)
      /\ \A n \in 1 .. g - e + 1 : u[n] = s[e + n - 1]
  BY <1>1, <1>2, <1>3, SubSeqProperties
<1>5. Len(u) = g - f
  BY <1>1, <1>2, <1>4
<1>6. \A n \in 1 .. g - f : u[n] = s[n + f]
  <2> TAKE n \in 1 .. g - f
  <2>1. e + n - 1 = n + f
    BY <1>1
  <2> QED BY <1>2, <1>4, <2>1
<1> QED BY <1>1, <1>4, <1>5, <1>6

LEMMA SubWhole ==
  ASSUME NEW s \in Seq(Nat), NEW i \in Nat, NEW j \in Nat, i <= j, j <= Len(s)
  PROVE  Within(SubSeq(s, i + 1, j), s, i) /\ Len(SubSeq(s, i + 1, j)) = j - i
<1>1. PICK u : u = SubSeq(s, i + 1, j)
  OBVIOUS
<1>2. u \in Seq(Nat) /\ Len(u) = j - i /\ \A n \in 1 .. j - i : u[n] = s[n + i]
  BY <1>1, SubIs
<1>3. Len(u) + i <= Len(s)
  BY <1>2
<1>4. Within(u, s, i)
  BY <1>2, <1>3 DEF Within
<1> QED BY <1>1, <1>2, <1>4

\* A run of bytes, and another one that holds it.
LEMMA SubWithin ==
  ASSUME NEW s \in Seq(Nat), NEW a \in Nat, NEW b \in Nat, NEW i \in Nat, NEW j \in Nat,
         a <= i, i <= j, j <= b, b <= Len(s)
  PROVE  Within(SubSeq(s, i + 1, j), SubSeq(s, a + 1, b), i - a)
<1>0. Len(s) \in Nat /\ i - a \in Nat /\ j <= Len(s) /\ a <= b
  OBVIOUS
<1>1. PICK u, w, d : u = SubSeq(s, i + 1, j) /\ w = SubSeq(s, a + 1, b) /\ d = i - a
  OBVIOUS
<1>2. u \in Seq(Nat) /\ Len(u) = j - i /\ \A n \in 1 .. j - i : u[n] = s[n + i]
  BY <1>0, <1>1, SubIs
<1>3. w \in Seq(Nat) /\ Len(w) = b - a /\ \A n \in 1 .. b - a : w[n] = s[n + a]
  BY <1>0, <1>1, SubIs
<1>4. d \in Nat /\ Len(u) + d <= Len(w)
  BY <1>0, <1>1, <1>2, <1>3
<1>5. ASSUME NEW n \in 1 .. Len(u) PROVE w[n + d] = u[n]
  <2>1. n \in 1 .. j - i /\ n + d \in 1 .. b - a /\ (n + d) + a = n + i
    BY <1>0, <1>1, <1>2
  <2>2. w[n + d] = s[(n + d) + a]
    BY <1>3, <2>1
  <2> QED BY <1>2, <2>1, <2>2
<1>6. Within(u, w, d)
  BY <1>2, <1>3, <1>4, <1>5 DEF Within
<1> QED BY <1>1, <1>6

\* The next part is one command, with arguments a, and the buffer holds it.
Complete(k, at, n, r, a) ==
  /\ n < Len(k.stream.ends)
  /\ r = Parsed(PartEnd(k.stream, n + 1) - k.base + 1, a)
  /\ PartEnd(k.stream, n + 1) <= k.rcv
  /\ k.stream.bad => n + 1 < Len(k.stream.ends)
  /\ (\E m \in DOMAIN at : at[m] = n + 1) <=> a # <<>>
  /\ \A m \in DOMAIN at : at[m] = n + 1 => k.stream.commands[m] = a

\* The next part is malformed, and the last one.
Malformed(k, at, n) ==
  k.stream.bad /\ n + 1 = Len(k.stream.ends) /\ \A m \in DOMAIN at : at[m] # n + 1

\* The part after the first n, by itself.
LEMMA PartIs ==
  ASSUME NEW x, IsStream(x), NEW at, IsCut(x, at), NEW n \in Nat, n < Len(x.ends), Reached(x, at, n + 1),
         NEW size, size = PartEnd(x, n + 1) - PartEnd(x, n),
         NEW p, p = parse_command(SubSeq(x.bytes, PartEnd(x, n) + 1, PartEnd(x, n + 1)), 1)
  PROVE  \/ x.bad /\ n + 1 = Len(x.ends) /\ p = Error /\ \A m \in DOMAIN at : at[m] # n + 1
         \/ /\ x.bad => n + 1 < Len(x.ends)
            /\ \E a : /\ p = Parsed(size + 1, a)
                      /\ size <= MaxRecv => ((\E m \in DOMAIN at : at[m] = n + 1) <=> a # <<>>)
                      /\ \A m \in DOMAIN at : at[m] = n + 1 => x.commands[m] = a
<1>1. Len(x.ends) \in Nat /\ DOMAIN x.ends = 1 .. Len(x.ends)
  BY StreamType
<1>2. n + 1 \in DOMAIN x.ends /\ n \in 0 .. Len(x.ends) - 1 /\ n \in 0 .. Len(x.ends) /\ n + 1 \in 0 .. Len(x.ends)
  BY <1>1
<1>3. PartSize(x, n + 1) = size /\ size \in Int
  BY <1>2, PartEnds
<1>4. p = Alone(x, n + 1)
  <2>1. (n + 1) - 1 = n
    OBVIOUS
  <2>2. Alone(x, n + 1) = parse_command(SubSeq(x.bytes, PartEnd(x, (n + 1) - 1) + 1, PartEnd(x, n + 1)), 1)
    BY DEF Alone
  <2> QED BY <2>1, <2>2
<1>5. IsPart(x, at, n + 1)
  BY <1>2 DEF IsCut
<1>6. x.bad \in BOOLEAN
  BY DEF IsStream
<1>7. CASE x.bad /\ n + 1 = Len(x.ends)
  <2>1. p = Error /\ {m \in DOMAIN at : at[m] = n + 1} = {}
    BY <1>4, <1>5, <1>7 DEF IsPart
  <2>2. \A m \in DOMAIN at : at[m] # n + 1
    BY <2>1
  <2> QED BY <1>7, <2>1, <2>2
<1>8. CASE ~(x.bad /\ n + 1 = Len(x.ends))
  <2>1. /\ p = Parsed(PartSize(x, n + 1) + 1, p[3])
        /\ {m \in DOMAIN at : at[m] = n + 1} = {} <=> p[3] = <<>> \/ PartSize(x, n + 1) > MaxRecv
        /\ \A m \in {i \in DOMAIN at : at[i] = n + 1} : x.commands[m] = p[3]
    BY <1>4, <1>5, <1>8 DEF IsPart
  <2>2. PICK a : a = p[3]
    OBVIOUS
  <2>3. p = Parsed(size + 1, a)
    BY <1>3, <2>1, <2>2
  <2>4. ASSUME size <= MaxRecv PROVE (\E m \in DOMAIN at : at[m] = n + 1) <=> a # <<>>
    <3>1. ~(PartSize(x, n + 1) > MaxRecv)
      BY <1>3, <2>4
    <3>2. {m \in DOMAIN at : at[m] = n + 1} = {} <=> a = <<>>
      BY <2>1, <2>2, <3>1
    <3> QED BY <3>2
  <2>5. \A m \in DOMAIN at : at[m] = n + 1 => x.commands[m] = a
    BY <2>1, <2>2
  <2>6. x.bad => n + 1 < Len(x.ends)
    BY <1>1, <1>8
  <2> QED BY <2>3, <2>4, <2>5, <2>6
<1> QED BY <1>7, <1>8

\* However much of the stream the buffer holds, the parser finds the next part
\* in it: as a command when it has arrived, as an error when it is malformed,
\* and otherwise it asks for more.
LEMMA Outcome ==
  ASSUME NEW k, IsStream(k.stream), Buffer(k), NEW at, NEW n, IsCut(k.stream, at), Used(k, at, n),
         Reached(k.stream, at, n + 1), NEW r, r = NextCommand(k)
  PROVE  \/ r = More /\ Waits(k, n)
         \/ r = Error /\ Malformed(k, at, n)
         \/ \E a : Complete(k, at, n, r, a)
<1>0. PICK x, B, N, head, base, rcv :
        /\ x = k.stream /\ B = x.bytes /\ N = Len(x.ends) /\ head = k.head /\ base = k.base /\ rcv = k.rcv
  OBVIOUS
<1>1. /\ B \in Seq(Nat) /\ Len(B) \in Nat /\ N \in Nat /\ n \in 0 .. N /\ n \in Nat
  BY <1>0, StreamType DEF Used
<1>2. /\ head \in Nat /\ base \in Nat /\ rcv \in Nat
      /\ base <= head /\ head <= rcv /\ rcv <= Len(B) /\ head = PartEnd(x, n)
      /\ rcv - base <= MaxRecv
  <2>1. k.cap \in Nat /\ rcv - base <= k.cap /\ k.cap <= MaxRecv
    BY <1>0 DEF Buffer
  <2>2. /\ head \in Nat /\ base \in Nat /\ rcv \in Nat
        /\ base <= head /\ head <= rcv /\ rcv <= Len(B)
    BY <1>0 DEF Buffer
  <2>3. head = PartEnd(x, n)
    BY <1>0 DEF Used
  <2> QED BY <2>1, <2>2, <2>3
<1>3. PICK w, pos : w = SubSeq(B, base + 1, rcv) /\ pos = head - base + 1
  OBVIOUS
<1>4. r = parse_command(w, pos) /\ pos \in Nat \ {0}
  <2>1. r = parse_command(w, pos)
    BY <1>0, <1>3 DEF NextCommand
  <2>2. pos \in Nat \ {0}
    BY <1>2, <1>3
  <2> QED BY <2>1, <2>2
<1>5. Within(w, B, base) /\ Len(w) = rcv - base /\ pos + base = head + 1
  <2>1. base <= base /\ base <= rcv /\ rcv <= rcv
    BY <1>2
  <2>2. Within(SubSeq(B, base + 1, rcv), B, base) /\ Len(SubSeq(B, base + 1, rcv)) = rcv - base
    BY <1>1, <1>2, <2>1, SubWhole
  <2> QED BY <1>2, <1>3, <2>2
<1>6. CASE n = N
  <2>1. head = Len(B)
    BY <1>0, <1>2, <1>6, PartEnds
  <2>2. pos > Len(w)
    BY <1>1, <1>2, <1>3, <1>5, <2>1
  <2>3. r = More
    BY <1>4, <2>2 DEF parse_command
  <2>4. ~(n < N)
    BY <1>1, <1>6
  <2> QED BY <1>0, <2>3, <2>4 DEF Waits
<1>7. CASE n # N
  <2>0. n < N /\ n \in 0 .. N - 1 /\ n + 1 \in 0 .. N
    BY <1>1, <1>7
  <2>1. PICK end, u, p, size : /\ end = PartEnd(x, n + 1) /\ u = SubSeq(B, head + 1, end)
                               /\ p = parse_command(u, 1) /\ size = end - head
    OBVIOUS
  <2>2. end \in Nat /\ head < end /\ end <= Len(B)
    BY <1>0, <1>2, <2>0, <2>1, PartEnds
  <2>3. /\ Within(u, B, head) /\ Len(u) = size
        /\ end <= rcv => Within(u, w, head - base)
    <3>0. head <= head /\ head <= end /\ end <= end
      BY <1>2, <2>2
    <3>1. Within(u, B, head) /\ Len(u) = end - head
      <4>1. Within(SubSeq(B, head + 1, end), B, head) /\ Len(SubSeq(B, head + 1, end)) = end - head
        BY <1>1, <1>2, <2>2, <3>0, SubWhole
      <4> QED BY <2>1, <4>1
    <3>2. ASSUME end <= rcv PROVE Within(u, w, head - base)
      <4>1. Within(SubSeq(B, head + 1, end), SubSeq(B, base + 1, rcv), head - base)
        BY <1>1, <1>2, <2>2, <3>0, <3>2, SubWithin
      <4> QED BY <1>3, <2>1, <4>1
    <3> QED BY <2>1, <3>1, <3>2
  <2>4. \/ x.bad /\ n + 1 = N /\ p = Error /\ \A m \in DOMAIN at : at[m] # n + 1
        \/ /\ x.bad => n + 1 < N
           /\ \E a : /\ p = Parsed(size + 1, a)
                     /\ size <= MaxRecv => ((\E m \in DOMAIN at : at[m] = n + 1) <=> a # <<>>)
                     /\ \A m \in DOMAIN at : at[m] = n + 1 => x.commands[m] = a
    <3>1. IsStream(x) /\ IsCut(x, at) /\ Reached(x, at, n + 1) /\ n \in Nat /\ n < Len(x.ends)
      BY <1>0, <1>1, <2>0
    <3>2. size = PartEnd(x, n + 1) - PartEnd(x, n)
      BY <1>2, <2>1
    <3>3. p = parse_command(SubSeq(x.bytes, PartEnd(x, n) + 1, PartEnd(x, n + 1)), 1)
      BY <1>0, <1>2, <2>1
    <3> HIDE <1>0, <1>2, <2>1
    <3>4. N = Len(x.ends)
      BY <1>0
    <3> QED BY <3>1, <3>2, <3>3, <3>4, PartIs
  <2>5. p # More /\ 1 \in Nat \ {0}
    BY <2>4, Kinds
  <2>6. CASE end <= rcv
    <3>1. parse_command(w, 1 + (head - base)) = Moved(p, head - base)
      <4>1. PICK d : d = head - base
        OBVIOUS
      <4>2. Within(u, w, d)
        BY <2>3, <2>6, <4>1
      <4>3. parse_command(w, 1 + d) = Moved(p, d)
        BY <2>1, <2>5, <4>2, CommandMoved
      <4> QED BY <4>1, <4>3
    <3>2. 1 + (head - base) = pos
      BY <1>2, <1>3
    <3>3. r = Moved(p, head - base)
      BY <1>4, <3>1, <3>2
    <3>4. CASE x.bad /\ n + 1 = N /\ p = Error /\ \A m \in DOMAIN at : at[m] # n + 1
      <4>1. r = Error
        BY <3>3, <3>4, MovedIs
      <4> QED BY <1>0, <3>4, <4>1 DEF Malformed
    <3>5. CASE /\ x.bad => n + 1 < N
               /\ \E a : /\ p = Parsed(size + 1, a)
                         /\ size <= MaxRecv => ((\E m \in DOMAIN at : at[m] = n + 1) <=> a # <<>>)
                         /\ \A m \in DOMAIN at : at[m] = n + 1 => x.commands[m] = a
      <4>1. PICK a : /\ p = Parsed(size + 1, a)
                     /\ size <= MaxRecv => ((\E m \in DOMAIN at : at[m] = n + 1) <=> a # <<>>)
                     /\ \A m \in DOMAIN at : at[m] = n + 1 => x.commands[m] = a
        BY <3>5
      <4>2. r = Parsed((size + 1) + (head - base), a)
        BY <3>3, <4>1, MovedIs
      <4>3. (size + 1) + (head - base) = end - base + 1 /\ size <= MaxRecv
        BY <1>2, <2>1, <2>2, <2>6
      <4>4. r = Parsed(end - base + 1, a)
        BY <4>2, <4>3
      <4>5. Complete(k, at, n, r, a)
        BY <1>0, <2>0, <2>1, <2>6, <3>5, <4>1, <4>3, <4>4 DEF Complete
      <4> QED BY <4>5
    <3> QED BY <2>4, <3>4, <3>5
  <2>7. CASE ~(end <= rcv)
    <3>1. Waits(k, n)
      BY <1>0, <1>2, <2>1, <2>2, <2>7 DEF Waits
    <3>2. SUFFICES ASSUME r # More PROVE r = Error /\ Malformed(k, at, n)
      BY <3>1
    <3>3. parse_command(B, pos + base) = Moved(r, base) /\ Ends(r, w)
      BY <1>4, <1>5, <3>2, CommandMoved
    <3>4. parse_command(B, 1 + head) = Moved(p, head)
      BY <2>1, <2>3, <2>5, CommandMoved
    <3>5. Moved(r, base) = Moved(p, head)
      <4>1. 1 + head = pos + base
        BY <1>2, <1>5
      <4> QED BY <3>3, <3>4, <4>1
    <3>6. CASE r = Error
      <4>1. Moved(p, head) = Error
        BY <3>5, <3>6, MovedIs
      <4>2. \A m, a : p # Parsed(m, a)
        <5> SUFFICES ASSUME NEW m, NEW a, p = Parsed(m, a) PROVE FALSE
          OBVIOUS
        <5>1. Moved(Parsed(m, a), head) = Parsed(m + head, a)
          BY MovedIs
        <5>2. PICK i : i = m + head
          OBVIOUS
        <5>3. Parsed(i, a) # Error
          BY Kinds
        <5> QED BY <4>1, <5>1, <5>2, <5>3
      <4>3. x.bad /\ n + 1 = N /\ \A m \in DOMAIN at : at[m] # n + 1
        BY <2>4, <4>2
      <4> QED BY <1>0, <3>6, <4>3 DEF Malformed
    <3>7. ASSUME NEW next \in Nat, NEW b, r = Parsed(next, b), next <= Len(w) + 1 PROVE FALSE
      <4>1. Moved(p, head) = Parsed(next + base, b)
        BY <3>5, <3>7, MovedIs
      <4>2. p # Error
        BY <4>1, MovedIs, Kinds
      <4>3. PICK a : p = Parsed(size + 1, a)
        BY <2>4, <4>2
      <4>4. Parsed((size + 1) + head, a) = Parsed(next + base, b)
        BY <4>1, <4>3, MovedIs
      <4>5. (size + 1) + head = next + base
        <5>1. PICK i, j : i = (size + 1) + head /\ j = next + base
          OBVIOUS
        <5>2. Parsed(i, a)[2] = i /\ Parsed(j, b)[2] = j
          BY Kinds
        <5> QED BY <4>4, <5>1, <5>2
      <4>6. next <= rcv - base + 1
        BY <1>5, <3>7
      <4>7. end + 1 = next + base
        BY <1>2, <2>1, <2>2, <3>7, <4>5
      <4>8. end <= rcv
        BY <1>2, <2>2, <3>7, <4>6, <4>7
      <4> QED BY <2>7, <4>8
    <3> QED BY <3>3, <3>6, <3>7 DEF Ends
  <2> QED BY <2>6, <2>7
<1> QED BY <1>6, <1>7

-----------------------------------------------------------------------------
(* The steps of a connection.                                              *)

LEMMA AppendAt ==
  ASSUME NEW s, NEW e, IsSeq(s)
  PROVE  /\ Len(s) \in Nat /\ Len(Append(s, e)) = Len(s) + 1
         /\ \A i \in 1 .. Len(s) : Append(s, e)[i] = s[i]
         /\ Append(s, e)[Len(s) + 1] = e
<1>1. PICK S : s \in Seq(S)
  BY DEF IsSeq
<1>2. s \in Seq(S \union {e}) /\ e \in S \union {e}
  BY <1>1, SeqMonotonic
<1>3. /\ Len(Append(s, e)) = Len(s) + 1
      /\ \A i \in 1 .. Len(s) : Append(s, e)[i] = s[i]
      /\ Append(s, e)[Len(s) + 1] = e
  BY <1>2, AppendProperties
<1>4. Len(s) \in Nat
  BY <1>1, LenProperties
<1> QED BY <1>3, <1>4

\* No command of the stream is left.
LEMMA AllUsed ==
  ASSUME NEW k, IsStream(k.stream), NEW at, NEW n, IsCut(k.stream, at), Used(k, at, n),
         Len(k.dispatched) \in Nat, \A m \in DOMAIN at : at[m] <= n
  PROVE  Len(k.dispatched) = Len(k.stream.commands)
<1>1. PICK L, C : L = Len(k.dispatched) /\ C = Len(k.stream.commands)
  OBVIOUS
<1>2. L \in Nat /\ C \in Nat /\ L <= C /\ DOMAIN at = 1 .. C
  BY <1>1, StreamType DEF Used, IsCut
<1>3. C # 0 => C <= L
  <2> SUFFICES ASSUME C # 0 PROVE C <= L
    OBVIOUS
  <2>1. C \in DOMAIN at
    BY <1>2
  <2> QED BY <1>1, <2>1 DEF Used
<1> QED BY <1>1, <1>2, <1>3

\* The buffer of n is that of k, with the first part of the rest used.
Taken(n, k, r, a) ==
  /\ n.stream = k.stream /\ n.rcv = k.rcv /\ n.base = k.base /\ n.cap = k.cap
  /\ n.head = k.base + r[2] - 1
  /\ n.dispatched = IF a = <<>> THEN k.dispatched ELSE Append(k.dispatched, a)

LEMMA UsedMore ==
  ASSUME NEW k, IsStream(k.stream), Buffer(k), IsSeq(k.dispatched), NEW at, NEW i,
         IsCut(k.stream, at), Used(k, at, i),
         NEW r, NEW a, Complete(k, at, i, r, a), NEW n, Taken(n, k, r, a)
  PROVE  Buffer(n) /\ Used(n, at, i + 1) /\ Len(n.dispatched) \in Nat
<1>0. PICK x, N, C, L, end : /\ x = k.stream /\ N = Len(x.ends) /\ C = Len(x.commands)
                             /\ L = Len(k.dispatched) /\ end = PartEnd(x, i + 1)
  OBVIOUS
<1>1. i \in Nat /\ N \in Nat /\ i < N /\ C \in Nat /\ L \in Nat /\ L <= C /\ DOMAIN at = 1 .. C
  <2>1. N \in Nat /\ C \in Nat /\ DOMAIN x.commands = 1 .. C
    BY <1>0, StreamType
  <2>2. i \in 0 .. N /\ L <= C /\ i < N
    BY <1>0 DEF Used, Complete
  <2>3. L \in Nat
    BY <1>0, AppendAt
  <2>4. DOMAIN at = DOMAIN x.commands
    BY <1>0 DEF IsCut
  <2> QED BY <2>1, <2>2, <2>3, <2>4
<1>2. end \in Nat /\ k.head < end /\ k.head = PartEnd(x, i) /\ k.head \in Nat
  <2>1. i \in 0 .. N - 1 /\ i + 1 \in 0 .. N /\ k.head = PartEnd(x, i)
    BY <1>0, <1>1 DEF Used
  <2>2. PartEnd(x, i + 1) \in Nat /\ PartEnd(x, i) < PartEnd(x, i + 1)
    BY <1>0, <2>1, PartEnds
  <2> QED BY <1>0, <2>1, <2>2 DEF Buffer
<1>3. n.head = end
  <2>1. PICK j : j = end - k.base + 1
    OBVIOUS
  <2>2. r = Parsed(j, a)
    BY <1>0, <2>1 DEF Complete
  <2>3. r[2] = j
    BY <2>2, Kinds
  <2>4. n.head = k.base + j - 1 /\ k.base \in Nat
    BY <2>3 DEF Taken, Buffer
  <2> QED BY <1>2, <2>1, <2>4
<1>4. Buffer(n)
  <2>1. end <= k.rcv
    BY <1>0 DEF Complete
  <2>2. /\ n.stream = k.stream /\ n.rcv = k.rcv /\ n.base = k.base /\ n.cap = k.cap /\ n.head = end
    BY <1>3 DEF Taken
  <2>3. k.base <= end
    BY <1>2 DEF Buffer
  <2> QED BY <1>2, <2>1, <2>2, <2>3 DEF Buffer
<1>5. \A m \in DOMAIN at : m <= L <=> at[m] <= i
  BY <1>0 DEF Used
<1>6. \A m \in DOMAIN at : at[m] \in Nat /\ m \in Nat
  <2>1. DOMAIN x.ends = 1 .. N
    BY <1>0, StreamType
  <2> QED BY <1>0, <1>1, <2>1 DEF IsCut
<1>7. /\ (\E m \in DOMAIN at : at[m] = i + 1) <=> a # <<>>
      /\ \A m \in DOMAIN at : at[m] = i + 1 => x.commands[m] = a
      /\ x.bad => i + 1 < N
  BY <1>0 DEF Complete
<1>8. \A j \in 1 .. L : k.dispatched[j] = x.commands[j]
  BY <1>0 DEF Used
<1>9. CASE a = <<>>
  <2>1. n.dispatched = k.dispatched
    BY <1>9 DEF Taken
  <2>2. \A m \in DOMAIN at : m <= L <=> at[m] <= i + 1
    BY <1>1, <1>5, <1>6, <1>7, <1>9
  <2>3. i + 1 \in 0 .. N
    BY <1>1
  <2> QED BY <1>0, <1>1, <1>3, <1>4, <1>7, <1>8, <2>1, <2>2, <2>3 DEF Used, Taken
<1>10. CASE a # <<>>
  <2>1. n.dispatched = Append(k.dispatched, a)
    BY <1>10 DEF Taken
  <2>2. PICK d : d = n.dispatched
    OBVIOUS
  <2>3. Len(d) = L + 1 /\ (\A j \in 1 .. L : d[j] = k.dispatched[j]) /\ d[L + 1] = a
    BY <1>0, <2>1, <2>2, AppendAt
  <2>4. PICK m \in DOMAIN at : at[m] = i + 1
    BY <1>7, <1>10
  <2>5. \A j, l \in DOMAIN at : j < l => at[j] < at[l]
    BY <1>0 DEF IsCut
  <2>6. m = L + 1
    <3>1. m \in 1 .. C /\ m \in Nat /\ ~(m <= L)
      BY <1>1, <1>5, <2>4
    <3>2. ASSUME L + 1 < m PROVE FALSE
      <4>1. L + 1 \in DOMAIN at
        BY <1>1, <3>1, <3>2
      <4>2. at[L + 1] < at[m] /\ at[L + 1] \in Nat
        BY <1>6, <2>5, <3>2, <4>1
      <4>3. at[L + 1] <= i
        BY <1>1, <2>4, <4>2
      <4>4. L + 1 <= L
        BY <1>5, <4>1, <4>3
      <4> QED BY <1>1, <4>4
    <3> QED BY <1>1, <3>1, <3>2
  <2>7. x.commands[L + 1] = a /\ L + 1 <= C
    BY <1>1, <1>7, <2>4, <2>6
  <2>8. \A j \in 1 .. L + 1 : d[j] = x.commands[j]
    <3> TAKE j \in 1 .. L + 1
    <3>1. j \in 1 .. L \/ j = L + 1
      BY <1>1
    <3> QED BY <1>8, <2>3, <2>7, <3>1
  <2>9. ASSUME NEW l \in DOMAIN at PROVE l <= L + 1 <=> at[l] <= i + 1
    <3>1. l \in Nat /\ at[l] \in Nat /\ (l <= L <=> at[l] <= i)
      BY <1>5, <1>6
    <3>2. l < m => at[l] < at[m]
      BY <2>5
    <3>3. m < l => at[m] < at[l]
      BY <2>5
    <3>4. l = m => at[l] = i + 1
      BY <2>4
    <3> QED BY <1>1, <2>4, <2>6, <3>1, <3>2, <3>3, <3>4
  <2>10. i + 1 \in 0 .. N /\ L + 1 \in Nat
    BY <1>1
  <2> QED BY <1>0, <1>1, <1>3, <1>4, <1>7, <2>2, <2>3, <2>7, <2>8, <2>9, <2>10 DEF Used, Taken
<1> QED BY <1>9, <1>10

\* Another part is used, and it was no QUIT.
LEMMA ReachedMore ==
  ASSUME NEW x, NEW at, NEW n \in Nat, Reached(x, at, n + 1), \A m \in DOMAIN at : at[m] \in Nat,
         PartSize(x, n + 1) <= MaxRecv,
         \A m \in DOMAIN at : at[m] = n + 1 => x.commands[m][1] # Quit
  PROVE  Reached(x, at, (n + 1) + 1)
<1>1. ASSUME NEW i \in 1 .. ((n + 1) + 1) - 1 PROVE PartSize(x, i) <= MaxRecv
  <2>1. i \in 1 .. (n + 1) - 1 \/ i = n + 1
    BY <1>1
  <2> QED BY <2>1 DEF Reached
<1>2. ASSUME NEW m \in DOMAIN at, at[m] < (n + 1) + 1 PROVE x.commands[m][1] # Quit
  <2>1. at[m] < n + 1 \/ at[m] = n + 1
    BY <1>2
  <2> QED BY <2>1 DEF Reached
<1> QED BY <1>1, <1>2 DEF Reached

\* Nothing of the buffer, or of what is dispatched, has changed.
SamePlace(n, k) ==
  /\ n.stream = k.stream /\ n.rcv = k.rcv /\ n.base = k.base /\ n.head = k.head /\ n.cap = k.cap
  /\ n.dispatched = k.dispatched

LEMMA PlaceKept ==
  ASSUME NEW k, IsStream(k.stream), Buffer(k), NEW at, NEW i, Placed(k, at, i),
         NEW n, SamePlace(n, k), Control(n, at, i)
  PROVE  Framed(n)
<1>1. IsStream(n.stream) /\ Buffer(n)
  BY DEF SamePlace, Buffer
<1>2. IsCut(n.stream, at) /\ Used(n, at, i)
  BY DEF SamePlace, Placed, Used
<1> QED BY <1>1, <1>2 DEF Framed, Placed

\* A new connection.
LEMMA FramedAccept ==
  ASSUME NEW x, IsStream(x), NEW n, n.stream = x, n.rcv = 0, n.base = 0, n.head = 0,
         n.cap = InitialRecv, n.dispatched = <<>>, n.pc = "read", n.why = None
  PROVE  Framed(n)
<1>0. PICK N : N = Len(x.ends)
  OBVIOUS
<1>1. /\ Len(x.bytes) \in Nat /\ N \in Nat /\ Len(x.commands) \in Nat
      /\ DOMAIN x.ends = 1 .. N /\ (x.bad => N # 0)
  BY <1>0, StreamType
<1>2. PICK at : IsCut(x, at)
  BY DEF IsStream, IsCut
<1>3. Buffer(n)
  BY <1>1 DEF Buffer
<1>4. \A m \in DOMAIN at : at[m] \in 1 .. N
  BY <1>1, <1>2 DEF IsCut
<1>5. Used(n, at, 0)
  <2>1. Len(n.dispatched) = 0
    BY EmptyLen
  <2>2. 0 \in 0 .. N /\ n.head = PartEnd(x, 0) /\ (x.bad => 0 < N)
    BY <1>1, PartEnds
  <2>3. ASSUME NEW m \in DOMAIN at PROVE ~(m <= 0) /\ ~(at[m] <= 0)
    <3>1. DOMAIN at = 1 .. Len(x.commands)
      BY <1>2, StreamType DEF IsCut
    <3>2. m \in Nat /\ m # 0 /\ at[m] \in Nat /\ at[m] # 0
      BY <1>1, <1>4, <3>1
    <3> QED BY <3>2
  <2> QED BY <1>0, <1>1, <2>1, <2>2, <2>3 DEF Used
<1>6. Reached(x, at, 0 + 1)
  <2>1. \A m \in DOMAIN at : ~(at[m] < 0 + 1)
    BY <1>1, <1>4
  <2> QED BY <2>1 DEF Reached
<1>7. Waits(n, 0)
  <2>1. 0 < N => PartEnd(x, 0) < PartEnd(x, 0 + 1)
    <3> SUFFICES ASSUME 0 < N PROVE PartEnd(x, 0) < PartEnd(x, 0 + 1)
      OBVIOUS
    <3>1. 0 \in 0 .. N - 1
      BY <1>1
    <3> QED BY <1>0, <3>1, PartEnds
  <2>2. PartEnd(x, 0) = 0
    BY PartEnds
  <2> QED BY <1>0, <2>1, <2>2 DEF Waits
<1>8. Control(n, at, 0)
  BY <1>6, <1>7 DEF Control
<1> QED BY <1>2, <1>3, <1>5, <1>8 DEF Framed, Placed

\* More bytes arrive, or the buffer grows, or it drops what is used.
Moves(n, k) ==
  /\ n.stream = k.stream /\ n.head = k.head /\ n.dispatched = k.dispatched
  /\ k.rcv <= n.rcv /\ n.rcv <= Len(k.stream.bytes) /\ n.rcv \in Nat
  /\ n.base \in {k.base, k.head}
  /\ n.cap \in Nat \ {0} /\ n.cap <= MaxRecv /\ n.rcv - n.base <= n.cap

LEMMA FramedMoves ==
  ASSUME NEW k, IsStream(k.stream), Buffer(k), NEW at, NEW i, Placed(k, at, i),
         NEW n, Moves(n, k), Control(n, at, i)
  PROVE  Framed(n)
<1>1. /\ k.rcv \in Nat /\ k.base \in Nat /\ k.head \in Nat /\ k.base <= k.head /\ k.head <= k.rcv
  BY DEF Buffer
<1>2. Buffer(n)
  <2>1. n.base \in Nat /\ n.base <= n.head /\ n.head \in Nat
    BY <1>1 DEF Moves
  <2>2. n.head <= n.rcv /\ n.rcv <= Len(n.stream.bytes)
    BY <1>1 DEF Moves
  <2> QED BY <2>1, <2>2 DEF Buffer, Moves
<1>3. IsStream(n.stream) /\ IsCut(n.stream, at) /\ Used(n, at, i)
  BY DEF Moves, Placed, Used
<1> QED BY <1>2, <1>3 DEF Framed, Placed

\* The next command is dispatched, or skipped if it is empty.
LEMMA FramedDispatch ==
  ASSUME NEW k, IsStream(k.stream), Buffer(k), NEW at, NEW i, Placed(k, at, i), IsSeq(k.dispatched),
         k.why = None, NEW r, r = NextCommand(k), r[1] = "ok", NEW n, Taken(n, k, r, r[3]),
         \/ r[3] # <<>> /\ r[3][1] = Quit /\ n.pc = "flush" /\ n.why = "quit"
         \/ ~(r[3] # <<>> /\ r[3][1] = Quit) /\ n.pc = "parse" /\ n.why = None
  PROVE  Framed(n)
<1>0. PICK x : x = k.stream
  OBVIOUS
<1>1. IsCut(x, at) /\ Used(k, at, i) /\ Reached(x, at, i + 1) /\ n.stream = x
  BY <1>0 DEF Placed, Control, Taken
<1>2. PICK a : Complete(k, at, i, r, a)
  <2>1. r # More /\ r # Error
    BY Kinds
  <2> QED BY <1>0, <1>1, <2>1, Outcome
<1>3. r[3] = a
  BY <1>2, Kinds DEF Complete
<1>4. Buffer(n) /\ Used(n, at, i + 1) /\ Len(n.dispatched) \in Nat
  BY <1>0, <1>1, <1>2, <1>3, UsedMore
<1>5. \A m \in DOMAIN at : at[m] \in Nat
  <2>1. DOMAIN x.ends \in SUBSET Nat
    BY <1>0, StreamType
  <2> QED BY <1>1, <2>1 DEF IsCut
<1>6. i \in Nat
  BY <1>0, StreamType DEF Placed, Used
<1>7. CASE r[3] # <<>> /\ r[3][1] = Quit /\ n.pc = "flush" /\ n.why = "quit"
  <2>1. PICK m \in DOMAIN at : at[m] = i + 1
    BY <1>2, <1>3, <1>7 DEF Complete
  <2>2. x.commands[m] = a
    BY <1>0, <1>2, <2>1 DEF Complete
  <2>3. ASSUME NEW l \in DOMAIN at PROVE at[l] <= i + 1
    <3>1. SUFFICES ASSUME i + 1 < at[l] PROVE FALSE
      BY <1>5, <1>6
    <3>2. Reached(x, at, at[l])
      BY <1>1 DEF IsCut
    <3>3. x.commands[m][1] # Quit
      BY <2>1, <3>1, <3>2 DEF Reached
    <3> QED BY <1>3, <1>7, <2>2, <3>3
  <2>4. Len(n.dispatched) = Len(n.stream.commands)
    BY <1>0, <1>1, <1>4, <2>3, AllUsed
  <2>5. Control(n, at, i + 1)
    <3>1. None # "quit"
      OBVIOUS
    <3> QED BY <1>7, <2>4, <3>1 DEF Control
  <2> QED BY <1>0, <1>1, <1>4, <2>5 DEF Framed, Placed
<1>8. CASE ~(r[3] # <<>> /\ r[3][1] = Quit) /\ n.pc = "parse" /\ n.why = None
  <2>1. PartSize(x, i + 1) <= MaxRecv
    <3>1. i < Len(x.ends) /\ PartEnd(x, i + 1) <= k.rcv
      BY <1>0, <1>2 DEF Complete
    <3>2. i \in 0 .. Len(x.ends) - 1 /\ i + 1 \in 0 .. Len(x.ends)
      BY <1>0, <1>6, <3>1, StreamType
    <3>3. PartSize(x, i + 1) = PartEnd(x, i + 1) - PartEnd(x, i) /\ PartEnd(x, i + 1) \in Nat
      BY <1>0, <3>2, PartEnds
    <3>4. k.head = PartEnd(x, i)
      BY <1>0, <1>1 DEF Used
    <3>5. PICK e : e = PartEnd(x, i + 1)
      OBVIOUS
    <3>6. e \in Nat /\ e <= k.rcv /\ PartSize(x, i + 1) = e - k.head
      BY <3>1, <3>3, <3>4, <3>5
    <3>7. /\ k.rcv \in Nat /\ k.base \in Nat /\ k.head \in Nat /\ k.cap \in Nat
          /\ k.base <= k.head /\ k.rcv - k.base <= k.cap /\ k.cap <= MaxRecv
      BY DEF Buffer
    <3> QED BY <3>6, <3>7
  <2>2. ASSUME NEW m \in DOMAIN at, at[m] = i + 1 PROVE x.commands[m][1] # Quit
    <3>1. a # <<>> /\ x.commands[m] = a
      BY <1>0, <1>2, <2>2 DEF Complete
    <3> QED BY <1>3, <1>8, <3>1
  <2>3. Reached(x, at, (i + 1) + 1)
    BY <1>1, <1>5, <1>6, <2>1, <2>2, ReachedMore
  <2>4. Control(n, at, i + 1)
    BY <1>1, <1>8, <2>3 DEF Control
  <2> QED BY <1>0, <1>1, <1>4, <2>4 DEF Framed, Placed
<1> QED BY <1>7, <1>8

\* The rest of the buffer is incomplete, or malformed.
LEMMA FramedBatchEnd ==
  ASSUME NEW k, IsStream(k.stream), Buffer(k), NEW at, NEW i, Placed(k, at, i), IsSeq(k.dispatched),
         k.why = None, NEW r, r = NextCommand(k), r[1] # "ok", NEW n, SamePlace(n, k), n.pc = "flush",
         \/ r = Error /\ n.why = "protocol"
         \/ r # Error /\ n.why = None
  PROVE  Framed(n)
<1>0. PICK x : x = k.stream
  OBVIOUS
<1>1. IsCut(x, at) /\ Used(k, at, i) /\ Reached(x, at, i + 1) /\ n.stream = x
  BY <1>0 DEF Placed, Control, SamePlace
<1>2. ASSUME NEW a, Complete(k, at, i, r, a) PROVE FALSE
  <2>1. \E j : r = Parsed(j, a)
    BY <1>2 DEF Complete
  <2> QED BY <2>1, Kinds
<1>3. \/ r = More /\ Waits(k, i)
      \/ r = Error /\ Malformed(k, at, i)
  <2>1. \/ r = More /\ Waits(k, i)
        \/ r = Error /\ Malformed(k, at, i)
        \/ \E a : Complete(k, at, i, r, a)
    <3>1. IsCut(k.stream, at) /\ Used(k, at, i) /\ Reached(k.stream, at, i + 1)
      BY <1>0, <1>1
    <3> QED BY <3>1, Outcome
  <2> QED BY <1>2, <2>1
<1>4. CASE r = More /\ Waits(k, i)
  <2>1. n.why = None
    BY <1>4, Kinds
  <2>2. Waits(n, i)
    BY <1>4 DEF Waits, SamePlace
  <2>3. Control(n, at, i)
    BY <1>1, <2>1, <2>2 DEF Control
  <2> QED BY <2>3, PlaceKept
<1>5. CASE r = Error /\ Malformed(k, at, i)
  <2>1. n.why = "protocol"
    BY <1>5
  <2>2. Len(k.dispatched) \in Nat
    BY AppendAt
  <2>3. ASSUME NEW m \in DOMAIN at PROVE at[m] <= i
    <3>1. at[m] # i + 1 /\ i + 1 = Len(x.ends)
      BY <1>0, <1>5 DEF Malformed
    <3>2. at[m] \in DOMAIN x.ends /\ DOMAIN x.ends = 1 .. Len(x.ends) /\ i \in 0 .. Len(x.ends) /\ Len(x.ends) \in Nat
      BY <1>0, <1>1, StreamType DEF IsCut, Used
    <3> QED BY <3>1, <3>2
  <2>4. Len(k.dispatched) = Len(k.stream.commands)
    BY <1>0, <1>1, <2>2, <2>3, AllUsed
  <2>5. Control(n, at, i)
    <3>1. None # "protocol"
      OBVIOUS
    <3> QED BY <1>5, <2>1, <2>4, <3>1 DEF Control, SamePlace, Malformed
  <2> QED BY <2>5, PlaceKept
<1> QED BY <1>3, <1>4, <1>5

\* A part does not fit the largest buffer.
LEMMA FullBuffer ==
  ASSUME NEW k, IsStream(k.stream), Buffer(k), NEW at, NEW i, Placed(k, at, i), k.pc = "read",
         k.rcv - k.base = k.cap, k.cap >= MaxRecv
  PROVE  TooLarge(k.stream)
<1>0. PICK x, N : x = k.stream /\ N = Len(x.ends)
  OBVIOUS
<1>1. /\ k.rcv \in Nat /\ k.base \in Nat /\ k.cap \in Nat \ {0} /\ k.cap = MaxRecv
      /\ k.rcv <= Len(x.bytes) /\ Len(x.bytes) \in Nat
  BY <1>0, StreamType DEF Buffer
<1>2. k.base = PartEnd(x, i) /\ i \in 0 .. N /\ N \in Nat /\ Waits(k, i)
  BY <1>0, StreamType DEF Placed, Control, Used
<1>3. i # N
  <2> SUFFICES ASSUME i = N PROVE FALSE
    OBVIOUS
  <2>1. k.base = Len(x.bytes)
    BY <1>0, <1>2, PartEnds
  <2> QED BY <1>1, <2>1
<1>4. i < N /\ i \in 0 .. N - 1 /\ i + 1 \in 0 .. N /\ i + 1 \in 1 .. N
  BY <1>2, <1>3
<1>5. PICK e : e = PartEnd(x, i + 1)
  OBVIOUS
<1>6. e \in Nat /\ PartSize(x, i + 1) = e - k.base
  BY <1>0, <1>2, <1>4, <1>5, PartEnds
<1>7. k.rcv < e
  BY <1>0, <1>2, <1>4, <1>5 DEF Waits
<1>8. PartSize(x, i + 1) > MaxRecv
  BY <1>1, <1>6, <1>7
<1>9. i + 1 \in DOMAIN x.ends
  BY <1>0, <1>4, StreamType
<1> QED BY <1>0, <1>8, <1>9 DEF TooLarge

\* Bytes arrive in the free part of the buffer.
LEMMA Arriving ==
  ASSUME NEW rcv \in Nat, NEW base \in Nat, NEW cap \in Nat, NEW all \in Nat,
         NEW j \in 1 .. Min({cap - (rcv - base), all - rcv})
  PROVE  rcv <= rcv + j /\ rcv + j <= all /\ rcv + j \in Nat /\ (rcv + j) - base <= cap
<1>1. PICK free, rest : free = cap - (rcv - base) /\ rest = all - rcv
  OBVIOUS
<1>2. free \in Int /\ rest \in Int
  BY <1>1
<1>3. Min({free, rest}) = IF free <= rest THEN free ELSE rest
  BY <1>2, MinTwo
<1>4. j \in 1 .. IF free <= rest THEN free ELSE rest
  BY <1>1, <1>3
<1>5. j \in Nat /\ j <= free /\ j <= rest
  BY <1>2, <1>4
<1> QED BY <1>1, <1>5

\* Each step of a connection keeps its place in the stream.
LEMMA FramedStep ==
  ASSUME IInv, StreamsFramed, NEW c \in Clients, ConnStep(c), conn'[c].pc # "closed"
  PROVE  Framed(conn'[c])
<1> DEFINE k == conn[c]
<1>t. TypeOK /\ Typed(k) /\ Owing(k) /\ DOMAIN k = Fields /\ IsSeq(k.dispatched)
  BY DEF IInv, TypeOK, RepliesOwed, Typed
<1>o. ASSUME k.pc # "closed" PROVE IsStream(k.stream) /\ Buffer(k) /\ \E at : \E i : Placed(k, at, i)
  BY <1>o DEF StreamsFramed, Framed
<1>1. CASE accept(c)
  <2>1. PICK x \in Streams[c] :
          Step(c, "closed", [Closed EXCEPT !.pc = "read", !.stream = x, !.cap = InitialRecv])
    BY <1>1 DEF accept
  <2> DEFINE n == [Closed EXCEPT !.pc = "read", !.stream = x, !.cap = InitialRecv]
  <2>2. conn'[c] = n
    BY <1>t, <2>1, StepConn
  <2>3. /\ n.stream = x /\ n.rcv = 0 /\ n.base = 0 /\ n.head = 0 /\ n.cap = InitialRecv
        /\ n.dispatched = <<>> /\ n.pc = "read" /\ n.why = None
    BY DEF Closed
  <2> HIDE DEF n
  <2>4. IsStream(x)
    BY <2>1, StreamsAssumption
  <2> QED BY <2>2, <2>3, <2>4, FramedAccept
<1>2. CASE recv(c)
  <2>1. PICK j \in 1 .. Min({k.cap - (k.rcv - k.base), Len(k.stream.bytes) - k.rcv}) :
          Step(c, "read", [k EXCEPT !.pc = "parse", !.rcv = @ + j, !.owed = 0])
    BY <1>2 DEF recv
  <2> DEFINE n == [k EXCEPT !.pc = "parse", !.rcv = @ + j, !.owed = 0]
  <2>2. k.pc = "read" /\ conn'[c] = n
    BY <1>t, <2>1, StepConn
  <2>3. /\ n.stream = k.stream /\ n.rcv = k.rcv + j /\ n.base = k.base /\ n.head = k.head /\ n.cap = k.cap
        /\ n.dispatched = k.dispatched /\ n.pc = "parse" /\ n.why = k.why
    BY <1>t DEF Fields
  <2> HIDE DEF n
  <2>4. IsStream(k.stream) /\ Buffer(k)
    BY <1>o, <2>2
  <2>5. PICK at : \E i : Placed(k, at, i)
    BY <1>o, <2>2
  <2>6. PICK i : Placed(k, at, i)
    BY <2>5
  <2>7. PICK rcv, base, cap, all : rcv = k.rcv /\ base = k.base /\ cap = k.cap /\ all = Len(k.stream.bytes)
    OBVIOUS
  <2>8. rcv \in Nat /\ base \in Nat /\ cap \in Nat \ {0} /\ cap <= MaxRecv /\ all \in Nat
    BY <2>4, <2>7, StreamType DEF Buffer
  <2>9. j \in 1 .. Min({cap - (rcv - base), all - rcv})
    BY <2>1, <2>7
  <2>10. rcv <= rcv + j /\ rcv + j <= all /\ rcv + j \in Nat /\ (rcv + j) - base <= cap
    BY <2>8, <2>9, Arriving
  <2>11. n.rcv = rcv + j /\ n.base = base /\ n.cap = cap
    BY <2>3, <2>7
  <2>12. Moves(n, k)
    BY <2>3, <2>7, <2>8, <2>10, <2>11 DEF Moves
  <2>13. Control(n, at, i)
    <3>1. k.why = None /\ Reached(k.stream, at, i + 1)
      BY <1>t, <2>2, <2>6 DEF Owing, Placed, Control
    <3> QED BY <2>3, <3>1 DEF Control
  <2> QED BY <2>2, <2>4, <2>6, <2>12, <2>13, FramedMoves
<1>3. CASE recv_end(c)
  <2> DEFINE n == [k EXCEPT !.pc = "drop", !.why = "eof"]
  <2>1. Step(c, "read", n)
    BY <1>3 DEF recv_end
  <2>2. k.pc = "read" /\ conn'[c] = n
    BY <1>t, <2>1, StepConn
  <2>3. SamePlace(n, k) /\ n.pc = "drop" /\ n.why = "eof"
    BY <1>t DEF Fields, SamePlace
  <2> HIDE DEF n
  <2>4. IsStream(k.stream) /\ Buffer(k)
    BY <1>o, <2>2
  <2>5. PICK at : \E i : Placed(k, at, i)
    BY <1>o, <2>2
  <2>6. PICK i : Placed(k, at, i)
    BY <2>5
  <2>7. Control(n, at, i)
    BY <2>3 DEF Control
  <2> QED BY <2>2, <2>3, <2>4, <2>6, <2>7, PlaceKept
<1>4. CASE grow(c)
  <2>0. k.rcv - k.base = k.cap /\ k.pc = "read"
    BY <1>4 DEF grow, Step
  <2>4. IsStream(k.stream) /\ Buffer(k)
    BY <1>o, <2>0
  <2>5. PICK at : \E i : Placed(k, at, i)
    BY <1>o, <2>0
  <2>6. PICK i : Placed(k, at, i)
    BY <2>5
  <2>7. CASE k.cap >= MaxRecv
    <3> DEFINE n == [k EXCEPT !.pc = "drop", !.why = "large"]
    <3>1. Step(c, "read", n)
      BY <1>4, <2>7 DEF grow
    <3>2. conn'[c] = n
      BY <1>t, <3>1, StepConn
    <3>3. SamePlace(n, k) /\ n.pc = "drop" /\ n.why = "large"
      BY <1>t DEF Fields, SamePlace
    <3> HIDE DEF n
    <3>4. TooLarge(k.stream)
      BY <2>0, <2>4, <2>6, <2>7, FullBuffer
    <3>5. Control(n, at, i)
      BY <3>3, <3>4 DEF Control, SamePlace
    <3> QED BY <2>4, <2>6, <3>2, <3>3, <3>5, PlaceKept
  <2>8. CASE ~(k.cap >= MaxRecv)
    <3> DEFINE n == [k EXCEPT !.cap = Min({k.cap * 2, MaxRecv})]
    <3>1. Step(c, "read", n)
      BY <1>4, <2>8 DEF grow
    <3>2. conn'[c] = n
      BY <1>t, <3>1, StepConn
    <3>3. /\ n.stream = k.stream /\ n.rcv = k.rcv /\ n.base = k.base /\ n.head = k.head
          /\ n.cap = Min({k.cap * 2, MaxRecv})
          /\ n.dispatched = k.dispatched /\ n.pc = "read" /\ n.why = k.why
      BY <1>t, <2>0 DEF Fields
    <3> HIDE DEF n
    <3>4. PICK two : two = k.cap * 2
      OBVIOUS
    <3>5. /\ k.rcv \in Nat /\ k.base \in Nat /\ k.cap \in Nat \ {0} /\ k.rcv <= Len(k.stream.bytes)
      BY <2>4 DEF Buffer
    <3>6. two \in Nat \ {0} /\ k.cap <= two /\ k.cap <= MaxRecv /\ MaxRecv \in Nat \ {0}
      BY <2>8, <3>4, <3>5
    <3>7. n.cap = IF two <= MaxRecv THEN two ELSE MaxRecv
      <4>1. Min({two, MaxRecv}) = IF two <= MaxRecv THEN two ELSE MaxRecv
        BY <3>6, MinTwo
      <4> QED BY <3>3, <3>4, <4>1
    <3>8. n.cap \in Nat \ {0} /\ n.cap <= MaxRecv /\ k.cap <= n.cap
      BY <3>6, <3>7
    <3>9. Moves(n, k)
      <4>1. n.rcv - n.base = k.cap /\ k.rcv <= n.rcv
        BY <2>0, <3>3, <3>5
      <4>2. n.rcv - n.base <= n.cap
        BY <3>8, <4>1
      <4> QED BY <3>3, <3>5, <3>8, <4>1, <4>2 DEF Moves
    <3>10. Control(n, at, i)
      <4>1. /\ k.why = None /\ k.base = k.head /\ Waits(k, i) /\ Reached(k.stream, at, i + 1)
        BY <1>t, <2>0, <2>6 DEF Owing, Placed, Control
      <4>2. Waits(n, i)
        BY <3>3, <4>1 DEF Waits
      <4> QED BY <3>3, <4>1, <4>2 DEF Control
    <3> QED BY <2>4, <2>6, <3>2, <3>9, <3>10, FramedMoves
  <2> QED BY <2>7, <2>8
<1>5. CASE dispatch(c)
  <2>1. PICK r : r = NextCommand(k)
    OBVIOUS
  <2> DEFINE quit == r[3] # <<>> /\ r[3][1] = Quit
             n == IF r[3] = <<>> THEN [k EXCEPT !.head = k.base + r[2] - 1]
                  ELSE [k EXCEPT !.head = k.base + r[2] - 1,
                                 !.dispatched = Append(@, r[3]), !.owed = @ + 1, !.slot = TRUE,
                                 !.pc = IF r[3][1] = Quit THEN "flush" ELSE "parse",
                                 !.why = IF r[3][1] = Quit THEN "quit" ELSE None]
  <2>2. k.pc = "parse" /\ r[1] = "ok" /\ Step(c, "parse", n)
    BY <1>5, <2>1 DEF dispatch
  <2>3. conn'[c] = n
    BY <1>t, <2>2, StepConn
  <2>4. k.why = None
    BY <1>t, <2>2 DEF Owing
  <2>5. /\ Taken(n, k, r, r[3])
        /\ \/ r[3] # <<>> /\ r[3][1] = Quit /\ n.pc = "flush" /\ n.why = "quit"
           \/ ~(r[3] # <<>> /\ r[3][1] = Quit) /\ n.pc = "parse" /\ n.why = None
    <3>1. CASE r[3] = <<>>
      BY <1>t, <2>2, <2>4, <3>1 DEF Fields, Taken
    <3>2. CASE r[3] # <<>>
      <4>1. /\ n.stream = k.stream /\ n.rcv = k.rcv /\ n.base = k.base /\ n.cap = k.cap
            /\ n.head = k.base + r[2] - 1 /\ n.dispatched = Append(k.dispatched, r[3])
            /\ n.pc = (IF r[3][1] = Quit THEN "flush" ELSE "parse")
            /\ n.why = (IF r[3][1] = Quit THEN "quit" ELSE None)
        BY <1>t, <3>2 DEF Fields
      <4> HIDE DEF n
      <4> QED BY <3>2, <4>1 DEF Taken
    <3> QED BY <3>1, <3>2
  <2> HIDE DEF n
  <2>6. IsStream(k.stream) /\ Buffer(k)
    BY <1>o, <2>2
  <2>7. PICK at : \E i : Placed(k, at, i)
    BY <1>o, <2>2
  <2>8. PICK i : Placed(k, at, i)
    BY <2>7
  <2> QED BY <1>t, <2>1, <2>2, <2>3, <2>4, <2>5, <2>6, <2>8, FramedDispatch
<1>6. CASE batch_end(c)
  <2>1. PICK r : r = NextCommand(k)
    OBVIOUS
  <2> DEFINE n == IF r = Error THEN [k EXCEPT !.pc = "flush", !.why = "protocol", !.owed = @ + 1]
                  ELSE [k EXCEPT !.pc = "flush"]
  <2>2. k.pc = "parse" /\ r[1] # "ok" /\ Step(c, "parse", n)
    BY <1>6, <2>1 DEF batch_end
  <2>3. conn'[c] = n
    BY <1>t, <2>2, StepConn
  <2>4. k.why = None
    BY <1>t, <2>2 DEF Owing
  <2>5. /\ SamePlace(n, k) /\ n.pc = "flush"
        /\ \/ r = Error /\ n.why = "protocol"
           \/ r # Error /\ n.why = None
    BY <1>t, <2>4 DEF Fields, SamePlace
  <2> HIDE DEF n
  <2>6. IsStream(k.stream) /\ Buffer(k)
    BY <1>o, <2>2
  <2>7. PICK at : \E i : Placed(k, at, i)
    BY <1>o, <2>2
  <2>8. PICK i : Placed(k, at, i)
    BY <2>7
  <2> QED BY <1>t, <2>1, <2>2, <2>3, <2>4, <2>5, <2>6, <2>8, FramedBatchEnd
<1>7. CASE flush(c)
  <2>0. k.pc = "flush"
    BY <1>7 DEF flush, Step
  <2>1. IsStream(k.stream) /\ Buffer(k)
    BY <1>o, <2>0
  <2>2. PICK at : \E i : Placed(k, at, i)
    BY <1>o, <2>0
  <2>3. PICK i : Placed(k, at, i)
    BY <2>2
  <2> DEFINE out == [k EXCEPT !.sent = @ + k.owed, !.owed = 0, !.base = k.head]
             sent == [out EXCEPT !.pc = IF k.why = None THEN "read" ELSE "drop"]
             broken == [k EXCEPT !.pc = "drop", !.why = "eof"]
  <2>4. CASE Step(c, "flush", sent)
    <3> DEFINE n == sent
    <3>1. conn'[c] = n
      BY <1>t, <2>4, StepConn
    <3>2. /\ n.stream = k.stream /\ n.rcv = k.rcv /\ n.base = k.head /\ n.head = k.head /\ n.cap = k.cap
          /\ n.dispatched = k.dispatched /\ n.why = k.why
          /\ n.pc = IF k.why = None THEN "read" ELSE "drop"
      BY <1>t DEF Fields
    <3> HIDE DEF n
    <3>3. Moves(n, k)
      <4>1. /\ k.rcv \in Nat /\ k.base \in Nat /\ k.head \in Nat /\ k.cap \in Nat \ {0} /\ k.cap <= MaxRecv
            /\ k.base <= k.head /\ k.rcv - k.base <= k.cap /\ k.rcv <= Len(k.stream.bytes)
        BY <2>1 DEF Buffer
      <4>2. k.rcv - k.head <= k.cap /\ k.rcv <= k.rcv
        BY <4>1
      <4> QED BY <3>2, <4>1, <4>2 DEF Moves
    <3>4. Control(n, at, i)
      <4>1. Control(k, at, i)
        BY <2>3 DEF Placed
      <4>2. n.pc = "read" \/ (n.pc = "flush" /\ n.why = None) => Waits(n, i)
        <5>1. n.pc # "flush" /\ (n.pc = "read" => k.why = None)
          BY <3>2
        <5>2. k.why = None => Waits(k, i)
          BY <2>0, <4>1 DEF Control
        <5>3. Waits(k, i) => Waits(n, i)
          BY <3>2 DEF Waits
        <5> QED BY <5>1, <5>2, <5>3
      <4> QED BY <3>2, <4>1, <4>2 DEF Control
    <3> QED BY <2>1, <2>3, <3>1, <3>3, <3>4, FramedMoves
  <2>5. CASE Step(c, "flush", broken)
    <3> DEFINE n == broken
    <3>1. conn'[c] = n
      BY <1>t, <2>5, StepConn
    <3>2. SamePlace(n, k) /\ n.pc = "drop" /\ n.why = "eof"
      BY <1>t DEF Fields, SamePlace
    <3> HIDE DEF n
    <3>3. Control(n, at, i)
      BY <3>2 DEF Control
    <3> QED BY <2>1, <2>3, <3>1, <3>2, <3>3, PlaceKept
  <2> QED BY <1>7, <2>4, <2>5 DEF flush
<1>8. CASE drop_session(c)
  <2> DEFINE n == [k EXCEPT !.pc = "ended", !.slot = FALSE]
  <2>1. Step(c, "drop", n)
    BY <1>8 DEF drop_session
  <2>2. k.pc = "drop" /\ conn'[c] = n
    BY <1>t, <2>1, StepConn
  <2>3. SamePlace(n, k) /\ n.pc = "ended" /\ n.why = k.why
    BY <1>t DEF Fields, SamePlace
  <2> HIDE DEF n
  <2>4. IsStream(k.stream) /\ Buffer(k)
    BY <1>o, <2>2
  <2>5. PICK at : \E i : Placed(k, at, i)
    BY <1>o, <2>2
  <2>6. PICK i : Placed(k, at, i)
    BY <2>5
  <2>7. Control(n, at, i)
    BY <2>3, <2>6 DEF Control, Placed, SamePlace
  <2> QED BY <2>2, <2>3, <2>4, <2>6, <2>7, PlaceKept
<1>9. CASE drop_conn_slot(c)
  BY <1>9, ConnKept
<1> QED BY <1>1, <1>2, <1>3, <1>4, <1>5, <1>6, <1>7, <1>8, <1>9 DEF ConnStep, Thread

LEMMA NextFramed == IInv /\ StreamsFramed /\ [Next]_vars => StreamsFramed'
<1> SUFFICES ASSUME IInv, StreamsFramed, [Next]_vars PROVE StreamsFramed'
  OBVIOUS
<1>1. ASSUME NEW c \in Clients, ConnStep(c) PROVE StreamsFramed'
  <2>1. \A d \in Clients \ {c} : conn'[d] = conn[d]
    BY <1>1, ConnKept
  <2>2. conn'[c].pc # "closed" => Framed(conn'[c])
    BY <1>1, FramedStep
  <2>3. \A d \in Clients : conn'[d].pc # "closed" => Framed(conn'[d])
    BY <2>1, <2>2 DEF StreamsFramed
  <2> QED BY <2>3 DEF StreamsFramed
<1>2. CASE UNCHANGED conn
  BY <1>2 DEF StreamsFramed
<1> QED BY <1>1, <1>2 DEF Next, ConnStep, refuse, refused, vars

\* What is dispatched is a prefix of what was sent.
LEMMA PrefixSent ==
  ASSUME NEW s, NEW t, IsSeq(s), IsSeq(t), Len(s) <= Len(t), \A i \in 1 .. Len(s) : s[i] = t[i]
  PROVE  IsPrefix(s, t) /\ (Len(s) = Len(t) => s = t)
<1>1. PICK S : s \in Seq(S)
  BY DEF IsSeq
<1>2. PICK T : t \in Seq(T)
  BY DEF IsSeq
<1>3. s \in Seq(S \union T) /\ t \in Seq(S \union T)
  BY <1>1, <1>2, SeqMonotonic
<1>4. Len(s) \in Nat /\ Len(t) \in Nat
  BY <1>1, <1>2, LenProperties
<1>5. PICK f, g, L : f = SubSeq(s, 1, L) /\ g = SubSeq(t, 1, L) /\ L = Len(s)
  OBVIOUS
<1>6. (\A i \in 1 .. L : s[i] \in S \union T) /\ (\A i \in 1 .. L : t[i] \in S \union T) /\ L \in Int /\ 1 \in Int
  BY <1>1, <1>2, <1>4, <1>5
<1>7. /\ f \in Seq(S \union T) /\ Len(f) = (IF 1 <= L THEN L - 1 + 1 ELSE 0)
      /\ \A i \in 1 .. L - 1 + 1 : f[i] = s[1 + i - 1]
  BY <1>5, <1>6, SubSeqProperties
<1>8. /\ g \in Seq(S \union T) /\ Len(g) = (IF 1 <= L THEN L - 1 + 1 ELSE 0)
      /\ \A i \in 1 .. L - 1 + 1 : g[i] = t[1 + i - 1]
  BY <1>5, <1>6, SubSeqProperties
<1>9. ASSUME NEW i \in 1 .. Len(f) PROVE f[i] = g[i]
  <2>1. i \in 1 .. L /\ i \in 1 .. L - 1 + 1 /\ 1 + i - 1 = i
    BY <1>4, <1>5, <1>7
  <2>2. f[i] = s[i] /\ g[i] = t[i]
    BY <1>7, <1>8, <2>1
  <2> QED BY <1>5, <2>1, <2>2
<1>10. f = g
  BY <1>7, <1>8, <1>9, SeqEqual
<1>11. IsPrefix(s, t)
  BY <1>5, <1>10 DEF IsPrefix
<1>12. Len(s) = Len(t) => s = t
  BY <1>3, SeqEqual
<1> QED BY <1>11, <1>12

\* However the bytes of a client are cut into chunks, and however often the
\* buffer grows and is compacted, the thread dispatches the client's commands in
\* their order, none is lost, split or repeated, it takes well-formed input for
\* no error, and it gives up on size only for a command that fits no buffer.
THEOREM FramingHolds == Spec => []Framing
<1>1. IInv /\ StreamsFramed => Framing
  <2> SUFFICES ASSUME IInv, StreamsFramed PROVE Framing
    OBVIOUS
  <2> DEFINE Here(k) ==
          /\ IsPrefix(k.dispatched, k.stream.commands)
          /\ k.base <= k.head /\ k.head <= k.rcv /\ k.rcv - k.base <= k.cap /\ k.cap <= MaxRecv
          /\ k.why \in {"quit", "protocol"} \/ (k.pc = "read" /\ k.rcv = Len(k.stream.bytes) /\ ~TooLarge(k.stream))
               => k.dispatched = k.stream.commands
          /\ k.why = "protocol" => k.stream.bad
          /\ k.why = "large" => TooLarge(k.stream)
          /\ k.stream.bad /\ k.rcv = Len(k.stream.bytes) => k.pc # "read"
  <2>1. ASSUME NEW c \in Clients, conn[c].pc # "closed" PROVE Here(conn[c])
    <3>1. PICK k : k = conn[c]
      OBVIOUS
    <3>2. Typed(k) /\ IsStream(k.stream) /\ Buffer(k)
      BY <2>1, <3>1 DEF IInv, TypeOK, StreamsFramed, Framed
    <3>3. PICK at : \E i : Placed(k, at, i)
      BY <2>1, <3>1 DEF StreamsFramed, Framed
    <3>4. PICK i : Placed(k, at, i)
      BY <3>3
    <3>5. IsSeq(k.dispatched) /\ IsSeq(k.stream.commands) /\ Len(k.dispatched) \in Nat
      BY <3>2, StreamType, AppendAt DEF Typed, IsSeq
    <3>6. IsCut(k.stream, at) /\ Used(k, at, i) /\ Control(k, at, i)
      BY <3>4 DEF Placed
    <3>7. /\ IsPrefix(k.dispatched, k.stream.commands)
          /\ Len(k.dispatched) = Len(k.stream.commands) => k.dispatched = k.stream.commands
      BY <3>5, <3>6, PrefixSent DEF Used
    <3>8. ASSUME k.pc = "read", k.rcv = Len(k.stream.bytes) PROVE i = Len(k.stream.ends)
      <4>1. PICK x, N : x = k.stream /\ N = Len(x.ends)
        OBVIOUS
      <4>2. N \in Nat /\ i \in 0 .. N /\ Waits(k, i)
        BY <3>2, <3>6, <3>8, <4>1, StreamType DEF Used, Control
      <4>3. ASSUME i # N PROVE FALSE
        <5>1. i < N /\ i + 1 \in 0 .. N
          BY <4>2, <4>3
        <5>2. k.rcv < PartEnd(x, i + 1)
          BY <4>1, <4>2, <5>1 DEF Waits
        <5>3. PartEnd(x, i + 1) \in Nat /\ PartEnd(x, i + 1) <= Len(x.bytes)
          BY <3>2, <4>1, <5>1, PartEnds
        <5>4. k.rcv \in Nat /\ k.rcv = Len(x.bytes)
          BY <3>2, <3>8, <4>1 DEF Buffer
        <5> QED BY <5>2, <5>3, <5>4
      <4> QED BY <4>1, <4>3
    <3>9. ASSUME k.pc = "read", k.rcv = Len(k.stream.bytes)
          PROVE  k.dispatched = k.stream.commands /\ ~k.stream.bad
      <4>1. i = Len(k.stream.ends) /\ Len(k.stream.ends) \in Nat
        BY <3>2, <3>8, <3>9, StreamType
      <4>2. \A m \in DOMAIN at : at[m] <= i
        <5>1. \A m \in DOMAIN at : at[m] \in 1 .. Len(k.stream.ends)
          BY <3>2, <3>6, StreamType DEF IsCut
        <5> QED BY <4>1, <5>1
      <4>3. Len(k.dispatched) = Len(k.stream.commands)
        BY <3>2, <3>5, <3>6, <4>2, AllUsed
      <4>4. ~(i < Len(k.stream.ends))
        BY <4>1
      <4> QED BY <3>6, <3>7, <4>3, <4>4 DEF Used
    <3>10. k.why \in {"quit", "protocol"} => k.dispatched = k.stream.commands
      BY <3>6, <3>7 DEF Control
    <3>11. /\ k.why = "protocol" => k.stream.bad
           /\ k.why = "large" => TooLarge(k.stream)
      BY <3>6 DEF Control
    <3>12. k.base <= k.head /\ k.head <= k.rcv /\ k.rcv - k.base <= k.cap /\ k.cap <= MaxRecv
      BY <3>2 DEF Buffer
    <3>13. Here(k)
      BY <3>7, <3>9, <3>10, <3>11, <3>12
    <3> QED BY <3>1, <3>13
  <2> QED BY <2>1 DEF Framing
<1>2. Init => StreamsFramed
  BY DEF Init, Closed, StreamsFramed
<1> QED BY InitIInv, NextIInv, NextFramed, <1>1, <1>2, PTL DEF Spec
=============================================================================
