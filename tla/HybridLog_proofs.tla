--------------------------- MODULE HybridLog_proofs ---------------------------
(***************************************************************************)
(* Proofs about HybridLog, for any number of threads, any sizes of pages,  *)
(* of the buffer and of records, and any bounds.  Of the epoch they use    *)
(* what DeferredReclamation promises.                                      *)
(***************************************************************************)
EXTENDS HybridLog, TLAPS

Words == 0 .. 2

Labels == {"out", "in", "loading", "ready", "access", "alloc", "turn", "turned",
           "shift_ro", "clamp", "shift_head", "init", "done", "later",
           "retry", "fold", "wait_flushed"}

TypeOK ==
  /\ tail \in Nat
  /\ closed \in Nat /\ safe_head \in Nat /\ head \in Nat
  /\ flushed \in Nat /\ safe_read_only \in Nat /\ read_only \in Nat
  /\ mem \in [0 .. BufferSize - 1 -> [0 .. PageSize - 1 -> Words]]
  /\ disk \in [Address -> Words] /\ written \in [Address -> Words]
  /\ used \in SUBSET Nat
  /\ DOMAIN stale = Threads /\ DOMAIN retired = Jobs
  /\ pc \in [Threads -> Labels]
  /\ size \in [Threads -> Nat] /\ page \in [Threads -> Nat]
  /\ addr \in [Threads -> Nat] /\ clamp \in [Threads -> Nat]
  /\ view_head \in [Threads -> Nat] /\ view_read_only \in [Threads -> Nat]

-----------------------------------------------------------------------------
(* The tail.                                                               *)

Turning(t) == pc[t] \in {"turn", "turned"}

\* While the tail is past the end of its page one thread turns that page.
OneTurner ==
  \A t \in Threads : Turning(t) =>
    /\ page[t] = tail_page /\ tail_off > PageSize
    /\ \A u \in Threads : Turning(u) => u = t

Sized ==
  \A t \in Threads :
    pc[t] \in {"alloc", "turn", "turned", "shift_ro", "clamp", "shift_head",
               "later", "retry"} => size[t] \in Sizes

UsedBelow == \A a \in used : a < TailEnd

Shifting(t) == pc[t] \in {"shift_ro", "clamp", "shift_head"}

\* A thread that holds the address of a record it has allocated.
Owner(t) == pc[t] \in {"init", "done"} \/ (Shifting(t) /\ addr[t] # 0)

EmptyHanded ==
  \A t \in Threads :
    pc[t] \in {"out", "in", "loading", "ready", "alloc", "turn", "turned",
               "later", "retry"} => addr[t] = 0

-----------------------------------------------------------------------------
(* The watermarks: each job and each thread on its way to move one holds   *)
(* an address the next watermark has reached.                              *)

Published ==
  \A a \in Marks :
    /\ retired[<<"read_only", a>>] # "no" => a <= read_only
    /\ retired[<<"head", a>>] # "no" => a <= head

Running ==
  \A a \in Marks :
    /\ <<"read_only", a>> \in running => a <= safe_read_only
    /\ <<"head", a>> \in running => a <= safe_head

Flushing ==
  flush # None =>
    /\ DOMAIN flush = {"at", "until"}
    /\ flush.at \in Nat /\ flush.until \in Nat
    /\ flushed <= flush.at /\ flush.at <= flush.until
    /\ flush.until <= safe_read_only

InHand ==
  \A t \in Threads :
    /\ Shifting(t) => At(page[t] + 1, 0) <= TailEnd
    /\ pc[t] = "fold" => addr[t] <= TailEnd
    /\ pc[t] = "shift_head" => clamp[t] <= flushed

Order == WatermarkOrder /\ UsedBelow /\ Published /\ Running /\ Flushing /\ InHand

-----------------------------------------------------------------------------
(* The epoch: the safe watermarks stay below what a thread has loaded or   *)
(* allocated, since the job that would move one past it waits for it.      *)

Inside ==
  \A t \in Threads :
    pc[t] \notin {"out", "retry", "fold", "wait_flushed"} => t \in inside

Floor(kind, safe, ret, mine, f) ==
  /\ safe <= f
  /\ \A a \in Marks : ret[<<kind, a>>] # "no" /\ a > f => <<kind, a>> \in mine

HeadFloor(t, f) == Floor("head", safe_head, retired, stale[t], f)
ReadOnlyFloor(t, f) == Floor("read_only", safe_read_only, retired, stale[t], f)

Floors ==
  \A t \in Threads :
    /\ pc[t] \in {"loading", "ready", "access"} => HeadFloor(t, view_head[t])
    /\ pc[t] \in {"ready", "access"} => ReadOnlyFloor(t, view_read_only[t])
    /\ Owner(t) => ReadOnlyFloor(t, addr[t])

-----------------------------------------------------------------------------
(* Memory and the device.                                                  *)

Held ==
  \A t \in Threads :
    /\ pc[t] = "access" => /\ addr[t] \in Address /\ written[addr[t]] # 0
                           /\ addr[t] >= view_head[t]
    /\ Owner(t) => addr[t] \in used

WrittenUsed == \A a \in Address : written[a] # 0 => a \in used

\* The page that shared p's frame is closed.
Room(p) == At(p + 1 - BufferSize, 0) <= closed

Window ==
  /\ Room(tail_page)
  /\ \A t \in Threads : pc[t] = "turned" =>
       /\ Room(page[t] + 1)
       /\ \A o \in 0 .. PageSize - 1 : mem[frame_of(page[t] + 1)][o] = 0

\* From SafeHead to the end of the tail's page, memory has the last word.
InMemory ==
  \A a \in Address :
    safe_head <= a /\ a < At(tail_page + 1, 0) => record_at(a) = written[a]

OnDevice ==
  \A a \in Address :
    a < flushed \/ (flush # None /\ a < flush.at) => disk[a] = written[a]

Memory == Held /\ WrittenUsed /\ Window /\ InMemory /\ OnDevice

IInv ==
  /\ TypeOK /\ OneTurner /\ Sized /\ EmptyHanded /\ Order
  /\ Inside /\ Floors /\ Memory

USE PageSizeAssumption, BufferSizeAssumption, MutablePagesAssumption

-----------------------------------------------------------------------------
(* Pages, offsets and frames.                                              *)

LEMMA TimesMonotone ==
  ASSUME NEW x \in Int, NEW y \in Int, NEW c \in Nat, x <= y
  PROVE  x * c <= y * c
  OBVIOUS

LEMMA TimesNext ==
  ASSUME NEW x \in Int, NEW c \in Nat
  PROVE  (x + 1) * c = x * c + c
  OBVIOUS

LEMMA Division ==
  ASSUME NEW a \in Nat, NEW c \in Nat, c > 0
  PROVE  /\ a \div c \in Nat /\ a % c \in Nat /\ a % c < c
         /\ a = (a \div c) * c + (a % c)
  OBVIOUS

\* A quotient and a remainder are the only ones.
LEMMA DivisionUnique ==
  ASSUME NEW p \in Int, NEW q \in Int, NEW r \in Nat, NEW s \in Nat,
         NEW c \in Nat, r < c, s < c, p * c + r = q * c + s
  PROVE  p = q /\ r = s
<1>1. ASSUME NEW x \in Int, NEW y \in Int, NEW v \in Nat, NEW w \in Nat,
             v < c, w < c, x * c + v = y * c + w
      PROVE  ~(x <= y - 1)
  <2> SUFFICES ASSUME x <= y - 1 PROVE FALSE
    OBVIOUS
  <2>1. (x + 1) * c <= y * c
    BY TimesMonotone
  <2> DEFINE X == x * c
             Y == y * c
             Z == (x + 1) * c
  <2>2. X \in Int /\ Y \in Int /\ Z \in Int /\ X + v = Y + w /\ Z <= Y /\ Z = X + c
    BY <1>1, <2>1, TimesNext
  <2> HIDE DEF X, Y, Z
  <2> QED
    BY <1>1, <2>2
<1>2. p = q
  BY <1>1
<1>3. r = s
  <2> DEFINE P == p * c
  <2>1. P \in Int /\ P + r = P + s
    BY <1>2
  <2> HIDE DEF P
  <2> QED
    BY <2>1
<1> QED
  BY <1>2, <1>3

LEMMA AtFacts ==
  ASSUME NEW p \in Int, NEW off \in Int
  PROVE  /\ At(p, 0) \in Int /\ At(p, off) = At(p, 0) + off
         /\ At(p + 1, 0) = At(p, 0) + PageSize
  BY TimesNext DEF At

LEMMA AtNat ==
  ASSUME NEW p \in Nat
  PROVE  At(p, 0) \in Nat
  BY DEF At

LEMMA AtMonotone ==
  ASSUME NEW p \in Int, NEW q \in Int, p <= q
  PROVE  At(p, 0) <= At(q, 0)
  BY TimesMonotone DEF At

LEMMA AtZero == At(0, 0) = 0
  BY DEF At

\* Where an address lies.
LEMMA PageOf ==
  ASSUME NEW a \in Nat
  PROVE  /\ page_of(a) \in Nat /\ a % PageSize \in 0 .. PageSize - 1
         /\ a = At(page_of(a), 0) + (a % PageSize)
         /\ At(page_of(a), 0) <= a /\ a < At(page_of(a) + 1, 0)
<1>1. /\ page_of(a) \in Nat /\ a % PageSize \in Nat /\ a % PageSize < PageSize
      /\ a = At(page_of(a), 0) + (a % PageSize)
  BY Division DEF page_of, At
<1>2. /\ At(page_of(a) + 1, 0) = At(page_of(a), 0) + PageSize
      /\ At(page_of(a), 0) \in Int
  BY <1>1, AtFacts
<1> QED
  BY <1>1, <1>2

LEMMA PageBelow ==
  ASSUME NEW a \in Nat, NEW p \in Int, a < At(p + 1, 0)
  PROVE  page_of(a) <= p
<1> SUFFICES ASSUME p + 1 <= page_of(a) PROVE FALSE
  BY PageOf
<1>1. At(p + 1, 0) <= At(page_of(a), 0) /\ At(page_of(a), 0) <= a
  BY PageOf, AtMonotone
<1>2. At(p + 1, 0) \in Int /\ At(page_of(a), 0) \in Int
  BY PageOf, AtFacts
<1> QED
  BY <1>1, <1>2

LEMMA PageAbove ==
  ASSUME NEW a \in Nat, NEW p \in Int, At(p, 0) <= a
  PROVE  p <= page_of(a)
<1> SUFFICES ASSUME page_of(a) + 1 <= p PROVE FALSE
  BY PageOf
<1>1. At(page_of(a) + 1, 0) <= At(p, 0) /\ a < At(page_of(a) + 1, 0)
  BY PageOf, AtMonotone
<1>2. At(p, 0) \in Int /\ At(page_of(a) + 1, 0) \in Int
  BY PageOf, AtFacts
<1> QED
  BY <1>1, <1>2

\* The offset of an address given as a page and an offset.
LEMMA OffsetAt ==
  ASSUME NEW p \in Nat, NEW off \in 0 .. PageSize - 1
  PROVE  At(p, off) \in Nat /\ At(p, off) % PageSize = off
<1> DEFINE a == At(p, off)
           q == page_of(a)
           r == a % PageSize
<1>1. a \in Nat
  BY AtNat, AtFacts
<1>2. q \in Nat /\ r \in 0 .. PageSize - 1 /\ a = At(q, 0) + r
  BY <1>1, PageOf
<1>3. p * PageSize + off = q * PageSize + r
  <2>1. a = p * PageSize + off
    BY DEF At
  <2>2. At(q, 0) = q * PageSize
    BY <1>2 DEF At
  <2> HIDE DEF a, q, r
  <2> QED
    BY <1>2, <2>1, <2>2
<1> HIDE DEF a, q, r
<1>4. r = off
  BY <1>2, <1>3, DivisionUnique
<1> QED
  BY <1>1, <1>4 DEF a, r

\* Pages less than a buffer apart are in different frames.
LEMMA FramesDiffer ==
  ASSUME NEW p \in Nat, NEW q \in Nat, p < q, q < p + BufferSize
  PROVE  frame_of(p) # frame_of(q)
<1> SUFFICES ASSUME p % BufferSize = q % BufferSize PROVE FALSE
  BY DEF frame_of
<1> DEFINE x == p \div BufferSize
           y == q \div BufferSize
           r == p % BufferSize
           d == q - p
<1>1. /\ x \in Nat /\ y \in Nat /\ r \in Nat /\ r < BufferSize
      /\ p = x * BufferSize + r /\ q = y * BufferSize + r
  BY Division
<1>2. d \in Nat /\ d < BufferSize /\ q = p + d /\ d > 0
  OBVIOUS
<1> HIDE DEF x, y, r, d
<1>3. x * BufferSize + d = y * BufferSize + 0
  BY <1>1, <1>2
<1>4. d = 0
  BY <1>1, <1>2, <1>3, DivisionUnique
<1> QED
  BY <1>2, <1>4

LEMMA FrameType ==
  ASSUME NEW p \in Nat
  PROVE  frame_of(p) \in 0 .. BufferSize - 1
  BY Division DEF frame_of

-----------------------------------------------------------------------------
(* The packed tail.                                                        *)

LEMMA PackFacts ==
  ASSUME NEW p \in Nat, NEW off \in Nat, off < OffsetLimit
  PROVE  /\ pack(p, off) \in Nat
         /\ pack(p, off) \div OffsetLimit = p /\ pack(p, off) % OffsetLimit = off
<1> DEFINE w == pack(p, off)
<1>1. w \in Nat /\ w = p * OffsetLimit + off
  BY OffsetAssumption DEF pack
<1>2. /\ w \div OffsetLimit \in Nat /\ w % OffsetLimit \in Nat
      /\ w % OffsetLimit < OffsetLimit
      /\ w = (w \div OffsetLimit) * OffsetLimit + (w % OffsetLimit)
  BY <1>1, Division, OffsetAssumption
<1> HIDE DEF w
<1>3. w \div OffsetLimit = p /\ w % OffsetLimit = off
  BY <1>1, <1>2, DivisionUnique, OffsetAssumption
<1> QED
  BY <1>1, <1>3 DEF w

LEMMA TailAdd ==
  ASSUME NEW w \in Nat, NEW s \in Nat, (w % OffsetLimit) + s < OffsetLimit
  PROVE  /\ (w + s) \div OffsetLimit = w \div OffsetLimit
         /\ (w + s) % OffsetLimit = (w % OffsetLimit) + s
<1> DEFINE p == w \div OffsetLimit
           off == w % OffsetLimit
<1>1. p \in Nat /\ off \in Nat /\ w = p * OffsetLimit + off
  BY Division, OffsetAssumption
<1>2. w + s = pack(p, off + s)
  BY <1>1, OffsetAssumption DEF pack
<1>3. off + s \in Nat /\ off + s < OffsetLimit
  BY <1>1
<1> HIDE DEF p, off
<1>4. (w + s) \div OffsetLimit = p /\ (w + s) % OffsetLimit = off + s
  BY <1>1, <1>2, <1>3, PackFacts
<1> QED
  BY <1>4 DEF p, off

\* What the watermarks and the history are compared with.
LEMMA TailFacts ==
  ASSUME TypeOK
  PROVE  /\ tail_page \in Nat /\ tail_off \in Nat /\ tail_off < OffsetLimit
         /\ TailEnd \in Nat /\ At(tail_page, 0) \in Nat
         /\ tail_off <= PageSize => TailEnd = At(tail_page, 0) + tail_off
         /\ tail_off >= PageSize => TailEnd = At(tail_page, 0) + PageSize
         /\ TailEnd <= At(tail_page + 1, 0)
         /\ At(tail_page + 1, 0) = At(tail_page, 0) + PageSize
<1>1. tail_page \in Nat /\ tail_off \in Nat /\ tail_off < OffsetLimit
  <2>1. tail \in Nat /\ OffsetLimit \in Nat /\ OffsetLimit > 0
    BY OffsetAssumption DEF TypeOK
  <2> QED
    BY <2>1, Division DEF tail_page, tail_off
<1>2. At(tail_page, 0) \in Nat
  BY <1>1, AtNat
<1>3. Lower(tail_off, PageSize) \in Nat /\ Lower(tail_off, PageSize) <= PageSize
      /\ (tail_off <= PageSize => Lower(tail_off, PageSize) = tail_off)
      /\ (tail_off >= PageSize => Lower(tail_off, PageSize) = PageSize)
  BY <1>1 DEF Lower
<1>4. TailEnd = At(tail_page, 0) + Lower(tail_off, PageSize)
  BY <1>1, <1>3, AtFacts DEF TailEnd
<1>5. At(tail_page + 1, 0) = At(tail_page, 0) + PageSize
  BY <1>1, AtFacts
<1> QED
  BY <1>1, <1>2, <1>3, <1>4, <1>5

\* The end of the tail after a step that leaves it at page p, offset off.
LEMMA EndOf ==
  ASSUME NEW p \in Nat, NEW off \in Nat
  PROVE  /\ off <= PageSize => At(p, Lower(off, PageSize)) = At(p, 0) + off
         /\ off >= PageSize => At(p, Lower(off, PageSize)) = At(p, 0) + PageSize
<1>1. /\ Lower(off, PageSize) \in Int
      /\ off <= PageSize => Lower(off, PageSize) = off
      /\ off >= PageSize => Lower(off, PageSize) = PageSize
  BY DEF Lower
<1>2. At(p, Lower(off, PageSize)) = At(p, 0) + Lower(off, PageSize)
  BY <1>1, AtFacts
<1> QED
  BY <1>1, <1>2

LEMMA SizeFacts ==
  ASSUME NEW s \in Sizes
  PROVE  s \in Nat /\ s >= 1 /\ s <= PageSize - 1
  BY SizesAssumption

LEMMA TailFits ==
  ASSUME TypeOK, Sized, NEW t \in Threads, fetch_add_fits(t)
  PROVE  /\ tail' \in Nat /\ tail_page' = tail_page
         /\ tail_off' = tail_off + size[t] /\ tail_off' <= PageSize
         /\ TailEnd' = TailEnd + size[t] /\ size[t] \in Sizes
         /\ addr'[t] = TailEnd /\ addr'[t] = At(tail_page, tail_off)
<1>1. size[t] \in Sizes
  BY DEF Sized, fetch_add_fits, Goto
<1>2. /\ size[t] \in Nat /\ tail \in Nat /\ OffsetLimit > PageSize
      /\ OffsetLimit \in Nat
  BY <1>1, SizeFacts, OffsetAssumption DEF TypeOK
<1>3. tail' = tail + size[t] /\ tail_off + size[t] <= PageSize
  BY DEF fetch_add_fits, Fits
<1>4. tail_page' = tail_page /\ tail_off' = tail_off + size[t]
  <2>1. (tail % OffsetLimit) + size[t] < OffsetLimit
    BY <1>2, <1>3, TailFacts DEF tail_off
  <2> QED
    BY <1>2, <1>3, <2>1, TailAdd DEF tail_page, tail_off
<1>5. TailEnd' = At(tail_page, Lower(tail_off + size[t], PageSize))
  BY <1>4 DEF TailEnd
<1>6. TailEnd' = At(tail_page, 0) + (tail_off + size[t])
  BY <1>2, <1>3, <1>5, TailFacts, EndOf
<1>7. TailEnd = At(tail_page, tail_off) /\ TailEnd = At(tail_page, 0) + tail_off
  <2>1. TailEnd = At(tail_page, 0) + tail_off
    BY <1>2, <1>3, TailFacts
  <2>2. At(tail_page, tail_off) = At(tail_page, 0) + tail_off
    BY TailFacts, AtFacts
  <2> QED
    BY <2>1, <2>2
<1>8. addr'[t] = At(tail_page, tail_off)
  BY DEF fetch_add_fits, Take, TypeOK
<1>9. TailEnd' = TailEnd + size[t]
  <2>1. At(tail_page, 0) \in Nat /\ tail_off \in Nat /\ size[t] \in Nat
    BY <1>2, TailFacts
  <2> QED
    BY <1>6, <1>7, <2>1
<1>10. tail' \in Nat /\ tail_off' <= PageSize
  BY <1>2, <1>3, <1>4
<1> QED
  BY <1>1, <1>4, <1>7, <1>8, <1>9, <1>10

LEMMA TailPast ==
  ASSUME TypeOK, Sized, NEW t \in Threads,
         fetch_add_spins(t) \/ fetch_add_crosses(t)
  PROVE  /\ tail' \in Nat /\ tail_page' = tail_page /\ tail_off' > PageSize
         /\ TailEnd' = At(tail_page + 1, 0)
         /\ TailEnd <= TailEnd' /\ TailEnd' \in Nat
<1>1. size[t] \in Sizes
  BY DEF Sized, fetch_add_spins, fetch_add_crosses, Goto
<1>2. /\ size[t] \in Nat /\ tail \in Nat /\ OffsetLimit \in Nat
      /\ size[t] <= PageSize - 1
  BY <1>1, SizeFacts, OffsetAssumption DEF TypeOK
<1>3. /\ tail' = tail + size[t] /\ tail_off + size[t] > PageSize
      /\ tail_off + size[t] <= MaxOffset \/ tail_off <= PageSize
  BY <1>2, TailFacts DEF fetch_add_spins, fetch_add_crosses, Fits
<1>4. tail_page' = tail_page /\ tail_off' = tail_off + size[t]
  <2>1. (tail % OffsetLimit) + size[t] < OffsetLimit
    BY <1>2, <1>3, TailFacts, OffsetAssumption, MaxOffsetAssumption
       DEF tail_off
  <2> QED
    BY <1>2, <1>3, <2>1, TailAdd DEF tail_page, tail_off
<1>5. TailEnd' = At(tail_page, Lower(tail_off + size[t], PageSize))
  BY <1>4 DEF TailEnd
<1>6. TailEnd' = At(tail_page, 0) + PageSize
  BY <1>2, <1>3, <1>5, TailFacts, EndOf
<1> QED
  BY <1>2, <1>3, <1>4, <1>6, TailFacts

LEMMA TailBlocked ==
  ASSUME TypeOK, OneTurner, NEW t \in Threads, turn_blocked(t)
  PROVE  /\ tail' \in Nat /\ page[t] = tail_page
         /\ tail_page' = tail_page /\ tail_off' = PageSize
         /\ TailEnd' = TailEnd /\ TailEnd = At(page[t] + 1, 0)
<1>1. page[t] = tail_page /\ tail_off > PageSize /\ page[t] \in Nat
  BY DEF OneTurner, Turning, turn_blocked, TypeOK
<1>2. tail' = pack(page[t], PageSize)
  BY DEF turn_blocked
<1>3. tail' \in Nat /\ tail_page' = page[t] /\ tail_off' = PageSize
  BY <1>1, <1>2, PackFacts, OffsetAssumption DEF tail_page, tail_off
<1>4. TailEnd' = At(page[t], Lower(PageSize, PageSize))
  BY <1>3 DEF TailEnd
<1>5. TailEnd' = At(page[t], 0) + PageSize
  BY <1>1, <1>4, EndOf
<1> QED
  BY <1>1, <1>3, <1>5, TailFacts

LEMMA TailPublish ==
  ASSUME TypeOK, OneTurner, Sized, NEW t \in Threads, turn_publish(t)
  PROVE  /\ tail' \in Nat /\ page[t] = tail_page
         /\ tail_page' = tail_page + 1 /\ tail_off' = 1 + size[t]
         /\ size[t] \in Sizes /\ tail_off' <= PageSize
         /\ TailEnd = At(page[t] + 1, 0)
         /\ TailEnd' = TailEnd + 1 + size[t]
         /\ addr'[t] = TailEnd + 1 /\ addr'[t] = At(page[t] + 1, 1)
<1>1. page[t] = tail_page /\ tail_off > PageSize /\ page[t] \in Nat
  BY DEF OneTurner, Turning, turn_publish, Goto, TypeOK
<1>2. size[t] \in Sizes
  BY DEF Sized, turn_publish, Goto
<1>3. size[t] \in Nat /\ 1 + size[t] <= PageSize
  BY <1>2, SizeFacts
<1>4. tail' = pack(page[t] + 1, 1 + size[t])
  BY DEF turn_publish, FIRST_VALID_ADDRESS
<1>5. tail' \in Nat /\ tail_page' = page[t] + 1 /\ tail_off' = 1 + size[t]
  <2>1. page[t] + 1 \in Nat /\ 1 + size[t] \in Nat /\ 1 + size[t] < OffsetLimit
    BY <1>1, <1>3, OffsetAssumption
  <2> QED
    BY <1>4, <2>1, PackFacts DEF tail_page, tail_off
<1>6. TailEnd' = At(page[t] + 1, Lower(1 + size[t], PageSize))
  BY <1>5 DEF TailEnd
<1>7. TailEnd' = At(page[t] + 1, 0) + (1 + size[t])
  BY <1>1, <1>3, <1>6, EndOf
<1>8. TailEnd = At(page[t] + 1, 0) /\ TailEnd \in Nat
  BY <1>1, TailFacts
<1>9. addr'[t] = At(page[t] + 1, 1)
  BY DEF turn_publish, Take, TypeOK, FIRST_VALID_ADDRESS
<1>10. At(page[t] + 1, 1) = At(page[t] + 1, 0) + 1
  BY <1>1, AtFacts
<1> QED
  BY <1>1, <1>2, <1>3, <1>5, <1>7, <1>8, <1>9, <1>10

\* No step takes the tail back.
LEMMA TailMoves ==
  ASSUME TypeOK, OneTurner, Sized, Next
  PROVE  /\ tail' \in Nat /\ TailEnd' \in Nat /\ TailEnd <= TailEnd'
         /\ tail_page' = tail_page
              \/ (tail_page' = tail_page + 1 /\ \E t \in Threads : turn_publish(t))
<1>1. CASE UNCHANGED tail
  BY <1>1, TailFacts DEF TypeOK, TailEnd, tail_page, tail_off
<1>2. ASSUME NEW t \in Threads,
             \/ fetch_add_fits(t) \/ fetch_add_spins(t) \/ fetch_add_crosses(t)
             \/ turn_blocked(t) \/ turn_publish(t)
      PROVE  /\ tail' \in Nat /\ TailEnd' \in Nat /\ TailEnd <= TailEnd'
             /\ tail_page' = tail_page
                  \/ (tail_page' = tail_page + 1 /\ \E u \in Threads : turn_publish(u))
  BY <1>2, TailFits, TailPast, TailBlocked, TailPublish, TailFacts, SizeFacts
<1> QED
  BY <1>1, <1>2 DEF Next, inner_step, call_step, alloc_step, job_step, protect,
     head_address, read_only_address, find, update_in_place, init_record,
     unprotect, allocate_record, turn_zero, shift_read_only_address, clamp_head,
     shift_head_address, load_tail_address, shift_read_only_to_tail,
     wait_flushed, on_pages_marked_read_only, flush_start, flush_page,
     flush_fails, flush_done, on_pages_closed, close_page

-----------------------------------------------------------------------------
(* Types.                                                                  *)

LEMMA AddressNat == Address \subseteq Nat /\ Marks \subseteq Nat
  BY BoundsAssumption DEF Address, Marks

\* issue_shift_addresses never aims past the page that follows page n.
LEMMA Desired ==
  ASSUME NEW n \in Nat
  PROVE  /\ desired_head(n + 1) \in Nat /\ desired_head(n + 1) <= At(n + 1, 0)
         /\ desired_read_only(n + 1) \in Nat
         /\ desired_read_only(n + 1) <= At(n + 1, 0)
<1> DEFINE h == Higher(n + 1 + 2 - BufferSize, 0)
           r == Higher(n + 1 + 1 - MutablePages, 0)
<1>1. h \in Nat /\ h <= n + 1 /\ r \in Nat /\ r <= n + 1
  BY DEF Higher
<1>2. desired_head(n + 1) = h * PageSize
  BY DEF desired_head
<1>3. desired_read_only(n + 1) = Higher(r * PageSize, h * PageSize)
  BY <1>2 DEF desired_read_only
<1> HIDE DEF h, r
<1>4. /\ h * PageSize \in Nat /\ h * PageSize <= (n + 1) * PageSize
      /\ r * PageSize \in Nat /\ r * PageSize <= (n + 1) * PageSize
  BY <1>1, TimesMonotone
<1>5. At(n + 1, 0) = (n + 1) * PageSize
  BY DEF At
<1> QED
  BY <1>2, <1>3, <1>4, <1>5 DEF Higher

LEMMA HigherLower ==
  ASSUME NEW a \in Nat, NEW b \in Nat
  PROVE  /\ Higher(a, b) \in Nat /\ Higher(a, b) >= a /\ Higher(a, b) >= b
         /\ Higher(a, b) = a \/ Higher(a, b) = b
         /\ Lower(a, b) \in Nat /\ Lower(a, b) <= a /\ Lower(a, b) <= b
         /\ Lower(a, b) = a \/ Lower(a, b) = b
  BY DEF Higher, Lower

LEMMA StoreType ==
  ASSUME TypeOK, NEW a \in Nat, NEW v \in Words, Store(a, v)
  PROVE  /\ mem' \in [0 .. BufferSize - 1 -> [0 .. PageSize - 1 -> Words]]
         /\ written' \in [Address -> Words] /\ disk' \in [Address -> Words]
         /\ disk' = disk
         /\ \A b \in Address : written'[b] = IF b = a THEN v ELSE written[b]
         /\ \A f \in 0 .. BufferSize - 1, o \in 0 .. PageSize - 1 :
              mem'[f][o] = IF f = frame_of(page_of(a)) /\ o = a % PageSize
                             THEN v ELSE mem[f][o]
<1>1. /\ frame_of(page_of(a)) \in 0 .. BufferSize - 1
      /\ a % PageSize \in 0 .. PageSize - 1
  BY PageOf, FrameType
<1> HIDE DEF Words
<1> QED
  BY <1>1 DEF TypeOK, Store

LEMMA TypeStep == ASSUME IInv, Next PROVE TypeOK'
<1> USE DEF IInv
<1>t. tail' \in Nat
  BY TailMoves
<1>a. ASSUME NEW t \in Threads,
             \/ protect(t) \/ head_address(t) \/ read_only_address(t) \/ find(t)
             \/ unprotect(t) \/ wait_flushed(t)
      PROVE  TypeOK'
  <2>1. Address \subseteq Nat
    BY AddressNat
  <2>2. CASE protect(t)
    BY <1>t, <2>2 DEF TypeOK, protect, marks, data, jobs, locals, Labels,
       Epoch!Enter
  <2>3. CASE head_address(t)
    BY <1>t, <2>3 DEF TypeOK, head_address, Goto, marks, data, jobs, epoch, Labels
  <2>6. CASE read_only_address(t)
    BY <1>t, <2>6 DEF TypeOK, read_only_address, Goto, marks, data, jobs, epoch,
       Labels
  <2>4. CASE find(t)
    <3>1. addr' \in [Threads -> Nat] /\ pc' \in [Threads -> Labels]
      BY <2>1, <2>4 DEF TypeOK, find, Goto, Labels
    <3> QED
      BY <1>t, <2>4, <3>1 DEF TypeOK, find, marks, data, jobs, epoch
  <2>7. CASE wait_flushed(t)
    BY <1>t, <2>7 DEF TypeOK, wait_flushed, Goto, marks, data, jobs, epoch, Labels
  <2>5. CASE unprotect(t)
    <3>1. size' \in [Threads -> Nat] /\ pc' \in [Threads -> Labels]
      BY <2>5 DEF TypeOK, unprotect, Labels
    <3> QED
      BY <1>t, <2>5, <3>1 DEF TypeOK, unprotect, marks, data, jobs, Epoch!Leave
  <2> QED
    BY <1>a, <2>2, <2>3, <2>4, <2>5, <2>6, <2>7
<1>b. ASSUME NEW t \in Threads, update_in_place(t) \/ init_record(t)
      PROVE  TypeOK'
  <2>1. \E v \in Words : Store(addr[t], v)
    BY <1>b DEF update_in_place, init_record, Words
  <2>2. /\ mem' \in [0 .. BufferSize - 1 -> [0 .. PageSize - 1 -> Words]]
        /\ written' \in [Address -> Words] /\ disk' \in [Address -> Words]
    BY <2>1, StoreType DEF TypeOK
  <2> HIDE DEF Words
  <2>3. pc' \in [Threads -> Labels]
    BY <1>b DEF TypeOK, update_in_place, init_record, Goto, Labels
  <2> QED
    BY <1>b, <1>t, <2>2, <2>3 DEF TypeOK, update_in_place, init_record, marks,
       jobs, locals, epoch
<1>c. ASSUME NEW t \in Threads, allocate_record(t) PROVE TypeOK'
  BY <1>c, <1>t, SizeFacts DEF TypeOK, allocate_record, Goto, marks, data, jobs,
     epoch, Labels
<1>d. ASSUME NEW t \in Threads, fetch_add_fits(t) \/ turn_publish(t) PROVE TypeOK'
  <2>1. \E a \in Nat : Take(t, a) /\ size[t] \in Nat
    <3>1. CASE fetch_add_fits(t)
      BY <3>1, TailFits, TailFacts DEF fetch_add_fits, TypeOK
    <3>2. CASE turn_publish(t)
      <4>1. At(page[t] + 1, 1) \in Nat
        BY <3>2, TailPublish, TailFacts
      <4> QED
        BY <3>2, <4>1 DEF turn_publish, TypeOK, FIRST_VALID_ADDRESS
    <3> QED
      BY <1>d, <3>1, <3>2
  <2>2. used' \in SUBSET Nat /\ addr' \in [Threads -> Nat]
    <3>1. PICK a \in Nat : Take(t, a) /\ size[t] \in Nat
      BY <2>1
    <3>2. a .. a + size[t] - 1 \subseteq Nat
      BY <3>1
    <3> QED
      BY <3>1, <3>2 DEF Take, TypeOK
  <2> QED
    BY <1>d, <1>t, <2>2 DEF TypeOK, fetch_add_fits, turn_publish, Goto, marks,
       data, jobs, epoch, Labels
<1>e. ASSUME NEW t \in Threads,
             \/ fetch_add_spins(t) \/ fetch_add_crosses(t) \/ turn_blocked(t)
      PROVE  TypeOK'
  <2>1. tail_page \in Nat
    BY TailFacts
  <2>2. CASE fetch_add_spins(t) \/ turn_blocked(t)
    BY <1>t, <2>2 DEF TypeOK, fetch_add_spins, turn_blocked, marks, data, jobs,
       locals, epoch, Labels
  <2>3. CASE fetch_add_crosses(t)
    BY <1>t, <2>1, <2>3 DEF TypeOK, fetch_add_crosses, Goto, marks, data, jobs,
       epoch, Labels
  <2> QED
    BY <1>e, <2>2, <2>3
<1>f. ASSUME NEW t \in Threads, turn_zero(t) PROVE TypeOK'
  <2>1. frame_of(page[t] + 1) \in 0 .. BufferSize - 1
    <3>1. page[t] + 1 \in Nat
      BY DEF TypeOK
    <3> QED
      BY <3>1, FrameType
  <2>2. mem' \in [0 .. BufferSize - 1 -> [0 .. PageSize - 1 -> Words]]
    BY <1>f, <2>1 DEF TypeOK, turn_zero, Words
  <2> HIDE DEF Words
  <2> QED
    BY <1>f, <1>t, <2>2 DEF TypeOK, turn_zero, marks, jobs, locals, epoch, Labels
<1>g. ASSUME NEW t \in Threads,
             shift_read_only_address(t) \/ shift_read_only_to_tail(t)
      PROVE  TypeOK'
  <2>1. \E a \in Nat : Publish_read_only(a)
    BY <1>g, Desired DEF shift_read_only_address, shift_read_only_to_tail, TypeOK
  <2>2. read_only' \in Nat /\ DOMAIN stale' = Threads /\ DOMAIN retired' = Jobs
    BY <2>1 DEF Publish_read_only, TypeOK, epoch, Epoch!Retire
  <2> QED
    BY <1>g, <1>t, <2>2 DEF TypeOK, shift_read_only_address,
       shift_read_only_to_tail, Goto, data, jobs, locals, Labels
<1>h. ASSUME NEW t \in Threads, clamp_head(t) PROVE TypeOK'
  <2>1. Lower(desired_head(page[t] + 1), flushed) \in Nat
    BY Desired, HigherLower DEF TypeOK
  <2> QED
    BY <1>h, <1>t, <2>1 DEF TypeOK, clamp_head, Goto, marks, data, jobs, epoch,
       Labels
<1>i. ASSUME NEW t \in Threads, shift_head_address(t) PROVE TypeOK'
  BY <1>i, <1>t DEF TypeOK, shift_head_address, Goto, data, jobs, epoch, Labels,
     Epoch!Retire
<1>j. ASSUME NEW t \in Threads, load_tail_address(t) PROVE TypeOK'
  <2>1. tail_address \in Nat
    <3>1. /\ tail_page \in Nat /\ tail_off \in Nat /\ At(tail_page, 0) \in Nat
          /\ At(tail_page, tail_off) = At(tail_page, 0) + tail_off
      BY TailFacts, AtFacts
    <3> QED
      BY <3>1 DEF tail_address
  <2> QED
    BY <1>j, <1>t, <2>1 DEF TypeOK, load_tail_address, Goto, marks, data, jobs,
       epoch, Labels
<1>k. ASSUME NEW a \in Marks,
             \/ on_pages_marked_read_only(a) \/ flush_start(a)
             \/ on_pages_closed(a) \/ close_page(a)
      PROVE  TypeOK'
  <2>1. a \in Nat
    BY AddressNat
  <2>2. Higher(safe_read_only, a) \in Nat /\ Higher(safe_head, a) \in Nat
    BY <2>1, HigherLower DEF TypeOK
  <2>3. CASE on_pages_marked_read_only(a)
    BY <1>t, <2>2, <2>3 DEF TypeOK, on_pages_marked_read_only, data, locals,
       Epoch!Reclaim
  <2>4. CASE on_pages_closed(a)
    BY <1>t, <2>2, <2>4 DEF TypeOK, on_pages_closed, data, locals, Epoch!Reclaim
  <2>5. CASE flush_start(a)
    BY <1>t, <2>5 DEF TypeOK, flush_start, marks, data, locals, epoch
  <2>6. CASE close_page(a)
    BY <1>t, <2>6 DEF TypeOK, close_page, data, locals, epoch
  <2> QED
    BY <1>k, <2>3, <2>4, <2>5, <2>6
<1>l. CASE flush_page
  <2>1. flush.at \in Nat
    BY <1>l DEF flush_page, Order, Flushing
  <2>2. \A a \in Address : record_at(a) \in Words
    <3> SUFFICES ASSUME NEW a \in Address PROVE record_at(a) \in Words
      OBVIOUS
    <3>1. /\ frame_of(page_of(a)) \in 0 .. BufferSize - 1
          /\ a % PageSize \in 0 .. PageSize - 1
      BY AddressNat, PageOf, FrameType
    <3> QED
      BY <3>1 DEF record_at, TypeOK
  <2>3. disk' \in [Address -> Words]
    BY <1>l, <2>2 DEF flush_page, TypeOK
  <2> HIDE DEF Words
  <2> QED
    BY <1>l, <1>t, <2>3 DEF TypeOK, flush_page, marks, epoch, locals
<1>m. CASE flush_fails \/ flush_done
  <2>1. flush_done => Higher(flushed, flush.until) \in Nat
    BY HigherLower DEF flush_done, TypeOK, Order, Flushing
  <2> QED
    BY <1>m, <1>t, <2>1 DEF TypeOK, flush_fails, flush_done, marks, data, epoch,
       locals
<1> QED
  BY <1>a, <1>b, <1>c, <1>d, <1>e, <1>f, <1>g, <1>h, <1>i, <1>j, <1>k, <1>l, <1>m
  DEF Next, inner_step, call_step, alloc_step, job_step

-----------------------------------------------------------------------------
(* The threads.                                                            *)

LEMMA TurnerStep == ASSUME IInv, Next PROVE OneTurner'
<1> USE DEF IInv
<1>1. ASSUME NEW t \in Threads, UNCHANGED tail, pc'[t] \notin {"turn", "turned"},
             \A u \in Threads \ {t} : pc'[u] = pc[u] /\ page'[u] = page[u]
      PROVE  OneTurner'
  BY <1>1 DEF OneTurner, Turning, tail_page, tail_off
<1>2. ASSUME NEW t \in Threads,
             \/ protect(t) \/ head_address(t) \/ read_only_address(t) \/ find(t)
             \/ init_record(t) \/ unprotect(t) \/ allocate_record(t)
             \/ shift_read_only_address(t) \/ clamp_head(t)
             \/ shift_head_address(t) \/ load_tail_address(t)
             \/ shift_read_only_to_tail(t) \/ wait_flushed(t)
      PROVE  OneTurner'
  <2>1. /\ UNCHANGED tail /\ pc'[t] \notin {"turn", "turned"}
        /\ \A u \in Threads \ {t} : pc'[u] = pc[u] /\ page'[u] = page[u]
    BY <1>2 DEF TypeOK, protect, head_address, read_only_address, find,
       init_record, unprotect, allocate_record, shift_read_only_address,
       clamp_head, shift_head_address, load_tail_address,
       shift_read_only_to_tail, wait_flushed, Goto, locals
  <2> QED
    BY <1>1, <2>1
<1>3. ASSUME NEW t \in Threads, fetch_add_fits(t) PROVE OneTurner'
  <2>1. \A u \in Threads : ~Turning(u)
    BY <1>3, TailFacts, TailFits, SizeFacts DEF OneTurner, fetch_add_fits, Fits
  <2>2. \A u \in Threads : pc'[u] \notin {"turn", "turned"}
    BY <1>3, <2>1 DEF Turning, fetch_add_fits, Goto, TypeOK
  <2> QED
    BY <2>2 DEF OneTurner, Turning
<1>4. ASSUME NEW t \in Threads, fetch_add_spins(t) PROVE OneTurner'
  <2>1. tail_page' = tail_page /\ tail_off' > PageSize
    BY <1>4, TailPast
  <2>2. UNCHANGED <<pc, page>>
    BY <1>4 DEF fetch_add_spins, locals
  <2> QED
    BY <2>1, <2>2 DEF OneTurner, Turning
<1>5. ASSUME NEW t \in Threads, fetch_add_crosses(t) PROVE OneTurner'
  <2>1. tail_page' = tail_page /\ tail_off' > PageSize
    BY <1>5, TailPast
  <2>2. \A u \in Threads : ~Turning(u)
    BY <1>5, TailFacts DEF OneTurner, fetch_add_crosses
  <2>3. /\ page'[t] = tail_page
        /\ \A u \in Threads : pc'[u] \in {"turn", "turned"} => u = t
    BY <1>5, <2>2 DEF fetch_add_crosses, Goto, TypeOK, Turning
  <2> QED
    BY <2>1, <2>3 DEF OneTurner, Turning
<1>6. ASSUME NEW t \in Threads, turn_blocked(t) \/ turn_publish(t)
      PROVE  OneTurner'
  <2>1. Turning(t)
    BY <1>6 DEF Turning, turn_blocked, turn_publish, Goto
  <2>2. \A u \in Threads : Turning(u) => u = t
    BY <2>1 DEF OneTurner
  <2>3. \A u \in Threads : pc'[u] \notin {"turn", "turned"}
    BY <1>6, <2>2 DEF turn_blocked, turn_publish, Goto, TypeOK, Turning
  <2> QED
    BY <2>3 DEF OneTurner, Turning
<1>7. ASSUME NEW t \in Threads, turn_zero(t) PROVE OneTurner'
  <2>1. UNCHANGED <<tail, page>>
    BY <1>7 DEF turn_zero, locals
  <2>2. \A u \in Threads : pc'[u] \in {"turn", "turned"} => Turning(u)
    BY <1>7 DEF turn_zero, TypeOK, Turning
  <2> QED
    BY <2>1, <2>2 DEF OneTurner, Turning, tail_page, tail_off
<1>8. CASE UNCHANGED <<tail, pc, page>>
  BY <1>8 DEF OneTurner, Turning, tail_page, tail_off
<1> QED
  BY <1>2, <1>3, <1>4, <1>5, <1>6, <1>7, <1>8
  DEF Next, inner_step, call_step, alloc_step, job_step, update_in_place, locals,
      on_pages_marked_read_only, flush_start, flush_page, flush_fails,
      flush_done, on_pages_closed, close_page

\* One step of a thread, at its program counter.
LEMMA OwnStep ==
  ASSUME IInv, NEW t \in Threads, inner_step(t) \/ call_step(t)
  PROVE  /\ pc'[t] \in {"alloc", "turn", "turned", "shift_ro", "clamp",
                        "shift_head", "later", "retry"} => size'[t] \in Sizes
         /\ pc'[t] \in {"out", "in", "loading", "ready", "alloc", "turn",
                        "turned", "later", "retry"} => addr'[t] = 0
         /\ pc'[t] \notin {"out", "retry", "fold", "wait_flushed"} => t \in inside'
         /\ \A u \in Threads \ {t} :
              /\ pc'[u] = pc[u] /\ size'[u] = size[u] /\ addr'[u] = addr[u]
              /\ page'[u] = page[u] /\ clamp'[u] = clamp[u]
              /\ view_head'[u] = view_head[u]
              /\ view_read_only'[u] = view_read_only[u]
              /\ u \in inside => u \in inside'
<1> USE DEF IInv
<1>0. /\ pc[t] \in {"alloc", "turn", "turned", "shift_ro", "clamp", "shift_head",
                    "later", "retry"} => size[t] \in Sizes
      /\ pc[t] \in {"out", "in", "loading", "ready", "alloc", "turn", "turned",
                    "later", "retry"} => addr[t] = 0
      /\ pc[t] \notin {"out", "retry", "fold", "wait_flushed"} => t \in inside
  BY DEF Sized, EmptyHanded, Inside
<1>1. CASE protect(t)
  BY <1>0, <1>1 DEF TypeOK, protect, locals, Epoch!Enter
<1>2. CASE head_address(t) \/ read_only_address(t)
  BY <1>0, <1>2 DEF TypeOK, head_address, read_only_address, Goto, epoch
<1>3. CASE find(t) \/ wait_flushed(t) \/ load_tail_address(t)
  BY <1>0, <1>3 DEF TypeOK, find, wait_flushed, load_tail_address, Goto, epoch
<1>4. CASE update_in_place(t) \/ init_record(t)
  BY <1>0, <1>4 DEF TypeOK, update_in_place, init_record, Goto, locals, epoch
<1>5. CASE unprotect(t)
  BY <1>0, <1>5 DEF TypeOK, unprotect, Epoch!Leave
<1>6. CASE allocate_record(t)
  BY <1>0, <1>6 DEF TypeOK, allocate_record, Goto, epoch
<1>7. CASE fetch_add_fits(t) \/ turn_publish(t)
  BY <1>0, <1>7 DEF TypeOK, fetch_add_fits, turn_publish, Take, Goto, epoch
<1>8. CASE fetch_add_spins(t) \/ fetch_add_crosses(t) \/ turn_blocked(t) \/ turn_zero(t)
  BY <1>0, <1>8 DEF TypeOK, fetch_add_spins, fetch_add_crosses, turn_blocked,
     turn_zero, Goto, epoch, locals
<1>9. CASE shift_read_only_address(t) \/ shift_read_only_to_tail(t)
  BY <1>0, <1>9 DEF TypeOK, shift_read_only_address, shift_read_only_to_tail,
     Publish_read_only, Goto, locals, epoch, Epoch!Retire
<1>10. CASE clamp_head(t)
  BY <1>0, <1>10 DEF TypeOK, clamp_head, Goto, epoch
<1>11. CASE shift_head_address(t)
  BY <1>0, <1>11 DEF TypeOK, shift_head_address, Goto, epoch, Epoch!Retire
<1> QED
  BY <1>1, <1>2, <1>3, <1>4, <1>5, <1>6, <1>7, <1>8, <1>9, <1>10, <1>11
  DEF inner_step, call_step, alloc_step

LEMMA JobFrame ==
  ASSUME job_step \/ flush_fails
  PROVE  UNCHANGED <<tail, head, read_only, mem, written, used, inside, stale, pc,
                     size, page, addr, view_head, view_read_only, clamp>>
  BY DEF job_step, on_pages_marked_read_only, flush_start, flush_page,
     flush_fails, flush_done, on_pages_closed, close_page, marks, data, epoch,
     locals, Epoch!Reclaim

LEMMA ControlStep ==
  ASSUME IInv, Next
  PROVE  Sized' /\ EmptyHanded' /\ Inside'
<1>1. CASE job_step \/ flush_fails
  BY <1>1, JobFrame DEF IInv, Sized, EmptyHanded, Inside
<1>2. ASSUME NEW t \in Threads, inner_step(t) \/ call_step(t)
      PROVE  Sized' /\ EmptyHanded' /\ Inside'
  BY <1>2, OwnStep DEF IInv, Sized, EmptyHanded, Inside
<1> QED
  BY <1>1, <1>2 DEF Next

-----------------------------------------------------------------------------
(* The watermarks.                                                         *)

\* Publishing a ReadOnly address that the tail has reached.
LEMMA PublishStep ==
  ASSUME IInv, NEW a \in Nat, a <= TailEnd, Publish_read_only(a)
  PROVE  /\ read_only <= read_only' /\ read_only' \in Nat /\ read_only' <= TailEnd
         /\ \A b \in Marks :
              /\ retired'[<<"read_only", b>>] # "no" => b <= read_only'
              /\ retired'[<<"head", b>>] = retired[<<"head", b>>]
<1> USE DEF IInv
<1>0. /\ read_only \in Nat /\ read_only <= TailEnd
      /\ \A b \in Marks : retired[<<"read_only", b>>] # "no" => b <= read_only
  BY DEF TypeOK, Order, Published, WatermarkOrder
<1>1. CASE a > read_only /\ read_only' = a /\ Epoch!Retire(<<"read_only", a>>)
  <2>1. \A b \in Marks : b # a =>
          retired'[<<"read_only", b>>] = retired[<<"read_only", b>>]
    BY <1>1 DEF Epoch!Retire, TypeOK, Jobs, Kinds
  <2>2. \A b \in Marks : retired'[<<"head", b>>] = retired[<<"head", b>>]
    BY <1>1 DEF Epoch!Retire, TypeOK, Jobs, Kinds
  <2>3. \A b \in Marks : b \in Nat
    BY AddressNat
  <2>4. \A b \in Marks : retired'[<<"read_only", b>>] # "no" => b <= a
    <3> SUFFICES ASSUME NEW b \in Marks, retired'[<<"read_only", b>>] # "no"
                 PROVE  b <= a
      OBVIOUS
    <3>1. CASE b = a
      BY <3>1
    <3>2. CASE b # a
      <4>1. b <= read_only /\ b \in Nat
        BY <1>0, <2>1, <2>3, <3>2
      <4> QED
        BY <1>0, <1>1, <4>1
    <3> QED
      BY <3>1, <3>2
  <2> QED
    BY <1>0, <1>1, <2>2, <2>4
<1>2. CASE UNCHANGED <<read_only, epoch>>
  <2>1. UNCHANGED <<read_only, retired>>
    BY <1>2 DEF epoch
  <2> QED
    BY <1>0, <2>1
<1> QED
  BY <1>1, <1>2 DEF Publish_read_only

\* What the ReadOnly moves publish.
LEMMA PublishAim ==
  ASSUME IInv, NEW t \in Threads,
         shift_read_only_address(t) \/ shift_read_only_to_tail(t)
  PROVE  \E a \in Nat : a <= TailEnd /\ Publish_read_only(a)
<1> USE DEF IInv
<1>1. CASE shift_read_only_address(t)
  <2> DEFINE a == desired_read_only(page[t] + 1)
  <2>1. a \in Nat /\ a <= At(page[t] + 1, 0) /\ At(page[t] + 1, 0) \in Int
    <3>1. page[t] \in Nat /\ page[t] + 1 \in Int
      BY DEF TypeOK
    <3> QED
      BY <3>1, Desired, AtFacts
  <2>2. At(page[t] + 1, 0) <= TailEnd /\ TailEnd \in Nat
    BY <1>1, TailFacts DEF Order, InHand, Shifting, shift_read_only_address, Goto
  <2>3. Publish_read_only(a)
    BY <1>1 DEF shift_read_only_address
  <2> HIDE DEF a
  <2> QED
    BY <2>1, <2>2, <2>3
<1>2. CASE shift_read_only_to_tail(t)
  BY <1>2 DEF Order, InHand, shift_read_only_to_tail, Goto, TypeOK
<1> QED
  BY <1>1, <1>2

\* The jobs and what they were published with.
LEMMA OrderStep ==
  ASSUME IInv, Next
  PROVE  WatermarkOrder' /\ Published' /\ Running' /\ Flushing'
<1> USE DEF IInv
<1>1. TailEnd' \in Nat /\ TailEnd <= TailEnd' /\ TailEnd \in Nat
  BY TailMoves, TailFacts
<1>2. \A a \in Marks : a \in Nat
  BY AddressNat
<1>m. CASE UNCHANGED <<marks, retired, running, flush>>
  BY <1>m, <1>1 DEF marks, TypeOK, Order, WatermarkOrder, Published, Running,
     Flushing
<1>3. ASSUME NEW t \in Threads,
             shift_read_only_address(t) \/ shift_read_only_to_tail(t)
      PROVE  WatermarkOrder' /\ Published' /\ Running' /\ Flushing'
  <2>1. PICK a \in Nat : a <= TailEnd /\ Publish_read_only(a)
    BY <1>3, PublishAim
  <2>2. /\ read_only <= read_only' /\ read_only' \in Nat /\ read_only' <= TailEnd
        /\ \A b \in Marks :
             /\ retired'[<<"read_only", b>>] # "no" => b <= read_only'
             /\ retired'[<<"head", b>>] = retired[<<"head", b>>]
    BY <2>1, PublishStep
  <2>3. UNCHANGED <<closed, safe_head, head, flushed, safe_read_only, running,
                    flush>>
    BY <1>3 DEF shift_read_only_address, shift_read_only_to_tail, jobs
  <2>4. WatermarkOrder'
    BY <1>1, <2>2, <2>3 DEF TypeOK, Order, WatermarkOrder
  <2>5. Published'
    BY <2>2, <2>3 DEF Order, Published
  <2>6. Running' /\ Flushing'
    BY <2>3 DEF Order, Running, Flushing
  <2> QED
    BY <2>4, <2>5, <2>6
<1>4. ASSUME NEW t \in Threads, shift_head_address(t)
      PROVE  WatermarkOrder' /\ Published' /\ Running' /\ Flushing'
  <2>1. clamp[t] <= flushed /\ clamp[t] \in Nat
    BY <1>4 DEF Order, InHand, shift_head_address, Goto, TypeOK
  <2>2. /\ head' = clamp[t] \/ head' = head
        /\ head <= head' /\ clamp[t] <= head'
        /\ \A b \in Marks :
             /\ b # clamp[t] => retired'[<<"head", b>>] = retired[<<"head", b>>]
             /\ retired'[<<"read_only", b>>] = retired[<<"read_only", b>>]
    BY <1>4, <2>1 DEF shift_head_address, Epoch!Retire, epoch, TypeOK, Jobs, Kinds
  <2>3. UNCHANGED <<closed, safe_head, flushed, safe_read_only, read_only,
                    running, flush>>
    BY <1>4 DEF shift_head_address, jobs
  <2>4. \A b \in Marks :
          retired'[<<"head", b>>] # "no" => b <= head'
    <3> SUFFICES ASSUME NEW b \in Marks, retired'[<<"head", b>>] # "no"
                 PROVE  b <= head'
      OBVIOUS
    <3>1. CASE b = clamp[t]
      BY <2>2, <3>1
    <3>2. CASE b # clamp[t]
      <4>1. b <= head /\ b \in Nat /\ head \in Nat
        BY <1>2, <2>2, <3>2 DEF Order, Published, TypeOK
      <4>2. head' \in Nat
        BY <2>1, <2>2, <4>1
      <4> QED
        BY <2>2, <4>1, <4>2
    <3> QED
      BY <3>1, <3>2
  <2>5. WatermarkOrder'
    BY <1>1, <2>1, <2>2, <2>3 DEF TypeOK, Order, WatermarkOrder
  <2>6. Published'
    BY <2>2, <2>3, <2>4 DEF Order, Published
  <2>7. Running' /\ Flushing'
    BY <2>3 DEF Order, Running, Flushing
  <2> QED
    BY <2>5, <2>6, <2>7
<1>5. ASSUME NEW a \in Marks, on_pages_marked_read_only(a)
      PROVE  WatermarkOrder' /\ Published' /\ Running' /\ Flushing'
  <2>1. /\ a <= read_only /\ a \in Nat
        /\ \A b \in Marks :
             /\ b # a => retired'[<<"read_only", b>>] = retired[<<"read_only", b>>]
             /\ retired'[<<"head", b>>] = retired[<<"head", b>>]
    BY <1>2, <1>5 DEF on_pages_marked_read_only, Epoch!Reclaim, Order, Published,
       TypeOK, Jobs, Kinds
  <2>2. /\ safe_read_only' = safe_read_only \/ safe_read_only' = a
        /\ safe_read_only <= safe_read_only' /\ a <= safe_read_only'
        /\ safe_read_only' \in Nat
    BY <1>5, <2>1, HigherLower DEF on_pages_marked_read_only, TypeOK
  <2>3. /\ UNCHANGED <<closed, safe_head, head, flushed, read_only, flush>>
        /\ running' = running \union {<<"read_only", a>>}
    BY <1>5 DEF on_pages_marked_read_only
  <2>4. WatermarkOrder'
    BY <1>1, <2>1, <2>2, <2>3 DEF TypeOK, Order, WatermarkOrder
  <2>5. Published'
    BY <2>1, <2>3 DEF Order, Published
  <2>6. Running' /\ Flushing'
    BY <1>2, <2>2, <2>3 DEF TypeOK, Order, Running, Flushing
  <2> QED
    BY <2>4, <2>5, <2>6
<1>6. ASSUME NEW a \in Marks, on_pages_closed(a)
      PROVE  WatermarkOrder' /\ Published' /\ Running' /\ Flushing'
  <2>1. /\ a <= head /\ a \in Nat
        /\ \A b \in Marks :
             /\ b # a => retired'[<<"head", b>>] = retired[<<"head", b>>]
             /\ retired'[<<"read_only", b>>] = retired[<<"read_only", b>>]
    BY <1>2, <1>6 DEF on_pages_closed, Epoch!Reclaim, Order, Published, TypeOK,
       Jobs, Kinds
  <2>2. /\ safe_head' = safe_head \/ safe_head' = a
        /\ safe_head <= safe_head' /\ a <= safe_head' /\ safe_head' \in Nat
    BY <1>6, <2>1, HigherLower DEF on_pages_closed, TypeOK
  <2>3. /\ UNCHANGED <<closed, head, flushed, safe_read_only, read_only, flush>>
        /\ running' = running \union {<<"head", a>>}
    BY <1>6 DEF on_pages_closed
  <2>4. WatermarkOrder'
    BY <1>1, <2>1, <2>2, <2>3 DEF TypeOK, Order, WatermarkOrder
  <2>5. Published'
    BY <2>1, <2>3 DEF Order, Published
  <2>6. Running' /\ Flushing'
    BY <1>2, <2>2, <2>3 DEF TypeOK, Order, Running, Flushing
  <2> QED
    BY <2>4, <2>5, <2>6
<1>7. ASSUME NEW a \in Marks, flush_start(a)
      PROVE  WatermarkOrder' /\ Published' /\ Running' /\ Flushing'
  <2>1. /\ UNCHANGED <<closed, safe_head, head, flushed, safe_read_only,
                       read_only, retired>>
        /\ running' \subseteq running
    BY <1>7 DEF flush_start, marks, epoch
  <2>2. a <= safe_read_only /\ a \in Nat
    BY <1>2, <1>7 DEF flush_start, Order, Running
  <2>3. WatermarkOrder' /\ Published' /\ Running'
    BY <1>1, <2>1 DEF TypeOK, Order, WatermarkOrder, Published, Running
  <2>4. Flushing'
    <3>1. CASE a <= flushed
      BY <1>7, <3>1 DEF flush_start, Flushing
    <3>2. CASE ~(a <= flushed)
      <4>1. flush' = [at |-> flushed, until |-> a]
        BY <1>7, <3>2 DEF flush_start
      <4>2. /\ flush'.at = flushed /\ flush'.until = a
            /\ DOMAIN flush' = {"at", "until"}
        BY <4>1
      <4> QED
        BY <2>1, <2>2, <3>2, <4>2 DEF Flushing, TypeOK
    <3> QED
      BY <3>1, <3>2
  <2> QED
    BY <2>3, <2>4
<1>8. ASSUME NEW a \in Marks, close_page(a)
      PROVE  WatermarkOrder' /\ Published' /\ Running' /\ Flushing'
  <2>1. /\ UNCHANGED <<safe_head, head, flushed, safe_read_only, read_only,
                       retired, flush>>
        /\ running' \subseteq running
        /\ closed' = closed \/ closed' <= a
    BY <1>8 DEF close_page, epoch
  <2>2. a <= safe_head /\ a \in Nat
    BY <1>2, <1>8 DEF close_page, Order, Running
  <2>3. closed' \in Nat
    BY <1>8 DEF close_page, TypeOK
  <2> QED
    BY <1>1, <2>1, <2>2, <2>3 DEF TypeOK, Order, WatermarkOrder, Published,
       Running, Flushing
<1>9. CASE flush_page
  <2>1. UNCHANGED <<marks, retired, running>>
    BY <1>9 DEF flush_page, epoch
  <2>2. /\ flush.at \in Nat /\ flush.until \in Nat /\ flush.at < flush.until
        /\ flushed <= flush.at /\ flush.until <= safe_read_only
    BY <1>9 DEF flush_page, Order, Flushing
  <2> DEFINE end == Lower(flush.until, At(page_of(flush.at) + 1, 0))
  <2>3. end \in Nat /\ flush.at <= end /\ end <= flush.until
    <3>1. /\ At(page_of(flush.at) + 1, 0) \in Int
          /\ flush.at < At(page_of(flush.at) + 1, 0)
      <4>1. page_of(flush.at) + 1 \in Int /\ flush.at < At(page_of(flush.at) + 1, 0)
        BY <2>2, PageOf
      <4> QED
        BY <4>1, AtFacts
    <3> QED
      BY <2>2, <3>1 DEF Lower
  <2>4. flush' = [flush EXCEPT !.at = end]
    BY <1>9 DEF flush_page
  <2> HIDE DEF end
  <2>5. /\ flush'.until = flush.until /\ flush'.at = end
        /\ DOMAIN flush' = {"at", "until"}
    <3>1. DOMAIN flush = {"at", "until"}
      BY <1>9 DEF flush_page, Order, Flushing
    <3> QED
      BY <2>4, <3>1
  <2>6. WatermarkOrder' /\ Published' /\ Running'
    BY <1>1, <2>1 DEF marks, TypeOK, Order, WatermarkOrder, Published, Running
  <2>7. flushed \in Nat /\ flushed' = flushed /\ safe_read_only' = safe_read_only
    BY <2>1 DEF marks, TypeOK
  <2>8. flushed <= end /\ end <= flush.until /\ flush.until <= safe_read_only
    BY <2>2, <2>3, <2>7
  <2>9. Flushing'
    BY <2>2, <2>3, <2>5, <2>7, <2>8 DEF Flushing
  <2> QED
    BY <2>6, <2>9
<1>10. CASE flush_fails
  BY <1>1, <1>10 DEF flush_fails, marks, epoch, TypeOK, Order, WatermarkOrder,
     Published, Running, Flushing
<1>11. CASE flush_done
  <2>1. /\ flush.until \in Nat /\ flush.until <= safe_read_only
        /\ flushed <= flush.until
    BY <1>11 DEF flush_done, Order, Flushing, TypeOK
  <2>2. flushed' = flush.until
    BY <1>11, <2>1 DEF flush_done, Higher, TypeOK
  <2>3. /\ UNCHANGED <<closed, safe_head, head, safe_read_only, read_only,
                       running, retired>>
        /\ flush' = None
    BY <1>11 DEF flush_done, epoch
  <2> QED
    BY <1>1, <2>1, <2>2, <2>3 DEF TypeOK, Order, WatermarkOrder, Published,
       Running, Flushing
<1> QED
  BY <1>m, <1>3, <1>4, <1>5, <1>6, <1>7, <1>8, <1>9, <1>10, <1>11
  DEF Next, inner_step, call_step, alloc_step, job_step, protect, head_address,
      read_only_address, find, update_in_place, init_record, unprotect,
      allocate_record, fetch_add_fits, fetch_add_spins, fetch_add_crosses,
      turn_blocked, turn_zero, turn_publish, clamp_head, load_tail_address,
      wait_flushed, marks, epoch, jobs, Epoch!Enter, Epoch!Leave

\* The units a step hands out begin at the end of the tail and lie below the
\* new one.
LEMMA TakeStep ==
  ASSUME IInv, NEW t \in Threads, fetch_add_fits(t) \/ turn_publish(t)
  PROVE  /\ addr'[t] \in Nat /\ TailEnd <= addr'[t] /\ size[t] \in Nat
         /\ size[t] >= 1 /\ addr'[t] + size[t] = TailEnd'
         /\ used' = used \union (addr'[t] .. addr'[t] + size[t] - 1)
         /\ addr'[t] \in used'
         /\ pc'[t] \in {"init", "shift_ro"} /\ TailEnd \in Nat
         /\ addr'[t] = 0 => pc'[t] = "init"
<1> USE DEF IInv
<1>1. CASE fetch_add_fits(t)
  <2>1. /\ addr'[t] = TailEnd /\ TailEnd' = TailEnd + size[t] /\ TailEnd \in Nat
        /\ size[t] \in Nat /\ size[t] >= 1
    BY <1>1, TailFits, TailFacts, SizeFacts
  <2>2. used' = used \union (addr'[t] .. addr'[t] + size[t] - 1) /\ pc'[t] = "init"
    BY <1>1 DEF fetch_add_fits, Take, Goto, TypeOK
  <2> QED
    BY <2>1, <2>2
<1>2. CASE turn_publish(t)
  <2>1. /\ addr'[t] = TailEnd + 1 /\ TailEnd' = TailEnd + 1 + size[t]
        /\ TailEnd \in Nat /\ size[t] \in Nat /\ size[t] >= 1
    BY <1>2, TailPublish, TailFacts, SizeFacts
  <2>2. /\ used' = used \union (addr'[t] .. addr'[t] + size[t] - 1)
        /\ pc'[t] = "shift_ro"
    BY <1>2 DEF turn_publish, Take, Goto, TypeOK
  <2> QED
    BY <2>1, <2>2
<1> QED
  BY <1>1, <1>2

LEMMA UsedFrame ==
  ASSUME IInv, Next, \A t \in Threads : ~(fetch_add_fits(t) \/ turn_publish(t))
  PROVE  used' = used
  BY DEF Next, inner_step, call_step, alloc_step, job_step, protect, head_address,
     read_only_address, find, update_in_place, init_record, unprotect,
     allocate_record, fetch_add_spins, fetch_add_crosses, turn_blocked,
     turn_zero, shift_read_only_address, clamp_head, shift_head_address,
     load_tail_address, shift_read_only_to_tail, wait_flushed,
     on_pages_marked_read_only, flush_start, flush_page, flush_fails,
     flush_done, on_pages_closed, close_page

LEMMA UsedStep ==
  ASSUME IInv, Next
  PROVE  UsedBelow' /\ used \subseteq used'
<1> USE DEF IInv
<1>1. /\ TailEnd' \in Nat /\ TailEnd <= TailEnd' /\ TailEnd \in Nat
      /\ \A a \in used : a \in Nat /\ a < TailEnd
  BY TailMoves, TailFacts DEF Order, UsedBelow, TypeOK
<1>2. ASSUME NEW t \in Threads, fetch_add_fits(t) \/ turn_publish(t)
      PROVE  UsedBelow' /\ used \subseteq used'
  <2>1. /\ addr'[t] \in Nat /\ size[t] \in Nat /\ addr'[t] + size[t] = TailEnd'
        /\ used' = used \union (addr'[t] .. addr'[t] + size[t] - 1)
    BY <1>2, TakeStep
  <2>2. \A a \in addr'[t] .. addr'[t] + size[t] - 1 : a < TailEnd'
    BY <1>1, <2>1
  <2> QED
    BY <1>1, <2>1, <2>2 DEF UsedBelow
<1>3. CASE used' = used
  BY <1>1, <1>3 DEF UsedBelow
<1> QED
  BY <1>2, <1>3, UsedFrame

\* flushed never goes back.
LEMMA FlushedGrows ==
  ASSUME IInv, Next
  PROVE  flushed' \in Nat /\ flushed <= flushed' /\ flushed \in Nat
<1>0. flushed \in Nat
  BY DEF IInv, TypeOK
<1>1. CASE flush_done
  <2>1. flush.until \in Nat
    BY <1>1 DEF IInv, Order, Flushing, flush_done
  <2> QED
    BY <1>0, <1>1, <2>1, HigherLower DEF flush_done
<1>2. CASE ~flush_done
  <2>1. flushed' = flushed
    BY <1>2 DEF Next, inner_step, call_step, alloc_step, job_step, protect,
       head_address, read_only_address, find, update_in_place, init_record,
       unprotect, allocate_record, fetch_add_fits, fetch_add_spins,
       fetch_add_crosses, turn_blocked, turn_zero, turn_publish,
       shift_read_only_address, clamp_head, shift_head_address,
       load_tail_address, shift_read_only_to_tail, wait_flushed,
       on_pages_marked_read_only, flush_start, flush_page, flush_fails,
       on_pages_closed, close_page, marks
  <2> QED
    BY <1>0, <2>1
<1> QED
  BY <1>1, <1>2

\* What a thread is about to publish stays in reach.
Reach(t) ==
  /\ Shifting(t) => At(page[t] + 1, 0) <= TailEnd
  /\ pc[t] = "fold" => addr[t] <= TailEnd
  /\ pc[t] = "shift_head" => clamp[t] <= flushed

LEMMA ReachOwn ==
  ASSUME IInv, Next, NEW t \in Threads, inner_step(t) \/ call_step(t)
  PROVE  Reach(t)'
<1> USE DEF IInv
<1>1. TailEnd' \in Nat /\ TailEnd <= TailEnd' /\ TailEnd \in Nat
  BY TailMoves, TailFacts
<1>2. flushed' \in Nat /\ flushed <= flushed'
  BY FlushedGrows
<1>3. page[t] \in Nat /\ addr[t] \in Nat /\ At(page[t] + 1, 0) \in Int
  <2>1. page[t] \in Nat /\ addr[t] \in Nat
    BY DEF TypeOK
  <2>2. page[t] + 1 \in Int
    BY <2>1
  <2> QED
    BY <2>1, <2>2, AtFacts
<1>4. Reach(t)
  BY DEF Order, InHand, Reach
<1>5. CASE pc'[t] \notin {"shift_ro", "clamp", "shift_head", "fold"}
  BY <1>5 DEF Reach, Shifting
<1>6. CASE turn_blocked(t)
  <2>1. /\ At(page[t] + 1, 0) = TailEnd /\ page'[t] = page[t]
        /\ pc'[t] = "shift_ro"
    BY <1>6, TailBlocked DEF turn_blocked, locals, TypeOK
  <2> QED
    BY <1>1, <2>1 DEF Reach, Shifting
<1>7. CASE turn_publish(t)
  <2>1. /\ At(page[t] + 1, 0) = TailEnd /\ page'[t] = page[t]
        /\ pc'[t] = "shift_ro"
    BY <1>7, TailPublish DEF turn_publish, Goto, TypeOK
  <2> QED
    BY <1>1, <2>1 DEF Reach, Shifting
<1>8. CASE shift_read_only_address(t)
  <2>1. pc[t] = "shift_ro" /\ pc'[t] = "clamp" /\ page'[t] = page[t]
    BY <1>8 DEF shift_read_only_address, Goto, locals, TypeOK
  <2> QED
    BY <1>1, <1>3, <1>4, <2>1 DEF Reach, Shifting
<1>9. CASE clamp_head(t)
  <2>1. /\ pc[t] = "clamp" /\ pc'[t] = "shift_head" /\ page'[t] = page[t]
        /\ clamp'[t] = Lower(desired_head(page[t] + 1), flushed)
    BY <1>9 DEF clamp_head, Goto, TypeOK
  <2>2. clamp'[t] <= flushed /\ clamp'[t] \in Nat /\ flushed \in Nat
    <3>1. desired_head(page[t] + 1) \in Nat /\ flushed \in Nat
      BY <1>3, Desired DEF TypeOK
    <3> QED
      BY <2>1, <3>1, HigherLower
  <2> QED
    BY <1>1, <1>2, <1>3, <1>4, <2>1, <2>2 DEF Reach, Shifting
<1>10. CASE load_tail_address(t)
  <2>1. pc'[t] = "fold" /\ addr'[t] = tail_address /\ tail_off <= PageSize
    BY <1>10 DEF load_tail_address, Goto, TypeOK
  <2>2. tail_address <= TailEnd /\ tail_address \in Int
    <3>1. /\ TailEnd = At(tail_page, 0) + tail_off /\ tail_off \in Nat
          /\ At(tail_page, 0) \in Nat
      BY <2>1, TailFacts
    <3>2. At(tail_page, tail_off) = At(tail_page, 0) + tail_off
      BY TailFacts, AtFacts
    <3> QED
      BY <3>1, <3>2 DEF tail_address
  <2> QED
    BY <1>1, <2>1, <2>2 DEF Reach, Shifting
<1> QED
  BY <1>5, <1>6, <1>7, <1>8, <1>9, <1>10
  DEF inner_step, call_step, alloc_step, protect, head_address,
      read_only_address, find, update_in_place, init_record, unprotect,
      allocate_record, fetch_add_fits, fetch_add_spins, fetch_add_crosses,
      turn_zero, shift_head_address, shift_read_only_to_tail, wait_flushed,
      Goto, TypeOK

LEMMA InHandStep == ASSUME IInv, Next PROVE InHand'
<1> USE DEF IInv
<1>1. TailEnd' \in Nat /\ TailEnd <= TailEnd' /\ TailEnd \in Nat
  BY TailMoves, TailFacts
<1>2. flushed' \in Nat /\ flushed <= flushed' /\ flushed \in Nat
  BY FlushedGrows
<1>3. ASSUME NEW u \in Threads, pc'[u] = pc[u], page'[u] = page[u],
             addr'[u] = addr[u], clamp'[u] = clamp[u]
      PROVE  Reach(u)'
  <2>1. page[u] \in Nat /\ addr[u] \in Nat /\ clamp[u] \in Nat
    BY DEF TypeOK
  <2>2. At(page[u] + 1, 0) \in Int
    <3>1. page[u] + 1 \in Int
      BY <2>1
    <3> QED
      BY <3>1, AtFacts
  <2>3. Reach(u)
    BY DEF Order, InHand, Reach
  <2> QED
    BY <1>1, <1>2, <1>3, <2>1, <2>2, <2>3 DEF Reach, Shifting
<1>4. CASE job_step \/ flush_fails
  <2>1. \A u \in Threads : /\ pc'[u] = pc[u] /\ page'[u] = page[u]
                           /\ addr'[u] = addr[u] /\ clamp'[u] = clamp[u]
    BY <1>4, JobFrame
  <2> QED
    BY <1>3, <2>1 DEF InHand, Reach
<1>5. ASSUME NEW t \in Threads, inner_step(t) \/ call_step(t) PROVE InHand'
  <2>1. \A u \in Threads \ {t} :
          /\ pc'[u] = pc[u] /\ page'[u] = page[u]
          /\ addr'[u] = addr[u] /\ clamp'[u] = clamp[u]
    BY <1>5, OwnStep
  <2>2. Reach(t)'
    BY <1>5, ReachOwn
  <2> QED
    BY <1>3, <2>1, <2>2 DEF InHand, Reach
<1> QED
  BY <1>4, <1>5 DEF Next

-----------------------------------------------------------------------------
(* The epoch.                                                              *)

LEMMA RetireFloor ==
  ASSUME IInv, NEW k \in Kinds, NEW b \in Nat, Epoch!Retire(<<k, b>>),
         NEW u \in inside, u \in Threads,
         NEW kind \in Kinds, NEW safe \in Nat, NEW f \in Nat,
         Floor(kind, safe, retired, stale[u], f)
  PROVE  Floor(kind, safe, retired', stale'[u], f)
<1>1. stale'[u] = stale[u] \union {<<k, b>>}
  BY DEF Epoch!Retire
<1>2. \A a \in Marks : <<kind, a>> # <<k, b>> => retired'[<<kind, a>>] = retired[<<kind, a>>]
  BY DEF Epoch!Retire, IInv, TypeOK, Jobs
<1> QED
  BY <1>1, <1>2 DEF Floor

\* A thread that stays inside keeps its floors: a job it must be waited for
\* does not run, and a job published now waits for it.
LEMMA FloorKept ==
  ASSUME IInv, Next, NEW u \in Threads, u \in inside, ~unprotect(u), NEW f \in Nat
  PROVE  /\ HeadFloor(u, f) => Floor("head", safe_head', retired', stale'[u], f)
         /\ ReadOnlyFloor(u, f) =>
              Floor("read_only", safe_read_only', retired', stale'[u], f)
<1> USE DEF IInv
<1>0. safe_head \in Nat /\ safe_read_only \in Nat
  BY DEF TypeOK
<1>m. \A a \in Marks : a \in Nat
  BY AddressNat
<1>1. CASE stale'[u] = stale[u] /\ UNCHANGED <<retired, safe_head, safe_read_only>>
  BY <1>1 DEF Floor, HeadFloor, ReadOnlyFloor
<1>2. ASSUME NEW t \in Threads,
             shift_read_only_address(t) \/ shift_read_only_to_tail(t)
      PROVE  /\ HeadFloor(u, f) => Floor("head", safe_head', retired', stale'[u], f)
             /\ ReadOnlyFloor(u, f) =>
                  Floor("read_only", safe_read_only', retired', stale'[u], f)
  <2>1. PICK a \in Nat : Publish_read_only(a)
    BY <1>2, PublishAim
  <2>2. UNCHANGED <<safe_head, safe_read_only>>
    BY <1>2 DEF shift_read_only_address, shift_read_only_to_tail
  <2>3. CASE UNCHANGED epoch
    BY <1>1, <2>2, <2>3 DEF epoch
  <2>4. CASE Epoch!Retire(<<"read_only", a>>)
    BY <1>0, <2>2, <2>4, RetireFloor DEF Kinds, HeadFloor, ReadOnlyFloor
  <2> QED
    BY <2>1, <2>3, <2>4 DEF Publish_read_only
<1>3. ASSUME NEW t \in Threads, shift_head_address(t)
      PROVE  /\ HeadFloor(u, f) => Floor("head", safe_head', retired', stale'[u], f)
             /\ ReadOnlyFloor(u, f) =>
                  Floor("read_only", safe_read_only', retired', stale'[u], f)
  <2>1. clamp[t] \in Nat
    BY DEF TypeOK
  <2>2. UNCHANGED <<safe_head, safe_read_only>>
    BY <1>3 DEF shift_head_address
  <2>3. CASE UNCHANGED epoch
    BY <1>1, <2>2, <2>3 DEF epoch
  <2>4. CASE Epoch!Retire(<<"head", clamp[t]>>)
    BY <1>0, <2>1, <2>2, <2>4, RetireFloor DEF Kinds, HeadFloor, ReadOnlyFloor
  <2> QED
    BY <1>3, <2>3, <2>4 DEF shift_head_address
<1>4. ASSUME NEW a \in Marks, on_pages_marked_read_only(a)
      PROVE  /\ HeadFloor(u, f) => Floor("head", safe_head', retired', stale'[u], f)
             /\ ReadOnlyFloor(u, f) =>
                  Floor("read_only", safe_read_only', retired', stale'[u], f)
  <2>1. /\ retired[<<"read_only", a>>] = "pending"
        /\ <<"read_only", a>> \notin stale[u] /\ stale'[u] = stale[u]
        /\ safe_head' = safe_head
        /\ safe_read_only' = Higher(safe_read_only, a)
    BY <1>4 DEF on_pages_marked_read_only, Epoch!Reclaim
  <2>2. \A b \in Marks :
          /\ retired'[<<"read_only", b>>] # "no" => retired[<<"read_only", b>>] # "no"
          /\ retired'[<<"head", b>>] = retired[<<"head", b>>]
    BY <1>4 DEF on_pages_marked_read_only, Epoch!Reclaim, TypeOK, Jobs, Kinds
  <2>3. ASSUME ReadOnlyFloor(u, f)
        PROVE  Floor("read_only", safe_read_only', retired', stale'[u], f)
    <3>1. a <= f
      BY <1>m, <2>1, <2>3 DEF ReadOnlyFloor, Floor
    <3>2. safe_read_only' <= f
      BY <1>0, <1>m, <2>1, <2>3, <3>1 DEF ReadOnlyFloor, Floor, Higher
    <3> QED
      BY <2>1, <2>2, <2>3, <3>2 DEF ReadOnlyFloor, Floor
  <2>4. ASSUME HeadFloor(u, f)
        PROVE  Floor("head", safe_head', retired', stale'[u], f)
    BY <2>1, <2>2, <2>4 DEF HeadFloor, Floor
  <2> QED
    BY <2>3, <2>4
<1>5. ASSUME NEW a \in Marks, on_pages_closed(a)
      PROVE  /\ HeadFloor(u, f) => Floor("head", safe_head', retired', stale'[u], f)
             /\ ReadOnlyFloor(u, f) =>
                  Floor("read_only", safe_read_only', retired', stale'[u], f)
  <2>1. /\ retired[<<"head", a>>] = "pending"
        /\ <<"head", a>> \notin stale[u] /\ stale'[u] = stale[u]
        /\ safe_read_only' = safe_read_only
        /\ safe_head' = Higher(safe_head, a)
    BY <1>5 DEF on_pages_closed, Epoch!Reclaim
  <2>2. \A b \in Marks :
          /\ retired'[<<"head", b>>] # "no" => retired[<<"head", b>>] # "no"
          /\ retired'[<<"read_only", b>>] = retired[<<"read_only", b>>]
    BY <1>5 DEF on_pages_closed, Epoch!Reclaim, TypeOK, Jobs, Kinds
  <2>3. ASSUME HeadFloor(u, f)
        PROVE  Floor("head", safe_head', retired', stale'[u], f)
    <3>1. a <= f
      BY <1>m, <2>1, <2>3 DEF HeadFloor, Floor
    <3>2. safe_head' <= f
      BY <1>0, <1>m, <2>1, <2>3, <3>1 DEF HeadFloor, Floor, Higher
    <3> QED
      BY <2>1, <2>2, <2>3, <3>2 DEF HeadFloor, Floor
  <2>4. ASSUME ReadOnlyFloor(u, f)
        PROVE  Floor("read_only", safe_read_only', retired', stale'[u], f)
    BY <2>1, <2>2, <2>4 DEF ReadOnlyFloor, Floor
  <2> QED
    BY <2>3, <2>4
<1>6. ASSUME NEW t \in Threads, t # u, unprotect(t)
      PROVE  stale'[u] = stale[u] /\ UNCHANGED <<retired, safe_head, safe_read_only>>
  BY <1>6 DEF unprotect, Epoch!Leave, marks, TypeOK
<1>7. ASSUME NEW t \in Threads,
             \/ protect(t) \/ head_address(t) \/ read_only_address(t) \/ find(t)
             \/ update_in_place(t) \/ init_record(t) \/ allocate_record(t)
             \/ fetch_add_fits(t) \/ fetch_add_spins(t) \/ fetch_add_crosses(t)
             \/ turn_blocked(t) \/ turn_zero(t) \/ turn_publish(t)
             \/ clamp_head(t) \/ load_tail_address(t) \/ wait_flushed(t)
      PROVE  stale'[u] = stale[u] /\ UNCHANGED <<retired, safe_head, safe_read_only>>
  BY <1>7 DEF protect, head_address, read_only_address, find, update_in_place,
     init_record, allocate_record, fetch_add_fits, fetch_add_spins,
     fetch_add_crosses, turn_blocked, turn_zero, turn_publish, clamp_head,
     load_tail_address, wait_flushed, marks, epoch, Epoch!Enter
<1>8. ASSUME (\E a \in Marks : flush_start(a) \/ close_page(a))
               \/ flush_page \/ flush_done \/ flush_fails
      PROVE  stale'[u] = stale[u] /\ UNCHANGED <<retired, safe_head, safe_read_only>>
  BY <1>8 DEF flush_start, close_page, flush_page, flush_done, flush_fails, marks,
     epoch
<1> QED
  BY <1>1, <1>2, <1>3, <1>4, <1>5, <1>6, <1>7, <1>8
  DEF Next, inner_step, call_step, alloc_step, job_step

\* A watermark that a thread has just loaded, or the address it has just been
\* given, is a floor: every job published so far is below it.
LEMMA FloorTaken ==
  ASSUME IInv, NEW u \in Threads, NEW f \in Nat
  PROVE  /\ head <= f => HeadFloor(u, f)
         /\ read_only <= f => ReadOnlyFloor(u, f)
<1>1. /\ safe_head \in Nat /\ head \in Nat /\ safe_read_only \in Nat
      /\ read_only \in Nat /\ safe_head <= head /\ safe_read_only <= read_only
  BY DEF IInv, TypeOK, Order, WatermarkOrder
<1>2. \A a \in Marks : /\ a \in Nat
                       /\ retired[<<"read_only", a>>] # "no" => a <= read_only
                       /\ retired[<<"head", a>>] # "no" => a <= head
  BY AddressNat DEF IInv, Order, Published
<1>3. ASSUME head <= f PROVE HeadFloor(u, f)
  <2>1. \A a \in Marks : retired[<<"head", a>>] # "no" => ~(a > f)
    <3> SUFFICES ASSUME NEW a \in Marks, retired[<<"head", a>>] # "no"
                 PROVE  ~(a > f)
      OBVIOUS
    <3>1. a \in Nat /\ a <= head
      BY <1>2
    <3> QED
      BY <1>1, <1>3, <3>1
  <2>2. safe_head <= f
    BY <1>1, <1>3
  <2> QED
    BY <2>1, <2>2 DEF HeadFloor, Floor
<1>4. ASSUME read_only <= f PROVE ReadOnlyFloor(u, f)
  <2>1. \A a \in Marks : retired[<<"read_only", a>>] # "no" => ~(a > f)
    <3> SUFFICES ASSUME NEW a \in Marks, retired[<<"read_only", a>>] # "no"
                 PROVE  ~(a > f)
      OBVIOUS
    <3>1. a \in Nat /\ a <= read_only
      BY <1>2
    <3> QED
      BY <1>1, <1>4, <3>1
  <2>2. safe_read_only <= f
    BY <1>1, <1>4
  <2> QED
    BY <2>1, <2>2 DEF ReadOnlyFloor, Floor
<1> QED
  BY <1>3, <1>4

\* The floors of one thread.
Floored(t) ==
  /\ pc[t] \in {"loading", "ready", "access"} => HeadFloor(t, view_head[t])
  /\ pc[t] \in {"ready", "access"} => ReadOnlyFloor(t, view_read_only[t])
  /\ Owner(t) => ReadOnlyFloor(t, addr[t])

LEMMA FloorsOwn ==
  ASSUME IInv, Next, NEW t \in Threads, inner_step(t) \/ call_step(t)
  PROVE  Floored(t)'
<1> USE DEF IInv
<1> DEFINE H(f) == Floor("head", safe_head', retired', stale'[t], f)
           R(f) == Floor("read_only", safe_read_only', retired', stale'[t], f)
<1>0. Floored(t) /\ (pc[t] \notin {"out", "retry", "fold", "wait_flushed"} => t \in inside)
  BY DEF Floors, Floored, Inside
<1>1. SUFFICES
        /\ pc'[t] \in {"loading", "ready", "access"} => H(view_head'[t])
        /\ pc'[t] \in {"ready", "access"} => R(view_read_only'[t])
        /\ Owner(t)' => R(addr'[t])
  BY DEF Floored, HeadFloor, ReadOnlyFloor
<1>2. ASSUME t \in inside, ~unprotect(t), NEW f \in Nat
      PROVE  (HeadFloor(t, f) => H(f)) /\ (ReadOnlyFloor(t, f) => R(f))
  BY <1>2, FloorKept
<1>3. view_head[t] \in Nat /\ view_read_only[t] \in Nat /\ addr[t] \in Nat
  BY DEF TypeOK
<1> HIDE DEF H, R
<1>4. CASE head_address(t)
  <2>1. /\ pc[t] = "in" /\ pc'[t] = "loading" /\ view_head'[t] = head /\ head \in Nat
        /\ ~unprotect(t)
    BY <1>4 DEF head_address, unprotect, Goto, TypeOK
  <2>2. H(head)
    BY <1>0, <1>2, <2>1, FloorTaken
  <2> QED
    BY <2>1, <2>2 DEF Owner, Shifting
<1>5. CASE read_only_address(t)
  <2>1. /\ pc[t] = "loading" /\ pc'[t] = "ready" /\ view_read_only'[t] = read_only
        /\ read_only \in Nat /\ view_head'[t] = view_head[t] /\ ~unprotect(t)
    BY <1>5 DEF read_only_address, unprotect, Goto, TypeOK
  <2>2. R(read_only)
    BY <1>0, <1>2, <2>1, FloorTaken
  <2>3. H(view_head[t])
    BY <1>0, <1>2, <1>3, <2>1 DEF Floored
  <2> QED
    BY <2>1, <2>2, <2>3 DEF Owner, Shifting
<1>6. CASE find(t) \/ update_in_place(t)
  <2>1. /\ pc[t] \in {"ready", "access"} /\ pc'[t] = "access"
        /\ view_read_only'[t] = view_read_only[t] /\ view_head'[t] = view_head[t]
    BY <1>6 DEF find, update_in_place, locals, Goto, TypeOK
  <2>2. ~unprotect(t)
    BY <2>1 DEF unprotect, TypeOK
  <2>3. H(view_head[t]) /\ R(view_read_only[t])
    BY <1>0, <1>2, <1>3, <2>1, <2>2 DEF Floored
  <2> QED
    BY <2>1, <2>3 DEF Owner, Shifting
<1>7. CASE fetch_add_fits(t) \/ turn_publish(t)
  <2>1. /\ addr'[t] \in Nat /\ TailEnd <= addr'[t] /\ TailEnd \in Nat
        /\ pc'[t] \in {"init", "shift_ro"}
    BY <1>7, TakeStep
  <2>2. read_only <= TailEnd /\ read_only \in Nat
    BY DEF Order, WatermarkOrder, TypeOK
  <2>3. t \in inside /\ ~unprotect(t)
    BY <1>0, <1>7 DEF fetch_add_fits, turn_publish, Goto, unprotect
  <2>4. ReadOnlyFloor(t, addr'[t])
    BY <2>1, <2>2, FloorTaken
  <2>5. R(addr'[t])
    BY <1>2, <2>1, <2>3, <2>4
  <2> QED
    BY <2>1, <2>5
<1>8. CASE \/ init_record(t) \/ shift_read_only_address(t) \/ clamp_head(t)
           \/ shift_head_address(t)
  <2>1. /\ pc'[t] \in {"done", "clamp", "shift_head", "init", "later"}
        /\ addr'[t] = addr[t]
        /\ pc[t] = "init" \/ Shifting(t)
        /\ pc'[t] = "init" => addr[t] # 0
        /\ pc'[t] = "done" => pc[t] = "init"
    BY <1>8 DEF init_record, shift_read_only_address, clamp_head,
       shift_head_address, Goto, locals, TypeOK, Shifting
  <2>2. t \in inside /\ ~unprotect(t)
    BY <1>0, <2>1 DEF unprotect, Shifting
  <2>3. Owner(t) => R(addr[t])
    BY <1>0, <1>2, <1>3, <2>2 DEF Floored
  <2>4. Owner(t)' => Owner(t)
    BY <2>1 DEF Owner, Shifting
  <2> QED
    BY <2>1, <2>3, <2>4
<1>9. CASE turn_blocked(t)
  <2>1. pc'[t] = "shift_ro" /\ addr'[t] = 0
    BY <1>9 DEF turn_blocked, locals, TypeOK, EmptyHanded
  <2> QED
    BY <2>1 DEF Owner, Shifting
<1>10. CASE pc'[t] \in {"out", "in", "alloc", "turn", "turned", "later", "retry",
                        "fold", "wait_flushed"}
  BY <1>10 DEF Owner, Shifting
<1>11. ASSUME \/ protect(t) \/ unprotect(t) \/ allocate_record(t)
              \/ fetch_add_spins(t) \/ fetch_add_crosses(t) \/ turn_zero(t)
              \/ load_tail_address(t) \/ shift_read_only_to_tail(t)
              \/ wait_flushed(t)
       PROVE  pc'[t] \in {"out", "in", "alloc", "turn", "turned", "later", "retry",
                          "fold", "wait_flushed"}
  BY <1>11 DEF protect, unprotect, allocate_record, fetch_add_spins,
     fetch_add_crosses, turn_zero, load_tail_address, shift_read_only_to_tail,
     wait_flushed, Goto, TypeOK
<1> QED
  BY <1>4, <1>5, <1>6, <1>7, <1>8, <1>9, <1>10, <1>11
  DEF inner_step, call_step, alloc_step

LEMMA FloorsStep == ASSUME IInv, Next PROVE Floors'
<1> USE DEF IInv
<1>1. ASSUME NEW u \in Threads, ~unprotect(u), pc'[u] = pc[u], addr'[u] = addr[u],
             view_head'[u] = view_head[u], view_read_only'[u] = view_read_only[u]
      PROVE  Floored(u)'
  <2>1. view_head[u] \in Nat /\ view_read_only[u] \in Nat /\ addr[u] \in Nat
    BY DEF TypeOK
  <2>2. Floored(u)
    BY DEF Floors, Floored
  <2> DEFINE H(f) == Floor("head", safe_head', retired', stale'[u], f)
             R(f) == Floor("read_only", safe_read_only', retired', stale'[u], f)
  <2>3. CASE u \notin inside
    <3>1. pc[u] \in {"out", "retry", "fold", "wait_flushed"}
      BY <2>3 DEF Inside
    <3> QED
      BY <1>1, <3>1 DEF Floored, Owner, Shifting
  <2>4. CASE u \in inside
    <3>1. ASSUME NEW f \in Nat
          PROVE  (HeadFloor(u, f) => H(f)) /\ (ReadOnlyFloor(u, f) => R(f))
      BY <1>1, <2>4, FloorKept
    <3> HIDE DEF H, R
    <3>2. /\ pc[u] \in {"loading", "ready", "access"} => H(view_head'[u])
          /\ pc[u] \in {"ready", "access"} => R(view_read_only'[u])
          /\ Owner(u) => R(addr'[u])
      BY <1>1, <2>1, <2>2, <3>1 DEF Floored
    <3>3. Owner(u)' => Owner(u)
      BY <1>1 DEF Owner, Shifting
    <3> QED
      BY <1>1, <3>2, <3>3 DEF Floored, HeadFloor, ReadOnlyFloor, H, R
  <2> QED
    BY <2>3, <2>4
<1>2. CASE job_step \/ flush_fails
  <2>1. \A u \in Threads :
          /\ pc'[u] = pc[u] /\ addr'[u] = addr[u] /\ view_head'[u] = view_head[u]
          /\ view_read_only'[u] = view_read_only[u] /\ ~unprotect(u)
    <3>1. UNCHANGED <<pc, addr, view_head, view_read_only>>
      BY <1>2, JobFrame
    <3>2. \A u \in Threads : ~unprotect(u)
      BY <3>1 DEF unprotect, TypeOK
    <3> QED
      BY <3>1, <3>2
  <2> QED
    BY <1>1, <2>1 DEF Floors, Floored
<1>3. ASSUME NEW t \in Threads, inner_step(t) \/ call_step(t) PROVE Floors'
  <2>1. \A u \in Threads \ {t} :
          /\ pc'[u] = pc[u] /\ addr'[u] = addr[u] /\ view_head'[u] = view_head[u]
          /\ view_read_only'[u] = view_read_only[u]
    BY <1>3, OwnStep
  <2>2. \A u \in Threads \ {t} : ~unprotect(u)
    BY <2>1 DEF unprotect, TypeOK
  <2>3. Floored(t)'
    BY <1>3, FloorsOwn
  <2> QED
    BY <1>1, <2>1, <2>2, <2>3 DEF Floors, Floored
<1> QED
  BY <1>2, <1>3 DEF Next

-----------------------------------------------------------------------------
(* Memory and the device.                                                  *)

\* An address that is neither closed nor past the page of the tail.
Live(a) == closed <= a /\ a < At(tail_page + 1, 0)

LEMMA LivePages ==
  ASSUME IInv, NEW a \in Nat, Live(a)
  PROVE  page_of(a) <= tail_page /\ tail_page + 1 - BufferSize <= page_of(a)
<1> USE DEF IInv
<1>1. tail_page \in Nat /\ closed \in Nat
  BY TailFacts DEF TypeOK
<1>2. page_of(a) <= tail_page
  BY <1>1, PageBelow DEF Live
<1>3. tail_page + 1 - BufferSize \in Int
  BY <1>1
<1>4. At(tail_page + 1 - BufferSize, 0) <= a
  <2>1. At(tail_page + 1 - BufferSize, 0) <= closed /\ closed <= a
    BY DEF Memory, Window, Room, Live
  <2>2. At(tail_page + 1 - BufferSize, 0) \in Int
    BY <1>3, AtFacts
  <2> QED
    BY <1>1, <2>1, <2>2
<1> QED
  BY <1>2, <1>3, <1>4, PageAbove

\* Live addresses do not share a cell of memory.
LEMMA CellsDiffer ==
  ASSUME IInv, NEW a \in Nat, NEW b \in Nat, Live(a), Live(b), a # b
  PROVE  ~(frame_of(page_of(a)) = frame_of(page_of(b)) /\ a % PageSize = b % PageSize)
<1> DEFINE p == page_of(a)
           q == page_of(b)
<1>1. /\ p \in Nat /\ a = At(p, 0) + (a % PageSize)
      /\ q \in Nat /\ b = At(q, 0) + (b % PageSize)
  BY PageOf
<1>2. /\ p <= tail_page /\ tail_page + 1 - BufferSize <= p
      /\ q <= tail_page /\ tail_page + 1 - BufferSize <= q /\ tail_page \in Nat
  BY LivePages, TailFacts DEF IInv
<1> HIDE DEF p, q
<1>3. CASE p = q
  <2>1. a % PageSize # b % PageSize
    BY <1>1, <1>3
  <2> QED
    BY <2>1
<1>4. CASE p < q
  <2>1. q < p + BufferSize
    BY <1>1, <1>2
  <2> QED
    BY <1>1, <1>4, <2>1, FramesDiffer DEF p, q
<1>5. CASE q < p
  <2>1. p < q + BufferSize
    BY <1>1, <1>2
  <2>2. frame_of(q) # frame_of(p)
    BY <1>1, <1>5, <2>1, FramesDiffer
  <2> QED
    BY <2>2 DEF p, q
<1> QED
  BY <1>1, <1>3, <1>4, <1>5

\* What the operations write is a record of theirs, in memory and not flushed.
LEMMA StoreStep ==
  ASSUME IInv, NEW t \in Threads, update_in_place(t) \/ init_record(t)
  PROVE  /\ addr[t] \in used /\ addr[t] \in Nat /\ safe_read_only <= addr[t]
         /\ Live(addr[t])
         /\ \E v \in Words \ {0} : Store(addr[t], v)
<1> USE DEF IInv
<1>1. addr[t] \in Nat
  BY DEF TypeOK
<1>2. addr[t] \in used /\ safe_read_only <= addr[t]
  <2>1. CASE update_in_place(t)
    <3>1. pc[t] = "access" /\ addr[t] >= view_read_only[t]
      BY <2>1 DEF update_in_place
    <3>2. addr[t] \in used
      BY <3>1 DEF Memory, Held, WrittenUsed
    <3>3. safe_read_only <= view_read_only[t]
      BY <3>1 DEF Floors, ReadOnlyFloor, Floor
    <3>4. safe_read_only \in Nat /\ view_read_only[t] \in Nat
      BY DEF TypeOK
    <3> QED
      BY <1>1, <3>1, <3>2, <3>3, <3>4
  <2>2. CASE init_record(t)
    <3>1. Owner(t)
      BY <2>2 DEF init_record, Goto, Owner
    <3> QED
      BY <3>1 DEF Memory, Held, Floors, ReadOnlyFloor, Floor
  <2> QED
    BY <2>1, <2>2
<1>3. Live(addr[t])
  <2>1. addr[t] < TailEnd
    BY <1>2 DEF Order, UsedBelow
  <2>2. TailEnd \in Nat /\ TailEnd <= At(tail_page + 1, 0) /\ At(tail_page + 1, 0) \in Int
    BY TailFacts
  <2>3. closed <= safe_read_only /\ closed \in Nat /\ safe_read_only \in Nat
    BY DEF Order, WatermarkOrder, TypeOK
  <2> QED
    BY <1>1, <1>2, <2>1, <2>2, <2>3 DEF Live
<1>4. \E v \in Words \ {0} : Store(addr[t], v)
  <2>1. 1 \in Words \ {0} /\ 2 \in Words \ {0}
    BY DEF Words
  <2> QED
    BY <2>1 DEF update_in_place, init_record
<1> QED
  BY <1>1, <1>2, <1>3, <1>4

\* Who else writes to memory, to the device or to the history.
LEMMA WrittenFrame ==
  ASSUME Next, \A t \in Threads : ~(update_in_place(t) \/ init_record(t))
  PROVE  /\ written' = written
         /\ mem' = mem \/ \E t \in Threads : turn_zero(t)
         /\ disk' = disk \/ flush_page
  BY DEF Next, inner_step, call_step, alloc_step, job_step, protect, head_address,
     read_only_address, find, unprotect, allocate_record, fetch_add_fits,
     fetch_add_spins, fetch_add_crosses, turn_blocked, turn_zero, turn_publish,
     shift_read_only_address, clamp_head, shift_head_address,
     load_tail_address, shift_read_only_to_tail, wait_flushed,
     on_pages_marked_read_only, flush_start, flush_page, flush_fails,
     flush_done, on_pages_closed, close_page, data

\* A word once written stays written, and only on used units.
LEMMA WrittenStep ==
  ASSUME IInv, Next
  PROVE  /\ \A a \in Address : written[a] # 0 => written'[a] # 0
         /\ WrittenUsed'
<1> USE DEF IInv
<1>1. \A a \in used : a \in used'
  BY UsedStep
<1>2. ASSUME NEW t \in Threads, update_in_place(t) \/ init_record(t)
      PROVE  /\ \A a \in Address : written[a] # 0 => written'[a] # 0
             /\ WrittenUsed'
  <2>1. PICK v \in Words \ {0} : Store(addr[t], v)
    BY <1>2, StoreStep
  <2>2. addr[t] \in used /\ addr[t] \in Nat
    BY <1>2, StoreStep
  <2>3. \A b \in Address : written'[b] = IF b = addr[t] THEN v ELSE written[b]
    BY <2>1, <2>2, StoreType
  <2>4. v # 0
    BY <2>1
  <2> QED
    BY <1>1, <2>2, <2>3, <2>4 DEF Memory, WrittenUsed
<1>3. CASE written' = written
  BY <1>1, <1>3 DEF Memory, WrittenUsed
<1> QED
  BY <1>2, <1>3, WrittenFrame

\* What one thread holds.
Holding(t) ==
  /\ pc[t] = "access" => /\ addr[t] \in Address /\ written[addr[t]] # 0
                         /\ addr[t] >= view_head[t]
  /\ Owner(t) => addr[t] \in used

LEMMA HeldOwn ==
  ASSUME IInv, Next, NEW t \in Threads, inner_step(t) \/ call_step(t)
  PROVE  Holding(t)'
<1> USE DEF IInv
<1>0. Holding(t)
  BY DEF Memory, Held, Holding
<1>1. \A a \in used : a \in used'
  BY UsedStep
<1>2. \A a \in Address : written[a] # 0 => written'[a] # 0
  BY WrittenStep
<1>3. CASE find(t)
  <2>1. PICK a \in Address : /\ written[a] # 0 /\ a >= view_head[t]
                             /\ addr' = [addr EXCEPT ![t] = a]
    BY <1>3 DEF find
  <2>2. pc'[t] = "access" /\ addr'[t] = a /\ view_head'[t] = view_head[t]
    BY <1>3, <2>1 DEF find, Goto, TypeOK
  <2>3. written'[a] # 0
    BY <1>2, <2>1
  <2> QED
    BY <2>1, <2>2, <2>3 DEF Holding, Owner, Shifting
<1>4. CASE update_in_place(t)
  <2>1. /\ pc[t] = "access" /\ pc'[t] = "access" /\ addr'[t] = addr[t]
        /\ view_head'[t] = view_head[t]
    BY <1>4 DEF update_in_place, locals
  <2> QED
    BY <1>0, <1>2, <2>1 DEF Holding, Owner, Shifting
<1>5. CASE fetch_add_fits(t) \/ turn_publish(t)
  <2>1. addr'[t] \in used' /\ pc'[t] \in {"init", "shift_ro"}
    BY <1>5, TakeStep
  <2> QED
    BY <2>1 DEF Holding
<1>6. CASE \/ init_record(t) \/ shift_read_only_address(t) \/ clamp_head(t)
           \/ shift_head_address(t)
  <2>1. /\ pc'[t] \in {"done", "clamp", "shift_head", "init", "later"}
        /\ addr'[t] = addr[t]
        /\ pc[t] = "init" \/ Shifting(t)
        /\ pc'[t] = "init" => addr[t] # 0
        /\ pc'[t] = "done" => pc[t] = "init"
    BY <1>6 DEF init_record, shift_read_only_address, clamp_head,
       shift_head_address, Goto, locals, TypeOK, Shifting
  <2>2. Owner(t)' => Owner(t)
    BY <2>1 DEF Owner, Shifting
  <2> QED
    BY <1>0, <1>1, <2>1, <2>2 DEF Holding
<1>7. CASE turn_blocked(t)
  <2>1. pc'[t] = "shift_ro" /\ addr'[t] = 0
    BY <1>7 DEF turn_blocked, locals, TypeOK, EmptyHanded
  <2> QED
    BY <2>1 DEF Holding, Owner, Shifting
<1>8. CASE pc'[t] \in {"out", "in", "loading", "ready", "alloc", "turn", "turned",
                       "later", "retry", "fold", "wait_flushed"}
  BY <1>8 DEF Holding, Owner, Shifting
<1>9. ASSUME \/ protect(t) \/ head_address(t) \/ read_only_address(t)
             \/ unprotect(t) \/ allocate_record(t) \/ fetch_add_spins(t)
             \/ fetch_add_crosses(t) \/ turn_zero(t) \/ load_tail_address(t)
             \/ shift_read_only_to_tail(t) \/ wait_flushed(t)
      PROVE  pc'[t] \in {"out", "in", "loading", "ready", "alloc", "turn",
                         "turned", "later", "retry", "fold", "wait_flushed"}
  BY <1>9 DEF protect, head_address, read_only_address, unprotect,
     allocate_record, fetch_add_spins, fetch_add_crosses, turn_zero,
     load_tail_address, shift_read_only_to_tail, wait_flushed, Goto, TypeOK
<1> QED
  BY <1>3, <1>4, <1>5, <1>6, <1>7, <1>8, <1>9
  DEF inner_step, call_step, alloc_step

LEMMA HeldStep == ASSUME IInv, Next PROVE Held'
<1> USE DEF IInv
<1>1. /\ \A a \in used : a \in used'
      /\ \A a \in Address : written[a] # 0 => written'[a] # 0
  BY UsedStep, WrittenStep
<1>2. ASSUME NEW u \in Threads, pc'[u] = pc[u], addr'[u] = addr[u],
             view_head'[u] = view_head[u]
      PROVE  Holding(u)'
  <2>1. Holding(u)
    BY DEF Memory, Held, Holding
  <2> QED
    BY <1>1, <1>2, <2>1 DEF Holding, Owner, Shifting
<1>3. CASE job_step \/ flush_fails
  <2>1. \A u \in Threads : /\ pc'[u] = pc[u] /\ addr'[u] = addr[u]
                           /\ view_head'[u] = view_head[u]
    BY <1>3, JobFrame
  <2> QED
    BY <1>2, <2>1 DEF Held, Holding
<1>4. ASSUME NEW t \in Threads, inner_step(t) \/ call_step(t) PROVE Held'
  <2>1. \A u \in Threads \ {t} : /\ pc'[u] = pc[u] /\ addr'[u] = addr[u]
                                 /\ view_head'[u] = view_head[u]
    BY <1>4, OwnStep
  <2>2. Holding(t)'
    BY <1>4, HeldOwn
  <2> QED
    BY <1>2, <2>1, <2>2 DEF Held, Holding
<1> QED
  BY <1>3, <1>4 DEF Next

\* closed and SafeHead never go back.
LEMMA ClosedGrows ==
  ASSUME IInv, Next
  PROVE  /\ closed \in Nat /\ closed' \in Nat /\ closed <= closed'
         /\ safe_head \in Nat /\ safe_head' \in Nat /\ safe_head <= safe_head'
<1> USE DEF IInv
<1>0. closed \in Nat /\ safe_head \in Nat
  BY DEF TypeOK
<1>1. ASSUME NEW a \in Marks, close_page(a)
      PROVE  closed' \in Nat /\ closed <= closed' /\ safe_head' = safe_head
  BY <1>0, <1>1 DEF close_page
<1>2. ASSUME NEW a \in Marks, on_pages_closed(a)
      PROVE  closed' = closed /\ safe_head' \in Nat /\ safe_head <= safe_head'
  BY <1>0, <1>2, AddressNat, HigherLower DEF on_pages_closed
<1>3. CASE UNCHANGED <<closed, safe_head>>
  BY <1>0, <1>3
<1>4. ASSUME \A a \in Marks : ~close_page(a) /\ ~on_pages_closed(a)
      PROVE  UNCHANGED <<closed, safe_head>>
  BY <1>4 DEF Next, inner_step, call_step, alloc_step, job_step, protect,
     head_address, read_only_address, find, update_in_place, init_record,
     unprotect, allocate_record, fetch_add_fits, fetch_add_spins,
     fetch_add_crosses, turn_blocked, turn_zero, turn_publish,
     shift_read_only_address, clamp_head, shift_head_address,
     load_tail_address, shift_read_only_to_tail, wait_flushed,
     on_pages_marked_read_only, flush_start, flush_page, flush_done,
     flush_fails, marks
<1> QED
  BY <1>0, <1>1, <1>2, <1>3, <1>4

LEMMA RoomKept ==
  ASSUME IInv, Next, NEW p \in Nat, Room(p)
  PROVE  At(p + 1 - BufferSize, 0) <= closed'
<1>1. p + 1 - BufferSize \in Int
  OBVIOUS
<1>2. At(p + 1 - BufferSize, 0) \in Int
  BY <1>1, AtFacts
<1> QED
  BY <1>2, ClosedGrows DEF Room

\* A page that page_is_free lets through finds the frame's last page closed.
LEMMA FreeRoom ==
  ASSUME TypeOK, NEW p \in Nat, page_is_free(p)
  PROVE  Room(p)
<1>1. p + 1 - BufferSize \in Int /\ closed \in Nat
  BY DEF TypeOK
<1>2. CASE p < BufferSize
  <2>1. At(p + 1 - BufferSize, 0) <= At(0, 0) /\ At(p + 1 - BufferSize, 0) \in Int
    <3> DEFINE q == p + 1 - BufferSize
    <3>1. q \in Int /\ q <= 0
      BY <1>2
    <3> HIDE DEF q
    <3>2. At(q, 0) <= At(0, 0)
      BY <3>1, AtMonotone
    <3>3. At(q, 0) \in Int
      BY <3>1, AtFacts
    <3> QED
      BY <3>2, <3>3 DEF q
  <2> QED
    BY <1>1, <2>1, AtZero DEF Room
<1>3. CASE ~(p < BufferSize)
  <2>1. p - BufferSize + 1 = p + 1 - BufferSize
    OBVIOUS
  <2> QED
    BY <1>3, <2>1 DEF Room, page_is_free
<1> QED
  BY <1>2, <1>3

\* The frame of the page to come is not that of a live address.
LEMMA NextFrame ==
  ASSUME IInv, NEW a \in Nat, Live(a), Room(tail_page + 1)
  PROVE  frame_of(page_of(a)) # frame_of(tail_page + 1)
<1> USE DEF IInv
<1>1. tail_page \in Nat /\ closed \in Nat /\ page_of(a) \in Nat
  BY TailFacts, PageOf DEF TypeOK
<1>2. page_of(a) <= tail_page
  BY LivePages
<1>3. tail_page + 1 + 1 - BufferSize <= page_of(a)
  <2>1. tail_page + 1 + 1 - BufferSize \in Int
    BY <1>1
  <2>2. At(tail_page + 1 + 1 - BufferSize, 0) <= a
    <3>1. At(tail_page + 1 + 1 - BufferSize, 0) \in Int
      BY <2>1, AtFacts
    <3> QED
      BY <1>1, <3>1 DEF Room, Live
  <2> QED
    BY <2>1, <2>2, PageAbove
<1>4. /\ tail_page + 1 \in Nat /\ page_of(a) < tail_page + 1
      /\ tail_page + 1 < page_of(a) + BufferSize
  BY <1>1, <1>2, <1>3
<1> QED
  BY <1>1, <1>4, FramesDiffer

LEMMA WindowStep == ASSUME IInv, Next PROVE Window'
<1> USE DEF IInv
<1>0. tail_page \in Nat
  BY TailFacts
<1>1. Room(tail_page)'
  <2>1. CASE tail_page' = tail_page
    <3>1. At(tail_page + 1 - BufferSize, 0) <= closed'
      BY <1>0, RoomKept DEF Memory, Window
    <3> QED
      BY <2>1, <3>1 DEF Room
  <2>2. ASSUME NEW t \in Threads, turn_publish(t), tail_page' = tail_page + 1
        PROVE  Room(tail_page)'
    <3>1. page[t] = tail_page /\ pc[t] = "turned"
      BY <2>2, TailPublish DEF turn_publish, Goto
    <3>2. Room(tail_page + 1)
      BY <3>1 DEF Memory, Window
    <3>3. At(tail_page + 1 + 1 - BufferSize, 0) <= closed'
      BY <1>0, <3>2, RoomKept
    <3> QED
      BY <2>2, <3>3 DEF Room
  <2> QED
    BY <2>1, <2>2, TailMoves
<1>2. ASSUME NEW u \in Threads, pc'[u] = "turned"
      PROVE  /\ Room(page[u] + 1)'
             /\ \A o \in 0 .. PageSize - 1 : mem'[frame_of(page'[u] + 1)][o] = 0
  <2>1. CASE turn_zero(u)
    <3>1. page'[u] = page[u] /\ page[u] + 1 \in Nat /\ page_is_free(page[u] + 1)
      BY <2>1 DEF turn_zero, locals, TypeOK
    <3>2. Room(page[u] + 1)
      BY <3>1, FreeRoom
    <3>3. Room(page[u] + 1)'
      BY <3>1, <3>2, RoomKept DEF Room
    <3>4. frame_of(page[u] + 1) \in 0 .. BufferSize - 1
      BY <3>1, FrameType
    <3>5. mem'[frame_of(page[u] + 1)] = [o \in 0 .. PageSize - 1 |-> 0]
      BY <2>1, <3>4 DEF turn_zero, TypeOK
    <3>6. mem'[frame_of(page'[u] + 1)] = [o \in 0 .. PageSize - 1 |-> 0]
      BY <3>1, <3>5
    <3> QED
      BY <3>3, <3>6
  <2>2. CASE ~turn_zero(u)
    <3>1. pc[u] = "turned" /\ page'[u] = page[u]
      <4>1. CASE job_step \/ flush_fails
        BY <1>2, <4>1, JobFrame
      <4>2. ASSUME NEW t \in Threads, inner_step(t) \/ call_step(t), t # u
            PROVE  pc'[u] = pc[u] /\ page'[u] = page[u]
        BY <4>2, OwnStep
      <4>3. CASE inner_step(u) \/ call_step(u)
        BY <1>2, <2>2, <4>3 DEF inner_step, call_step, alloc_step, protect,
           head_address, read_only_address, find, update_in_place, init_record,
           unprotect, allocate_record, fetch_add_fits, fetch_add_spins,
           fetch_add_crosses, turn_blocked, turn_publish,
           shift_read_only_address, clamp_head, shift_head_address,
           load_tail_address, shift_read_only_to_tail, wait_flushed, Goto,
           TypeOK, locals
      <4> QED
        BY <1>2, <4>1, <4>2, <4>3 DEF Next
    <3>2. /\ page[u] = tail_page /\ Room(page[u] + 1) /\ page[u] + 1 \in Nat
          /\ \A o \in 0 .. PageSize - 1 : mem[frame_of(page[u] + 1)][o] = 0
      BY <1>0, <3>1 DEF OneTurner, Turning, Memory, Window
    <3>3. Room(page[u] + 1)'
      BY <3>1, <3>2, RoomKept DEF Room
    <3>4. frame_of(page[u] + 1) \in 0 .. BufferSize - 1
      BY <3>2, FrameType
    <3>5. \A o \in 0 .. PageSize - 1 : mem'[frame_of(page[u] + 1)][o] = 0
      <4>1. CASE mem' = mem
        BY <3>2, <4>1
      <4>2. ASSUME NEW t \in Threads, turn_zero(t) PROVE FALSE
        <5>1. t = u
          BY <3>1, <4>2 DEF OneTurner, Turning, turn_zero
        <5> QED
          BY <2>2, <4>2, <5>1
      <4>3. ASSUME NEW t \in Threads, update_in_place(t) \/ init_record(t)
            PROVE  \A o \in 0 .. PageSize - 1 : mem'[frame_of(page[u] + 1)][o] = 0
        <5>1. /\ addr[t] \in Nat /\ Live(addr[t])
              /\ \E v \in Words \ {0} : Store(addr[t], v)
          BY <4>3, StoreStep
        <5>2. PICK v \in Words : Store(addr[t], v)
          BY <5>1
        <5>3. frame_of(page_of(addr[t])) # frame_of(page[u] + 1)
          BY <3>2, <5>1, NextFrame
        <5>4. \A o \in 0 .. PageSize - 1 :
                mem'[frame_of(page[u] + 1)][o] = mem[frame_of(page[u] + 1)][o]
          BY <3>4, <5>1, <5>2, <5>3, StoreType
        <5> QED
          BY <3>2, <5>4
      <4> QED
        BY <4>1, <4>2, <4>3, WrittenFrame
    <3> QED
      BY <3>1, <3>3, <3>5
  <2> QED
    BY <2>1, <2>2
<1> QED
  BY <1>1, <1>2 DEF Window

LEMMA InMemoryStep == ASSUME IInv, Next PROVE InMemory'
<1> USE DEF IInv
<1>0. /\ tail_page \in Nat /\ At(tail_page + 1, 0) \in Int
      /\ TailEnd <= At(tail_page + 1, 0) /\ TailEnd \in Nat
  BY TailFacts
<1>1. SUFFICES ASSUME NEW a \in Address, safe_head' <= a, a < At(tail_page' + 1, 0)
               PROVE  mem'[frame_of(page_of(a))][a % PageSize] = written'[a]
  BY DEF InMemory, record_at
<1>2. a \in Nat /\ safe_head <= a /\ closed <= a
  <2>1. a \in Nat
    BY AddressNat
  <2>2. closed <= safe_head
    BY DEF Order, WatermarkOrder
  <2> QED
    BY <1>1, <2>1, <2>2, ClosedGrows
<1>3. /\ frame_of(page_of(a)) \in 0 .. BufferSize - 1
      /\ a % PageSize \in 0 .. PageSize - 1 /\ page_of(a) \in Nat
  BY <1>2, PageOf, FrameType
<1>4. CASE a < At(tail_page + 1, 0)
  <2>1. mem[frame_of(page_of(a))][a % PageSize] = written[a] /\ Live(a)
    BY <1>2, <1>4 DEF Memory, InMemory, record_at, Live
  <2>2. CASE mem' = mem /\ written' = written
    BY <2>1, <2>2
  <2>3. ASSUME NEW t \in Threads, turn_zero(t), written' = written
        PROVE  mem'[frame_of(page_of(a))][a % PageSize] = written'[a]
    <3>1. page[t] = tail_page /\ page_is_free(tail_page + 1)
      BY <2>3 DEF OneTurner, Turning, turn_zero
    <3>2. Room(tail_page + 1)
      BY <1>0, <3>1, FreeRoom
    <3>3. frame_of(page_of(a)) # frame_of(page[t] + 1)
      BY <1>2, <2>1, <3>1, <3>2, NextFrame
    <3>4. mem'[frame_of(page_of(a))] = mem[frame_of(page_of(a))]
      BY <1>3, <2>3, <3>3 DEF turn_zero, TypeOK
    <3> QED
      BY <2>1, <2>3, <3>4
  <2>4. ASSUME NEW t \in Threads, update_in_place(t) \/ init_record(t)
        PROVE  mem'[frame_of(page_of(a))][a % PageSize] = written'[a]
    <3>1. /\ addr[t] \in Nat /\ Live(addr[t])
          /\ \E v \in Words \ {0} : Store(addr[t], v)
      BY <2>4, StoreStep
    <3>2. PICK v \in Words : Store(addr[t], v)
      BY <3>1
    <3>3. /\ written'[a] = IF a = addr[t] THEN v ELSE written[a]
          /\ mem'[frame_of(page_of(a))][a % PageSize] =
               IF /\ frame_of(page_of(a)) = frame_of(page_of(addr[t]))
                  /\ a % PageSize = addr[t] % PageSize
                 THEN v ELSE mem[frame_of(page_of(a))][a % PageSize]
      <4>1. written'[a] = IF a = addr[t] THEN v ELSE written[a]
        BY <3>1, <3>2, StoreType
      <4>2. mem'[frame_of(page_of(a))][a % PageSize] =
              IF /\ frame_of(page_of(a)) = frame_of(page_of(addr[t]))
                 /\ a % PageSize = addr[t] % PageSize
                THEN v ELSE mem[frame_of(page_of(a))][a % PageSize]
        BY <1>3, <3>1, <3>2, StoreType
      <4> QED
        BY <4>1, <4>2
    <3>4. CASE a = addr[t]
      BY <3>3, <3>4
    <3>5. CASE a # addr[t]
      <4>1. ~(/\ frame_of(page_of(a)) = frame_of(page_of(addr[t]))
              /\ a % PageSize = addr[t] % PageSize)
        BY <1>2, <2>1, <3>1, <3>5, CellsDiffer
      <4> QED
        BY <2>1, <3>3, <3>5, <4>1
    <3> QED
      BY <3>4, <3>5
  <2> QED
    BY <2>2, <2>3, <2>4, WrittenFrame
<1>5. CASE ~(a < At(tail_page + 1, 0))
  <2>1. PICK t \in Threads : turn_publish(t) /\ tail_page' = tail_page + 1
    BY <1>1, <1>5, TailMoves
  <2>2. page[t] = tail_page /\ pc[t] = "turned" /\ mem' = mem /\ written' = written
    BY <2>1, TailPublish DEF turn_publish, Goto, data
  <2>3. page_of(a) = tail_page + 1
    <3>1. tail_page + 1 <= page_of(a)
      BY <1>0, <1>2, <1>5, PageAbove
    <3>2. page_of(a) <= tail_page + 1
      BY <1>0, <1>1, <1>2, <2>1, PageBelow
    <3> QED
      BY <1>0, <1>3, <3>1, <3>2
  <2>4. mem[frame_of(page_of(a))][a % PageSize] = 0
    BY <1>3, <2>2, <2>3 DEF Memory, Window
  <2>5. written[a] = 0
    <3> SUFFICES ASSUME written[a] # 0 PROVE FALSE
      OBVIOUS
    <3>1. a < TailEnd
      BY DEF Memory, WrittenUsed, Order, UsedBelow
    <3> QED
      BY <1>0, <1>2, <1>5, <3>1
  <2> QED
    BY <2>2, <2>4, <2>5
<1> QED
  BY <1>4, <1>5

LEMMA OnDeviceStep == ASSUME IInv, Next PROVE OnDevice'
<1> USE DEF IInv
<1>0. /\ safe_head \in Nat /\ flushed \in Nat /\ safe_read_only \in Nat
      /\ safe_head <= flushed /\ flushed <= safe_read_only
      /\ safe_read_only <= TailEnd /\ TailEnd \in Nat
      /\ TailEnd <= At(tail_page + 1, 0) /\ At(tail_page + 1, 0) \in Int
  BY TailFacts DEF TypeOK, Order, WatermarkOrder
<1>1. \A a \in Address : a \in Nat
  BY AddressNat
<1>2. flush # None => /\ flush.at \in Nat /\ flush.until \in Nat
                      /\ DOMAIN flush = {"at", "until"}
                      /\ flushed <= flush.at /\ flush.at <= flush.until
                      /\ flush.until <= safe_read_only
  BY DEF Order, Flushing
<1>3. ASSUME NEW a \in Address
      PROVE  a < flushed \/ (flush # None /\ a < flush.at) => disk[a] = written[a]
  BY DEF Memory, OnDevice
<1>4. ASSUME NEW t \in Threads, update_in_place(t) \/ init_record(t)
      PROVE  OnDevice'
  <2>1. addr[t] \in Nat /\ safe_read_only <= addr[t]
    BY <1>4, StoreStep
  <2>2. PICK v \in Words : Store(addr[t], v)
    BY <1>4, StoreStep
  <2>3. UNCHANGED <<flushed, flush>>
    BY <1>4 DEF update_in_place, init_record, marks, jobs
  <2>4. SUFFICES ASSUME NEW a \in Address,
                        a < flushed \/ (flush # None /\ a < flush.at)
                 PROVE  disk'[a] = written'[a]
    BY <2>3 DEF OnDevice
  <2>5. a # addr[t]
    BY <1>0, <1>1, <1>2, <2>1, <2>4
  <2>6. disk'[a] = disk[a]
    BY <2>1, <2>2, StoreType
  <2>7. written'[a] = IF a = addr[t] THEN v ELSE written[a]
    BY <2>1, <2>2, StoreType
  <2> QED
    BY <1>3, <2>4, <2>5, <2>6, <2>7
<1>5. ASSUME NEW b \in Marks, flush_start(b) PROVE OnDevice'
  <2>1. UNCHANGED <<flushed, disk, written>>
    BY <1>5 DEF flush_start, marks, data
  <2>2. flush' # None => flush' = [at |-> flushed, until |-> b]
    BY <1>5 DEF flush_start
  <2>3. flush' # None => flush'.at = flushed
    BY <2>2
  <2> QED
    BY <1>3, <2>1, <2>3 DEF OnDevice
<1>6. CASE flush_page
  <2> DEFINE end == Lower(flush.until, At(page_of(flush.at) + 1, 0))
  <2>1. /\ flush # None /\ UNCHANGED <<flushed, written>>
        /\ flush' = [flush EXCEPT !.at = end]
        /\ disk' = [a \in Address |-> IF a >= flush.at /\ a < end
                                        THEN record_at(a) ELSE disk[a]]
    BY <1>6 DEF flush_page, marks
  <2>2. end \in Int /\ end <= flush.until
    <3>1. page_of(flush.at) + 1 \in Int
      BY <1>2, <2>1, PageOf
    <3>2. At(page_of(flush.at) + 1, 0) \in Int
      BY <3>1, AtFacts
    <3> QED
      BY <1>2, <2>1, <3>2 DEF Lower
  <2> HIDE DEF end
  <2>3. flush'.at = end
    BY <1>2, <2>1
  <2>4. SUFFICES ASSUME NEW a \in Address, a < flushed \/ a < end
                 PROVE  disk'[a] = written[a]
    BY <2>1, <2>3 DEF OnDevice
  <2>5. CASE a >= flush.at /\ a < end
    <3>1. safe_head <= a /\ a < At(tail_page + 1, 0)
      BY <1>0, <1>1, <1>2, <2>1, <2>2, <2>5
    <3>2. record_at(a) = written[a]
      BY <3>1 DEF Memory, InMemory
    <3> QED
      BY <2>1, <2>5, <3>2
  <2>6. CASE ~(a >= flush.at /\ a < end)
    <3>1. a < flush.at
      BY <1>0, <1>1, <1>2, <2>1, <2>2, <2>4, <2>6
    <3>2. disk'[a] = disk[a]
      BY <2>1, <2>6
    <3> QED
      BY <1>3, <2>1, <3>1, <3>2
  <2> QED
    BY <2>5, <2>6
<1>7. CASE flush_fails
  <2>1. UNCHANGED <<flushed, disk, written>> /\ flush' = None
    BY <1>7 DEF flush_fails, marks, data
  <2> QED
    BY <1>3, <2>1 DEF OnDevice
<1>8. CASE flush_done
  <2>1. /\ UNCHANGED <<disk, written>> /\ flush' = None
        /\ flush # None /\ flush.at >= flush.until
    BY <1>8 DEF flush_done, data
  <2>2. flushed' = flushed \/ flushed' = flush.until
    BY <1>8 DEF flush_done, Higher
  <2>3. SUFFICES ASSUME NEW a \in Address, a < flushed'
                 PROVE  disk[a] = written[a]
    BY <2>1 DEF OnDevice
  <2>4. a < flushed \/ a < flush.at
    BY <1>1, <1>2, <2>1, <2>2, <2>3
  <2> QED
    BY <1>3, <2>1, <2>4
<1>9. CASE UNCHANGED <<flushed, flush, disk, written>>
  BY <1>3, <1>9 DEF OnDevice
<1>10. ASSUME \A t \in Threads : ~(update_in_place(t) \/ init_record(t)),
              \A b \in Marks : ~flush_start(b),
              ~flush_page, ~flush_fails, ~flush_done
       PROVE  UNCHANGED <<flushed, flush, disk, written>>
  BY <1>10 DEF Next, inner_step, call_step, alloc_step, job_step, protect,
     head_address, read_only_address, find, unprotect, allocate_record,
     fetch_add_fits, fetch_add_spins, fetch_add_crosses, turn_blocked,
     turn_zero, turn_publish, shift_read_only_address, clamp_head,
     shift_head_address, load_tail_address, shift_read_only_to_tail,
     wait_flushed, on_pages_marked_read_only, on_pages_closed, close_page,
     marks, data, jobs
<1> QED
  BY <1>4, <1>5, <1>6, <1>7, <1>8, <1>9, <1>10

-----------------------------------------------------------------------------

LEMMA InitIInv == Init => IInv
<1> SUFFICES ASSUME Init PROVE IInv
  OBVIOUS
<1> DEFINE Old(d) == {a \in Address : a < d /\ a % PageSize >= FIRST_VALID_ADDRESS}
           Image(d) == [a \in Address |-> IF a \in Old(d) THEN 1 ELSE 0]
<1>1. PICK d \in InitialTails :
        /\ tail = pack(page_of(d), d % PageSize)
        /\ closed = At(page_of(d), 0)
        /\ safe_head = d /\ head = d /\ flushed = d
        /\ safe_read_only = d /\ read_only = d
        /\ disk = Image(d) /\ written = Image(d) /\ used = Old(d)
  BY DEF Init
<1>2. /\ mem = [f \in 0 .. BufferSize - 1 |-> [o \in 0 .. PageSize - 1 |-> 0]]
      /\ stale = [t \in Threads |-> {}] /\ retired = [j \in Jobs |-> "no"]
      /\ running = {} /\ flush = None
      /\ pc = [t \in Threads |-> "out"] /\ size = [t \in Threads |-> 0]
      /\ page = [t \in Threads |-> 0] /\ addr = [t \in Threads |-> 0]
      /\ view_head = [t \in Threads |-> 0]
      /\ view_read_only = [t \in Threads |-> 0] /\ clamp = [t \in Threads |-> 0]
  BY DEF Init, Epoch!DInit
<1>3. d \in Nat /\ \A a \in Address : a \in Nat
  BY InitialTailsAssumption, AddressNat
<1>4. /\ page_of(d) \in Nat /\ d % PageSize \in 0 .. PageSize - 1
      /\ d = At(page_of(d), 0) + (d % PageSize) /\ At(page_of(d), 0) <= d
      /\ At(page_of(d), 0) \in Nat
  BY <1>3, PageOf, AtNat
<1>5. tail \in Nat /\ tail_page = page_of(d) /\ tail_off = d % PageSize
  BY <1>1, <1>4, PackFacts, OffsetAssumption DEF tail_page, tail_off
<1>6. TypeOK
  <2>1. mem \in [0 .. BufferSize - 1 -> [0 .. PageSize - 1 -> Words]]
    BY <1>2 DEF Words
  <2>2. disk \in [Address -> Words] /\ written \in [Address -> Words]
    BY <1>1 DEF Words
  <2>3. used \in SUBSET Nat
    BY <1>1, <1>3
  <2>4. pc \in [Threads -> Labels]
    BY <1>2 DEF Labels
  <2> HIDE DEF Words, Labels, Old, Image
  <2> QED
    BY <1>1, <1>2, <1>3, <1>4, <1>5, <2>1, <2>2, <2>3, <2>4 DEF TypeOK
<1>7. TailEnd = d
  BY <1>4, <1>5, <1>6, TailFacts
<1>8. OneTurner /\ Sized /\ EmptyHanded /\ Inside
  BY <1>2 DEF OneTurner, Turning, Sized, EmptyHanded, Inside
<1>9. Order
  <2>1. WatermarkOrder
    BY <1>1, <1>3, <1>4, <1>7 DEF WatermarkOrder
  <2>2. UsedBelow
    BY <1>1, <1>7 DEF UsedBelow
  <2>3. Published
    BY <1>2 DEF Published, Jobs, Kinds
  <2>4. Running /\ Flushing
    BY <1>2 DEF Running, Flushing
  <2>5. InHand
    BY <1>2 DEF InHand, Shifting
  <2> QED
    BY <2>1, <2>2, <2>3, <2>4, <2>5 DEF Order
<1>10. Floors
  BY <1>2 DEF Floors, Owner, Shifting
<1>11. Memory
  <2>1. Held
    BY <1>2 DEF Held, Owner, Shifting
  <2>2. WrittenUsed
    BY <1>1 DEF WrittenUsed
  <2>3. Window
    <3> DEFINE q == page_of(d) + 1 - BufferSize
    <3>1. q \in Int /\ q <= page_of(d)
      BY <1>4
    <3> HIDE DEF q
    <3>2. At(q, 0) <= At(page_of(d), 0)
      BY <1>4, <3>1, AtMonotone
    <3>3. Room(tail_page)
      BY <1>1, <1>5, <3>2 DEF Room, q
    <3> QED
      BY <1>2, <3>3 DEF Window
  <2>4. InMemory
    <3> SUFFICES ASSUME NEW a \in Address, d <= a PROVE record_at(a) = written[a]
      BY <1>1 DEF InMemory
    <3>1. written[a] = 0
      BY <1>1, <1>3
    <3>2. /\ frame_of(page_of(a)) \in 0 .. BufferSize - 1
          /\ a % PageSize \in 0 .. PageSize - 1
      BY <1>3, PageOf, FrameType
    <3> QED
      BY <1>2, <3>1, <3>2 DEF record_at
  <2>5. OnDevice
    BY <1>1 DEF OnDevice
  <2> QED
    BY <2>1, <2>2, <2>3, <2>4, <2>5 DEF Memory
<1> QED
  BY <1>6, <1>8, <1>9, <1>10, <1>11 DEF IInv

LEMMA NextIInv == IInv /\ [Next]_vars => IInv'
<1> SUFFICES ASSUME IInv, [Next]_vars PROVE IInv'
  OBVIOUS
<1>1. CASE Next
  <2>1. TypeOK' /\ OneTurner'
    BY <1>1, TypeStep, TurnerStep
  <2>2. Sized' /\ EmptyHanded' /\ Inside'
    BY <1>1, ControlStep
  <2>3. Order'
    BY <1>1, OrderStep, UsedStep, InHandStep DEF Order
  <2>4. Floors'
    BY <1>1, FloorsStep
  <2>5. Memory'
    BY <1>1, HeldStep, WrittenStep, WindowStep, InMemoryStep, OnDeviceStep
    DEF Memory
  <2> QED
    BY <2>1, <2>2, <2>3, <2>4, <2>5 DEF IInv
<1>2. CASE UNCHANGED vars
  <2>1. TypeOK' /\ OneTurner' /\ Sized' /\ EmptyHanded' /\ Inside'
    BY <1>2 DEF vars, marks, data, epoch, jobs, locals, IInv, TypeOK, OneTurner,
       Turning, Sized, EmptyHanded, Inside, tail_page, tail_off
  <2>2. Order'
    BY <1>2 DEF vars, marks, data, epoch, jobs, locals, IInv, Order,
       WatermarkOrder, UsedBelow, Published, Running, Flushing, InHand,
       Shifting, TailEnd, tail_page, tail_off
  <2>3. Floors'
    BY <1>2 DEF vars, marks, data, epoch, jobs, locals, IInv, Floors, HeadFloor,
       ReadOnlyFloor, Floor, Owner, Shifting
  <2>4. Memory'
    BY <1>2 DEF vars, marks, data, epoch, jobs, locals, IInv, Memory, Held,
       WrittenUsed, Window, Room, InMemory, record_at, OnDevice, Owner,
       Shifting, tail_page, tail_off
  <2> QED
    BY <2>1, <2>2, <2>3, <2>4 DEF IInv
<1> QED
  BY <1>1, <1>2

THEOREM Invariance == Spec => []IInv
  BY InitIInv, NextIInv, PTL DEF Spec

\* The order of the watermarks stated at the head of log.rs holds although each
\* of them is moved in two steps, jobs run out of order and flushes fail.
THEOREM WatermarkOrderHolds == Spec => []WatermarkOrder
<1>1. IInv => WatermarkOrder
  BY DEF IInv, Order
<1> QED
  BY Invariance, <1>1, PTL

\* No frame is zeroed for another page while a thread holds a pointer into it.
THEOREM PointerValidHolds == Spec => []PointerValid
<1>1. IInv => PointerValid
  <2> SUFFICES ASSUME IInv, NEW t \in Threads, pc[t] = "access"
               PROVE  record_at(addr[t]) = written[addr[t]]
    BY DEF PointerValid
  <2> USE DEF IInv
  <2>1. /\ addr[t] \in Address /\ addr[t] >= view_head[t] /\ addr[t] \in used
    BY DEF Memory, Held, WrittenUsed
  <2>2. /\ addr[t] \in Nat /\ view_head[t] \in Nat /\ safe_head \in Nat
        /\ safe_head <= view_head[t]
    BY DEF TypeOK, Floors, HeadFloor, Floor
  <2>3. /\ addr[t] < TailEnd /\ TailEnd <= At(tail_page + 1, 0)
        /\ TailEnd \in Nat /\ At(tail_page + 1, 0) \in Int
    BY <2>1, TailFacts DEF Order, UsedBelow
  <2>4. safe_head <= addr[t] /\ addr[t] < At(tail_page + 1, 0)
    BY <2>1, <2>2, <2>3
  <2> QED
    BY <2>1, <2>4 DEF Memory, InMemory
<1> QED
  BY Invariance, <1>1, PTL

\* No write reaches a record after the flush that covers it: what lies below
\* flushed is on the device as it was last written.
THEOREM FlushedIsFinalHolds == Spec => []FlushedIsFinal
<1>1. IInv => FlushedIsFinal
  BY DEF IInv, Memory, OnDevice, FlushedIsFinal
<1> QED
  BY Invariance, <1>1, PTL

\* The tail a checkpoint captures lies above every record allocated before,
\* but for the full page of odd number.
THEOREM TailCoversRecordsHolds == Spec => []TailCoversRecords
<1>1. IInv => TailCoversRecords
  <2> SUFFICES ASSUME IInv, ~(tail_off > PageSize),
                      ~(tail_off = PageSize /\ tail_page % 2 = 1),
                      NEW a \in used
               PROVE  a < tail_address
    BY DEF TailCoversRecords
  <2>1. tail_address = At(tail_page, tail_off)
    BY DEF tail_address
  <2>2. /\ tail_page \in Nat /\ tail_off \in Nat
        /\ TailEnd = At(tail_page, 0) + tail_off
    BY TailFacts DEF IInv
  <2>3. At(tail_page, tail_off) = At(tail_page, 0) + tail_off
    BY <2>2, AtFacts
  <2>4. a < TailEnd
    BY DEF IInv, Order, UsedBelow
  <2> QED
    BY <2>1, <2>2, <2>3, <2>4
<1> QED
  BY Invariance, <1>1, PTL

\* The step of an allocation, once the tail is known to be past the header.
LEMMA FreshStep ==
  ASSUME IInv, tail_off >= FIRST_VALID_ADDRESS, NEW t \in Threads,
         fetch_add_fits(t) \/ turn_publish(t)
  PROVE  /\ (addr'[t] .. addr'[t] + size[t] - 1) \intersect used = {}
         /\ addr'[t] % PageSize >= FIRST_VALID_ADDRESS
         /\ (addr'[t] % PageSize) + size[t] <= PageSize
<1> USE DEF IInv, FIRST_VALID_ADDRESS
<1>1. /\ addr'[t] \in Nat /\ TailEnd <= addr'[t] /\ TailEnd \in Nat
      /\ size[t] \in Nat /\ size[t] >= 1
  BY TakeStep
<1>2. \A a \in used : a < TailEnd /\ a \in Nat
  BY DEF Order, UsedBelow, TypeOK
<1>3. (addr'[t] .. addr'[t] + size[t] - 1) \intersect used = {}
  BY <1>1, <1>2
<1>4. CASE fetch_add_fits(t)
  <2>1. /\ addr'[t] = At(tail_page, tail_off) /\ tail_off + size[t] <= PageSize
        /\ tail_page \in Nat /\ tail_off \in Nat
    BY <1>4, TailFits, TailFacts
  <2>2. tail_off \in 0 .. PageSize - 1
    BY <1>1, <2>1
  <2>3. addr'[t] % PageSize = tail_off
    BY <2>1, <2>2, OffsetAt
  <2> QED
    BY <1>3, <2>1, <2>3
<1>5. CASE turn_publish(t)
  <2>1. /\ addr'[t] = At(page[t] + 1, 1) /\ 1 + size[t] <= PageSize
        /\ page[t] + 1 \in Nat
    BY <1>5, TailPublish, TailFacts
  <2>2. 1 \in 0 .. PageSize - 1
    OBVIOUS
  <2>3. addr'[t] % PageSize = 1
    BY <2>1, <2>2, OffsetAt
  <2> QED
    BY <1>3, <2>1, <2>3
<1> QED
  BY <1>4, <1>5

\* Every record gets units of its own, within a page and behind its header,
\* however many threads add to the tail at once: provided that a recovered log
\* does not begin inside a page header.
THEOREM AllocationIsFreshHolds ==
  ASSUME \A d \in InitialTails : d % PageSize >= FIRST_VALID_ADDRESS
  PROVE  Spec => AllocationIsFresh
<1> DEFINE PastHeader == tail_off >= FIRST_VALID_ADDRESS
           Fresh == \A t \in Threads :
             addr'[t] # addr[t] /\ pc[t] \in {"alloc", "turned"} =>
               LET a == addr'[t] IN
               /\ (a .. a + size[t] - 1) \intersect used = {}
               /\ a % PageSize >= FIRST_VALID_ADDRESS
               /\ (a % PageSize) + size[t] <= PageSize
<1>1. Init => PastHeader
  <2> SUFFICES ASSUME Init PROVE PastHeader
    OBVIOUS
  <2>1. PICK d \in InitialTails : tail = pack(page_of(d), d % PageSize)
    BY DEF Init
  <2>2. page_of(d) \in Nat /\ d % PageSize \in 0 .. PageSize - 1
    BY InitialTailsAssumption, AddressNat, PageOf
  <2>3. tail_off = d % PageSize
    BY <2>1, <2>2, PackFacts, OffsetAssumption DEF tail_off
  <2> QED
    BY <2>3
<1>2. IInv /\ PastHeader /\ [Next]_vars => PastHeader'
  <2> SUFFICES ASSUME IInv, PastHeader, [Next]_vars PROVE PastHeader'
    OBVIOUS
  <2> USE DEF IInv, FIRST_VALID_ADDRESS
  <2>1. tail_off \in Nat
    BY TailFacts
  <2>2. CASE UNCHANGED tail
    BY <2>2 DEF tail_off
  <2>3. ASSUME NEW t \in Threads, fetch_add_fits(t) PROVE PastHeader'
    BY <2>1, <2>3, TailFits, SizeFacts
  <2>4. ASSUME NEW t \in Threads, fetch_add_spins(t) \/ fetch_add_crosses(t)
        PROVE  PastHeader'
    <3>1. tail_off' > PageSize /\ tail_page' = tail_page /\ tail' \in Nat
      BY <2>4, TailPast
    <3>2. tail_off' \in Nat
      <4>1. OffsetLimit \in Nat /\ OffsetLimit > 0
        BY OffsetAssumption
      <4> QED
        BY <3>1, <4>1, Division DEF tail_off
    <3> QED
      BY <3>1, <3>2
  <2>5. ASSUME NEW t \in Threads, turn_blocked(t) PROVE PastHeader'
    BY <2>5, TailBlocked
  <2>6. ASSUME NEW t \in Threads, turn_publish(t) PROVE PastHeader'
    BY <2>6, TailPublish, SizeFacts
  <2>7. ASSUME Next, \A t \in Threads : ~(\/ fetch_add_fits(t) \/ fetch_add_spins(t)
                                          \/ fetch_add_crosses(t)
                                          \/ turn_blocked(t) \/ turn_publish(t))
        PROVE  UNCHANGED tail
    BY <2>7 DEF Next, inner_step, call_step, alloc_step, job_step, protect,
       head_address, read_only_address, find, update_in_place, init_record,
       unprotect, allocate_record, turn_zero, shift_read_only_address,
       clamp_head, shift_head_address, load_tail_address,
       shift_read_only_to_tail, wait_flushed, on_pages_marked_read_only,
       flush_start, flush_page, flush_fails, flush_done, on_pages_closed,
       close_page
  <2> QED
    BY <2>2, <2>3, <2>4, <2>5, <2>6, <2>7 DEF vars
<1>3. IInv /\ PastHeader /\ [Next]_vars => [Fresh]_vars
  <2> SUFFICES ASSUME IInv, PastHeader, Next, NEW t \in Threads,
                      addr'[t] # addr[t], pc[t] \in {"alloc", "turned"}
               PROVE  LET a == addr'[t] IN
                      /\ (a .. a + size[t] - 1) \intersect used = {}
                      /\ a % PageSize >= FIRST_VALID_ADDRESS
                      /\ (a % PageSize) + size[t] <= PageSize
    OBVIOUS
  <2>1. fetch_add_fits(t) \/ turn_publish(t)
    <3>1. inner_step(t) \/ call_step(t)
      <4>1. ~(job_step \/ flush_fails)
        BY JobFrame
      <4>2. ASSUME NEW u \in Threads, inner_step(u) \/ call_step(u) PROVE u = t
        BY <4>2, OwnStep
      <4> QED
        BY <4>1, <4>2 DEF Next
    <3> QED
      BY <3>1 DEF inner_step, call_step, alloc_step, protect, head_address,
         read_only_address, find, update_in_place, init_record, unprotect,
         allocate_record, fetch_add_spins, fetch_add_crosses, turn_blocked,
         turn_zero, shift_read_only_address, clamp_head, shift_head_address,
         load_tail_address, shift_read_only_to_tail, wait_flushed, Goto, locals
  <2> QED
    BY <2>1, FreshStep
<1> QED
  <2>1. Spec => [][Fresh]_vars
    BY Invariance, <1>1, <1>2, <1>3, PTL DEF Spec
  <2> QED
    BY <2>1 DEF AllocationIsFresh
=============================================================================
