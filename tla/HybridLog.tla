------------------------------ MODULE HybridLog ------------------------------
(***************************************************************************)
(* crates/tsavorite/src/log.rs: allocation at the tail, the turn from one  *)
(* page to the next, the two-step moves of ReadOnly and Head, flushing and *)
(* eviction.  Epoch protection is used through what it promises            *)
(* (DeferredReclamation, which LightEpoch implements): a move publishes    *)
(* its new address and retires the old one; the consequence, a job, starts *)
(* when no thread can be working under the old address any more.           *)
(*                                                                         *)
(* Addresses count units of 64 bytes (the page header is one).  A word of  *)
(* memory or of the device is 0 (zeroed, no record), 1 (a record as it was *)
(* first written) or 2 (updated in place); only the first unit of a record *)
(* carries it.  Every job address is published once, so a job is its kind  *)
(* and its address.                                                        *)
(***************************************************************************)
EXTENDS Integers, FiniteSets

CONSTANTS
  Threads,
  PageSize,      (* units of a page                                        *)
  BufferSize,    (* pages in memory: a power of two, at least 2            *)
  MutablePages,  (* pages kept mutable                                     *)
  Sizes,         (* sizes of records                                       *)
  OffsetLimit,   (* 2^32 bytes: what the offset half of the tail holds     *)
  InitialTails,  (* FIRST_VALID_ADDRESS for a new log, else the recovered  *)
  MaxPage,       (* bound: last page of the address space                  *)
  MaxAllocs,     (* bound: allocations                                     *)
  MaxOffset,     (* bound: how far allocators that spin push the offset    *)
  MaxFailures,   (* bound: device writes that fail                         *)
  None

ASSUME PageSizeAssumption == PageSize \in Nat /\ PageSize > 1
ASSUME BufferSizeAssumption == BufferSize \in Nat /\ BufferSize > 1
ASSUME MutablePagesAssumption == MutablePages \in 1 .. BufferSize - 1
ASSUME SizesAssumption == Sizes \subseteq 1 .. PageSize - 1
ASSUME OffsetAssumption == OffsetLimit \in Nat /\ OffsetLimit >= 2 * PageSize
\* Every try of a spinning allocator adds its size again (log.rs:297), at any
\* page size: that the offset does not carry into the page bounds the tries
\* made during one page turn, which the code does not.
ASSUME MaxOffsetAssumption == MaxOffset \in Nat /\ MaxOffset < OffsetLimit
ASSUME BoundsAssumption == MaxPage \in Nat /\ MaxAllocs \in Nat /\ MaxFailures \in Nat

FIRST_VALID_ADDRESS == 1

Address == 0 .. (MaxPage + 1) * PageSize - 1
ASSUME InitialTailsAssumption == InitialTails \subseteq Address
Kinds == {"read_only", "head"}
Marks == 0 .. (MaxPage + 1) * PageSize
Jobs == Kinds \X Marks

VARIABLES
  tail,                                 (* (page << 32) | offset           *)
  closed, safe_head, head,              (* the watermarks                  *)
  flushed, safe_read_only, read_only,
  mem,          (* mem[f][o]: unit o of the page in frame f                *)
  disk,         (* disk[a]: unit a on the device                           *)
  written,      (* written[a]: history, the last thing written to a        *)
  used,         (* history: units handed out to records                    *)
  inside, stale, retired,               (* the epoch, by its promise       *)
  running,      (* jobs started and not finished                           *)
  flush,        (* the holder of flush_lock and its position, or None      *)
  pc,
  size,         (* size[t]: units t allocates                              *)
  page,         (* page[t]: the page whose end t has crossed               *)
  addr,         (* addr[t]: the record t works on, 0 for none              *)
  view_head, view_read_only,            (* the watermarks as t loaded them *)
  clamp,        (* clamp[t]: new_head of shift_head_address                *)
  allocs, failures                      (* bounds                          *)

marks == <<closed, safe_head, head, flushed, safe_read_only, read_only>>
data == <<mem, disk, written>>
epoch == <<inside, stale, retired>>
jobs == <<running, flush, failures>>
locals == <<size, page, addr, view_head, view_read_only, clamp>>
vars == <<tail, marks, data, used, epoch, jobs, pc, locals, allocs>>

Epoch == INSTANCE DeferredReclamation WITH Actions <- Jobs

-----------------------------------------------------------------------------

At(p, off) == p * PageSize + off
page_of(a) == a \div PageSize
frame_of(p) == p % BufferSize
record_at(a) == mem[frame_of(page_of(a))][a % PageSize]

pack(p, off) == p * OffsetLimit + off
tail_page == tail \div OffsetLimit
tail_off == tail % OffsetLimit

\* (page << page_bits) | off: at off = page_size the bit is lost when the page
\* number is odd.
tail_address ==
  IF tail_off = PageSize /\ tail_page % 2 = 1
    THEN At(tail_page, 0) ELSE At(tail_page, tail_off)

Higher(a, b) == IF a > b THEN a ELSE b
Lower(a, b) == IF a < b THEN a ELSE b

\* HybridLog::new, and recover_addresses: everything below d is on the device.
Init ==
  \E d \in InitialTails :
    LET old == {a \in Address : a < d /\ a % PageSize >= FIRST_VALID_ADDRESS}
        image == [a \in Address |-> IF a \in old THEN 1 ELSE 0] IN
    /\ tail = pack(page_of(d), d % PageSize)
    /\ closed = At(page_of(d), 0)
    /\ safe_head = d /\ head = d /\ flushed = d
    /\ safe_read_only = d /\ read_only = d
    /\ mem = [f \in 0 .. BufferSize - 1 |-> [o \in 0 .. PageSize - 1 |-> 0]]
    /\ disk = image /\ written = image /\ used = old
    /\ Epoch!DInit
    /\ running = {} /\ flush = None /\ failures = 0
    /\ pc = [t \in Threads |-> "out"]
    /\ size = [t \in Threads |-> 0]
    /\ page = [t \in Threads |-> 0]
    /\ addr = [t \in Threads |-> 0]
    /\ view_head = [t \in Threads |-> 0]
    /\ view_read_only = [t \in Threads |-> 0]
    /\ clamp = [t \in Threads |-> 0]
    /\ allocs = 0

Goto(t, from, to) ==
  /\ pc[t] = from
  /\ pc' = [pc EXCEPT ![t] = to]

-----------------------------------------------------------------------------
(* An operation of the store: protected, it loads the watermarks it needs, *)
(* then works on a record in memory or allocates one.                      *)

protect(t) ==
  /\ pc[t] \in {"out", "retry"}
  /\ pc' = [pc EXCEPT ![t] = IF pc[t] = "out" THEN "in" ELSE "alloc"]
  /\ Epoch!Enter(t)
  /\ UNCHANGED <<tail, marks, data, used, jobs, locals, allocs>>

head_address(t) ==
  /\ Goto(t, "in", "loading")
  /\ view_head' = [view_head EXCEPT ![t] = head]
  /\ UNCHANGED <<tail, marks, data, used, epoch, jobs, size, page, addr,
                 view_read_only, clamp, allocs>>

read_only_address(t) ==
  /\ Goto(t, "loading", "ready")
  /\ view_read_only' = [view_read_only EXCEPT ![t] = read_only]
  /\ UNCHANGED <<tail, marks, data, used, epoch, jobs, size, page, addr,
                 view_head, clamp, allocs>>

\* trace_back found a record in memory: the caller now has a pointer to it.
find(t) ==
  /\ Goto(t, "ready", "access")
  /\ \E a \in Address :
       /\ written[a] # 0 /\ a >= view_head[t]
       /\ addr' = [addr EXCEPT ![t] = a]
  /\ UNCHANGED <<tail, marks, data, used, epoch, jobs, size, page, view_head,
                 view_read_only, clamp, allocs>>

\* An update in place, through the pointer: the mutable region only.
Store(a, v) ==
  /\ mem' = [mem EXCEPT ![frame_of(page_of(a))][a % PageSize] = v]
  /\ written' = [written EXCEPT ![a] = v]
  /\ UNCHANGED disk

update_in_place(t) ==
  /\ pc[t] = "access"
  /\ addr[t] >= view_read_only[t]
  /\ Store(addr[t], 2)
  /\ UNCHANGED <<tail, marks, used, epoch, jobs, pc, locals, allocs>>

\* rec.init, the writer callback and cas_into_chain.
init_record(t) ==
  /\ Goto(t, "init", "done")
  /\ Store(addr[t], 1)
  /\ UNCHANGED <<tail, marks, used, epoch, jobs, locals, allocs>>

\* The end of a call: it found nothing in memory, it is done with its record,
\* or it is to try again later.
unprotect(t) ==
  /\ pc[t] \in {"ready", "access", "done", "later"}
  /\ pc' = [pc EXCEPT ![t] = IF pc[t] = "later" THEN "retry" ELSE "out"]
  /\ Epoch!Leave(t)
  /\ addr' = [addr EXCEPT ![t] = 0]
  /\ size' = [size EXCEPT ![t] = IF pc[t] = "later" THEN @ ELSE 0]
  /\ view_head' = [view_head EXCEPT ![t] = 0]
  /\ view_read_only' = [view_read_only EXCEPT ![t] = 0]
  /\ UNCHANGED <<tail, marks, data, used, jobs, page, clamp, allocs>>

-----------------------------------------------------------------------------
(* try_allocate.                                                           *)

allocate_record(t) ==
  /\ allocs < MaxAllocs
  /\ allocs' = allocs + 1
  /\ Goto(t, "ready", "alloc")
  /\ \E s \in Sizes : size' = [size EXCEPT ![t] = s]
  /\ UNCHANGED <<tail, marks, data, used, epoch, jobs, page, addr, view_head,
                 view_read_only, clamp>>

\* t is given the units from a on.
Take(t, a) ==
  /\ addr' = [addr EXCEPT ![t] = a]
  /\ used' = used \union (a .. a + size[t] - 1)

Fits(t) == tail_off + size[t] <= PageSize

fetch_add_fits(t) ==
  /\ Fits(t)
  /\ Goto(t, "alloc", "init")
  /\ tail' = tail + size[t]
  /\ Take(t, At(tail_page, tail_off))
  /\ UNCHANGED <<marks, data, epoch, jobs, size, page, view_head,
                 view_read_only, clamp, allocs>>

\* RetryNow: somebody else is turning the page.
fetch_add_spins(t) ==
  /\ pc[t] = "alloc"
  /\ ~Fits(t) /\ tail_off > PageSize
  /\ tail_off + size[t] <= MaxOffset
  /\ tail' = tail + size[t]
  /\ UNCHANGED <<marks, data, used, epoch, jobs, pc, locals, allocs>>

fetch_add_crosses(t) ==
  /\ ~Fits(t) /\ tail_off <= PageSize
  /\ Goto(t, "alloc", "turn")
  /\ tail' = tail + size[t]
  /\ page' = [page EXCEPT ![t] = tail_page]
  /\ UNCHANGED <<marks, data, used, epoch, jobs, size, addr, view_head,
                 view_read_only, clamp, allocs>>

\* Mutant: the page before the one the frame holds is enough.
page_is_free_early(p) ==
  p < BufferSize \/ closed >= At(p - BufferSize, 0)

page_is_free(p) ==
  p < BufferSize \/ closed >= At(p - BufferSize + 1, 0)

\* Mutant: who finds the buffer full does not try to make room.
turn_blocked_idle(t) ==
  /\ pc[t] = "turn" /\ ~page_is_free(page[t] + 1)
  /\ pc' = [pc EXCEPT ![t] = "later"]
  /\ tail' = pack(page[t], PageSize)
  /\ UNCHANGED <<marks, data, used, epoch, jobs, locals, allocs>>

\* The tail goes back to the page's end, for the next allocator to try again.
turn_blocked(t) ==
  /\ pc[t] = "turn" /\ ~page_is_free(page[t] + 1)
  /\ pc' = [pc EXCEPT ![t] = "shift_ro"]
  /\ tail' = pack(page[t], PageSize)
  /\ UNCHANGED <<marks, data, used, epoch, jobs, locals, allocs>>

turn_zero(t) ==
  /\ pc[t] = "turn" /\ page_is_free(page[t] + 1)
  /\ pc' = [pc EXCEPT ![t] = "turned"]
  /\ mem' = [mem EXCEPT ![frame_of(page[t] + 1)] = [o \in 0 .. PageSize - 1 |-> 0]]
  /\ UNCHANGED <<tail, marks, disk, written, used, epoch, jobs, locals, allocs>>

\* Mutant: the new tail does not count the record of the thread that turned.
turn_publish_short(t) ==
  /\ Goto(t, "turned", "shift_ro")
  /\ tail' = pack(page[t] + 1, FIRST_VALID_ADDRESS)
  /\ Take(t, At(page[t] + 1, FIRST_VALID_ADDRESS))
  /\ UNCHANGED <<marks, data, epoch, jobs, size, page, view_head,
                 view_read_only, clamp, allocs>>

turn_publish(t) ==
  /\ Goto(t, "turned", "shift_ro")
  /\ tail' = pack(page[t] + 1, FIRST_VALID_ADDRESS + size[t])
  /\ Take(t, At(page[t] + 1, FIRST_VALID_ADDRESS))
  /\ UNCHANGED <<marks, data, epoch, jobs, size, page, view_head,
                 view_read_only, clamp, allocs>>

-----------------------------------------------------------------------------
(* issue_shift_addresses after a turn to page n.                           *)

desired_head(n) == Higher(n + 2 - BufferSize, 0) * PageSize

desired_read_only(n) ==
  Higher(Higher(n + 1 - MutablePages, 0) * PageSize, desired_head(n))

\* The compare-and-swap loop of shift_read_only_address.
Publish_read_only(a) ==
  \/ /\ a > read_only
     /\ read_only' = a
     /\ Epoch!Retire(<<"read_only", a>>)
  \/ /\ a <= read_only
     /\ UNCHANGED <<read_only, epoch>>

shift_read_only_address(t) ==
  /\ Goto(t, "shift_ro", "clamp")
  /\ Publish_read_only(desired_read_only(page[t] + 1))
  /\ UNCHANGED <<tail, closed, safe_head, head, flushed, safe_read_only, data,
                 used, jobs, locals, allocs>>

\* Mutant: Head does not wait for the flush.
clamp_head_unflushed(t) ==
  /\ Goto(t, "clamp", "shift_head")
  /\ clamp' = [clamp EXCEPT ![t] = desired_head(page[t] + 1)]
  /\ UNCHANGED <<tail, marks, data, used, epoch, jobs, size, page, addr,
                 view_head, view_read_only, allocs>>

\* shift_head_address: never past what is flushed, by one load of flushed.
clamp_head(t) ==
  /\ Goto(t, "clamp", "shift_head")
  /\ clamp' = [clamp EXCEPT ![t] = Lower(desired_head(page[t] + 1), flushed)]
  /\ UNCHANGED <<tail, marks, data, used, epoch, jobs, size, page, addr,
                 view_head, view_read_only, allocs>>

shift_head_address(t) ==
  /\ Goto(t, "shift_head", IF addr[t] = 0 THEN "later" ELSE "init")
  /\ \/ /\ clamp[t] > head
        /\ head' = clamp[t]
        /\ Epoch!Retire(<<"head", clamp[t]>>)
     \/ /\ clamp[t] <= head
        /\ UNCHANGED <<head, epoch>>
  /\ clamp' = [clamp EXCEPT ![t] = 0]
  /\ page' = [page EXCEPT ![t] = 0]
  /\ UNCHANGED <<tail, closed, safe_head, flushed, safe_read_only, read_only,
                 data, used, jobs, size, addr, view_head, view_read_only, allocs>>

-----------------------------------------------------------------------------
(* shift_read_only_to_tail and wait_flushed, by an unprotected thread (the *)
(* core of a checkpoint).                                                  *)

load_tail_address(t) ==
  /\ tail_off <= PageSize
  /\ Goto(t, "out", "fold")
  /\ addr' = [addr EXCEPT ![t] = tail_address]
  /\ UNCHANGED <<tail, marks, data, used, epoch, jobs, size, page, view_head,
                 view_read_only, clamp, allocs>>

shift_read_only_to_tail(t) ==
  /\ Goto(t, "fold", "wait_flushed")
  /\ Publish_read_only(addr[t])
  /\ UNCHANGED <<tail, closed, safe_head, head, flushed, safe_read_only, data,
                 used, jobs, locals, allocs>>

wait_flushed(t) ==
  /\ flushed >= addr[t]
  /\ Goto(t, "wait_flushed", "out")
  /\ addr' = [addr EXCEPT ![t] = 0]
  /\ UNCHANGED <<tail, marks, data, used, epoch, jobs, size, page, view_head,
                 view_read_only, clamp, allocs>>

-----------------------------------------------------------------------------
(* The jobs, run by whoever drains.                                        *)

\* Mutant: the flush is started at once, not through the epoch.
on_pages_marked_read_only_now(a) ==
  /\ retired[<<"read_only", a>>] = "pending"
  /\ retired' = [retired EXCEPT ![<<"read_only", a>>] = "done"]
  /\ safe_read_only' = Higher(safe_read_only, a)
  /\ running' = running \union {<<"read_only", a>>}
  /\ UNCHANGED <<tail, closed, safe_head, head, flushed, read_only, data, used,
                 inside, stale, flush, failures, pc, locals, allocs>>

on_pages_marked_read_only(a) ==
  /\ Epoch!Reclaim(<<"read_only", a>>)
  /\ safe_read_only' = Higher(safe_read_only, a)
  /\ running' = running \union {<<"read_only", a>>}
  /\ UNCHANGED <<tail, closed, safe_head, head, flushed, read_only, data, used,
                 flush, failures, pc, locals, allocs>>

\* flush_until, with flush_lock from here to flush_done.
flush_start(a) ==
  /\ <<"read_only", a>> \in running /\ flush = None
  /\ running' = running \ {<<"read_only", a>>}
  /\ flush' = IF a <= flushed THEN None ELSE [at |-> flushed, until |-> a]
  /\ UNCHANGED <<tail, marks, data, used, epoch, failures, pc, locals, allocs>>

\* Mutant: the end of a page is taken for its start, and the loop stands still.
flush_page_stuck ==
  /\ flush # None /\ flush.at < flush.until
  /\ LET end == Lower(flush.until, At(page_of(flush.at), 0)) IN
     /\ disk' = [a \in Address |->
                   IF a >= flush.at /\ a < end THEN record_at(a) ELSE disk[a]]
     /\ flush' = [flush EXCEPT !.at = end]
  /\ UNCHANGED <<tail, marks, mem, written, used, epoch, running, failures, pc,
                 locals, allocs>>

flush_page ==
  /\ flush # None /\ flush.at < flush.until
  /\ LET end == Lower(flush.until, At(page_of(flush.at) + 1, 0)) IN
     /\ disk' = [a \in Address |->
                   IF a >= flush.at /\ a < end THEN record_at(a) ELSE disk[a]]
     /\ flush' = [flush EXCEPT !.at = end]
  /\ UNCHANGED <<tail, marks, mem, written, used, epoch, running, failures, pc,
                 locals, allocs>>

\* write_at returns an error: it is printed, and flushed stays as it was.
flush_fails ==
  /\ flush # None /\ flush.at < flush.until
  /\ failures < MaxFailures
  /\ failures' = failures + 1
  /\ flush' = None
  /\ UNCHANGED <<tail, marks, data, used, epoch, running, pc, locals, allocs>>

flush_done ==
  /\ flush # None /\ flush.at >= flush.until
  /\ flushed' = Higher(flushed, flush.until)
  /\ flush' = None
  /\ UNCHANGED <<tail, closed, safe_head, head, safe_read_only, read_only, data,
                 used, epoch, running, failures, pc, locals, allocs>>

on_pages_closed(a) ==
  /\ Epoch!Reclaim(<<"head", a>>)
  /\ safe_head' = Higher(safe_head, a)
  /\ running' = running \union {<<"head", a>>}
  /\ UNCHANGED <<tail, closed, head, flushed, safe_read_only, read_only, data,
                 used, flush, failures, pc, locals, allocs>>

\* One turn of the loop under close_lock.
close_page(a) ==
  /\ <<"head", a>> \in running
  /\ \/ /\ closed + PageSize <= a
        /\ closed' = closed + PageSize
        /\ UNCHANGED running
     \/ /\ closed + PageSize > a
        /\ running' = running \ {<<"head", a>>}
        /\ UNCHANGED closed
  /\ UNCHANGED <<tail, safe_head, head, flushed, safe_read_only, read_only, data,
                 used, epoch, flush, failures, pc, locals, allocs>>

-----------------------------------------------------------------------------

alloc_step(t) ==
  \/ fetch_add_fits(t) \/ fetch_add_spins(t) \/ fetch_add_crosses(t)
  \/ turn_blocked(t) \/ turn_zero(t) \/ turn_publish(t)
  \/ shift_read_only_address(t) \/ clamp_head(t) \/ shift_head_address(t)

\* Steps inside an operation once begun; entering one is the caller's choice.
inner_step(t) ==
  \/ pc[t] = "retry" /\ protect(t)
  \/ head_address(t) \/ read_only_address(t) \/ init_record(t)
  \/ unprotect(t) \/ alloc_step(t) \/ shift_read_only_to_tail(t) \/ wait_flushed(t)

call_step(t) ==
  \/ pc[t] = "out" /\ protect(t)
  \/ find(t) \/ update_in_place(t) \/ allocate_record(t) \/ load_tail_address(t)

job_step ==
  \/ \E a \in Marks : \/ on_pages_marked_read_only(a) \/ flush_start(a)
                      \/ on_pages_closed(a) \/ close_page(a)
  \/ flush_page \/ flush_done

Next ==
  \/ \E t \in Threads : inner_step(t) \/ call_step(t)
  \/ job_step \/ flush_fails

Spec == Init /\ [][Next]_vars

(***************************************************************************)
(* Threads are scheduled, an operation once begun ends, and jobs run: a    *)
(* thread that waits for one (RetryLater, wait_flushed) bumps the epoch    *)
(* again and again, which by LightEpoch!AwaitedActionRuns runs them.       *)
(***************************************************************************)
Fairness ==
  /\ \A t \in Threads : WF_vars(inner_step(t))
  /\ WF_vars(job_step)

FairSpec == Spec /\ Fairness

-----------------------------------------------------------------------------

(***************************************************************************)
(* The order of the watermarks that the head of log.rs states (but for     *)
(* Begin, which is 64 in a new log whose ClosedUntil is 0), with flushes   *)
(* that fail and jobs that run out of order.                               *)
(***************************************************************************)
TailEnd == At(tail_page, Lower(tail_off, PageSize))

WatermarkOrder ==
  /\ closed <= safe_head
  /\ safe_head <= head
  /\ head <= flushed
  /\ flushed <= safe_read_only
  /\ safe_read_only <= read_only
  /\ read_only <= TailEnd

(***************************************************************************)
(* A record that an operation has found in memory is still there, with     *)
(* what was last written to it, until the operation leaves: its frame is   *)
(* not zeroed for a later page.                                            *)
(***************************************************************************)
PointerValid ==
  \A t \in Threads : pc[t] = "access" =>
    record_at(addr[t]) = written[addr[t]]

(***************************************************************************)
(* What the log calls flushed is on the device in its last state: no       *)
(* update in place and no initialisation comes after the flush that        *)
(* covers it.                                                              *)
(***************************************************************************)
FlushedIsFinal ==
  \A a \in Address : a < flushed => disk[a] = written[a]

(***************************************************************************)
(* Every allocation returns units that nobody else was given, inside one   *)
(* page and behind its header, even while several threads overrun the end  *)
(* of a page.                                                              *)
(***************************************************************************)
AllocationIsFresh ==
  [][\A t \in Threads : addr'[t] # addr[t] /\ pc[t] \in {"alloc", "turned"} =>
       LET a == addr'[t] IN
       /\ (a .. a + size[t] - 1) \intersect used = {}
       /\ a % PageSize >= FIRST_VALID_ADDRESS
       /\ (a % PageSize) + size[t] <= PageSize]_vars

(***************************************************************************)
(* An allocation that meets a full buffer gets its record in the end:      *)
(* every retry pushes ReadOnly, the flush and Head far enough for a page   *)
(* to be closed.                                                           *)
(***************************************************************************)
AllocationCompletes ==
  \A t \in Threads : pc[t] = "alloc" ~> pc[t] = "init"

(***************************************************************************)
(* wait_flushed, which a checkpoint sits in, returns.                      *)
(***************************************************************************)
FoldOverCompletes ==
  \A t \in Threads : pc[t] = "wait_flushed" ~> pc[t] = "out"

(***************************************************************************)
(* checkpoint.rs, line 21: the tail captured for a checkpoint lies above   *)
(* every record allocated before it was read, however many allocators have *)
(* pushed it.  Except on a full page of odd number, where tail_address     *)
(* ORs a bit that the page number has already.                             *)
(***************************************************************************)
TailCoversRecords ==
  \/ tail_off > PageSize
  \/ tail_off = PageSize /\ tail_page % 2 = 1
  \/ \A a \in used : a < tail_address
=============================================================================
