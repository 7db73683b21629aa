-------------------------------- MODULE Ring --------------------------------
(***************************************************************************)
(* One AF_XDP descriptor ring (ring.hpp, MmapRing) shared by a producing   *)
(* and a consuming end, with its 32-bit free-running indices, the cached   *)
(* copies each end keeps of them, and the way the clients in this code use *)
(* a window: the staging of Transmitter::send_in_place and                 *)
(* Xsk::refill_fill on the producing side, the read loops of               *)
(* Receiver::process_rx_and_maintain_io and                                *)
(* Transmitter::reclaim_completed_frames on the consuming side.            *)
(*                                                                         *)
(* User space is one of the two ends (producer of FILL and TX, consumer of *)
(* RX and COMPLETION); the kernel is the other and follows the same        *)
(* protocol.  Every action touches the shared memory at most once: one     *)
(* load or store of an index, or one access to a slot, so the ends         *)
(* interleave as finely as the acquire/release accesses let them.          *)
(***************************************************************************)
EXTENDS RingView, Integers

CONSTANTS
  K,        \* how many times the ring fits into the index space
  Values,   \* descriptors
  Blank     \* what a slot holds before it is first written

ASSUME KAssumption == K \in Nat /\ K >= 2
ASSUME BlankAssumption == Blank \notin Values

\* The indices are uint32_t: arithmetic is modulo M, where M is 2^32 in the
\* code and a multiple of N because N is a power of two.
M == K * N

Index == 0..M-1
Slots == 0..N-1

\* Faulty form: an index that does not wrap.
WAddUnwrapped(a, b) == a + b

WAdd(a, b) == (a + b) % M
WSub(a, b) == (a - b) % M

\* Faulty form: a mask one short.
SlotShortMask(i) == i % (N - 1)

\* desc_at: i & mask_, with mask_ = num_descs - 1.
Slot(i) == i % N

VARIABLES
  producer, consumer,            \* *producer_ and *consumer_, in shared memory
  descs,                         \* the slots
  p_cached_prod, p_cached_cons,  \* the producing end's MmapRing
  reserved, start, avail, used,  \* its window: reserved_, tx_start_, tx_avail_, tx_used_
  staged,                        \* history: the values the client wrote in the window
  c_cached_prod, c_cached_cons,  \* the consuming end's MmapRing
  n, first,                      \* its window: amount and start
  batch,                         \* the values the client has read from it
  delivered                      \* history: the last window released

shared == <<producer, consumer, descs>>
pvars  == <<p_cached_prod, p_cached_cons, reserved, start, avail, used, staged>>
cvars  == <<c_cached_prod, c_cached_cons, n, first, batch, delivered>>
vars   == <<shared, pvars, cvars>>

\* MmapRing::create on the zeroed ring memory.
Init ==
  /\ producer = 0 /\ consumer = 0
  /\ descs = [s \in Slots |-> Blank]
  /\ p_cached_prod = 0 /\ p_cached_cons = 0
  /\ reserved = FALSE /\ start = 0 /\ avail = 0 /\ used = 0
  /\ staged = <<>>
  /\ c_cached_prod = 0 /\ c_cached_cons = 0
  /\ n = 0 /\ first = 0
  /\ batch = <<>>
  /\ delivered = <<>>

-----------------------------------------------------------------------------
(***************************************************************************)
(* The producing end.                                                      *)
(***************************************************************************)

\* Faulty form: one slot too many.
FreeSlotsPlusOne(cons) == WSub(N + 1, WSub(p_cached_prod, cons))

FreeSlots(cons) == WSub(N, WSub(p_cached_prod, cons))

\* writable_range(capacity()): cached_cons_ afterwards, and the amount.
WritableRangeCons == IF FreeSlots(p_cached_cons) < N THEN consumer ELSE p_cached_cons
WritableRangeAmount == Min2(N, FreeSlots(WritableRangeCons))

\* The first staging call after a publication opens the window.
Reserve ==
  /\ ~reserved
  /\ reserved' = TRUE
  /\ p_cached_cons' = WritableRangeCons
  /\ avail' = WritableRangeAmount
  /\ start' = p_cached_prod
  /\ used' = 0
  /\ UNCHANGED <<shared, p_cached_prod, staged, cvars>>

\* Faulty form: the size asked for is taken for additional slots.
TopUpAdding ==
  /\ reserved
  /\ used = avail
  /\ p_cached_cons' = WritableRangeCons
  /\ avail' = avail + WritableRangeAmount
  /\ UNCHANGED <<shared, p_cached_prod, reserved, start, used, staged, cvars>>

\* The window is used up: only its size is asked for again.
TopUp ==
  /\ reserved
  /\ used = avail
  /\ p_cached_cons' = WritableRangeCons
  /\ avail' = WritableRangeAmount
  /\ UNCHANGED <<shared, p_cached_prod, reserved, start, used, staged, cvars>>

\* desc_at(start + used++) = v, a plain store no one else may look at yet.
Stage(v) ==
  /\ reserved
  /\ used # avail
  /\ descs' = [descs EXCEPT ![Slot(WAdd(start, used))] = v]
  /\ used' = used + 1
  /\ staged' = Append(staged, v)
  /\ UNCHANGED <<producer, consumer, p_cached_prod, p_cached_cons, reserved, start, avail, cvars>>

\* publish_written_entries(used), skipped when nothing was written, and the
\* window is closed either way.
PublishStaged ==
  /\ reserved
  /\ IF used > 0
     THEN /\ p_cached_prod' = WAdd(p_cached_prod, used)
          /\ producer' = p_cached_prod'
     ELSE UNCHANGED <<p_cached_prod, producer>>
  /\ used' = 0
  /\ reserved' = FALSE
  /\ staged' = <<>>
  /\ UNCHANGED <<consumer, descs, p_cached_cons, start, avail, cvars>>

-----------------------------------------------------------------------------
(***************************************************************************)
(* The consuming end.                                                      *)
(***************************************************************************)

\* readable_range: cached_prod_ afterwards, and the amount.
ReadableRangeProd == IF WSub(c_cached_prod, c_cached_cons) = 0 THEN producer ELSE c_cached_prod
ReadableRangeAmount(b) == Min2(WSub(ReadableRangeProd, c_cached_cons), b)

Open(b) ==
  /\ n = 0
  /\ c_cached_prod' = ReadableRangeProd
  /\ n' = ReadableRangeAmount(b)
  /\ first' = c_cached_cons
  /\ UNCHANGED <<shared, pvars, c_cached_cons, batch, delivered>>

\* desc_at(start + i), one iteration of the loop over the window.
Read ==
  /\ Len(batch) < n
  /\ batch' = Append(batch, descs[Slot(WAdd(first, Len(batch)))])
  /\ UNCHANGED <<shared, pvars, c_cached_prod, c_cached_cons, n, first, delivered>>

\* release_consumed_entries(n), after the loop.
ReleaseBatch ==
  /\ n > 0
  /\ Len(batch) = n
  /\ c_cached_cons' = WAdd(c_cached_cons, n)
  /\ consumer' = c_cached_cons'
  /\ delivered' = batch
  /\ batch' = <<>>
  /\ n' = 0
  /\ UNCHANGED <<producer, descs, pvars, c_cached_prod, first>>

-----------------------------------------------------------------------------
Next ==
  \/ Reserve
  \/ TopUp
  \/ \E v \in Values : Stage(v)
  \/ PublishStaged
  \/ \E b \in 1..N : Open(b)
  \/ Read
  \/ ReleaseBatch

Spec == Init /\ [][Next]_vars

-----------------------------------------------------------------------------
(***************************************************************************)
(* Properties.                                                             *)
(***************************************************************************)

\* queued_entry_count.
Occupancy == WSub(producer, consumer)

\* Every variable has its type; in particular the indices stay below 2^32
\* and the amounts handed out never exceed the ring.
TypeOK ==
  /\ producer \in Index /\ consumer \in Index
  /\ descs \in [Slots -> Values \cup {Blank}]
  /\ p_cached_prod \in Index /\ p_cached_cons \in Index
  /\ reserved \in BOOLEAN /\ start \in Index
  /\ avail \in 0..N /\ used \in 0..N
  /\ staged \in Seq(Values)
  /\ c_cached_prod \in Index /\ c_cached_cons \in Index
  /\ n \in 0..N /\ first \in Index
  /\ batch \in Seq(Values)
  /\ delivered \in Seq(Values)

\* The stale copies err on the safe side: whatever the other end did since
\* they were taken, the producing end counts at least the entries that are
\* really queued plus none it could overrun, and the consuming end counts at
\* most the entries that are really published.
CachedViewsAreSafe ==
  /\ Occupancy <= WSub(p_cached_prod, p_cached_cons)
  /\ WSub(p_cached_prod, p_cached_cons) <= N
  /\ WSub(c_cached_prod, c_cached_cons) <= Occupancy

StagedSlots == {Slot(WAdd(start, j)) : j \in 0..used-1}
QueuedSlots == {Slot(WAdd(consumer, j)) : j \in 0..Occupancy-1}

\* A slot the producing end is writing is never one the consuming end may
\* still read: staging (also after a window was topped up, and across the
\* wrap-around of the indices) does not overwrite queued entries, so the
\* plain stores and loads of descs_ never race.
NoOverwrite == StagedSlots \cap QueuedSlots = {}

\* The published entries, oldest first.
Queue == [j \in 1..Occupancy |-> descs[Slot(WAdd(consumer, j - 1))]]

Fifo == INSTANCE FifoRing WITH
  q <- Queue,
  p_seen <- WSub(p_cached_prod, p_cached_cons),
  c_seen <- WSub(c_cached_prod, c_cached_cons)

\* The ring is a FIFO of at most N entries: what is delivered is what was
\* staged, in order, without loss or duplication, whatever the interleaving
\* and however often the indices wrap.
FifoSpec == Fifo!Spec

-----------------------------------------------------------------------------
(***************************************************************************)
(* The inductive invariant behind these properties.                        *)
(***************************************************************************)
PSeen == WSub(p_cached_prod, p_cached_cons)
CSeen == WSub(c_cached_prod, c_cached_cons)

\* Each end's own cached index is the shared one it publishes.
OwnIndexIsCurrent == producer = p_cached_prod /\ consumer = c_cached_cons

\* An open write window starts at the end of the queue and fits behind it.
WriteWindow ==
  /\ used = Len(staged)
  /\ reserved => start = p_cached_prod /\ used <= avail /\ avail + PSeen <= N
  /\ ~reserved => used = 0
  /\ \A j \in 0..used-1 : descs[Slot(WAdd(start, j))] = staged[j + 1]

\* An open read window starts at the front of the queue and lies within it.
ReadWindow ==
  /\ n <= CSeen
  /\ n > 0 => first = c_cached_cons
  /\ Len(batch) <= n
  /\ \A j \in 0..Len(batch)-1 : batch[j + 1] = descs[Slot(WAdd(first, j))]

\* No queued slot is blank.
QueuedSlotsWritten == \A j \in 0..Occupancy-1 : descs[Slot(WAdd(consumer, j))] \in Values

IInv ==
  /\ TypeOK
  /\ OwnIndexIsCurrent
  /\ CachedViewsAreSafe
  /\ WriteWindow
  /\ ReadWindow
  /\ QueuedSlotsWritten
=============================================================================
