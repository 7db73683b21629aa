------------------------------ MODULE Receiver ------------------------------
(***************************************************************************)
(* Receiver (receiver.hpp): the worker's loop.  One pass of                *)
(* process_rx_and_maintain_io takes a batch from the RX ring, hands every  *)
(* frame to the callback (which recycles it or transfers it to the         *)
(* Transmitter), releases the batch, services TX, refills the FILL ring    *)
(* from the allocator and wakes the kernel up.  The steps of a pass are    *)
(* the actions below; kernel steps interleave between any two of them.     *)
(***************************************************************************)
EXTENDS Transmitter

CONSTANTS
  Batch,           \* ReceiverConfig::batch_size
  RefillThreshold  \* ReceiverConfig::fill_refill_threshold

\* static_assert(RX_BATCH_SIZE > 0 && RX_BATCH_SIZE <= RING_SIZE)
ASSUME ReceiverAssumption ==
  /\ Batch \in 1..N
  /\ RefillThreshold \in Nat

fill_threshold == IF RefillThreshold > 0 THEN RefillThreshold ELSE N \div 2

VARIABLES
  stop,              \* the stop token: request_stop() was called
  rx, fill,          \* the RX and FILL rings
  fill_need_wakeup,  \* XDP_RING_NEED_WAKEUP in the FILL ring's flags
  n, i,              \* size of the RX window and entries of it already disposed of
  pushed             \* entries the pass put into the FILL ring

rvars == <<stop, rx, fill, fill_need_wakeup, n, i, pushed>>
servicevars == <<reserved, tx_avail, staged, outstanding, reaped>>

ReceiverInit ==
  /\ stop = FALSE
  /\ rx = EmptyRing
  /\ fill = EmptyRing
  /\ n = 0
  /\ i = 0
  /\ pushed = 0

-----------------------------------------------------------------------------
\* run: the loop is left at the top only, so a pass is never cut short.
RunExit ==
  /\ pc = "run"
  /\ stop
  /\ pc' = "exited"
  /\ UNCHANGED <<owner, alloc, tx, cq, tx_need_wakeup, servicevars, rvars>>

\* A pass begins: readable_range(batch_size).
RxPoll ==
  /\ pc = "run"
  /\ ~stop
  /\ n' = ReadableAmount(rx.q, rx.seen, Batch)
  /\ rx' = Readable(rx, Batch)
  /\ pc' = "callback"
  /\ UNCHANGED <<owner, alloc, tx, cq, tx_need_wakeup, servicevars,
                 stop, fill, fill_need_wakeup, i, pushed>>

\* What main's callback does with a frame: it is declined for its layout, or
\* offered to send_in_place, which refuses or stages it.
Outcomes == {"unsupported", "rejected", "staged"}

Strategy(addr, outcome) ==
  \/ outcome = "unsupported" /\ UNCHANGED txvars
  \/ /\ outcome # "unsupported"
     /\ \E len_ok \in BOOLEAN : SendInPlace(addr, len_ok, outcome = "staged")

\* Faulty form: a frame handed to TX is recycled as well.
CallbackRecyclesAll(outcome) ==
  /\ pc = "callback"
  /\ i < n
  /\ Strategy(rx.q[i + 1], outcome)
  /\ alloc' = FreeAll(alloc, <<rx.q[i + 1]>>)
  /\ i' = i + 1
  /\ UNCHANGED <<pc, owner, cq, tx_need_wakeup, outstanding, reaped,
                 stop, rx, fill, fill_need_wakeup, n, pushed>>

\* The next frame of the batch goes to the callback; a frame that was not
\* transferred goes back to the allocator.
Callback(outcome) ==
  /\ pc = "callback"
  /\ i < n
  /\ Strategy(rx.q[i + 1], outcome)
  /\ alloc' = IF outcome = "staged" THEN alloc ELSE FreeAll(alloc, <<rx.q[i + 1]>>)
  /\ i' = i + 1
  /\ UNCHANGED <<pc, owner, cq, tx_need_wakeup, outstanding, reaped,
                 stop, rx, fill, fill_need_wakeup, n, pushed>>

\* The whole batch is released at once, then commit_tx_() is called.
ReleaseRx ==
  /\ pc = "callback"
  /\ i = n
  /\ rx' = IF n > 0 THEN Release(rx, n) ELSE rx
  /\ i' = 0
  /\ pc' = "publish"
  /\ UNCHANGED <<owner, alloc, tx, cq, tx_need_wakeup, servicevars,
                 stop, fill, fill_need_wakeup, n, pushed>>

\* Faulty form: only a pass that received something looks at the FILL ring.
FillCheckAfterRx ==
  /\ pc = "fill_check"
  /\ pc' = IF n > 0 /\ QueuedEntryCount(fill) < fill_threshold THEN "refill" ELSE "rx_kick"
  /\ UNCHANGED <<owner, alloc, tx, cq, tx_need_wakeup, servicevars, rvars>>

\* After commit_tx_(): is the FILL ring below the refill threshold?
FillCheck ==
  /\ pc = "fill_check"
  /\ pc' = IF QueuedEntryCount(fill) < fill_threshold THEN "refill" ELSE "rx_kick"
  /\ UNCHANGED <<owner, alloc, tx, cq, tx_need_wakeup, servicevars, rvars>>

\* Xsk::refill_fill: as many free frames as fit go into the FILL ring.
RefillAmount == Min2(WritableAmount(fill.q, fill.seen, N), Len(alloc))

RefillFill ==
  LET ring == Writable(fill, N)
  IN  /\ fill' = IF RefillAmount > 0 THEN Publish(ring, AllocK(alloc, RefillAmount)) ELSE ring
      /\ alloc' = AfterAllocK(alloc, RefillAmount)

Refill ==
  /\ pc = "refill"
  /\ RefillFill
  /\ pushed' = RefillAmount
  /\ pc' = "rx_kick"
  /\ UNCHANGED <<owner, tx, cq, tx_need_wakeup, servicevars, stop, rx, fill_need_wakeup, n, i>>

\* request_rx_progress: a recvfrom when busy polling or when the kernel asked
\* for one.
RequestRxProgress ==
  IF BusyPoll \/ fill_need_wakeup
  THEN fill_need_wakeup' \in {fill_need_wakeup, FALSE}
  ELSE UNCHANGED fill_need_wakeup

\* Faulty form: the kernel is woken up after a refill only.
KickRxAfterRefill ==
  /\ pc = "rx_kick"
  /\ IF pushed > 0 THEN RequestRxProgress ELSE UNCHANGED fill_need_wakeup
  /\ n' = 0
  /\ pushed' = 0
  /\ pc' = "run"
  /\ UNCHANGED <<owner, alloc, tx, cq, tx_need_wakeup, servicevars, stop, rx, fill, i>>

\* The end of a pass.
KickRx ==
  /\ pc = "rx_kick"
  /\ IF n = 0 \/ pushed > 0 \/ fill_need_wakeup
     THEN RequestRxProgress
     ELSE UNCHANGED fill_need_wakeup
  /\ n' = 0
  /\ pushed' = 0
  /\ pc' = "run"
  /\ UNCHANGED <<owner, alloc, tx, cq, tx_need_wakeup, servicevars, stop, rx, fill, i>>

\* main: the FILL ring is filled and the kernel woken up once before the
\* worker starts.
Prefill ==
  /\ pc = "prefill"
  /\ RefillFill
  /\ RequestRxProgress
  /\ owner' = "worker"
  /\ pc' = "run"
  /\ UNCHANGED <<tx, cq, tx_need_wakeup, servicevars, stop, rx, n, i, pushed>>
=============================================================================
