----------------------------- MODULE Transmitter -----------------------------
(***************************************************************************)
(* Transmitter (transmitter.hpp): staging RX frames into the TX ring in    *)
(* place, publishing them, and getting them back through the COMPLETION    *)
(* ring.  publish_and_service_tx is called by the worker at the end of     *)
(* every receive pass and, once the worker is joined, by the control       *)
(* thread's drain_until; it is a sequence of steps here, one per access to *)
(* memory shared with the kernel.                                          *)
(***************************************************************************)
EXTENDS RingView, FrameAllocator

CONSTANT BusyPoll    \* XskConfig::busy_poll
ASSUME BusyPollAssumption == BusyPoll \in BOOLEAN

VARIABLES
  pc,             \* where the thread that owns the rings is
  owner,          \* that thread: "worker" or "control"
  alloc,          \* FrameAllocator: the free stack
  tx, cq,         \* the TX and COMPLETION rings
  tx_need_wakeup, \* XDP_RING_NEED_WAKEUP in the TX ring's flags
  reserved, tx_avail,
  staged,         \* the descriptors written in the open window; tx_used_ is its length
  outstanding,    \* outstanding_
  reaped          \* result of the first reclamation of a service pass

txvars == <<tx, reserved, tx_avail, staged>>

TransmitterInit ==
  /\ alloc = AllFree
  /\ tx = EmptyRing
  /\ cq = EmptyRing
  /\ reserved = FALSE
  /\ tx_avail = 0
  /\ staged = <<>>
  /\ outstanding = 0
  /\ reaped = 0

-----------------------------------------------------------------------------
(***************************************************************************)
(* send_in_place.                                                          *)
(***************************************************************************)

\* A window: the ring as it was last seen, its size, the descriptors in it.
Window(r, avail, written) == [ring |-> r, avail |-> avail, written |-> written]

\* writable_range(capacity()) of the TX ring.
AskForWindow(r, written) ==
  Window(Writable(r, N), WritableAmount(r.q, r.seen, N), written)

\* The first call since the last publication opens the window; a call that
\* finds it used up asks for its size again.
OpenWindow == IF reserved THEN Window(tx, tx_avail, staged) ELSE AskForWindow(tx, <<>>)

\* Faulty form: the size asked for is taken for additional slots.
RoomyWindowAdding ==
  LET w == OpenWindow
      more == AskForWindow(w.ring, w.written)
  IN  IF Len(w.written) = w.avail THEN [more EXCEPT !.avail = @ + w.avail] ELSE w

RoomyWindow ==
  LET w == OpenWindow
  IN  IF Len(w.written) = w.avail THEN AskForWindow(w.ring, w.written) ELSE w

\* ok is the value returned, len_ok the outcome of the check
\* 0 < length <= frame_size.
SendInPlace(addr, len_ok, ok) ==
  IF ~len_ok
  THEN ~ok /\ UNCHANGED txvars
  ELSE LET w == RoomyWindow
       IN  /\ ok = (Len(w.written) # w.avail)
           /\ tx' = w.ring
           /\ tx_avail' = w.avail
           /\ reserved' = TRUE
           /\ staged' = IF ok THEN Append(w.written, addr) ELSE w.written

-----------------------------------------------------------------------------
(***************************************************************************)
(* publish_and_service_tx.                                                 *)
(***************************************************************************)

\* Where publish_and_service_tx returns to.
AfterService == IF owner = "worker" THEN "fill_check" ELSE "drain_check"

\* Faulty forms: published frames are not counted as outstanding; the window
\* is left open when nothing was staged; a pass without anything to publish
\* returns early.
PublishTxUncounted ==
  /\ pc = "publish"
  /\ tx' = IF staged # <<>> THEN Publish(tx, staged) ELSE tx
  /\ staged' = <<>>
  /\ reserved' = FALSE
  /\ pc' = IF outstanding = 0 THEN AfterService ELSE "reap"
  /\ UNCHANGED <<owner, alloc, cq, tx_need_wakeup, tx_avail, outstanding, reaped>>

PublishTxKeepsWindow ==
  /\ pc = "publish"
  /\ outstanding' = outstanding + Len(staged)
  /\ tx' = IF staged # <<>> THEN Publish(tx, staged) ELSE tx
  /\ staged' = <<>>
  /\ reserved' = (reserved /\ staged = <<>>)
  /\ pc' = IF outstanding' = 0 THEN AfterService ELSE "reap"
  /\ UNCHANGED <<owner, alloc, cq, tx_need_wakeup, tx_avail, reaped>>

PublishTxNoIdleService ==
  /\ pc = "publish"
  /\ outstanding' = outstanding + Len(staged)
  /\ tx' = IF staged # <<>> THEN Publish(tx, staged) ELSE tx
  /\ staged' = <<>>
  /\ reserved' = FALSE
  /\ pc' = IF staged = <<>> THEN AfterService ELSE "reap"
  /\ UNCHANGED <<owner, alloc, cq, tx_need_wakeup, tx_avail, reaped>>

\* Publication of everything staged; without outstanding frames the call
\* returns here.
PublishTx ==
  /\ pc = "publish"
  /\ outstanding' = outstanding + Len(staged)
  /\ tx' = IF staged # <<>> THEN Publish(tx, staged) ELSE tx
  /\ staged' = <<>>
  /\ reserved' = FALSE
  /\ pc' = IF outstanding' = 0 THEN AfterService ELSE "reap"
  /\ UNCHANGED <<owner, alloc, cq, tx_need_wakeup, tx_avail, reaped>>

\* reclaim_completed_frames(budget): the frames of at most budget completed
\* descriptors go back to the allocator.
ReclaimAmount(budget) == ReadableAmount(cq.q, cq.seen, budget)

\* Faulty form: the COMPLETION entries are not released.
ReclaimUnreleased(budget) ==
  LET k == ReclaimAmount(budget)
  IN  /\ alloc' = FreeAll(alloc, SubSeq(cq.q, 1, k))
      /\ cq' = Readable(cq, budget)
      /\ outstanding' = outstanding - k

Reclaim(budget) ==
  LET k == ReclaimAmount(budget)
  IN  /\ alloc' = FreeAll(alloc, SubSeq(cq.q, 1, k))
      /\ cq' = Release(Readable(cq, budget), k)
      /\ outstanding' = outstanding - k

\* The first reclamation, with the whole budget, before the kernel is asked
\* to go on: it needs free COMPLETION slots.
ReapFirst ==
  /\ pc = "reap"
  /\ Reclaim(N)
  /\ IF outstanding' = 0
     THEN pc' = AfterService /\ reaped' = 0
     ELSE pc' = "tx_kick" /\ reaped' = ReclaimAmount(N)
  /\ UNCHANGED <<owner, tx, tx_need_wakeup, reserved, tx_avail, staged>>

\* request_tx_progress: a sendto when busy polling or when the kernel asked
\* for one.  A call that succeeds puts the kernel to work; one that fails
\* may have done so too.
RequestTxProgress ==
  IF BusyPoll \/ tx_need_wakeup
  THEN tx_need_wakeup' \in {tx_need_wakeup, FALSE}
  ELSE UNCHANGED tx_need_wakeup

\* A failed wakeup is counted and nothing else; the pass goes on.
KickTx ==
  /\ pc = "tx_kick"
  /\ RequestTxProgress
  /\ pc' = "reap_again"
  /\ UNCHANGED <<owner, alloc, tx, cq, reserved, tx_avail, staged, outstanding, reaped>>

\* The second reclamation, with what is left of the budget.
ReapAgain ==
  /\ pc = "reap_again"
  /\ IF reaped < N THEN Reclaim(N - reaped) ELSE UNCHANGED <<alloc, cq, outstanding>>
  /\ reaped' = 0
  /\ pc' = AfterService
  /\ UNCHANGED <<owner, tx, tx_need_wakeup, reserved, tx_avail, staged>>
=============================================================================
