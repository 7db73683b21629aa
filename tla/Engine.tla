------------------------------- MODULE Engine -------------------------------
(***************************************************************************)
(* The packet engine while it is running: the worker (Receiver and         *)
(* Transmitter), the kernel at the other end of the four rings, and the    *)
(* control thread's part in stopping it (request_stop, join, drain_until). *)
(***************************************************************************)
EXTENDS Receiver, FiniteSets

CONSTANT RxOffsets    \* where in a frame the kernel may place a packet
ASSUME OffsetsAssumption == RxOffsets \subseteq Nat /\ RxOffsets # {}

VARIABLES
  kernel_rx,   \* frames the kernel took from FILL, to receive into
  kernel_tx,   \* addresses the kernel took from TX and has not completed
  expired      \* the drain deadline has passed

kvars == <<kernel_rx, kernel_tx>>
vars == <<pc, owner, alloc, tx, cq, tx_need_wakeup, servicevars, rvars, kvars, expired>>

Init ==
  /\ pc = "prefill"
  /\ owner = "control"
  /\ TransmitterInit
  /\ ReceiverInit
  /\ tx_need_wakeup \in BOOLEAN
  /\ fill_need_wakeup \in BOOLEAN
  /\ kernel_rx = {}
  /\ kernel_tx = {}
  /\ expired = FALSE

-----------------------------------------------------------------------------
(***************************************************************************)
(* The kernel, modelled from what this code relies on.  It works until the *)
(* socket is closed.                                                       *)
(***************************************************************************)
SocketOpen == pc # "done"

\* A buffer is taken from the FILL ring.
KernelTakesFill ==
  /\ SocketOpen
  /\ ~fill_need_wakeup
  /\ fill.q # <<>>
  /\ kernel_rx' = kernel_rx \cup {Head(fill.q).frame}
  /\ fill' = [fill EXCEPT !.q = Tail(@)]
  /\ UNCHANGED <<pc, owner, alloc, tx, cq, tx_need_wakeup, servicevars,
                 stop, rx, fill_need_wakeup, n, i, pushed, kernel_tx, expired>>

\* The driver found no buffer and asks to be woken up; by the time the flag is
\* set there may be one again.
KernelAsksForRxWakeup ==
  /\ SocketOpen
  /\ ~fill_need_wakeup
  /\ fill_need_wakeup' = TRUE
  /\ UNCHANGED <<pc, owner, alloc, tx, cq, tx_need_wakeup, servicevars,
                 stop, rx, fill, n, i, pushed, kvars, expired>>

\* A packet arrives; without room in the RX ring it is dropped and its frame
\* stays with the kernel.
KernelDelivers(f, off) ==
  /\ SocketOpen
  /\ f \in kernel_rx
  /\ Len(rx.q) < N
  /\ rx' = [rx EXCEPT !.q = Append(@, Addr(f, off))]
  /\ kernel_rx' = kernel_rx \ {f}
  /\ UNCHANGED <<pc, owner, alloc, tx, cq, tx_need_wakeup, servicevars,
                 stop, fill, fill_need_wakeup, n, i, pushed, kernel_tx, expired>>

\* A descriptor is taken from the TX ring, once a COMPLETION slot is sure to
\* be there for it.
KernelTakesTx ==
  /\ SocketOpen
  /\ ~tx_need_wakeup
  /\ tx.q # <<>>
  /\ Len(cq.q) + Cardinality(kernel_tx) < N
  /\ kernel_tx' = kernel_tx \cup {Head(tx.q)}
  /\ tx' = [tx EXCEPT !.q = Tail(@)]
  /\ UNCHANGED <<pc, owner, alloc, cq, tx_need_wakeup, servicevars, rvars, kernel_rx, expired>>

\* The driver goes idle and asks to be woken up.
KernelAsksForTxWakeup ==
  /\ SocketOpen
  /\ ~tx_need_wakeup
  /\ tx_need_wakeup' = TRUE
  /\ UNCHANGED <<pc, owner, alloc, tx, cq, servicevars, rvars, kvars, expired>>

\* Transmissions complete in any order.
KernelCompletes(a) ==
  /\ SocketOpen
  /\ a \in kernel_tx
  /\ cq' = [cq EXCEPT !.q = Append(@, a)]
  /\ kernel_tx' = kernel_tx \ {a}
  /\ UNCHANGED <<pc, owner, alloc, tx, tx_need_wakeup, servicevars, rvars, kernel_rx, expired>>

Kernel ==
  \/ KernelTakesFill
  \/ KernelAsksForRxWakeup
  \/ \E f \in kernel_rx, off \in RxOffsets : KernelDelivers(f, off)
  \/ KernelTakesTx
  \/ KernelAsksForTxWakeup
  \/ \E a \in kernel_tx : KernelCompletes(a)

-----------------------------------------------------------------------------
(***************************************************************************)
(* The control thread.                                                     *)
(***************************************************************************)

\* poll_thread.request_stop(), at any moment of the worker's life.
RequestStop ==
  /\ pc # "prefill"
  /\ ~stop
  /\ stop' = TRUE
  /\ UNCHANGED <<pc, owner, alloc, tx, cq, tx_need_wakeup, servicevars,
                 rx, fill, fill_need_wakeup, n, i, pushed, kvars, expired>>

\* join() returns, drain_until starts its first publish_and_service_tx.
JoinAndDrain ==
  /\ pc = "exited"
  /\ owner' = "control"
  /\ pc' = "publish"
  /\ UNCHANGED <<alloc, tx, cq, tx_need_wakeup, servicevars, rvars, kvars, expired>>

\* Faulty form: the deadline is not looked at.
DrainCheckUnbounded ==
  /\ pc = "drain_check"
  /\ pc' = IF outstanding # 0 THEN "publish" ELSE "done"
  /\ UNCHANGED <<owner, alloc, tx, cq, tx_need_wakeup, servicevars, rvars, kvars, expired>>

\* The loop condition of drain_until.
DrainCheck ==
  /\ pc = "drain_check"
  /\ pc' = IF outstanding # 0 /\ ~expired THEN "publish" ELSE "done"
  /\ UNCHANGED <<owner, alloc, tx, cq, tx_need_wakeup, servicevars, rvars, kvars, expired>>

DeadlinePasses ==
  /\ owner = "control"
  /\ pc \notin {"prefill", "done"}
  /\ ~expired
  /\ expired' = TRUE
  /\ UNCHANGED <<pc, owner, alloc, tx, cq, tx_need_wakeup, servicevars, rvars, kvars>>

\* The engine is gone; its frames are unmapped with the UMEM.
Finished == pc = "done" /\ stop /\ UNCHANGED vars

-----------------------------------------------------------------------------
Service == PublishTx \/ ReapFirst \/ KickTx \/ ReapAgain

ServiceStep == Service /\ UNCHANGED <<rvars, kvars, expired>>

WorkerStep ==
  /\ \/ RunExit \/ RxPoll \/ ReleaseRx \/ FillCheck \/ Refill \/ KickRx \/ Prefill
     \/ \E outcome \in Outcomes : Callback(outcome)
  /\ UNCHANGED <<kvars, expired>>

Control == RequestStop \/ JoinAndDrain \/ DrainCheck \/ DeadlinePasses

Next == WorkerStep \/ ServiceStep \/ Control \/ Kernel \/ Finished

Spec == Init /\ [][Next]_vars

-----------------------------------------------------------------------------
(***************************************************************************)
(* Safety.                                                                 *)
(***************************************************************************)
Offsets == RxOffsets \cup {0}

RingOf(S) == [q : Seq(S), seen : 0..N]

\* Every variable has its type; seen never exceeds the ring.
TypeOK ==
  /\ pc \in {"prefill", "run", "callback", "publish", "reap", "tx_kick", "reap_again",
             "fill_check", "refill", "rx_kick", "exited", "drain_check", "done"}
  /\ owner \in {"worker", "control"}
  /\ alloc \in Seq(Addrs(Offsets))
  /\ tx \in RingOf(Addrs(Offsets)) /\ cq \in RingOf(Addrs(Offsets))
  /\ rx \in RingOf(Addrs(Offsets)) /\ fill \in RingOf(Addrs(Offsets))
  /\ tx_need_wakeup \in BOOLEAN /\ fill_need_wakeup \in BOOLEAN
  /\ reserved \in BOOLEAN /\ tx_avail \in 0..N
  /\ staged \in Seq(Addrs(Offsets))
  /\ outstanding \in Nat /\ reaped \in 0..N
  /\ stop \in BOOLEAN
  /\ n \in 0..N /\ i \in 0..N /\ pushed \in 0..N
  /\ kernel_rx \in SUBSET Frames
  /\ kernel_tx \in SUBSET Addrs(Offsets)
  /\ expired \in BOOLEAN

\* The RX entries the callback has not disposed of yet.
RxPending == DropFirst(rx.q, i)

KernelTxFrames == {a.frame : a \in kernel_tx}

\* The owner of every frame, read off the engine's state.
Ownership == INSTANCE FrameOwnership WITH
  free <- FramesOf(alloc), fill <- FramesOf(fill.q), rx <- FramesOf(RxPending),
  staged <- FramesOf(staged), tx <- FramesOf(tx.q), kernel_tx <- KernelTxFrames,
  cq <- FramesOf(cq.q)

\* Every UMEM frame is in exactly one place, once: no interleaving of the
\* worker, the drain and the kernel leaks a frame, frees it twice or hands
\* it to the NIC while user space still uses it.
FrameConservation ==
  /\ Ownership!OneOwnerEach
  /\ Distinct(alloc) /\ Distinct(fill.q) /\ Distinct(RxPending)
  /\ Distinct(staged) /\ Distinct(tx.q) /\ Distinct(cq.q)
  /\ \A a, b \in kernel_tx : a.frame = b.frame => a = b

\* outstanding_ is exactly the number of published descriptors whose frame
\* has not come back (transmitter.hpp:149), so reclaim's
\* assert(n <= outstanding_) holds, the early returns of
\* publish_and_service_tx never skip a COMPLETION entry, and the number of
\* abandoned frames reported after the drain is right.
OutstandingExact ==
  outstanding = Len(tx.q) + Cardinality(kernel_tx) + Len(cq.q)

\* No ring ever holds more than N entries, the staged ones included, although
\* every window is computed from a stale copy of the other end's index; the
\* windows user space works on lie within what is published; and free never
\* runs past the allocator's array (assert(count_ < capacity)).
NothingOverflows ==
  /\ Len(alloc) <= Capacity
  /\ Len(fill.q) <= fill.seen
  /\ Len(tx.q) <= tx.seen
  /\ tx.seen + Len(staged) <= N
  /\ rx.seen <= Len(rx.q) /\ Len(rx.q) <= N
  /\ cq.seen <= Len(cq.q) /\ Len(cq.q) + Cardinality(kernel_tx) <= N
  /\ pc = "callback" => i <= n /\ n <= rx.seen

\* The allocator and the FILL ring hold frame base addresses only: the
\* packet offset of RX and COMPLETION descriptors is masked off before a
\* frame is freed.
FrameBasesOnly == BasesOnly(alloc) /\ BasesOnly(fill.q)

\* Every frame the callback transferred is published in the same pass:
\* whenever the worker can leave its loop, and when the engine is done,
\* nothing is staged and no RX entry is half processed.
NothingLeftStaged ==
  pc \notin {"callback", "publish"} => staged = <<>> /\ ~reserved /\ i = 0

-----------------------------------------------------------------------------
(***************************************************************************)
(* The inductive invariant behind these properties.                        *)
(***************************************************************************)
\* What is staged lies in an open window, and the window behind the entries
\* believed to be queued.
TxWindow ==
  /\ reserved => Len(staged) <= tx_avail /\ tx_avail + tx.seen <= N
  /\ ~reserved => staged = <<>>

\* The safety properties together, with what they need to survive a step.
IInv ==
  /\ TypeOK
  /\ FrameConservation
  /\ FrameBasesOnly
  /\ OutstandingExact
  /\ NothingOverflows
  /\ NothingLeftStaged
  /\ TxWindow
  /\ IsFiniteSet(kernel_tx)
  /\ pc = "publish" => i = 0

-----------------------------------------------------------------------------
(***************************************************************************)
(* The engine implements FrameOwnership.                                   *)
(***************************************************************************)
\* Frames move only along the ownership cycle; a frame given to TX comes back
\* through the COMPLETION ring and in no other way ("Only CQ returns
\* frames", transmitter.hpp:111).
OwnershipSpec == Ownership!Spec

-----------------------------------------------------------------------------
(***************************************************************************)
(* Liveness.  The threads keep running; a wakeup that is tried again and   *)
(* again succeeds; a kernel that is awake again and again serves the FILL  *)
(* and TX rings; a transmission completes.                                 *)
(***************************************************************************)
ThreadStep == WorkerStep \/ ServiceStep \/ JoinAndDrain \/ DrainCheck

TxKickWorks == KickTx /\ ~tx_need_wakeup' /\ UNCHANGED <<rvars, kvars, expired>>

RxKickWorks == KickRx /\ ~fill_need_wakeup' /\ UNCHANGED <<kvars, expired>>

Fairness ==
  /\ WF_vars(ThreadStep)
  /\ WF_vars(DeadlinePasses)
  /\ SF_vars(TxKickWorks)
  /\ SF_vars(RxKickWorks)
  /\ SF_vars(KernelTakesTx)
  /\ SF_vars(KernelTakesFill)
  /\ \A a \in Addrs(Offsets) : WF_vars(KernelCompletes(a))

FairSpec == Spec /\ Fairness

\* A frame handed to TX is free again in the end, unless the drain deadline
\* cuts it off: no lost wakeup or early return strands it.
TxFramesComeBack ==
  \A f \in Frames :
    f \in FramesOf(staged \o tx.q \o cq.q) \cup KernelTxFrames ~> f \in FramesOf(alloc) \/ pc = "done"

\* With no buffer left in the FILL ring or the driver, the FILL ring is
\* refilled as long as the engine runs: reception does not starve.
ReceptionIsFed ==
  (pc # "prefill" /\ fill.q = <<>> /\ kernel_rx = {}) ~> (fill.q # <<>> \/ stop)

\* A buffer in the FILL ring reaches the driver: the driver's request to be
\* woken up is not missed.
FillReachesDriver ==
  \A f \in Frames : f \in FramesOf(fill.q) ~> f \notin FramesOf(fill.q) \/ stop

\* Nothing is asked of the kernel here, not even that a wakeup ever succeeds.
StopSpec == Spec /\ WF_vars(ThreadStep) /\ WF_vars(DeadlinePasses)

\* A stop request ends the engine: the worker leaves its loop and the drain
\* is bounded, whatever the kernel does.
StopEnds == stop ~> pc = "done"
=============================================================================
