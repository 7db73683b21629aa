--------------------------- MODULE FrameOwnership ---------------------------
(***************************************************************************)
(* What the engine promises about UMEM frames: every frame has exactly one *)
(* owner at any time, and ownership moves only around the cycle            *)
(*                                                                         *)
(*   free -> fill -> kernel_rx -> rx -> free                               *)
(*                                rx -> staged -> tx -> kernel_tx -> cq    *)
(*                                                       cq -> free        *)
(*                                                                         *)
(* A frame handed to TX comes back through the COMPLETION ring only.       *)
(***************************************************************************)
CONSTANT Frames

VARIABLES free, fill, kernel_rx, rx, staged, tx, kernel_tx, cq

vars == <<free, fill, kernel_rx, rx, staged, tx, kernel_tx, cq>>

Init ==
  /\ free = Frames
  /\ fill = {} /\ kernel_rx = {} /\ rx = {}
  /\ staged = {} /\ tx = {} /\ kernel_tx = {} /\ cq = {}

\* What one owner (from, afterwards from2) gives up is what another (to,
\* afterwards to2) gains.
Moves(from, from2, to, to2) == from2 \subseteq from /\ to2 = to \cup (from \ from2)

Refill   == Moves(free, free', fill, fill')
            /\ UNCHANGED <<kernel_rx, rx, staged, tx, kernel_tx, cq>>
TakeFill == Moves(fill, fill', kernel_rx, kernel_rx')
            /\ UNCHANGED <<free, rx, staged, tx, kernel_tx, cq>>
Deliver  == Moves(kernel_rx, kernel_rx', rx, rx')
            /\ UNCHANGED <<free, fill, staged, tx, kernel_tx, cq>>
Recycle  == Moves(rx, rx', free, free')
            /\ UNCHANGED <<fill, kernel_rx, staged, tx, kernel_tx, cq>>
Stage    == Moves(rx, rx', staged, staged')
            /\ UNCHANGED <<free, fill, kernel_rx, tx, kernel_tx, cq>>
Submit   == Moves(staged, staged', tx, tx')
            /\ UNCHANGED <<free, fill, kernel_rx, rx, kernel_tx, cq>>
TakeTx   == Moves(tx, tx', kernel_tx, kernel_tx')
            /\ UNCHANGED <<free, fill, kernel_rx, rx, staged, cq>>
Complete == Moves(kernel_tx, kernel_tx', cq, cq')
            /\ UNCHANGED <<free, fill, kernel_rx, rx, staged, tx>>
Reclaim  == Moves(cq, cq', free, free')
            /\ UNCHANGED <<fill, kernel_rx, rx, staged, tx, kernel_tx>>

Next ==
  \/ Refill \/ TakeFill \/ Deliver \/ Recycle
  \/ Stage \/ Submit \/ TakeTx \/ Complete \/ Reclaim

Spec == Init /\ [][Next]_vars

-----------------------------------------------------------------------------
\* Every frame has exactly one owner.
OneOwnerEach ==
  /\ Frames = free \cup fill \cup kernel_rx \cup rx \cup staged \cup tx \cup kernel_tx \cup cq
  /\ free \cap (fill \cup kernel_rx \cup rx \cup staged \cup tx \cup kernel_tx \cup cq) = {}
  /\ fill \cap (kernel_rx \cup rx \cup staged \cup tx \cup kernel_tx \cup cq) = {}
  /\ kernel_rx \cap (rx \cup staged \cup tx \cup kernel_tx \cup cq) = {}
  /\ rx \cap (staged \cup tx \cup kernel_tx \cup cq) = {}
  /\ staged \cap (tx \cup kernel_tx \cup cq) = {}
  /\ tx \cap (kernel_tx \cup cq) = {}
  /\ kernel_tx \cap cq = {}

=============================================================================
