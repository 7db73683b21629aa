--------------------------- MODULE FrameAllocator ---------------------------
(***************************************************************************)
(* The UMEM frames and the LIFO stack of the free ones (frame_alloc.hpp).  *)
(* An address is a frame number and an offset into that frame: in the code *)
(* frame * frame_size + off, with frame_size a power of two.               *)
(***************************************************************************)
EXTENDS Naturals, Sequences

CONSTANTS
  NumFrames,   \* num_frames
  Capacity     \* CAPACITY of the allocator's array

\* static_assert(NUM_FRAMES > 0 && NUM_FRAMES <= ALLOC_CAP)
ASSUME FramesAssumption ==
  /\ NumFrames \in Nat /\ Capacity \in Nat
  /\ NumFrames > 0 /\ NumFrames <= Capacity

Frames == 0..NumFrames-1

Addr(f, o) == [frame |-> f, off |-> o]

Addrs(Offsets) == [frame : Frames, off : Offsets]

\* addr & frame_mask_: the offset bits are cleared.
FrameBase(a) == Addr(a.frame, 0)

\* The constructor: frames_[i] = i * frame_size.
AllFree == [j \in 1..NumFrames |-> Addr(j - 1, 0)]

\* k successive calls of alloc(), which take from the top of the stack, and
\* the stack they leave.
AllocK(stack, k) == [j \in 1..k |-> stack[Len(stack) + 1 - j]]
AfterAllocK(stack, k) == SubSeq(stack, 1, Len(stack) - k)

\* Faulty form: the offset is not masked off.
FreeAllUnmasked(stack, addrs) == stack \o addrs

\* free(a & frame_mask_) for every address of a sequence, in order.
FreeAll(stack, addrs) == stack \o [j \in 1..Len(addrs) |-> FrameBase(addrs[j])]

\* The frames a sequence of addresses stands for.
FramesOf(s) == {s[j].frame : j \in 1..Len(s)}

\* All entries of a sequence are the base addresses of their frames.
BasesOnly(s) == \A j \in 1..Len(s) : s[j].off = 0

\* No two entries of a sequence are of the same frame.
Distinct(s) == \A j, k \in 1..Len(s) : s[j].frame = s[k].frame => j = k
=============================================================================
