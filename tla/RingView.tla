------------------------------ MODULE RingView ------------------------------
(***************************************************************************)
(* What one end of an SPSC descriptor ring (ring.hpp, MmapRing) sees, with *)
(* the absolute positions of the 32-bit indices abstracted away:           *)
(*                                                                         *)
(*   q     the published entries not yet released, oldest first: the slots *)
(*         from *consumer_ up to *producer_;                               *)
(*   seen  cached_prod_ - cached_cons_ of the end's own MmapRing object.   *)
(*                                                                         *)
(* For a consuming end, seen counts the entries it knows to be readable    *)
(* (it may be behind Len(q)); for a producing end, it counts the slots it  *)
(* believes to be occupied (it may be ahead of Len(q)).  Module Ring keeps *)
(* the indices and is shown to implement these operators.                  *)
(***************************************************************************)
EXTENDS Naturals, Sequences

CONSTANT N    \* num_descs_, the capacity of every ring

\* At least 2: main.cpp asserts RING_SIZE >= 2, without which the refill
\* threshold capacity()/2 is 0 and the FILL ring is never refilled.
ASSUME NAssumption == N \in Nat /\ N >= 2

Min2(a, b) == IF a < b THEN a ELSE b

(***************************************************************************)
(* readable_range: the window is recomputed from the shared producer index *)
(* only when the cached one is exhausted.                                  *)
(***************************************************************************)
ReadableSeen(q, seen) == IF seen = 0 THEN Len(q) ELSE seen

ReadableAmount(q, seen, batch) == Min2(ReadableSeen(q, seen), batch)

(***************************************************************************)
(* writable_range: the shared consumer index is read again only when the   *)
(* cached view offers fewer than n slots.                                  *)
(***************************************************************************)
WritableSeen(q, seen, n) == IF N - seen < n THEN Len(q) ELSE seen

\* Faulty form: one slot too many.
WritableAmountPlusOne(q, seen, n) == Min2(n, N + 1 - WritableSeen(q, seen, n))

WritableAmount(q, seen, n) == Min2(n, N - WritableSeen(q, seen, n))

(***************************************************************************)
(* A ring as the user-space end holds it.                                  *)
(***************************************************************************)
EmptyRing == [q |-> <<>>, seen |-> 0]

Readable(r, batch) == [r EXCEPT !.seen = ReadableSeen(r.q, r.seen)]

Writable(r, n) == [r EXCEPT !.seen = WritableSeen(r.q, r.seen, n)]

DropFirst(s, k) == SubSeq(s, k + 1, Len(s))

Release(r, amount) == [q |-> DropFirst(r.q, amount), seen |-> r.seen - amount]

Publish(r, entries) == [q |-> r.q \o entries, seen |-> r.seen + Len(entries)]

QueuedEntryCount(r) == Len(r.q)
=============================================================================
