------------------------------ MODULE FifoRing ------------------------------
(***************************************************************************)
(* What a ring promises its two ends: a FIFO of at most N entries.  The    *)
(* producing end reserves a window, stages entries in it one by one and    *)
(* publishes them all at once; the consuming end opens a window on what it *)
(* knows to be published, reads its entries in order and releases them.    *)
(* The ends share nothing but q.  Module Ring implements this one.         *)
(***************************************************************************)
EXTENDS RingView

CONSTANT Values    \* what a descriptor can hold

VARIABLES
  q,          \* published, not yet released
  p_seen,     \* the producing end's cached occupancy
  c_seen,     \* the consuming end's cached number of readable entries
  reserved,   \* a write window is open
  avail,      \* its size
  staged,     \* the entries written into it and not yet published
  n,          \* size of the open read window, 0 when there is none
  batch,      \* the entries read from it so far
  delivered   \* the entries of the last window that was released

vars == <<q, p_seen, c_seen, reserved, avail, staged, n, batch, delivered>>

Init ==
  /\ q = <<>>
  /\ p_seen = 0
  /\ c_seen = 0
  /\ reserved = FALSE
  /\ avail = 0
  /\ staged = <<>>
  /\ n = 0
  /\ batch = <<>>
  /\ delivered = <<>>

Reserve ==
  /\ ~reserved
  /\ reserved' = TRUE
  /\ p_seen' = WritableSeen(q, p_seen, N)
  /\ avail' = WritableAmount(q, p_seen, N)
  /\ UNCHANGED <<q, c_seen, staged, n, batch, delivered>>

TopUp ==
  /\ reserved
  /\ Len(staged) = avail
  /\ p_seen' = WritableSeen(q, p_seen, N)
  /\ avail' = WritableAmount(q, p_seen, N)
  /\ UNCHANGED <<q, c_seen, reserved, staged, n, batch, delivered>>

\* The ring has room for everything staged: no entry that the consuming end
\* has not released is ever overwritten.
Stage(v) ==
  /\ reserved
  /\ Len(staged) < avail
  /\ Len(q) + Len(staged) < N
  /\ staged' = Append(staged, v)
  /\ UNCHANGED <<q, p_seen, c_seen, reserved, avail, n, batch, delivered>>

PublishStaged ==
  /\ reserved
  /\ q' = q \o staged
  /\ p_seen' = p_seen + Len(staged)
  /\ staged' = <<>>
  /\ reserved' = FALSE
  /\ UNCHANGED <<c_seen, avail, n, batch, delivered>>

Open(b) ==
  /\ n = 0
  /\ c_seen' = ReadableSeen(q, c_seen)
  /\ n' = ReadableAmount(q, c_seen, b)
  /\ UNCHANGED <<q, p_seen, reserved, avail, staged, batch, delivered>>

\* An entry is read as it was published, in order.
Read ==
  /\ Len(batch) < n
  /\ Len(batch) < Len(q)
  /\ batch' = Append(batch, q[Len(batch) + 1])
  /\ UNCHANGED <<q, p_seen, c_seen, reserved, avail, staged, n, delivered>>

ReleaseBatch ==
  /\ n > 0
  /\ Len(batch) = n
  /\ n <= Len(q)
  /\ delivered' = SubSeq(q, 1, n)
  /\ q' = DropFirst(q, n)
  /\ c_seen' = c_seen - n
  /\ batch' = <<>>
  /\ n' = 0
  /\ UNCHANGED <<p_seen, reserved, avail, staged>>

Next ==
  \/ Reserve
  \/ TopUp
  \/ \E v \in Values : Stage(v)
  \/ PublishStaged
  \/ \E b \in 1..N : Open(b)
  \/ Read
  \/ ReleaseBatch

Spec == Init /\ [][Next]_vars
=============================================================================
