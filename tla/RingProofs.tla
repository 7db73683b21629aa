----------------------------- MODULE RingProofs -----------------------------
(***************************************************************************)
(* Theorems about Ring, for every ring size, index width and descriptor    *)
(* set: the inductive invariant, the safety properties it implies, and     *)
(* that the ring implements FifoRing.                                      *)
(***************************************************************************)
EXTENDS Ring, SequenceTheorems, TLAPS

-----------------------------------------------------------------------------
(***************************************************************************)
(* Arithmetic of the indices.                                              *)
(***************************************************************************)

\* The index space holds the ring at least twice.
LEMMA MSize == /\ N \in Nat /\ N >= 2
               /\ M \in Nat /\ M >= 2 * N
  BY NAssumption, KAssumption DEF M

\* Unsigned addition wraps at most once (cached_prod_ += amount).
LEMMA WAddCases ==
  ASSUME NEW a \in Index, NEW b \in 0..M
  PROVE  /\ WAdd(a, b) \in Index
         /\ WAdd(a, b) = IF a + b < M THEN a + b ELSE a + b - M
  BY MSize DEF WAdd, Index

\* Unsigned subtraction wraps at most once (cached_prod_ - cached_cons_).
LEMMA WSubCases ==
  ASSUME NEW a \in 0..M, NEW b \in Index
  PROVE  /\ a - b < M => WSub(a, b) \in Index
         /\ a - b < M => WSub(a, b) = IF a >= b THEN a - b ELSE a - b + M
  BY MSize DEF WSub, Index

\* The quotient and the remainder of a division by the ring size are unique.
LEMMA ModUnique ==
  ASSUME NEW x \in Int, NEW k \in Int, NEW r \in Slots, x = k * N + r
  PROVE  x % N = r
  BY MSize DEF Slots

\* Every integer is a multiple of N and a slot number.
LEMMA DivMod ==
  ASSUME NEW x \in Int
  PROVE  /\ x \div N \in Int /\ x % N \in Slots
         /\ x = (x \div N) * N + (x % N)
  BY MSize DEF Slots

\* Wrapping an index does not move its slot: N divides M.
LEMMA SlotOfWrapped ==
  ASSUME NEW x \in Int
  PROVE  (x - M) % N = x % N
  <1> DEFINE k == (x \div N) - K
             r == x % N
  <1>1. k \in Int /\ r \in Slots /\ x - M \in Int
    BY DivMod, MSize, KAssumption
  <1>2. x - M = k * N + r
    BY DivMod, MSize, KAssumption DEF M
  <1> HIDE DEF k, r
  <1>3. (x - M) % N = r
    BY <1>1, <1>2, ModUnique
  <1>4. QED
    BY <1>3 DEF r

\* The only multiple of N strictly between -N and N is zero.
LEMMA SmallMultiple ==
  ASSUME NEW k \in Int, k * N < N, -N < k * N
  PROVE  k = 0
  BY MSize

\* Fewer than N consecutive indices have different slots (desc_at).
LEMMA SlotInjective ==
  ASSUME NEW c \in Index, NEW j \in 0..N-1, NEW k \in 0..N-1,
         Slot(WAdd(c, j)) = Slot(WAdd(c, k))
  PROVE  j = k
  <1>1. \A i \in 0..N-1 : Slot(WAdd(c, i)) = (c + i) % N
    <2> TAKE i \in 0..N-1
    <2>1. CASE c + i < M
      <3>1. WAdd(c, i) = c + i
        BY <2>1, WAddCases, MSize DEF Index
      <3>2. QED
        BY <3>1 DEF Slot
    <2>2. CASE ~(c + i < M)
      <3>1. WAdd(c, i) = (c + i) - M
        BY <2>2, WAddCases, MSize DEF Index
      <3>2. c + i \in Int
        BY MSize DEF Index
      <3>3. QED
        BY <3>1, <3>2, SlotOfWrapped DEF Slot
    <2>3. QED
      BY <2>1, <2>2
  <1>2. j - k = (((c + j) \div N) - ((c + k) \div N)) * N
    <2>1. c + j \in Int /\ c + k \in Int /\ (c + j) % N = (c + k) % N
      BY <1>1, MSize DEF Index
    <2> DEFINE dj == (c + j) \div N
               dk == (c + k) \div N
    <2>2. dj \in Int /\ (c + j) % N \in Slots /\ c + j = dj * N + ((c + j) % N)
      BY <2>1, DivMod
    <2>2a. dk \in Int /\ c + k = dk * N + ((c + k) % N)
      BY <2>1, DivMod
    <2> HIDE DEF dj, dk
    <2>3. j - k = (dj - dk) * N
      BY <2>1, <2>2, <2>2a, MSize DEF Index, Slots
    <2>4. QED
      BY <2>3 DEF dj, dk
  <1>3. ((c + j) \div N) - ((c + k) \div N) = 0
    BY <1>2, DivMod, SmallMultiple, MSize DEF Index
  <1>4. QED
    BY <1>2, <1>3, MSize

\* The wrapped difference of two indices is an index, and which one.
LEMMA WSubIs ==
  ASSUME NEW a \in Index, NEW b \in Index
  PROVE  /\ WSub(a, b) \in Index
         /\ WSub(a, b) = IF a >= b THEN a - b ELSE a - b + M
  BY WSubCases, MSize DEF Index

\* The producing end moves on by k: one more distance k to every index.
LEMMA WSubAdvance ==
  ASSUME NEW a \in Index, NEW b \in Index, NEW k \in 0..N, WSub(a, b) + k < M
  PROVE  WSub(WAdd(a, k), b) = WSub(a, b) + k
  <1>1. /\ WSub(a, b) \in Index
        /\ WSub(a, b) = IF a >= b THEN a - b ELSE a - b + M
    BY WSubIs
  <1>2. /\ WAdd(a, k) \in Index
        /\ WAdd(a, k) = IF a + k < M THEN a + k ELSE a + k - M
    BY WAddCases, MSize
  <1>3. WSub(WAdd(a, k), b) = IF WAdd(a, k) >= b THEN WAdd(a, k) - b ELSE WAdd(a, k) - b + M
    BY <1>2, WSubIs
  <1>4. QED
    BY <1>1, <1>2, <1>3, MSize DEF Index

\* The consuming end moves on by k.
LEMMA WSubRelease ==
  ASSUME NEW a \in Index, NEW b \in Index, NEW k \in 0..N, k <= WSub(a, b)
  PROVE  WSub(a, WAdd(b, k)) = WSub(a, b) - k
  <1>1. /\ WSub(a, b) \in Index
        /\ WSub(a, b) = IF a >= b THEN a - b ELSE a - b + M
    BY WSubIs
  <1>2. /\ WAdd(b, k) \in Index
        /\ WAdd(b, k) = IF b + k < M THEN b + k ELSE b + k - M
    BY WAddCases, MSize
  <1>3. WSub(a, WAdd(b, k)) = IF a >= WAdd(b, k) THEN a - WAdd(b, k) ELSE a - WAdd(b, k) + M
    BY <1>2, WSubIs
  <1>4. QED
    BY <1>1, <1>2, <1>3, MSize DEF Index

\* Moving an index on twice is moving it on by the sum.
LEMMA WAddAssoc ==
  ASSUME NEW c \in Index, NEW i \in 0..N, NEW j \in 0..N
  PROVE  WAdd(WAdd(c, i), j) = WAdd(c, i + j)
  <1>1. /\ WAdd(c, i) \in Index
        /\ WAdd(c, i) = IF c + i < M THEN c + i ELSE c + i - M
    BY WAddCases, MSize
  <1>2. WAdd(WAdd(c, i), j) = IF WAdd(c, i) + j < M THEN WAdd(c, i) + j ELSE WAdd(c, i) + j - M
    BY <1>1, WAddCases, MSize
  <1>3. WAdd(c, i + j) = IF c + i + j < M THEN c + i + j ELSE c + i + j - M
    <2>1. i + j \in 0..M
      BY MSize
    <2>2. WAdd(c, i + j) = IF c + (i + j) < M THEN c + (i + j) ELSE c + (i + j) - M
      BY <2>1, WAddCases
    <2>3. QED
      BY <2>2, MSize DEF Index
  <1>4. QED
    BY <1>1, <1>2, <1>3, MSize DEF Index

\* An index moved on by its distance from another one reaches that one.
LEMMA WAddWSub ==
  ASSUME NEW a \in Index, NEW b \in Index
  PROVE  WAdd(b, WSub(a, b)) = a
  <1>1. /\ WSub(a, b) \in Index
        /\ WSub(a, b) = IF a >= b THEN a - b ELSE a - b + M
    BY WSubIs
  <1>2. WAdd(b, WSub(a, b)) = IF b + WSub(a, b) < M THEN b + WSub(a, b) ELSE b + WSub(a, b) - M
    BY <1>1, WAddCases, MSize DEF Index
  <1>3. QED
    BY <1>1, <1>2, MSize DEF Index

\* num_descs_ - (cached_prod_ - cached_cons_) does not wrap when the view fits.
LEMMA FreeSlotsIs ==
  ASSUME NEW s \in 0..N
  PROVE  WSub(N, s) = N - s
  BY WSubCases, MSize DEF Index

\* desc_at stays within the array of descriptors.
LEMMA SlotType ==
  ASSUME NEW i \in Index
  PROVE  Slot(i) \in Slots
  BY MSize DEF Slot, Slots, Index

-----------------------------------------------------------------------------
(***************************************************************************)
(* The windows in a state that satisfies the invariant.                    *)
(***************************************************************************)
LEMMA ViewTypes ==
  ASSUME IInv
  PROVE  /\ PSeen \in 0..N /\ Occupancy \in 0..N /\ CSeen \in 0..N
         /\ CSeen <= Occupancy /\ Occupancy <= PSeen
  <1>1. PSeen \in Index /\ Occupancy \in Index /\ CSeen \in Index
    BY WSubIs DEF IInv, TypeOK, PSeen, CSeen, Occupancy
  <1>2. QED
    BY <1>1, MSize DEF IInv, CachedViewsAreSafe, PSeen, CSeen, Index

\* What writable_range(capacity()) computes.
LEMMA WritableFacts ==
  ASSUME IInv
  PROVE  /\ WritableRangeCons \in Index
         /\ WSub(p_cached_prod, WritableRangeCons) = IF N - PSeen < N THEN Occupancy ELSE PSeen
         /\ WritableRangeAmount = N - WSub(p_cached_prod, WritableRangeCons)
         /\ WritableRangeAmount \in 0..N
         /\ FreeSlots(p_cached_cons) = N - PSeen
  <1>1. PSeen \in 0..N /\ Occupancy \in 0..N
    BY ViewTypes
  <1>2. FreeSlots(p_cached_cons) = N - PSeen
    BY <1>1, FreeSlotsIs DEF FreeSlots, PSeen
  <1>3. FreeSlots(consumer) = N - Occupancy
    BY <1>1, FreeSlotsIs DEF FreeSlots, Occupancy, IInv, OwnIndexIsCurrent
  <1>4. WSub(p_cached_prod, p_cached_cons) = PSeen /\ WSub(p_cached_prod, consumer) = Occupancy
    BY DEF PSeen, Occupancy, IInv, OwnIndexIsCurrent
  <1>5. CASE N - PSeen < N
    <2>1. WritableRangeCons = consumer
      BY <1>2, <1>5 DEF WritableRangeCons
    <2>2. QED
      BY <1>1, <1>2, <1>3, <1>4, <1>5, <2>1, MSize DEF WritableRangeAmount, Min2, IInv, TypeOK
  <1>6. CASE ~(N - PSeen < N)
    <2>1. WritableRangeCons = p_cached_cons
      BY <1>2, <1>6 DEF WritableRangeCons
    <2>2. QED
      BY <1>1, <1>2, <1>4, <1>6, <2>1, MSize DEF WritableRangeAmount, Min2, IInv, TypeOK
  <1>7. QED
    BY <1>5, <1>6

\* What readable_range(b) computes.
LEMMA ReadableFacts ==
  ASSUME IInv, NEW b \in 1..N
  PROVE  /\ ReadableRangeProd \in Index
         /\ WSub(ReadableRangeProd, c_cached_cons) = IF CSeen = 0 THEN Occupancy ELSE CSeen
         /\ ReadableRangeAmount(b) \in 0..N
         /\ ReadableRangeAmount(b) <= WSub(ReadableRangeProd, c_cached_cons)
  <1>1. CSeen \in 0..N /\ Occupancy \in 0..N
    BY ViewTypes
  <1>2. WSub(c_cached_prod, c_cached_cons) = CSeen /\ WSub(producer, c_cached_cons) = Occupancy
    BY DEF CSeen, Occupancy, IInv, OwnIndexIsCurrent
  <1>3. /\ ReadableRangeProd \in Index
        /\ WSub(ReadableRangeProd, c_cached_cons) = IF CSeen = 0 THEN Occupancy ELSE CSeen
    BY <1>2 DEF ReadableRangeProd, IInv, TypeOK
  <1>4. QED
    BY <1>1, <1>3, MSize DEF ReadableRangeAmount, Min2

-----------------------------------------------------------------------------
(***************************************************************************)
(* IInv is inductive: one lemma per action.                                *)
(***************************************************************************)
LEMMA InitIInv == Init => IInv
  <1> SUFFICES ASSUME Init PROVE IInv
    OBVIOUS
  <1>1. WSub(0, 0) = 0 /\ 0 \in Index
    BY MSize DEF WSub, Index
  <1>2. TypeOK
    BY <1>1, MSize DEF Init, TypeOK, Slots
  <1>3. QED
    BY <1>1, <1>2, MSize DEF Init, IInv, OwnIndexIsCurrent, CachedViewsAreSafe, Occupancy,
       WriteWindow, ReadWindow, QueuedSlotsWritten, PSeen, CSeen

\* writable_range opens a window on slots that are really free.
LEMMA ReserveIInv == IInv /\ Reserve => IInv'
  <1> SUFFICES ASSUME IInv, Reserve PROVE IInv'
    OBVIOUS
  <1>1. TypeOK'
    BY WritableFacts, MSize DEF IInv, TypeOK, Reserve, shared, cvars
  <1>2. PSeen' = WSub(p_cached_prod, WritableRangeCons)
    BY DEF PSeen, Reserve
  <1>3. CachedViewsAreSafe'
    BY <1>2, WritableFacts, ViewTypes, MSize
       DEF IInv, CachedViewsAreSafe, PSeen, Occupancy, Reserve, shared, cvars
  <1>4. WriteWindow'
    <2>1. used = 0 /\ staged = <<>>
      BY DEF IInv, WriteWindow, Reserve, TypeOK
    <2>2. QED
      BY <1>2, <2>1, WritableFacts, ViewTypes, MSize DEF WriteWindow, Reserve
  <1>5. ReadWindow' /\ QueuedSlotsWritten' /\ OwnIndexIsCurrent'
    BY DEF IInv, ReadWindow, QueuedSlotsWritten, OwnIndexIsCurrent, CSeen, Occupancy,
       Reserve, shared, cvars
  <1>6. QED
    BY <1>1, <1>3, <1>4, <1>5 DEF IInv

\* A used-up window asked for again still ends before the queue begins.
LEMMA TopUpIInv == IInv /\ TopUp => IInv'
  <1> SUFFICES ASSUME IInv, TopUp PROVE IInv'
    OBVIOUS
  <1>1. TypeOK'
    BY WritableFacts, MSize DEF IInv, TypeOK, TopUp, shared, cvars
  <1>2. PSeen' = WSub(p_cached_prod, WritableRangeCons)
    BY DEF PSeen, TopUp
  <1>3. CachedViewsAreSafe'
    BY <1>2, WritableFacts, ViewTypes, MSize
       DEF IInv, CachedViewsAreSafe, PSeen, Occupancy, TopUp, shared, cvars
  <1>4. WriteWindow'
    <2>1. used + PSeen <= N /\ used \in 0..N
      BY ViewTypes, MSize DEF IInv, WriteWindow, TopUp, TypeOK
    <2>2. used <= avail' /\ avail' + PSeen' <= N
      BY <1>2, <2>1, WritableFacts, ViewTypes, MSize DEF TopUp
    <2>3. QED
      BY Zenon, <2>2 DEF IInv, WriteWindow, TopUp, shared
  <1>5. ReadWindow' /\ QueuedSlotsWritten' /\ OwnIndexIsCurrent'
    BY DEF IInv, ReadWindow, QueuedSlotsWritten, OwnIndexIsCurrent, CSeen, Occupancy,
       TopUp, shared, cvars
  <1>6. QED
    BY <1>1, <1>3, <1>4, <1>5 DEF IInv

\* A position of the write window, counted from the front of the queue: it is
\* behind every queued entry and still within the ring.
LEMMA WindowPosition ==
  ASSUME IInv, reserved, NEW j \in 0..N-1, j < avail
  PROVE  /\ Occupancy + j \in 0..N-1
         /\ WAdd(start, j) = WAdd(consumer, Occupancy + j)
  <1>1. Occupancy + j \in 0..N-1
    BY SMTT(30), ViewTypes, MSize DEF IInv, WriteWindow, TypeOK
  <1>2. start = WAdd(consumer, Occupancy)
    BY WAddWSub DEF IInv, WriteWindow, OwnIndexIsCurrent, TypeOK, Occupancy
  <1>3. WAdd(WAdd(consumer, Occupancy), j) = WAdd(consumer, Occupancy + j)
    <2>1. consumer \in Index /\ Occupancy \in 0..N /\ j \in 0..N
      BY ViewTypes, MSize DEF IInv, TypeOK
    <2>2. QED
      BY <2>1, WAddAssoc
  <1>4. QED
    BY <1>1, <1>2, <1>3

\* So the slot written next is neither queued nor already staged.
LEMMA FreshSlot ==
  ASSUME IInv, reserved, used # avail
  PROVE  /\ used \in 0..N-1 /\ used < avail
         /\ WAdd(start, used) \in Index
         /\ \A j \in 0..Occupancy-1 : Slot(WAdd(consumer, j)) # Slot(WAdd(start, used))
         /\ \A j \in 0..used-1 : Slot(WAdd(start, j)) # Slot(WAdd(start, used))
  <1>1. used \in 0..N-1 /\ used < avail
    BY ViewTypes, MSize DEF IInv, WriteWindow, TypeOK
  <1>2. /\ Occupancy + used \in 0..N-1
        /\ WAdd(start, used) = WAdd(consumer, Occupancy + used)
    BY <1>1, WindowPosition
  <1>3. \A j \in 0..Occupancy-1 : Slot(WAdd(consumer, j)) # Slot(WAdd(start, used))
    <2> TAKE j \in 0..Occupancy-1
    <2>1. j \in 0..N-1 /\ j # Occupancy + used
      BY <1>1, ViewTypes, MSize
    <2>2. consumer \in Index
      BY DEF IInv, TypeOK
    <2>3. QED
      BY <1>2, <2>1, <2>2, SlotInjective
  <1>4. \A j \in 0..used-1 : Slot(WAdd(start, j)) # Slot(WAdd(start, used))
    <2> TAKE j \in 0..used-1
    <2>1. j \in 0..N-1 /\ j # used
      BY <1>1, MSize
    <2>2. start \in Index
      BY DEF IInv, TypeOK
    <2>3. QED
      BY <1>1, <2>1, <2>2, SlotInjective
  <1>5. WAdd(start, used) \in Index
    <2>1. used \in 0..M /\ start \in Index
      BY <1>1, MSize DEF IInv, TypeOK
    <2>2. QED
      BY <2>1, WAddCases
  <1>6. QED
    BY <1>1, <1>3, <1>4, <1>5

\* Staging writes a slot of the window, which no queued value is in.
LEMMA StageIInv == ASSUME NEW v \in Values PROVE IInv /\ Stage(v) => IInv'
  <1> SUFFICES ASSUME IInv, Stage(v) PROVE IInv'
    OBVIOUS
  <1> DEFINE s == Slot(WAdd(start, used))
  <1>1. /\ used \in 0..N-1 /\ used < avail
        /\ s \in Slots
        /\ \A j \in 0..Occupancy-1 : Slot(WAdd(consumer, j)) # s
        /\ \A j \in 0..used-1 : Slot(WAdd(start, j)) # s
    BY FreshSlot, SlotType DEF Stage
  <1>2. descs' = [descs EXCEPT ![s] = v] /\ descs \in [Slots -> Values \cup {Blank}]
    BY DEF Stage, IInv, TypeOK
  <1>3. \A t \in Slots : t # s => descs'[t] = descs[t]
    BY <1>2
  <1>4. descs'[s] = v
    BY <1>1, <1>2
  <1> HIDE DEF s
  <1>5. TypeOK'
    <2>1. descs' \in [Slots -> Values \cup {Blank}]
      BY <1>1, <1>2
    <2>2. used' \in 0..N /\ staged' \in Seq(Values)
      BY <1>1, MSize DEF IInv, TypeOK, Stage
    <2>3. QED
      BY <2>1, <2>2 DEF IInv, TypeOK, Stage, cvars
  <1>6. CachedViewsAreSafe' /\ OwnIndexIsCurrent'
    BY DEF IInv, CachedViewsAreSafe, OwnIndexIsCurrent, Occupancy, Stage, cvars
  <1>7. WriteWindow'
    <2>1. used' = Len(staged')
      BY DEF IInv, WriteWindow, TypeOK, Stage
    <2>2. used' <= avail' /\ avail' + PSeen' <= N /\ start' = p_cached_prod' /\ reserved'
      BY <1>1, MSize DEF IInv, WriteWindow, PSeen, Stage, TypeOK
    <2>3. ASSUME NEW j \in 0..used'-1
          PROVE  descs'[Slot(WAdd(start', j))] = staged'[j + 1]
      <3>1. CASE j = used
        BY <3>1, <1>4 DEF Stage, s, IInv, WriteWindow, TypeOK
      <3>2. CASE j # used
        <4>1. j \in 0..used-1 /\ j \in 0..M
          BY <3>2, <1>1, MSize DEF Stage
        <4>2. Slot(WAdd(start, j)) \in Slots
          BY <4>1, WAddCases, SlotType DEF IInv, TypeOK
        <4>3. descs'[Slot(WAdd(start, j))] = descs[Slot(WAdd(start, j))]
          BY <4>1, <4>2, <1>1, <1>3
        <4>4. descs[Slot(WAdd(start, j))] = staged[j + 1]
          BY <4>1 DEF IInv, WriteWindow
        <4>5. staged'[j + 1] = staged[j + 1]
          BY <4>1, MSize DEF Stage, IInv, TypeOK, WriteWindow
        <4>6. QED
          BY <4>3, <4>4, <4>5 DEF Stage
      <3>3. QED
        BY <3>1, <3>2
    <2>4. QED
      BY <2>1, <2>2, <2>3 DEF WriteWindow
  <1>8. QueuedSlotsWritten'
    <2>1. ASSUME NEW j \in 0..Occupancy-1
          PROVE  descs'[Slot(WAdd(consumer, j))] \in Values
      <3>1. j \in 0..M
        BY ViewTypes, MSize
      <3>2. Slot(WAdd(consumer, j)) \in Slots
        BY <3>1, WAddCases, SlotType DEF IInv, TypeOK
      <3>3. QED
        BY <3>2, <1>1, <1>3 DEF IInv, QueuedSlotsWritten
    <2>2. QED
      BY <2>1 DEF QueuedSlotsWritten, Occupancy, Stage
  <1>9. ReadWindow'
    <2>1. ASSUME NEW j \in 0..Len(batch)-1
          PROVE  descs'[Slot(WAdd(first, j))] = descs[Slot(WAdd(first, j))]
      <3>1. first = consumer /\ j \in 0..Occupancy-1 /\ j \in 0..M
        BY ViewTypes, MSize DEF IInv, ReadWindow, OwnIndexIsCurrent, TypeOK
      <3>2. Slot(WAdd(first, j)) \in Slots
        BY <3>1, WAddCases, SlotType DEF IInv, TypeOK
      <3>3. QED
        BY <3>1, <3>2, <1>1, <1>3
    <2>2. QED
      BY <2>1 DEF IInv, ReadWindow, CSeen, Stage, cvars
  <1>10. QED
    BY <1>5, <1>6, <1>7, <1>8, <1>9 DEF IInv

\* publish_written_entries advances both copies of the producer index.
LEMMA PublishedIndex ==
  ASSUME IInv, PublishStaged
  PROVE  p_cached_prod' = WAdd(p_cached_prod, used) /\ producer' = p_cached_prod'
  <1>0. used \in 0..N
    BY DEF IInv, TypeOK
  <1>1. CASE used > 0
    BY <1>1 DEF PublishStaged
  <1>2. CASE ~(used > 0)
    <2>1. used = 0
      BY <1>2, <1>0, MSize
    <2>2. WAdd(p_cached_prod, 0) = p_cached_prod
      BY WAddCases, MSize DEF IInv, TypeOK, Index
    <2>3. QED
      BY <1>2, <2>1, <2>2 DEF PublishStaged, IInv, OwnIndexIsCurrent
  <1>3. QED
    BY <1>1, <1>2

\* Publishing adds what was staged to the queue and to the producer's view.
LEMMA PublishedViews ==
  ASSUME IInv, PublishStaged
  PROVE  Occupancy' = Occupancy + used /\ PSeen' = PSeen + used
  <1>1. used \in 0..N /\ Occupancy + used <= N /\ PSeen + used <= N
    BY ViewTypes, MSize DEF IInv, WriteWindow, TypeOK, PublishStaged
  <1>2. p_cached_prod' = WAdd(p_cached_prod, used) /\ producer' = p_cached_prod'
    BY PublishedIndex
  <1>3. Occupancy' = Occupancy + used
    <2>1. /\ p_cached_prod \in Index /\ consumer \in Index
          /\ Occupancy = WSub(p_cached_prod, consumer)
          /\ WSub(p_cached_prod, consumer) + used < M
      BY <1>1, ViewTypes, MSize DEF IInv, TypeOK, Occupancy, OwnIndexIsCurrent
    <2>2. QED
      BY <1>1, <1>2, <2>1, WSubAdvance DEF Occupancy, PublishStaged
  <1>4. PSeen' = PSeen + used
    <2>1. /\ p_cached_prod \in Index /\ p_cached_cons \in Index
          /\ PSeen = WSub(p_cached_prod, p_cached_cons)
          /\ WSub(p_cached_prod, p_cached_cons) + used < M
      BY <1>1, ViewTypes, MSize DEF IInv, TypeOK, PSeen
    <2>2. QED
      BY <1>1, <1>2, <2>1, WSubAdvance DEF PSeen, PublishStaged
  <1>5. QED
    BY <1>3, <1>4

\* publish_written_entries appends the staged slots and closes the window.
LEMMA PublishStagedIInv == IInv /\ PublishStaged => IInv'
  <1> SUFFICES ASSUME IInv, PublishStaged PROVE IInv'
    OBVIOUS
  <1>1. used \in 0..N /\ Occupancy + used <= N /\ PSeen + used <= N
    BY ViewTypes, MSize DEF IInv, WriteWindow, TypeOK, PublishStaged
  <1>2. p_cached_prod' = WAdd(p_cached_prod, used) /\ producer' = p_cached_prod'
    BY PublishedIndex
  <1>3. p_cached_prod' \in Index
    <2>1. used \in 0..M /\ p_cached_prod \in Index
      BY <1>1, MSize DEF IInv, TypeOK
    <2>2. QED
      BY <1>2, <2>1, WAddCases
  <1>4. Occupancy' = Occupancy + used
    BY PublishedViews
  <1>5. PSeen' = PSeen + used
    BY PublishedViews
  <1>6. TypeOK'
    <2>1. producer' \in Index
      BY <1>2, <1>3
    <2>2. used' \in 0..N /\ staged' \in Seq(Values)
      BY MSize DEF PublishStaged
    <2>3. QED
      BY Zenon, <1>3, <2>1, <2>2 DEF IInv, TypeOK, PublishStaged, cvars
  <1>7. CachedViewsAreSafe' /\ OwnIndexIsCurrent'
    <2>1. CSeen' = CSeen
      BY DEF CSeen, PublishStaged, cvars
    <2>2. Occupancy' <= PSeen' /\ PSeen' <= N /\ CSeen' <= Occupancy'
      BY <1>1, <1>4, <1>5, <2>1, ViewTypes, MSize
    <2>3. QED
      BY <1>2, <2>2 DEF CachedViewsAreSafe, PSeen, CSeen, OwnIndexIsCurrent, IInv,
         PublishStaged, cvars
  <1>8. WriteWindow'
    BY DEF WriteWindow, PublishStaged
  <1>9. ReadWindow'
    BY DEF IInv, ReadWindow, CSeen, PublishStaged, cvars
  <1>10. QueuedSlotsWritten'
    <2> SUFFICES ASSUME NEW j \in 0..(Occupancy + used)-1
                 PROVE  descs[Slot(WAdd(consumer, j))] \in Values
      BY <1>4 DEF QueuedSlotsWritten, PublishStaged
    <2>1. CASE j < Occupancy
      BY <2>1, ViewTypes, MSize DEF IInv, QueuedSlotsWritten
    <2>2. CASE ~(j < Occupancy)
      <3> DEFINE k == j - Occupancy
      <3>1. k \in 0..used-1 /\ k \in 0..N-1 /\ j = Occupancy + k
        BY <2>2, <1>1, ViewTypes, MSize
      <3> HIDE DEF k
      <3>2. reserved /\ k < avail
        BY <3>1, <1>1, MSize DEF PublishStaged, IInv, WriteWindow, TypeOK
      <3>3. WAdd(start, k) = WAdd(consumer, j)
        BY <3>1, <3>2, WindowPosition
      <3>4. descs[Slot(WAdd(start, k))] = staged[k + 1]
        BY <3>1 DEF IInv, WriteWindow
      <3>5. staged[k + 1] \in Values
        BY <3>1, <1>1 DEF IInv, WriteWindow, TypeOK
      <3>6. QED
        BY <3>3, <3>4, <3>5
    <2>3. QED
      BY <2>1, <2>2
  <1>11. QED
    BY <1>6, <1>7, <1>8, <1>9, <1>10 DEF IInv

\* readable_range opens a window on published slots only.
LEMMA OpenIInv == ASSUME NEW b \in 1..N PROVE IInv /\ Open(b) => IInv'
  <1> SUFFICES ASSUME IInv, Open(b) PROVE IInv'
    OBVIOUS
  <1>1. TypeOK'
    BY ReadableFacts DEF IInv, TypeOK, Open, shared, pvars
  <1>2. CSeen' = WSub(ReadableRangeProd, c_cached_cons) /\ Occupancy' = Occupancy /\ PSeen' = PSeen
    BY DEF CSeen, Occupancy, PSeen, Open, shared, pvars
  <1>3. CachedViewsAreSafe'
    BY <1>2, ReadableFacts, ViewTypes, MSize DEF CachedViewsAreSafe, CSeen, PSeen
  <1>4. ReadWindow'
    <2>1. batch = <<>>
      BY DEF IInv, ReadWindow, TypeOK, Open
    <2>2. n' <= CSeen' /\ n' \in 0..N /\ first' = c_cached_cons' /\ batch' = <<>>
      BY <1>2, <2>1, ReadableFacts DEF Open
    <2>3. QED
      BY <2>2, MSize DEF ReadWindow
  <1>5. WriteWindow' /\ QueuedSlotsWritten' /\ OwnIndexIsCurrent'
    BY DEF IInv, WriteWindow, QueuedSlotsWritten, OwnIndexIsCurrent, PSeen, Occupancy,
       Open, shared, pvars
  <1>6. QED
    BY <1>1, <1>3, <1>4, <1>5 DEF IInv

\* The entry read next is a queued one.
LEMMA NextRead ==
  ASSUME IInv, Len(batch) < n
  PROVE  /\ first = consumer
         /\ Len(batch) \in 0..Occupancy-1
         /\ descs[Slot(WAdd(first, Len(batch)))] \in Values
  <1>1. first = consumer /\ Len(batch) \in 0..Occupancy-1
    BY ViewTypes, MSize DEF IInv, ReadWindow, OwnIndexIsCurrent, TypeOK
  <1>2. QED
    BY <1>1 DEF IInv, QueuedSlotsWritten

\* Reading a slot of the window writes nothing.
LEMMA ReadIInv == IInv /\ Read => IInv'
  <1> SUFFICES ASSUME IInv, Read PROVE IInv'
    OBVIOUS
  <1> DEFINE v == descs[Slot(WAdd(first, Len(batch)))]
  <1>1. v \in Values /\ batch' = Append(batch, v) /\ batch \in Seq(Values) /\ n \in 0..N
    BY NextRead DEF Read, IInv, TypeOK
  <1>2. ReadWindow'
    <2>1. /\ Len(batch') = Len(batch) + 1 /\ Len(batch) < n
          /\ \A j \in 0..Len(batch)-1 : batch'[j + 1] = batch[j + 1]
          /\ batch'[Len(batch) + 1] = v
      BY <1>1 DEF Read
    <2>2. \A j \in 0..Len(batch')-1 : batch'[j + 1] = descs[Slot(WAdd(first, j))]
      BY <2>1, <1>1 DEF IInv, ReadWindow
    <2>3. QED
      BY <2>1, <2>2, <1>1 DEF IInv, ReadWindow, CSeen, Read, shared, pvars
  <1> HIDE DEF v
  <1>3. TypeOK'
    BY SMTT(30), <1>1 DEF IInv, TypeOK, Read, shared, pvars
  <1>4. CachedViewsAreSafe' /\ OwnIndexIsCurrent' /\ WriteWindow' /\ QueuedSlotsWritten'
    BY DEF IInv, CachedViewsAreSafe, OwnIndexIsCurrent, WriteWindow, QueuedSlotsWritten,
       PSeen, Occupancy, Read, shared, pvars
  <1>5. QED
    BY <1>2, <1>3, <1>4 DEF IInv

\* After a release, position j of the queue is what was position n + j.
LEMMA ReleasedPosition ==
  ASSUME IInv, NEW k \in 0..N, NEW j \in 0..N
  PROVE  WAdd(WAdd(consumer, k), j) = WAdd(consumer, k + j)
  BY WAddAssoc DEF IInv, TypeOK

\* Releasing takes the batch from the queue and from the consumer's view.
LEMMA ReleasedViews ==
  ASSUME IInv, ReleaseBatch
  PROVE  /\ consumer' = WAdd(consumer, n)
         /\ Occupancy' = Occupancy - n /\ CSeen' = CSeen - n
  <1>1. n \in 0..N /\ n <= CSeen /\ n <= Occupancy
    BY ViewTypes, MSize DEF IInv, ReadWindow, TypeOK
  <1>2. consumer' = WAdd(consumer, n) /\ c_cached_cons' = consumer' /\ consumer = c_cached_cons
    BY DEF ReleaseBatch, IInv, OwnIndexIsCurrent
  <1>3. Occupancy' = Occupancy - n
    BY <1>1, <1>2, WSubRelease DEF IInv, TypeOK, Occupancy, ReleaseBatch
  <1>4. CSeen' = CSeen - n
    BY <1>1, <1>2, WSubRelease DEF IInv, TypeOK, CSeen, ReleaseBatch
  <1>5. QED
    BY <1>2, <1>3, <1>4

\* release_consumed_entries removes the slots read and closes the window.
LEMMA ReleaseBatchIInv == IInv /\ ReleaseBatch => IInv'
  <1> SUFFICES ASSUME IInv, ReleaseBatch PROVE IInv'
    OBVIOUS
  <1>1. n \in 0..N /\ n <= CSeen /\ n <= Occupancy
    BY ViewTypes, MSize DEF IInv, ReadWindow, TypeOK
  <1>2. consumer' = WAdd(consumer, n) /\ c_cached_cons' = consumer' /\ consumer = c_cached_cons
    BY DEF ReleaseBatch, IInv, OwnIndexIsCurrent
  <1>3. consumer' \in Index
    <2>1. n \in 0..M /\ consumer \in Index
      BY <1>1, MSize DEF IInv, TypeOK
    <2>2. QED
      BY <1>2, <2>1, WAddCases
  <1>4. Occupancy' = Occupancy - n
    BY ReleasedViews
  <1>5. CSeen' = CSeen - n
    BY ReleasedViews
  <1>6. PSeen' = PSeen
    BY DEF PSeen, ReleaseBatch, pvars
  <1>7. TypeOK'
    BY <1>2, <1>3, MSize DEF IInv, TypeOK, ReleaseBatch, pvars
  <1>8. CachedViewsAreSafe' /\ OwnIndexIsCurrent'
    <2>1. Occupancy' <= PSeen' /\ PSeen' <= N /\ CSeen' <= Occupancy'
      BY <1>1, <1>4, <1>5, <1>6, ViewTypes, MSize
    <2>2. QED
      BY <1>2, <2>1 DEF CachedViewsAreSafe, PSeen, CSeen, OwnIndexIsCurrent, IInv,
         ReleaseBatch, pvars
  <1>9. ReadWindow'
    <2>1. 0 <= CSeen'
      BY <1>1, <1>5, ViewTypes, MSize
    <2>2. QED
      BY <2>1 DEF ReadWindow, ReleaseBatch
  <1>10. WriteWindow'
    BY DEF IInv, WriteWindow, PSeen, ReleaseBatch, pvars
  <1>11. QueuedSlotsWritten'
    <2> SUFFICES ASSUME NEW j \in 0..(Occupancy - n)-1
                 PROVE  descs[Slot(WAdd(WAdd(consumer, n), j))] \in Values
      BY <1>2, <1>4 DEF QueuedSlotsWritten, ReleaseBatch
    <2>1. j \in 0..N /\ n + j \in 0..Occupancy-1
      BY <1>1, ViewTypes, MSize
    <2>2. WAdd(WAdd(consumer, n), j) = WAdd(consumer, n + j)
      BY SMTT(30), <1>1, <2>1, ReleasedPosition
    <2>3. QED
      BY <2>1, <2>2 DEF IInv, QueuedSlotsWritten
  <1>12. QED
    BY <1>7, <1>8, <1>9, <1>10, <1>11 DEF IInv

\* A step that changes no variable keeps the invariant.
LEMMA StutterIInv == IInv /\ UNCHANGED vars => IInv'
  BY DEF IInv, TypeOK, CachedViewsAreSafe, OwnIndexIsCurrent, WriteWindow, ReadWindow,
     QueuedSlotsWritten, PSeen, CSeen, Occupancy, vars, shared, pvars, cvars

\* Every step of either end keeps the invariant.
LEMMA NextIInv == IInv /\ [Next]_vars => IInv'
  <1> SUFFICES ASSUME IInv, [Next]_vars PROVE IInv'
    OBVIOUS
  <1>1. CASE Reserve
    BY <1>1, ReserveIInv
  <1>2. CASE TopUp
    BY <1>2, TopUpIInv
  <1>3. CASE \E v \in Values : Stage(v)
    BY <1>3, StageIInv
  <1>4. CASE PublishStaged
    BY <1>4, PublishStagedIInv
  <1>5. CASE \E b \in 1..N : Open(b)
    BY <1>5, OpenIInv
  <1>6. CASE Read
    BY <1>6, ReadIInv
  <1>7. CASE ReleaseBatch
    BY <1>7, ReleaseBatchIInv
  <1>8. CASE UNCHANGED vars
    BY <1>8, StutterIInv
  <1>9. QED
    BY <1>1, <1>2, <1>3, <1>4, <1>5, <1>6, <1>7, <1>8 DEF Next

-----------------------------------------------------------------------------
(***************************************************************************)
(* Safety.                                                                 *)
(***************************************************************************)

\* The strengthened invariant holds in every reachable state of the ring.
THEOREM RingInvariant == Spec => []IInv
  <1>1. QED
    BY InitIInv, NextIInv, PTL DEF Spec

\* readable_range, writable_range, publish_written_entries and
\* release_consumed_entries keep every index, window and slot in its type.
THEOREM RingTypeOK == Spec => []TypeOK
  <1>1. IInv => TypeOK
    BY DEF IInv
  <1>2. QED
    BY <1>1, RingInvariant, PTL

\* The cached indices of readable_range and writable_range are safe
\* approximations however stale they are.
THEOREM RingCachedViewsAreSafe == Spec => []CachedViewsAreSafe
  <1>1. IInv => CachedViewsAreSafe
    BY DEF IInv
  <1>2. QED
    BY <1>1, RingInvariant, PTL

\* The descriptors written by send_in_place and refill_fill before they are
\* published never share a slot with one the consuming end may read.
THEOREM RingNoOverwrite == Spec => []NoOverwrite
  <1>1. IInv => NoOverwrite
    <2> SUFFICES ASSUME IInv, NEW j \in 0..used-1, NEW k \in 0..Occupancy-1,
                        Slot(WAdd(start, j)) = Slot(WAdd(consumer, k))
                 PROVE  FALSE
      BY DEF NoOverwrite, StagedSlots, QueuedSlots
    <2>1. reserved /\ j \in 0..N-1 /\ j < avail
      BY MSize DEF IInv, WriteWindow, TypeOK
    <2>2. /\ Occupancy + j \in 0..N-1
          /\ WAdd(start, j) = WAdd(consumer, Occupancy + j)
      BY <2>1, WindowPosition
    <2>3. k \in 0..N-1 /\ k # Occupancy + j /\ consumer \in Index
      BY ViewTypes, MSize DEF IInv, TypeOK
    <2>4. QED
      BY <2>2, <2>3, SlotInjective
  <1>2. QED
    BY <1>1, RingInvariant, PTL

-----------------------------------------------------------------------------
(***************************************************************************)
(* Ring implements FifoRing.                                               *)
(***************************************************************************)
LEMMA SeqIsFunction ==
  ASSUME NEW S, NEW s \in Seq(S)
  PROVE  s = [j \in 1..Len(s) |-> s[j]]
  OBVIOUS

\* The abstract queue: its length, and the slot each of its values is in.
LEMMA QueueFacts ==
  ASSUME IInv
  PROVE  /\ Queue \in Seq(Values)
         /\ Len(Queue) = Occupancy
         /\ DOMAIN Queue = 1..Occupancy
         /\ \A j \in 1..Occupancy : Queue[j] = descs[Slot(WAdd(consumer, j - 1))]
  <1>1. Occupancy \in Nat
    BY ViewTypes, MSize
  <1>2. \A j \in 1..Occupancy : descs[Slot(WAdd(consumer, j - 1))] \in Values
    <2> TAKE j \in 1..Occupancy
    <2>1. j - 1 \in 0..Occupancy-1
      BY <1>1
    <2>2. QED
      BY <2>1 DEF IInv, QueuedSlotsWritten
  <1>3. QED
    BY <1>1, <1>2 DEF Queue

\* A new ring is an empty queue.
LEMMA InitFifo == Init => Fifo!Init
  <1> SUFFICES ASSUME Init PROVE Fifo!Init
    OBVIOUS
  <1>1. WSub(0, 0) = 0
    BY MSize DEF WSub
  <1>2. Queue = <<>>
    BY <1>1 DEF Queue, Init, Occupancy
  <1>3. QED
    BY <1>1, <1>2 DEF Init, Fifo!Init

\* Opening a write window is a reservation of the abstract queue.
LEMMA ReserveFifo == IInv /\ Reserve => Fifo!Reserve
  <1> SUFFICES ASSUME IInv, Reserve PROVE Fifo!Reserve
    OBVIOUS
  <1>1. Queue' = Queue /\ CSeen' = CSeen
    BY DEF Queue, Occupancy, CSeen, Reserve, shared, cvars
  <1>2. PSeen' = Fifo!WritableSeen(Queue, PSeen, N)
    BY QueueFacts, WritableFacts DEF Fifo!WritableSeen, PSeen, Reserve
  <1>3. avail' = Fifo!WritableAmount(Queue, PSeen, N)
    BY <1>2, QueueFacts, WritableFacts, ViewTypes, MSize
       DEF Fifo!WritableAmount, Fifo!WritableSeen, Fifo!Min2, Reserve
  <1>4. QED
    BY <1>1, <1>2, <1>3 DEF Fifo!Reserve, Reserve, PSeen, CSeen, cvars

\* Asking for the window's size again is one of its steps too.
LEMMA TopUpFifo == IInv /\ TopUp => Fifo!TopUp
  <1> SUFFICES ASSUME IInv, TopUp PROVE Fifo!TopUp
    OBVIOUS
  <1>1. Queue' = Queue /\ CSeen' = CSeen
    BY DEF Queue, Occupancy, CSeen, TopUp, shared, cvars
  <1>2. PSeen' = Fifo!WritableSeen(Queue, PSeen, N)
    BY QueueFacts, WritableFacts DEF Fifo!WritableSeen, PSeen, TopUp
  <1>3. avail' = Fifo!WritableAmount(Queue, PSeen, N)
    BY <1>2, QueueFacts, WritableFacts, ViewTypes, MSize
       DEF Fifo!WritableAmount, Fifo!WritableSeen, Fifo!Min2, TopUp
  <1>4. Len(staged) = avail
    BY DEF IInv, WriteWindow, TopUp
  <1>5. QED
    BY <1>1, <1>2, <1>3, <1>4 DEF Fifo!TopUp, TopUp, PSeen, CSeen, cvars

\* Staging leaves the queue alone and adds a value to what is staged.
LEMMA StageFifo == ASSUME NEW v \in Values PROVE IInv /\ Stage(v) => Fifo!Stage(v)
  <1> SUFFICES ASSUME IInv, Stage(v) PROVE Fifo!Stage(v)
    OBVIOUS
  <1>1. Occupancy' = Occupancy /\ CSeen' = CSeen /\ PSeen' = PSeen
    BY DEF Occupancy, CSeen, PSeen, Stage, cvars
  <1>2. Queue' = Queue
    <2>1. ASSUME NEW j \in 1..Occupancy
          PROVE  descs'[Slot(WAdd(consumer', j - 1))] = descs[Slot(WAdd(consumer, j - 1))]
      <3>1. j - 1 \in 0..Occupancy-1 /\ j - 1 \in 0..M /\ consumer \in Index
        BY ViewTypes, MSize DEF IInv, TypeOK
      <3>2. Slot(WAdd(consumer, j - 1)) \in Slots
        BY <3>1, WAddCases, SlotType
      <3>3. Slot(WAdd(consumer, j - 1)) # Slot(WAdd(start, used))
        BY <3>1, FreshSlot DEF Stage
      <3>4. QED
        BY <3>2, <3>3 DEF Stage, IInv, TypeOK
    <2>2. QED
      BY <1>1, <2>1 DEF Queue
  <1>3. Len(staged) < avail /\ Len(Queue) + Len(staged) < N
    <2>1. used \in 0..N-1 /\ used < avail /\ used = Len(staged) /\ reserved
      BY FreshSlot DEF Stage, IInv, WriteWindow
    <2>2. Occupancy + used \in 0..N-1
      BY <2>1, WindowPosition
    <2>3. QED
      BY <2>1, <2>2, QueueFacts, MSize
  <1>4. QED
    BY <1>1, <1>2, <1>3 DEF Fifo!Stage, Stage, PSeen, CSeen, cvars

\* Publishing appends what was staged, in the order of staging.
LEMMA PublishStagedFifo == IInv /\ PublishStaged => Fifo!PublishStaged
  <1> SUFFICES ASSUME IInv, PublishStaged PROVE Fifo!PublishStaged
    OBVIOUS
  <1>1. /\ used \in 0..N /\ used = Len(staged) /\ Occupancy + used <= N /\ PSeen + used <= N
        /\ staged \in Seq(Values) /\ Occupancy \in 0..N
    BY ViewTypes, MSize DEF IInv, WriteWindow, TypeOK, PublishStaged
  <1>2. p_cached_prod' = WAdd(p_cached_prod, used) /\ producer' = p_cached_prod'
    BY PublishedIndex
  <1>3. Occupancy' = Occupancy + used /\ PSeen' = PSeen + used
    BY PublishedViews
  <1>4. Queue' = Queue \o staged
    <2>1. \A j \in 1..Occupancy+used :
            descs[Slot(WAdd(consumer, j - 1))] = (Queue \o staged)[j]
      <3> TAKE j \in 1..Occupancy+used
      <3>1. CASE j <= Occupancy
        BY <3>1, <1>1, QueueFacts
      <3>2. CASE ~(j <= Occupancy)
        <4> DEFINE k == j - Occupancy - 1
        <4>1. k \in 0..used-1 /\ k \in 0..N-1 /\ j - 1 = Occupancy + k
          BY <3>2, <1>1, MSize
        <4>2. (Queue \o staged)[j] = staged[k + 1]
          BY <3>2, <1>1, QueueFacts
        <4> HIDE DEF k
        <4>3. reserved /\ k < avail
          BY <4>1, <1>1, MSize DEF PublishStaged, IInv, WriteWindow, TypeOK
        <4>4. WAdd(start, k) = WAdd(consumer, j - 1)
          BY SMTT(30), <4>1, <4>3, WindowPosition
        <4>5. descs[Slot(WAdd(start, k))] = staged[k + 1]
          BY <4>1 DEF IInv, WriteWindow
        <4>6. QED
          BY <4>2, <4>4, <4>5
      <3>3. QED
        BY Zenon, <3>1, <3>2
    <2>2. Queue' = [j \in 1..Occupancy+used |-> descs[Slot(WAdd(consumer, j - 1))]]
      BY <1>3 DEF Queue, PublishStaged
    <2>3. /\ Queue \o staged \in Seq(Values)
          /\ Len(Queue \o staged) = Occupancy + used
      BY Zenon, <1>1, QueueFacts, ConcatProperties
    <2>4. Queue \o staged = [j \in 1..Occupancy+used |-> (Queue \o staged)[j]]
      BY Zenon, <2>3, SeqIsFunction
    <2>5. QED
      BY Zenon, <2>1, <2>2, <2>4
  <1>5. CSeen' = CSeen
    BY DEF CSeen, PublishStaged, cvars
  <1>6. QED
    BY SMTT(30), <1>1, <1>3, <1>4, <1>5 DEF Fifo!PublishStaged, PublishStaged, PSeen, CSeen, cvars

\* A read window is opened at the front of the queue.
LEMMA OpenFifo == ASSUME NEW b \in 1..N PROVE IInv /\ Open(b) => Fifo!Open(b)
  <1> SUFFICES ASSUME IInv, Open(b) PROVE Fifo!Open(b)
    OBVIOUS
  <1>1. Queue' = Queue /\ PSeen' = PSeen
    BY SMTT(30) DEF Queue, Occupancy, PSeen, Open, shared, pvars
  <1>2. CSeen' = Fifo!ReadableSeen(Queue, CSeen)
    BY QueueFacts, ReadableFacts DEF Fifo!ReadableSeen, CSeen, Open
  <1>3. n' = Fifo!ReadableAmount(Queue, CSeen, b)
    BY <1>2, QueueFacts, ReadableFacts
       DEF Fifo!ReadableAmount, Fifo!ReadableSeen, Fifo!Min2, ReadableRangeAmount, Min2, Open
  <1>4. QED
    BY <1>1, <1>2, <1>3 DEF Fifo!Open, Open, PSeen, CSeen, pvars

\* A read returns the values of the queue in their order.
LEMMA ReadFifo == IInv /\ Read => Fifo!Read
  <1> SUFFICES ASSUME IInv, Read PROVE Fifo!Read
    OBVIOUS
  <1>1. Queue' = Queue /\ PSeen' = PSeen /\ CSeen' = CSeen
    BY DEF Queue, Occupancy, PSeen, CSeen, Read, shared, pvars
  <1>2. first = consumer /\ Len(batch) \in 0..Occupancy-1
    BY NextRead DEF Read
  <1>3. Len(batch) + 1 \in 1..Occupancy /\ (Len(batch) + 1) - 1 = Len(batch)
    BY <1>2, ViewTypes, MSize
  <1>4. Queue[Len(batch) + 1] = descs[Slot(WAdd(first, Len(batch)))]
    BY <1>2, <1>3, QueueFacts
  <1>5. Len(batch) < Len(Queue)
    BY <1>2, QueueFacts, ViewTypes, MSize
  <1>6. QED
    BY <1>1, <1>4, <1>5 DEF Fifo!Read, Read, PSeen, CSeen, pvars

\* Releasing removes from the front what was read.
LEMMA ReleaseBatchFifo == IInv /\ ReleaseBatch => Fifo!ReleaseBatch
  <1> SUFFICES ASSUME IInv, ReleaseBatch PROVE Fifo!ReleaseBatch
    OBVIOUS
  <1>1. n \in 1..N /\ n <= Occupancy /\ Len(batch) = n /\ batch \in Seq(Values)
        /\ first = consumer /\ Occupancy \in 0..N
    BY ViewTypes, MSize DEF IInv, ReadWindow, TypeOK, ReleaseBatch, OwnIndexIsCurrent
  <1>2. /\ consumer' = WAdd(consumer, n)
        /\ Occupancy' = Occupancy - n /\ CSeen' = CSeen - n
    BY ReleasedViews
  <1>3. Queue' = Fifo!DropFirst(Queue, n)
    <2>1. Queue' = [j \in 1..Occupancy-n |-> descs[Slot(WAdd(WAdd(consumer, n), j - 1))]]
      BY <1>2 DEF Queue, ReleaseBatch
    <2>2. \A j \in 1..Occupancy-n :
            descs[Slot(WAdd(WAdd(consumer, n), j - 1))] = Queue[n + j]
      <3> TAKE j \in 1..Occupancy-n
      <3>1. j - 1 \in 0..N /\ n \in 0..N /\ n + j \in 1..Occupancy /\ n + (j - 1) = (n + j) - 1
        BY <1>1, MSize
      <3>2. WAdd(WAdd(consumer, n), j - 1) = WAdd(consumer, n + (j - 1))
        BY <3>1, ReleasedPosition
      <3>3. QED
        BY <3>1, <3>2, QueueFacts
    <2>3. SubSeq(Queue, n + 1, Len(Queue)) = [j \in 1..Occupancy-n |-> Queue[n + j]]
      <3>1. SubSeq(Queue, n + 1, Occupancy)
            = [j \in 1..(Occupancy - (n + 1) + 1) |-> Queue[j + (n + 1) - 1]]
        BY <1>1, QueueFacts
      <3>2. Occupancy - (n + 1) + 1 = Occupancy - n
        BY <1>1, MSize
      <3>3. \A j \in 1..Occupancy-n : Queue[j + (n + 1) - 1] = Queue[n + j]
        BY <1>1, MSize
      <3>4. QED
        BY <3>1, <3>2, <3>3, QueueFacts
    <2>4. QED
      BY <2>1, <2>2, <2>3 DEF Fifo!DropFirst
  <1>4. delivered' = SubSeq(Queue, 1, n)
    <2>1. \A j \in 1..n : batch[j] = Queue[j]
      <3> TAKE j \in 1..n
      <3>1. j - 1 \in 0..Len(batch)-1 /\ (j - 1) + 1 = j /\ j \in 1..Occupancy
        BY <1>1, MSize
      <3>2. batch[j] = descs[Slot(WAdd(first, j - 1))]
        BY <3>1 DEF IInv, ReadWindow
      <3>3. QED
        BY <1>1, <3>1, <3>2, QueueFacts
    <2>2. batch = [j \in 1..n |-> batch[j]]
      BY <1>1
    <2>3. SubSeq(Queue, 1, n) = [j \in 1..n |-> Queue[j]]
      BY <1>1, QueueFacts
    <2>4. QED
      BY <2>1, <2>2, <2>3 DEF ReleaseBatch
  <1>5. PSeen' = PSeen
    BY DEF PSeen, ReleaseBatch, pvars
  <1>6. n > 0 /\ Len(batch) = n /\ n <= Len(Queue)
    BY <1>1, QueueFacts, MSize
  <1>7. QED
    BY SMTT(30), <1>2, <1>3, <1>4, <1>5, <1>6
       DEF Fifo!ReleaseBatch, ReleaseBatch, PSeen, CSeen, pvars

\* The ring of ring.hpp, used by its clients as in this code, implements a
\* FIFO of at most N entries: for every capacity, and across the wrap-around
\* of the indices.
THEOREM RingImplementsFifo == Spec => FifoSpec
  <1>1. IInv /\ [Next]_vars => [Fifo!Next]_(Fifo!vars)
    <2> SUFFICES ASSUME IInv, [Next]_vars PROVE [Fifo!Next]_(Fifo!vars)
      OBVIOUS
    <2>1. CASE Reserve
      BY <2>1, ReserveFifo DEF Fifo!Next
    <2>2. CASE TopUp
      BY <2>2, TopUpFifo DEF Fifo!Next
    <2>3. CASE \E v \in Values : Stage(v)
      BY <2>3, StageFifo DEF Fifo!Next
    <2>4. CASE PublishStaged
      BY <2>4, PublishStagedFifo DEF Fifo!Next
    <2>5. CASE \E b \in 1..N : Open(b)
      BY <2>5, OpenFifo DEF Fifo!Next
    <2>6. CASE Read
      BY <2>6, ReadFifo DEF Fifo!Next
    <2>7. CASE ReleaseBatch
      BY <2>7, ReleaseBatchFifo DEF Fifo!Next
    <2>8. CASE UNCHANGED vars
      BY <2>8 DEF Fifo!vars, vars, shared, pvars, cvars, Queue, Occupancy
    <2>9. QED
      BY <2>1, <2>2, <2>3, <2>4, <2>5, <2>6, <2>7, <2>8 DEF Next
  <1>2. QED
    BY <1>1, InitFifo, RingInvariant, PTL DEF Spec, FifoSpec, Fifo!Spec
=============================================================================
