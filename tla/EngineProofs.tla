---------------------------- MODULE EngineProofs ----------------------------
(***************************************************************************)
(* The engine's safety properties for any number of frames, ring size,     *)
(* batch size and set of offsets, and the proof that it implements         *)
(* FrameOwnership: first the facts about the allocator, the rings and the  *)
(* frames that the steps share, then the steps that move no frame, then    *)
(* those that do.                                                          *)
(***************************************************************************)
EXTENDS Engine, FiniteSetTheorems, SequenceTheorems, TLAPS

\* Most leaves need no arithmetic: Zenon proves them, and the others name SMT.
USE ZenonT(30)

-----------------------------------------------------------------------------
(***************************************************************************)
(* What the allocator's operators and the sequence operators of the rings  *)
(* do to the frames a sequence stands for.                                 *)
(***************************************************************************)

\* Membership in the frames of a sequence, by position.
LEMMA FrameAt ==
  ASSUME NEW s, NEW j \in 1..Len(s)
  PROVE  s[j].frame \in FramesOf(s)
  BY DEF FramesOf

\* The type and the length of a concatenation.
LEMMA ConcatType ==
  ASSUME NEW S, NEW s \in Seq(S), NEW t \in Seq(S)
  PROVE  s \o t \in Seq(S) /\ Len(s \o t) = Len(s) + Len(t)
  BY ConcatProperties

\* All frames of a sequence, by position.
LEMMA FramesWithin ==
  ASSUME NEW s, NEW T, \A j \in 1..Len(s) : s[j].frame \in T
  PROVE  FramesOf(s) \subseteq T
  BY DEF FramesOf

\* An empty sequence has no frames.
LEMMA NoFrames == FramesOf(<<>>) = {} /\ Distinct(<<>>)
  BY SMTT(30) DEF FramesOf, Distinct

\* Appending an address adds its frame.
LEMMA FramesOfAppend ==
  ASSUME NEW S, NEW s \in Seq(S), NEW a \in S
  PROVE  /\ FramesOf(Append(s, a)) = FramesOf(s) \cup {a.frame}
         /\ Distinct(s) /\ a.frame \notin FramesOf(s) => Distinct(Append(s, a))
  <1> DEFINE t == Append(s, a)
  <1>1. /\ Len(s) \in Nat /\ Len(t) = Len(s) + 1
        /\ \A j \in 1..Len(s) : t[j] = s[j]
        /\ t[Len(s) + 1] = a
    BY SMTT(30)
  <1> HIDE DEF t
  <1>2. FramesOf(t) = FramesOf(s) \cup {a.frame}
    <2>1. ASSUME NEW j \in 1..Len(t) PROVE t[j].frame \in FramesOf(s) \cup {a.frame}
      <3>1. CASE j = Len(s) + 1
        BY <3>1, <1>1
      <3>2. CASE j # Len(s) + 1
        BY SMTT(30), <3>2, <1>1, FrameAt
      <3>3. QED
        BY <3>1, <3>2
    <2>2. ASSUME NEW j \in 1..Len(s) PROVE s[j].frame \in FramesOf(t)
      BY SMTT(30), <1>1 DEF FramesOf
    <2>3. a.frame \in FramesOf(t)
      BY SMTT(30), <1>1 DEF FramesOf
    <2>4. QED
      BY <2>1, <2>2, <2>3 DEF FramesOf
  <1>3. ASSUME Distinct(s), a.frame \notin FramesOf(s) PROVE Distinct(t)
    <2> SUFFICES ASSUME NEW j \in 1..Len(t), NEW k \in 1..Len(t), t[j].frame = t[k].frame
                 PROVE  j = k
      BY DEF Distinct
    <2>1. CASE j \in 1..Len(s) /\ k \in 1..Len(s)
      BY <2>1, <1>1, <1>3 DEF Distinct
    <2>2. CASE j \in 1..Len(s) /\ k = Len(s) + 1
      BY <2>2, <1>1, <1>3, FrameAt
    <2>3. CASE j = Len(s) + 1 /\ k \in 1..Len(s)
      BY <2>3, <1>1, <1>3, FrameAt
    <2>4. CASE j = Len(s) + 1 /\ k = Len(s) + 1
      BY <2>4
    <2>5. QED
      BY SMTT(30), <2>1, <2>2, <2>3, <2>4, <1>1
  <1>4. QED
    BY <1>2, <1>3 DEF t

\* Concatenation joins the frames of two sequences.
LEMMA FramesOfConcat ==
  ASSUME NEW S, NEW s \in Seq(S), NEW t \in Seq(S)
  PROVE  /\ FramesOf(s \o t) = FramesOf(s) \cup FramesOf(t)
         /\ Distinct(s) /\ Distinct(t) /\ FramesOf(s) \cap FramesOf(t) = {} => Distinct(s \o t)
  <1> DEFINE u == s \o t
  <1>1. /\ Len(s) \in Nat /\ Len(t) \in Nat /\ Len(u) = Len(s) + Len(t)
        /\ \A j \in 1..Len(s) : u[j] = s[j]
        /\ \A j \in 1..Len(u) : j > Len(s) => u[j] = t[j - Len(s)] /\ j - Len(s) \in 1..Len(t)
        /\ \A j \in 1..Len(t) : u[Len(s) + j] = t[j] /\ Len(s) + j \in 1..Len(u)
    BY SMTT(30), ConcatProperties
  <1> HIDE DEF u
  <1>2. FramesOf(u) = FramesOf(s) \cup FramesOf(t)
    <2>1. ASSUME NEW j \in 1..Len(u) PROVE u[j].frame \in FramesOf(s) \cup FramesOf(t)
      <3>1. CASE j <= Len(s)
        BY SMTT(30), <3>1, <1>1, FrameAt
      <3>2. CASE j > Len(s)
        BY <3>2, <1>1, FrameAt
      <3>3. QED
        BY SMTT(30), <3>1, <3>2, <1>1
    <2>2. ASSUME NEW j \in 1..Len(s) PROVE s[j].frame \in FramesOf(u)
      BY SMTT(30), <1>1 DEF FramesOf
    <2>3. ASSUME NEW j \in 1..Len(t) PROVE t[j].frame \in FramesOf(u)
      <3>1. u[Len(s) + j] = t[j] /\ Len(s) + j \in 1..Len(u)
        BY <1>1
      <3>2. QED
        BY <3>1, FrameAt
    <2>4. QED
      BY <2>1, <2>2, <2>3 DEF FramesOf
  <1>3. ASSUME Distinct(s), Distinct(t), FramesOf(s) \cap FramesOf(t) = {} PROVE Distinct(u)
    <2> SUFFICES ASSUME NEW j \in 1..Len(u), NEW k \in 1..Len(u), u[j].frame = u[k].frame
                 PROVE  j = k
      BY DEF Distinct
    <2>a. ASSUME NEW m \in 1..Len(u), m <= Len(s) PROVE u[m].frame \in FramesOf(s)
      BY SMTT(30), <2>a, <1>1, FrameAt
    <2>b. ASSUME NEW m \in 1..Len(u), m > Len(s) PROVE u[m].frame \in FramesOf(t)
      BY <2>b, <1>1, FrameAt
    <2>1. CASE j <= Len(s) /\ k <= Len(s)
      BY SMTT(30), <2>1, <1>1, <1>3 DEF Distinct
    <2>2. CASE j <= Len(s) /\ k > Len(s)
      BY <2>2, <2>a, <2>b, <1>3
    <2>3. CASE j > Len(s) /\ k <= Len(s)
      BY <2>3, <2>a, <2>b, <1>3
    <2>4. CASE j > Len(s) /\ k > Len(s)
      <3>1. /\ j - Len(s) \in 1..Len(t) /\ k - Len(s) \in 1..Len(t)
            /\ u[j] = t[j - Len(s)] /\ u[k] = t[k - Len(s)]
        BY <2>4, <1>1
      <3>2. j - Len(s) = k - Len(s)
        BY <3>1, <1>3 DEF Distinct
      <3>3. QED
        BY SMTT(30), <3>2, <1>1
    <2>5. QED
      BY SMTT(30), <2>1, <2>2, <2>3, <2>4, <1>1
  <1>4. QED
    BY <1>2, <1>3 DEF u

\* The two parts of a sequence, by position.
LEMMA CutAt ==
  ASSUME NEW S, NEW s \in Seq(S), NEW k \in 0..Len(s)
  PROVE  /\ Len(s) \in Nat /\ k \in Nat /\ k <= Len(s)
         /\ SubSeq(s, 1, k) \in Seq(S) /\ Len(SubSeq(s, 1, k)) = k
         /\ \A j \in 1..k : SubSeq(s, 1, k)[j] = s[j]
         /\ DropFirst(s, k) \in Seq(S) /\ Len(DropFirst(s, k)) = Len(s) - k
         /\ \A j \in 1..Len(s) - k : DropFirst(s, k)[j] = s[k + j]
  <1>1. Len(s) \in Nat /\ k \in Nat /\ k <= Len(s)
    BY SMTT(30)
  <1>2. /\ SubSeq(s, 1, k) \in Seq(S) /\ Len(SubSeq(s, 1, k)) = k
        /\ \A j \in 1..k : SubSeq(s, 1, k)[j] = s[j]
    BY SMTT(30), <1>1, SubSeqProperties
  <1>3. /\ DropFirst(s, k) \in Seq(S) /\ Len(DropFirst(s, k)) = Len(s) - k
        /\ \A j \in 1..Len(s) - k : DropFirst(s, k)[j] = s[k + j]
    BY SMTT(30), <1>1, SubSeqProperties DEF DropFirst
  <1>4. QED
    BY <1>1, <1>2, <1>3

\* Cutting a sequence in two distributes its frames.
LEMMA FramesOfCut ==
  ASSUME NEW S, NEW s \in Seq(S), NEW k \in 0..Len(s)
  PROVE  /\ SubSeq(s, 1, k) \in Seq(S) /\ Len(SubSeq(s, 1, k)) = k
         /\ DropFirst(s, k) \in Seq(S) /\ Len(DropFirst(s, k)) = Len(s) - k
         /\ FramesOf(s) = FramesOf(SubSeq(s, 1, k)) \cup FramesOf(DropFirst(s, k))
         /\ Distinct(s) => /\ Distinct(SubSeq(s, 1, k)) /\ Distinct(DropFirst(s, k))
                           /\ FramesOf(SubSeq(s, 1, k)) \cap FramesOf(DropFirst(s, k)) = {}
  <1> DEFINE a == SubSeq(s, 1, k)
             b == DropFirst(s, k)
  <1>1. /\ Len(s) \in Nat /\ k \in Nat /\ k <= Len(s)
        /\ a \in Seq(S) /\ Len(a) = k
        /\ \A j \in 1..k : a[j] = s[j]
    BY CutAt
  <1>2. /\ b \in Seq(S) /\ Len(b) = Len(s) - k
        /\ \A j \in 1..Len(b) : b[j] = s[k + j]
    BY SMTT(30), CutAt
  <1> HIDE DEF a, b
  <1>3. FramesOf(s) = FramesOf(a) \cup FramesOf(b)
    <2>1. ASSUME NEW j \in 1..Len(s) PROVE s[j].frame \in FramesOf(a) \cup FramesOf(b)
      <3>1. CASE j <= k
        BY SMTT(30), <3>1, <1>1, FrameAt
      <3>2. CASE j > k
        <4>1. j - k \in 1..Len(b) /\ b[j - k] = s[k + (j - k)] /\ k + (j - k) = j
          BY SMTT(30), <3>2, <1>1, <1>2
        <4>2. QED
          BY <4>1, FrameAt
      <3>3. QED
        BY SMTT(30), <3>1, <3>2, <1>1
    <2>2. ASSUME NEW j \in 1..Len(a) PROVE a[j].frame \in FramesOf(s)
      BY SMTT(30), <1>1, FrameAt
    <2>3. ASSUME NEW j \in 1..Len(b) PROVE b[j].frame \in FramesOf(s)
      <3>1. k + j \in 1..Len(s) /\ b[j] = s[k + j]
        BY SMTT(30), <1>1, <1>2
      <3>2. QED
        BY <3>1, FrameAt
    <2>4. QED
      BY <2>1, <2>2, <2>3 DEF FramesOf
  <1>4. ASSUME Distinct(s)
        PROVE  Distinct(a) /\ Distinct(b) /\ FramesOf(a) \cap FramesOf(b) = {}
    <2>1. Distinct(a)
      BY SMTT(30), <1>1, <1>4 DEF Distinct
    <2>2. Distinct(b)
      <3> SUFFICES ASSUME NEW j \in 1..Len(b), NEW l \in 1..Len(b), b[j].frame = b[l].frame
                   PROVE  j = l
        BY DEF Distinct
      <3>1. k + j \in 1..Len(s) /\ k + l \in 1..Len(s) /\ s[k + j].frame = s[k + l].frame
        BY SMTT(30), <1>1, <1>2
      <3>2. k + j = k + l
        BY <3>1, <1>4 DEF Distinct
      <3>3. QED
        BY SMTT(30), <3>2, <1>1, <1>2
    <2>3. ASSUME NEW j \in 1..Len(a), NEW l \in 1..Len(b) PROVE a[j].frame # b[l].frame
      <3>1. j \in 1..Len(s) /\ k + l \in 1..Len(s) /\ j # k + l
            /\ a[j] = s[j] /\ b[l] = s[k + l]
        BY SMTT(30), <1>1, <1>2
      <3>2. QED
        BY <3>1, <1>4 DEF Distinct
    <2>4. QED
      BY <2>1, <2>2, <2>3 DEF FramesOf
  <1>5. QED
    BY <1>1, <1>2, <1>3, <1>4 DEF a, b

\* Taking the first entry off, as a cut.
LEMMA TailIsCut ==
  ASSUME NEW S, NEW s \in Seq(S), s # <<>>
  PROVE  /\ 1 \in 0..Len(s) /\ Tail(s) = DropFirst(s, 1) /\ Head(s) = s[1] /\ Head(s) \in S
         /\ FramesOf(SubSeq(s, 1, 1)) = {Head(s).frame}
  <1>1. Len(s) \in Nat /\ Len(s) >= 1
    BY SMTT(30)
  <1>2. Tail(s) = DropFirst(s, 1)
    BY SMTT(30), <1>1, TailIsSubSeq DEF DropFirst
  <1>3. Len(SubSeq(s, 1, 1)) = 1 /\ SubSeq(s, 1, 1)[1] = s[1]
    BY SMTT(30), <1>1, SubSeqProperties
  <1>4. FramesOf(SubSeq(s, 1, 1)) = {s[1].frame}
    BY SMTT(30), <1>3 DEF FramesOf
  <1>5. QED
    BY SMTT(30), <1>1, <1>2, <1>4

\* Two sequences with the same frames at the same positions stand for the
\* same frames.
LEMMA SameFrames ==
  ASSUME NEW s, NEW t, Len(s) = Len(t), \A j \in 1..Len(s) : s[j].frame = t[j].frame
  PROVE  FramesOf(s) = FramesOf(t) /\ (Distinct(s) <=> Distinct(t))
  BY DEF FramesOf, Distinct

\* Only frame bases on either side, only frame bases in the whole.
LEMMA BasesConcat ==
  ASSUME NEW S, NEW s \in Seq(S), NEW t \in Seq(S), BasesOnly(s), BasesOnly(t)
  PROVE  BasesOnly(s \o t)
  <1> SUFFICES ASSUME NEW j \in 1..Len(s \o t) PROVE (s \o t)[j].off = 0
    BY DEF BasesOnly
  <1>1. Len(s) \in Nat /\ Len(t) \in Nat /\ j \in Nat /\ j >= 1 /\ j <= Len(s) + Len(t)
    BY SMTT(30), ConcatType
  <1>2. CASE j <= Len(s)
    <2>1. j \in 1..Len(s) /\ (s \o t)[j] = s[j]
      BY SMTT(30), <1>1, <1>2, ConcatProperties
    <2>2. QED
      BY <2>1 DEF BasesOnly
  <1>3. CASE j > Len(s)
    <2>1. j - Len(s) \in 1..Len(t) /\ (s \o t)[j] = t[j - Len(s)]
      BY SMTT(30), <1>1, <1>3, ConcatProperties
    <2>2. QED
      BY <2>1 DEF BasesOnly
  <1>4. QED
    BY SMTT(30), <1>1, <1>2, <1>3

\* free() gives every frame of a sequence back, as its base address.
LEMMA FreeAllFrames ==
  ASSUME NEW O, 0 \in O, NEW s \in Seq(Addrs(O)), NEW t \in Seq(Addrs(O))
  PROVE  /\ FreeAll(s, t) \in Seq(Addrs(O))
         /\ Len(FreeAll(s, t)) = Len(s) + Len(t)
         /\ FramesOf(FreeAll(s, t)) = FramesOf(s) \cup FramesOf(t)
         /\ Distinct(s) /\ Distinct(t) /\ FramesOf(s) \cap FramesOf(t) = {}
              => Distinct(FreeAll(s, t))
         /\ BasesOnly(s) => BasesOnly(FreeAll(s, t))
  <1> DEFINE b == [j \in 1..Len(t) |-> FrameBase(t[j])]
  <1>1. \A j \in 1..Len(t) : /\ FrameBase(t[j]) \in Addrs(O)
                             /\ FrameBase(t[j]).frame = t[j].frame
                             /\ FrameBase(t[j]).off = 0
    <2> TAKE j \in 1..Len(t)
    <2>1. t[j] \in Addrs(O)
      BY SMTT(30)
    <2>2. t[j].frame \in Frames
      BY <2>1 DEF Addrs
    <2>3. QED
      BY <2>2 DEF FrameBase, Addr, Addrs
  <1>2. b \in Seq(Addrs(O)) /\ Len(b) = Len(t) /\ \A j \in 1..Len(t) : b[j] = FrameBase(t[j])
    BY SMTT(30), <1>1
  <1> HIDE DEF b
  <1>3. FramesOf(b) = FramesOf(t) /\ (Distinct(b) <=> Distinct(t))
    BY <1>1, <1>2, SameFrames
  <1>4. FreeAll(s, t) = s \o b
    BY DEF FreeAll, b
  <1>5. /\ s \o b \in Seq(Addrs(O)) /\ Len(s \o b) = Len(s) + Len(t)
        /\ FramesOf(s \o b) = FramesOf(s) \cup FramesOf(t)
        /\ Distinct(s) /\ Distinct(t) /\ FramesOf(s) \cap FramesOf(t) = {} => Distinct(s \o b)
    <2>a. b \in Seq(Addrs(O)) /\ Len(b) = Len(t)
      BY <1>2
    <2>1. s \o b \in Seq(Addrs(O)) /\ Len(s \o b) = Len(s) + Len(t)
      BY SMTT(30), <2>a, ConcatType
    <2>2. /\ FramesOf(s \o b) = FramesOf(s) \cup FramesOf(b)
          /\ Distinct(s) /\ Distinct(b) /\ FramesOf(s) \cap FramesOf(b) = {} => Distinct(s \o b)
      BY <1>2, FramesOfConcat
    <2>3. QED
      BY <2>1, <2>2, <1>3
  <1>6. BasesOnly(s) => BasesOnly(s \o b)
    <2>1. BasesOnly(b)
      BY <1>1, <1>2 DEF BasesOnly
    <2>2. QED
      BY <2>1, <1>2, BasesConcat
  <1>7. QED
    BY <1>4, <1>5, <1>6

\* alloc() moves frames from the stack to the caller.
LEMMA AllocKFrames ==
  ASSUME NEW S, NEW s \in Seq(S), NEW k \in 0..Len(s)
  PROVE  /\ AllocK(s, k) \in Seq(S) /\ Len(AllocK(s, k)) = k
         /\ AfterAllocK(s, k) \in Seq(S) /\ Len(AfterAllocK(s, k)) = Len(s) - k
         /\ FramesOf(s) = FramesOf(AfterAllocK(s, k)) \cup FramesOf(AllocK(s, k))
         /\ Distinct(s) => /\ Distinct(AllocK(s, k)) /\ Distinct(AfterAllocK(s, k))
                           /\ FramesOf(AfterAllocK(s, k)) \cap FramesOf(AllocK(s, k)) = {}
         /\ BasesOnly(s) => BasesOnly(AllocK(s, k)) /\ BasesOnly(AfterAllocK(s, k))
  <1> DEFINE r == Len(s) - k
             a == SubSeq(s, 1, r)
             b == DropFirst(s, r)
             c == AllocK(s, k)
  <1>1. Len(s) \in Nat /\ r \in 0..Len(s) /\ k \in Nat /\ Len(s) - r = k /\ k <= Len(s)
    BY SMTT(30)
  <1>2. /\ a \in Seq(S) /\ Len(a) = r /\ b \in Seq(S) /\ Len(b) = k
        /\ FramesOf(s) = FramesOf(a) \cup FramesOf(b)
        /\ Distinct(s) => Distinct(a) /\ Distinct(b) /\ FramesOf(a) \cap FramesOf(b) = {}
    <2> HIDE DEF r
    <2>1. r \in 0..Len(s)
      BY <1>1
    <2>2. /\ a \in Seq(S) /\ Len(a) = r /\ b \in Seq(S) /\ Len(b) = Len(s) - r
          /\ FramesOf(s) = FramesOf(a) \cup FramesOf(b)
          /\ Distinct(s) => Distinct(a) /\ Distinct(b) /\ FramesOf(a) \cap FramesOf(b) = {}
      BY SMTT(30), <2>1, FramesOfCut
    <2> HIDE DEF a, b
    <2>3. QED
      BY <1>1, <2>2
  <1>3. /\ \A j \in 1..k : b[j] = s[r + j]
        /\ \A j \in 1..r : a[j] = s[j]
    <2> HIDE DEF r
    <2>1. r \in 0..Len(s)
      BY <1>1
    <2>2. /\ \A j \in 1..Len(s) - r : b[j] = s[r + j]
          /\ \A j \in 1..r : a[j] = s[j]
      BY <2>1, CutAt
    <2> HIDE DEF a, b
    <2>3. QED
      BY <1>1, <2>2
  <1>5. c \in Seq(S) /\ Len(c) = k /\ \A j \in 1..k : c[j] = s[Len(s) + 1 - j]
    BY SMTT(30), <1>1 DEF AllocK
  <1> HIDE DEF r, a, b, c
  <1>6. \A j \in 1..k : k + 1 - j \in 1..k /\ c[j] = b[k + 1 - j] /\ b[j] = c[k + 1 - j]
    <2> TAKE j \in 1..k
    <2>1. k + 1 - j \in 1..k /\ r + (k + 1 - j) = Len(s) + 1 - j /\ r + j = Len(s) + 1 - (k + 1 - j)
      BY SMTT(30), <1>1 DEF r
    <2>2. QED
      BY <2>1, <1>3, <1>5
  <1>7. FramesOf(c) = FramesOf(b)
    <2>1. ASSUME NEW j \in 1..k PROVE c[j].frame \in FramesOf(b) /\ b[j].frame \in FramesOf(c)
      <3>1. k + 1 - j \in 1..Len(b) /\ k + 1 - j \in 1..Len(c)
        BY <1>2, <1>5, <1>6
      <3>2. b[k + 1 - j].frame \in FramesOf(b) /\ c[k + 1 - j].frame \in FramesOf(c)
        BY <3>1, FrameAt
      <3>3. QED
        BY <3>2, <1>6
    <2>2. FramesOf(c) \subseteq FramesOf(b) /\ FramesOf(b) \subseteq FramesOf(c)
      BY <2>1, <1>2, <1>5, FramesWithin
    <2>3. QED
      BY <2>2
  <1>8. ASSUME Distinct(b) PROVE Distinct(c)
    <2> SUFFICES ASSUME NEW j \in 1..k, NEW l \in 1..k, c[j].frame = c[l].frame PROVE j = l
      BY <1>5 DEF Distinct
    <2>1. k + 1 - j \in 1..k /\ k + 1 - l \in 1..k /\ b[k + 1 - j].frame = b[k + 1 - l].frame
      BY <1>6
    <2>2. k + 1 - j = k + 1 - l
      BY <2>1, <1>8, <1>2 DEF Distinct
    <2>3. QED
      BY SMTT(30), <2>2, <1>1
  <1>9. a = AfterAllocK(s, k)
    BY DEF AfterAllocK, a, r
  <1>10. ASSUME BasesOnly(s) PROVE BasesOnly(c) /\ BasesOnly(a)
    <2>1. \A j \in 1..k : Len(s) + 1 - j \in 1..Len(s)
      BY SMTT(30), <1>1
    <2>2. \A j \in 1..k : c[j].off = 0
      BY <2>1, <1>5, <1>10 DEF BasesOnly
    <2>3. \A j \in 1..r : a[j].off = 0
      BY SMTT(30), <1>1, <1>3, <1>10 DEF BasesOnly
    <2>4. QED
      BY <2>2, <2>3, <1>2, <1>5 DEF BasesOnly
  <1>11. QED
    BY <1>1, <1>2, <1>5, <1>7, <1>8, <1>9, <1>10 DEF c, r

\* A sequence without repeated frames is no longer than there are frames.
LEMMA DistinctIsShort ==
  ASSUME NEW s, Len(s) \in Nat, FramesOf(s) \subseteq Frames, Distinct(s)
  PROVE  Len(s) <= NumFrames
  <1> DEFINE f == [j \in 1..Len(s) |-> s[j].frame]
  <1>1. NumFrames \in Nat /\ NumFrames > 0
    BY FramesAssumption
  <1>2. f \in [1..Len(s) -> Frames]
    BY DEF FramesOf
  <1>3. f \in Injection(1..Len(s), Frames)
    BY <1>2 DEF Injection, IsInjective, Distinct
  <1>4. IsFiniteSet(Frames) /\ Cardinality(Frames) = NumFrames
    BY SMTT(30), <1>1, FS_Interval DEF Frames
  <1>5. Cardinality(1..Len(s)) <= NumFrames
    BY <1>3, <1>4, FS_Injection
  <1>6. QED
    BY SMTT(30), <1>5, <1>1, FS_Interval

\* The constructor's stack holds every frame, once, by its base.
LEMMA AllFreeFrames ==
  /\ Len(AllFree) = NumFrames
  /\ \A O : 0 \in O => AllFree \in Seq(Addrs(O))
  /\ FramesOf(AllFree) = Frames
  /\ Distinct(AllFree)
  /\ BasesOnly(AllFree)
  <1>1. NumFrames \in Nat /\ NumFrames > 0
    BY FramesAssumption
  <1>2. \A j \in 1..NumFrames : /\ j - 1 \in Frames
                                /\ Addr(j - 1, 0).frame = j - 1 /\ Addr(j - 1, 0).off = 0
    BY SMTT(30), <1>1 DEF Frames, Addr
  <1>3. Len(AllFree) = NumFrames /\ \A j \in 1..NumFrames : AllFree[j] = Addr(j - 1, 0)
    BY SMTT(30), <1>1 DEF AllFree
  <1>4. ASSUME NEW O, 0 \in O PROVE AllFree \in Seq(Addrs(O))
    <2>1. \A j \in 1..NumFrames : Addr(j - 1, 0) \in Addrs(O)
      BY <1>2, <1>4 DEF Addrs, Addr
    <2>2. QED
      BY SMTT(30), <2>1, <1>1 DEF AllFree
  <1>5. FramesOf(AllFree) = Frames
    <2>1. \A j \in 1..NumFrames : AllFree[j].frame = j - 1
      BY <1>2, <1>3
    <2>2. \A f \in Frames : f + 1 \in 1..NumFrames /\ AllFree[f + 1].frame = f
      BY SMTT(30), <2>1, <1>1 DEF Frames
    <2>3. QED
      BY SMTT(30), <2>1, <2>2, <1>2, <1>3 DEF FramesOf
  <1>6. Distinct(AllFree)
    <2>1. ASSUME NEW j \in 1..NumFrames, NEW k \in 1..NumFrames, AllFree[j].frame = AllFree[k].frame
          PROVE  j = k
      <3>1. j - 1 = k - 1
        BY <2>1, <1>2, <1>3
      <3>2. QED
        BY SMTT(30), <3>1
    <2>2. QED
      BY <2>1, <1>3 DEF Distinct
  <1>7. BasesOnly(AllFree)
    BY <1>2, <1>3 DEF BasesOnly
  <1>8. QED
    BY <1>3, <1>4, <1>5, <1>6, <1>7

-----------------------------------------------------------------------------
(***************************************************************************)
(* The engine's rings and frames.                                          *)
(***************************************************************************)

\* The addresses that circulate.
A == Addrs(Offsets)

\* What the proofs need to know of the constants.
LEMMA Constants ==
  /\ N \in Nat /\ N >= 2
  /\ Batch \in Nat /\ Batch >= 1 /\ Batch <= N
  /\ NumFrames \in Nat /\ Capacity \in Nat /\ NumFrames <= Capacity
  /\ 0 \in Offsets
  BY SMTT(30), NAssumption, ReceiverAssumption, FramesAssumption DEF Offsets

(***************************************************************************)
(* Rings.                                                                  *)
(***************************************************************************)

\* The fields of a ring.
LEMMA RingFields ==
  ASSUME NEW S, NEW r \in RingOf(S)
  PROVE  r.q \in Seq(S) /\ Len(r.q) \in Nat /\ r.seen \in 0..N /\ r.seen \in Nat /\ r.seen <= N
  BY SMTT(30), Constants DEF RingOf

\* readable_range hands out entries that are published.
LEMMA ReadableFacts ==
  ASSUME NEW S, NEW r \in RingOf(S), NEW b \in Nat, r.seen <= Len(r.q), Len(r.q) <= N
  PROVE  LET k == ReadableAmount(r.q, r.seen, b)
         IN  /\ k \in Nat /\ k <= b /\ k <= Len(r.q) /\ k \in 0..Len(r.q)
             /\ Readable(r, b) \in RingOf(S)
             /\ Readable(r, b).q = r.q
             /\ k <= Readable(r, b).seen /\ Readable(r, b).seen <= Len(r.q)
  <1>1. r.q \in Seq(S) /\ Len(r.q) \in Nat /\ r.seen \in Nat /\ r.seen <= N
    BY RingFields
  <1>2. /\ ReadableSeen(r.q, r.seen) \in Nat
        /\ ReadableSeen(r.q, r.seen) <= Len(r.q)
        /\ ReadableSeen(r.q, r.seen) \in 0..N
    BY SMTT(30), <1>1, Constants DEF ReadableSeen
  <1>3. /\ Readable(r, b) \in RingOf(S)
        /\ Readable(r, b).q = r.q
        /\ Readable(r, b).seen = ReadableSeen(r.q, r.seen)
    BY <1>2 DEF Readable, RingOf
  <1>4. QED
    BY SMTT(30), <1>1, <1>2, <1>3 DEF ReadableAmount, Min2

\* writable_range hands out no more than the slots that are free.
LEMMA WritableFacts ==
  ASSUME NEW S, NEW r \in RingOf(S), Len(r.q) <= r.seen
  PROVE  LET w == Writable(r, N)
             k == WritableAmount(r.q, r.seen, N)
         IN  /\ w \in RingOf(S) /\ w.q = r.q
             /\ Len(r.q) <= w.seen /\ w.seen <= r.seen
             /\ k \in Nat /\ k + w.seen = N
  <1>1. r.q \in Seq(S) /\ Len(r.q) \in Nat /\ r.seen \in Nat /\ r.seen <= N
    BY RingFields
  <1>2. /\ WritableSeen(r.q, r.seen, N) \in 0..N
        /\ Len(r.q) <= WritableSeen(r.q, r.seen, N)
        /\ WritableSeen(r.q, r.seen, N) <= r.seen
    BY SMTT(30), <1>1, Constants DEF WritableSeen
  <1>3. /\ Writable(r, N) \in RingOf(S)
        /\ Writable(r, N).q = r.q
        /\ Writable(r, N).seen = WritableSeen(r.q, r.seen, N)
    BY <1>2 DEF Writable, RingOf
  <1>4. WritableAmount(r.q, r.seen, N) = N - WritableSeen(r.q, r.seen, N)
    BY SMTT(30), <1>2, Constants DEF WritableAmount, Min2
  <1>5. QED
    BY SMTT(30), <1>2, <1>3, <1>4, Constants

\* Entries published behind the queue.
LEMMA PublishFacts ==
  ASSUME NEW S, NEW r \in RingOf(S), NEW e \in Seq(S), Len(r.q) <= r.seen, r.seen + Len(e) <= N
  PROVE  /\ Publish(r, e) \in RingOf(S)
         /\ Publish(r, e).q = r.q \o e
         /\ Publish(r, e).seen = r.seen + Len(e)
         /\ Len(r.q \o e) = Len(r.q) + Len(e)
         /\ Len(r.q) + Len(e) <= Publish(r, e).seen
  <1>1. r.q \in Seq(S) /\ Len(r.q) \in Nat /\ r.seen \in Nat /\ Len(e) \in Nat
    BY SMTT(30), RingFields
  <1>2. r.q \o e \in Seq(S) /\ Len(r.q \o e) = Len(r.q) + Len(e)
    BY <1>1, ConcatType
  <1>3. r.seen + Len(e) \in 0..N
    BY SMTT(30), <1>1, Constants
  <1>4. QED
    BY SMTT(30), <1>1, <1>2, <1>3 DEF Publish, RingOf

\* Entries released from the front of the queue.
LEMMA ReleaseFacts ==
  ASSUME NEW S, NEW r \in RingOf(S), NEW k \in Nat, k <= r.seen, r.seen <= Len(r.q)
  PROVE  /\ Release(r, k) \in RingOf(S)
         /\ Release(r, k).q = DropFirst(r.q, k)
         /\ Release(r, k).seen <= Len(Release(r, k).q)
         /\ Len(Release(r, k).q) = Len(r.q) - k
         /\ Len(r.q) <= N => Len(Release(r, k).q) <= N
         /\ k \in 0..Len(r.q)
  <1>1. r.q \in Seq(S) /\ Len(r.q) \in Nat /\ r.seen \in Nat /\ r.seen <= N
    BY RingFields
  <1>2. k \in 0..Len(r.q)
    BY SMTT(30), <1>1
  <1>3. DropFirst(r.q, k) \in Seq(S) /\ Len(DropFirst(r.q, k)) = Len(r.q) - k
    BY ZenonT(40), <1>1, <1>2, FramesOfCut
  <1>4. r.seen - k \in 0..N /\ r.seen - k <= Len(r.q) - k
    BY SMTT(30), <1>1, Constants
  <1>5. /\ Release(r, k) \in RingOf(S)
        /\ Release(r, k).q = DropFirst(r.q, k)
        /\ Release(r, k).seen = r.seen - k
    BY <1>3, <1>4 DEF Release, RingOf
  <1>6. Len(Release(r, k).q) = Len(r.q) - k
    BY <1>3, <1>5
  <1>7. Len(r.q) <= N => Len(Release(r, k).q) <= N
    BY SMTT(30), <1>1, <1>6, Constants
  <1>8. QED
    BY <1>2, <1>4, <1>5, <1>6, <1>7

\* The kernel takes the oldest entry.
LEMMA KernelPops ==
  ASSUME NEW S, NEW r \in RingOf(S), r.q # <<>>
  PROVE  /\ [r EXCEPT !.q = Tail(@)] \in RingOf(S)
         /\ [r EXCEPT !.q = Tail(@)].q = Tail(r.q)
         /\ [r EXCEPT !.q = Tail(@)].seen = r.seen
         /\ Len(Tail(r.q)) = Len(r.q) - 1
  <1>1. r.q \in Seq(S)
    BY RingFields
  <1>2. Tail(r.q) \in Seq(S) /\ Len(Tail(r.q)) = Len(r.q) - 1
    BY SMTT(30), <1>1
  <1>3. QED
    BY <1>2 DEF RingOf

\* The kernel adds an entry.
LEMMA KernelPushes ==
  ASSUME NEW S, NEW r \in RingOf(S), NEW a \in S
  PROVE  /\ [r EXCEPT !.q = Append(@, a)] \in RingOf(S)
         /\ [r EXCEPT !.q = Append(@, a)].q = Append(r.q, a)
         /\ [r EXCEPT !.q = Append(@, a)].seen = r.seen
         /\ Len(Append(r.q, a)) = Len(r.q) + 1
  <1>1. r.q \in Seq(S)
    BY RingFields
  <1>2. Append(r.q, a) \in Seq(S) /\ Len(Append(r.q, a)) = Len(r.q) + 1
    BY SMTT(30), <1>1
  <1>3. QED
    BY <1>2 DEF RingOf

(***************************************************************************)
(* The frames.                                                             *)
(***************************************************************************)
Owns == [Ownership!Next]_(Ownership!vars)

\* The part of the invariant that is about single queues of frames.
Queues ==
  /\ Distinct(alloc) /\ Distinct(fill.q) /\ Distinct(RxPending)
  /\ Distinct(staged) /\ Distinct(tx.q) /\ Distinct(cq.q)
  /\ \A a, b \in kernel_tx : a.frame = b.frame => a = b

\* The part that is about positions and counters.
Counters ==
  /\ Len(fill.q) <= fill.seen
  /\ Len(tx.q) <= tx.seen
  /\ rx.seen <= Len(rx.q) /\ Len(rx.q) <= N
  /\ cq.seen <= Len(cq.q) /\ Len(cq.q) + Cardinality(kernel_tx) <= N
  /\ pc = "callback" => i <= n /\ n <= rx.seen
  /\ NothingLeftStaged
  /\ TxWindow
  /\ IsFiniteSet(kernel_tx)
  /\ pc = "publish" => i = 0

\* A move along the ownership cycle leaves every frame with one owner.
LEMMA OwnersMove ==
  ASSUME Ownership!OneOwnerEach, [Ownership!Next]_(Ownership!vars)
  PROVE  Ownership!OneOwnerEach'
  <1> USE DEF Ownership!OneOwnerEach, Ownership!Moves
  <1>1. CASE Ownership!Refill
    BY <1>1 DEF Ownership!Refill
  <1>2. CASE Ownership!TakeFill
    BY SMTT(30), <1>2 DEF Ownership!TakeFill
  <1>3. CASE Ownership!Deliver
    BY <1>3 DEF Ownership!Deliver
  <1>4. CASE Ownership!Recycle
    BY <1>4 DEF Ownership!Recycle
  <1>5. CASE Ownership!Stage
    BY SMTT(30), <1>5 DEF Ownership!Stage
  <1>6. CASE Ownership!Submit
    BY <1>6 DEF Ownership!Submit
  <1>7. CASE Ownership!TakeTx
    BY <1>7 DEF Ownership!TakeTx
  <1>8. CASE Ownership!Complete
    BY <1>8 DEF Ownership!Complete
  <1>9. CASE Ownership!Reclaim
    BY <1>9 DEF Ownership!Reclaim
  <1>10. CASE UNCHANGED Ownership!vars
    BY <1>10 DEF Ownership!vars
  <1>11. QED
    BY <1>1, <1>2, <1>3, <1>4, <1>5, <1>6, <1>7, <1>8, <1>9, <1>10 DEF Ownership!Next

\* A step along the ownership cycle that keeps the queues, the counters and
\* the types keeps the invariant.
LEMMA Conserved ==
  ASSUME IInv, TypeOK', Owns, Queues', FrameBasesOnly', OutstandingExact', Counters'
  PROVE  IInv'
  <1>1. Ownership!OneOwnerEach'
    BY OwnersMove DEF IInv, FrameConservation, Owns
  <1>2. FrameConservation'
    BY <1>1 DEF FrameConservation, Queues
  <1>3. FramesOf(alloc') \subseteq Frames
    BY <1>1 DEF Ownership!OneOwnerEach
  <1>4. Len(alloc') \in Nat /\ Distinct(alloc')
    BY SMTT(30) DEF TypeOK, Queues
  <1>5. Len(alloc') <= Capacity
    <2>1. Len(alloc') <= NumFrames
      BY <1>3, <1>4, DistinctIsShort
    <2>2. QED
      BY SMTT(30), <2>1, <1>4, Constants
  <1>6. tx'.seen + Len(staged') <= N
    <2>1. tx'.seen \in Nat /\ tx'.seen <= N /\ Len(staged') \in Nat /\ tx_avail' \in Nat
      BY SMTT(30), Constants DEF TypeOK, RingOf
    <2>2. CASE reserved'
      BY SMTT(30), <2>1, <2>2, Constants DEF Counters, TxWindow
    <2>3. CASE ~reserved'
      BY SMTT(30), <2>1, <2>3, Constants DEF Counters, TxWindow
    <2>4. QED
      BY <2>2, <2>3
  <1>7. NothingOverflows'
    BY <1>5, <1>6 DEF NothingOverflows, Counters
  <1>8. QED
    BY <1>2, <1>7 DEF IInv, Counters

\* The invariant, taken apart.
LEMMA Parts ==
  ASSUME IInv
  PROVE  /\ TypeOK /\ Queues /\ FrameBasesOnly /\ OutstandingExact /\ Counters
         /\ Ownership!OneOwnerEach
  BY DEF IInv, FrameConservation, NothingOverflows, Queues, Counters

\* The types of the variables the frames pass through.
LEMMA Types ==
  ASSUME IInv
  PROVE  /\ alloc \in Seq(A) /\ Len(alloc) \in Nat
         /\ staged \in Seq(A) /\ Len(staged) \in Nat
         /\ tx \in RingOf(A) /\ tx.q \in Seq(A) /\ Len(tx.q) \in Nat /\ tx.seen \in Nat /\ tx.seen <= N
         /\ cq \in RingOf(A) /\ cq.q \in Seq(A) /\ Len(cq.q) \in Nat /\ cq.seen \in Nat /\ cq.seen <= N
         /\ rx \in RingOf(A) /\ rx.q \in Seq(A) /\ Len(rx.q) \in Nat /\ rx.seen \in Nat /\ rx.seen <= N
         /\ fill \in RingOf(A) /\ fill.q \in Seq(A) /\ Len(fill.q) \in Nat
         /\ fill.seen \in Nat /\ fill.seen <= N
         /\ kernel_rx \subseteq Frames /\ kernel_tx \subseteq A
         /\ Cardinality(kernel_tx) \in Nat
         /\ n \in Nat /\ n <= N /\ i \in Nat /\ i <= N /\ i <= Len(rx.q) /\ i \in 0..Len(rx.q)
         /\ outstanding \in Nat /\ tx_avail \in Nat /\ reaped \in Nat /\ reaped <= N
  <1> USE Parts
  <1>1. /\ alloc \in Seq(A) /\ Len(alloc) \in Nat
        /\ staged \in Seq(A) /\ Len(staged) \in Nat
        /\ tx \in RingOf(A) /\ cq \in RingOf(A) /\ rx \in RingOf(A) /\ fill \in RingOf(A)
    BY SMTT(30) DEF TypeOK, A
  <1>2. /\ kernel_rx \subseteq Frames /\ kernel_tx \subseteq A
        /\ n \in Nat /\ n <= N /\ i \in Nat /\ i <= N
        /\ outstanding \in Nat /\ tx_avail \in Nat /\ reaped \in Nat /\ reaped <= N
    BY SMTT(30), Constants DEF TypeOK, A
  <1>3. /\ tx.q \in Seq(A) /\ Len(tx.q) \in Nat /\ tx.seen \in Nat /\ tx.seen <= N
        /\ cq.q \in Seq(A) /\ Len(cq.q) \in Nat /\ cq.seen \in Nat /\ cq.seen <= N
        /\ rx.q \in Seq(A) /\ Len(rx.q) \in Nat /\ rx.seen \in Nat /\ rx.seen <= N
        /\ fill.q \in Seq(A) /\ Len(fill.q) \in Nat /\ fill.seen \in Nat /\ fill.seen <= N
    BY <1>1, RingFields
  <1>4. Cardinality(kernel_tx) \in Nat
    BY FS_CardinalityType DEF Counters
  <1>5. i <= Len(rx.q)
    <2>1. CASE pc = "callback"
      BY SMTT(30), <2>1, <1>2, <1>3 DEF Counters
    <2>2. CASE pc # "callback"
      BY SMTT(30), <2>2, <1>2, <1>3 DEF Counters, NothingLeftStaged
    <2>3. QED
      BY <2>1, <2>2
  <1>6. QED
    BY SMTT(30), <1>1, <1>2, <1>3, <1>4, <1>5

\* Owners that exchange frames have none in common.
LEMMA Apart ==
  ASSUME IInv
  PROVE  /\ FramesOf(alloc) \cap FramesOf(fill.q) = {}
         /\ FramesOf(alloc) \cap FramesOf(RxPending) = {}
         /\ FramesOf(alloc) \cap FramesOf(cq.q) = {}
         /\ FramesOf(fill.q) \cap kernel_rx = {}
         /\ kernel_rx \cap FramesOf(RxPending) = {}
         /\ FramesOf(RxPending) \cap FramesOf(staged) = {}
         /\ FramesOf(staged) \cap FramesOf(tx.q) = {}
         /\ FramesOf(tx.q) \cap KernelTxFrames = {}
         /\ KernelTxFrames \cap FramesOf(cq.q) = {}
  BY Parts DEF Ownership!OneOwnerEach

\* A step that moves no frame.
LEMMA Quiet ==
  ASSUME IInv, UNCHANGED <<alloc, fill.q, RxPending, staged, tx.q, cq.q, kernel_rx, kernel_tx, outstanding>>
  PROVE  Owns /\ Queues' /\ FrameBasesOnly' /\ OutstandingExact'
  <1> USE Parts
  <1>1. Owns
    BY DEF Owns, Ownership!vars, RxPending, KernelTxFrames
  <1>2. Queues'
    BY DEF Queues, RxPending
  <1>3. FrameBasesOnly' /\ OutstandingExact'
    BY DEF FrameBasesOnly, OutstandingExact
  <1>4. QED
    BY <1>1, <1>2, <1>3

(***************************************************************************)
(* The steps that move no frame.                                           *)
(***************************************************************************)
QuietStep ==
  \/ RunExit /\ UNCHANGED <<kvars, expired>>
  \/ FillCheck /\ UNCHANGED <<kvars, expired>>
  \/ KickRx /\ UNCHANGED <<kvars, expired>>
  \/ KickTx /\ UNCHANGED <<rvars, kvars, expired>>
  \/ RequestStop
  \/ JoinAndDrain
  \/ DrainCheck
  \/ DeadlinePasses
  \/ KernelAsksForRxWakeup
  \/ KernelAsksForTxWakeup
  \/ UNCHANGED vars

\* A wakeup leaves the flag a flag.
LEMMA WakeupTypes ==
  ASSUME IInv
  PROVE  /\ RequestRxProgress => fill_need_wakeup' \in BOOLEAN
         /\ RequestTxProgress => tx_need_wakeup' \in BOOLEAN
  BY Parts DEF TypeOK, RequestRxProgress, RequestTxProgress

\* Wakeups, the loop's own decisions and the control thread's part in stopping
\* keep the invariant and leave every frame where it is.
LEMMA QuietSteps ==
  ASSUME IInv, QuietStep
  PROVE  IInv' /\ Owns
  <1> USE Parts
  <1> DEFINE Still == UNCHANGED <<alloc, fill.q, RxPending, staged, tx.q, cq.q,
                                  kernel_rx, kernel_tx, outstanding>>
  <1>0. Still /\ TypeOK' /\ Counters' => IInv' /\ Owns
    BY Quiet, Conserved
  <1>1. CASE RunExit /\ UNCHANGED <<kvars, expired>>
    <2>1. Still
      BY <1>1 DEF RxPending, RunExit, kvars, rvars, servicevars
    <2>2. TypeOK'
      BY <1>1 DEF TypeOK, RunExit, kvars, rvars, servicevars
    <2>3. Counters'
      BY <1>1 DEF Counters, NothingLeftStaged, TxWindow, RunExit, kvars, rvars, servicevars
    <2>4. QED
      BY <2>1, <2>2, <2>3, <1>0
  <1>2. CASE FillCheck /\ UNCHANGED <<kvars, expired>>
    <2>1. Still
      BY <1>2 DEF RxPending, FillCheck, kvars, rvars, servicevars
    <2>2. TypeOK'
      BY <1>2 DEF TypeOK, FillCheck, kvars, rvars, servicevars
    <2>3. Counters'
      BY <1>2 DEF Counters, NothingLeftStaged, TxWindow, FillCheck, kvars, rvars, servicevars
    <2>4. QED
      BY <2>1, <2>2, <2>3, <1>0
  <1>3. CASE KickRx /\ UNCHANGED <<kvars, expired>>
    <2>1. Still
      BY <1>3 DEF RxPending, KickRx, RequestRxProgress, kvars, servicevars
    <2>2. TypeOK'
      <3>1. fill_need_wakeup' \in BOOLEAN
        BY <1>3, WakeupTypes DEF KickRx, TypeOK
      <3>2. n' \in 0..N /\ pushed' \in 0..N
        BY SMTT(30), <1>3, Constants DEF KickRx
      <3>3. QED
        BY <1>3, <3>1, <3>2 DEF TypeOK, KickRx, kvars, servicevars
    <2>3. Counters'
      BY <1>3
         DEF Counters, NothingLeftStaged, TxWindow, KickRx, RequestRxProgress, kvars, servicevars
    <2>4. QED
      BY <2>1, <2>2, <2>3, <1>0
  <1>4. CASE KickTx /\ UNCHANGED <<rvars, kvars, expired>>
    <2>1. Still
      BY <1>4 DEF RxPending, KickTx, RequestTxProgress, kvars, rvars
    <2>2. TypeOK'
      BY <1>4, WakeupTypes DEF TypeOK, KickTx, kvars, rvars
    <2>3. Counters'
      BY <1>4 DEF Counters, NothingLeftStaged, TxWindow, KickTx, RequestTxProgress, kvars, rvars
    <2>4. QED
      BY <2>1, <2>2, <2>3, <1>0
  <1>5. CASE RequestStop
    <2>1. Still
      BY <1>5 DEF RxPending, RequestStop, kvars, servicevars
    <2>2. TypeOK'
      BY SMTT(30), <1>5 DEF TypeOK, RequestStop, kvars, servicevars
    <2>3. Counters'
      BY <1>5 DEF Counters, NothingLeftStaged, TxWindow, RequestStop, kvars, servicevars
    <2>4. QED
      BY <2>1, <2>2, <2>3, <1>0
  <1>6. CASE JoinAndDrain
    <2>1. Still
      BY <1>6 DEF RxPending, JoinAndDrain, kvars, rvars, servicevars
    <2>2. TypeOK'
      BY <1>6 DEF TypeOK, JoinAndDrain, kvars, rvars, servicevars
    <2>3. Counters'
      BY <1>6
         DEF Counters, NothingLeftStaged, TxWindow, JoinAndDrain, kvars, rvars, servicevars
    <2>4. QED
      BY <2>1, <2>2, <2>3, <1>0
  <1>7. CASE DrainCheck
    <2>1. Still
      BY <1>7 DEF RxPending, DrainCheck, kvars, rvars, servicevars
    <2>2. TypeOK'
      BY <1>7 DEF TypeOK, DrainCheck, kvars, rvars, servicevars
    <2>3. Counters'
      BY <1>7
         DEF Counters, NothingLeftStaged, TxWindow, DrainCheck, kvars, rvars, servicevars
    <2>4. QED
      BY <2>1, <2>2, <2>3, <1>0
  <1>8. CASE DeadlinePasses
    <2>1. Still
      BY <1>8 DEF RxPending, DeadlinePasses, kvars, rvars, servicevars
    <2>2. TypeOK'
      BY <1>8 DEF TypeOK, DeadlinePasses, kvars, rvars, servicevars
    <2>3. Counters'
      BY <1>8
         DEF Counters, NothingLeftStaged, TxWindow, DeadlinePasses, kvars, rvars, servicevars
    <2>4. QED
      BY <2>1, <2>2, <2>3, <1>0
  <1>9. CASE KernelAsksForRxWakeup
    <2>1. Still
      BY <1>9 DEF RxPending, KernelAsksForRxWakeup, kvars, servicevars
    <2>2. TypeOK'
      BY SMTT(30), <1>9 DEF TypeOK, KernelAsksForRxWakeup, kvars, servicevars
    <2>3. Counters'
      BY <1>9
         DEF Counters, NothingLeftStaged, TxWindow, KernelAsksForRxWakeup, kvars, servicevars
    <2>4. QED
      BY <2>1, <2>2, <2>3, <1>0
  <1>10. CASE KernelAsksForTxWakeup
    <2>1. Still
      BY <1>10 DEF RxPending, KernelAsksForTxWakeup, kvars, rvars, servicevars
    <2>2. TypeOK'
      BY <1>10 DEF TypeOK, KernelAsksForTxWakeup, kvars, rvars, servicevars
    <2>3. Counters'
      BY <1>10
         DEF Counters, NothingLeftStaged, TxWindow, KernelAsksForTxWakeup, kvars, rvars, servicevars
    <2>4. QED
      BY <2>1, <2>2, <2>3, <1>0
  <1>11. CASE UNCHANGED vars
    <2>1. Still
      BY <1>11 DEF RxPending, vars, kvars, rvars, servicevars
    <2>2. TypeOK'
      BY SMTT(30), <1>11 DEF TypeOK, vars, kvars, rvars, servicevars
    <2>3. Counters'
      BY <1>11 DEF Counters, NothingLeftStaged, TxWindow, vars, kvars, rvars, servicevars
    <2>4. QED
      BY <2>1, <2>2, <2>3, <1>0
  <1>12. QED
    BY <1>1, <1>2, <1>3, <1>4, <1>5, <1>6, <1>7, <1>8, <1>9, <1>10, <1>11 DEF QuietStep

(***************************************************************************)
(* The RX window.                                                          *)
(***************************************************************************)

\* Dropping in two goes.
LEMMA DropTwice ==
  ASSUME NEW S, NEW s \in Seq(S), NEW k \in 0..Len(s)
  PROVE  /\ DropFirst(DropFirst(s, k), 0) = DropFirst(s, k)
         /\ k < Len(s) => /\ DropFirst(s, k) # <<>>
                          /\ Head(DropFirst(s, k)) = s[k + 1]
                          /\ Tail(DropFirst(s, k)) = DropFirst(s, k + 1)
  <1> DEFINE t == DropFirst(s, k)
  <1>1. /\ Len(s) \in Nat /\ k \in Nat /\ t \in Seq(S) /\ Len(t) = Len(s) - k
        /\ \A j \in 1..Len(t) : t[j] = s[k + j]
    <2>1. /\ Len(s) \in Nat /\ k \in Nat /\ t \in Seq(S) /\ Len(t) = Len(s) - k
          /\ \A j \in 1..Len(s) - k : t[j] = s[k + j]
      BY CutAt
    <2>2. QED
      BY <2>1
  <1> HIDE DEF t
  <1>2. DropFirst(t, 0) = t
    BY SMTT(30), <1>1 DEF DropFirst
  <1>3. ASSUME k < Len(s) PROVE /\ t # <<>> /\ Head(t) = s[k + 1] /\ Tail(t) = DropFirst(s, k + 1)
    <2>1. Len(t) \in Nat /\ Len(t) >= 1 /\ t # <<>> /\ Head(t) = t[1] /\ t[1] = s[k + 1]
      BY SMTT(30), <1>1, <1>3
    <2>2. /\ Tail(t) \in Seq(S) /\ Len(Tail(t)) = Len(t) - 1
          /\ \A j \in 1..Len(t) - 1 : Tail(t)[j] = t[j + 1]
      BY SMTT(30), <1>1, <2>1
    <2>3. k + 1 \in 0..Len(s)
      BY SMTT(30), <1>1, <1>3
    <2> DEFINE u == DropFirst(s, k + 1)
    <2>4. /\ u \in Seq(S) /\ Len(u) = Len(s) - (k + 1)
          /\ \A j \in 1..Len(u) : u[j] = s[(k + 1) + j]
      <3>1. /\ u \in Seq(S) /\ Len(u) = Len(s) - (k + 1)
            /\ \A j \in 1..Len(s) - (k + 1) : u[j] = s[(k + 1) + j]
        BY <2>3, CutAt
      <3>2. QED
        BY <3>1
    <2> HIDE DEF u
    <2>5. Len(Tail(t)) = Len(u)
      BY SMTT(30), <1>1, <2>2, <2>4
    <2>6. ASSUME NEW j \in 1..Len(u) PROVE Tail(t)[j] = u[j]
      <3>1. j \in 1..Len(t) - 1 /\ j + 1 \in 1..Len(t) /\ k + (j + 1) = (k + 1) + j
        BY SMTT(30), <1>1, <2>4
      <3>2. QED
        BY <3>1, <1>1, <2>2, <2>4
    <2>7. Tail(t) = u
      BY <2>2, <2>4, <2>5, <2>6, SeqEqual
    <2>8. QED
      BY <2>1, <2>7 DEF u
  <1>4. QED
    BY <1>2, <1>3 DEF t

\* A window on the RX ring lies within what the kernel published.
LEMMA RxPollStep ==
  ASSUME IInv, RxPoll, UNCHANGED <<kvars, expired>>
  PROVE  IInv' /\ Owns
  <1> USE Parts, Types
  <1>1. /\ rx' \in RingOf(A) /\ rx'.q = rx.q
        /\ n' \in 0..N /\ n' \in Nat /\ n' <= rx'.seen /\ rx'.seen <= Len(rx.q) /\ Len(rx.q) <= N
    <2>1. Len(rx.q) <= N /\ rx.seen <= Len(rx.q)
      BY DEF Counters
    <2> DEFINE k == ReadableAmount(rx.q, rx.seen, Batch)
               r == Readable(rx, Batch)
    <2>2. /\ r \in RingOf(A) /\ r.q = rx.q
          /\ k \in Nat /\ k <= Len(rx.q) /\ k <= r.seen /\ r.seen <= Len(rx.q)
      BY <2>1, Constants, ReadableFacts
    <2>3. n' = k /\ rx' = r
      BY DEF RxPoll
    <2> HIDE DEF k, r
    <2>4. QED
      BY SMTT(30), <2>1, <2>2, <2>3, Constants
  <1>2. i = 0 /\ i' = 0
    BY DEF RxPoll, Counters, NothingLeftStaged
  <1>3. UNCHANGED <<alloc, fill.q, RxPending, staged, tx.q, cq.q, kernel_rx, kernel_tx, outstanding>>
    BY <1>1 DEF RxPoll, RxPending, kvars, servicevars
  <1>4. TypeOK'
    BY <1>1 DEF RxPoll, TypeOK, kvars, servicevars, A
  <1>5. Counters'
    BY SMTT(30), <1>1, <1>2 DEF RxPoll, Counters, NothingLeftStaged, TxWindow, kvars, servicevars
  <1>6. QED
    BY <1>3, <1>4, <1>5, Quiet, Conserved

\* Releasing the batch gives up exactly the entries disposed of.
LEMMA ReleaseRxStep ==
  ASSUME IInv, ReleaseRx, UNCHANGED <<kvars, expired>>
  PROVE  IInv' /\ Owns
  <1> USE Parts, Types
  <1>1. /\ i = n /\ n <= rx.seen /\ rx.seen <= Len(rx.q) /\ Len(rx.q) <= N
        /\ rx \in RingOf(A) /\ n \in Nat /\ rx.seen \in Nat /\ Len(rx.q) \in Nat /\ N \in Nat
    BY Constants DEF ReleaseRx, Counters
  <1>2. /\ rx' \in RingOf(A) /\ rx'.q = DropFirst(rx.q, n)
        /\ rx'.seen <= Len(rx'.q) /\ Len(rx'.q) <= N
    <2>1. CASE n > 0
      <3> DEFINE r == Release(rx, n)
      <3>1. /\ r \in RingOf(A) /\ r.q = DropFirst(rx.q, n)
            /\ r.seen <= Len(r.q) /\ Len(r.q) <= N
        BY <1>1, ReleaseFacts
      <3>2. rx' = r
        BY <2>1 DEF ReleaseRx
      <3>3. QED
        BY <3>1, <3>2
    <2>2. CASE n = 0
      <3>1. DropFirst(rx.q, 0) = rx.q
        BY SMTT(30) DEF DropFirst
      <3>2. QED
        BY SMTT(30), <2>2, <3>1, <1>1 DEF ReleaseRx
    <2>3. QED
      BY SMTT(30), <2>1, <2>2
  <1>3. i' = 0 /\ i' \in 0..N
    BY SMTT(30), Constants DEF ReleaseRx
  <1>4. RxPending' = RxPending
    BY <1>1, <1>2, <1>3, DropTwice DEF RxPending
  <1>5. UNCHANGED <<alloc, fill.q, RxPending, staged, tx.q, cq.q, kernel_rx, kernel_tx, outstanding>>
    BY <1>4 DEF ReleaseRx, kvars, servicevars
  <1>6. TypeOK'
    BY <1>2, <1>3 DEF ReleaseRx, TypeOK, kvars, servicevars, A
  <1>7. Counters'
    BY <1>2, <1>3 DEF ReleaseRx, Counters, NothingLeftStaged, TxWindow, kvars, servicevars
  <1>8. QED
    BY <1>5, <1>6, <1>7, Quiet, Conserved

-----------------------------------------------------------------------------
(***************************************************************************)
(* Refilling the FILL ring.                                                *)
(***************************************************************************)

\* refill_fill moves frames from the allocator to the FILL ring, as bases and
\* as many as fit.
LEMMA RefillFillFacts ==
  ASSUME IInv, RefillFill
  PROVE  /\ RefillAmount \in 0..N
         /\ alloc' \in Seq(A) /\ fill' \in RingOf(A)
         /\ Len(fill'.q) <= fill'.seen
         /\ Distinct(alloc') /\ Distinct(fill'.q)
         /\ BasesOnly(alloc')
         /\ BasesOnly(fill'.q)
         /\ FramesOf(alloc') \subseteq FramesOf(alloc)
         /\ FramesOf(fill'.q) = FramesOf(fill.q) \cup (FramesOf(alloc) \ FramesOf(alloc'))
  <1> DEFINE k == RefillAmount
             w == WritableAmount(fill.q, fill.seen, N)
             r == Writable(fill, N)
             e == AllocK(alloc, k)
             a == AfterAllocK(alloc, k)
  <1>1. /\ alloc \in Seq(A) /\ Len(alloc) \in Nat /\ fill \in RingOf(A) /\ fill.q \in Seq(A)
        /\ Len(fill.q) <= fill.seen /\ Distinct(alloc) /\ Distinct(fill.q)
        /\ BasesOnly(alloc)
        /\ BasesOnly(fill.q)
        /\ FramesOf(alloc) \cap FramesOf(fill.q) = {}
    BY Types, Parts, Apart DEF Counters, Queues, FrameBasesOnly
  <1>2. /\ r \in RingOf(A) /\ r.q = fill.q /\ Len(r.q) <= r.seen /\ w \in Nat /\ w + r.seen = N
    BY <1>1, WritableFacts
  <1>3. r.seen \in Nat /\ Len(r.q) \in Nat
    BY <1>2, RingFields
  <1>4. fill' = (IF k > 0 THEN Publish(r, e) ELSE r) /\ alloc' = a
    BY DEF RefillFill
  <1>5. k = IF w < Len(alloc) THEN w ELSE Len(alloc)
    BY DEF RefillAmount, Min2
  <1> HIDE DEF k, w, r
  <1>6. k \in 0..Len(alloc) /\ k \in Nat /\ k \in 0..N /\ r.seen + k <= N
    BY SMTT(30), <1>1, <1>2, <1>3, <1>5, Constants
  <1>7. /\ e \in Seq(A) /\ Len(e) = k /\ a \in Seq(A) /\ Len(a) = Len(alloc) - k
        /\ FramesOf(alloc) = FramesOf(a) \cup FramesOf(e)
        /\ Distinct(e) /\ Distinct(a) /\ FramesOf(a) \cap FramesOf(e) = {}
        /\ BasesOnly(e)
        /\ BasesOnly(a)
    BY SMTT(30), <1>1, <1>6, AllocKFrames
  <1> HIDE DEF e, a
  <1>8. fill' \in RingOf(A) /\ fill'.q = fill.q \o e /\ Len(fill'.q) <= fill'.seen
    <2>1. CASE k > 0
      <3>1. /\ Publish(r, e) \in RingOf(A) /\ Publish(r, e).q = r.q \o e
            /\ Len(r.q \o e) = Len(r.q) + Len(e)
            /\ Len(r.q) + Len(e) <= Publish(r, e).seen
        BY ZenonT(40), <1>2, <1>6, <1>7, PublishFacts
      <3>2. QED
        BY <1>2, <1>4, <2>1, <3>1
    <2>2. CASE k = 0
      <3>1. e = <<>>
        BY SMTT(30), <1>7, <2>2
      <3>2. fill.q \o e = fill.q
        BY SMTT(30), <1>1, <3>1
      <3>3. QED
        BY SMTT(30), <1>2, <1>4, <2>2, <3>2
    <2>3. QED
      BY SMTT(30), <1>6, <2>1, <2>2
  <1>9. /\ FramesOf(fill'.q) = FramesOf(fill.q) \cup FramesOf(e)
        /\ FramesOf(fill.q) \cap FramesOf(e) = {}
    BY SMTT(30), <1>1, <1>7, <1>8, FramesOfConcat
  <1>10. Distinct(fill'.q)
    BY SMTT(30), <1>1, <1>7, <1>8, <1>9, FramesOfConcat
  <1>11. BasesOnly(fill'.q)
    BY SMTT(30), <1>1, <1>7, <1>8, BasesConcat
  <1>12. /\ FramesOf(alloc') \subseteq FramesOf(alloc)
         /\ FramesOf(fill'.q) = FramesOf(fill.q) \cup (FramesOf(alloc) \ FramesOf(alloc'))
    BY <1>4, <1>7, <1>9
  <1>13. k = RefillAmount
    BY DEF k
  <1>14. QED
    BY <1>4, <1>6, <1>7, <1>8, <1>10, <1>11, <1>12, <1>13

\* The two callers of refill_fill.
LEMMA RefillSteps ==
  ASSUME IInv,
         \/ Refill /\ UNCHANGED <<kvars, expired>>
         \/ Prefill /\ UNCHANGED <<kvars, expired>>
  PROVE  IInv' /\ Owns
  <1>1. RefillFill
    BY DEF Refill, Prefill
  <1>2. /\ RefillAmount \in 0..N
        /\ alloc' \in Seq(A) /\ fill' \in RingOf(A)
        /\ Len(fill'.q) <= fill'.seen
        /\ Distinct(alloc') /\ Distinct(fill'.q) /\ BasesOnly(alloc') /\ BasesOnly(fill'.q)
        /\ FramesOf(alloc') \subseteq FramesOf(alloc)
        /\ FramesOf(fill'.q) = FramesOf(fill.q) \cup (FramesOf(alloc) \ FramesOf(alloc'))
    BY <1>1, RefillFillFacts
  <1>3. UNCHANGED <<tx, cq, tx_need_wakeup, reserved, tx_avail, staged, outstanding, reaped,
                    stop, rx, n, i, kernel_rx, kernel_tx, expired>>
    BY DEF Refill, Prefill, kvars, servicevars
  <1>4. UNCHANGED <<RxPending, KernelTxFrames>>
    BY <1>3 DEF RxPending, KernelTxFrames
  <1>5. Owns
    BY <1>2, <1>3, <1>4 DEF Owns, Ownership!Next, Ownership!Refill, Ownership!Moves
  <1>6. Queues' /\ FrameBasesOnly' /\ OutstandingExact'
    BY <1>2, <1>3, <1>4, Parts DEF Queues, FrameBasesOnly, OutstandingExact
  <1>7. TypeOK'
    <2>1. pushed' \in 0..N
      BY <1>2, Parts DEF Refill, Prefill, TypeOK
    <2>2. fill_need_wakeup' \in BOOLEAN
      BY Parts, WakeupTypes DEF Refill, Prefill, TypeOK
    <2>3. pc' \in {"rx_kick", "run"} /\ owner' \in {"worker", "control"}
      BY Parts DEF Refill, Prefill, TypeOK
    <2>4. QED
      BY <1>2, <1>3, <2>1, <2>2, <2>3, Parts DEF TypeOK, A
  <1>8. Counters'
    <2>1. pc \notin {"callback", "publish"} /\ pc' \notin {"callback", "publish"}
      BY DEF Refill, Prefill
    <2>2. QED
      BY <1>2, <1>3, <2>1, Parts DEF Counters, NothingLeftStaged, TxWindow
  <1>9. QED
    BY <1>5, <1>6, <1>7, <1>8, Conserved

(***************************************************************************)
(* Publishing and reclaiming.                                              *)
(***************************************************************************)

\* Where a service pass may continue.
LEMMA AfterServiceType == AfterService \in {"fill_check", "drain_check"}
  BY DEF AfterService

\* Publication moves everything staged to the TX ring and counts it.
LEMMA PublishTxStep ==
  ASSUME IInv, PublishTx, UNCHANGED <<rvars, kvars, expired>>
  PROVE  IInv' /\ Owns
  <1>1. /\ tx \in RingOf(A) /\ tx.q \in Seq(A) /\ Len(tx.q) \in Nat /\ tx.seen \in Nat
        /\ staged \in Seq(A) /\ Len(staged) \in Nat
        /\ outstanding \in Nat /\ Cardinality(kernel_tx) \in Nat /\ Len(cq.q) \in Nat
        /\ Len(tx.q) <= tx.seen /\ tx.seen + Len(staged) <= N
        /\ Distinct(staged) /\ Distinct(tx.q) /\ FramesOf(staged) \cap FramesOf(tx.q) = {}
        /\ outstanding = Len(tx.q) + Cardinality(kernel_tx) + Len(cq.q)
        /\ i = 0
    BY Types, Parts, Apart DEF IInv, NothingOverflows, Counters, Queues, OutstandingExact, PublishTx
  <1>2. /\ tx' \in RingOf(A) /\ tx'.q = tx.q \o staged
        /\ Len(tx'.q) = Len(tx.q) + Len(staged) /\ Len(tx'.q) <= tx'.seen
    <2>1. CASE staged # <<>>
      <3>1. /\ Publish(tx, staged) \in RingOf(A) /\ Publish(tx, staged).q = tx.q \o staged
            /\ Len(tx.q \o staged) = Len(tx.q) + Len(staged)
            /\ Len(tx.q) + Len(staged) <= Publish(tx, staged).seen
        BY <1>1, PublishFacts
      <3>2. tx' = Publish(tx, staged)
        BY <2>1 DEF PublishTx
      <3>3. QED
        BY <3>1, <3>2
    <2>2. CASE staged = <<>>
      <3>1. tx' = tx /\ tx.q \o staged = tx.q /\ Len(staged) = 0
        BY SMTT(30), <2>2, <1>1 DEF PublishTx
      <3>2. QED
        BY SMTT(30), <3>1, <1>1
    <2>3. QED
      BY <2>1, <2>2
  <1>3. /\ FramesOf(tx'.q) = FramesOf(tx.q) \cup FramesOf(staged)
        /\ Distinct(tx'.q)
    BY SMTT(30), <1>1, <1>2, FramesOfConcat
  <1>4. staged' = <<>> /\ staged' \in Seq(A) /\ FramesOf(staged') = {} /\ Distinct(staged')
    BY SMTT(30), NoFrames DEF PublishTx
  <1>5. UNCHANGED <<alloc, fill, rx, RxPending, cq, kernel_rx, kernel_tx, KernelTxFrames, i, n>>
    BY DEF PublishTx, rvars, kvars, RxPending, KernelTxFrames
  <1>6. Owns
    BY <1>3, <1>4, <1>5 DEF Owns, Ownership!Next, Ownership!Submit, Ownership!Moves
  <1>7. Queues' /\ FrameBasesOnly'
    BY <1>3, <1>4, <1>5, Parts DEF Queues, FrameBasesOnly
  <1>8. outstanding' \in Nat /\ OutstandingExact'
    <2>1. outstanding' = outstanding + Len(staged)
      BY DEF PublishTx
    <2> DEFINE t == Len(tx.q)
               e == Len(staged)
               c == Cardinality(kernel_tx)
               l == Len(cq.q)
    <2>2. t \in Nat /\ e \in Nat /\ c \in Nat /\ l \in Nat /\ outstanding = t + c + l
      BY <1>1
    <2>3. Len(tx'.q) = t + e /\ Cardinality(kernel_tx') = c /\ Len(cq'.q) = l
      BY <1>2, <1>5
    <2>4. outstanding' = outstanding + e
      BY <2>1
    <2> HIDE DEF t, e, c, l
    <2>5. (t + c + l) + e = (t + e) + c + l /\ (t + c + l) + e \in Nat
      BY SMTT(30), <2>2
    <2>6. QED
      BY <2>2, <2>3, <2>4, <2>5 DEF OutstandingExact
  <1>9. pc' \in {"fill_check", "drain_check", "reap"}
    BY AfterServiceType DEF PublishTx
  <1>10. TypeOK'
    BY <1>2, <1>4, <1>8, <1>9, Parts DEF TypeOK, A, PublishTx, rvars, kvars
  <1>11. Counters'
    BY <1>1, <1>2, <1>4, <1>5, <1>9, Parts DEF Counters, NothingLeftStaged, TxWindow, PublishTx
  <1>12. QED
    BY <1>6, <1>7, <1>8, <1>10, <1>11, Conserved

\* free(), for the addresses that circulate.
LEMMA Frees ==
  ASSUME NEW s \in Seq(A), NEW t \in Seq(A)
  PROVE  /\ FreeAll(s, t) \in Seq(A)
         /\ FramesOf(FreeAll(s, t)) = FramesOf(s) \cup FramesOf(t)
         /\ Distinct(s) /\ Distinct(t) /\ FramesOf(s) \cap FramesOf(t) = {}
              => Distinct(FreeAll(s, t))
         /\ BasesOnly(s) => BasesOnly(FreeAll(s, t))
  <1>1. 0 \in Offsets
    BY Constants
  <1>2. QED
    BY ZenonT(40), <1>1, FreeAllFrames DEF A

\* reclaim_completed_frames moves frames from the COMPLETION ring to the
\* allocator, as bases, and uncounts them.
LEMMA ReclaimFacts ==
  ASSUME IInv, NEW b \in Nat, Reclaim(b)
  PROVE  /\ ReclaimAmount(b) \in Nat /\ ReclaimAmount(b) <= b /\ ReclaimAmount(b) <= Len(cq.q)
         /\ alloc' \in Seq(A) /\ cq' \in RingOf(A)
         /\ cq'.seen <= Len(cq'.q) /\ Len(cq'.q) = Len(cq.q) - ReclaimAmount(b)
         /\ outstanding' = outstanding - ReclaimAmount(b)
         /\ Distinct(alloc') /\ Distinct(cq'.q) /\ BasesOnly(alloc')
         /\ FramesOf(cq'.q) \subseteq FramesOf(cq.q)
         /\ FramesOf(alloc') = FramesOf(alloc) \cup (FramesOf(cq.q) \ FramesOf(cq'.q))
  <1> DEFINE k == ReclaimAmount(b)
             r == Readable(cq, b)
             c == Release(r, k)
             e == SubSeq(cq.q, 1, k)
             d == DropFirst(cq.q, k)
  <1>1. /\ alloc \in Seq(A) /\ cq \in RingOf(A) /\ cq.q \in Seq(A)
        /\ Len(cq.q) \in Nat /\ Cardinality(kernel_tx) \in Nat
        /\ cq.seen <= Len(cq.q) /\ Len(cq.q) + Cardinality(kernel_tx) <= N
        /\ Distinct(alloc) /\ Distinct(cq.q) /\ BasesOnly(alloc)
        /\ FramesOf(alloc) \cap FramesOf(cq.q) = {}
    BY Types, Parts, Apart DEF Counters, Queues, FrameBasesOnly
  <1>2. Len(cq.q) <= N
    BY SMTT(30), <1>1, Constants
  <1>3. /\ k \in Nat /\ k <= b /\ k <= Len(cq.q) /\ k \in 0..Len(cq.q)
        /\ r \in RingOf(A) /\ r.q = cq.q /\ k <= r.seen /\ r.seen <= Len(cq.q)
    BY <1>1, <1>2, ReadableFacts DEF ReclaimAmount
  <1>4. alloc' = FreeAll(alloc, e) /\ cq' = c /\ outstanding' = outstanding - k
    BY DEF Reclaim
  <1> HIDE DEF k, r
  <1>5. /\ c \in RingOf(A) /\ c.q = DropFirst(r.q, k)
        /\ c.seen <= Len(c.q) /\ Len(c.q) = Len(r.q) - k
    BY <1>3, ReleaseFacts
  <1>6. /\ e \in Seq(A) /\ d \in Seq(A)
        /\ FramesOf(cq.q) = FramesOf(e) \cup FramesOf(d)
        /\ Distinct(e) /\ Distinct(d) /\ FramesOf(e) \cap FramesOf(d) = {}
    BY SMTT(30), <1>1, <1>3, FramesOfCut
  <1>7. c.q = d /\ Len(c.q) = Len(cq.q) - k
    BY <1>3, <1>5
  <1> HIDE DEF c, e, d
  <1>8. FramesOf(alloc) \cap FramesOf(e) = {}
    BY <1>1, <1>6
  <1>9. /\ FreeAll(alloc, e) \in Seq(A)
        /\ FramesOf(FreeAll(alloc, e)) = FramesOf(alloc) \cup FramesOf(e)
        /\ Distinct(FreeAll(alloc, e)) /\ BasesOnly(FreeAll(alloc, e))
    BY <1>1, <1>6, <1>8, Frees
  <1>10. k = ReclaimAmount(b)
    BY DEF k
  <1>11. /\ FramesOf(cq'.q) \subseteq FramesOf(cq.q)
         /\ FramesOf(alloc') = FramesOf(alloc) \cup (FramesOf(cq.q) \ FramesOf(cq'.q))
    BY <1>4, <1>6, <1>7, <1>9
  <1>12. QED
    BY <1>3, <1>4, <1>5, <1>6, <1>7, <1>9, <1>10, <1>11

\* A reclamation within a service pass.
LEMMA Reclaiming ==
  ASSUME IInv, NEW b \in Nat, Reclaim(b),
         pc \in {"reap", "reap_again"}, pc' \in {"fill_check", "drain_check", "tx_kick"},
         reaped' \in 0..N,
         UNCHANGED <<owner, tx, tx_need_wakeup, reserved, tx_avail, staged, rvars, kvars, expired>>
  PROVE  IInv' /\ Owns
  <1> DEFINE k == ReclaimAmount(b)
  <1>1. /\ k \in Nat /\ k <= Len(cq.q)
        /\ alloc' \in Seq(A) /\ cq' \in RingOf(A)
        /\ cq'.seen <= Len(cq'.q) /\ Len(cq'.q) = Len(cq.q) - k
        /\ outstanding' = outstanding - k
        /\ Distinct(alloc') /\ Distinct(cq'.q) /\ BasesOnly(alloc')
        /\ FramesOf(cq'.q) \subseteq FramesOf(cq.q)
        /\ FramesOf(alloc') = FramesOf(alloc) \cup (FramesOf(cq.q) \ FramesOf(cq'.q))
    BY ReclaimFacts
  <1> HIDE DEF k
  <1>2. UNCHANGED <<tx, staged, fill, rx, i, n, kernel_rx, kernel_tx, RxPending, KernelTxFrames>>
    BY DEF rvars, kvars, RxPending, KernelTxFrames
  <1>3. Owns
    BY <1>1, <1>2 DEF Owns, Ownership!Next, Ownership!Reclaim, Ownership!Moves
  <1>4. Queues' /\ FrameBasesOnly'
    BY <1>1, <1>2, Parts DEF Queues, FrameBasesOnly
  <1>5. /\ Len(tx.q) \in Nat /\ Len(cq.q) \in Nat /\ Cardinality(kernel_tx) \in Nat /\ outstanding \in Nat
        /\ outstanding = Len(tx.q) + Cardinality(kernel_tx) + Len(cq.q)
        /\ Len(cq.q) + Cardinality(kernel_tx) <= N
    BY Types, Parts DEF OutstandingExact, Counters
  <1>6. outstanding' \in Nat /\ OutstandingExact'
    <2>1. k \in Nat /\ k <= Len(cq.q)
      BY <1>1
    <2>2. Len(cq'.q) = Len(cq.q) - k /\ outstanding' = outstanding - k
      BY <1>1
    <2> DEFINE t == Len(tx.q) + Cardinality(kernel_tx)
               l == Len(cq.q)
    <2>3. t \in Nat /\ l \in Nat /\ outstanding = t + l /\ k <= l
      BY SMTT(30), <2>1, <1>5
    <2> HIDE DEF t, l
    <2>4. outstanding - k \in Nat /\ outstanding - k = t + (l - k)
      BY SMTT(30), <2>1, <2>3
    <2>5. outstanding' = Len(tx.q) + Cardinality(kernel_tx) + Len(cq'.q)
      BY <2>2, <2>4 DEF t, l
    <2>6. QED
      BY <2>2, <2>4, <2>5, <1>2 DEF OutstandingExact
  <1>7. TypeOK'
    BY <1>1, <1>6, Parts DEF TypeOK, A, rvars, kvars
  <1>8. Len(cq'.q) + Cardinality(kernel_tx') <= N
    <2> DEFINE l == Len(cq.q)
               c == Cardinality(kernel_tx)
    <2>1. k \in Nat /\ l \in Nat /\ c \in Nat /\ k <= l /\ l + c <= N
      BY <1>1, <1>5
    <2>2. Len(cq'.q) = l - k /\ Cardinality(kernel_tx') = c
      BY <1>1, <1>2
    <2> HIDE DEF l, c
    <2>3. (l - k) + c <= N
      BY SMTT(30), <2>1, Constants
    <2>4. QED
      BY <2>2, <2>3
  <1>9. Counters'
    BY <1>1, <1>2, <1>8, Parts DEF Counters, NothingLeftStaged, TxWindow
  <1>10. QED
    BY <1>3, <1>4, <1>6, <1>7, <1>9, Conserved

\* The two reclamations of a service pass.
LEMMA ReapSteps ==
  ASSUME IInv, ReapFirst \/ ReapAgain, UNCHANGED <<rvars, kvars, expired>>
  PROVE  IInv' /\ Owns
  <1>1. CASE ReapFirst
    <2>1. Reclaim(N) /\ N \in Nat
      BY <1>1, Constants DEF ReapFirst
    <2>2. ReclaimAmount(N) \in 0..N /\ 0 \in 0..N
      BY SMTT(30), <2>1, ReclaimFacts, Constants
    <2>3. reaped' \in 0..N
      BY <1>1, <2>2 DEF ReapFirst
    <2>4. pc \in {"reap", "reap_again"} /\ pc' \in {"fill_check", "drain_check", "tx_kick"}
      BY <1>1, AfterServiceType DEF ReapFirst
    <2>5. UNCHANGED <<owner, tx, tx_need_wakeup, reserved, tx_avail, staged, rvars, kvars, expired>>
      BY <1>1 DEF ReapFirst
    <2>6. QED
      BY <2>1, <2>3, <2>4, <2>5, Reclaiming
  <1>2. CASE ReapAgain
    <2>1. /\ pc \in {"reap", "reap_again"} /\ pc' \in {"fill_check", "drain_check", "tx_kick"}
          /\ UNCHANGED <<owner, tx, tx_need_wakeup, reserved, tx_avail, staged, rvars, kvars, expired>>
      BY <1>2, AfterServiceType DEF ReapAgain
    <2>2. reaped' \in 0..N
      BY SMTT(30), <1>2, Constants DEF ReapAgain
    <2>3. CASE reaped < N
      <3>1. Reclaim(N - reaped)
        BY <1>2, <2>3 DEF ReapAgain
      <3>2. N - reaped \in Nat
        BY SMTT(30), <2>3, Types, Constants
      <3>3. QED
        BY <2>1, <2>2, <3>1, <3>2, Reclaiming
    <2>4. CASE ~(reaped < N)
      <3>1. UNCHANGED <<alloc, cq, outstanding>>
        BY <1>2, <2>4 DEF ReapAgain
      <3>2. UNCHANGED <<alloc, fill.q, RxPending, staged, tx.q, cq.q, kernel_rx, kernel_tx, outstanding>>
        BY <2>1, <3>1 DEF RxPending, rvars, kvars
      <3>3. TypeOK'
        BY <2>1, <2>2, <3>1, Parts DEF TypeOK, rvars, kvars
      <3>4. Counters'
        BY <2>1, <3>1, Parts DEF Counters, NothingLeftStaged, TxWindow, rvars, kvars
      <3>5. QED
        BY <3>2, <3>3, <3>4, Quiet, Conserved
    <2>5. QED
      BY <2>3, <2>4
  <1>3. QED
    BY <1>1, <1>2

(***************************************************************************)
(* The kernel's end of the rings.                                          *)
(***************************************************************************)

\* The oldest entry and the rest.
LEMMA TailFrames ==
  ASSUME NEW S, NEW s \in Seq(S), s # <<>>
  PROVE  /\ Head(s) \in S
         /\ FramesOf(s) = FramesOf(Tail(s)) \cup {Head(s).frame}
         /\ Distinct(s) => Distinct(Tail(s)) /\ Head(s).frame \notin FramesOf(Tail(s))
         /\ BasesOnly(s) => BasesOnly(Tail(s))
  <1>1. /\ 1 \in 0..Len(s) /\ Tail(s) = DropFirst(s, 1) /\ Head(s) \in S
        /\ FramesOf(SubSeq(s, 1, 1)) = {Head(s).frame}
    BY TailIsCut
  <1>2. /\ FramesOf(s) = FramesOf(SubSeq(s, 1, 1)) \cup FramesOf(DropFirst(s, 1))
        /\ Distinct(s) => /\ Distinct(DropFirst(s, 1))
                          /\ FramesOf(SubSeq(s, 1, 1)) \cap FramesOf(DropFirst(s, 1)) = {}
    BY <1>1, FramesOfCut
  <1>3. BasesOnly(s) => BasesOnly(Tail(s))
    BY SMTT(30) DEF BasesOnly
  <1>4. QED
    BY <1>1, <1>2, <1>3

\* An entry added behind the window.
LEMMA DropAppend ==
  ASSUME NEW S, NEW s \in Seq(S), NEW a \in S, NEW k \in 0..Len(s)
  PROVE  DropFirst(Append(s, a), k) = Append(DropFirst(s, k), a)
  <1> DEFINE t == DropFirst(Append(s, a), k)
             u == Append(DropFirst(s, k), a)
  <1>1. /\ Len(s) \in Nat /\ k \in Nat /\ k <= Len(s)
        /\ Append(s, a) \in Seq(S) /\ Len(Append(s, a)) = Len(s) + 1 /\ k \in 0..Len(Append(s, a))
        /\ \A j \in 1..Len(s) : Append(s, a)[j] = s[j]
        /\ Append(s, a)[Len(s) + 1] = a
    BY SMTT(30)
  <1>2. /\ DropFirst(s, k) \in Seq(S) /\ Len(DropFirst(s, k)) = Len(s) - k
        /\ \A j \in 1..Len(s) - k : DropFirst(s, k)[j] = s[k + j]
    BY CutAt
  <1>3. /\ t \in Seq(S) /\ Len(t) = (Len(s) + 1) - k
        /\ \A j \in 1..(Len(s) + 1) - k : t[j] = Append(s, a)[k + j]
    <2> DEFINE v == Append(s, a)
    <2>1. v \in Seq(S) /\ k \in 0..Len(v) /\ Len(v) = Len(s) + 1
      BY <1>1
    <2> HIDE DEF v
    <2>2. /\ DropFirst(v, k) \in Seq(S) /\ Len(DropFirst(v, k)) = Len(v) - k
          /\ \A j \in 1..Len(v) - k : DropFirst(v, k)[j] = v[k + j]
      BY ZenonT(40), <2>1, CutAt
    <2>3. QED
      BY <2>1, <2>2 DEF v
  <1>4. /\ u \in Seq(S) /\ Len(u) = (Len(s) - k) + 1
        /\ \A j \in 1..Len(s) - k : u[j] = DropFirst(s, k)[j]
        /\ u[(Len(s) - k) + 1] = a
    BY SMTT(30), <1>2
  <1> HIDE DEF t, u
  <1>5. ASSUME NEW j \in 1..Len(t) PROVE t[j] = u[j]
    <2>1. CASE j \in 1..Len(s) - k
      <3>1. k + j \in 1..Len(s) /\ j \in 1..(Len(s) + 1) - k
        BY SMTT(30), <1>1, <2>1
      <3>2. QED
        BY SMTT(30), <1>1, <1>2, <1>3, <1>4, <2>1, <3>1
    <2>2. CASE j \notin 1..Len(s) - k
      <3>1. j = (Len(s) - k) + 1 /\ k + j = Len(s) + 1 /\ j \in 1..(Len(s) + 1) - k
        BY SMTT(30), <1>1, <1>3, <2>2
      <3>2. QED
        BY <1>1, <1>3, <1>4, <3>1
    <2>3. QED
      BY <2>1, <2>2
  <1>6. Len(t) = Len(u)
    BY SMTT(30), <1>1, <1>3, <1>4
  <1>7. t = u
    BY <1>3, <1>4, <1>5, <1>6, SeqEqual
  <1>8. QED
    BY <1>7 DEF t, u

\* The kernel takes a buffer from the FILL ring.
LEMMA KernelTakesFillStep ==
  ASSUME IInv, KernelTakesFill
  PROVE  IInv' /\ Owns
  <1> DEFINE h == Head(fill.q)
  <1>1. /\ fill \in RingOf(A) /\ fill.q \in Seq(A) /\ fill.q # <<>>
        /\ Len(fill.q) \in Nat /\ fill.seen \in Nat /\ Len(fill.q) <= fill.seen
        /\ Distinct(fill.q) /\ BasesOnly(fill.q) /\ kernel_rx \subseteq Frames
    BY Types, Parts DEF Counters, Queues, FrameBasesOnly, KernelTakesFill
  <1>2. fill' = [fill EXCEPT !.q = Tail(@)] /\ kernel_rx' = kernel_rx \cup {h.frame}
    BY DEF KernelTakesFill
  <1>3. /\ fill' \in RingOf(A) /\ fill'.q = Tail(fill.q) /\ fill'.seen = fill.seen
        /\ Len(Tail(fill.q)) = Len(fill.q) - 1
    BY <1>1, <1>2, KernelPops
  <1>4. /\ h \in A /\ FramesOf(fill.q) = FramesOf(fill'.q) \cup {h.frame}
        /\ Distinct(fill'.q) /\ h.frame \notin FramesOf(fill'.q) /\ BasesOnly(fill'.q)
    <2>1. /\ h \in A /\ FramesOf(fill.q) = FramesOf(Tail(fill.q)) \cup {h.frame}
          /\ Distinct(Tail(fill.q)) /\ h.frame \notin FramesOf(Tail(fill.q))
          /\ BasesOnly(Tail(fill.q))
      BY <1>1, TailFrames
    <2>2. QED
      BY <1>3, <2>1
  <1>5. h.frame \in Frames
    BY <1>4 DEF A, Addrs
  <1>6. Len(fill'.q) <= fill'.seen
    BY SMTT(30), <1>1, <1>3
  <1> HIDE DEF h
  <1>7. UNCHANGED <<alloc, tx, cq, staged, rx, i, kernel_tx, outstanding, RxPending, KernelTxFrames>>
    BY DEF KernelTakesFill, servicevars, RxPending, KernelTxFrames
  <1>8. Owns
    BY <1>2, <1>4, <1>7 DEF Owns, Ownership!Next, Ownership!TakeFill, Ownership!Moves
  <1>9. Queues' /\ FrameBasesOnly' /\ OutstandingExact'
    BY <1>4, <1>7, Parts DEF Queues, FrameBasesOnly, OutstandingExact
  <1>10. kernel_rx' \in SUBSET Frames
    BY <1>1, <1>2, <1>5
  <1>11. TypeOK'
    BY <1>3, <1>10, Parts DEF TypeOK, A, KernelTakesFill, servicevars
  <1>12. Counters'
    BY <1>6, Parts DEF Counters, NothingLeftStaged, TxWindow, KernelTakesFill, servicevars
  <1>13. QED
    BY <1>8, <1>9, <1>11, <1>12, Conserved

\* A received packet is appended behind the window the worker holds.
LEMMA KernelDeliversStep ==
  ASSUME IInv, NEW f \in kernel_rx, NEW off \in RxOffsets, KernelDelivers(f, off)
  PROVE  IInv' /\ Owns
  <1> DEFINE a == Addr(f, off)
  <1>1. /\ rx \in RingOf(A) /\ rx.q \in Seq(A) /\ Len(rx.q) \in Nat /\ rx.seen \in Nat
        /\ rx.seen <= Len(rx.q) /\ i \in 0..Len(rx.q) /\ kernel_rx \subseteq Frames
        /\ Distinct(RxPending) /\ kernel_rx \cap FramesOf(RxPending) = {}
    BY Types, Parts, Apart DEF Counters, Queues
  <1>2. Len(rx.q) < N
    BY DEF KernelDelivers
  <1>3. a \in A /\ a.frame = f
    BY <1>1 DEF A, Addrs, Addr, Offsets
  <1>4. rx' = [rx EXCEPT !.q = Append(@, a)] /\ kernel_rx' = kernel_rx \ {f}
    BY DEF KernelDelivers
  <1> HIDE DEF a
  <1>5. /\ rx' \in RingOf(A) /\ rx'.q = Append(rx.q, a) /\ rx'.seen = rx.seen
        /\ Len(Append(rx.q, a)) = Len(rx.q) + 1
    BY SMTT(30), <1>1, <1>3, <1>4, KernelPushes
  <1>6. Len(rx'.q) <= N /\ rx'.seen <= Len(rx'.q)
    BY SMTT(30), <1>1, <1>2, <1>5, Constants
  <1>7. UNCHANGED <<alloc, tx, cq, staged, fill, i, n, kernel_tx, outstanding, KernelTxFrames>>
    BY DEF KernelDelivers, servicevars, KernelTxFrames
  <1>8. RxPending' = Append(RxPending, a) /\ RxPending \in Seq(A)
    BY SMTT(30), <1>1, <1>3, <1>5, <1>7, DropAppend, FramesOfCut DEF RxPending
  <1>9. f \notin FramesOf(RxPending)
    BY <1>1
  <1>10. FramesOf(RxPending') = FramesOf(RxPending) \cup {f} /\ Distinct(RxPending')
    BY <1>1, <1>3, <1>8, <1>9, FramesOfAppend
  <1>11. Owns
    BY <1>4, <1>7, <1>10 DEF Owns, Ownership!Next, Ownership!Deliver, Ownership!Moves
  <1>12. Queues' /\ FrameBasesOnly' /\ OutstandingExact'
    BY <1>7, <1>10, Parts DEF Queues, FrameBasesOnly, OutstandingExact
  <1>13. TypeOK'
    BY SMTT(30), <1>4, <1>5, Parts DEF TypeOK, A, KernelDelivers, servicevars
  <1>14. Counters'
    BY <1>5, <1>6, Parts DEF Counters, NothingLeftStaged, TxWindow, KernelDelivers, servicevars
  <1>15. QED
    BY <1>11, <1>12, <1>13, <1>14, Conserved

\* The kernel takes a descriptor from the TX ring.
LEMMA KernelTakesTxStep ==
  ASSUME IInv, KernelTakesTx
  PROVE  IInv' /\ Owns
  <1> DEFINE h == Head(tx.q)
  <1>1. /\ tx \in RingOf(A) /\ tx.q \in Seq(A) /\ tx.q # <<>>
        /\ Len(tx.q) \in Nat /\ tx.seen \in Nat /\ Len(tx.q) <= tx.seen
        /\ Distinct(tx.q) /\ FramesOf(tx.q) \cap KernelTxFrames = {}
        /\ kernel_tx \subseteq A /\ IsFiniteSet(kernel_tx) /\ Cardinality(kernel_tx) \in Nat
        /\ Len(cq.q) \in Nat
    BY Types, Parts, Apart DEF Counters, Queues, KernelTakesTx
  <1>2. /\ tx' = [tx EXCEPT !.q = Tail(@)] /\ kernel_tx' = kernel_tx \cup {h}
        /\ Len(cq.q) + Cardinality(kernel_tx) < N
    BY DEF KernelTakesTx
  <1>3. /\ tx' \in RingOf(A) /\ tx'.q = Tail(tx.q) /\ tx'.seen = tx.seen
        /\ Len(Tail(tx.q)) = Len(tx.q) - 1
    BY <1>1, <1>2, KernelPops
  <1>4. /\ h \in A /\ FramesOf(tx.q) = FramesOf(tx'.q) \cup {h.frame}
        /\ Distinct(tx'.q) /\ h.frame \notin FramesOf(tx'.q)
    <2>1. /\ h \in A /\ FramesOf(tx.q) = FramesOf(Tail(tx.q)) \cup {h.frame}
          /\ Distinct(Tail(tx.q)) /\ h.frame \notin FramesOf(Tail(tx.q))
      BY <1>1, TailFrames
    <2>2. QED
      BY <1>3, <2>1
  <1> HIDE DEF h
  <1>5. h.frame \notin KernelTxFrames /\ h \notin kernel_tx
    BY <1>1, <1>4 DEF KernelTxFrames
  <1>6. KernelTxFrames' = KernelTxFrames \cup {h.frame}
    BY <1>2 DEF KernelTxFrames
  <1>7. \A a, b \in kernel_tx' : a.frame = b.frame => a = b
    BY <1>2, <1>5, Parts DEF Queues, KernelTxFrames
  <1>8. IsFiniteSet(kernel_tx') /\ Cardinality(kernel_tx') = Cardinality(kernel_tx) + 1
    BY <1>1, <1>2, <1>5, FS_AddElement
  <1>9. UNCHANGED <<alloc, cq, staged, fill, rx, i, n, kernel_rx, outstanding, RxPending>>
    BY DEF KernelTakesTx, servicevars, rvars, RxPending
  <1>10. Owns
    BY <1>4, <1>6, <1>9 DEF Owns, Ownership!Next, Ownership!TakeTx, Ownership!Moves
  <1>11. Queues' /\ FrameBasesOnly'
    BY <1>4, <1>7, <1>9, Parts DEF Queues, FrameBasesOnly
  <1>12. Len(tx'.q) <= tx'.seen /\ Len(cq'.q) + Cardinality(kernel_tx') <= N
    BY SMTT(30), <1>1, <1>2, <1>3, <1>8, <1>9, Constants
  <1>13. OutstandingExact'
    <2> DEFINE t == Len(tx.q)
               c == Cardinality(kernel_tx)
    <2>1. t \in Nat /\ c \in Nat /\ Len(tx'.q) = t - 1 /\ Cardinality(kernel_tx') = c + 1
      BY <1>1, <1>3, <1>8
    <2>2. outstanding' = t + c + Len(cq'.q)
      BY <1>9, Parts DEF OutstandingExact
    <2> HIDE DEF t, c
    <2>3. (t - 1) + (c + 1) = t + c
      BY SMTT(30), <2>1
    <2>4. QED
      BY <2>1, <2>2, <2>3 DEF OutstandingExact
  <1>14. TypeOK'
    BY <1>1, <1>2, <1>3, <1>4, Parts DEF TypeOK, A, KernelTakesTx, servicevars, rvars
  <1>15. Counters'
    <2>1. UNCHANGED <<pc, reserved, tx_avail, tx.seen>>
      BY <1>3 DEF KernelTakesTx, servicevars
    <2>2. QED
      BY <1>8, <1>9, <1>12, <2>1, Parts DEF Counters, NothingLeftStaged, TxWindow
  <1>16. QED
    BY <1>10, <1>11, <1>13, <1>14, <1>15, Conserved

\* A transmission completes.
LEMMA KernelCompletesStep ==
  ASSUME IInv, NEW a \in kernel_tx, KernelCompletes(a)
  PROVE  IInv' /\ Owns
  <1>1. /\ cq \in RingOf(A) /\ cq.q \in Seq(A) /\ Len(cq.q) \in Nat /\ cq.seen \in Nat
        /\ cq.seen <= Len(cq.q) /\ Len(cq.q) + Cardinality(kernel_tx) <= N
        /\ Distinct(cq.q) /\ KernelTxFrames \cap FramesOf(cq.q) = {}
        /\ kernel_tx \subseteq A /\ IsFiniteSet(kernel_tx) /\ Cardinality(kernel_tx) \in Nat
        /\ a \in A /\ Len(tx.q) \in Nat
    BY Types, Parts, Apart DEF Counters, Queues
  <1>2. cq' = [cq EXCEPT !.q = Append(@, a)] /\ kernel_tx' = kernel_tx \ {a}
    BY DEF KernelCompletes
  <1>3. /\ cq' \in RingOf(A) /\ cq'.q = Append(cq.q, a) /\ cq'.seen = cq.seen
        /\ Len(Append(cq.q, a)) = Len(cq.q) + 1
    BY SMTT(30), <1>1, <1>2, KernelPushes
  <1>4. a.frame \in KernelTxFrames /\ a.frame \notin FramesOf(cq.q)
    BY <1>1 DEF KernelTxFrames
  <1>5. FramesOf(cq'.q) = FramesOf(cq.q) \cup {a.frame} /\ Distinct(cq'.q)
    <2>1. /\ FramesOf(Append(cq.q, a)) = FramesOf(cq.q) \cup {a.frame}
          /\ Distinct(Append(cq.q, a))
      BY SMTT(30), <1>1, <1>4, FramesOfAppend
    <2>2. QED
      BY <1>3, <2>1
  <1>6. KernelTxFrames' = KernelTxFrames \ {a.frame}
    BY <1>2, Parts DEF KernelTxFrames, Queues
  <1>7. IsFiniteSet(kernel_tx') /\ Cardinality(kernel_tx') = Cardinality(kernel_tx) - 1
    BY <1>1, <1>2, FS_RemoveElement
  <1>8. UNCHANGED <<alloc, tx, staged, fill, rx, i, n, kernel_rx, outstanding, RxPending>>
    BY DEF KernelCompletes, servicevars, rvars, RxPending
  <1>9. Owns
    BY <1>4, <1>5, <1>6, <1>8 DEF Owns, Ownership!Next, Ownership!Complete, Ownership!Moves
  <1>10. Queues' /\ FrameBasesOnly'
    BY <1>2, <1>5, <1>8, Parts DEF Queues, FrameBasesOnly
  <1>11. OutstandingExact' /\ Len(cq'.q) + Cardinality(kernel_tx') <= N
    <2> DEFINE l == Len(cq.q)
               c == Cardinality(kernel_tx)
               t == Len(tx.q)
    <2>1. /\ t \in Nat /\ l \in Nat /\ c \in Nat /\ l + c <= N
          /\ Len(cq'.q) = l + 1 /\ Cardinality(kernel_tx') = c - 1
      BY <1>1, <1>3, <1>7
    <2>2. outstanding' = t + c + l /\ tx' = tx
      BY <1>8, Parts DEF OutstandingExact
    <2>3. Len(tx'.q) = t
      BY <2>2
    <2> HIDE DEF t, c, l
    <2>4. t + (c - 1) + (l + 1) = t + c + l /\ (l + 1) + (c - 1) <= N
      BY SMTT(30), <2>1, Constants
    <2>5. QED
      BY <2>1, <2>2, <2>3, <2>4 DEF OutstandingExact
  <1>12. cq'.seen <= Len(cq'.q)
    BY SMTT(30), <1>1, <1>3
  <1>13. TypeOK'
    BY SMTT(30), <1>1, <1>2, <1>3, Parts DEF TypeOK, A, KernelCompletes, servicevars, rvars
  <1>14. Counters'
    <2>1. UNCHANGED <<pc, reserved, tx_avail>>
      BY DEF KernelCompletes, servicevars
    <2>2. QED
      BY <1>7, <1>8, <1>11, <1>12, <2>1, Parts DEF Counters, NothingLeftStaged, TxWindow
  <1>15. QED
    BY <1>9, <1>10, <1>11, <1>13, <1>14, Conserved

(***************************************************************************)
(* The callback.                                                           *)
(***************************************************************************)

\* A window with room for what is staged, and within the ring.
Roomy(w) ==
  /\ w.ring \in RingOf(A) /\ w.ring.q = tx.q /\ Len(tx.q) <= w.ring.seen
  /\ w.avail \in 0..N /\ w.avail + w.ring.seen <= N
  /\ w.written = staged /\ Len(staged) <= w.avail

\* A window asked for anew reaches to the end of the ring.
LEMMA AskForWindowFacts ==
  ASSUME IInv, NEW r \in RingOf(A), r.q = tx.q, Len(tx.q) <= r.seen, r.seen + Len(staged) <= N
  PROVE  Roomy(AskForWindow(r, staged))
  <1> DEFINE w == Writable(r, N)
             k == WritableAmount(r.q, r.seen, N)
  <1>1. /\ w \in RingOf(A) /\ w.q = r.q /\ Len(r.q) <= w.seen /\ w.seen <= r.seen
        /\ k \in Nat /\ k + w.seen = N
    BY WritableFacts
  <1>2. r.seen \in Nat /\ w.seen \in Nat /\ Len(staged) \in Nat
    BY <1>1, RingFields, Types
  <1>3. AskForWindow(r, staged) = [ring |-> w, avail |-> k, written |-> staged]
    BY DEF AskForWindow, Window
  <1> HIDE DEF w, k
  <1>4. k \in 0..N /\ k + w.seen <= N /\ Len(staged) <= k
    BY SMTT(30), <1>1, <1>2, Constants
  <1>5. QED
    BY SMTT(30), <1>1, <1>3, <1>4 DEF Roomy

\* send_in_place works on a window that has room for what is staged, the
\* first time and after it asked again.
LEMMA RoomyWindowFacts ==
  ASSUME IInv
  PROVE  Roomy(RoomyWindow)
  <1>1. /\ tx \in RingOf(A) /\ Len(tx.q) <= tx.seen /\ tx.seen \in Nat /\ tx.seen <= N
        /\ tx_avail \in 0..N /\ Len(staged) \in Nat /\ tx.seen + Len(staged) <= N
    BY Types, Parts DEF TypeOK, Counters, IInv, NothingOverflows
  <1>2. Roomy(OpenWindow)
    <2>1. CASE reserved
      <3>1. OpenWindow = [ring |-> tx, avail |-> tx_avail, written |-> staged]
        BY <2>1 DEF OpenWindow, Window
      <3>2. tx_avail + tx.seen <= N /\ Len(staged) <= tx_avail
        BY <2>1, Parts DEF Counters, TxWindow
      <3>3. QED
        BY <3>1, <3>2, <1>1 DEF Roomy
    <2>2. CASE ~reserved
      <3>1. staged = <<>>
        BY <2>2, Parts DEF Counters, TxWindow
      <3>2. OpenWindow = AskForWindow(tx, staged)
        BY <2>2, <3>1 DEF OpenWindow
      <3>3. QED
        BY <3>2, <1>1, AskForWindowFacts
    <2>3. QED
      BY <2>1, <2>2
  <1> DEFINE w == OpenWindow
  <1>3. RoomyWindow = IF Len(w.written) = w.avail THEN AskForWindow(w.ring, w.written) ELSE w
    BY DEF RoomyWindow
  <1>4. Roomy(w)
    BY <1>2
  <1> HIDE DEF w
  <1>5. w.written = staged
    BY <1>4 DEF Roomy
  <1>6. Roomy(AskForWindow(w.ring, staged))
    <2>1. /\ w.ring \in RingOf(A) /\ w.ring.q = tx.q /\ Len(tx.q) <= w.ring.seen
          /\ w.avail \in Nat /\ w.avail + w.ring.seen <= N /\ Len(staged) <= w.avail
      BY SMTT(30), <1>4, Constants DEF Roomy
    <2>2. w.ring.seen \in Nat
      BY <2>1, RingFields
    <2>3. w.ring.seen + Len(staged) <= N
      BY SMTT(30), <2>1, <2>2, <1>1, Constants
    <2>4. QED
      BY <2>1, <2>3, AskForWindowFacts
  <1>7. QED
    BY <1>3, <1>4, <1>5, <1>6

\* Whatever the strategy does, the frame is staged exactly when it says so,
\* and what is staged stays within the window.
LEMMA StrategyFacts ==
  ASSUME IInv, NEW addr \in A, NEW transferred \in BOOLEAN,
         \/ ~transferred /\ UNCHANGED txvars
         \/ \E len_ok \in BOOLEAN : SendInPlace(addr, len_ok, transferred)
  PROVE  /\ tx' \in RingOf(A) /\ tx'.q = tx.q /\ Len(tx.q) <= tx'.seen
         /\ tx_avail' \in 0..N /\ reserved' \in BOOLEAN
         /\ staged' = IF transferred THEN Append(staged, addr) ELSE staged
         /\ TxWindow'
  <1>1. CASE ~transferred /\ UNCHANGED txvars
    BY <1>1, Types, Parts DEF txvars, TypeOK, Counters, TxWindow
  <1>2. ASSUME NEW len_ok \in BOOLEAN, SendInPlace(addr, len_ok, transferred), len_ok
        PROVE  /\ tx' \in RingOf(A) /\ tx'.q = tx.q /\ Len(tx.q) <= tx'.seen
               /\ tx_avail' \in 0..N /\ reserved' \in BOOLEAN
               /\ staged' = IF transferred THEN Append(staged, addr) ELSE staged
               /\ TxWindow'
    <2> DEFINE w == RoomyWindow
    <2>1. Roomy(w)
      BY RoomyWindowFacts
    <2>2. /\ transferred = (Len(w.written) # w.avail)
          /\ tx' = w.ring /\ tx_avail' = w.avail /\ reserved' = TRUE
          /\ staged' = IF transferred THEN Append(w.written, addr) ELSE w.written
      BY <1>2 DEF SendInPlace
    <2> HIDE DEF w
    <2>3. /\ tx' \in RingOf(A) /\ tx'.q = tx.q /\ Len(tx.q) <= tx'.seen
          /\ tx_avail' \in 0..N /\ tx_avail' + tx'.seen <= N
          /\ w.written = staged /\ Len(staged) <= tx_avail'
      BY <2>1, <2>2 DEF Roomy
    <2>4. staged' = IF transferred THEN Append(staged, addr) ELSE staged
      BY <2>2, <2>3
    <2>5. Len(staged') <= tx_avail'
      <3>1. staged \in Seq(A) /\ Len(staged) \in Nat /\ tx_avail' \in Nat
        BY SMTT(30), <2>3, Types, Constants
      <3>2. CASE transferred
        <4>1. Len(staged) # tx_avail' /\ Len(staged) <= tx_avail'
          BY <2>2, <2>3, <3>2
        <4>2. Len(staged') = Len(staged) + 1
          BY SMTT(30), <2>4, <3>1, <3>2
        <4>3. Len(staged) + 1 <= tx_avail'
          BY SMTT(30), <3>1, <4>1
        <4>4. QED
          BY <4>2, <4>3
      <3>3. CASE ~transferred
        BY <2>3, <2>4, <3>3
      <3>4. QED
        BY <3>2, <3>3
    <2>6. QED
      BY <2>2, <2>3, <2>4, <2>5 DEF TxWindow
  <1>3. ASSUME NEW len_ok \in BOOLEAN, SendInPlace(addr, len_ok, transferred), ~len_ok
        PROVE  ~transferred /\ UNCHANGED txvars
    BY <1>3 DEF SendInPlace
  <1>4. QED
    BY <1>1, <1>2, <1>3

\* The callback disposes of the next entry: the frame is staged or free again.
LEMMA CallbackStep ==
  ASSUME IInv, NEW outcome, Callback(outcome), UNCHANGED <<kvars, expired>>
  PROVE  IInv' /\ Owns
  <1> DEFINE addr == rx.q[i + 1]
             p == RxPending
             transferred == outcome = "staged"
  <1>1. /\ transferred \in BOOLEAN
        /\ \/ ~transferred /\ UNCHANGED txvars
           \/ \E len_ok \in BOOLEAN : SendInPlace(addr, len_ok, transferred)
        /\ alloc' = IF transferred THEN alloc ELSE FreeAll(alloc, <<addr>>)
    BY DEF Callback, Strategy
  <1>2. /\ pc = "callback" /\ i < n /\ i' = i + 1 /\ n <= rx.seen /\ rx.seen <= Len(rx.q)
        /\ i \in Nat /\ n \in Nat /\ n <= N /\ rx.seen \in Nat /\ Len(rx.q) \in Nat
        /\ rx.q \in Seq(A) /\ i \in 0..Len(rx.q)
    BY Types, Parts DEF Callback, Counters
  <1>3. i < Len(rx.q) /\ i + 1 \in 1..Len(rx.q) /\ i' \in 0..N /\ i' <= n
    BY SMTT(30), <1>2, Constants
  <1>4. addr \in A
    BY SMTT(30), <1>2, <1>3
  <1>5. p \in Seq(A) /\ p # <<>> /\ Head(p) = addr /\ Tail(p) = DropFirst(rx.q, i + 1)
    <2>1. DropFirst(rx.q, i) \in Seq(A)
      BY <1>2, FramesOfCut
    <2>2. /\ DropFirst(rx.q, i) # <<>> /\ Head(DropFirst(rx.q, i)) = rx.q[i + 1]
          /\ Tail(DropFirst(rx.q, i)) = DropFirst(rx.q, i + 1)
      BY <1>2, <1>3, DropTwice
    <2>3. QED
      BY <2>1, <2>2 DEF RxPending
  <1>6. rx' = rx /\ RxPending' = Tail(p)
    BY <1>2, <1>5 DEF Callback, RxPending
  <1>7. /\ alloc \in Seq(A) /\ staged \in Seq(A) /\ Distinct(p) /\ Distinct(alloc) /\ Distinct(staged)
        /\ BasesOnly(alloc)
        /\ FramesOf(alloc) \cap FramesOf(p) = {} /\ FramesOf(p) \cap FramesOf(staged) = {}
    BY Types, Parts, Apart DEF Queues, FrameBasesOnly
  <1> HIDE DEF addr, p, transferred
  <1>8. /\ FramesOf(p) = FramesOf(Tail(p)) \cup {addr.frame}
        /\ Distinct(Tail(p)) /\ addr.frame \notin FramesOf(Tail(p))
    BY <1>5, <1>7, TailFrames
  <1>9. addr.frame \notin FramesOf(alloc) /\ addr.frame \notin FramesOf(staged)
    BY <1>7, <1>8
  <1>10. /\ tx' \in RingOf(A) /\ tx'.q = tx.q /\ Len(tx.q) <= tx'.seen
         /\ tx_avail' \in 0..N /\ reserved' \in BOOLEAN
         /\ staged' = IF transferred THEN Append(staged, addr) ELSE staged
         /\ TxWindow'
    BY <1>1, <1>4, StrategyFacts
  <1>11. UNCHANGED <<fill, cq, kernel_rx, kernel_tx, KernelTxFrames, outstanding, n, pc>>
    BY DEF Callback, kvars, KernelTxFrames
  <1>12. /\ alloc' \in Seq(A) /\ staged' \in Seq(A)
         /\ Distinct(alloc') /\ Distinct(staged') /\ BasesOnly(alloc')
         /\ Owns
    <2>1. CASE transferred
      <3>1. staged' = Append(staged, addr) /\ alloc' = alloc
        BY <1>1, <1>10, <2>1
      <3>2. /\ FramesOf(staged') = FramesOf(staged) \cup {addr.frame}
            /\ Distinct(staged') /\ staged' \in Seq(A)
        BY SMTT(30), <1>4, <1>7, <1>9, <3>1, FramesOfAppend
      <3>3. Owns
        BY <1>6, <1>8, <1>10, <1>11, <3>1, <3>2
           DEF Owns, Ownership!Next, Ownership!Stage, Ownership!Moves, p
      <3>4. QED
        BY <1>7, <3>1, <3>2, <3>3
    <2>2. CASE ~transferred
      <3>1. staged' = staged /\ alloc' = FreeAll(alloc, <<addr>>)
        BY <1>1, <1>10, <2>2
      <3>2. <<addr>> \in Seq(A) /\ FramesOf(<<addr>>) = {addr.frame} /\ Distinct(<<addr>>)
        <4>1. <<addr>> \in Seq(A) /\ Len(<<addr>>) = 1 /\ <<addr>>[1] = addr
          BY SMTT(30), <1>4
        <4>2. QED
          BY SMTT(30), <4>1 DEF FramesOf, Distinct
      <3>3. FramesOf(alloc) \cap FramesOf(<<addr>>) = {}
        BY <1>9, <3>2
      <3>4. /\ alloc' \in Seq(A) /\ FramesOf(alloc') = FramesOf(alloc) \cup FramesOf(<<addr>>)
            /\ Distinct(alloc') /\ BasesOnly(alloc')
        BY <1>7, <3>1, <3>2, <3>3, Frees
      <3>5. FramesOf(alloc') = FramesOf(alloc) \cup {addr.frame}
        BY <3>2, <3>4
      <3>6. Owns
        BY <1>6, <1>8, <1>10, <1>11, <3>1, <3>5
           DEF Owns, Ownership!Next, Ownership!Recycle, Ownership!Moves, p
      <3>7. QED
        BY <1>7, <3>1, <3>4, <3>6
    <2>3. QED
      BY <2>1, <2>2
  <1>13. Queues' /\ FrameBasesOnly' /\ OutstandingExact'
    BY <1>6, <1>8, <1>10, <1>11, <1>12, Parts DEF Queues, FrameBasesOnly, OutstandingExact
  <1>14. TypeOK'
    BY <1>3, <1>10, <1>12, Parts DEF TypeOK, A, Callback, kvars
  <1>15. Counters'
    BY <1>2, <1>3, <1>6, <1>10, <1>11, Parts DEF Counters, NothingLeftStaged
  <1>16. QED
    BY <1>12, <1>13, <1>14, <1>15, Conserved

(***************************************************************************)
(* The results.                                                            *)
(***************************************************************************)

\* The freshly constructed engine: all frames are in the allocator.
LEMMA InitInvariant == Init => IInv /\ Ownership!Init
  <1> SUFFICES ASSUME Init PROVE IInv /\ Ownership!Init
    OBVIOUS
  <1> USE DEF Init, TransmitterInit, ReceiverInit
  <1>1. /\ FramesOf(AllFree) = Frames /\ Distinct(AllFree) /\ BasesOnly(AllFree)
        /\ Len(AllFree) = NumFrames /\ AllFree \in Seq(A)
    BY AllFreeFrames, Constants DEF A
  <1>2. EmptyRing \in RingOf(A) /\ EmptyRing.q = <<>> /\ EmptyRing.seen = 0
    BY SMTT(30), Constants DEF EmptyRing, RingOf
  <1>3. /\ Len(<<>>) = 0 /\ FramesOf(<<>>) = {} /\ Distinct(<<>>) /\ BasesOnly(<<>>)
        /\ <<>> \in Seq(A) /\ 0 \in 0..N
    BY SMTT(30), NoFrames, Constants DEF BasesOnly
  <1>4. RxPending = <<>>
    BY SMTT(30), <1>2 DEF RxPending, DropFirst
  <1>5. KernelTxFrames = {} /\ IsFiniteSet({}) /\ Cardinality({}) = 0
    BY FS_EmptySet DEF KernelTxFrames
  <1>6. TypeOK
    BY <1>1, <1>2, <1>3 DEF TypeOK, A
  <1>7. Ownership!Init
    BY <1>1, <1>2, <1>3, <1>4, <1>5 DEF Ownership!Init
  <1>8. Ownership!OneOwnerEach
    BY <1>7 DEF Ownership!Init, Ownership!OneOwnerEach
  <1>9. FrameConservation /\ FrameBasesOnly
    BY <1>1, <1>2, <1>3, <1>4, <1>8 DEF FrameConservation, FrameBasesOnly
  <1>10. OutstandingExact
    BY SMTT(30), <1>2, <1>3, <1>5 DEF OutstandingExact
  <1>11. NothingOverflows
    BY SMTT(30), <1>1, <1>2, <1>3, <1>5, Constants DEF NothingOverflows
  <1>12. NothingLeftStaged /\ TxWindow
    BY DEF NothingLeftStaged, TxWindow
  <1>13. QED
    BY <1>5, <1>6, <1>7, <1>9, <1>10, <1>11, <1>12 DEF IInv

\* Every step of the worker, the kernel and the control thread keeps the
\* invariant and is a step along the ownership cycle or moves no frame.
LEMMA NextInvariant == IInv /\ [Next]_vars => IInv' /\ Owns
  <1> SUFFICES ASSUME IInv, [Next]_vars PROVE IInv' /\ Owns
    OBVIOUS
  <1>1. CASE WorkerStep
    BY <1>1, QuietSteps, RxPollStep, CallbackStep, ReleaseRxStep, RefillSteps
       DEF WorkerStep, QuietStep
  <1>2. CASE ServiceStep
    BY <1>2, QuietSteps, PublishTxStep, ReapSteps DEF ServiceStep, Service, QuietStep
  <1>3. CASE Control
    BY <1>3, QuietSteps DEF Control, QuietStep
  <1>4. CASE Kernel
    BY <1>4, QuietSteps, KernelTakesFillStep, KernelDeliversStep, KernelTakesTxStep,
       KernelCompletesStep DEF Kernel, QuietStep
  <1>5. CASE Finished \/ UNCHANGED vars
    BY <1>5, QuietSteps DEF Finished, QuietStep
  <1>6. QED
    BY <1>1, <1>2, <1>3, <1>4, <1>5 DEF Next

\* The inductive invariant holds of every reachable state of the engine.
THEOREM EngineInvariant == Spec => []IInv
  <1>1. Init => IInv
    BY InitInvariant
  <1>2. IInv /\ [Next]_vars => IInv'
    BY NextInvariant
  <1>3. QED
    BY <1>1, <1>2, PTL DEF Spec

\* The engine's variables (receiver.hpp, transmitter.hpp) keep their types.
THEOREM EngineTypeOK == Spec => []TypeOK
  <1>1. IInv => TypeOK
    BY DEF IInv
  <1>2. QED
    BY <1>1, EngineInvariant, PTL

\* Every UMEM frame is in exactly one place, once: FrameAllocator, FILL, RX,
\* the staged descriptors, TX, COMPLETION or the kernel.
THEOREM EngineFrameConservation == Spec => []FrameConservation
  <1>1. IInv => FrameConservation
    BY DEF IInv
  <1>2. QED
    BY <1>1, EngineInvariant, PTL

\* Only masked addresses are freed and refilled.
THEOREM EngineFrameBasesOnly == Spec => []FrameBasesOnly
  <1>1. IInv => FrameBasesOnly
    BY DEF IInv
  <1>2. QED
    BY <1>1, EngineInvariant, PTL

\* outstanding_ counts exactly the published descriptors not yet reclaimed.
THEOREM EngineOutstandingExact == Spec => []OutstandingExact
  <1>1. IInv => OutstandingExact
    BY DEF IInv
  <1>2. QED
    BY <1>1, EngineInvariant, PTL

\* No ring and no allocator array overflows, and no window exceeds what is
\* published.
THEOREM EngineNothingOverflows == Spec => []NothingOverflows
  <1>1. IInv => NothingOverflows
    BY DEF IInv
  <1>2. QED
    BY <1>1, EngineInvariant, PTL

\* Outside the callback and the publication nothing is staged.
THEOREM EngineNothingLeftStaged == Spec => []NothingLeftStaged
  <1>1. IInv => NothingLeftStaged
    BY DEF IInv
  <1>2. QED
    BY <1>1, EngineInvariant, PTL

\* The ownership cycle of the frames (receiver.hpp, transmitter.hpp) keeps
\* exactly one owner for each of them.
THEOREM OneOwner == OwnershipSpec => []Ownership!OneOwnerEach
  <1>1. Ownership!Init => Ownership!OneOwnerEach
    BY DEF Ownership!Init, Ownership!OneOwnerEach
  <1>2. QED
    BY <1>1, OwnersMove, PTL DEF OwnershipSpec, Ownership!Spec

\* The engine implements FrameOwnership: frames move only along the cycle.
THEOREM EngineImplementsOwnership == Spec => OwnershipSpec
  <1>1. Init => Ownership!Init
    BY InitInvariant
  <1>2. IInv /\ [Next]_vars => [Ownership!Next]_(Ownership!vars)
    BY NextInvariant DEF Owns
  <1>3. QED
    BY <1>1, <1>2, EngineInvariant, PTL DEF Spec, OwnershipSpec, Ownership!Spec
=============================================================================
