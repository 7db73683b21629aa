---------------------------- MODULE SamplesProofs ----------------------------
(***************************************************************************)
(* Theorems about Samples, for every capacity, every set of durations and  *)
(* every set of percentiles: what report prints are quantiles of what was  *)
(* measured, and a CSV reported as exported is sorted and complete.        *)
(***************************************************************************)
EXTENDS Samples, FiniteSetTheorems, SequenceTheorems, WellFoundedInduction, TLAPS

\* Ticks are converted by a division whose divisor is not zero.
LEMMA TicksPerNsPositive == TicksPerNs \in Nat \ {0}
  BY SamplesAssumption

\* A duration is printed as a natural number.
LEMMA NanosecondsNat == ASSUME NEW t \in Nat PROVE Nanoseconds(t) \in Nat
  <1> DEFINE d == 2 * TicksPerNs
  <1>1. d \in Nat \ {0} /\ 2 * t + TicksPerNs \in Nat
    BY TicksPerNsPositive
  <1> HIDE DEF d
  <1>2. \A a \in Nat : a \div d \in Nat
    BY <1>1
  <1> QED BY <1>1, <1>2 DEF Nanoseconds, d

\* The conversion keeps the order of the durations.
LEMMA NanosecondsMonotone ==
  ASSUME NEW t \in Nat, NEW u \in Nat, t =< u
  PROVE  Nanoseconds(t) =< Nanoseconds(u)
  <1> DEFINE d == 2 * TicksPerNs
  <1>1. d \in Nat \ {0} /\ 2 * t + TicksPerNs \in Nat /\ 2 * u + TicksPerNs \in Nat
        /\ 2 * t + TicksPerNs =< 2 * u + TicksPerNs
    BY TicksPerNsPositive
  <1> HIDE DEF d
  <1>2. \A a, b \in Nat : a =< b => a \div d =< b \div d
    BY <1>1
  <1> QED BY <1>1, <1>2 DEF Nanoseconds, d

\* A nonempty set of naturals has a least element.
LEMMA Least ==
  ASSUME NEW S, S \subseteq Nat, S # {}
  PROVE  \E m \in S : \A n \in S : m =< n
  <1>1. PICK m \in S : \A n \in S : ~ (<<n, m>> \in OpToRel(<, Nat))
    BY WFMin, NatLessThanWellFounded
  <1>2. \A n \in S : ~ (n < m)
    BY <1>1 DEF OpToRel
  <1> QED BY <1>2

-----------------------------------------------------------------------------
\* The elements of S whose value has a given property are counted by a natural
\* number that does not exceed the count of a larger part of S.
LEMMA Counts ==
  ASSUME NEW S, IsFiniteSet(S), NEW T, T \subseteq S
  PROVE  /\ IsFiniteSet(T) /\ Cardinality(T) \in Nat
         /\ \A U : U \subseteq T => Cardinality(U) \in Nat /\ Cardinality(U) =< Cardinality(T)
         /\ \A U : U \subseteq T /\ Cardinality(U) = Cardinality(T) => U = T
  <1>1. IsFiniteSet(T) /\ Cardinality(T) \in Nat
    BY FS_Subset, FS_CardinalityType
  <1>2. ASSUME NEW U, U \subseteq T
        PROVE  /\ Cardinality(U) \in Nat /\ Cardinality(U) =< Cardinality(T)
               /\ Cardinality(U) = Cardinality(T) => U = T
    BY <1>1, <1>2, FS_Subset, FS_CardinalityType
  <1> QED BY <1>1, <1>2

\* The positions of a sequence of naturals.
LEMMA Positions ==
  ASSUME NEW s \in Seq(Nat)
  PROVE  /\ Len(s) \in Nat /\ DOMAIN s = 1..Len(s) /\ IsFiniteSet(DOMAIN s)
         /\ Cardinality(DOMAIN s) = Len(s) /\ \A i \in DOMAIN s : s[i] \in Nat
  <1>1. Len(s) \in Nat /\ DOMAIN s = 1..Len(s) /\ \A i \in DOMAIN s : s[i] \in Nat
    OBVIOUS
  <1>2. IsFiniteSet(1..Len(s)) /\ Cardinality(1..Len(s)) = Len(s)
    <2>1. 1 \in Int /\ Len(s) \in Int
      BY <1>1
    <2>2. IsFiniteSet(1..Len(s)) /\ Cardinality(1..Len(s)) = IF 1 > Len(s) THEN 0 ELSE Len(s) - 1 + 1
      BY <2>1, FS_Interval
    <2> QED BY <1>1, <2>2
  <1> QED BY <1>1, <1>2

\* A sequence of naturals that is not empty has a largest element.
LEMMA Largest ==
  ASSUME NEW s \in Seq(Nat), s # <<>>
  PROVE  \E v \in Nat : AtMost(s, v) = DOMAIN s
  <1> DEFINE Above(v) == {i \in DOMAIN s : v < s[i]}
             C == {Cardinality(Above(s[i])) : i \in DOMAIN s}
  <1>1. /\ DOMAIN s # {} /\ IsFiniteSet(DOMAIN s) /\ \A i \in DOMAIN s : s[i] \in Nat
    <2>1. Len(s) # 0
      OBVIOUS
    <2> QED BY <2>1, Positions
  <1>2. \A i \in DOMAIN s : Cardinality(Above(s[i])) \in Nat
    BY <1>1, Counts
  <1>3. C \subseteq Nat /\ C # {}
    BY <1>1, <1>2
  <1> HIDE DEF C
  <1>4. PICK c \in C : \A d \in C : c =< d
    BY <1>3, Least
  <1>5. PICK i \in DOMAIN s : c = Cardinality(Above(s[i]))
    BY DEF C
  <1>6. Above(s[i]) = {}
    <2> SUFFICES ASSUME NEW j \in Above(s[i]) PROVE FALSE
      OBVIOUS
    <2>1. j \in DOMAIN s /\ Above(s[j]) \subseteq Above(s[i]) /\ Above(s[j]) # Above(s[i])
      BY <1>1
    <2>2. Cardinality(Above(s[j])) =< Cardinality(Above(s[i])) /\ Cardinality(Above(s[j])) # Cardinality(Above(s[i]))
      <3>1. Above(s[i]) \subseteq DOMAIN s
        OBVIOUS
      <3> HIDE DEF Above
      <3> QED BY <1>1, <2>1, <3>1, Counts
    <2>3. Cardinality(Above(s[j])) \in C
      BY <2>1 DEF C
    <2> HIDE DEF Above
    <2>4. Cardinality(Above(s[i])) \in Nat /\ Cardinality(Above(s[j])) \in Nat
      BY <1>2, <2>1
    <2>5. Cardinality(Above(s[i])) =< Cardinality(Above(s[j]))
      BY <1>4, <1>5, <2>3
    <2> QED BY <2>2, <2>4, <2>5
  <1>7. AtMost(s, s[i]) = DOMAIN s
    <2>1. \A j \in DOMAIN s : s[j] =< s[i]
      BY <1>1, <1>6
    <2> QED BY <2>1 DEF AtMost
  <1> QED BY <1>1, <1>7

\* Every position holds some value: one that fewer than k elements lie below
\* and at least k do not exceed.
LEMMA KthSmallest ==
  ASSUME NEW s \in Seq(Nat), NEW k \in 1..Len(s)
  PROVE  \E v \in Range(s) :
           Cardinality(Below(s, v)) < k /\ k =< Cardinality(AtMost(s, v))
  <1> DEFINE V == {v \in Nat : k =< Cardinality(AtMost(s, v))}
  <1>1. /\ Len(s) \in Nat /\ IsFiniteSet(DOMAIN s) /\ Cardinality(DOMAIN s) = Len(s)
        /\ \A i \in DOMAIN s : s[i] \in Nat
    BY Positions
  <1>2. V # {}
    <2>1. s # <<>>
      BY <1>1
    <2>2. PICK v \in Nat : AtMost(s, v) = DOMAIN s
      BY <2>1, Largest
    <2> QED BY <1>1, <2>2
  <1>3. PICK v \in V : \A w \in V : v =< w
    BY <1>2, Least
  <1>4. \A w : AtMost(s, w) \subseteq DOMAIN s /\ Below(s, w) \subseteq DOMAIN s
    BY DEF AtMost, Below
  <1>5. Cardinality(Below(s, v)) < k
    <2>1. CASE v = 0
      <3>1. Below(s, v) = {}
        BY <1>1, <2>1 DEF Below
      <3> QED BY <3>1, FS_EmptySet
    <2>2. CASE v # 0
      <3>1. Below(s, v) = AtMost(s, v - 1)
        BY <1>1 DEF Below, AtMost
      <3>2. Cardinality(AtMost(s, v - 1)) \in Nat /\ v - 1 \in Nat /\ v - 1 \notin V
        BY <1>1, <1>3, <1>4, <2>2, Counts
      <3> QED BY <3>1, <3>2
    <2> QED BY <2>1, <2>2
  <1>6. Below(s, v) # AtMost(s, v)
    <2>1. Cardinality(Below(s, v)) \in Nat /\ Cardinality(AtMost(s, v)) \in Nat
      BY <1>1, <1>4, Counts
    <2> QED BY <1>5, <2>1
  <1>7. PICK i \in DOMAIN s : s[i] = v
    BY <1>1, <1>6 DEF Below, AtMost
  <1> QED BY <1>5, <1>7 DEF Range

\* What std::sort leaves at position k.
LEMMA SortedAt ==
  ASSUME NEW s \in Seq(Nat)
  PROVE  /\ Sorted(s) \in Seq(Nat) /\ Len(Sorted(s)) = Len(s) /\ DOMAIN Sorted(s) = 1..Len(s)
         /\ \A k \in 1..Len(s) :
              /\ Sorted(s)[k] \in Range(s) /\ Sorted(s)[k] \in Nat
              /\ Cardinality(Below(s, Sorted(s)[k])) < k
              /\ k =< Cardinality(AtMost(s, Sorted(s)[k]))
  <1>1. \A k \in 1..Len(s) : Sorted(s)[k] = CHOOSE v \in Range(s) :
                         Cardinality(Below(s, v)) < k /\ k =< Cardinality(AtMost(s, v))
    BY DEF Sorted
  <1>2. ASSUME NEW k \in 1..Len(s)
        PROVE  /\ Sorted(s)[k] \in Range(s)
               /\ Cardinality(Below(s, Sorted(s)[k])) < k
               /\ k =< Cardinality(AtMost(s, Sorted(s)[k]))
    BY <1>1, KthSmallest
  <1>3. Range(s) \subseteq Nat
    BY DEF Range
  <1>4. Sorted(s) \in [1..Len(s) -> Nat]
    <2>1. Sorted(s) = [k \in 1..Len(s) |-> Sorted(s)[k]]
      BY DEF Sorted
    <2>2. \A k \in 1..Len(s) : Sorted(s)[k] \in Nat
      BY <1>2, <1>3
    <2> QED BY <2>1, <2>2
  <1>5. Sorted(s) \in Seq(Nat) /\ Len(Sorted(s)) = Len(s)
    BY <1>4
  <1> QED BY <1>2, <1>3, <1>4, <1>5
-----------------------------------------------------------------------------
\* The positions of s whose durations print as at most b, and as a to b.
Upto(s, b)    == {k \in DOMAIN s : Nanoseconds(s[k]) =< b}
NsIn(s, a, b) == {k \in DOMAIN s : Nanoseconds(s[k]) \in a..b}

\* Their numbers are naturals.
LEMMA UptoCounts ==
  ASSUME NEW s \in Seq(Nat), NEW b \in Int
  PROVE  /\ IsFiniteSet(Upto(s, b)) /\ Cardinality(Upto(s, b)) \in Nat
         /\ Cardinality(Upto(s, b)) =< Len(s)
  <1>1. IsFiniteSet(DOMAIN s) /\ Cardinality(DOMAIN s) = Len(s)
    BY Positions
  <1>2. Upto(s, b) \subseteq DOMAIN s
    BY DEF Upto
  <1> QED BY <1>1, <1>2, Counts

\* The rank of a printed value: after sorting, the durations that print as at
\* most b are the first ones, as many as there were before.
LEMMA SortedRank ==
  ASSUME NEW s \in Seq(Nat), NEW k \in 1..Len(s), NEW b \in Int
  PROVE  Nanoseconds(Sorted(s)[k]) =< b <=> k =< Cardinality(Upto(s, b))
  <1> DEFINE v == Sorted(s)[k]
  <1>1. /\ v \in Nat /\ Cardinality(Below(s, v)) < k /\ k =< Cardinality(AtMost(s, v))
    BY SortedAt
  <1>2. k \in Nat /\ \A i \in DOMAIN s : s[i] \in Nat
    BY Positions
  <1> HIDE DEF v
  <1>3. \A i \in DOMAIN s : Nanoseconds(s[i]) \in Nat
    BY <1>2, NanosecondsNat
  <1>4. Nanoseconds(v) \in Nat
    BY <1>1, NanosecondsNat
  <1>5. \A i \in DOMAIN s : s[i] =< v => Nanoseconds(s[i]) =< Nanoseconds(v)
    BY <1>1, <1>2, NanosecondsMonotone
  <1>6. \A i \in DOMAIN s : v =< s[i] => Nanoseconds(v) =< Nanoseconds(s[i])
    BY <1>1, <1>2, NanosecondsMonotone
  <1>7. /\ IsFiniteSet(DOMAIN s) /\ Upto(s, b) \subseteq DOMAIN s
        /\ AtMost(s, v) \subseteq DOMAIN s /\ Below(s, v) \subseteq DOMAIN s
    BY Positions DEF Upto, AtMost, Below
  <1>8. /\ Cardinality(Upto(s, b)) \in Nat /\ Cardinality(AtMost(s, v)) \in Nat
        /\ Cardinality(Below(s, v)) \in Nat
    BY <1>7, Counts
  <1>9. ASSUME Nanoseconds(v) =< b PROVE k =< Cardinality(Upto(s, b))
    <2>1. AtMost(s, v) \subseteq Upto(s, b)
      BY <1>3, <1>4, <1>5, <1>9 DEF AtMost, Upto
    <2>2. Cardinality(AtMost(s, v)) =< Cardinality(Upto(s, b))
      BY <1>7, <2>1, Counts
    <2> QED BY <1>1, <1>2, <1>8, <2>2
  <1>10. ASSUME ~ (Nanoseconds(v) =< b) PROVE ~ (k =< Cardinality(Upto(s, b)))
    <2>1. Upto(s, b) \subseteq Below(s, v)
      BY <1>1, <1>2, <1>3, <1>4, <1>6, <1>10 DEF Below, Upto
    <2>2. Cardinality(Upto(s, b)) =< Cardinality(Below(s, v))
      BY <1>7, <2>1, Counts
    <2> QED BY <1>1, <1>2, <1>8, <2>2
  <1> QED BY <1>9, <1>10 DEF v

\* Sorting keeps, of every range of printed values, how many durations fall in
\* it: std::sort loses and invents nothing.
LEMMA SortedCounts ==
  ASSUME NEW s \in Seq(Nat), NEW a \in Int, NEW b \in Int
  PROVE  Cardinality(NsIn(Sorted(s), a, b)) = Cardinality(NsIn(s, a, b))
  <1>1. /\ DOMAIN Sorted(s) = 1..Len(s) /\ Len(s) \in Nat /\ DOMAIN s = 1..Len(s)
        /\ \A k \in 1..Len(s) : Sorted(s)[k] \in Nat /\ s[k] \in Nat
    BY SortedAt, Positions
  <1>2. \A k \in 1..Len(s) : Nanoseconds(Sorted(s)[k]) \in Nat /\ Nanoseconds(s[k]) \in Nat
    BY <1>1, NanosecondsNat
  <1>3. CASE b < a
    <2>1. NsIn(Sorted(s), a, b) = {} /\ NsIn(s, a, b) = {}
      BY <1>1, <1>2, <1>3 DEF NsIn
    <2> QED BY <2>1
  <1>4. CASE a =< b
    <2>1. PICK L \in Nat : L = Cardinality(Upto(s, a - 1)) /\ L =< Len(s)
      BY UptoCounts
    <2>2. PICK U \in Nat : U = Cardinality(Upto(s, b)) /\ U =< Len(s)
      BY UptoCounts
    <2>3. IsFiniteSet(Upto(s, b)) /\ Upto(s, a - 1) \subseteq Upto(s, b)
      <3>1. Upto(s, a - 1) \subseteq Upto(s, b)
        BY <1>1, <1>2, <1>4 DEF Upto
      <3> QED BY <3>1, UptoCounts
    <2>4. L =< U
      BY <2>1, <2>2, <2>3, FS_Subset
    <2>5. \A k \in 1..Len(s) : /\ Nanoseconds(Sorted(s)[k]) =< b <=> k =< U
                               /\ Nanoseconds(Sorted(s)[k]) =< a - 1 <=> k =< L
      BY <2>1, <2>2, SortedRank
    <2>6. NsIn(Sorted(s), a, b) = (L + 1)..U
      <3>1. \A k \in 1..Len(s) : Nanoseconds(Sorted(s)[k]) \in a..b <=> k \in (L + 1)..U
        BY <1>1, <1>2, <2>5
      <3>2. (L + 1)..U \subseteq 1..Len(s)
        BY <1>1, <2>2
      <3> QED BY <1>1, <3>1, <3>2 DEF NsIn
    <2>7. Cardinality((L + 1)..U) = U - L
      <3>1. Cardinality((L + 1)..U) = IF L + 1 > U THEN 0 ELSE U - (L + 1) + 1
        BY FS_Interval
      <3> QED BY <2>4, <3>1
    <2>8. NsIn(s, a, b) = Upto(s, b) \ Upto(s, a - 1)
      BY <1>1, <1>2 DEF NsIn, Upto
    <2>9. Cardinality(Upto(s, b) \ Upto(s, a - 1)) = U - L
      <3>1. Upto(s, b) \cap Upto(s, a - 1) = Upto(s, a - 1)
        BY <2>3
      <3>2. Cardinality(Upto(s, b) \ Upto(s, a - 1))
              = Cardinality(Upto(s, b)) - Cardinality(Upto(s, b) \cap Upto(s, a - 1))
        BY <2>3, FS_Difference
      <3> QED BY <2>1, <2>2, <3>1, <3>2
    <2> QED BY <2>6, <2>7, <2>8, <2>9
  <1> QED BY <1>3, <1>4

\* A sorted buffer is ascending.
LEMMA SortedAscends ==
  ASSUME NEW s \in Seq(Nat), NEW i \in 1..Len(s), NEW j \in 1..Len(s), i =< j
  PROVE  Nanoseconds(Sorted(s)[i]) =< Nanoseconds(Sorted(s)[j])
  <1>1. Sorted(s)[i] \in Nat /\ Sorted(s)[j] \in Nat /\ Len(s) \in Nat
    BY SortedAt
  <1>2. PICK b \in Nat : b = Nanoseconds(Sorted(s)[j])
    BY <1>1, NanosecondsNat
  <1>3. j =< Cardinality(Upto(s, b)) /\ Cardinality(Upto(s, b)) \in Nat
    BY <1>2, SortedRank, UptoCounts
  <1>4. i =< Cardinality(Upto(s, b))
    BY <1>1, <1>3
  <1> QED BY <1>2, <1>4, SortedRank
-----------------------------------------------------------------------------
\* The index of a percentile, whether the product of doubles comes out exact or
\* just below: a position of the buffer, with i <= p * n <= i + 1.
LEMMA IndexBounds ==
  ASSUME NEW p \in Percentiles, NEW n \in Nat \ {0}, NEW low \in BOOLEAN
  PROVE  /\ Index(p, n, low) \in 0..(n - 1)
         /\ p[2] * Index(p, n, low) =< p[1] * n
         /\ p[1] * n =< p[2] * (Index(p, n, low) + 1)
  <1>1. p[1] \in Nat /\ p[2] \in Nat /\ 0 < p[1] /\ p[1] < p[2]
    BY SamplesAssumption
  <1>2. PICK x \in Nat, y \in Nat : x = p[1] /\ y = p[2] /\ 0 < x /\ x < y
    BY <1>1
  <1>3. x * n \in Nat \ {0} /\ x * n < y * n
    BY <1>2
  <1>4. PICK f \in Nat : f = (x * n) \div y /\ y * f =< x * n /\ x * n < y * f + y
    <2>1. \A a \in Nat : a \div y \in Nat /\ y * (a \div y) =< a /\ a < y * (a \div y) + y
      BY <1>2
    <2> QED BY <1>3, <2>1
  <1>5. f < n
    <2>1. y * f < y * n
      BY <1>2, <1>3, <1>4
    <2>2. \A a, b \in Nat : b =< a => y * b =< y * a
      BY <1>2
    <2> QED BY <1>2, <2>1, <2>2
  <1>6. y * (f + 1) = y * f + y
    BY <1>2
  <1>7. CASE low /\ y * f = x * n
    <2>1. f # 0
      BY <1>2, <1>3, <1>7
    <2>2. Index(p, n, low) = f - 1
      BY <1>2, <1>4, <1>5, <1>7, <2>1 DEF Index
    <2>3. y * (f - 1) = y * f - y
      BY <1>2
    <2>4. f - 1 \in 0..(n - 1) /\ y * (f - 1) =< x * n /\ x * n =< y * (f - 1 + 1)
      BY <1>2, <1>3, <1>4, <1>5, <1>7, <2>1, <2>3
    <2> QED BY <1>2, <2>2, <2>4
  <1>8. CASE ~ (low /\ y * f = x * n)
    <2>1. Index(p, n, low) = f
      BY <1>2, <1>4, <1>5, <1>8 DEF Index
    <2>2. f \in 0..(n - 1) /\ y * f =< x * n /\ x * n =< y * (f + 1)
      BY <1>2, <1>3, <1>4, <1>5, <1>6
    <2> QED BY <1>2, <2>1, <2>2
  <1> QED BY <1>7, <1>8

\* The buffer holds what was measured, as far as the printed values tell.
Counted ==
  \A a, b \in Int : HowMany(a..b) = Cardinality(NsIn(buf, a, b))

\* The inductive invariant: types, the counts, the order that the sort in
\* report leaves behind for dump_csv, and how far the CSV has come.
IInv ==
  /\ pc \in {"recording", "report", "open", "header", "lines", "close", "done"}
  /\ buf \in Seq(Ticks) /\ recorded \in [Ticks -> Nat]
  /\ error \in BOOLEAN /\ csv_exported \in BOOLEAN
  /\ IsFiniteSet(Measurements) /\ Counted
  /\ pc \in {"recording", "report"} => DOMAIN printed = {}
  /\ PercentilesAreQuantiles
  /\ pc \notin {"recording", "report"} =>
       \A i, j \in 1..Len(buf) : i =< j => Nanoseconds(buf[i]) =< Nanoseconds(buf[j])
  /\ lines \in Seq(Nat) /\ Len(lines) =< Len(buf)
  /\ \A k \in 1..Len(lines) : lines[k] = Nanoseconds(buf[k])
  /\ pc \in {"recording", "report", "open", "header"} => lines = <<>>
  /\ pc = "close" /\ ~error => Len(lines) = Len(buf)
  /\ csv_exported => pc = "done" /\ csv = lines /\ Len(lines) = Len(buf)
-----------------------------------------------------------------------------
\* Measurements after one more duration was recorded.
LEMMA MeasurementAdded ==
  ASSUME recorded \in [Ticks -> Nat], NEW t \in Ticks,
         recorded' = [recorded EXCEPT ![t] = @ + 1]
  PROVE  /\ Measurements' = Measurements \cup {<<t, recorded[t] + 1>>}
         /\ <<t, recorded[t] + 1>> \notin Measurements
  <1>1. \A m : m \in Measurements <=> \E u \in Ticks, k \in Nat : m = <<u, k>> /\ 1 =< k /\ k =< recorded[u]
    BY DEF Measurements
  <1>2. \A m : m \in Measurements' <=> \E u \in Ticks, k \in Nat : m = <<u, k>> /\ 1 =< k /\ k =< recorded'[u]
    BY DEF Measurements
  <1>3. /\ recorded'[t] = recorded[t] + 1 /\ recorded[t] \in Nat
        /\ \A u \in Ticks : u # t => recorded'[u] = recorded[u]
    OBVIOUS
  <1>4. ASSUME NEW m \in Measurements' PROVE m \in Measurements \cup {<<t, recorded[t] + 1>>}
    <2>1. PICK u \in Ticks, k \in Nat : m = <<u, k>> /\ 1 =< k /\ k =< recorded'[u]
      BY <1>2, <1>4
    <2>2. CASE u = t /\ k = recorded[t] + 1
      BY <2>1, <2>2
    <2>3. CASE ~ (u = t /\ k = recorded[t] + 1)
      <3>1. k =< recorded[u]
        BY <1>3, <2>1, <2>3
      <3> QED BY <1>1, <2>1, <3>1
    <2> QED BY <2>2, <2>3
  <1>5. ASSUME NEW m \in Measurements PROVE m \in Measurements'
    <2>1. PICK u \in Ticks, k \in Nat : m = <<u, k>> /\ 1 =< k /\ k =< recorded[u]
      BY <1>1, <1>5
    <2>2. k =< recorded'[u]
      BY <1>3, <2>1
    <2> QED BY <1>2, <2>1, <2>2
  <1>6. <<t, recorded[t] + 1>> \in Measurements'
    <2>1. recorded[t] + 1 \in Nat /\ 1 =< recorded[t] + 1 /\ recorded[t] + 1 =< recorded'[t]
      BY <1>3
    <2> QED BY <1>2, <2>1
  <1>7. <<t, recorded[t] + 1>> \notin Measurements
    <2> SUFFICES ASSUME <<t, recorded[t] + 1>> \in Measurements PROVE FALSE
      OBVIOUS
    <2>1. PICK u \in Ticks, k \in Nat : <<t, recorded[t] + 1>> = <<u, k>> /\ 1 =< k /\ k =< recorded[u]
      BY <1>1
    <2> QED BY <1>3, <2>1
  <1> QED BY <1>4, <1>5, <1>6, <1>7

\* Counting one element more: both counts grow by one when it qualifies, and
\* neither does when it does not.
LEMMA OneMore ==
  ASSUME NEW S, IsFiniteSet(S), NEW x, x \notin S,
         NEW T, IsFiniteSet(T), NEW y, y \notin T,
         NEW S1, NEW T1, Cardinality(S) = Cardinality(T),
         \/ S1 = S \cup {x} /\ T1 = T \cup {y}
         \/ S1 = S /\ T1 = T
  PROVE  Cardinality(S1) = Cardinality(T1)
  <1>1. Cardinality(S \cup {x}) = Cardinality(S) + 1 /\ Cardinality(T \cup {y}) = Cardinality(T) + 1
    BY FS_AddElement
  <1> QED BY <1>1

\* Record keeps the counts.
LEMMA RecordCounts ==
  ASSUME IInv, NEW t \in Ticks, Record(t)
  PROVE  IsFiniteSet(Measurements') /\ Counted'
  <1>1. /\ Measurements' = Measurements \cup {<<t, recorded[t] + 1>>}
        /\ <<t, recorded[t] + 1>> \notin Measurements
    BY MeasurementAdded DEF IInv, Record
  <1>2. IsFiniteSet(Measurements) /\ IsFiniteSet(Measurements')
    BY <1>1, FS_AddElement DEF IInv
  <1>3. SUFFICES ASSUME NEW a \in Int, NEW b \in Int
                 PROVE  HowMany(a..b)' = Cardinality(NsIn(buf', a, b))
    BY <1>2 DEF Counted
  <1> DEFINE M  == {m \in Measurements : Nanoseconds(m[1]) \in a..b}
             M1 == {m \in Measurements' : Nanoseconds(m[1]) \in a..b}
  <1>4. Cardinality(M) = Cardinality(NsIn(buf, a, b))
    BY DEF IInv, Counted, HowMany
  <1>5. IsFiniteSet(M) /\ <<t, recorded[t] + 1>> \notin M
    BY <1>1, <1>2, FS_Subset
  <1>6. /\ buf \in Seq(Ticks) /\ Len(buf) \in Nat /\ DOMAIN buf = 1..Len(buf)
        /\ DOMAIN buf' = 1..(Len(buf) + 1) /\ buf'[Len(buf) + 1] = t
        /\ \A k \in 1..Len(buf) : buf'[k] = buf[k]
    BY DEF IInv, Record
  <1>7. IsFiniteSet(NsIn(buf, a, b)) /\ Len(buf) + 1 \notin NsIn(buf, a, b)
    <2>1. NsIn(buf, a, b) \subseteq 1..Len(buf) /\ IsFiniteSet(1..Len(buf))
      BY <1>6, FS_Interval DEF NsIn
    <2>2. Len(buf) + 1 \notin 1..Len(buf)
      BY <1>6
    <2> QED BY <2>1, <2>2, FS_Subset
  <1>8. CASE Nanoseconds(t) \in a..b
    <2>1. M1 = M \cup {<<t, recorded[t] + 1>>}
      BY <1>1, <1>8
    <2>2. NsIn(buf', a, b) = NsIn(buf, a, b) \cup {Len(buf) + 1}
      BY <1>6, <1>8 DEF NsIn
    <2> HIDE DEF M, M1
    <2>3. Cardinality(M1) = Cardinality(NsIn(buf', a, b))
      BY <1>4, <1>5, <1>7, <2>1, <2>2, OneMore
    <2> QED BY <2>3 DEF M1, HowMany
  <1>9. CASE Nanoseconds(t) \notin a..b
    <2>1. M1 = M
      BY <1>1, <1>9
    <2>2. NsIn(buf', a, b) = NsIn(buf, a, b)
      BY <1>6, <1>9 DEF NsIn
    <2> QED BY <1>4, <2>1, <2>2 DEF HowMany
  <1> QED BY <1>8, <1>9
-----------------------------------------------------------------------------
\* Durations are naturals.
LEMMA DurationsNat == ASSUME NEW s \in Seq(Ticks) PROVE s \in Seq(Nat)
  <1>1. Len(s) \in Nat /\ s = [k \in 1..Len(s) |-> s[k]] /\ \A k \in 1..Len(s) : s[k] \in Ticks
    OBVIOUS
  <1>2. \A k \in 1..Len(s) : s[k] \in Nat
    BY <1>1, SamplesAssumption
  <1> QED BY <1>1, <1>2

\* Value v is a quantile for p of the n measurements in M.
Quantile(p, v, M, n) ==
  /\ p[2] * Cardinality({m \in M : Nanoseconds(m[1]) \in 0..v}) >= p[1] * n
  /\ p[2] * Cardinality({m \in M : Nanoseconds(m[1]) \in 0..v - 1}) <= p[1] * n

\* Steps that leave buffer, history and report alone keep what relates them.
LEMMA Kept ==
  ASSUME IInv, UNCHANGED <<buf, recorded, printed>>
  PROVE  IsFiniteSet(Measurements') /\ Counted' /\ PercentilesAreQuantiles'
  <1>1. Measurements' = Measurements
    BY DEF Measurements
  <1>2. Counted'
    BY <1>1 DEF IInv, Counted, HowMany
  <1>3. PercentilesAreQuantiles'
    BY <1>1 DEF IInv, PercentilesAreQuantiles, HowMany
  <1> QED BY <1>1, <1>2, <1>3 DEF IInv

\* What the report prints for p, when the buffer is not empty.
LEMMA PrintedIsQuantile ==
  ASSUME IInv, buf # <<>>, NEW p \in Percentiles, NEW low \in BOOLEAN,
         NEW v, v = Nanoseconds(Sorted(buf)[Index(p, Len(buf), low) + 1])
  PROVE  /\ p[2] * HowMany(0..v) >= p[1] * Len(buf)
         /\ p[2] * HowMany(0..(v - 1)) =< p[1] * Len(buf)
  <1>1. buf \in Seq(Nat) /\ Len(buf) \in Nat \ {0} /\ DOMAIN buf = 1..Len(buf)
    <2>1. buf \in Seq(Nat)
      BY DurationsNat DEF IInv
    <2> QED BY <2>1
  <1>2. PICK i \in 0..(Len(buf) - 1) : /\ i = Index(p, Len(buf), low)
                                       /\ p[2] * i =< p[1] * Len(buf)
                                       /\ p[1] * Len(buf) =< p[2] * (i + 1)
    BY <1>1, IndexBounds
  <1>3. i + 1 \in 1..Len(buf) /\ i \in Nat
    BY <1>1
  <1>4. v \in Nat
    BY <1>1, <1>2, <1>3, SortedAt, NanosecondsNat
  <1>5. \A b \in Int : v =< b <=> i + 1 =< Cardinality(Upto(buf, b))
    BY <1>1, <1>2, <1>3, SortedRank
  <1>6. \A b \in Int : HowMany(0..b) = Cardinality(Upto(buf, b)) /\ Cardinality(Upto(buf, b)) \in Nat
    <2> SUFFICES ASSUME NEW b \in Int
                 PROVE  HowMany(0..b) = Cardinality(Upto(buf, b)) /\ Cardinality(Upto(buf, b)) \in Nat
      OBVIOUS
    <2>1. \A k \in DOMAIN buf : Nanoseconds(buf[k]) \in Nat
      <3>1. \A k \in DOMAIN buf : buf[k] \in Nat
        BY <1>1
      <3> QED BY <3>1, NanosecondsNat
    <2>2. NsIn(buf, 0, b) = Upto(buf, b)
      BY <2>1 DEF NsIn, Upto
    <2>3. HowMany(0..b) = Cardinality(NsIn(buf, 0, b))
      BY DEF IInv, Counted
    <2> QED BY <1>1, <2>2, <2>3, UptoCounts
  <1>7. HowMany(0..v) \in Nat /\ i + 1 =< HowMany(0..v)
    BY <1>4, <1>5, <1>6
  <1>8. HowMany(0..(v - 1)) \in Nat /\ HowMany(0..(v - 1)) =< i
    <2>1. v - 1 \in Int /\ ~ (v =< v - 1)
      BY <1>4
    <2> QED BY <1>3, <1>5, <1>6, <2>1
  <1>9. p[2] \in Nat /\ p[1] \in Nat
    BY SamplesAssumption
  <1>10. \A x, a, b \in Nat : a =< b => x * a =< x * b
    OBVIOUS
  <1>11. p[2] * (i + 1) =< p[2] * HowMany(0..v)
    <2>1. i + 1 \in Nat
      BY <1>3
    <2> QED BY <1>7, <1>9, <1>10, <2>1
  <1>12. p[2] * HowMany(0..(v - 1)) =< p[2] * i
    BY <1>3, <1>8, <1>9, <1>10
  <1>13. \A x, a \in Nat : x * a \in Nat
    OBVIOUS
  <1>14. /\ p[1] * Len(buf) \in Nat /\ p[2] * i \in Nat /\ p[2] * (i + 1) \in Nat
         /\ p[2] * HowMany(0..v) \in Nat /\ p[2] * HowMany(0..(v - 1)) \in Nat
    <2>1. i + 1 \in Nat /\ Len(buf) \in Nat
      BY <1>1, <1>3
    <2> QED BY <1>3, <1>7, <1>8, <1>9, <1>13, <2>1
  <1> QED BY <1>2, <1>11, <1>12, <1>14

\* The sort and the percentiles: report establishes the order dump_csv needs,
\* keeps the counts and prints quantiles.
LEMMA ReportStep == ASSUME IInv, Report PROVE IInv'
  <1>1. CASE buf = <<>>
    <2>1. UNCHANGED <<buf, printed, recorded, io>> /\ pc = "report" /\ pc' = "open"
      BY <1>1 DEF Report
    <2>2. UNCHANGED <<buf, printed, recorded, lines, csv, error, csv_exported>>
      BY <2>1 DEF io
    <2>3. IsFiniteSet(Measurements') /\ Counted' /\ PercentilesAreQuantiles'
      BY <2>2, Kept
    <2> QED BY <1>1, <2>1, <2>2, <2>3 DEF IInv
  <1>2. CASE buf # <<>>
    <2>1. PICK low \in SUBSET Percentiles :
            printed' = [p \in Percentiles |-> Nanoseconds(buf'[Index(p, Len(buf), p \in low) + 1])]
      BY <1>2 DEF Report
    <2>2. /\ buf' = Sorted(buf) /\ pc = "report" /\ pc' = "open"
          /\ UNCHANGED <<recorded, lines, csv, error, csv_exported>>
      BY <1>2 DEF Report, io
    <2>3. buf \in Seq(Nat) /\ Len(buf) \in Nat
      BY DurationsNat DEF IInv
    <2>4. buf' \in Seq(Ticks) /\ Len(buf') = Len(buf) /\ DOMAIN buf' = 1..Len(buf)
      <3>1. Range(buf) \subseteq Ticks
        BY DEF IInv, Range
      <3>2. \A k \in 1..Len(buf) : buf'[k] \in Ticks
        BY <2>2, <2>3, <3>1, SortedAt
      <3>3. buf' \in Seq(Nat) /\ Len(buf') = Len(buf) /\ DOMAIN buf' = 1..Len(buf)
        BY <2>2, <2>3, SortedAt
      <3> QED BY <2>3, <3>2, <3>3
    <2>5. Measurements' = Measurements
      BY <2>2 DEF Measurements
    <2>6. Counted'
      <3> SUFFICES ASSUME NEW a \in Int, NEW b \in Int
                   PROVE  HowMany(a..b)' = Cardinality(NsIn(buf', a, b))
        BY DEF Counted
      <3>1. HowMany(a..b) = Cardinality(NsIn(buf, a, b))
        BY DEF IInv, Counted
      <3>2. Cardinality(NsIn(buf', a, b)) = Cardinality(NsIn(buf, a, b))
        BY <2>2, <2>3, SortedCounts
      <3>3. HowMany(a..b)' = HowMany(a..b)
        BY <2>5 DEF HowMany
      <3> QED BY <3>1, <3>2, <3>3
    <2>7. PercentilesAreQuantiles'
      <3>1. ASSUME NEW p \in Percentiles, NEW v, v = printed'[p]
            PROVE  Quantile(p, v, Measurements', Len(buf'))
        <4>1. v = Nanoseconds(Sorted(buf)[Index(p, Len(buf), p \in low) + 1])
          BY <2>1, <2>2, <3>1
        <4>2. (p \in low) \in BOOLEAN
          OBVIOUS
        <4>3. /\ p[2] * HowMany(0..v) >= p[1] * Len(buf)
              /\ p[2] * HowMany(0..(v - 1)) =< p[1] * Len(buf)
          BY <1>2, <4>1, <4>2, PrintedIsQuantile
        <4> QED BY <2>4, <2>5, <4>3 DEF Quantile, HowMany
      <3>2. DOMAIN printed' = Percentiles
        BY <2>1
      <3> QED BY <3>1, <3>2 DEF PercentilesAreQuantiles, Quantile, HowMany
    <2>8. \A i, j \in 1..Len(buf') : i =< j => Nanoseconds(buf'[i]) =< Nanoseconds(buf'[j])
      BY <2>2, <2>3, <2>4, SortedAscends
    <2>9. lines' = <<>> /\ Len(lines') = 0
      BY <2>2 DEF IInv
    <2>10. IsFiniteSet(Measurements') /\ recorded' \in [Ticks -> Nat]
           /\ error' \in BOOLEAN /\ csv_exported' = FALSE
      BY <2>2, <2>5 DEF IInv
    <2>11. lines' \in Seq(Nat) /\ Len(lines') =< Len(buf')
      BY <2>3, <2>4, <2>9
    <2>12. \A k \in 1..Len(lines') : lines'[k] = Nanoseconds(buf'[k])
      BY <2>9
    <2> QED BY <2>2, <2>4, <2>6, <2>7, <2>8, <2>9, <2>10, <2>11, <2>12 DEF IInv
  <1> QED BY <1>1, <1>2
\* One duration more in the buffer.
LEMMA RecordStep == ASSUME IInv, NEW t \in Ticks, Record(t) PROVE IInv'
  <1>1. /\ pc = "recording" /\ buf' = Append(buf, t)
        /\ recorded' = [recorded EXCEPT ![t] = @ + 1]
        /\ UNCHANGED <<pc, printed, lines, csv, error, csv_exported>>
    BY DEF Record, io
  <1>2. IsFiniteSet(Measurements') /\ Counted'
    BY RecordCounts
  <1>3. buf' \in Seq(Ticks) /\ Len(buf') = Len(buf) + 1 /\ Len(buf) \in Nat
    BY <1>1 DEF IInv
  <1>4. recorded' \in [Ticks -> Nat]
    BY <1>1 DEF IInv
  <1>5. DOMAIN printed' = {} /\ lines' = <<>> /\ csv_exported' = FALSE
    BY <1>1 DEF IInv
  <1>6. PercentilesAreQuantiles'
    BY <1>5 DEF PercentilesAreQuantiles
  <1>7. lines' \in Seq(Nat) /\ Len(lines') = 0
    BY <1>5
  <1> QED BY <1>1, <1>2, <1>3, <1>4, <1>5, <1>6, <1>7 DEF IInv

\* One line of the CSV: what is printed is what the buffer holds there.
LEMMA WriteLineStep == ASSUME IInv, WriteLine PROVE IInv'
  <1>1. UNCHANGED <<buf, recorded, printed, csv, csv_exported>> /\ pc = "lines"
    BY DEF WriteLine
  <1>2. IsFiniteSet(Measurements') /\ Counted' /\ PercentilesAreQuantiles'
    BY <1>1, Kept
  <1>3. Len(buf) \in Nat /\ Len(lines) \in Nat /\ csv_exported = FALSE
    BY <1>1 DEF IInv
  <1>4. CASE /\ Len(lines) < Len(buf) /\ UNCHANGED <<pc, error>>
             /\ lines' = Append(lines, Nanoseconds(buf[Len(lines) + 1]))
    <2>1. Nanoseconds(buf[Len(lines) + 1]) \in Nat
      <3>1. buf \in Seq(Nat) /\ Len(lines) + 1 \in 1..Len(buf)
        BY <1>3, <1>4, DurationsNat DEF IInv
      <3>2. buf[Len(lines) + 1] \in Nat
        BY <3>1
      <3> QED BY <3>2, NanosecondsNat
    <2>2. /\ lines' \in Seq(Nat) /\ Len(lines') = Len(lines) + 1
          /\ lines'[Len(lines) + 1] = Nanoseconds(buf[Len(lines) + 1])
          /\ \A k \in 1..Len(lines) : lines'[k] = lines[k]
      BY <1>4, <2>1 DEF IInv
    <2>3. \A k \in 1..Len(lines') : lines'[k] = Nanoseconds(buf'[k])
      <3>1. \A k \in 1..Len(lines) : lines[k] = Nanoseconds(buf[k])
        BY DEF IInv
      <3>2. 1..Len(lines') = 1..Len(lines) \cup {Len(lines) + 1}
        BY <1>3, <2>2
      <3>3. buf' = buf
        BY <1>1
      <3> QED BY <2>2, <3>1, <3>2, <3>3
    <2>4. Len(lines') =< Len(buf')
      BY <1>1, <1>3, <1>4, <2>2
    <2> QED BY <1>1, <1>2, <1>3, <1>4, <2>2, <2>3, <2>4 DEF IInv
  <1>5. CASE error' = TRUE /\ UNCHANGED <<pc, lines>>
    BY <1>1, <1>2, <1>3, <1>5 DEF IInv
  <1>6. CASE ~ (Len(lines) < Len(buf) /\ ~error) /\ pc' = "close" /\ UNCHANGED <<lines, error>>
    <2>1. ~error' => Len(lines') = Len(buf')
      BY <1>1, <1>3, <1>6 DEF IInv
    <2> QED BY <1>1, <1>2, <1>3, <1>6, <2>1 DEF IInv
  <1> QED BY <1>4, <1>5, <1>6 DEF WriteLine

\* fclose: exported means that the whole file was written.
LEMMA CloseCsvStep == ASSUME IInv, CloseCsv PROVE IInv'
  <1>1. /\ UNCHANGED <<buf, recorded, printed, lines>> /\ pc = "close" /\ pc' = "done"
        /\ error' = (error \/ csv' # lines) /\ csv_exported' = ~error'
    BY DEF CloseCsv
  <1>2. IsFiniteSet(Measurements') /\ Counted' /\ PercentilesAreQuantiles'
    BY <1>1, Kept
  <1>3. error' \in BOOLEAN /\ csv_exported' \in BOOLEAN
    BY <1>1
  <1>4. csv_exported' => csv' = lines' /\ Len(lines') = Len(buf')
    BY <1>1 DEF IInv
  <1> QED BY <1>1, <1>2, <1>3, <1>4 DEF IInv

\* Every step of a run keeps the invariant.
LEMMA NextStep == ASSUME IInv, [Next]_vars PROVE IInv'
  <1>1. CASE \E ticks \in Ticks : Record(ticks)
    BY <1>1, RecordStep
  <1>2. CASE Joined
    <2>1. pc = "recording" /\ pc' = "report" /\ UNCHANGED <<buf, recorded, printed, lines, csv, error, csv_exported>>
      BY <1>2 DEF Joined, io
    <2>2. IsFiniteSet(Measurements') /\ Counted' /\ PercentilesAreQuantiles'
      BY <2>1, Kept
    <2> QED BY <2>1, <2>2 DEF IInv
  <1>3. CASE Report
    BY <1>3, ReportStep
  <1>4. CASE OpenCsv
    <2>1. /\ pc = "open" /\ pc' \in {"header", "done"} /\ error' \in BOOLEAN
          /\ UNCHANGED <<buf, recorded, printed, lines, csv, csv_exported>>
      BY <1>4 DEF OpenCsv, IInv
    <2>2. IsFiniteSet(Measurements') /\ Counted' /\ PercentilesAreQuantiles'
      BY <2>1, Kept
    <2> QED BY <2>1, <2>2 DEF IInv
  <1>5. CASE WriteHeader
    <2>1. /\ pc = "header" /\ pc' = "lines" /\ error' \in BOOLEAN
          /\ UNCHANGED <<buf, recorded, printed, lines, csv, csv_exported>>
      BY <1>5 DEF WriteHeader
    <2>2. IsFiniteSet(Measurements') /\ Counted' /\ PercentilesAreQuantiles'
      BY <2>1, Kept
    <2> QED BY <2>1, <2>2 DEF IInv
  <1>6. CASE WriteLine
    BY <1>6, WriteLineStep
  <1>7. CASE CloseCsv
    BY <1>7, CloseCsvStep
  <1>8. CASE UNCHANGED vars
    <2>1. UNCHANGED <<pc, buf, recorded, printed, lines, csv, error, csv_exported>>
      BY <1>8 DEF vars, io
    <2>2. IsFiniteSet(Measurements') /\ Counted' /\ PercentilesAreQuantiles'
      BY <2>1, Kept
    <2> QED BY <2>1, <2>2 DEF IInv
  <1> QED BY <1>1, <1>2, <1>3, <1>4, <1>5, <1>6, <1>7, <1>8 DEF Next

\* An empty buffer and an empty history agree.
LEMMA InitStep == ASSUME Init PROVE IInv
  <1>1. Measurements = {}
    <2>1. \A t \in Ticks : recorded[t] = 0
      BY DEF Init
    <2> QED BY <2>1 DEF Measurements
  <1>2. Counted
    <2>1. \A a, b \in Int : NsIn(buf, a, b) = {}
      BY DEF Init, NsIn
    <2> QED BY <1>1, <2>1 DEF Counted, HowMany
  <1>3. IsFiniteSet(Measurements)
    BY <1>1, FS_EmptySet
  <1>4. DOMAIN printed = {}
    BY DEF Init
  <1>5. PercentilesAreQuantiles
    BY <1>4 DEF PercentilesAreQuantiles
  <1>6. buf = <<>> /\ lines = <<>> /\ pc = "recording" /\ error = FALSE /\ csv_exported = FALSE
        /\ recorded \in [Ticks -> Nat]
    BY DEF Init
  <1>7. /\ buf \in Seq(Ticks) /\ lines \in Seq(Nat) /\ Len(lines) =< Len(buf)
        /\ \A k \in 1..Len(lines) : lines[k] = Nanoseconds(buf[k])
    BY <1>6
  <1> QED BY <1>2, <1>3, <1>4, <1>5, <1>6, <1>7 DEF IInv

-----------------------------------------------------------------------------
\* The invariant holds throughout a run, whatever the worker measured and
\* wherever writing the CSV failed.
THEOREM SamplesInvariant == Spec => []IInv
  BY InitStep, NextStep, PTL DEF Spec

\* What Samples::report prints for a percentile p is a p-quantile of the
\* durations the worker recorded: at least p * n of them do not exceed it and
\* at most p * n lie below it, for any number of samples, equal durations, and
\* whichever way the product of doubles in the index was rounded.
THEOREM PercentilesAreAlwaysQuantiles == Spec => []PercentilesAreQuantiles
  <1>1. IInv => PercentilesAreQuantiles
    BY DEF IInv
  <1> QED BY <1>1, SamplesInvariant, PTL

\* A CSV that dump_csv reports as written is ascending and has one line for
\* each recorded duration, although only report sorts and any of the writes,
\* fclose included, may fail.
THEOREM ExportedCsvIsAlwaysSortedAndComplete == Spec => []ExportedCsvIsSortedAndComplete
  <1>1. ASSUME IInv PROVE ExportedCsvIsSortedAndComplete
    <2>1. SUFFICES ASSUME csv_exported
                   PROVE  /\ \A i \in 1..Len(csv) - 1 : csv[i] <= csv[i + 1]
                          /\ \A ns \in {Nanoseconds(t) : t \in Ticks} :
                               HowMany({ns}) = Cardinality({i \in 1..Len(csv) : csv[i] = ns})
      BY DEF ExportedCsvIsSortedAndComplete
    <2>2. /\ Len(csv) = Len(buf) /\ Len(buf) \in Nat /\ DOMAIN buf = 1..Len(buf)
          /\ \A k \in 1..Len(csv) : csv[k] = Nanoseconds(buf[k])
          /\ \A i, j \in 1..Len(buf) : i =< j => Nanoseconds(buf[i]) =< Nanoseconds(buf[j])
      BY <1>1, <2>1 DEF IInv
    <2>3. \A i \in 1..Len(csv) - 1 : csv[i] <= csv[i + 1]
      BY <2>2
    <2>4. ASSUME NEW ns \in {Nanoseconds(t) : t \in Ticks}
          PROVE  HowMany({ns}) = Cardinality({i \in 1..Len(csv) : csv[i] = ns})
      <3>1. ns \in Nat
        <4>1. PICK t \in Ticks : ns = Nanoseconds(t)
          OBVIOUS
        <4> QED BY <4>1, NanosecondsNat, SamplesAssumption
      <3>2. ns..ns = {ns}
        BY <3>1
      <3>3. HowMany(ns..ns) = Cardinality(NsIn(buf, ns, ns))
        <4>1. Counted /\ ns \in Int
          BY <1>1, <3>1 DEF IInv
        <4> QED BY <4>1, Zenon DEF Counted
      <3>4. NsIn(buf, ns, ns) = {i \in 1..Len(csv) : csv[i] = ns}
        BY <2>2, <3>2 DEF NsIn
      <3> QED BY <3>2, <3>3, <3>4
    <2> QED BY <2>3, <2>4
  <1> QED BY <1>1, SamplesInvariant, PTL
=============================================================================
