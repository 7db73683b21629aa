------------------------------- MODULE Samples -------------------------------
(***************************************************************************)
(* The sample storage (bench.hpp, class Samples) as one run uses it: the   *)
(* worker fills it, then, with the worker joined, the control thread       *)
(* prints the percentiles and writes the CSV.  Which callbacks are sampled *)
(* is module Statistics.                                                   *)
(***************************************************************************)
EXTENDS Integers, Sequences, FiniteSets, Functions

CONSTANTS
  Capacity,      \* sample_capacity
  Ticks,         \* durations rdtsc may measure
  TicksPerNs,    \* 1 / ns_per_tick; odd, so that no duration lies half-way
  Percentiles    \* the fractions p the report prints, as pairs

ASSUME SamplesAssumption ==
  /\ Capacity \in Nat \ {0} /\ Ticks \subseteq Nat
  /\ TicksPerNs \in Nat /\ TicksPerNs % 2 = 1
  /\ \A p \in Percentiles : p \in Nat \X Nat /\ 0 < p[1] /\ p[1] < p[2]

VARIABLES
  pc,            \* "recording", "report", "open", "header", "lines", "close", "done"
  buf,           \* buf_[0 .. n_ - 1]
  recorded,      \* history: how often each duration was measured
  printed,       \* what the report says of each percentile, in ns
  lines,         \* the lines handed to stdio
  csv,           \* the file
  error, csv_exported

io == <<lines, csv, error, csv_exported>>
vars == <<pc, buf, recorded, printed, io>>

Init ==
  /\ pc = "recording"
  /\ buf = <<>> /\ recorded = [t \in Ticks |-> 0]
  /\ printed = [p \in {} |-> 0]
  /\ lines = <<>> /\ csv = <<>> /\ error = FALSE /\ csv_exported = FALSE

-----------------------------------------------------------------------------
\* static_cast<double>(ticks) * ns_per_tick, printed with no decimals.
Nanoseconds(ticks) == (2 * ticks + TicksPerNs) \div (2 * TicksPerNs)

Record(ticks) ==
  /\ pc = "recording"
  /\ Len(buf) < Capacity
  /\ buf' = Append(buf, ticks)
  /\ recorded' = [recorded EXCEPT ![ticks] = @ + 1]
  /\ UNCHANGED <<pc, printed, io>>

\* The worker is joined.
Joined == pc = "recording" /\ pc' = "report" /\ UNCHANGED <<buf, recorded, printed, io>>

\* Faulty form: the ranks counted from one.
IndexFromOne(p, n, low) ==
  LET rank == ((p[1] * n) \div p[2]) + 1
  IN  IF rank < n - 1 THEN rank ELSE n - 1

\* min(n - 1, size_t(p * double(n))).  Where p * n is a whole number, the
\* product of doubles may come out just below it (low).
Index(p, n, low) ==
  LET floor == (p[1] * n) \div p[2]
      i     == IF low /\ p[2] * floor = p[1] * n THEN floor - 1 ELSE floor
  IN  IF i < n - 1 THEN i ELSE n - 1

\* std::sort: each position k holds the k-th smallest value, the one that fewer
\* than k elements lie below and at least k elements do not exceed.
Below(s, v)  == {i \in DOMAIN s : s[i] < v}
AtMost(s, v) == {i \in DOMAIN s : s[i] <= v}
Sorted(s) ==
  [k \in 1..Len(s) |-> CHOOSE v \in Range(s) :
                         Cardinality(Below(s, v)) < k /\ k <= Cardinality(AtMost(s, v))]

Report ==
  /\ pc = "report"
  /\ pc' = "open"
  /\ IF buf = <<>>
     THEN UNCHANGED <<buf, printed>>
     ELSE /\ buf' = Sorted(buf)
          /\ \E low \in SUBSET Percentiles :
               printed' = [p \in Percentiles |->
                             Nanoseconds(buf'[Index(p, Len(buf), p \in low) + 1])]
  /\ UNCHANGED <<recorded, io>>

\* dump_csv.  Every step may fail; after a failure only the file is closed.
OpenCsv ==
  /\ pc = "open"
  /\ \/ pc' = "header" /\ UNCHANGED error
     \/ pc' = "done" /\ error' = TRUE
  /\ UNCHANGED <<buf, recorded, printed, lines, csv, csv_exported>>

WriteHeader ==
  /\ pc = "header"
  /\ pc' = "lines"
  /\ error' \in BOOLEAN
  /\ UNCHANGED <<buf, recorded, printed, lines, csv, csv_exported>>

WriteLine ==
  /\ pc = "lines"
  /\ IF Len(lines) < Len(buf) /\ ~error
     THEN /\ UNCHANGED pc
          /\ \/ lines' = Append(lines, Nanoseconds(buf[Len(lines) + 1])) /\ UNCHANGED error
             \/ error' = TRUE /\ UNCHANGED lines
     ELSE pc' = "close" /\ UNCHANGED <<lines, error>>
  /\ UNCHANGED <<buf, recorded, printed, csv, csv_exported>>

\* Faulty form: what fclose could not write is not noticed.
CloseCsvUnchecked ==
  /\ pc = "close"
  /\ pc' = "done"
  /\ csv' \in {SubSeq(lines, 1, k) : k \in 0..Len(lines)}
  /\ csv_exported' = ~error
  /\ UNCHANGED <<buf, recorded, printed, lines, error>>

\* fclose writes what stdio still holds, and may fail to.
CloseCsv ==
  /\ pc = "close"
  /\ pc' = "done"
  /\ csv' \in {SubSeq(lines, 1, k) : k \in 0..Len(lines)}
  /\ error' = (error \/ csv' # lines)
  /\ csv_exported' = ~error'
  /\ UNCHANGED <<buf, recorded, printed, lines>>

Next ==
  \/ \E ticks \in Ticks : Record(ticks)
  \/ Joined \/ Report \/ OpenCsv \/ WriteHeader \/ WriteLine \/ CloseCsv
  \/ pc = "done" /\ UNCHANGED vars

Spec == Init /\ [][Next]_vars

-----------------------------------------------------------------------------
(***************************************************************************)
(* Properties.                                                             *)
(***************************************************************************)
\* How many of the recorded durations the report would print as a number in ns.
Measurements == UNION {{t} \X (1..recorded[t]) : t \in Ticks}
HowMany(ns)  == Cardinality({m \in Measurements : Nanoseconds(m[1]) \in ns})

\* What the report prints for p is a p-quantile of the recorded durations, in
\* nanoseconds: at least p * n of them do not exceed it, at most p * n lie
\* below it; for a single sample, for p * n whole and for equal durations too
\* ("The percentile index is min(n - 1, floor(p * n))",
\* docs/BENCHMARKING.md:17).
PercentilesAreQuantiles ==
  \A p \in DOMAIN printed :
    /\ p[2] * HowMany(0..printed[p]) >= p[1] * Len(buf)
    /\ p[2] * HowMany(0..printed[p] - 1) <= p[1] * Len(buf)

\* A CSV the run reports as exported holds every recorded duration, "sorted
\* ascending" (docs/BENCHMARKING.md:14, csv_order in main.cpp:133), although
\* dump_csv itself sorts nothing.
ExportedCsvIsSortedAndComplete ==
  csv_exported =>
    /\ \A i \in 1..Len(csv) - 1 : csv[i] <= csv[i + 1]
    /\ \A ns \in {Nanoseconds(t) : t \in Ticks} :
         HowMany({ns}) = Cardinality({i \in 1..Len(csv) : csv[i] = ns})
=============================================================================
