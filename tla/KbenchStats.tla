----------------------------- MODULE KbenchStats -----------------------------
(***************************************************************************)
(* The figures of a benchmark, which lab-routes-ipv4/kbench_mod.c and      *)
(* lab-routes-ipv6/kbench_mod.c compute alike from their sorted samples:   *)
(* percentiles, median absolute deviation, average, and a histogram.  The  *)
(* average alone is different: IPv4 has a running mean that never holds    *)
(* the sum, IPv6 divides the sum.                                          *)
(***************************************************************************)
EXTENDS Integers, Sequences, FiniteSetsExt, Functions

CONSTANTS
  Samples,       \* sequences of samples, in order
  Beyond,        \* what may be in memory after the last one
  Limit,         \* values of an unsigned long long: 2^64
  HIST_BUCKETS, HIST_WIDTH,
  Page           \* bytes of the page that are left for the rows of the histogram

ASSUME StatsAssumption ==
  /\ Limit \in Nat \ {0} /\ Beyond \subseteq 0 .. Limit - 1
  /\ Samples \subseteq Seq(0 .. Limit - 1)
  /\ \A s \in Samples : \A a, b \in DOMAIN s : a <= b => s[a] <= s[b]
  /\ \A s \in Samples : \A a \in DOMAIN s : 2 * s[a] < Limit
  /\ HIST_BUCKETS \in Nat \ {0} /\ HIST_WIDTH \in Nat /\ Page \in Nat \ {0}

VARIABLES
  sorted,     \* the samples
  beyond,     \* the memory after them
  phase,      \* average, figures, histogram, done
  k,          \* samples averaged so far
  avg,        \* average() of the IPv4 module
  remainder,  \* and what it did not divide yet
  sum,        \* average of the IPv6 module, before its division (it does not
              \* reach Limit)
  i,          \* samples counted in the histogram
  start,      \* where the row of the histogram starts
  count,      \* samples of the row so far
  count2,     \* samples of all rows so far
  shown,      \* the sum of the counts that were printed
  used        \* bytes printed

average   == <<k, avg, remainder, sum>>
histogram == <<i, start, count, count2, shown, used>>
stats     == <<sorted, beyond, phase, average, histogram>>

total == Len(sorted)

MaxOf(a, b) == IF a >= b THEN a ELSE b
MinOf(a, b) == IF a <= b THEN a ELSE b

-----------------------------------------------------------------------------
\* The sample of an index that starts at zero, or what follows the last one.
At(s, index) == IF index < Len(s) THEN s[index + 1] ELSE beyond

Index(p, n)       == (p * n) \div 100
Exact(p, n)       == (p * n) % 100 = 0
\* The sample after Index is read, and there is none.
ReadsBeyond(p, n) == ~Exact(p, n) /\ Index(p, n) + 1 >= n

\* Mutant of Percentile: the two samples are not halved.
PercentileSum(p, s) ==
  LET index == Index(p, Len(s))
  IN IF Exact(p, Len(s)) THEN At(s, index) ELSE (At(s, index) + At(s, index + 1)) % Limit

\* index2, which is computed to stay among the samples, is never used.
Percentile(p, s) ==
  LET index == Index(p, Len(s))
  IN IF Exact(p, Len(s)) THEN At(s, index)
     ELSE ((At(s, index) + At(s, index + 1)) % Limit) \div 2

\* The n-th of the values in order: the least that n of them do not exceed.
Sort(s) ==
  [nth \in DOMAIN s |->
     Min({v \in Range(s) : Cardinality({a \in DOMAIN s : s[a] <= v}) >= nth})]

\* The middle of the distances to p50, in order: mad() has its own buffer, whose
\* memory is followed by something else again.
Distance(a, b) == IF a > b THEN a - b ELSE b - a
Mad(s) == Percentile(50, Sort([a \in DOMAIN s |-> Distance(s[a], Percentile(50, s))]))

-----------------------------------------------------------------------------
Init ==
  /\ sorted \in Samples
  /\ beyond \in Beyond
  /\ phase = IF sorted = <<>> THEN "done" ELSE "average"
  /\ k = 0 /\ avg = 0 /\ remainder = 0 /\ sum = 0
  /\ i = 0 /\ start = 0 /\ count = 0 /\ count2 = 0 /\ shown = 0 /\ used = 0

\* Mutant of Average: what is left over is never carried into the average.
AverageNoCarry ==
  /\ phase = "average" /\ k < total
  /\ k' = k + 1
  /\ sum' = sum + sorted[k + 1]
  /\ avg' = avg + sorted[k + 1] \div total
  /\ remainder' = remainder
  /\ UNCHANGED <<sorted, beyond, phase, histogram>>

\* One sample of average().
Average ==
  /\ phase = "average" /\ k < total
  /\ k' = k + 1
  /\ sum' = sum + sorted[k + 1]
  /\ LET carries == remainder >= total - (sorted[k + 1] % total)
     IN /\ avg' = avg + sorted[k + 1] \div total + (IF carries THEN 1 ELSE 0)
        /\ remainder' = remainder + (sorted[k + 1] % total) - (IF carries THEN total ELSE 0)
  /\ UNCHANGED <<sorted, beyond, phase, histogram>>

\* The line of figures is printed: it is all that the file stats has.
Figures ==
  /\ phase = "average" /\ k = total
  /\ phase' = "figures"
  /\ UNCHANGED <<sorted, beyond, average, histogram>>

-----------------------------------------------------------------------------
\* The powers of b, by repeated multiplication.
Powers(b) ==
  LET power[e \in Nat] == IF e = 0 THEN 1 ELSE power[e - 1] * b
  IN power

\* ilog2 of the kernel, -1 for zero.
Log2(n) ==
  IF n = 0 THEN -1
  ELSE CHOOSE e \in 0 .. n : Powers(2)[e] <= n /\ n < Powers(2)[e + 1]

\* The power of ten that a share is rounded to.
Order(n) == Powers(10)[MaxOf(1, (Log2(n) * 3 + 5) \div 10) - 1]

Spread == ((Percentile(95, sorted) - sorted[1]) % Limit) \div HIST_BUCKETS
share  == MaxOf(1, (Spread \div Order(Spread)) * Order(Spread))

Histogram ==
  /\ phase = "figures"
  /\ phase' = "histogram"
  /\ start' = (sorted[1] \div Order(Spread)) * Order(Spread)
  /\ UNCHANGED <<sorted, beyond, average, i, count, count2, shown, used>>

\* The next sample belongs to the row.
InRow == i < total /\ sorted[i + 1] < (start + share) % Limit

CountIn ==
  /\ phase = "histogram" /\ InRow
  /\ i' = i + 1 /\ count' = count + 1 /\ count2' = count2 + 1
  /\ UNCHANGED <<sorted, beyond, phase, average, start, shown, used>>

\* A bar is of three bytes, and scnprintf stops at the end of the page.
Row      == 23 + HIST_WIDTH + 2 * ((count2 * HIST_WIDTH) \div total)
PageFull == used >= Page - HIST_WIDTH - 20

\* Mutant of PrintRow: the count of a row goes on into the next one.
PrintRowOn ==
  /\ phase = "histogram" /\ ~InRow
  /\ shown' = shown + count
  /\ start' = (start + share) % Limit
  /\ used' = MinOf(used + Row, Page - 1)
  /\ phase' = IF i >= total \/ sorted[i + 1] > Percentile(95, sorted) \/ PageFull'
                THEN "done" ELSE "histogram"
  /\ UNCHANGED <<sorted, beyond, average, i, count, count2>>

\* Mutant of PrintRow: the row of the 95th percentile is the last one.
PrintRowShort ==
  /\ phase = "histogram" /\ ~InRow
  /\ shown' = shown + count
  /\ count' = 0
  /\ start' = (start + share) % Limit
  /\ used' = MinOf(used + Row, Page - 1)
  /\ phase' = IF i >= total \/ sorted[i + 1] >= Percentile(95, sorted) \/ PageFull'
                THEN "done" ELSE "histogram"
  /\ UNCHANGED <<sorted, beyond, average, i, count2>>

PrintRow ==
  /\ phase = "histogram" /\ ~InRow
  /\ shown' = shown + count
  /\ count' = 0
  /\ start' = (start + share) % Limit
  /\ used' = MinOf(used + Row, Page - 1)
  /\ phase' = IF i >= total \/ sorted[i + 1] > Percentile(95, sorted) \/ PageFull'
                THEN "done" ELSE "histogram"
  /\ UNCHANGED <<sorted, beyond, average, i, count2>>

Compute == Average \/ Figures
Draw    == Histogram \/ CountIn \/ PrintRow

\* The file stats ends after the figures.
End  == phase \in {"figures", "done"} /\ UNCHANGED stats

Next == Compute \/ Draw \/ End

Spec == Init /\ [][Next]_stats

-----------------------------------------------------------------------------
(* Properties *)

StatsTypeOK ==
  /\ sorted \in Samples /\ beyond \in Beyond
  /\ phase \in {"average", "figures", "histogram", "done"}
  /\ k \in 0 .. total /\ avg \in Nat /\ remainder \in Nat /\ sum \in Nat
  /\ i \in 0 .. total /\ start \in 0 .. Limit - 1
  /\ count \in 0 .. i /\ count2 = i /\ shown \in Nat /\ used \in 0 .. Page

Computed == total > 0 /\ phase # "average"

\* The running mean of the IPv4 module, which never adds two samples, is the
\* quotient that the IPv6 module computes from the sum: nothing is lost to the
\* remainders, whatever the samples are.
SameAverage == Computed => avg = sum \div total

\* With twenty samples or more the percentiles are in order and among the
\* samples, and each is where its name says: as many samples are at or below
\* it, and all but one of as many at or above.  With less, the 95th one is made
\* of memory that holds no sample.
FiguresInOrder ==
  phase = "figures" /\ total >= 20 =>
    LET P(p) == Percentile(p, sorted)
    IN /\ sorted[1] <= P(50) /\ P(50) <= P(90) /\ P(90) <= P(95) /\ P(95) <= sorted[total]
       /\ Mad(sorted) <= sorted[total] - sorted[1]
       /\ \A p \in {50, 90, 95} :
            /\ 100 * Cardinality({a \in DOMAIN sorted : sorted[a] <= P(p)}) >= p * total
            /\ 100 * (Cardinality({a \in DOMAIN sorted : sorted[a] >= P(p)}) + 1)
                 >= (100 - p) * total

\* A row holds the samples from its start to its end, each sample is printed in
\* one row, and when the histogram ends every sample up to the 95th percentile
\* was in it, unless the page was full.
HistogramIsWhole ==
  /\ shown + count = i
  /\ phase = "histogram" =>
       \A a \in DOMAIN sorted : a > i - count => sorted[a] >= start
  /\ phase = "done" => PageFull \/ \A a \in i + 1 .. total : sorted[a] > Percentile(95, sorted)
=============================================================================
