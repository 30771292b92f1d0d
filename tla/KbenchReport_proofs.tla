-------------------------- MODULE KbenchReport_proofs -------------------------
(***************************************************************************)
(* The report of a benchmark, for every sequence of samples and every      *)
(* tree: the running mean is exact, the percentiles of twenty samples or   *)
(* more are in order and where their names say, the histogram loses no     *)
(* sample, and the walk of the routing tree, which has no recursion and no *)
(* stack, counts each route once, and at its depth in a tree without       *)
(* subtrees.                                                               *)
(***************************************************************************)
EXTENDS KbenchReport, NaturalsLemmas, FiniteSetTheorems, TLAPS

-----------------------------------------------------------------------------
\* What the running mean has not divided yet, and what it has, are the sum.
MeanInvariant ==
  /\ sorted \in Samples /\ k \in Nat /\ avg \in Nat /\ sum \in Nat
  /\ total > 0 => remainder \in 0 .. total - 1 /\ sum = avg * total + remainder

LEMMA InitMean ==
  ASSUME Init PROVE MeanInvariant
<1>1. total \in Nat
  BY StatsAssumption DEF Init, total
<1>2. 0 * total = 0
  BY <1>1
<1> QED BY <1>1, <1>2 DEF Init, MeanInvariant

\* One more sample, of quotient q and remainder r, with or without a carry.
LEMMA Carry ==
  ASSUME NEW n \in Nat \ {0}, NEW q \in Nat, NEW r \in 0 .. n - 1,
         NEW a \in Nat, NEW rem \in 0 .. n - 1
  PROVE  /\ a * n + rem + (n * q + r) = (a + q) * n + (rem + r)
         /\ a * n + rem + (n * q + r) = (a + q + 1) * n + (rem + r - n)
         /\ rem >= n - r => rem + r - n \in 0 .. n - 1
         /\ ~(rem >= n - r) => rem + r \in 0 .. n - 1
<1>1. n * q = q * n /\ q * n \in Nat /\ a * n \in Nat
  OBVIOUS
<1>2. (a + q) * n = a * n + q * n
  OBVIOUS
<1>3. (a + q + 1) * n = (a + q) * n + n
  OBVIOUS
<1> QED BY <1>1, <1>2, <1>3

LEMMA NextMean ==
  ASSUME MeanInvariant, [Next]_stats PROVE MeanInvariant'
<1>1. total \in Nat /\ \A a \in 1 .. total : sorted[a] \in Nat
  BY StatsAssumption DEF MeanInvariant, total
<1>2. CASE Average
  <2>1. k + 1 \in 1 .. total /\ total \in Nat \ {0} /\ UNCHANGED sorted
    BY <1>1, <1>2 DEF Average, MeanInvariant
  <2>2. /\ k' = k + 1 /\ sum' = sum + sorted[k + 1]
        /\ LET carries == remainder >= total - (sorted[k + 1] % total)
           IN /\ avg' = avg + sorted[k + 1] \div total + (IF carries THEN 1 ELSE 0)
              /\ remainder' = remainder + (sorted[k + 1] % total) - (IF carries THEN total ELSE 0)
    BY <1>2 DEF Average
  <2>3. sorted[k + 1] \in Nat
    BY <1>1, <2>1
  <2>4. /\ avg' \in Nat /\ remainder' \in 0 .. total - 1 /\ sum' = avg' * total + remainder'
    <3> DEFINE x == sorted[k + 1]
               q == x \div total
               r == x % total
               n == total
               carries == remainder >= n - r
    <3>1. /\ n \in Nat \ {0} /\ avg \in Nat /\ remainder \in 0 .. n - 1
          /\ sum = avg * n + remainder
      BY <2>1 DEF MeanInvariant
    <3>2. q \in Nat /\ r \in 0 .. n - 1 /\ x = n * q + r
      BY <2>1, <2>3, Divides
    <3>3. /\ avg' = avg + q + (IF carries THEN 1 ELSE 0)
          /\ remainder' = remainder + r - (IF carries THEN n ELSE 0)
          /\ sum' = sum + x
      BY <2>2
    <3> HIDE DEF x, q, r, n
    <3>4. /\ sum' = (avg + q) * n + (remainder + r)
          /\ sum' = (avg + q + 1) * n + (remainder + r - n)
          /\ remainder >= n - r => remainder + r - n \in 0 .. n - 1
          /\ ~(remainder >= n - r) => remainder + r \in 0 .. n - 1
      <4>1. sum' = avg * n + remainder + (n * q + r)
        BY <3>1, <3>2, <3>3
      <4> QED BY <3>1, <3>2, <4>1, Carry
    <3>5. CASE carries
      <4>1. avg' = avg + q + 1 /\ remainder' = remainder + r - n
        BY <3>3, <3>5
      <4> QED BY <3>1, <3>2, <3>4, <3>5, <4>1 DEF n
    <3>6. CASE ~carries
      <4>1. avg' = avg + q + 0 /\ remainder' = remainder + r - 0
        BY <3>3, <3>6
      <4>2. avg' = avg + q /\ remainder' = remainder + r
        BY <3>1, <3>2, <4>1
      <4> QED BY <3>1, <3>2, <3>4, <3>6, <4>2 DEF n
    <3> QED BY <3>5, <3>6
  <2>5. k' \in Nat /\ sum' \in Nat
    BY <2>2, <2>3 DEF MeanInvariant
  <2>6. total' = total
    BY <2>1 DEF total
  <2> QED BY <2>1, <2>4, <2>5, <2>6 DEF MeanInvariant
<1>3. CASE Figures \/ Draw \/ End \/ UNCHANGED stats
  BY <1>3 DEF Figures, Draw, Histogram, CountIn, PrintRow, End, stats, average, MeanInvariant, total
<1> QED BY <1>2, <1>3 DEF Next, Compute

\* Each behaviour of the report is one of the figures and the histogram.
LEMMA ReportIsSpec == Report => Spec
<1>1. ReportInit => Init
  BY DEF ReportInit
<1>2. [ReportNext]_vars => [Next]_stats
  BY DEF ReportNext, Reported, Ended, Depth, Next, Compute, Draw, vars
<1> QED BY <1>1, <1>2, PTL DEF Report, Spec

\* The mean that IPv4 computes without a sum is the one that IPv6 computes from
\* it, for all samples: no remainder is lost and none is counted twice.
THEOREM SameAverageAlways == Report => []SameAverage
<1>1. MeanInvariant => SameAverage
  <2> SUFFICES ASSUME MeanInvariant, total > 0 PROVE avg = sum \div total
    BY DEF SameAverage, Computed
  <2>1. total \in Nat \ {0}
    BY StatsAssumption DEF MeanInvariant, total
  <2> QED BY <2>1, Quotient DEF MeanInvariant
<1>2. Spec => []MeanInvariant
  BY InitMean, NextMean, PTL DEF Spec
<1> QED BY <1>1, <1>2, ReportIsSpec, PTL

-----------------------------------------------------------------------------
\* Where a percentile is read: only among the samples if there are twenty.
LEMMA ReadsBeyondFew ==
  ASSUME NEW n \in Nat \ {0}
  PROVE  /\ ReadsBeyond(95, n) <=> n < 20
         /\ ReadsBeyond(90, n) <=> n < 10
         /\ ReadsBeyond(50, n) <=> n = 1
  BY DEF ReadsBeyond, Exact, Index

\* The first and the last sample that a percentile is made of.
FirstRead(p, n) == Index(p, n) + 1
LastRead(p, n)  == (IF Exact(p, n) THEN Index(p, n) ELSE Index(p, n) + 1) + 1

LEMMA PercentileBetween ==
  ASSUME NEW s \in Seq(Nat), \A a, b \in DOMAIN s : a <= b => s[a] <= s[b],
         \A a \in DOMAIN s : 2 * s[a] < Limit,
         NEW p \in {50, 90, 95}, ~ReadsBeyond(p, Len(s)), Len(s) >= 20
  PROVE  /\ FirstRead(p, Len(s)) \in DOMAIN s /\ LastRead(p, Len(s)) \in DOMAIN s
         /\ s[FirstRead(p, Len(s))] <= Percentile(p, s)
         /\ Percentile(p, s) <= s[LastRead(p, Len(s))]
         /\ Percentile(p, s) \in Nat
<1> DEFINE n == Len(s)
           index == Index(p, n)
<1>1. n \in Nat /\ DOMAIN s = 1 .. n /\ Limit \in Nat \ {0}
  BY StatsAssumption
<1>2. index \in Nat /\ index < n /\ (Exact(p, n) \/ index + 1 < n)
  BY <1>1 DEF ReadsBeyond, Exact, Index
<1>3. s[index + 1] \in Nat /\ At(s, index) = s[index + 1] /\ index + 1 \in DOMAIN s
  BY <1>1, <1>2 DEF At
<1>4. CASE Exact(p, n)
  <2>1. Percentile(p, s) = s[index + 1]
    BY <1>3, <1>4 DEF Percentile
  <2> QED BY <1>3, <1>4, <2>1 DEF FirstRead, LastRead
<1>5. CASE ~Exact(p, n)
  <2>1. index + 2 \in DOMAIN s /\ At(s, index + 1) = s[index + 2] /\ s[index + 2] \in Nat
        /\ index + 1 + 1 = index + 2
    BY <1>1, <1>2, <1>5 DEF At
  <2> DEFINE x == s[index + 1]
             y == s[index + 2]
  <2>2. x <= y /\ 2 * x < Limit /\ 2 * y < Limit
    BY <1>1, <1>2, <1>3, <2>1
  <2>3. Percentile(p, s) = ((x + y) % Limit) \div 2
    BY <1>3, <1>5, <2>1 DEF Percentile
  <2> HIDE DEF x, y
  <2>4. x \in Nat /\ y \in Nat
    BY <1>3, <2>1 DEF x, y
  <2>5. (x + y) % Limit = x + y
    <3>1. x + y \in Nat /\ x + y < Limit
      BY <1>1, <2>2, <2>4
    <3> QED BY <1>1, <3>1, SmallModulo
  <2>6. x <= (x + y) \div 2 /\ (x + y) \div 2 <= y /\ (x + y) \div 2 \in Nat
    BY <2>2, <2>4
  <2> QED BY <1>3, <1>5, <2>1, <2>3, <2>5, <2>6 DEF x, y, FirstRead, LastRead
<1> QED BY <1>4, <1>5

LEMMA Through ==
  \A u, v, w \in Nat : u <= v /\ v <= w => u <= w
  OBVIOUS

\* Twenty samples are enough for the order of the figures that FiguresInOrder
\* asks for, whatever the samples are.
THEOREM PercentilesInOrder ==
  ASSUME NEW s \in Samples, Len(s) >= 20
  PROVE  /\ s[1] <= Percentile(50, s)
         /\ Percentile(50, s) <= Percentile(90, s)
         /\ Percentile(90, s) <= Percentile(95, s)
         /\ Percentile(95, s) <= s[Len(s)]
<1> DEFINE n == Len(s)
<1>1. /\ s \in Seq(Nat) /\ \A a, b \in DOMAIN s : a <= b => s[a] <= s[b]
      /\ \A a \in DOMAIN s : 2 * s[a] < Limit
  BY StatsAssumption
<1>2. n \in Nat \ {0} /\ DOMAIN s = 1 .. n /\ \A a \in DOMAIN s : s[a] \in Nat
  BY <1>1
<1>3. \A p \in {50, 90, 95} : ~ReadsBeyond(p, n)
  BY <1>2, ReadsBeyondFew
<1> DEFINE First(p) == FirstRead(p, n)
           Last(p)  == LastRead(p, n)
<1>4. \A p \in {50, 90, 95} :
        /\ First(p) \in DOMAIN s /\ Last(p) \in DOMAIN s
        /\ s[First(p)] <= Percentile(p, s) /\ Percentile(p, s) <= s[Last(p)]
        /\ Percentile(p, s) \in Nat
  <2> SUFFICES ASSUME NEW p \in {50, 90, 95}
               PROVE  /\ First(p) \in DOMAIN s /\ Last(p) \in DOMAIN s
                      /\ s[First(p)] <= Percentile(p, s) /\ Percentile(p, s) <= s[Last(p)]
                      /\ Percentile(p, s) \in Nat
    OBVIOUS
  <2>1. ~ReadsBeyond(p, Len(s))
    BY <1>3
  <2> QED BY <1>1, <2>1, PercentileBetween
<1>5. Last(50) <= First(90) /\ Last(90) <= First(95)
  BY <1>2 DEF Exact, Index, FirstRead, LastRead
<1>6. s[1] <= s[First(50)] /\ s[Last(95)] <= s[n]
  <2>1. First(50) \in 1 .. n /\ Last(95) \in 1 .. n
    BY <1>2, <1>4
  <2>2. 1 \in DOMAIN s /\ n \in DOMAIN s /\ 1 <= First(50) /\ Last(95) <= n
    BY <1>2, <2>1
  <2> HIDE DEF First, Last
  <2> QED BY <1>1, <1>2, <2>1, <2>2
<1>7. s[Last(50)] <= s[First(90)] /\ s[Last(90)] <= s[First(95)]
  <2> HIDE DEF First, Last
  <2> QED BY <1>1, <1>4, <1>5
<1>8. /\ s[1] \in Nat /\ s[n] \in Nat
      /\ s[First(50)] \in Nat /\ s[First(90)] \in Nat /\ s[First(95)] \in Nat
      /\ s[Last(50)] \in Nat /\ s[Last(90)] \in Nat /\ s[Last(95)] \in Nat
  <2>1. 1 \in DOMAIN s /\ n \in DOMAIN s
    BY <1>2
  <2> HIDE DEF First, Last
  <2> QED BY <1>2, <1>4, <2>1
<1>9. /\ s[First(50)] <= Percentile(50, s) /\ Percentile(50, s) <= s[Last(50)]
      /\ s[First(90)] <= Percentile(90, s) /\ Percentile(90, s) <= s[Last(90)]
      /\ s[First(95)] <= Percentile(95, s) /\ Percentile(95, s) <= s[Last(95)]
      /\ Percentile(50, s) \in Nat /\ Percentile(90, s) \in Nat /\ Percentile(95, s) \in Nat
  <2> HIDE DEF First, Last
  <2> QED BY <1>4
<1> HIDE DEF n, First, Last
<1>10. Percentile(50, s) <= Percentile(90, s)
  <2>1. /\ Percentile(50, s) <= s[Last(50)]
        /\ s[Last(50)] <= s[First(90)]
        /\ s[First(90)] <= Percentile(90, s)
    BY <1>7, <1>9
  <2>2. /\ s[Last(50)] \in Nat /\ s[First(90)] \in Nat
        /\ Percentile(50, s) \in Nat /\ Percentile(90, s) \in Nat
    BY <1>8, <1>9
  <2>3. s[Last(50)] <= Percentile(90, s)
    BY <2>1, <2>2, Through
  <2> QED BY <2>1, <2>2, <2>3, Through
<1>11. Percentile(90, s) <= Percentile(95, s)
  <2>1. /\ Percentile(90, s) <= s[Last(90)]
        /\ s[Last(90)] <= s[First(95)]
        /\ s[First(95)] <= Percentile(95, s)
    BY <1>7, <1>9
  <2>2. /\ s[Last(90)] \in Nat /\ s[First(95)] \in Nat
        /\ Percentile(90, s) \in Nat /\ Percentile(95, s) \in Nat
    BY <1>8, <1>9
  <2>3. s[Last(90)] <= Percentile(95, s)
    BY <2>1, <2>2, Through
  <2> QED BY <2>1, <2>2, <2>3, Through
<1>12. s[1] <= Percentile(50, s)
  BY <1>6, <1>8, <1>9, Through, Zenon
<1>13. Percentile(95, s) <= s[n]
  BY <1>6, <1>8, <1>9, Through, Zenon
<1> QED BY <1>10, <1>11, <1>12, <1>13 DEF n

-----------------------------------------------------------------------------
\* Sort returns as many values, between the same bounds and in order.
LEMMA SortInOrder ==
  ASSUME NEW n \in Nat \ {0}, NEW m \in Nat, NEW s \in [1 .. n -> 0 .. m]
  PROVE  /\ Sort(s) \in [1 .. n -> 0 .. m]
         /\ \A a, b \in 1 .. n : a <= b => Sort(s)[a] <= Sort(s)[b]
<1> DEFINE AtMost(v) == {a \in 1 .. n : s[a] <= v}
           Reach(l)  == {v \in Range(s) : Cardinality(AtMost(v)) >= l}
<1>1. Range(s) \subseteq 0 .. m /\ DOMAIN s = 1 .. n
  BY DEF Range
<1>2. \A v \in 0 .. m : Cardinality(AtMost(v)) \in Nat
  <2> TAKE v \in 0 .. m
  <2>1. AtMost(v) \in SUBSET (1 .. n) /\ IsFiniteSet(1 .. n)
    BY FS_Interval
  <2> HIDE DEF AtMost
  <2> QED BY <2>1, FS_Subset, FS_CardinalityType
<1>3. PICK top \in 1 .. n : \A a \in 1 .. n : s[a] <= s[top]
  <2> DEFINE T == {m - s[a] : a \in 1 .. n}
  <2>1. T \in SUBSET Nat /\ T # {}
    OBVIOUS
  <2>2. PICK x \in T : \A y \in T : x <= y
    <3> HIDE DEF T
    <3> QED BY <2>1, Minimum
  <2>3. PICK top \in 1 .. n : x = m - s[top]
    OBVIOUS
  <2>4. \A a \in 1 .. n : m - s[top] <= m - s[a]
    BY <2>2, <2>3
  <2>5. \A a \in 1 .. n : s[a] \in Int
    OBVIOUS
  <2> HIDE DEF T
  <2>6. ASSUME NEW a \in 1 .. n PROVE s[a] <= s[top]
    <3>1. s[a] \in Int /\ s[top] \in Int /\ m - s[top] <= m - s[a]
      BY <2>4, <2>5
    <3> QED BY <3>1
  <2> QED BY <2>6
<1>4. ASSUME NEW l \in 1 .. n PROVE s[top] \in Reach(l)
  <2>1. AtMost(s[top]) = 1 .. n
    BY <1>3
  <2>2. Cardinality(1 .. n) = n
    BY FS_Interval
  <2>3. s[top] \in Range(s)
    BY <1>1 DEF Range
  <2> HIDE DEF AtMost
  <2> QED BY <2>1, <2>2, <2>3
<1>5. ASSUME NEW l \in 1 .. n
      PROVE  Min(Reach(l)) \in Reach(l) /\ \A v \in Reach(l) : Min(Reach(l)) <= v
  <2>1. Reach(l) \in SUBSET Nat /\ Reach(l) # {}
    <3>1. Reach(l) \subseteq Range(s)
      OBVIOUS
    <3> HIDE DEF Reach
    <3> QED BY <1>1, <1>4, <3>1
  <2>2. \E x \in Reach(l) : \A y \in Reach(l) : x <= y
    <3> HIDE DEF Reach
    <3> QED BY <2>1, Minimum
  <2> HIDE DEF Reach
  <2> QED BY <2>2 DEF Min
<1>6. Sort(s) = [l \in 1 .. n |-> Min(Reach(l))]
  BY <1>1 DEF Sort
<1>7. \A a, b \in 1 .. n : a <= b => Reach(b) \subseteq Reach(a)
  <2> SUFFICES ASSUME NEW a \in 1 .. n, NEW b \in 1 .. n, a <= b,
                      NEW v \in Range(s), Cardinality(AtMost(v)) >= b
               PROVE  Cardinality(AtMost(v)) >= a
    OBVIOUS
  <2>1. Cardinality(AtMost(v)) \in Nat
    BY <1>1, <1>2
  <2> QED BY <2>1
<1>8. \A l \in 1 .. n : Reach(l) \subseteq 0 .. m
  BY <1>1
<1> HIDE DEF Reach
<1> QED BY <1>5, <1>6, <1>7, <1>8

\* Two numbers of a range are no further apart than its ends.
LEMMA DistanceBetween ==
  ASSUME NEW x \in Nat, NEW y \in Nat, NEW a \in Nat, NEW b \in Nat,
         x <= a, a <= y, x <= b, b <= y
  PROVE  Distance(a, b) \in 0 .. y - x
  BY DEF Distance

\* The distances to the median are at most the spread of the samples, and so is
\* their own median.
LEMMA MadInSpread ==
  ASSUME NEW s \in Samples, Len(s) >= 20
  PROVE  Mad(s) <= s[Len(s)] - s[1]
<1> DEFINE n == Len(s)
           mid == Percentile(50, s)
           m == s[n] - s[1]
           d == [a \in DOMAIN s |-> Distance(s[a], mid)]
<1>1. /\ s \in Seq(Nat) /\ \A a, b \in DOMAIN s : a <= b => s[a] <= s[b]
      /\ \A a \in DOMAIN s : 2 * s[a] < Limit
  BY StatsAssumption
<1>2. n \in Nat \ {0} /\ n >= 20 /\ DOMAIN s = 1 .. n /\ \A a \in 1 .. n : s[a] \in Nat
  BY <1>1
<1>3. 1 \in 1 .. n /\ n \in 1 .. n /\ Limit \in Nat
  BY <1>2, StatsAssumption
<1>4. mid \in Nat /\ s[1] <= mid /\ mid <= s[n]
  <2>1. ~ReadsBeyond(50, n)
    BY <1>2, ReadsBeyondFew
  <2>2. mid \in Nat
    BY <1>1, <1>2, <2>1, PercentileBetween
  <2>3. /\ s[1] <= mid /\ mid <= Percentile(90, s)
        /\ Percentile(90, s) <= Percentile(95, s) /\ Percentile(95, s) <= s[n]
    BY <1>2, PercentilesInOrder
  <2>4. Percentile(90, s) \in Nat /\ Percentile(95, s) \in Nat
    <3>1. ~ReadsBeyond(90, n) /\ ~ReadsBeyond(95, n)
      BY <1>2, ReadsBeyondFew
    <3> QED BY <1>1, <1>2, <3>1, PercentileBetween
  <2>5. s[n] \in Nat
    BY <1>2, <1>3
  <2> HIDE DEF mid, n
  <2> QED BY <2>2, <2>3, <2>4, <2>5, Through
<1>5. \A a \in 1 .. n : s[1] <= s[a] /\ s[a] <= s[n]
  <2> TAKE a \in 1 .. n
  <2>1. 1 <= a /\ a <= n
    OBVIOUS
  <2> HIDE DEF n
  <2> QED BY <1>1, <1>2, <1>3, <2>1
<1>6. m \in Nat /\ 2 * m < Limit
  <2>1. s[1] \in Nat /\ s[n] \in Nat /\ s[1] <= s[n] /\ 2 * s[n] < Limit
    BY <1>1, <1>2, <1>3, <1>5
  <2> HIDE DEF n
  <2> QED BY <1>3, <2>1
<1> HIDE DEF mid
<1>7. d \in [1 .. n -> 0 .. m]
  <2>1. ASSUME NEW a \in 1 .. n PROVE Distance(s[a], mid) \in 0 .. m
    <3>1. s[a] \in Nat /\ s[1] \in Nat /\ s[n] \in Nat /\ s[1] <= s[a] /\ s[a] <= s[n]
      BY <1>2, <1>3, <1>5
    <3> HIDE DEF n
    <3> QED BY <1>4, <3>1, DistanceBetween
  <2> QED BY <1>2, <2>1
<1> HIDE DEF d, m, n
<1> DEFINE t == Sort(d)
<1>8. t \in [1 .. n -> 0 .. m] /\ \A a, b \in 1 .. n : a <= b => t[a] <= t[b]
  BY <1>2, <1>6, <1>7, SortInOrder
<1> HIDE DEF t
<1>9. t \in Seq(Nat) /\ Len(t) = n /\ DOMAIN t = 1 .. n
  BY <1>2, <1>6, <1>8
<1>10. \A a \in DOMAIN t : 2 * t[a] < Limit
  <2> TAKE a \in DOMAIN t
  <2>1. t[a] \in 0 .. m
    BY <1>8, <1>9
  <2> QED BY <1>3, <1>6, <2>1
<1>11. ~ReadsBeyond(50, Len(t)) /\ Len(t) >= 20
  BY <1>2, <1>9, ReadsBeyondFew
<1>12. LastRead(50, Len(t)) \in DOMAIN t /\ Percentile(50, t) <= t[LastRead(50, Len(t))] /\ Percentile(50, t) \in Nat
  BY <1>8, <1>9, <1>10, <1>11, PercentileBetween
<1>13. t[LastRead(50, Len(t))] <= m /\ t[LastRead(50, Len(t))] \in Nat
  BY <1>6, <1>8, <1>9, <1>12
<1>14. Percentile(50, t) <= m
  BY <1>6, <1>12, <1>13, Through
<1> QED BY <1>14 DEF Mad, d, m, n, t, mid

\* The samples that a percentile is read from are where its name says.
Covers(p, n) ==
  100 * FirstRead(p, n) >= p * n /\ 100 * (n - LastRead(p, n) + 2) >= (100 - p) * n

LEMMA ReadsWhereItSays ==
  ASSUME NEW n \in Nat \ {0}, NEW p \in {50, 90, 95}
  PROVE  Covers(p, n)
<1>1. CASE p = 50
  BY <1>1 DEF Covers, FirstRead, LastRead, Exact, Index
<1>2. CASE p = 90
  BY <1>2 DEF Covers, FirstRead, LastRead, Exact, Index
<1>3. CASE p = 95
  BY <1>3 DEF Covers, FirstRead, LastRead, Exact, Index
<1> QED BY <1>1, <1>2, <1>3

\* As many samples are at or below a percentile, and all but one of as many at
\* or above, as its name says.
LEMMA PercentileCounts ==
  ASSUME NEW s \in Samples, Len(s) >= 20, NEW p \in {50, 90, 95}
  PROVE  /\ 100 * Cardinality({a \in DOMAIN s : s[a] <= Percentile(p, s)}) >= p * Len(s)
         /\ 100 * (Cardinality({a \in DOMAIN s : s[a] >= Percentile(p, s)}) + 1)
              >= (100 - p) * Len(s)
<1> DEFINE n == Len(s)
           first == FirstRead(p, n)
           last == LastRead(p, n)
           value == Percentile(p, s)
           Below == {a \in DOMAIN s : s[a] <= value}
           Above == {a \in DOMAIN s : s[a] >= value}
<1>1. /\ s \in Seq(Nat) /\ \A a, b \in DOMAIN s : a <= b => s[a] <= s[b]
      /\ \A a \in DOMAIN s : 2 * s[a] < Limit
  BY StatsAssumption
<1>2. n \in Nat \ {0} /\ n >= 20 /\ DOMAIN s = 1 .. n /\ \A a \in 1 .. n : s[a] \in Nat
  BY <1>1
<1>3. /\ first \in 1 .. n /\ last \in 1 .. n
      /\ s[first] <= value /\ value <= s[last] /\ value \in Nat
  <2>1. ~ReadsBeyond(p, Len(s))
    BY <1>2, ReadsBeyondFew
  <2>2. /\ FirstRead(p, Len(s)) \in DOMAIN s /\ LastRead(p, Len(s)) \in DOMAIN s
        /\ s[FirstRead(p, Len(s))] <= Percentile(p, s)
        /\ Percentile(p, s) <= s[LastRead(p, Len(s))]
        /\ Percentile(p, s) \in Nat
    <3> HIDE DEF first, last, value, n
    <3> QED BY <1>1, <2>1, PercentileBetween
  <2>3. DOMAIN s = 1 .. n
    BY <1>2
  <2> QED BY <2>2, <2>3
<1>4. 100 * first >= p * n /\ 100 * (n - last + 2) >= (100 - p) * n
  <2>1. Len(s) \in Nat \ {0}
    BY <1>2
  <2>2. Covers(p, Len(s))
    BY <2>1, ReadsWhereItSays
  <2> QED BY <2>2 DEF Covers
<1> HIDE DEF first, last, value, n
<1>5. \A a, b \in 1 .. n : a <= b => s[a] <= s[b]
  <2>1. \A a, b \in DOMAIN s : a <= b => s[a] <= s[b]
    BY <1>1
  <2> TAKE a, b \in 1 .. n
  <2>2. a \in DOMAIN s /\ b \in DOMAIN s
    BY <1>2
  <2> QED BY <2>1, <2>2
<1>6. 1 .. first \subseteq Below /\ last .. n \subseteq Above
  <2>1. ASSUME NEW a \in 1 .. first PROVE a \in Below
    <3>1. a \in 1 .. n /\ a <= first
      BY <1>2, <1>3
    <3>2. s[a] <= s[first] /\ s[a] \in Nat /\ s[first] \in Nat
      BY <1>2, <1>3, <1>5, <3>1
    <3> QED BY <1>2, <1>3, <3>1, <3>2, Through
  <2>2. ASSUME NEW a \in last .. n PROVE a \in Above
    <3>1. a \in 1 .. n /\ last <= a
      BY <1>2, <1>3
    <3>2. s[last] <= s[a] /\ s[a] \in Nat /\ s[last] \in Nat
      BY <1>2, <1>3, <1>5, <3>1
    <3>3. value <= s[a]
      BY <1>3, <3>2, Through
    <3> QED BY <1>2, <1>3, <3>1, <3>2, <3>3
  <2> QED BY <2>1, <2>2
<1>7. Below \subseteq 1 .. n /\ Above \subseteq 1 .. n
  BY <1>2
<1> HIDE DEF Below, Above
<1>8. /\ Cardinality(Below) \in Nat /\ Cardinality(Below) >= first
      /\ Cardinality(Above) \in Nat /\ Cardinality(Above) >= n - last + 1
  <2>1. IsFiniteSet(Below) /\ IsFiniteSet(Above)
    <3>1. IsFiniteSet(1 .. n)
      BY <1>2, FS_Interval
    <3> QED BY <1>7, <3>1, FS_Subset
  <2>2. Cardinality(1 .. first) = first /\ Cardinality(last .. n) = n - last + 1
    BY <1>2, <1>3, FS_Interval
  <2>3. Cardinality(1 .. first) <= Cardinality(Below) /\ Cardinality(last .. n) <= Cardinality(Above)
    BY <1>6, <2>1, FS_Subset
  <2>4. Cardinality(Below) \in Nat /\ Cardinality(Above) \in Nat
    BY <2>1, FS_CardinalityType
  <2> QED BY <1>2, <1>3, <2>2, <2>3, <2>4
<1>9. 100 * Cardinality(Below) >= p * n /\ 100 * (Cardinality(Above) + 1) >= (100 - p) * n
  <2> DEFINE x == p * n
             y == (100 - p) * n
             b == Cardinality(Below)
             c == Cardinality(Above)
  <2>1. x \in Int /\ y \in Int
    BY <1>2
  <2>2. 100 * first >= x /\ 100 * (n - last + 2) >= y
    BY <1>4
  <2>3. b \in Nat /\ c \in Nat /\ b >= first /\ c >= n - last + 1
    BY <1>8
  <2> HIDE DEF x, y, b, c
  <2>4. 100 * b >= x /\ 100 * (c + 1) >= y
    BY <1>2, <1>3, <2>1, <2>2, <2>3
  <2> QED BY <2>4 DEF x, y, b, c
<1> QED BY <1>9 DEF Below, Above, value, n

\* The samples are those that the report started with.
LEMMA SamplesStay == Spec => [](sorted \in Samples)
<1>1. Init => sorted \in Samples
  BY DEF Init
<1>2. sorted \in Samples /\ [Next]_stats => (sorted \in Samples)'
  BY DEF Next, Compute, Draw, Average, Figures, Histogram, CountIn, PrintRow, End, stats
<1> QED BY <1>1, <1>2, PTL DEF Spec

\* From twenty samples on, the figures that are printed are in order, each of
\* them where its name says, whatever the samples are.
THEOREM FiguresAlwaysInOrder == Report => []FiguresInOrder
<1>1. sorted \in Samples => FiguresInOrder
  <2> SUFFICES ASSUME sorted \in Samples, Len(sorted) >= 20
               PROVE  LET P(p) == Percentile(p, sorted)
                      IN /\ sorted[1] <= P(50) /\ P(50) <= P(90) /\ P(90) <= P(95)
                         /\ P(95) <= sorted[total]
                         /\ Mad(sorted) <= sorted[total] - sorted[1]
                         /\ \A p \in {50, 90, 95} :
                              /\ 100 * Cardinality({a \in DOMAIN sorted : sorted[a] <= P(p)})
                                   >= p * total
                              /\ 100 * (Cardinality({a \in DOMAIN sorted : sorted[a] >= P(p)}) + 1)
                                   >= (100 - p) * total
    BY DEF FiguresInOrder, total
  <2> QED BY PercentilesInOrder, MadInSpread, PercentileCounts DEF total
<1> QED BY <1>1, SamplesStay, ReportIsSpec, PTL

-----------------------------------------------------------------------------
\* The powers of a base are naturals above zero, and obey their definition.
LEMMA PowersTyped ==
  ASSUME NEW b \in Nat \ {0}
  PROVE  /\ Powers(b) \in [Nat -> Nat \ {0}] /\ Powers(b)[0] = 1
         /\ \A e \in Nat : Powers(b)[e + 1] = Powers(b)[e] * b
<1> DEFINE Step == [e \in Nat |-> [x \in Nat \ {0} |-> x * b]]
           before == [e \in Nat |-> e - 1]
           IsPower(f) == f = [e \in Nat |-> IF e = 0 THEN 1 ELSE f[e - 1] * b]
<1>1. PICK h : Followed(Nat, {0}, before, Nat \ {0}, 1, Step, h)
  <2>1. \A e \in Nat \ {0} : before[e] \in Nat /\ before[e] < e
    OBVIOUS
  <2>2. \A e \in Nat, x \in Nat \ {0} : Step[e][x] \in Nat \ {0}
    <3>1. \A x \in Nat \ {0} : x * b \in Nat \ {0}
      OBVIOUS
    <3> QED BY <3>1
  <2>3. Nat \in SUBSET Nat /\ 1 \in Nat \ {0}
    OBVIOUS
  <2> HIDE DEF before, Step
  <2> QED BY <2>1, <2>2, <2>3, FollowedOnAll
<1>2. h \in [Nat -> Nat \ {0}] /\ \A e \in Nat : h[e] = IF e = 0 THEN 1 ELSE h[e - 1] * b
  <2>1. h \in [Nat -> Nat \ {0}]
    BY <1>1 DEF Followed
  <2>2. ASSUME NEW e \in Nat PROVE h[e] = IF e = 0 THEN 1 ELSE h[e - 1] * b
    <3>1. h[e] = IF e \in {0} THEN 1 ELSE Step[e][h[before[e]]]
      BY <1>1 DEF Followed
    <3>2. CASE e = 0
      BY <3>1, <3>2
    <3>3. CASE e # 0
      <4>1. before[e] = e - 1 /\ e - 1 \in Nat /\ h[e - 1] \in Nat \ {0}
        BY <2>1, <3>3
      <4> QED BY <3>1, <3>3, <4>1
    <3> QED BY <3>2, <3>3
  <2> QED BY <2>1, <2>2
<1>3. IsPower(h)
  BY <1>2
<1>4. Powers(b) = CHOOSE f : IsPower(f)
  BY DEF Powers
<1>5. IsPower(Powers(b))
  <2> HIDE DEF IsPower
  <2> QED BY <1>3, <1>4
<1> DEFINE power == Powers(b)
<1>6. power = [e \in Nat |-> IF e = 0 THEN 1 ELSE power[e - 1] * b]
  BY <1>5
<1> HIDE DEF power, IsPower
<1>7. power[0] = 1 /\ \A e \in Nat : power[e + 1] = power[e] * b
  <2>1. power[0] = 1
    BY <1>6
  <2>2. ASSUME NEW e \in Nat PROVE power[e + 1] = power[e] * b
    <3>1. e + 1 \in Nat /\ e + 1 # 0 /\ (e + 1) - 1 = e
      OBVIOUS
    <3> QED BY <1>6, <3>1
  <2> QED BY <2>1, <2>2
<1>8. \A e \in Nat : power[e] \in Nat \ {0}
  <2> DEFINE T == {e \in Nat : power[e] \in Nat \ {0}}
  <2>1. 0 \in T
    BY <1>7
  <2>2. ASSUME NEW e \in Nat, e \in T PROVE e + 1 \in T
    BY <1>7, <2>2
  <2>3. Nat \subseteq T
    <3> HIDE DEF T
    <3> QED BY <2>1, <2>2, All
  <2> QED BY <2>3
<1>9. power \in [Nat -> Nat \ {0}]
  BY <1>6, <1>8
<1> QED BY <1>7, <1>9 DEF power

\* Each natural but zero is between two powers of two: Log2 is what it says.
LEMMA Log2Typed ==
  ASSUME NEW n \in Nat
  PROVE  Log2(n) \in Int
<1>1. SUFFICES ASSUME n # 0 PROVE Log2(n) \in Int
  BY DEF Log2
<1> DEFINE power == Powers(2)
           Between(e) == power[e] <= n /\ n < power[e + 1]
<1>2. /\ power \in [Nat -> Nat \ {0}] /\ power[0] = 1
      /\ \A e \in Nat : power[e + 1] = power[e] * 2
  BY PowersTyped
<1> HIDE DEF power
<1>3. \A e \in Nat : e < power[e]
  <2> DEFINE T == {e \in Nat : e < power[e]}
  <2>1. 0 \in T
    BY <1>2
  <2>2. ASSUME NEW e \in Nat, e \in T PROVE e + 1 \in T
    <3>1. e < power[e] /\ power[e] \in Nat /\ power[e + 1] = power[e] * 2
      BY <1>2, <2>2
    <3> QED BY <3>1
  <2>3. Nat \subseteq T
    <3> HIDE DEF T
    <3> QED BY <2>1, <2>2, All
  <2> QED BY <2>3
<1>4. \E e \in 0 .. n : Between(e)
  <2> DEFINE T == {e \in Nat : n < power[e + 1]}
  <2>1. n \in T
    <3>1. n + 1 \in Nat /\ n + 1 < power[n + 1] /\ power[n + 1] \in Nat
      BY <1>2, <1>3
    <3> QED BY <3>1
  <2>2. PICK e \in T : \A f \in T : e <= f
    <3> HIDE DEF T
    <3>1. T \in SUBSET Nat
      BY DEF T
    <3> QED BY <2>1, <3>1, Minimum
  <2>3. e <= n
    BY <2>1, <2>2
  <2>4. power[e] <= n
    <3>1. CASE e = 0
      BY <1>1, <1>2, <3>1
    <3>2. CASE e # 0
      <4>1. e - 1 \in Nat /\ ~(e <= e - 1) /\ (e - 1) + 1 = e
        BY <3>2
      <4>2. ~(n < power[e])
        BY <2>2, <4>1
      <4>3. power[e] \in Nat
        BY <1>2
      <4> QED BY <4>2, <4>3
    <3> QED BY <3>1, <3>2
  <2> QED BY <2>3, <2>4
<1>5. Log2(n) = CHOOSE e \in 0 .. n : Between(e)
  BY <1>1 DEF Log2, power
<1> HIDE DEF Between
<1>6. Log2(n) \in 0 .. n
  BY <1>4, <1>5
<1> QED BY <1>6

LEMMA OrderTyped ==
  ASSUME NEW n \in Nat
  PROVE  Order(n) \in Nat \ {0}
<1> DEFINE e == MaxOf(1, (Log2(n) * 3 + 5) \div 10) - 1
<1>1. e \in Nat
  <2>1. (Log2(n) * 3 + 5) \div 10 \in Int
    BY Log2Typed
  <2> QED BY <2>1 DEF MaxOf
<1>2. Powers(10)[e] \in Nat \ {0}
  <2> HIDE DEF e
  <2>1. 10 \in Nat \ {0}
    OBVIOUS
  <2> QED BY <1>1, <2>1, PowersTyped
<1> QED BY <1>2 DEF Order

-----------------------------------------------------------------------------
LEMMA PercentileTyped ==
  ASSUME NEW s \in Samples, beyond \in Beyond, NEW p \in Nat
  PROVE  Percentile(p, s) \in Nat
<1>1. /\ Len(s) \in Nat /\ \A a \in 1 .. Len(s) : s[a] \in Nat
      /\ beyond \in Nat /\ Limit \in Nat \ {0}
  BY StatsAssumption
<1>2. Index(p, Len(s)) \in Nat
  <2>1. p * Len(s) \in Nat
    BY <1>1
  <2> QED BY <2>1 DEF Index
<1>3. \A index \in Nat : At(s, index) \in Nat
  BY <1>1 DEF At
<1>4. CASE Exact(p, Len(s))
  <2>1. Percentile(p, s) = At(s, Index(p, Len(s)))
    BY <1>4 DEF Percentile
  <2> QED BY <1>2, <1>3, <2>1
<1>5. CASE ~Exact(p, Len(s))
  <2> DEFINE x == At(s, Index(p, Len(s)))
             y == At(s, Index(p, Len(s)) + 1)
  <2>1. x \in Nat /\ y \in Nat
    <3> DEFINE first == Index(p, Len(s))
    <3>1. first \in Nat
      BY <1>2
    <3> HIDE DEF first
    <3>2. first + 1 \in Nat
      BY <3>1
    <3>3. At(s, first) \in Nat /\ At(s, first + 1) \in Nat
      BY <1>3, <3>1, <3>2, Zenon
    <3> QED BY <3>3 DEF first
  <2>2. Percentile(p, s) = ((x + y) % Limit) \div 2
    BY <1>5 DEF Percentile
  <2> HIDE DEF x, y
  <2>3. (x + y) % Limit \in Nat
    BY <1>1, <2>1
  <2> QED BY <2>2, <2>3
<1> QED BY <1>4, <1>5

\* The rows start at or below the least sample, and the next one is never less
\* than 0 or as much as Limit.
LEMMA RowStarts ==
  ASSUME sorted \in Samples, beyond \in Beyond, total > 0
  PROVE  /\ Order(Spread) \in Nat \ {0} /\ share \in Nat
         /\ (sorted[1] \div Order(Spread)) * Order(Spread) \in 0 .. sorted[1]
         /\ sorted[1] \in 0 .. Limit - 1
<1>1. total \in Nat \ {0} /\ sorted[1] \in 0 .. Limit - 1 /\ Limit \in Nat \ {0}
  BY StatsAssumption DEF total
<1>2. Spread \in Nat
  <2>1. Percentile(95, sorted) \in Nat
    BY PercentileTyped
  <2>2. (Percentile(95, sorted) - sorted[1]) % Limit \in Nat
    BY <1>1, <2>1
  <2>3. HIST_BUCKETS \in Nat \ {0}
    BY StatsAssumption
  <2> DEFINE x == (Percentile(95, sorted) - sorted[1]) % Limit
  <2>4. x \div HIST_BUCKETS \in Nat
    <3> HIDE DEF x
    <3>1. x \in Nat
      BY <2>2 DEF x
    <3> QED BY <2>3, <3>1, Divides
  <2> QED BY <2>4 DEF Spread
<1>3. Order(Spread) \in Nat \ {0}
  BY <1>2, OrderTyped
<1> DEFINE o == Order(Spread)
<1>4. ASSUME NEW x \in Nat PROVE (x \div o) * o \in Nat /\ (x \div o) * o <= x
  <2> HIDE DEF o
  <2>1. o \in Nat \ {0}
    BY <1>3 DEF o
  <2>2. x \div o \in Nat /\ x % o \in 0 .. o - 1 /\ x = o * (x \div o) + (x % o)
    BY <2>1, Divides
  <2> DEFINE q == x \div o
  <2>3. o * q = q * o /\ q * o \in Nat
    BY <2>1, <2>2
  <2> HIDE DEF q
  <2>4. x % o \in Nat /\ x = o * q + (x % o)
    BY <2>1, <2>2 DEF q
  <2> QED BY <2>3, <2>4 DEF q
<1>5. share \in Nat
  BY <1>2, <1>4 DEF share, MaxOf
<1> QED BY <1>1, <1>3, <1>4, <1>5

\* What the histogram needs to be whole: no sample is counted before it starts.
RowInvariant ==
  /\ StatsTypeOK
  /\ phase \in {"average", "figures"} => i = 0 /\ count = 0
  /\ phase # "done" => total > 0
  /\ HistogramIsWhole

LEMMA InitRows ==
  ASSUME Init PROVE RowInvariant
<1>1. Len(sorted) \in Nat /\ Limit \in Nat \ {0} /\ Page \in Nat \ {0}
  BY StatsAssumption DEF Init
<1>2. sorted # <<>> => Len(sorted) > 0
  BY StatsAssumption DEF Init
<1>3. sorted = <<>> => Len(sorted) = 0
  OBVIOUS
<1>4. StatsTypeOK
  BY <1>1 DEF Init, StatsTypeOK, total
<1>5. HistogramIsWhole
  BY <1>1, <1>3 DEF Init, HistogramIsWhole, total
<1>6. phase # "done" => total > 0
  BY <1>2 DEF Init, total
<1>7. i = 0 /\ count = 0
  BY DEF Init
<1> QED BY <1>4, <1>5, <1>6, <1>7 DEF RowInvariant

LEMMA NextRows ==
  ASSUME RowInvariant, MeanInvariant, MeanInvariant', [Next]_stats PROVE RowInvariant'
<1>1. /\ total \in Nat /\ Limit \in Nat \ {0} /\ Page \in Nat \ {0} /\ HIST_WIDTH \in Nat
      /\ \A a \in 1 .. total : sorted[a] \in 0 .. Limit - 1
      /\ \A a, b \in 1 .. total : a <= b => sorted[a] <= sorted[b]
      /\ sorted \in Samples /\ beyond \in Beyond
      /\ DOMAIN sorted = 1 .. total
  <2>1. sorted \in Samples /\ beyond \in Beyond
    BY DEF RowInvariant, StatsTypeOK
  <2>2. sorted \in Seq(0 .. Limit - 1) /\ \A a, b \in DOMAIN sorted : a <= b => sorted[a] <= sorted[b]
    BY <2>1, StatsAssumption
  <2>3. DOMAIN sorted = 1 .. total /\ total \in Nat
    BY <2>2 DEF total
  <2>4. \A a \in DOMAIN sorted : sorted[a] \in 0 .. Limit - 1
    <3> DEFINE V == 0 .. Limit - 1
    <3>1. sorted \in Seq(V)
      BY <2>2
    <3> HIDE DEF V
    <3>2. \A a \in DOMAIN sorted : sorted[a] \in V
      BY <3>1
    <3> QED BY <3>2 DEF V
  <2>5. Limit \in Nat \ {0} /\ Page \in Nat \ {0} /\ HIST_WIDTH \in Nat
    BY StatsAssumption
  <2>6. \A a \in 1 .. total : sorted[a] \in 0 .. Limit - 1
    BY <2>3, <2>4
  <2>7. \A a, b \in 1 .. total : a <= b => sorted[a] <= sorted[b]
    <3> TAKE a, b \in 1 .. total
    <3>1. a \in DOMAIN sorted /\ b \in DOMAIN sorted
      BY <2>3
    <3>2. \A c, d \in DOMAIN sorted : c <= d => sorted[c] <= sorted[d]
      BY <2>2
    <3> QED BY <3>1, <3>2
  <2> QED BY <2>1, <2>3, <2>5, <2>6, <2>7
<1>2. CASE Average
  <2>1. UNCHANGED <<sorted, beyond, phase, histogram>> /\ phase = "average" /\ k < total /\ k' = k + 1
    BY <1>2 DEF Average
  <2>2. total' = total
    BY <2>1 DEF total
  <2>3. avg' \in Nat /\ sum' \in Nat /\ remainder' \in Nat
    BY <1>1, <2>1, <2>2 DEF MeanInvariant
  <2>4. StatsTypeOK'
    BY <1>1, <2>1, <2>2, <2>3 DEF RowInvariant, StatsTypeOK, histogram
  <2>5. HistogramIsWhole'
    BY <2>1, <2>2 DEF RowInvariant, HistogramIsWhole, histogram
  <2> QED BY <2>1, <2>2, <2>4, <2>5 DEF RowInvariant, histogram
<1>3. CASE Figures
  <2>1. /\ UNCHANGED <<sorted, beyond, average, histogram>> /\ phase = "average"
        /\ phase' = "figures"
    BY <1>3 DEF Figures
  <2>2. total' = total
    BY <2>1 DEF total
  <2>3. StatsTypeOK'
    BY <2>1, <2>2 DEF RowInvariant, StatsTypeOK, histogram, average
  <2>4. HistogramIsWhole'
    BY <2>1, <2>2 DEF RowInvariant, HistogramIsWhole, histogram
  <2> QED BY <2>1, <2>2, <2>3, <2>4 DEF RowInvariant, histogram
<1>4. CASE Histogram
  <2>1. /\ UNCHANGED <<sorted, beyond, average, i, count, count2, shown, used>>
        /\ phase = "figures" /\ phase' = "histogram"
        /\ start' = (sorted[1] \div Order(Spread)) * Order(Spread)
    BY <1>4 DEF Histogram
  <2>2. total' = total /\ total > 0 /\ i = 0 /\ count = 0
    BY <2>1 DEF total, RowInvariant
  <2>3. start' \in 0 .. sorted[1] /\ sorted[1] \in 0 .. Limit - 1
    BY <1>1, <2>1, <2>2, RowStarts
  <2>4. StatsTypeOK'
    BY <1>1, <2>1, <2>2, <2>3 DEF RowInvariant, StatsTypeOK, average
  <2>5. \A a \in 1 .. total : sorted[a] >= start'
    <3> TAKE a \in 1 .. total
    <3>1. sorted[1] <= sorted[a] /\ sorted[a] \in Nat /\ sorted[1] \in Nat
      BY <1>1, <2>2
    <3> QED BY <2>3, <3>1
  <2>6. HistogramIsWhole'
    BY <1>1, <2>1, <2>2, <2>5 DEF RowInvariant, HistogramIsWhole
  <2> QED BY <2>1, <2>2, <2>4, <2>6 DEF RowInvariant
<1>5. CASE CountIn
  <2>1. /\ UNCHANGED <<sorted, beyond, phase, average, start, shown, used>>
        /\ phase = "histogram" /\ i < total
        /\ i' = i + 1 /\ count' = count + 1 /\ count2' = count2 + 1
    BY <1>5 DEF CountIn, InRow
  <2>2. total' = total /\ i' - count' = i - count
    BY <1>1, <2>1 DEF total, RowInvariant, StatsTypeOK
  <2>3. StatsTypeOK'
    BY <1>1, <2>1, <2>2 DEF RowInvariant, StatsTypeOK, average
  <2>4. HistogramIsWhole'
    BY <1>1, <2>1, <2>2 DEF RowInvariant, HistogramIsWhole, StatsTypeOK
  <2> QED BY <2>1, <2>2, <2>3, <2>4 DEF RowInvariant
<1>6. CASE PrintRow
  <2>1. /\ UNCHANGED <<sorted, beyond, average, i, count2>>
        /\ phase = "histogram" /\ ~InRow
        /\ shown' = shown + count /\ count' = 0
        /\ start' = (start + share) % Limit
        /\ used' = MinOf(used + Row, Page - 1)
        /\ phase' = IF i >= total \/ sorted[i + 1] > Percentile(95, sorted) \/ PageFull'
                      THEN "done" ELSE "histogram"
    BY <1>6 DEF PrintRow
  <2>2. total' = total /\ total > 0
    BY <2>1 DEF total, RowInvariant
  <2>3. Percentile(95, sorted)' = Percentile(95, sorted)
    BY <2>1 DEF Percentile, At, Index, Exact
  <2>4. start' \in 0 .. Limit - 1
    <3>1. share \in Nat
      BY <1>1, <2>2, RowStarts
    <3>2. start + share \in Nat
      BY <3>1 DEF RowInvariant, StatsTypeOK
    <3> QED BY <1>1, <2>1, <3>2
  <2>5. used' \in 0 .. Page
    <3>1. count2 \in Nat
      BY <1>1 DEF RowInvariant, StatsTypeOK
    <3>2. count2 * HIST_WIDTH \in Nat
      BY <1>1, <3>1
    <3>3. (count2 * HIST_WIDTH) \div total \in Nat
      BY <1>1, <2>2, <3>2
    <3>4. Row \in Nat
      BY <1>1, <3>3 DEF Row
    <3>5. used \in 0 .. Page
      BY DEF RowInvariant, StatsTypeOK
    <3> QED BY <1>1, <2>1, <3>4, <3>5 DEF MinOf
  <2>6. StatsTypeOK'
    BY <1>1, <2>1, <2>2, <2>4, <2>5 DEF RowInvariant, StatsTypeOK, average
  <2>7. i \in 0 .. total /\ count \in 0 .. i /\ shown \in Nat
    BY DEF RowInvariant, StatsTypeOK
  <2>8. shown' + count' = i'
    BY <2>1, <2>7 DEF RowInvariant, HistogramIsWhole
  <2>9. \A a \in 1 .. total : a > i => sorted[a] >= start'
    <3> SUFFICES ASSUME NEW a \in 1 .. total, a > i PROVE sorted[a] >= start'
      OBVIOUS
    <3>1. i + 1 \in 1 .. total /\ i + 1 <= a
      BY <1>1, <2>7
    <3>2. sorted[i + 1] <= sorted[a] /\ sorted[i + 1] \in Nat /\ sorted[a] \in Nat
      BY <1>1, <3>1
    <3>3. ~(sorted[i + 1] < start')
      BY <1>1, <2>1, <2>7, <3>1 DEF InRow
    <3> QED BY <2>4, <3>2, <3>3
  <2>10. ASSUME phase' = "done", ~PageFull', NEW a \in i + 1 .. total
         PROVE  sorted[a] > Percentile(95, sorted)
    <3>1. i + 1 \in 1 .. total /\ i + 1 <= a /\ a \in 1 .. total
      BY <1>1, <2>7
    <3>2. sorted[i + 1] <= sorted[a] /\ sorted[i + 1] \in Nat /\ sorted[a] \in Nat
      BY <1>1, <3>1
    <3>3. sorted[i + 1] > Percentile(95, sorted)
      BY <1>1, <2>1, <2>7, <2>10, <3>1
    <3>4. Percentile(95, sorted) \in Nat
      BY <1>1, PercentileTyped
    <3> QED BY <3>2, <3>3, <3>4
  <2>11. HistogramIsWhole'
    <3>1. (phase = "histogram" => \A a \in DOMAIN sorted : a > i - count => sorted[a] >= start)'
      BY <1>1, <2>1, <2>2, <2>7, <2>9
    <3>2. (phase = "done" =>
             PageFull \/ \A a \in i + 1 .. total : sorted[a] > Percentile(95, sorted))'
      BY <2>1, <2>2, <2>3, <2>10
    <3> QED BY <2>8, <3>1, <3>2 DEF HistogramIsWhole
  <2> QED BY <2>1, <2>2, <2>6, <2>11 DEF RowInvariant
<1>7. CASE End \/ UNCHANGED stats
  <2>1. /\ UNCHANGED <<sorted, beyond, phase, k, avg, remainder, sum>>
        /\ UNCHANGED <<i, start, count, count2, shown, used>>
    BY <1>7 DEF End, stats, average, histogram
  <2>2. total' = total
    BY <2>1 DEF total
  <2>3. Percentile(95, sorted)' = Percentile(95, sorted) /\ PageFull' = PageFull
    BY <2>1 DEF Percentile, At, Index, Exact, PageFull
  <2>4. StatsTypeOK'
    BY <2>1, <2>2 DEF RowInvariant, StatsTypeOK
  <2>5. HistogramIsWhole'
    BY <2>1, <2>2, <2>3 DEF RowInvariant, HistogramIsWhole
  <2> QED BY <2>1, <2>2, <2>4, <2>5 DEF RowInvariant
<1> QED BY <1>2, <1>3, <1>4, <1>5, <1>6, <1>7 DEF Next, Compute, Draw

LEMMA RowsInvariant == Spec => []RowInvariant
<1>1. Init => MeanInvariant /\ RowInvariant
  BY InitMean, InitRows
<1>2. MeanInvariant /\ RowInvariant /\ [Next]_stats => (MeanInvariant /\ RowInvariant)'
  BY NextMean, NextRows
<1> QED BY <1>1, <1>2, PTL DEF Spec

\* No row of the histogram loses or repeats a sample, and every sample up to the
\* 95th percentile is in one unless the page is full, whatever the samples are
\* and however wide the rows.
THEOREM HistogramAlwaysWhole == Report => []HistogramIsWhole
<1>1. RowInvariant => HistogramIsWhole
  BY DEF RowInvariant
<1> QED BY <1>1, RowsInvariant, ReportIsSpec, PTL

-----------------------------------------------------------------------------
\* The relations of a node: its three children are different, each has it as
\* its parent, and there are no others.
LEMMA Family ==
  /\ \A n \in Nat \ {0} :
       /\ Walk!Parent(Walk!Subtree(n)) = n /\ Walk!Parent(Walk!Left(n)) = n
       /\ Walk!Parent(Walk!Right(n)) = n
       /\ Walk!Subtree(n) # 1 /\ Walk!Left(n) # 1 /\ Walk!Right(n) # 1
       /\ Walk!Subtree(n) # Walk!Left(n) /\ Walk!Subtree(n) # Walk!Right(n)
       /\ Walk!Left(n) # Walk!Right(n)
  /\ \A c \in Nat \ {0, 1} :
       /\ Walk!Parent(c) \in Nat \ {0} /\ Walk!Parent(c) < c
       /\ c \in {Walk!Subtree(Walk!Parent(c)), Walk!Left(Walk!Parent(c)), Walk!Right(Walk!Parent(c))}
<1>1. ASSUME NEW n \in Nat \ {0}
      PROVE  /\ Walk!Parent(Walk!Subtree(n)) = n /\ Walk!Parent(Walk!Left(n)) = n
             /\ Walk!Parent(Walk!Right(n)) = n
             /\ Walk!Subtree(n) # 1 /\ Walk!Left(n) # 1 /\ Walk!Right(n) # 1
             /\ Walk!Subtree(n) # Walk!Left(n) /\ Walk!Subtree(n) # Walk!Right(n)
             /\ Walk!Left(n) # Walk!Right(n)
  BY DEF Walk!Parent, Walk!Subtree, Walk!Left, Walk!Right
<1>2. ASSUME NEW c \in Nat \ {0, 1}
      PROVE  /\ Walk!Parent(c) \in Nat \ {0} /\ Walk!Parent(c) < c
             /\ c \in {Walk!Subtree(Walk!Parent(c)), Walk!Left(Walk!Parent(c)),
                       Walk!Right(Walk!Parent(c))}
  BY DEF Walk!Parent, Walk!Subtree, Walk!Left, Walk!Right
<1> QED BY <1>1, <1>2

\* A table: every node but the root has its parent in it.
TreeOK ==
  /\ tree \subseteq Nodes /\ 1 \in tree /\ routes \subseteq tree
  /\ \A n \in tree \ {1} : Walk!Parent(n) \in tree

\* The children that the walk has left behind when it is at n in state s, and
\* the last state in which it may leave for the child c.
Passed(n, s) ==
  CASE s = "S" -> {}
    [] s = "L" -> {Walk!Subtree(n)}
    [] s = "R" -> {Walk!Subtree(n), Walk!Left(n)}
    [] OTHER   -> {Walk!Subtree(n), Walk!Left(n), Walk!Right(n)}

Before(c) ==
  CASE c = Walk!Subtree(Walk!Parent(c)) -> "S"
    [] c = Walk!Left(Walk!Parent(c))    -> "L"
    [] OTHER                            -> "R"

\* The nodes D that the walk is done with, and those on the way P from the root
\* to where it is: below each node of P, the children before the next node of P
\* are done with, with all that is below them, and nothing else is.
OnTheWay(D, P) ==
  /\ D \subseteq tree /\ P \subseteq tree /\ D \cap P = {}
  /\ 1 \in P /\ node \in P
  /\ \A x \in P \ {1} : Walk!Parent(x) \in P /\ Walk!Parent(x) # node
  /\ \A x, y \in P \ {1} : Walk!Parent(x) = Walk!Parent(y) => x = y
  /\ \A c \in tree \ {1} : Walk!Parent(c) \in D => c \in D
  /\ \A c \in tree \ {1} : c \in D => Walk!Parent(c) \in D \cup P
  /\ \A x \in P \ {1}, c \in tree \ {1} :
       Walk!Parent(c) = Walk!Parent(x) => (c \in D <=> c \in Passed(Walk!Parent(x), Before(x)))
  /\ \A c \in tree \ {1} :
       Walk!Parent(c) = node => (c \in D <=> c \in Passed(node, state))

StateOK ==
  /\ state \in {"S", "L", "R", "C", "end"} /\ leaf \in BOOLEAN
  /\ leaf => state = "C" /\ node \in routes
  /\ state = "end" => node = 1

LEMMA NodesAreNumbers ==
  ASSUME TreeOK
  PROVE  /\ \A n \in tree : n \in Nat \ {0}
         /\ \A n \in tree \ {1} : n \in Nat \ {0, 1} /\ Walk!Parent(n) \in Nat \ {0} /\ Walk!Parent(n) # n
<1>1. \A n \in tree : n \in Nat \ {0}
  BY ReportAssumption DEF TreeOK
<1>2. ASSUME NEW n \in tree \ {1} PROVE Walk!Parent(n) # n /\ Walk!Parent(n) \in Nat \ {0}
  <2>1. n \in Nat \ {0, 1}
    BY <1>1
  <2>2. Walk!Parent(n) \in Nat \ {0} /\ Walk!Parent(n) < n
    BY <2>1, Family
  <2> QED BY <2>1, <2>2
<1> QED BY <1>1, <1>2

\* Each of the two goes down to a child that is next.
LEMMA GoesDown ==
  ASSUME TreeOK, NEW D, NEW P, OnTheWay(D, P), UNCHANGED <<tree, routes>>,
         NEW c \in tree \ {1}, Walk!Parent(c) = node, c \notin D,
         \A b \in tree \ {1} : Walk!Parent(b) = node => (b \in D <=> b \in Passed(node, Before(c))),
         node' = c, state' = "S"
  PROVE  OnTheWay(D, P \cup {c})' /\ c \notin P
<1>1. c \notin P /\ c # node
  BY NodesAreNumbers DEF OnTheWay
<1> DEFINE Q == P \cup {c}
<1>2. D \subseteq tree /\ Q \subseteq tree /\ D \cap Q = {} /\ 1 \in Q /\ c \in Q
  BY DEF OnTheWay
<1>3. \A x \in Q \ {1} : Walk!Parent(x) \in Q /\ Walk!Parent(x) # c
  BY <1>1, NodesAreNumbers DEF OnTheWay
<1>4. \A x, y \in Q \ {1} : Walk!Parent(x) = Walk!Parent(y) => x = y
  BY DEF OnTheWay
<1>5. \A b \in tree \ {1} : b \in D => Walk!Parent(b) \in D \cup Q
  BY DEF OnTheWay
<1>6. \A x \in Q \ {1}, b \in tree \ {1} :
        Walk!Parent(b) = Walk!Parent(x) => (b \in D <=> b \in Passed(Walk!Parent(x), Before(x)))
  BY DEF OnTheWay
<1>7. \A b \in tree \ {1} : Walk!Parent(b) = c => (b \in D <=> b \in Passed(c, "S"))
  BY <1>1 DEF OnTheWay, Passed
<1>8. \A b \in tree \ {1} : Walk!Parent(b) \in D => b \in D
  BY DEF OnTheWay
<1> HIDE DEF Q
<1>9. OnTheWay(D, Q)'
  BY <1>2, <1>3, <1>4, <1>5, <1>6, <1>7, <1>8 DEF OnTheWay, Walk!Parent, Walk!Left, Walk!Right, Walk!Subtree
<1> QED BY <1>1, <1>9 DEF Q

\* Where the switch comes to the leaf, everything below the node is done with.
LEMMA AllBelowDone ==
  ASSUME TreeOK, StateOK, NEW D, NEW P, OnTheWay(D, P), Walk!AtNode
  PROVE  \A c \in tree \ {1} : Walk!Parent(c) = node => c \in D
<1> SUFFICES ASSUME NEW c \in tree \ {1}, Walk!Parent(c) = node PROVE c \in Passed(node, state)
  BY DEF OnTheWay
<1>1. c \in {Walk!Subtree(node), Walk!Left(node), Walk!Right(node)}
  BY Family, NodesAreNumbers
<1>2. CASE state = "S"
  BY <1>1, <1>2 DEF Walk!AtNode, Walk!GoesInto, Walk!GoesLeft, Walk!GoesRight
<1>3. CASE state = "L"
  BY <1>1, <1>3 DEF Walk!AtNode, Walk!GoesInto, Walk!GoesLeft, Walk!GoesRight, Passed
<1>4. CASE state = "R"
  BY <1>1, <1>4 DEF Walk!AtNode, Walk!GoesInto, Walk!GoesLeft, Walk!GoesRight, Passed
<1>5. CASE state = "C"
  BY <1>1, <1>5 DEF Passed
<1> QED BY <1>2, <1>3, <1>4, <1>5 DEF StateOK, Walk!AtNode

\* The child of a way down: in the table, next in turn and not done with.
LEMMA NextChild ==
  ASSUME TreeOK, StateOK, NEW D, NEW P, OnTheWay(D, P),
         NEW c, \/ Walk!GoesInto /\ c = Walk!Subtree(node)
                \/ Walk!GoesLeft /\ c = Walk!Left(node)
                \/ Walk!GoesRight /\ c = Walk!Right(node)
  PROVE  /\ c \in tree \ {1} /\ Walk!Parent(c) = node /\ c \notin D
         /\ \A b \in tree \ {1} :
              Walk!Parent(b) = node => (b \in D <=> b \in Passed(node, Before(c)))
<1>1. node \in Nat \ {0}
  BY NodesAreNumbers DEF OnTheWay
<1>2. /\ Walk!Parent(Walk!Subtree(node)) = node /\ Walk!Parent(Walk!Left(node)) = node
      /\ Walk!Parent(Walk!Right(node)) = node
      /\ Walk!Subtree(node) # 1 /\ Walk!Left(node) # 1 /\ Walk!Right(node) # 1
      /\ Walk!Subtree(node) # Walk!Left(node) /\ Walk!Subtree(node) # Walk!Right(node)
      /\ Walk!Left(node) # Walk!Right(node)
  BY <1>1, Family
<1>3. c \in tree \ {1} /\ Walk!Parent(c) = node
  BY <1>2 DEF Walk!GoesInto, Walk!GoesLeft, Walk!GoesRight
<1>4. \A b \in tree : b \in Passed(node, state) <=> b \in Passed(node, Before(c))
  <2>1. CASE Walk!GoesInto /\ c = Walk!Subtree(node)
    <3>1. Before(c) = "S" /\ state = "S"
      BY <1>2, <2>1 DEF Before, Walk!GoesInto
    <3> QED BY <3>1
  <2>2. CASE Walk!GoesLeft /\ c = Walk!Left(node)
    <3>1. Before(c) = "L"
      BY <1>2, <2>2 DEF Before
    <3>2. CASE state = "L"
      BY <3>1, <3>2
    <3>3. CASE state = "S"
      <4>1. Walk!Subtree(node) \notin tree
        BY <2>2, <3>3 DEF Walk!GoesLeft, Walk!GoesInto
      <4> QED BY <3>1, <3>3, <4>1 DEF Passed
    <3> QED BY <2>2, <3>2, <3>3 DEF Walk!GoesLeft
  <2>3. CASE Walk!GoesRight /\ c = Walk!Right(node)
    <3>1. Before(c) = "R"
      BY <1>2, <2>3 DEF Before
    <3>2. CASE state = "R"
      BY <3>1, <3>2
    <3>3. CASE state = "L"
      <4>1. Walk!Left(node) \notin tree
        BY <2>3, <3>3 DEF Walk!GoesRight, Walk!GoesLeft, Walk!GoesInto
      <4> QED BY <3>1, <3>3, <4>1 DEF Passed
    <3>4. CASE state = "S"
      <4>1. Walk!Left(node) \notin tree /\ Walk!Subtree(node) \notin tree
        BY <2>3, <3>4 DEF Walk!GoesRight, Walk!GoesLeft, Walk!GoesInto
      <4> QED BY <3>1, <3>4, <4>1 DEF Passed
    <3> QED BY <2>3, <3>2, <3>3, <3>4 DEF Walk!GoesRight
  <2> QED BY <2>1, <2>2, <2>3
<1>5. c \notin Passed(node, Before(c))
  BY <1>2 DEF Passed, Before
<1> QED BY <1>3, <1>4, <1>5 DEF OnTheWay

\* Back from a node with all that is below it, the next state of the parent says
\* which of its children are done with.
LEMMA GoesUp ==
  ASSUME TreeOK, StateOK, NEW D, NEW P, OnTheWay(D, P), UNCHANGED <<tree, routes>>,
         NEW y, y = node, y # 1, \A c \in tree \ {1} : Walk!Parent(c) = y => c \in D,
         NEW z, z = Walk!Parent(y), node' = z, state' = Walk!After(y)
  PROVE  OnTheWay(D \cup {y}, P \ {y})' /\ y \in tree \ D /\ y \in P
<1> DEFINE E == D \cup {y}
           Q == P \ {y}
<1>1. y \in tree \ {1} /\ y \in P \ {1} /\ y \notin D
  BY DEF OnTheWay
<1>2. z \in P /\ z # y /\ z \in Nat \ {0}
  BY <1>1, NodesAreNumbers DEF OnTheWay
<1>3. E \subseteq tree /\ Q \subseteq tree /\ E \cap Q = {} /\ 1 \in Q /\ z \in Q
  BY <1>1, <1>2 DEF OnTheWay
<1>4. ASSUME NEW x \in Q \ {1} PROVE Walk!Parent(x) \in Q /\ Walk!Parent(x) # z
  BY <1>1 DEF OnTheWay
<1>5. \A x, w \in Q \ {1} : Walk!Parent(x) = Walk!Parent(w) => x = w
  BY DEF OnTheWay
<1>6. \A c \in tree \ {1} : Walk!Parent(c) \in E => c \in E
  BY DEF OnTheWay
<1>7. \A c \in tree \ {1} : c \in E => Walk!Parent(c) \in E \cup Q
  BY <1>2 DEF OnTheWay
<1>8. ASSUME NEW x \in Q \ {1}, NEW c \in tree \ {1}, Walk!Parent(c) = Walk!Parent(x)
      PROVE  c \in E <=> c \in Passed(Walk!Parent(x), Before(x))
  <2>1. c \in D <=> c \in Passed(Walk!Parent(x), Before(x))
    BY <1>8 DEF OnTheWay
  <2>2. c # y
    <3>1. Walk!Parent(x) # z
      BY <1>4
    <3> QED BY <1>8, <3>1
  <2> QED BY <2>1, <2>2
<1>9. Passed(z, Walk!After(y)) = Passed(z, Before(y)) \cup {y}
  <2>1. y \in {Walk!Subtree(z), Walk!Left(z), Walk!Right(z)}
    BY <1>1, Family, NodesAreNumbers
  <2>2. /\ Walk!Subtree(z) # Walk!Left(z) /\ Walk!Subtree(z) # Walk!Right(z)
        /\ Walk!Left(z) # Walk!Right(z)
    BY <1>2, Family
  <2>3. z = Walk!Parent(y)
    OBVIOUS
  <2>4. CASE y = Walk!Subtree(z)
    BY <2>2, <2>3, <2>4 DEF Passed, Before, Walk!After
  <2>5. CASE y = Walk!Left(z)
    BY <2>2, <2>3, <2>5 DEF Passed, Before, Walk!After
  <2>6. CASE y = Walk!Right(z)
    BY <2>2, <2>3, <2>6 DEF Passed, Before, Walk!After
  <2> QED BY <2>1, <2>4, <2>5, <2>6
<1>10. \A c \in tree \ {1} : Walk!Parent(c) = z => (c \in E <=> c \in Passed(z, Walk!After(y)))
  <2>1. \A c \in tree \ {1} : Walk!Parent(c) = z => (c \in D <=> c \in Passed(z, Before(y)))
    BY <1>1 DEF OnTheWay
  <2> QED BY <1>9, <2>1
<1> HIDE DEF E, Q
<1>11. tree' = tree /\ node' = z /\ state' = Walk!After(y)
  OBVIOUS
<1>12. \A x \in Q \ {1} : Walk!Parent(x) \in Q /\ Walk!Parent(x) # z
  BY <1>4
<1>13. \A x \in Q \ {1}, c \in tree \ {1} :
         Walk!Parent(c) = Walk!Parent(x) => (c \in E <=> c \in Passed(Walk!Parent(x), Before(x)))
  BY <1>8
<1>14. OnTheWay(E, Q)'
  BY <1>3, <1>5, <1>6, <1>7, <1>10, <1>11, <1>12, <1>13
     DEF OnTheWay, Walk!Parent, Walk!Left, Walk!Right, Walk!Subtree
<1> QED BY <1>1, <1>14 DEF E, Q

\* At the leaf of a node, and at the end, the walk stays on its way.
LEMMA StaysThere ==
  ASSUME TreeOK, NEW D, NEW P, OnTheWay(D, P), UNCHANGED <<tree, routes, node>>,
         \A c \in tree \ {1} : Walk!Parent(c) = node => c \in D, state' \in {"C", "end"}
  PROVE  OnTheWay(D, P)'
<1>1. \A c \in tree \ {1} : Walk!Parent(c) = node => c \in Passed(node, state')
  <2> SUFFICES ASSUME NEW c \in tree \ {1}, Walk!Parent(c) = node PROVE c \in Passed(node, state')
    OBVIOUS
  <2>1. c \in {Walk!Subtree(node), Walk!Left(node), Walk!Right(node)}
    BY Family, NodesAreNumbers
  <2> QED BY <2>1 DEF Passed
<1> QED BY <1>1 DEF OnTheWay, Walk!Parent, Walk!Left, Walk!Right, Walk!Subtree

-----------------------------------------------------------------------------
\* The depth is defined for every node, and obeys its definition.
LEMMA DepthTyped ==
  /\ Walk!DepthOf \in [Nodes -> Nat] /\ Walk!DepthOf[1] = 0
  /\ \A n \in Nodes \ {1} :
       Walk!DepthOf[n] = Walk!DepthOf[Walk!Parent(n)]
                         + (IF n = Walk!Subtree(Walk!Parent(n)) THEN 0 ELSE 1)
<1> DEFINE more == [n \in Nodes |-> IF n = Walk!Subtree(Walk!Parent(n)) THEN 0 ELSE 1]
           Step == [n \in Nodes |-> [x \in Nat |-> x + more[n]]]
           above == [n \in Nodes |-> Walk!Parent(n)]
           IsDepth(f) ==
             f = [n \in Nodes |-> IF n = 1 THEN 0
                                  ELSE f[Walk!Parent(n)]
                                       + (IF n = Walk!Subtree(Walk!Parent(n)) THEN 0 ELSE 1)]
<1>1. Nodes \in SUBSET Nat /\ 1 \in Nodes
  BY ReportAssumption
<1>2. \A n \in Nodes \ {1} : Walk!Parent(n) \in Nodes /\ Walk!Parent(n) < n
  <2> TAKE n \in Nodes \ {1}
  <2>1. n \in Nat \ {0, 1}
    BY ReportAssumption
  <2> QED BY <2>1, Family, ReportAssumption DEF Walk!Parent
<1>3. more \in [Nodes -> Nat]
  OBVIOUS
<1>4. PICK h : Followed(Nodes, {1}, above, Nat, 0, Step, h)
  <2>1. \A n \in Nodes \ {1} : above[n] \in Nodes /\ above[n] < n
    BY <1>2
  <2>2. \A n \in Nodes, x \in Nat : Step[n][x] \in Nat
    <3> HIDE DEF more
    <3> QED BY <1>3
  <2> HIDE DEF above, Step
  <2> QED BY <1>1, <2>1, <2>2, FollowedOnAll
<1>5. h \in [Nodes -> Nat]
  BY <1>4 DEF Followed
<1>6. ASSUME NEW n \in Nodes
      PROVE  h[n] = IF n = 1 THEN 0
                    ELSE h[Walk!Parent(n)] + (IF n = Walk!Subtree(Walk!Parent(n)) THEN 0 ELSE 1)
  <2>1. h[n] = IF n \in {1} THEN 0 ELSE Step[n][h[above[n]]]
    BY <1>4 DEF Followed
  <2>2. CASE n = 1
    BY <2>1, <2>2
  <2>3. CASE n # 1
    <3>1. above[n] = Walk!Parent(n) /\ h[Walk!Parent(n)] \in Nat
      BY <1>2, <1>5, <2>3
    <3>2. Step[n][h[Walk!Parent(n)]] = h[Walk!Parent(n)] + more[n]
      BY <3>1
    <3> QED BY <2>1, <2>3, <3>1, <3>2
  <2> QED BY <2>2, <2>3
<1>7. IsDepth(h)
  BY <1>5, <1>6
<1>8. Walk!DepthOf = CHOOSE f : IsDepth(f)
  BY DEF Walk!DepthOf
<1>9. IsDepth(Walk!DepthOf)
  <2> HIDE DEF IsDepth
  <2> QED BY <1>7, <1>8
<1> DEFINE f == Walk!DepthOf
<1>10. f = [n \in Nodes |-> IF n = 1 THEN 0
                            ELSE f[Walk!Parent(n)]
                                 + (IF n = Walk!Subtree(Walk!Parent(n)) THEN 0 ELSE 1)]
  BY <1>9
<1> HIDE DEF f, IsDepth, more, Step, above
<1>11. f[1] = 0
  BY <1>1, <1>10
<1>12. ASSUME NEW n \in Nodes \ {1}
       PROVE  f[n] = f[Walk!Parent(n)] + (IF n = Walk!Subtree(Walk!Parent(n)) THEN 0 ELSE 1)
  BY <1>10
<1>13. \A n \in Nodes : f[n] \in Nat
  <2> DEFINE T == {n \in Nodes : f[n] \notin Nat}
  <2>1. SUFFICES ASSUME T # {} PROVE FALSE
    OBVIOUS
  <2>2. PICK n \in T : \A l \in T : n <= l
    <3>1. T \in SUBSET Nat
      BY <1>1
    <3> HIDE DEF T
    <3> QED BY <2>1, <3>1, Minimum
  <2>3. n \in Nodes \ {1} /\ n \in Nat
    BY <1>1, <1>11
  <2>4. Walk!Parent(n) \in Nodes /\ Walk!Parent(n) < n /\ Walk!Parent(n) \in Nat
    BY <1>1, <1>2, <2>3
  <2>5. Walk!Parent(n) \notin T
    BY <2>2, <2>3, <2>4
  <2>6. f[Walk!Parent(n)] \in Nat
    BY <2>4, <2>5
  <2>7. f[n] \in Nat
    BY <1>12, <2>3, <2>6
  <2> QED BY <2>7
<1>14. f \in [Nodes -> Nat]
  BY <1>10, <1>13
<1> QED BY <1>11, <1>12, <1>14 DEF f

LEMMA WalkCardinality ==
  \A S : Walk!Cardinality(S) = Cardinality(S)
  BY DEF Walk!Cardinality, Cardinality

\* What there is to climb from some nodes, and one more.
Climbs(S) == UNION {{n} \X (1 .. Walk!DepthOf[n]) : n \in S}

LEMMA SumAdds ==
  ASSUME NEW S, NEW n \in Nodes, n \notin S, IsFiniteSet(Climbs(S))
  PROVE  /\ IsFiniteSet(Climbs(S \cup {n}))
         /\ Walk!SumOfDepths(S) \in Nat
         /\ Walk!SumOfDepths(S \cup {n}) = Walk!SumOfDepths(S) + Walk!DepthOf[n]
<1> DEFINE d == Walk!DepthOf[n]
           one == {n} \X (1 .. d)
<1>1. d \in Nat
  BY DepthTyped
<1> HIDE DEF d
<1>2. IsFiniteSet(one) /\ Cardinality(one) = d
  <2>1. IsFiniteSet(1 .. d) /\ Cardinality(1 .. d) = d
    BY <1>1, FS_Interval
  <2>2. IsFiniteSet({n}) /\ Cardinality({n}) = 1
    BY FS_Singleton
  <2>3. IsFiniteSet(one) /\ Cardinality(one) = Cardinality({n}) * Cardinality(1 .. d)
    BY <2>1, <2>2, FS_Product, Zenon
  <2>4. 1 * d = d
    BY <1>1
  <2> QED BY <2>1, <2>2, <2>3, <2>4
<1>3. Climbs(S \cup {n}) = Climbs(S) \cup one
  BY DEF Climbs, d
<1>4. Climbs(S) \cap one = {}
  BY DEF Climbs
<1> HIDE DEF one
<1>5. /\ IsFiniteSet(Climbs(S) \cup one)
      /\ Cardinality(Climbs(S) \cup one)
           = Cardinality(Climbs(S)) + Cardinality(one) - Cardinality(Climbs(S) \cap one)
  BY <1>2, FS_Union
<1>6. Cardinality(Climbs(S) \cap one) = 0
  BY <1>4, FS_EmptySet
<1>7. Cardinality(Climbs(S)) \in Nat
  BY FS_CardinalityType
<1>8. \A T : Walk!SumOfDepths(T) = Cardinality(Climbs(T))
  BY WalkCardinality DEF Climbs, Walk!SumOfDepths
<1>9. Cardinality(Climbs(S \cup {n})) = Cardinality(Climbs(S)) + d
  <2> DEFINE x == Cardinality(Climbs(S))
  <2>1. Cardinality(Climbs(S \cup {n})) = x + d - 0
    BY <1>2, <1>3, <1>5, <1>6
  <2>2. x \in Nat
    BY <1>7
  <2> HIDE DEF x
  <2>3. x + d - 0 = x + d
    BY <1>1, <2>2
  <2> QED BY <2>1, <2>3 DEF x
<1> QED BY <1>3, <1>5, <1>7, <1>8, <1>9 DEF d

-----------------------------------------------------------------------------
\* The routes that were counted: those of the nodes that are done with, and that
\* of the node if the walk has been at its leaf.
Counted(D) ==
  (D \cap routes) \cup (IF state \in {"C", "end"} /\ ~leaf THEN {node} \cap routes ELSE {})

\* What the variables of the walk hold by then.
Measured(D, P) ==
  /\ routed = Cardinality(Counted(D))
  /\ depth = (Walk!DepthOf[node] - Cardinality(Walk!Subtrees \cap D)) % Limit
  /\ totdepth \in 0 .. Limit - 1 /\ maxdepth \in 0 .. Limit - 1
  /\ IsFiniteSet(Climbs(Counted(D)))
  /\ Walk!Subtrees = {} =>
       /\ Cardinality(P) = Walk!DepthOf[node] + 1
       /\ totdepth = Walk!SumOfDepths(Counted(D)) % Limit
       /\ \A n \in Counted(D) : Walk!DepthOf[n] <= maxdepth
       /\ maxdepth = 0 \/ \E n \in Counted(D) : Walk!DepthOf[n] = maxdepth

WalkInvariant ==
  /\ TreeOK /\ StateOK
  /\ \E D, P : OnTheWay(D, P) /\ Measured(D, P)

\* The sets that are counted are finite.
LEMMA FiniteWay ==
  ASSUME TreeOK, NEW D, NEW P, OnTheWay(D, P)
  PROVE  /\ IsFiniteSet(P) /\ Cardinality(P) \in Nat /\ Cardinality(P) <= Limit
         /\ IsFiniteSet(Walk!Subtrees \cap D) /\ Cardinality(Walk!Subtrees \cap D) \in Nat
         /\ IsFiniteSet(routes) /\ Cardinality(routes) \in Nat
         /\ Counted(D) \subseteq routes /\ IsFiniteSet(Counted(D))
         /\ Cardinality(Counted(D)) \in Nat /\ Cardinality(Counted(D)) <= Cardinality(routes)
<1>1. IsFiniteSet(Nodes) /\ Cardinality(Nodes) \in Nat /\ Limit \in Nat /\ Cardinality(Nodes) <= Limit
  BY FS_CardinalityType, ReportAssumption, StatsAssumption
<1>2. /\ P \in SUBSET Nodes /\ (Walk!Subtrees \cap D) \in SUBSET Nodes /\ routes \in SUBSET Nodes
      /\ Counted(D) \in SUBSET routes
  BY DEF TreeOK, OnTheWay, Counted
<1>3. IsFiniteSet(P) /\ Cardinality(P) <= Cardinality(Nodes) /\ Cardinality(P) \in Nat
  BY <1>1, <1>2, FS_Subset, FS_CardinalityType
<1>4. IsFiniteSet(Walk!Subtrees \cap D) /\ Cardinality(Walk!Subtrees \cap D) \in Nat
  BY <1>1, <1>2, FS_Subset, FS_CardinalityType
<1>5. IsFiniteSet(routes) /\ Cardinality(routes) \in Nat
  BY <1>1, <1>2, FS_Subset, FS_CardinalityType
<1>6. /\ IsFiniteSet(Counted(D)) /\ Cardinality(Counted(D)) <= Cardinality(routes)
      /\ Cardinality(Counted(D)) \in Nat
  BY <1>2, <1>5, FS_Subset, FS_CardinalityType
<1>7. Cardinality(P) <= Limit
  BY <1>1, <1>3, Through
<1> QED BY <1>2, <1>3, <1>4, <1>5, <1>6, <1>7

LEMMA InitWalk ==
  ASSUME Walk!Init PROVE WalkInvariant
<1>1. TreeOK /\ StateOK /\ node = 1 /\ state = "S"
  BY DEF Walk!Init, TreeOK, StateOK
<1>2. OnTheWay({}, {1})
  BY <1>1 DEF OnTheWay, Passed, TreeOK
<1>3. Counted({}) = {}
  BY <1>1 DEF Counted
<1>4. Walk!Subtrees \cap {} = {} /\ Cardinality({}) = 0 /\ IsFiniteSet({}) /\ Cardinality({1}) = 1
  BY FS_EmptySet, FS_Singleton
<1>5. Climbs({}) = {} /\ Walk!SumOfDepths({}) = 0
  <2>1. Climbs({}) = {}
    BY DEF Climbs
  <2> QED BY <1>4, <2>1, WalkCardinality DEF Climbs, Walk!SumOfDepths
<1>6. Limit \in Nat \ {0} /\ 0 % Limit = 0 /\ 0 - 0 = 0
  <2>1. Limit \in Nat \ {0}
    BY StatsAssumption
  <2> QED BY <2>1, SmallModulo
<1>7. routed = 0 /\ depth = 0 /\ totdepth = 0 /\ maxdepth = 0
  BY DEF Walk!Init
<1>8. Measured({}, {1})
  <2>1. Walk!DepthOf[node] = 0 /\ 0 \in 0 .. Limit - 1
    BY <1>1, <1>6, DepthTyped
  <2>2. depth = (Walk!DepthOf[node] - Cardinality(Walk!Subtrees \cap {})) % Limit
    BY <1>4, <1>6, <1>7, <2>1
  <2>3. Cardinality({1}) = Walk!DepthOf[node] + 1
    BY <1>4, <2>1
  <2> QED BY <1>3, <1>4, <1>5, <1>6, <1>7, <2>1, <2>2, <2>3 DEF Measured
<1> QED BY <1>1, <1>2, <1>8 DEF WalkInvariant

LEMMA MeasuredDown ==
  ASSUME TreeOK, StateOK, NEW D, NEW P, OnTheWay(D, P), Measured(D, P),
         state \in {"S", "L", "R"},
         NEW c \in tree \ {1}, Walk!Parent(c) = node, c \notin P, NEW more,
         more = IF c = Walk!Subtree(node) THEN 0 ELSE 1, Walk!Down(c, more)
  PROVE  Measured(D, P \cup {c})'
<1>1. /\ node' = c /\ depth' = (depth + more) % Limit /\ state' = "S" /\ tree' = tree
      /\ routes' = routes /\ leaf' = leaf /\ totdepth' = totdepth /\ routed' = routed
      /\ maxdepth' = maxdepth
  BY DEF Walk!Down
<1>2. Counted(D)' = Counted(D) /\ Walk!Subtrees' = Walk!Subtrees
  BY <1>1 DEF Counted, Walk!Subtrees
<1>3. c \in Nodes \ {1} /\ node \in Nodes /\ c \in Nat /\ c > 1
  BY ReportAssumption DEF TreeOK, OnTheWay
<1>4. Walk!DepthOf[c] = Walk!DepthOf[node] + more /\ Walk!DepthOf[node] \in Nat /\ more \in Nat
  BY <1>3, DepthTyped
<1>5. depth' = (Walk!DepthOf[c] - Cardinality(Walk!Subtrees \cap D)) % Limit
  <2> DEFINE u == Walk!DepthOf[node]
             v == Cardinality(Walk!Subtrees \cap D)
  <2>1. u \in Nat /\ v \in Nat /\ Walk!DepthOf[c] = u + more
    BY <1>4, FiniteWay
  <2>2. depth' = (((u - v) % Limit) + more) % Limit
    BY <1>1 DEF Measured
  <2> HIDE DEF u, v
  <2>3. u - v \in Int /\ (u + more) - v = (u - v) + more /\ more \in Int /\ Limit \in Nat \ {0}
    BY <1>4, <2>1, StatsAssumption
  <2>4. depth' = ((u - v) + more) % Limit
    BY <2>2, <2>3, ModuloSum
  <2> QED BY <2>1, <2>3, <2>4 DEF v
<1>6. Walk!Subtrees = {} => Cardinality(P \cup {c}) = Walk!DepthOf[c] + 1
  <2> SUFFICES ASSUME Walk!Subtrees = {} PROVE Cardinality(P \cup {c}) = Walk!DepthOf[c] + 1
    OBVIOUS
  <2>1. more = 1
    BY <1>3 DEF Walk!Subtrees
  <2>2. Cardinality(P \cup {c}) = Cardinality(P) + 1
    BY FiniteWay, FS_AddElement
  <2> QED BY <1>4, <2>1, <2>2 DEF Measured
<1> QED BY <1>1, <1>2, <1>5, <1>6 DEF Measured, Climbs, Walk!SumOfDepths, Walk!DepthOf

\* The depth is a remainder, and without subtrees that of the node itself.
LEMMA DepthOfNode ==
  ASSUME TreeOK, NEW D, NEW P, OnTheWay(D, P), Measured(D, P)
  PROVE  /\ node \in Nodes /\ Walk!DepthOf[node] \in Nat
         /\ depth \in 0 .. Limit - 1
         /\ Walk!Subtrees = {} => depth = Walk!DepthOf[node]
<1>1. node \in Nodes /\ Walk!DepthOf[node] \in Nat /\ Limit \in Nat \ {0}
  BY DepthTyped, StatsAssumption DEF TreeOK, OnTheWay
<1>2. Cardinality(Walk!Subtrees \cap D) \in Nat
  BY FiniteWay
<1> DEFINE u == Walk!DepthOf[node]
           v == Cardinality(Walk!Subtrees \cap D)
<1>3. depth = (u - v) % Limit
  BY DEF Measured
<1>4. Walk!Subtrees = {} => v = 0 /\ u < Limit
  <2> SUFFICES ASSUME Walk!Subtrees = {} PROVE v = 0 /\ u < Limit
    OBVIOUS
  <2>1. v = 0
    <3>1. Walk!Subtrees \cap D = {}
      OBVIOUS
    <3> QED BY <3>1, FS_EmptySet
  <2>2. Cardinality(P) = u + 1
    BY DEF Measured
  <2>3. Cardinality(P) \in Nat /\ Cardinality(P) <= Limit
    BY FiniteWay
  <2> HIDE DEF u
  <2>4. u \in Nat
    BY <1>1 DEF u
  <2> QED BY <1>1, <2>1, <2>2, <2>3, <2>4
<1>5. u \in Nat /\ v \in Nat
  BY <1>1, <1>2
<1> HIDE DEF u, v
<1>6. depth \in 0 .. Limit - 1
  <2>1. u - v \in Int
    BY <1>5
  <2> QED BY <1>1, <1>3, <2>1, ModuloSum
<1>7. Walk!Subtrees = {} => depth = u
  <2> SUFFICES ASSUME Walk!Subtrees = {} PROVE depth = u
    OBVIOUS
  <2>1. u - v = u /\ u < Limit
    BY <1>4, <1>5
  <2> QED BY <1>1, <1>3, <1>5, <2>1, SmallModulo
<1> QED BY <1>1, <1>6, <1>7 DEF u

\* A leaf is counted: one more route, as deep as the walk is.
LEMMA MeasuredVisit ==
  ASSUME TreeOK, StateOK, NEW D, NEW P, OnTheWay(D, P), Measured(D, P), Walk!Visit
  PROVE  Measured(D, P)'
<1>1. /\ state' = "C" /\ leaf' = FALSE /\ routed' = routed + 1
      /\ totdepth' = (totdepth + depth) % Limit
      /\ maxdepth' = IF depth > maxdepth THEN depth ELSE maxdepth
      /\ tree' = tree /\ routes' = routes /\ node' = node /\ depth' = depth
  BY DEF Walk!Visit
<1>2. node \in routes /\ node \notin Counted(D)
  BY DEF Walk!Visit, Walk!AtNode, Walk!Pending, StateOK, OnTheWay, Counted
<1>3. Counted(D)' = Counted(D) \cup {node}
  <2>1. Counted(D) = D \cap routes
    BY <1>2 DEF Counted
  <2>2. Counted(D)' = (D \cap routes) \cup {node}
    BY <1>1, <1>2 DEF Counted
  <2> QED BY <2>1, <2>2
<1>4. Walk!Subtrees' = Walk!Subtrees
  BY <1>1 DEF Walk!Subtrees
<1> DEFINE C == Counted(D)
           n == node
           d == Walk!DepthOf[node]
<1>5. /\ n \in Nodes /\ d \in Nat /\ depth \in 0 .. Limit - 1
      /\ Walk!Subtrees = {} => depth = d
  BY DepthOfNode
<1>6. Cardinality(C \cup {n}) = Cardinality(C) + 1
  BY <1>2, FiniteWay, FS_AddElement
<1>7. /\ IsFiniteSet(Climbs(C \cup {n})) /\ Walk!SumOfDepths(C) \in Nat
      /\ Walk!SumOfDepths(C \cup {n}) = Walk!SumOfDepths(C) + d
  BY <1>2, <1>5, SumAdds DEF Measured
<1>8. /\ totdepth \in 0 .. Limit - 1 /\ maxdepth \in 0 .. Limit - 1 /\ Limit \in Nat \ {0}
      /\ totdepth' \in 0 .. Limit - 1 /\ maxdepth' \in 0 .. Limit - 1
  <2>1. totdepth \in 0 .. Limit - 1 /\ maxdepth \in 0 .. Limit - 1 /\ Limit \in Nat \ {0}
    BY StatsAssumption DEF Measured
  <2>2. totdepth + depth \in Int
    BY <1>5, <2>1
  <2> QED BY <1>1, <1>5, <2>1, <2>2, ModuloSum
<1>9. ASSUME Walk!Subtrees = {}
      PROVE  /\ totdepth' = Walk!SumOfDepths(C \cup {n}) % Limit
             /\ \A m \in C \cup {n} : Walk!DepthOf[m] <= maxdepth'
             /\ maxdepth' = 0 \/ \E m \in C \cup {n} : Walk!DepthOf[m] = maxdepth'
  <2>1. depth = d
    BY <1>5, <1>9
  <2>2. totdepth = Walk!SumOfDepths(C) % Limit
    BY <1>9 DEF Measured
  <2>3. totdepth' = (Walk!SumOfDepths(C) + d) % Limit
    <3> DEFINE x == Walk!SumOfDepths(C)
    <3>1. x \in Int /\ d \in Int /\ Limit \in Nat \ {0}
      BY <1>5, <1>7, <1>8
    <3>2. totdepth' = ((x % Limit) + d) % Limit
      BY <1>1, <2>1, <2>2
    <3> HIDE DEF x, d
    <3>3. ((x % Limit) + d) % Limit = (x + d) % Limit
      BY <3>1, ModuloSum
    <3> QED BY <3>2, <3>3 DEF x
  <2>4. /\ \A m \in C : Walk!DepthOf[m] <= maxdepth
        /\ maxdepth = 0 \/ \E m \in C : Walk!DepthOf[m] = maxdepth
    BY <1>9 DEF Measured
  <2>5. \A m \in C : Walk!DepthOf[m] \in Nat
    BY DepthTyped, FiniteWay DEF TreeOK
  <2>6. /\ d \in Nat /\ maxdepth \in Nat
        /\ maxdepth' = IF d > maxdepth THEN d ELSE maxdepth
    BY <1>1, <1>5, <1>8, <2>1
  <2> HIDE DEF C
  <2>7. ASSUME NEW m \in C \cup {n} PROVE Walk!DepthOf[m] <= maxdepth'
    <3>1. CASE m = n
      BY <2>6, <3>1
    <3>2. CASE m \in C
      <4>1. Walk!DepthOf[m] \in Nat /\ Walk!DepthOf[m] <= maxdepth
        BY <2>4, <2>5, <3>2
      <4> HIDE DEF d, n
      <4> QED BY <2>6, <4>1
    <3> QED BY <3>1, <3>2
  <2>8. maxdepth' = 0 \/ \E m \in C \cup {n} : Walk!DepthOf[m] = maxdepth'
    BY <2>4, <2>6
  <2> QED BY <1>7, <2>3, <2>7, <2>8
<1> HIDE DEF n, d
<1>10. routed' = Cardinality(Counted(D)')
  BY <1>1, <1>3, <1>6 DEF Measured, n
<1>11. Walk!Subtrees = {} => Cardinality(P) = Walk!DepthOf[node] + 1
  BY DEF Measured
<1>12. depth' = (Walk!DepthOf[node] - Cardinality(Walk!Subtrees \cap D)) % Limit
  BY <1>1 DEF Measured
<1> QED
  <2> DEFINE E == C \cup {node}
  <2>1. Counted(D)' = E
    BY <1>3
  <2>2. node' = node /\ routed' = Cardinality(E) /\ IsFiniteSet(Climbs(E))
    BY <1>1, <1>7, <1>10, <2>1 DEF n
  <2>3. Walk!Subtrees = {} =>
          /\ totdepth' = Walk!SumOfDepths(E) % Limit
          /\ \A m \in E : Walk!DepthOf[m] <= maxdepth'
          /\ maxdepth' = 0 \/ \E m \in E : Walk!DepthOf[m] = maxdepth'
    BY <1>9 DEF n
  <2> HIDE DEF E, C
  <2> QED BY <1>4, <1>8, <1>11, <1>12, <2>1, <2>2, <2>3
          DEF Measured, Climbs, Walk!SumOfDepths, Walk!DepthOf

\* Back at the parent, with the node done with: the routes that were counted are
\* the same, and the depth is that of the parent unless a subtree was left.
LEMMA MeasuredUp ==
  ASSUME TreeOK, StateOK, NEW D, NEW P, OnTheWay(D, P), Measured(D, P), Walk!Up,
         NEW y, y = node, y \in tree \ D, y \in P, NEW z, z = Walk!Parent(y),
         NEW E, E = D \cup {y}, NEW Q, Q = P \ {y}
  PROVE  Measured(E, Q)'
<1>1. /\ y # 1 /\ node' = z /\ state' = Walk!After(y) /\ depth' = (depth - 1) % Limit
      /\ leaf' = (IF Walk!After(y) = "C" THEN z \in routes ELSE leaf)
      /\ tree' = tree /\ routes' = routes /\ totdepth' = totdepth /\ routed' = routed
      /\ maxdepth' = maxdepth
  BY DEF Walk!Up
<1>2. Counted(E)' = Counted(D)
  <2>1. ~Walk!Pending /\ state \in {"S", "L", "R", "C"}
    BY DEF Walk!Up, Walk!AtNode, StateOK
  <2>2. Counted(D) = E \cap routes
    <3>1. CASE state = "C"
      <4>1. ~leaf
        BY <2>1, <3>1 DEF Walk!Pending
      <4> QED BY <3>1, <4>1 DEF Counted
    <3>2. CASE state # "C"
      <4>1. y \notin routes
        BY <2>1, <3>2 DEF Walk!Pending
      <4> QED BY <2>1, <3>2, <4>1 DEF Counted
    <3> QED BY <3>1, <3>2
  <2>3. Counted(E)' = E \cap routes
    <3>1. state' \in {"L", "R", "C"}
      BY <1>1 DEF Walk!After
    <3>2. CASE state' = "C"
      <4>1. leaf' = (z \in routes)
        BY <1>1, <3>2
      <4> QED BY <1>1, <3>2, <4>1 DEF Counted
    <3>3. CASE state' # "C"
      BY <1>1, <3>1, <3>3 DEF Counted
    <3> QED BY <3>2, <3>3
  <2> QED BY <2>2, <2>3
<1>3. Walk!Subtrees' = Walk!Subtrees
  BY <1>1 DEF Walk!Subtrees
<1>4. y \in Nodes \ {1} /\ y \in Nat /\ y > 1 /\ z \in Nodes /\ y \in tree
  <2>1. y \in tree \ {1} /\ y \in Nodes /\ z \in tree
    BY <1>1 DEF TreeOK
  <2>2. y \in Nat \ {0, 1}
    BY <2>1, NodesAreNumbers
  <2> QED BY <2>1, <2>2 DEF TreeOK
<1> DEFINE more == IF y = Walk!Subtree(z) THEN 0 ELSE 1
           u == Walk!DepthOf[z]
           v == Cardinality(Walk!Subtrees \cap D)
<1>5. Walk!DepthOf[y] = u + more /\ u \in Nat /\ more \in Nat /\ v \in Nat
  BY <1>4, DepthTyped, FiniteWay
<1>6. Cardinality(Walk!Subtrees \cap E) = v + 1 - more
  <2>1. CASE y = Walk!Subtree(z)
    <3>1. y \in Walk!Subtrees
      BY <1>4, <2>1 DEF Walk!Subtrees
    <3>2. Walk!Subtrees \cap E = (Walk!Subtrees \cap D) \cup {y} /\ y \notin Walk!Subtrees \cap D
      BY <3>1
    <3>3. Cardinality((Walk!Subtrees \cap D) \cup {y}) = v + 1
      BY <3>2, FiniteWay, FS_AddElement
    <3>4. more = 0
      BY <2>1
    <3> HIDE DEF v, more
    <3> QED BY <1>5, <3>2, <3>3, <3>4
  <2>2. CASE y # Walk!Subtree(z)
    <3>1. y \notin Walk!Subtrees
      BY <2>2 DEF Walk!Subtrees
    <3>2. Walk!Subtrees \cap E = Walk!Subtrees \cap D
      BY <3>1
    <3>3. more = 1
      BY <2>2
    <3>4. Cardinality(Walk!Subtrees \cap E) = v
      BY <3>2
    <3> HIDE DEF v, more
    <3> QED BY <1>5, <3>3, <3>4
  <2> QED BY <2>1, <2>2
<1>7. depth' = (u - Cardinality(Walk!Subtrees \cap E)) % Limit
  <2>1. depth = ((u + more) - v) % Limit
    BY <1>5 DEF Measured
  <2> DEFINE w == Cardinality(Walk!Subtrees \cap E)
             x == (u + more) - v
  <2>2. w = v + 1 - more
    BY <1>6
  <2> HIDE DEF u, v, w, more
  <2>3. u - w = x + (0 - 1) /\ x \in Int /\ Limit \in Nat \ {0}
    BY <1>5, <2>2, StatsAssumption
  <2>4. depth' = ((x % Limit) + (0 - 1)) % Limit
    <3>1. x % Limit \in Int /\ depth' = ((x % Limit) - 1) % Limit
      <4>1. depth' = ((x % Limit) - 1) % Limit
        BY <1>1, <2>1
      <4>2. x % Limit \in Int
        <5> HIDE DEF x
        <5> QED BY <2>3, ModuloSum
      <4> QED BY <4>1, <4>2
    <3>2. (x % Limit) - 1 = (x % Limit) + (0 - 1)
      <4> HIDE DEF x
      <4> QED BY <3>1
    <3> QED BY <3>1, <3>2
  <2> HIDE DEF x
  <2>5. depth' = (x + (0 - 1)) % Limit
    <3> DEFINE a == 0 - 1
    <3>1. a \in Int
      OBVIOUS
    <3> HIDE DEF a
    <3>2. ((x % Limit) + a) % Limit = (x + a) % Limit
      BY <2>3, <3>1, ModuloSum
    <3> QED BY <2>4, <3>2 DEF a
  <2>6. depth' = (u - w) % Limit
    BY <2>3, <2>5
  <2> QED BY <2>6 DEF w
<1>8. Walk!Subtrees = {} => Cardinality(Q) = u + 1
  <2> SUFFICES ASSUME Walk!Subtrees = {} PROVE Cardinality(Q) = u + 1
    OBVIOUS
  <2>1. more = 1
    BY <1>4 DEF Walk!Subtrees
  <2>2. Cardinality(P) = Walk!DepthOf[y] + 1
    BY DEF Measured
  <2>3. Cardinality(Q) = Cardinality(P) - 1
    BY FiniteWay, FS_RemoveElement
  <2> HIDE DEF u, more
  <2>4. Cardinality(P) = (u + 1) + 1
    BY <1>5, <2>1, <2>2
  <2> QED BY <1>5, <2>3, <2>4
<1> QED BY <1>1, <1>2, <1>3, <1>7, <1>8 DEF Measured, Climbs, Walk!SumOfDepths, Walk!DepthOf

\* A step of the walk keeps what it has done and where it is.
LEMMA TableStays ==
  ASSUME TreeOK, UNCHANGED <<tree, routes>> PROVE TreeOK'
  BY DEF TreeOK, Walk!Parent

LEMMA DownWalk ==
  ASSUME WalkInvariant, NEW c, NEW more,
         \/ Walk!GoesInto /\ c = Walk!Subtree(node) /\ more = 0
         \/ Walk!GoesLeft /\ c = Walk!Left(node) /\ more = 1
         \/ Walk!GoesRight /\ c = Walk!Right(node) /\ more = 1,
         Walk!Down(c, more)
  PROVE  WalkInvariant'
<1>1. TreeOK /\ StateOK
  BY DEF WalkInvariant
<1>2. PICK D, P : OnTheWay(D, P) /\ Measured(D, P)
  BY DEF WalkInvariant
<1>3. /\ c \in tree \ {1} /\ Walk!Parent(c) = node /\ c \notin D
      /\ \A b \in tree \ {1} :
           Walk!Parent(b) = node => (b \in D <=> b \in Passed(node, Before(c)))
  BY <1>1, <1>2, NextChild
<1>4. tree' = tree /\ routes' = routes /\ node' = c /\ state' = "S" /\ leaf' = leaf
  BY DEF Walk!Down
<1>5. OnTheWay(D, P \cup {c})' /\ c \notin P
  BY <1>1, <1>2, <1>3, <1>4, GoesDown
<1>6. state \in {"S", "L", "R"}
  BY DEF Walk!GoesInto, Walk!GoesLeft, Walk!GoesRight
<1>7. more = IF c = Walk!Subtree(node) THEN 0 ELSE 1
  <2>1. node \in Nat \ {0}
    BY <1>1, <1>2, NodesAreNumbers DEF OnTheWay
  <2>2. Walk!Left(node) # Walk!Subtree(node) /\ Walk!Right(node) # Walk!Subtree(node)
    BY <2>1, Family
  <2> QED BY <2>2
<1>8. Measured(D, P \cup {c})'
  BY <1>1, <1>2, <1>3, <1>5, <1>6, <1>7, MeasuredDown
<1>9. TreeOK' /\ StateOK'
  BY <1>1, <1>4, <1>6, TableStays DEF StateOK
<1> QED BY <1>5, <1>8, <1>9 DEF WalkInvariant

LEMMA VisitWalk ==
  ASSUME WalkInvariant, Walk!Visit PROVE WalkInvariant'
<1>1. TreeOK /\ StateOK
  BY DEF WalkInvariant
<1>2. PICK D, P : OnTheWay(D, P) /\ Measured(D, P)
  BY DEF WalkInvariant
<1>3. tree' = tree /\ routes' = routes /\ node' = node /\ state' = "C" /\ leaf' = FALSE
  BY DEF Walk!Visit
<1>4. \A c \in tree \ {1} : Walk!Parent(c) = node => c \in D
  BY <1>1, <1>2, AllBelowDone DEF Walk!Visit
<1>5. OnTheWay(D, P)'
  BY <1>1, <1>2, <1>3, <1>4, StaysThere
<1>6. Measured(D, P)'
  BY <1>1, <1>2, MeasuredVisit
<1>7. TreeOK' /\ StateOK'
  BY <1>1, <1>3, TableStays DEF StateOK
<1> QED BY <1>5, <1>6, <1>7 DEF WalkInvariant

LEMMA UpWalk ==
  ASSUME WalkInvariant, Walk!Up PROVE WalkInvariant'
<1>1. TreeOK /\ StateOK
  BY DEF WalkInvariant
<1>2. PICK D, P : OnTheWay(D, P) /\ Measured(D, P)
  BY DEF WalkInvariant
<1>3. PICK y : y = node
  OBVIOUS
<1>4. PICK z : z = Walk!Parent(y)
  OBVIOUS
<1>5. /\ y # 1 /\ tree' = tree /\ routes' = routes /\ node' = z /\ state' = Walk!After(y)
      /\ leaf' = (IF Walk!After(y) = "C" THEN z \in routes ELSE leaf)
  BY <1>3, <1>4 DEF Walk!Up
<1>6. \A c \in tree \ {1} : Walk!Parent(c) = y => c \in D
  BY <1>1, <1>2, <1>3, AllBelowDone DEF Walk!Up
<1>7. OnTheWay(D \cup {y}, P \ {y})' /\ y \in tree \ D /\ y \in P
  BY <1>1, <1>2, <1>3, <1>4, <1>5, <1>6, GoesUp
<1>8. PICK E, Q : E = D \cup {y} /\ Q = P \ {y}
  OBVIOUS
<1>9. Measured(E, Q)'
  BY <1>1, <1>2, <1>3, <1>4, <1>7, <1>8, MeasuredUp
<1>10. OnTheWay(E, Q)'
  BY <1>7, <1>8
<1>11. TreeOK' /\ StateOK'
  <2>1. Walk!After(y) \in {"L", "R", "C"}
    BY DEF Walk!After
  <2>2. leaf = FALSE
    BY <1>1 DEF Walk!Up, Walk!AtNode, Walk!Pending, StateOK
  <2>3. StateOK'
    <3>1. CASE Walk!After(y) = "C"
      <4>1. leaf' = (z \in routes)
        BY <1>5, <3>1
      <4>2. leaf' \in BOOLEAN /\ (leaf' => z \in routes)
        <5>1. leaf' = TRUE \/ leaf' = FALSE
          BY <4>1
        <5> QED BY <4>1, <5>1
      <4>3. state' = "C" /\ node' = z /\ routes' = routes
        BY <1>5, <3>1
      <4> QED BY <4>2, <4>3 DEF StateOK
    <3>2. CASE Walk!After(y) # "C"
      <4>1. leaf' = FALSE
        BY <1>5, <2>2, <3>2
      <4> QED BY <1>5, <2>1, <3>2, <4>1 DEF StateOK
    <3> QED BY <3>1, <3>2
  <2> QED BY <1>1, <1>5, <2>3, TableStays
<1> QED BY <1>9, <1>10, <1>11 DEF WalkInvariant

LEMMA EndWalk ==
  ASSUME WalkInvariant, Walk!AtRoot PROVE WalkInvariant'
<1>1. TreeOK /\ StateOK
  BY DEF WalkInvariant
<1>2. PICK D, P : OnTheWay(D, P) /\ Measured(D, P)
  BY DEF WalkInvariant
<1>3. /\ UNCHANGED <<tree, routes, node, leaf, depth, totdepth, routed, maxdepth>>
      /\ state' = "end" /\ node = 1
  BY DEF Walk!AtRoot
<1>4. \A c \in tree \ {1} : Walk!Parent(c) = node => c \in D
  BY <1>1, <1>2, AllBelowDone DEF Walk!AtRoot
<1>5. OnTheWay(D, P)'
  BY <1>1, <1>2, <1>3, <1>4, StaysThere
<1>6. ~leaf /\ (state = "C" \/ node \notin routes)
  BY <1>1 DEF Walk!AtRoot, Walk!AtNode, Walk!Pending, StateOK
<1>7. Counted(D)' = Counted(D)
  BY <1>3, <1>6 DEF Counted
<1>8. Measured(D, P)'
  BY <1>2, <1>3, <1>7 DEF Measured, Climbs, Walk!SumOfDepths, Walk!DepthOf, Walk!Subtrees
<1>9. TreeOK' /\ StateOK'
  BY <1>1, <1>3, <1>6, TableStays DEF StateOK
<1> QED BY <1>5, <1>8, <1>9 DEF WalkInvariant

LEMMA StillWalk ==
  ASSUME WalkInvariant, UNCHANGED walk PROVE WalkInvariant'
<1>1. TreeOK /\ StateOK
  BY DEF WalkInvariant
<1>2. PICK D, P : OnTheWay(D, P) /\ Measured(D, P)
  BY DEF WalkInvariant
<1>3. UNCHANGED <<tree, routes, node, state, leaf, depth, totdepth, routed, maxdepth>>
  BY DEF walk
<1>4. OnTheWay(D, P)'
  BY <1>2, <1>3 DEF OnTheWay, Walk!Parent, Walk!Left, Walk!Right, Walk!Subtree
<1>5. Measured(D, P)'
  <2>1. Counted(D)' = Counted(D) /\ Walk!Subtrees' = Walk!Subtrees
    BY <1>3 DEF Counted, Walk!Subtrees
  <2> QED BY <1>2, <1>3, <2>1 DEF Measured, Climbs, Walk!SumOfDepths, Walk!DepthOf
<1>6. TreeOK' /\ StateOK'
  BY <1>1, <1>3, TableStays DEF StateOK
<1> QED BY <1>4, <1>5, <1>6 DEF WalkInvariant

\* The walk has ended when the histogram starts.
ReportInvariant ==
  /\ WalkInvariant
  /\ phase = "histogram" => state = "end"

LEMMA NextReport ==
  ASSUME ReportInvariant, [ReportNext]_vars PROVE ReportInvariant'
<1>1. Walk!Walk \/ UNCHANGED walk
  BY DEF ReportNext, Reported, Ended, Depth, vars
<1>2. WalkInvariant
  BY DEF ReportInvariant
<1>3. WalkInvariant'
  <2>1. CASE Walk!DownLeft
    BY <1>2, <2>1, DownWalk DEF Walk!DownLeft
  <2>2. CASE Walk!DownRight
    BY <1>2, <2>2, DownWalk DEF Walk!DownRight
  <2>3. CASE Walk!Into
    BY <1>2, <2>3, DownWalk DEF Walk!Into
  <2>4. CASE Walk!Visit
    BY <1>2, <2>4, VisitWalk
  <2>5. CASE Walk!Up
    BY <1>2, <2>5, UpWalk
  <2>6. CASE Walk!AtRoot
    BY <1>2, <2>6, EndWalk
  <2>7. CASE UNCHANGED walk
    BY <1>2, <2>7, StillWalk
  <2> QED BY <1>1, <2>1, <2>2, <2>3, <2>4, <2>5, <2>6, <2>7 DEF Walk!Walk
<1>4. (phase = "histogram" => state = "end")'
  <2>1. CASE Depth
    BY <2>1 DEF Depth, stats
  <2>2. CASE state = "end" /\ Histogram /\ UNCHANGED walk
    BY <2>2 DEF walk
  <2>3. CASE UNCHANGED walk /\ (phase' = "histogram" => phase = "histogram")
    BY <2>3 DEF ReportInvariant, walk
  <2> QED BY <2>1, <2>2, <2>3 DEF ReportNext, Reported, Ended, vars, stats, Compute, Average,
                                  Figures, CountIn, PrintRow
<1> QED BY <1>3, <1>4 DEF ReportInvariant

LEMMA InitReport == ReportInit => ReportInvariant
  BY InitWalk DEF ReportInit, Init, ReportInvariant

LEMMA ReportHolds == Report => []ReportInvariant
  BY InitReport, NextReport, PTL DEF Report

\* At the end the walk is done with every node below the root, however the tree
\* is made: the least node that it missed would have a parent it did not miss.
LEMMA AllDone ==
  ASSUME TreeOK, NEW D, NEW P, OnTheWay(D, P), node = 1, state = "end"
  PROVE  D = tree \ {1}
<1> DEFINE T == tree \ (D \cup {1})
<1>1. D \subseteq tree \ {1}
  BY DEF OnTheWay
<1>2. SUFFICES ASSUME T # {} PROVE FALSE
  BY <1>1
<1>3. PICK n \in T : \A l \in T : n <= l
  <2>1. T \in SUBSET Nat
    BY NodesAreNumbers
  <2> HIDE DEF T
  <2> QED BY <1>2, <2>1, Minimum
<1>4. n \in tree \ {1} /\ n \notin D /\ n \in Nat \ {0, 1}
  BY <1>3, NodesAreNumbers
<1>5. Walk!Parent(n) \in tree /\ Walk!Parent(n) \in Nat /\ Walk!Parent(n) < n
  BY <1>4, Family DEF TreeOK
<1>6. Walk!Parent(n) \notin T
  BY <1>3, <1>4, <1>5
<1>7. CASE Walk!Parent(n) = 1
  <2>1. n \in {Walk!Subtree(1), Walk!Left(1), Walk!Right(1)}
    BY <1>4, <1>7, Family
  <2>2. n \in Passed(node, state)
    BY <2>1 DEF Passed
  <2> QED BY <1>4, <1>7, <2>2 DEF OnTheWay
<1>8. CASE Walk!Parent(n) \in D
  BY <1>4, <1>8 DEF OnTheWay
<1> QED BY <1>5, <1>6, <1>7, <1>8

\* The walk of the routing tree counts every route once, leaves each subtree one
\* level up from where it entered it, and without subtrees sums up the depths of
\* the routes and finds the deepest: of every tree.
THEOREM DepthAlwaysExact == Report => []DepthIsExact
<1>1. WalkInvariant => DepthIsExact
  <2> SUFFICES ASSUME WalkInvariant, state = "end" PROVE DepthIsExact
    BY DEF DepthIsExact, Walk!DepthIsExact
  <2>1. TreeOK /\ StateOK /\ node = 1
    BY DEF WalkInvariant, StateOK
  <2>2. PICK D, P : OnTheWay(D, P) /\ Measured(D, P)
    BY DEF WalkInvariant
  <2>3. D = tree \ {1}
    BY <2>1, <2>2, AllDone
  <2>4. Counted(D) = routes
    <3>1. ~leaf
      BY <2>1 DEF StateOK
    <3> QED BY <2>1, <2>3, <3>1 DEF Counted, TreeOK
  <2>5. Walk!Subtrees \cap D = Walk!Subtrees
    BY <2>3 DEF Walk!Subtrees
  <2>6. Walk!DepthOf[1] = 0 /\ Walk!DepthOf \in [Nodes -> Nat]
    BY DepthTyped
  <2>7. routed = Cardinality(routes) /\ depth = (0 - Cardinality(Walk!Subtrees)) % Limit
    BY <2>1, <2>2, <2>4, <2>5, <2>6 DEF Measured
  <2>8. ASSUME Walk!Subtrees = {}
        PROVE  /\ totdepth = Walk!SumOfDepths(routes) % Limit
               /\ maxdepth = IF routes = {} THEN 0 ELSE Walk!Max({Walk!DepthOf[n] : n \in routes})
    <3>1. /\ totdepth = Walk!SumOfDepths(routes) % Limit
          /\ \A n \in routes : Walk!DepthOf[n] <= maxdepth
          /\ maxdepth = 0 \/ \E n \in routes : Walk!DepthOf[n] = maxdepth
          /\ maxdepth \in 0 .. Limit - 1
      BY <2>2, <2>4, <2>8 DEF Measured
    <3>2. CASE routes = {}
      BY <3>1, <3>2
    <3>3. CASE routes # {}
      <4> DEFINE S == {Walk!DepthOf[n] : n \in routes}
      <4>1. S \in SUBSET Nat /\ S # {}
        BY <2>1, <2>6, <3>3 DEF TreeOK
      <4>2. \A d \in S : d <= maxdepth
        BY <3>1
      <4>3. maxdepth \in S
        <5>1. CASE maxdepth = 0
          <6>1. PICK d \in S : TRUE
            BY <4>1
          <6>2. d = 0
            <7> HIDE DEF S
            <7> QED BY <4>1, <4>2, <5>1
          <6> QED BY <5>1, <6>2
        <5>2. CASE \E n \in routes : Walk!DepthOf[n] = maxdepth
          BY <5>2
        <5> QED BY <3>1, <5>1, <5>2
      <4> HIDE DEF S
      <4>4. Walk!Max(S) = maxdepth
        <5> DEFINE m == Walk!Max(S)
        <5>1. \A d \in S : maxdepth >= d
          BY <4>1, <4>2, <4>3
        <5>2. m \in S /\ \A d \in S : m >= d
          BY <4>3, <5>1 DEF Walk!Max
        <5> HIDE DEF m
        <5>3. m = maxdepth
          BY <4>1, <4>3, <5>1, <5>2
        <5> QED BY <5>3 DEF m
      <4> QED BY <3>1, <3>3, <4>4 DEF S
    <3> QED BY <3>1, <3>2, <3>3
  <2> QED BY <2>7, <2>8, WalkCardinality DEF DepthIsExact, Walk!DepthIsExact
<1>2. ReportInvariant => WalkInvariant
  BY DEF ReportInvariant
<1> QED BY <1>1, <1>2, ReportHolds, PTL

\* Each variable of the report stays in its type, however large the tree: no
\* route is counted twice, and the histogram waits for the walk to end.
THEOREM ReportTyped == Report => []TypeOK
<1>1. ReportInvariant => Walk!TypeOK
  <2> SUFFICES ASSUME WalkInvariant PROVE Walk!TypeOK
    BY DEF ReportInvariant
  <2>1. TreeOK /\ StateOK
    BY DEF WalkInvariant
  <2>2. PICK D, P : OnTheWay(D, P) /\ Measured(D, P)
    BY DEF WalkInvariant
  <2>3. depth \in 0 .. Limit - 1
    BY <2>1, <2>2, DepthOfNode
  <2>4. routed \in 0 .. Cardinality(routes)
    <3>1. /\ Cardinality(routes) \in Nat /\ Cardinality(Counted(D)) \in Nat
          /\ Cardinality(Counted(D)) <= Cardinality(routes)
      BY <2>1, <2>2, FiniteWay
    <3>2. routed = Cardinality(Counted(D))
      BY <2>2 DEF Measured
    <3> QED BY <3>1, <3>2
  <2>5. totdepth \in 0 .. Limit - 1 /\ maxdepth \in 0 .. Limit - 1
    BY <2>2 DEF Measured
  <2>6. tree \subseteq Nodes /\ routes \subseteq tree /\ node \in tree
    BY <2>1, <2>2 DEF TreeOK, OnTheWay
  <2> QED BY <2>1, <2>3, <2>4, <2>5, <2>6, WalkCardinality DEF StateOK, Walk!TypeOK
<1>2. RowInvariant => StatsTypeOK
  BY DEF RowInvariant
<1>3. ReportInvariant /\ RowInvariant => TypeOK
  BY <1>1, <1>2 DEF TypeOK, ReportInvariant
<1> QED BY <1>3, ReportHolds, RowsInvariant, ReportIsSpec, PTL
=============================================================================
