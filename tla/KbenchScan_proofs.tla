-------------------------- MODULE KbenchScan_proofs --------------------------
(***************************************************************************)
(* The scan of IPv6 addresses, for addresses of any number of words of any *)
(* size: by induction on the words, the subtraction and the long division  *)
(* give the step that numbers have, the nested comparison is that of       *)
(* numbers, and so a scan that never carries is one of LinearScan.         *)
(***************************************************************************)
EXTENDS KbenchScan, NaturalsLemmas

USE DEF Word

Words == [1 .. N -> Int]

-----------------------------------------------------------------------------
(* An address as a number *)

LEMMA NumbersAre ==
  ASSUME NEW a \in Words
  PROVE  /\ Numbers(a) \in [0 .. N -> Int]
         /\ Numbers(a)[0] = 0
         /\ \A w \in 1 .. N : Numbers(a)[w] = Numbers(a)[w - 1] * B + a[w]
<1> DEFINE P(f) == f = [w \in 0 .. N |-> IF w = 0 THEN 0 ELSE f[w - 1] * B + a[w]]
           G == [w \in 1 .. N |-> [x \in Int |-> x * B + a[w]]]
<1>1. N \in Nat /\ B \in Nat
  BY ScanAssumption
<1>2. \A w \in 1 .. N, x \in Int : G[w][x] = x * B + a[w]
  BY <1>1 DEF Words
<1> HIDE DEF G
<1>3. Recursive(N, Int, 0, G) # {}
  <2>1. 0 \in Int
    OBVIOUS
  <2>2. ASSUME NEW w \in 1 .. N, NEW x \in Int PROVE G[w][x] \in Int
    <3>1. x * B \in Int /\ a[w] \in Int
      BY <1>1 DEF Words
    <3> QED BY <1>2, <3>1
  <2> QED BY <1>1, <2>1, <2>2, Recursion
<1>4. PICK h \in [0 .. N -> Int] : h[0] = 0 /\ \A w \in 1 .. N : h[w] = G[w][h[w - 1]]
  BY <1>3 DEF Recursive
<1>5. P(h)
  <2>1. ASSUME NEW w \in 0 .. N PROVE h[w] = IF w = 0 THEN 0 ELSE h[w - 1] * B + a[w]
    <3>1. CASE w \in 1 .. N
      <4>1. h[w] = G[w][h[w - 1]] /\ h[w - 1] \in Int
        BY <1>1, <1>4, <3>1
      <4> QED BY <1>2, <3>1, <4>1
    <3> QED BY <1>1, <1>4, <3>1
  <2> QED BY <1>4, <2>1
<1>6. Numbers(a) = CHOOSE f : P(f)
  BY DEF Numbers
<1> HIDE DEF P
<1>7. PICK f : f = Numbers(a) /\ P(f)
  <2>1. P(CHOOSE f : P(f))
    BY <1>5
  <2> QED BY <1>6, <2>1
<1>8. f = [w \in 0 .. N |-> IF w = 0 THEN 0 ELSE f[w - 1] * B + a[w]]
  BY <1>7 DEF P
<1>9. f[0] = 0
  BY <1>1, <1>8
<1>10. ASSUME NEW w \in 1 .. N PROVE f[w] = f[w - 1] * B + a[w]
  <2>1. w \in 0 .. N /\ w # 0
    BY <1>1
  <2> QED BY <1>8, <2>1
<1> DEFINE S == {w \in 0 .. N : f[w] \in Int}
<1>11. 0 \in S
  BY <1>1, <1>9
<1>12. ASSUME NEW w \in 0 .. N - 1, w \in S PROVE w + 1 \in S
  <2>1. w + 1 \in 1 .. N /\ (w + 1) - 1 = w
    BY <1>1
  <2>2. f[w] \in Int /\ a[w + 1] \in Int /\ f[w + 1] = f[w] * B + a[w + 1]
    BY <1>10, <1>12, <2>1 DEF Words
  <2> QED BY <1>1, <2>1, <2>2
<1>13. 0 .. N \subseteq S
  <2> HIDE DEF S
  <2> QED BY <1>1, <1>11, <1>12, UpTo
<1>14. f \in [0 .. N -> Int]
  BY <1>8, <1>13
<1> QED BY <1>7, <1>9, <1>10, <1>14

LEMMA LinearIs ==
  ASSUME NEW a \in Words PROVE Linear(a) \in Int
BY NumbersAre, ScanAssumption DEF Linear

\* The number of a sum, word by word and with no bound on the words.
LEMMA LinearSum ==
  ASSUME NEW a \in Words, NEW b \in Words, NEW c \in Words,
         \A w \in 1 .. N : c[w] = a[w] + b[w]
  PROVE  Linear(c) = Linear(a) + Linear(b)
<1> DEFINE S == {w \in 0 .. N : Numbers(c)[w] = Numbers(a)[w] + Numbers(b)[w]}
<1>1. N \in Nat /\ B \in Nat
  BY ScanAssumption
<1>2. 0 \in S
  BY <1>1, NumbersAre
<1>3. ASSUME NEW w \in 0 .. N - 1, w \in S PROVE w + 1 \in S
  <2> DEFINE A == Numbers(a)
             D == Numbers(b)
             C == Numbers(c)
  <2>1. w + 1 \in 1 .. N /\ w + 1 \in 0 .. N /\ w \in 0 .. N /\ (w + 1) - 1 = w
    BY <1>1
  <2>2. A[w] \in Int /\ D[w] \in Int /\ C[w] = A[w] + D[w]
    BY <1>3, <2>1, NumbersAre
  <2>3. /\ A[w + 1] = A[w] * B + a[w + 1]
        /\ D[w + 1] = D[w] * B + b[w + 1]
        /\ C[w + 1] = C[w] * B + c[w + 1]
    BY <2>1, NumbersAre
  <2>4. a[w + 1] \in Int /\ b[w + 1] \in Int /\ c[w + 1] = a[w + 1] + b[w + 1]
    BY <2>1 DEF Words
  <2>5. (A[w] + D[w]) * B = A[w] * B + D[w] * B /\ A[w] * B \in Int /\ D[w] * B \in Int
    BY <1>1, <2>2
  <2> HIDE DEF A, C, D
  <2>6. C[w + 1] = A[w + 1] + D[w + 1]
    BY <2>2, <2>3, <2>4, <2>5
  <2> QED BY <2>1, <2>6 DEF A, C, D
<1> HIDE DEF S
<1>4. N \in S
  BY <1>1, <1>2, <1>3, UpTo
<1> QED BY <1>4 DEF S, Linear

LEMMA LinearNat ==
  ASSUME NEW a \in Words, \A w \in 1 .. N : a[w] >= 0
  PROVE  Linear(a) >= 0
<1> DEFINE S == {w \in 0 .. N : Numbers(a)[w] \in Nat}
<1>1. N \in Nat /\ B \in Nat
  BY ScanAssumption
<1>2. 0 \in S
  BY <1>1, NumbersAre
<1>3. ASSUME NEW w \in 0 .. N - 1, w \in S PROVE w + 1 \in S
  <2>1. w + 1 \in 1 .. N /\ w + 1 \in 0 .. N /\ (w + 1) - 1 = w
    BY <1>1
  <2>2. Numbers(a)[w] \in Nat /\ a[w + 1] \in Nat
    BY <1>3, <2>1 DEF Words
  <2>3. Numbers(a)[w] * B \in Nat
    BY <1>1, <2>2
  <2> QED BY <2>1, <2>2, <2>3, NumbersAre
<1> HIDE DEF S
<1>4. N \in S
  BY <1>1, <1>2, <1>3, UpTo
<1> QED BY <1>4 DEF S, Linear

LEMMA LinearMonotonic ==
  ASSUME NEW a \in Words, NEW b \in Words, \A w \in 1 .. N : a[w] <= b[w]
  PROVE  Linear(a) <= Linear(b)
<1> DEFINE d == [w \in 1 .. N |-> b[w] - a[w]]
<1>1. d \in Words /\ \A w \in 1 .. N : d[w] >= 0 /\ b[w] = a[w] + d[w]
  BY DEF Words
<1> HIDE DEF d
<1>2. Linear(b) = Linear(a) + Linear(d) /\ Linear(d) >= 0
  BY <1>1, LinearSum, LinearNat
<1> QED BY <1>1, <1>2, LinearIs

LEMMA LinearZero == Zero \in Words /\ Linear(Zero) = 0
<1>1. Zero \in Words /\ \A w \in 1 .. N : Zero[w] = Zero[w] + Zero[w]
  BY DEF Zero, Words
<1> QED BY <1>1, LinearSum, LinearIs

One == [Zero EXCEPT ![N] = 1]

LEMMA LinearOne == One \in Words /\ Linear(One) = 1
<1> DEFINE S == {w \in 0 .. N - 1 : Numbers(One)[w] = 0}
<1>1. N \in Nat \ {0} /\ B \in Nat
  BY ScanAssumption
<1>2. One \in Words /\ One[N] = 1 /\ \A w \in 1 .. N - 1 : One[w] = 0
  BY <1>1 DEF One, Zero, Words
<1>3. 0 \in S
  BY <1>1, <1>2, NumbersAre
<1>4. ASSUME NEW w \in 0 .. N - 1 - 1, w \in S PROVE w + 1 \in S
  <2>1. w + 1 \in 1 .. N /\ w + 1 \in 1 .. N - 1 /\ (w + 1) - 1 = w
    BY <1>1
  <2>2. Numbers(One)[w + 1] = Numbers(One)[w] * B + One[w + 1]
    BY <1>2, <2>1, NumbersAre
  <2> QED BY <1>1, <1>2, <1>4, <2>1, <2>2
<1> HIDE DEF S
<1>5. N - 1 \in Nat /\ N - 1 \in 0 .. N - 1
  BY <1>1
<1>6. N - 1 \in S
  BY <1>3, <1>4, <1>5, UpTo
<1>7. Linear(One) = Numbers(One)[N - 1] * B + One[N]
  BY <1>1, <1>2, NumbersAre DEF Linear
<1> QED BY <1>1, <1>2, <1>6, <1>7 DEF S

\* Of two addresses, the one that is greater in the first word in which they
\* differ is the greater number.
LEMMA BeyondIsGreater ==
  ASSUME NEW a \in Address, NEW e \in Address, Beyond(a, e)
  PROVE  Linear(a) > Linear(e)
<1> DEFINE A == Numbers(a)
           E == Numbers(e)
<1>1. N \in Nat /\ B \in Nat /\ a \in Words /\ e \in Words
  BY ScanAssumption DEF Address, Words
<1>2. /\ A \in [0 .. N -> Int] /\ A[0] = 0 /\ \A w \in 1 .. N : A[w] = A[w - 1] * B + a[w]
      /\ E \in [0 .. N -> Int] /\ E[0] = 0 /\ \A w \in 1 .. N : E[w] = E[w - 1] * B + e[w]
  BY <1>1, NumbersAre
<1> HIDE DEF A, E
<1>3. PICK w \in 1 .. N : a[w] > e[w] /\ \A v \in 1 .. w - 1 : a[v] = e[v]
  BY DEF Beyond
<1> DEFINE S == {v \in 0 .. w - 1 : A[v] = E[v]}
<1>4. w - 1 \in S
  <2>1. w - 1 \in Nat /\ 0 \in S
    BY <1>1, <1>2
  <2>2. ASSUME NEW v \in 0 .. w - 1 - 1, v \in S PROVE v + 1 \in S
    <3>1. v + 1 \in 1 .. N /\ v + 1 \in 1 .. w - 1 /\ (v + 1) - 1 = v
      BY <1>1
    <3>2. A[v + 1] = A[v] * B + a[v + 1] /\ E[v + 1] = E[v] * B + e[v + 1]
      BY <1>2, <3>1
    <3> QED BY <1>3, <2>2, <3>1, <3>2
  <2> HIDE DEF S
  <2>3. 0 .. w - 1 \subseteq S
    BY <2>1, <2>2, UpTo
  <2> QED BY <2>1, <2>3
<1> DEFINE T == {u \in 0 .. N : u >= w => A[u] > E[u]}
<1>5. 0 \in T
  BY <1>1
<1>6. ASSUME NEW u \in 0 .. N - 1, u \in T PROVE u + 1 \in T
  <2>1. u + 1 \in 1 .. N /\ u + 1 \in 0 .. N /\ u \in 0 .. N /\ (u + 1) - 1 = u
    BY <1>1
  <2>2. A[u + 1] = A[u] * B + a[u + 1] /\ E[u + 1] = E[u] * B + e[u + 1]
    BY <1>2, <2>1
  <2>3. A[u] \in Int /\ E[u] \in Int /\ a[u + 1] \in 0 .. B - 1 /\ e[u + 1] \in 0 .. B - 1
    BY <1>2, <2>1 DEF Address
  <2>4. CASE u + 1 = w
    <3>1. A[u] = E[u]
      BY <1>4, <2>1, <2>4
    <3>2. a[u + 1] > e[u + 1] /\ E[u] * B \in Int
      BY <1>1, <1>3, <2>3, <2>4
    <3>3. A[u + 1] > E[u + 1]
      BY <2>2, <2>3, <3>1, <3>2
    <3> QED BY <2>1, <3>3
  <2>5. CASE u >= w
    <3>1. E[u] + 1 <= A[u]
      BY <1>6, <2>3, <2>5
    <3>2. (E[u] + 1) * B <= A[u] * B
      BY <1>1, <2>3, <3>1, Times
    <3>3. (E[u] + 1) * B = E[u] * B + B /\ E[u] * B \in Int /\ A[u] * B \in Int
      BY <1>1, <2>3
    <3>4. A[u + 1] > E[u + 1]
      BY <1>1, <2>2, <2>3, <3>2, <3>3
    <3> QED BY <2>1, <3>4
  <2>6. CASE u + 1 < w
    BY <2>1, <2>6
  <2> QED BY <1>1, <2>4, <2>5, <2>6
<1>7. N \in T
  <2> HIDE DEF T
  <2> QED BY <1>1, <1>5, <1>6, UpTo
<1> QED BY <1>1, <1>7 DEF Linear, A, E

\* Two addresses that differ are in order.
LEMMA OneIsBeyond ==
  ASSUME NEW a \in Address, NEW e \in Address, a # e
  PROVE  Beyond(a, e) \/ Beyond(e, a)
<1> DEFINE T == {w \in 1 .. N : a[w] # e[w]}
<1>1. T # {} /\ T \in SUBSET Nat
  BY ScanAssumption DEF Address
<1> HIDE DEF T
<1>2. PICK w \in T : \A y \in T : w <= y
  BY <1>1, Minimum
<1>3. w \in 1 .. N /\ a[w] # e[w] /\ \A v \in 1 .. w - 1 : a[v] = e[v]
  BY <1>2, ScanAssumption DEF T
<1>4. a[w] > e[w] \/ e[w] > a[w]
  BY <1>3, ScanAssumption DEF Address
<1>5. CASE a[w] > e[w]
  BY <1>3, <1>5 DEF Beyond
<1>6. CASE e[w] > a[w]
  BY <1>3, <1>6 DEF Beyond
<1> QED BY <1>4, <1>5, <1>6

LEMMA WordsOfAddress == Address \subseteq Words
BY ScanAssumption DEF Address, Words

\* The nested comparison is that of the numbers.
LEMMA BeyondIsOrder ==
  ASSUME NEW a \in Address, NEW e \in Address
  PROVE  /\ Linear(a) \in Nat /\ Linear(e) \in Nat
         /\ Beyond(a, e) <=> Linear(a) > Linear(e)
         /\ Linear(a) = Linear(e) => a = e
<1>1. Linear(a) \in Nat /\ Linear(e) \in Nat
  <2>1. ASSUME NEW x \in Address PROVE Linear(x) \in Nat
    <3>1. x \in Words /\ \A w \in 1 .. N : x[w] >= 0
      BY ScanAssumption DEF Address, Words
    <3> QED BY <3>1, LinearIs, LinearNat
  <2> QED BY <2>1
<1>2. Beyond(a, e) => Linear(a) > Linear(e)
  BY BeyondIsGreater
<1>3. Beyond(e, a) => Linear(e) > Linear(a)
  BY BeyondIsGreater
<1>4. a # e => Beyond(a, e) \/ Beyond(e, a)
  BY OneIsBeyond
<1>5. a = e => ~ Beyond(a, e)
  BY <1>1, <1>2
<1> QED BY <1>1, <1>2, <1>3, <1>4, <1>5

-----------------------------------------------------------------------------
(* The step *)

\* The remainders of the long division.
LEMMA RemaindersAre ==
  ASSUME NEW d \in Address
  PROVE  /\ Remainder(d) \in [0 .. N -> 0 .. Loop - 1]
         /\ Remainder(d)[0] = 0
         /\ \A w \in 1 .. N : Remainder(d)[w] = (d[w] + Remainder(d)[w - 1] * B) % Loop
<1> DEFINE P(f) == f = [w \in 0 .. N |-> IF w = 0 THEN 0 ELSE (d[w] + f[w - 1] * B) % Loop]
           R == 0 .. Loop - 1
           G == [w \in 1 .. N |-> [x \in R |-> (d[w] + x * B) % Loop]]
<1>1. N \in Nat /\ B \in Nat /\ Loop \in Nat \ {0}
  BY ScanAssumption
<1>2. \A w \in 1 .. N, x \in R : G[w][x] = (d[w] + x * B) % Loop
  OBVIOUS
<1>3. Recursive(N, R, 0, G) # {}
  <2>1. 0 \in R
    BY <1>1
  <2>2. ASSUME NEW w \in 1 .. N, NEW x \in R PROVE G[w][x] \in R
    <3>1. d[w] + x * B \in Nat
      BY <1>1 DEF Address
    <3>2. (d[w] + x * B) % Loop \in R
      BY <1>1, <3>1, Divides
    <3> QED BY <1>2, <3>2
  <2> HIDE DEF G, R
  <2> QED BY <1>1, <2>1, <2>2, Recursion
<1>4. PICK h \in [0 .. N -> R] : h[0] = 0 /\ \A w \in 1 .. N : h[w] = G[w][h[w - 1]]
  BY <1>3 DEF Recursive
<1>5. \A w \in 1 .. N : h[w] = (d[w] + h[w - 1] * B) % Loop
  <2> TAKE w \in 1 .. N
  <2>1. h[w - 1] \in R
    BY <1>1, <1>4
  <2> QED BY <1>2, <1>4, <2>1
<1> HIDE DEF R, G
<1>6. P(h)
  <2>1. ASSUME NEW w \in 0 .. N PROVE h[w] = IF w = 0 THEN 0 ELSE (d[w] + h[w - 1] * B) % Loop
    <3>1. CASE w \in 1 .. N
      BY <1>1, <1>5, <3>1
    <3> QED BY <1>1, <1>4, <3>1
  <2> QED BY <1>4, <2>1
<1>7. Remainder(d) = CHOOSE f : P(f)
  BY DEF Remainder
<1> HIDE DEF P
<1>8. PICK f : f = Remainder(d) /\ P(f)
  <2>1. P(CHOOSE f : P(f))
    BY <1>6
  <2> QED BY <1>7, <2>1
<1>9. f = [w \in 0 .. N |-> IF w = 0 THEN 0 ELSE (d[w] + f[w - 1] * B) % Loop]
  BY <1>8 DEF P
<1>10. f[0] = 0
  BY <1>1, <1>9
<1>11. ASSUME NEW w \in 1 .. N PROVE f[w] = (d[w] + f[w - 1] * B) % Loop
  <2>1. w \in 0 .. N /\ w # 0
    BY <1>1
  <2> QED BY <1>9, <2>1
<1> DEFINE S == {w \in 0 .. N : f[w] = h[w]}
<1>12. 0 \in S
  BY <1>1, <1>4, <1>10
<1>13. ASSUME NEW w \in 0 .. N - 1, w \in S PROVE w + 1 \in S
  <2>1. w + 1 \in 1 .. N /\ (w + 1) - 1 = w
    BY <1>1
  <2>2. f[w] = h[w] /\ f[w + 1] = (d[w + 1] + f[w] * B) % Loop
    BY <1>11, <1>13, <2>1
  <2>3. h[w + 1] = (d[w + 1] + h[w] * B) % Loop
    BY <1>5, <2>1
  <2> QED BY <1>1, <2>1, <2>2, <2>3
<1>14. 0 .. N \subseteq S
  <2> HIDE DEF S
  <2> QED BY <1>1, <1>12, <1>13, UpTo
<1>15. f \in [0 .. N -> R]
  BY <1>4, <1>9, <1>14
<1> QED BY <1>8, <1>10, <1>11, <1>15 DEF R

\* A word of the quotient fits, and what remains is carried to the next word.
LEMMA DivideWord ==
  ASSUME NEW d \in Address, NEW w \in 1 .. N
  PROVE  /\ Divide(d)[w] \in Word
         /\ d[w] + Remainder(d)[w - 1] * B = Loop * Divide(d)[w] + Remainder(d)[w]
<1> DEFINE r == Remainder(d)[w - 1]
           x == d[w] + r * B
<1>1. B \in Nat \ {0, 1} /\ Loop \in Nat \ {0} /\ N \in Nat
  BY ScanAssumption
<1>2. r \in 0 .. Loop - 1 /\ d[w] \in 0 .. B - 1
  BY <1>1, RemaindersAre DEF Address
<1>3. x \in Nat /\ r * B \in Nat
  BY <1>1, <1>2
<1>4. Divide(d)[w] = x \div Loop /\ Remainder(d)[w] = x % Loop
  BY RemaindersAre DEF Divide
<1>5. x \div Loop \in Nat /\ x % Loop \in 0 .. Loop - 1 /\ x = Loop * (x \div Loop) + (x % Loop)
  BY <1>1, <1>3, Divides
<1>6. x \div Loop < B
  <2>1. PICK q \in Nat : q = x \div Loop
    BY <1>5
  <2>2. SUFFICES ASSUME B <= q PROVE FALSE
    BY <1>1, <2>1
  <2>3. B * Loop <= q * Loop
    BY <1>1, <2>2, Times
  <2>4. r * B <= (Loop - 1) * B
    BY <1>1, <1>2, Times
  <2>5. (Loop - 1) * B = Loop * B - B /\ B * Loop = Loop * B /\ Loop * q = q * Loop
    BY <1>1
  <2>6. Loop * B \in Nat /\ Loop * q \in Nat
    BY <1>1
  <2>7. x < Loop * B
    BY <1>1, <1>2, <1>3, <2>4, <2>5, <2>6
  <2>8. x >= Loop * q
    BY <1>1, <1>5, <2>1, <2>6
  <2> QED BY <1>3, <2>3, <2>5, <2>6, <2>7, <2>8
<1> QED BY <1>1, <1>4, <1>5, <1>6

LEMMA DivideTyped ==
  ASSUME NEW d \in Address PROVE Divide(d) \in Address
BY DivideWord DEF Divide, Address

\* The long division is that of the numbers.
LEMMA DivideIsExact ==
  ASSUME NEW d \in Address
  PROVE  Linear(Divide(d)) = Linear(d) \div Loop
<1> DEFINE q == Divide(d)
           D == Numbers(d)
           Q == Numbers(q)
           R == Remainder(d)
           S == {w \in 0 .. N : D[w] = Loop * Q[w] + R[w]}
<1>1. N \in Nat /\ B \in Nat /\ Loop \in Nat \ {0}
  BY ScanAssumption
<1>2. q \in Address /\ d \in Words /\ q \in Words
  BY DivideTyped, WordsOfAddress
<1>3. /\ D \in [0 .. N -> Int] /\ D[0] = 0 /\ \A w \in 1 .. N : D[w] = D[w - 1] * B + d[w]
      /\ Q \in [0 .. N -> Int] /\ Q[0] = 0 /\ \A w \in 1 .. N : Q[w] = Q[w - 1] * B + q[w]
  BY <1>2, NumbersAre
<1>4. R \in [0 .. N -> 0 .. Loop - 1] /\ R[0] = 0
  BY RemaindersAre
<1>5. \A w \in 1 .. N : d[w] + R[w - 1] * B = Loop * q[w] + R[w]
  BY DivideWord
<1> HIDE DEF q, D, Q, R
<1>6. 0 \in S
  BY <1>1, <1>3, <1>4
<1>7. ASSUME NEW w \in 0 .. N - 1, w \in S PROVE w + 1 \in S
  <2>1. w + 1 \in 1 .. N /\ w + 1 \in 0 .. N /\ w \in 0 .. N /\ (w + 1) - 1 = w
    BY <1>1
  <2>2. /\ D[w] = Loop * Q[w] + R[w]
        /\ D[w + 1] = D[w] * B + d[w + 1]
        /\ Q[w + 1] = Q[w] * B + q[w + 1]
        /\ d[w + 1] + R[w] * B = Loop * q[w + 1] + R[w + 1]
    BY <1>3, <1>5, <1>7, <2>1
  <2>3. /\ Q[w] \in Int /\ R[w] \in Int /\ R[w + 1] \in Int
        /\ d[w + 1] \in Int /\ q[w + 1] \in Int
    <3>1. R[w] \in 0 .. Loop - 1 /\ R[w + 1] \in 0 .. Loop - 1
      BY <1>4, <2>1
    <3>2. R[w] \in Int /\ R[w + 1] \in Int
      BY <1>1, <3>1
    <3>3. Q[w] \in Int
      BY <1>3, <2>1
    <3>4. d[w + 1] \in Int /\ q[w + 1] \in Int
      BY <1>2, <2>1 DEF Words
    <3> QED BY <3>2, <3>3, <3>4
  <2>4. \A x, y, z, b, l \in Int : (l * x + y) * b + z = l * (x * b) + (z + y * b)
    OBVIOUS
  <2>5. D[w + 1] = Loop * (Q[w] * B) + (d[w + 1] + R[w] * B)
    <3>1. D[w + 1] = (Loop * Q[w] + R[w]) * B + d[w + 1]
      BY <2>2
    <3>2. (Loop * Q[w] + R[w]) * B + d[w + 1] = Loop * (Q[w] * B) + (d[w + 1] + R[w] * B)
      BY <1>1, <2>3, <2>4
    <3> QED BY <3>1, <3>2
  <2>6. D[w + 1] = Loop * (Q[w] * B) + (Loop * q[w + 1] + R[w + 1])
    BY <2>2, <2>5
  <2>7. \A x, y, z, l \in Int : l * x + (l * y + z) = l * (x + y) + z
    OBVIOUS
  <2>8. Q[w] * B \in Int
    BY <1>1, <2>3
  <2>9. D[w + 1] = Loop * (Q[w] * B + q[w + 1]) + R[w + 1]
    BY <1>1, <2>3, <2>6, <2>7, <2>8
  <2> QED BY <2>1, <2>2, <2>9
<1>8. N \in S
  <2> HIDE DEF S
  <2> QED BY <1>1, <1>6, <1>7, UpTo
<1>9. Linear(d) = Loop * Linear(q) + R[N] /\ R[N] \in 0 .. Loop - 1
  BY <1>1, <1>4, <1>8 DEF Linear, D, Q
<1>10. Linear(d) \in Nat /\ Linear(q) \in Nat
  BY <1>2, BeyondIsOrder
<1>11. Loop * Linear(q) = Linear(q) * Loop
  BY <1>1, <1>10
<1> QED BY <1>1, <1>9, <1>10, <1>11, Quotient DEF q

LEMMA BorrowsAre ==
  ASSUME NEW s \in Address, NEW e \in Address
  PROVE  /\ Borrow(s, e) \in [1 .. N -> {0, 1}]
         /\ Borrow(s, e)[N] = 0
         /\ \A w \in 1 .. N - 1 :
              Borrow(s, e)[w] = IF s[w + 1] + Borrow(s, e)[w + 1] <= e[w + 1] THEN 0 ELSE 1
<1> DEFINE P(f) == f = [w \in 1 .. N |->
                          IF w = N THEN 0 ELSE IF s[w + 1] + f[w + 1] <= e[w + 1] THEN 0 ELSE 1]
           G == [w \in 1 .. N - 1 |-> [x \in {0, 1} |-> IF s[w + 1] + x <= e[w + 1] THEN 0 ELSE 1]]
<1>1. N \in Nat \ {0} /\ N \in 1 .. N
  BY ScanAssumption
<1>2. \A w \in 1 .. N - 1, x \in {0, 1} : G[w][x] = IF s[w + 1] + x <= e[w + 1] THEN 0 ELSE 1
  OBVIOUS
<1>3. RecursiveDown(N, {0, 1}, 0, G) # {}
  <2>1. 0 \in {0, 1}
    OBVIOUS
  <2>2. \A w \in 1 .. N - 1, x \in {0, 1} : G[w][x] \in {0, 1}
    BY <1>2
  <2> HIDE DEF G
  <2> QED BY <1>1, <2>1, <2>2, RecursionDown
<1>4. PICK h \in [1 .. N -> {0, 1}] : h[N] = 0 /\ \A w \in 1 .. N - 1 : h[w] = G[w][h[w + 1]]
  BY <1>3 DEF RecursiveDown
<1>5. \A w \in 1 .. N - 1 : h[w] = IF s[w + 1] + h[w + 1] <= e[w + 1] THEN 0 ELSE 1
  <2> TAKE w \in 1 .. N - 1
  <2>1. h[w + 1] \in {0, 1}
    BY <1>1, <1>4
  <2> QED BY <1>2, <1>4, <2>1
<1> HIDE DEF G
<1>6. P(h)
  <2>1. ASSUME NEW w \in 1 .. N
        PROVE  h[w] = IF w = N THEN 0 ELSE IF s[w + 1] + h[w + 1] <= e[w + 1] THEN 0 ELSE 1
    <3>1. CASE w \in 1 .. N - 1
      BY <1>1, <1>5, <3>1
    <3> QED BY <1>1, <1>4, <3>1
  <2> QED BY <1>4, <2>1
<1>7. Borrow(s, e) = CHOOSE f : P(f)
  BY DEF Borrow
<1> HIDE DEF P
<1>8. PICK f : f = Borrow(s, e) /\ P(f)
  <2>1. P(CHOOSE f : P(f))
    BY <1>6
  <2> QED BY <1>7, <2>1
<1>9. f = [w \in 1 .. N |->
             IF w = N THEN 0 ELSE IF s[w + 1] + f[w + 1] <= e[w + 1] THEN 0 ELSE 1]
  BY <1>8 DEF P
<1>10. f[N] = 0
  BY <1>1, <1>9
<1>11. \A w \in 1 .. N - 1 : f[w] = IF s[w + 1] + f[w + 1] <= e[w + 1] THEN 0 ELSE 1
  <2> TAKE w \in 1 .. N - 1
  <2>1. w \in 1 .. N /\ w # N
    BY <1>1
  <2> QED BY <1>9, <2>1
<1>12. f \in [1 .. N -> {0, 1}]
  BY <1>9
<1> QED BY <1>8, <1>10, <1>11, <1>12

LEMMA CarriesAre ==
  ASSUME NEW a \in Address, NEW b \in Address
  PROVE  /\ Carry(a, b) \in [1 .. N + 1 -> {0, 1}]
         /\ Carry(a, b)[N + 1] = 0
         /\ \A w \in 1 .. N :
              Carry(a, b)[w] = IF a[w] + b[w] + Carry(a, b)[w + 1] > ULONG_MAX THEN 1 ELSE 0
<1> DEFINE P(f) == f = [w \in 1 .. N + 1 |->
                          IF w <= N /\ a[w] + b[w] + f[w + 1] > ULONG_MAX THEN 1 ELSE 0]
           M == N + 1
           G == [w \in 1 .. N |-> [x \in {0, 1} |-> IF a[w] + b[w] + x > ULONG_MAX THEN 1 ELSE 0]]
<1>1. N \in Nat \ {0} /\ M \in Nat \ {0} /\ M - 1 = N /\ M \in 1 .. M
  BY ScanAssumption
<1>2. \A w \in 1 .. N, x \in {0, 1} : G[w][x] = IF a[w] + b[w] + x > ULONG_MAX THEN 1 ELSE 0
  OBVIOUS
<1>3. RecursiveDown(M, {0, 1}, 0, G) # {}
  <2>1. 0 \in {0, 1}
    OBVIOUS
  <2>2. \A w \in 1 .. N, x \in {0, 1} : G[w][x] \in {0, 1}
    BY <1>2
  <2>3. \A w \in 1 .. M - 1, x \in {0, 1} : G[w][x] \in {0, 1}
    BY <1>1, <2>2
  <2> HIDE DEF G, M
  <2> QED BY <1>1, <2>1, <2>3, RecursionDown
<1>4. PICK h \in [1 .. M -> {0, 1}] : h[M] = 0 /\ \A w \in 1 .. N : h[w] = G[w][h[w + 1]]
  <2>1. PICK h \in [1 .. M -> {0, 1}] : h[M] = 0 /\ \A w \in 1 .. M - 1 : h[w] = G[w][h[w + 1]]
    BY <1>3 DEF RecursiveDown
  <2> QED BY <1>1, <2>1
<1>5. \A w \in 1 .. N : h[w] = IF a[w] + b[w] + h[w + 1] > ULONG_MAX THEN 1 ELSE 0
  <2> TAKE w \in 1 .. N
  <2>1. h[w + 1] \in {0, 1}
    BY <1>1, <1>4
  <2> QED BY <1>2, <1>4, <2>1
<1> HIDE DEF G
<1>6. P(h)
  <2>1. ASSUME NEW w \in 1 .. N + 1
        PROVE  h[w] = IF w <= N /\ a[w] + b[w] + h[w + 1] > ULONG_MAX THEN 1 ELSE 0
    <3>1. CASE w \in 1 .. N
      BY <1>1, <1>5, <3>1
    <3> QED BY <1>1, <1>4, <3>1
  <2> QED BY <1>4, <2>1
<1>7. Carry(a, b) = CHOOSE f : P(f)
  BY DEF Carry
<1> HIDE DEF P, M
<1>8. PICK f : f = Carry(a, b) /\ P(f)
  <2>1. P(CHOOSE f : P(f))
    BY <1>6
  <2> QED BY <1>7, <2>1
<1>9. f = [w \in 1 .. N + 1 |->
             IF w <= N /\ a[w] + b[w] + f[w + 1] > ULONG_MAX THEN 1 ELSE 0]
  BY <1>8 DEF P
<1>10. f[N + 1] = 0
  BY <1>1, <1>9
<1>11. \A w \in 1 .. N : f[w] = IF a[w] + b[w] + f[w + 1] > ULONG_MAX THEN 1 ELSE 0
  <2> TAKE w \in 1 .. N
  <2>1. w \in 1 .. N + 1 /\ w <= N
    BY <1>1
  <2> QED BY <1>9, <2>1
<1>12. f \in [1 .. N + 1 -> {0, 1}]
  BY <1>9
<1> QED BY <1>8, <1>10, <1>11, <1>12

LEMMA DifferenceTyped ==
  ASSUME NEW s \in Address, NEW e \in Address
  PROVE  Difference(s, e) \in Address
<1> DEFINE b == Borrow(s, e)
<1>1. B \in Nat \ {0, 1}
  BY ScanAssumption
<1>2. b \in [1 .. N -> {0, 1}]
  BY BorrowsAre
<1> HIDE DEF b
<1>3. ASSUME NEW w \in 1 .. N
      PROVE  (IF s[w] + b[w] <= e[w] THEN e[w] - s[w] - b[w] ELSE (s[w] + b[w] - e[w]) % B) \in 0 .. B - 1
  <2>1. s[w] \in 0 .. B - 1 /\ e[w] \in 0 .. B - 1 /\ b[w] \in {0, 1}
    BY <1>2 DEF Address
  <2>2. CASE s[w] + b[w] <= e[w]
    BY <1>1, <2>1, <2>2
  <2>3. CASE ~ (s[w] + b[w] <= e[w])
    <3>1. s[w] + b[w] - e[w] \in Nat
      BY <1>1, <2>1, <2>3
    <3>2. (s[w] + b[w] - e[w]) % B \in 0 .. B - 1
      BY <1>1, <3>1, Divides
    <3> QED BY <2>3, <3>2
  <2> QED BY <2>2, <2>3
<1>4. Difference(s, e) = [w \in 1 .. N |->
        IF s[w] + b[w] <= e[w] THEN e[w] - s[w] - b[w] ELSE (s[w] + b[w] - e[w]) % B]
  BY DEF Difference, b
<1> QED BY <1>3, <1>4 DEF Address

\* Without a borrow the subtraction is that of the numbers.
LEMMA DifferenceIsExact ==
  ASSUME NEW s \in Address, NEW e \in Address, \A w \in 1 .. N : s[w] <= e[w]
  PROVE  /\ \A w \in 1 .. N : Difference(s, e)[w] = e[w] - s[w]
         /\ Linear(Difference(s, e)) = Linear(e) - Linear(s)
<1> DEFINE b == Borrow(s, e)
           S == {w \in 1 .. N : b[w] = 0}
<1>1. N \in Nat \ {0} /\ B \in Nat
  BY ScanAssumption
<1>2. b[N] = 0 /\ \A w \in 1 .. N - 1 : b[w] = IF s[w + 1] + b[w + 1] <= e[w + 1] THEN 0 ELSE 1
  BY BorrowsAre
<1> HIDE DEF b
<1>3. N \in S
  BY <1>1, <1>2
<1>4. ASSUME NEW w \in 2 .. N, w \in S PROVE w - 1 \in S
  <2>1. w - 1 \in 1 .. N - 1 /\ w - 1 \in 1 .. N /\ (w - 1) + 1 = w /\ w \in 1 .. N
    BY <1>1
  <2>2. b[w] = 0 /\ b[w - 1] = IF s[w] + b[w] <= e[w] THEN 0 ELSE 1
    BY <1>2, <1>4, <2>1
  <2>3. s[w] \in Int /\ s[w] <= e[w]
    BY <1>1, <2>1 DEF Address
  <2> QED BY <2>1, <2>2, <2>3
<1>5. 1 .. N \subseteq S
  <2> HIDE DEF S
  <2> QED BY <1>1, <1>3, <1>4, DownTo
<1>6. \A w \in 1 .. N : Difference(s, e)[w] = e[w] - s[w]
  <2> TAKE w \in 1 .. N
  <2>1. b[w] = 0 /\ s[w] \in Int /\ e[w] \in Int /\ s[w] <= e[w]
    BY <1>1, <1>5 DEF Address
  <2>2. Difference(s, e)[w] = IF s[w] + b[w] <= e[w] THEN e[w] - s[w] - b[w] ELSE (s[w] + b[w] - e[w]) % B
    BY DEF Difference, b
  <2> QED BY <2>1, <2>2
<1>7. Difference(s, e) \in Words /\ s \in Words /\ e \in Words
  BY DifferenceTyped, WordsOfAddress
<1>8. \A w \in 1 .. N : e[w] = s[w] + Difference(s, e)[w]
  BY <1>6, <1>7 DEF Words
<1>9. Linear(e) = Linear(s) + Linear(Difference(s, e))
  BY <1>7, <1>8, LinearSum
<1> QED BY <1>6, <1>7, <1>9, LinearIs

LEMMA ZeroAndOne == Zero \in Address /\ One \in Address
BY ScanAssumption DEF Zero, One, Address

LEMMA StepTyped ==
  ASSUME NEW s \in Address, NEW e \in Address
  PROVE  Step(s, e) \in Address
BY DifferenceTyped, DivideTyped, ZeroAndOne DEF Step, One

\* The step of a range that needs no borrow: as a number, it is the size of the
\* range divided by the number of lookups, or one.
LEMMA StepIs ==
  ASSUME NEW s \in Address, NEW e \in Address, s # e, \A w \in 1 .. N : s[w] <= e[w]
  PROVE  LET size == Linear(e) - Linear(s) IN
         /\ size \in Nat \ {0}
         /\ Linear(Step(s, e)) = IF size \div Loop = 0 THEN 1 ELSE size \div Loop
         /\ Linear(Step(s, e)) \in 1 .. size
         /\ Step(s, e) = One \/ Step(s, e) = Divide(Difference(s, e))
<1> DEFINE size == Linear(e) - Linear(s)
           d == Divide(Difference(s, e))
<1>1. Loop \in Nat \ {0}
  BY ScanAssumption
<1>2. s \in Words /\ e \in Words /\ Difference(s, e) \in Address /\ d \in Address
  BY WordsOfAddress, DifferenceTyped, DivideTyped
<1>3. size \in Nat \ {0}
  <2>1. Linear(s) <= Linear(e)
    BY <1>2, LinearMonotonic
  <2>2. Linear(s) \in Nat /\ Linear(e) \in Nat /\ Linear(s) # Linear(e)
    BY BeyondIsOrder
  <2> QED BY <2>1, <2>2
<1>4. Linear(d) = size \div Loop
  BY <1>2, DifferenceIsExact, DivideIsExact
<1>5. d = Zero <=> size \div Loop = 0
  <2>1. Linear(Zero) = 0 /\ Zero \in Address
    BY LinearZero, ZeroAndOne
  <2> QED BY <1>2, <1>4, <2>1, BeyondIsOrder
<1>6. Step(s, e) = IF d = Zero THEN One ELSE d
  BY DEF Step, One
<1>7. Linear(Step(s, e)) = IF size \div Loop = 0 THEN 1 ELSE size \div Loop
  BY <1>4, <1>5, <1>6, LinearOne
<1> HIDE DEF size, d
<1>8. size \div Loop <= size /\ size \div Loop \in Nat
  <2>1. PICK q \in Nat : q = size \div Loop
    BY <1>1, <1>3, Divides
  <2>2. size % Loop \in Nat /\ size = Loop * q + (size % Loop)
    BY <1>1, <1>3, <2>1, Divides
  <2>3. q * 1 <= Loop * q
    <3>1. 1 <= Loop /\ 1 * q <= Loop * q
      BY <1>1, Times
    <3> QED BY <3>1
  <2>4. Loop * q \in Nat
    BY <1>1
  <2> QED BY <1>3, <2>1, <2>2, <2>3, <2>4
<1>9. Linear(Step(s, e)) \in 1 .. size
  BY <1>3, <1>7, <1>8
<1> QED BY <1>3, <1>6, <1>7, <1>9 DEF size, d

-----------------------------------------------------------------------------
(* Sums *)

LEMMA LongIs ==
  ASSUME long \in Longs PROVE ULONG_MAX \in Nat /\ ULONG_MAX >= B - 1
<1>1. B \in Nat \ {0, 1}
  BY ScanAssumption
<1>2. 1 * B <= B * B /\ B * B \in Nat
  BY <1>1, Times
<1> QED BY <1>1, <1>2 DEF ULONG_MAX

LEMMA PlusTyped ==
  ASSUME NEW a \in Address, NEW b \in Address
  PROVE  Plus(a, b) \in Address
<1>1. B \in Nat \ {0, 1} /\ N \in Nat
  BY ScanAssumption
<1>2. ASSUME NEW w \in 1 .. N PROVE (a[w] + b[w] + Carry(a, b)[w]) % B \in 0 .. B - 1
  <2>1. Carry(a, b)[w] \in {0, 1}
    BY <1>1, CarriesAre
  <2>2. a[w] + b[w] + Carry(a, b)[w] \in Nat
    BY <2>1 DEF Address
  <2> QED BY <1>1, <2>2, Divides
<1> QED BY <1>2 DEF Plus, Address

\* A word that does not overflow is the sum of the two, for neither can it
\* carry, with what would come from the word on its right.
LEMMA PlusWord ==
  ASSUME long \in Longs, NEW a \in Address, NEW b \in Address, NEW w \in 1 .. N,
         a[w] + b[w] + Carry(a, b)[w + 1] < B
  PROVE  Carry(a, b)[w] = 0 /\ Plus(a, b)[w] = a[w] + b[w]
<1>1. B \in Nat \ {0, 1} /\ N \in Nat
  BY ScanAssumption
<1>2. Carry(a, b)[w + 1] \in {0, 1}
  BY <1>1, CarriesAre
<1>3. a[w] \in Nat /\ b[w] \in Nat
  BY DEF Address
<1>4. Carry(a, b)[w] = 0
  <2>1. Carry(a, b)[w] = IF a[w] + b[w] + Carry(a, b)[w + 1] > ULONG_MAX THEN 1 ELSE 0
    BY CarriesAre
  <2>2. ULONG_MAX \in Nat /\ ULONG_MAX >= B - 1
    BY LongIs
  <2> HIDE DEF ULONG_MAX
  <2> QED BY <1>1, <1>2, <1>3, <2>1, <2>2
<1>5. Plus(a, b)[w] = (a[w] + b[w] + Carry(a, b)[w]) % B
  BY DEF Plus
<1>6. a[w] + b[w] + 0 = a[w] + b[w] /\ a[w] + b[w] \in Nat /\ a[w] + b[w] < B
  BY <1>1, <1>2, <1>3
<1>7. (a[w] + b[w]) % B = a[w] + b[w]
  BY <1>1, <1>6, SmallModulo
<1> QED BY <1>4, <1>5, <1>6, <1>7

\* Where no word overflows the sum is that of the numbers.
LEMMA PlusIsExact ==
  ASSUME long \in Longs, NEW a \in Address, NEW b \in Address, \A w \in 1 .. N : a[w] + b[w] < B
  PROVE  /\ \A w \in 1 .. N : Plus(a, b)[w] = a[w] + b[w]
         /\ Linear(Plus(a, b)) = Linear(a) + Linear(b)
<1> DEFINE C == Carry(a, b)
           M == N + 1
           S == {w \in 1 .. M : C[w] = 0}
<1>1. N \in Nat /\ M \in Nat /\ M \in 1 .. M
  BY ScanAssumption
<1>2. M \in S
  BY <1>1, CarriesAre
<1>3. ASSUME NEW w \in 2 .. M, w \in S PROVE w - 1 \in S
  <2>1. w - 1 \in 1 .. N /\ w - 1 \in 1 .. M /\ (w - 1) + 1 = w
    BY <1>1
  <2>2. C[w] = 0 /\ a[w - 1] + b[w - 1] < B
    BY <1>3, <2>1
  <2>3. a[w - 1] + b[w - 1] + 0 = a[w - 1] + b[w - 1]
    BY <2>1, ScanAssumption DEF Address
  <2>4. a[w - 1] + b[w - 1] + C[(w - 1) + 1] < B
    BY <2>1, <2>2, <2>3
  <2> QED BY <2>1, <2>4, PlusWord
<1>4. 1 .. M \subseteq S
  <2> HIDE DEF S, M
  <2> QED BY <1>1, <1>2, <1>3, DownTo
<1>5. \A w \in 1 .. N : Plus(a, b)[w] = a[w] + b[w]
  <2> TAKE w \in 1 .. N
  <2>1. C[w + 1] = 0
    BY <1>1, <1>4
  <2>2. a[w] + b[w] + 0 = a[w] + b[w]
    BY ScanAssumption DEF Address
  <2> QED BY <2>1, <2>2, PlusWord
<1>6. Plus(a, b) \in Words /\ a \in Words /\ b \in Words
  BY PlusTyped, WordsOfAddress
<1> QED BY <1>5, <1>6, LinearSum

-----------------------------------------------------------------------------
(* The scan: what holds on every range *)

ScanInvariant ==
  /\ TypeOK
  /\ Linear(Start) <= Linear(End)
  /\ Start = End => delta = Zero /\ daddr = Start
  /\ Start # End => scan /\ delta = Step(Start, End)

LEMMA Ends ==
  ASSUME range \in Ranges PROVE Start \in Address /\ End \in Address
BY ScanAssumption DEF Start, End, Address

LEMMA PlusZero ==
  ASSUME long \in Longs, NEW a \in Address PROVE Plus(a, Zero) = a
<1>1. \A w \in 1 .. N : a[w] + Zero[w] = a[w] /\ a[w] < B
  BY ScanAssumption DEF Zero, Address
<1>2. Zero \in Address
  BY ZeroAndOne
<1>3. PICK p : p = Plus(a, Zero)
  OBVIOUS
<1>4. p \in Address /\ \A w \in 1 .. N : p[w] = a[w]
  BY <1>1, <1>2, <1>3, PlusTyped, PlusIsExact
<1>5. ~ Beyond(p, a) /\ ~ Beyond(a, p)
  BY <1>4 DEF Beyond, Address
<1>6. p = a
  BY <1>4, <1>5, OneIsBeyond
<1> QED BY <1>3, <1>6

LEMMA InitScan ==
  ASSUME Init PROVE ScanInvariant
<1>1. range \in Ranges /\ long \in Longs /\ Start \in Address /\ End \in Address
  BY Ends DEF Init
<1>2. delta \in Address
  BY <1>1, StepTyped, ZeroAndOne DEF Init
<1>3. i \in 0 .. MaxLoop /\ total \in 0 .. Loop /\ total <= i
  BY ScanAssumption DEF Init
<1>4. scan \in BOOLEAN
  BY DEF Init
<1> QED BY <1>1, <1>2, <1>3, <1>4 DEF Init, ScanInvariant, TypeOK

\* Lookups are counted one by one, up to either limit.
LEMMA LookupCounts ==
  ASSUME TypeOK, Running, Lookup
  PROVE  i' \in 0 .. MaxLoop /\ total' \in 0 .. Loop /\ total' <= i'
BY ScanAssumption DEF TypeOK, Running, Lookup

LEMMA NextScan ==
  ASSUME ScanInvariant, [Next]_vars PROVE ScanInvariant'
<1>1. range \in Ranges /\ long \in Longs /\ Start \in Address /\ End \in Address
  BY Ends DEF ScanInvariant, TypeOK
<1>2. daddr \in Address /\ delta \in Address
  BY DEF ScanInvariant, TypeOK
<1>3. CASE UNCHANGED vars
  BY <1>3 DEF vars, ScanInvariant, TypeOK, Start, End
<1>4. ASSUME Running, Lookup, daddr' \in Address, Start = End => daddr' = Start
      PROVE  ScanInvariant'
  <2>1. UNCHANGED <<long, range, delta, scan>>
    BY <1>4 DEF Lookup
  <2>2. i' \in 0 .. MaxLoop /\ total' \in 0 .. Loop /\ total' <= i'
    BY <1>4, LookupCounts DEF ScanInvariant
  <2>3. Start' = Start /\ End' = End
    BY <2>1 DEF Start, End
  <2> QED BY <1>4, <2>1, <2>2, <2>3 DEF ScanInvariant, TypeOK
<1>5. CASE Same
  BY <1>2, <1>4, <1>5 DEF Same, ScanInvariant
<1>6. CASE Advance
  <2>1. daddr' = Plus(daddr, delta) /\ Running /\ Lookup
    BY <1>6 DEF Advance
  <2>2. Start = End => daddr' = Start
    BY <1>1, <2>1, PlusZero DEF ScanInvariant
  <2> QED BY <1>2, <1>4, <2>1, <2>2, PlusTyped
<1>7. CASE Restart
  <2>1. PICK m \in Masked(delta) : daddr' = Plus(Start, m)
    BY <1>7 DEF Restart
  <2>2. m \in Address /\ \A w \in 1 .. N : m[w] <= delta[w]
    BY <2>1 DEF Masked
  <2>3. ASSUME Start = End PROVE daddr' = Start
    <3>1. delta = Zero
      BY <2>3 DEF ScanInvariant
    <3>2. \A w \in 1 .. N : m[w] = 0
      BY <2>2, <3>1, ScanAssumption DEF Address, Zero
    <3>3. m = Zero
      BY <2>2, <3>2 DEF Address, Zero
    <3> QED BY <1>1, <2>1, <3>3, PlusZero
  <2>4. Running /\ Lookup
    BY <1>7 DEF Restart
  <2> QED BY <1>1, <1>4, <2>1, <2>2, <2>3, <2>4, PlusTyped
<1> QED BY <1>3, <1>5, <1>6, <1>7 DEF Next, Done

LEMMA ScanInvariantHolds == Spec => []ScanInvariant
<1>1. Init => ScanInvariant
  BY InitScan
<1>2. ScanInvariant /\ [Next]_vars => ScanInvariant'
  BY NextScan
<1> QED BY <1>1, <1>2, PTL DEF Spec

\* Addresses and steps stay four words of 32 bits, and both counters within
\* loop_count and max_loop_count, whatever the range and the matches.
THEOREM ScanTyped == Spec => []TypeOK
<1>1. ScanInvariant => TypeOK
  BY DEF ScanInvariant
<1> QED BY <1>1, ScanInvariantHolds, PTL

\* The step of a range that needs no borrow is that of LinearScan.
LEMMA StrideIs ==
  ASSUME ScanInvariant, Ordered
  PROVE  /\ Linear(delta) = Lin!Stride
         /\ Start # End => Linear(delta) \in 1 .. Linear(End) - Linear(Start)
         /\ Start = End => Linear(delta) = 0
<1>1. Start \in Address /\ End \in Address
  BY Ends DEF ScanInvariant, TypeOK
<1>2. Linear(Start) \in Nat /\ Linear(End) \in Nat /\ (Linear(Start) = Linear(End) => Start = End)
  BY <1>1, BeyondIsOrder
<1>3. CASE Start = End
  <2>1. Linear(delta) = 0
    BY <1>3, LinearZero DEF ScanInvariant
  <2> QED BY <1>3, <2>1 DEF Lin!Stride
<1>4. CASE Start # End
  <2>1. delta = Step(Start, End) /\ Linear(Start) # Linear(End)
    BY <1>2, <1>4 DEF ScanInvariant
  <2>2. \A w \in 1 .. N : Start[w] <= End[w]
    BY DEF Ordered
  <2>3. LET size == Linear(End) - Linear(Start) IN
         /\ Linear(delta) = IF size \div Loop = 0 THEN 1 ELSE size \div Loop
         /\ Linear(delta) \in 1 .. size
    BY <1>1, <1>4, <2>1, <2>2, StepIs
  <2> QED BY <1>4, <2>1, <2>3 DEF Lin!Stride
<1> QED BY <1>3, <1>4

\* For every number and size of the words, and every loop_count, the step of a
\* range that needs no borrow is the exact quotient.
THEOREM StepsAreExact == Spec => []StepIsExact
<1>1. ScanInvariant => StepIsExact
  BY StrideIs DEF StepIsExact
<1> QED BY <1>1, ScanInvariantHolds, PTL

-----------------------------------------------------------------------------
(* The scan: where its addresses are *)

Stride == Lin!Stride

\* The address is at most one step after a number of steps that fits.
CarryFreeInvariant ==
  CarryFree /\ Start # End =>
    \E k \in Nat : /\ Linear(Start) + k * Stride <= Linear(daddr)
                   /\ \A w \in 1 .. N : daddr[w] <= Start[w] + (k + 1) * delta[w]

RangeInvariant == ScanInvariant /\ InRange /\ CarryFreeInvariant

\* A range that starts at a prefix needs no borrow, and its step is at most
\* the quotient of the first words.
LEMMA PrefixStep ==
  ASSUME ScanInvariant, Prefixed
  PROVE  /\ Ordered
         /\ IF N = 1 THEN End[1] + delta[1] < B ELSE End[1] + delta[1] + 1 < B
<1>1. Start \in Address /\ End \in Address /\ delta \in Address
  BY Ends DEF ScanInvariant, TypeOK
<1>2. N \in Nat \ {0} /\ B \in Nat /\ Loop \in Nat \ {0} /\ 1 \in 1 .. N
  BY ScanAssumption
<1>3. Start[1] \in 0 .. B - 1 /\ End[1] \in 0 .. B - 1
  BY <1>1, <1>2 DEF Address
<1>4. Start[1] <= End[1]
  <2>1. Linear(Start) \in Nat /\ Linear(End) \in Nat
    BY <1>1, BeyondIsOrder
  <2>2. ~ Beyond(Start, End)
    BY <1>1, <2>1, BeyondIsOrder DEF ScanInvariant
  <2> QED BY <1>2, <1>3, <2>2 DEF Beyond
<1>5. Ordered
  <2> SUFFICES ASSUME NEW w \in 1 .. N PROVE Start[w] <= End[w]
    BY DEF Ordered
  <2>1. CASE w = 1
    BY <1>4, <2>1
  <2>2. CASE w # 1
    <3>1. w \in 2 .. N /\ End[w] \in 0 .. B - 1
      BY <1>1, <1>2, <2>2 DEF Address
    <3> QED BY <1>2, <3>1 DEF Prefixed
  <2> QED BY <2>1, <2>2
<1> DEFINE q == (End[1] - Start[1]) \div Loop
<1>6. q \in Nat /\ End[1] + q + 1 < B
  <2>1. End[1] - Start[1] \in Nat
    BY <1>2, <1>3, <1>4
  <2>2. q \in Nat
    BY <1>2, <2>1, Divides
  <2> QED BY <2>2 DEF Prefixed
<1>7. CASE Start = End
  <2>1. delta[1] = 0
    BY <1>2, <1>7 DEF ScanInvariant, Zero
  <2> HIDE DEF q
  <2> QED BY <1>2, <1>3, <1>5, <1>6, <2>1
<1>8. CASE Start # End
  <2> DEFINE d == Difference(Start, End)
  <2>1. d \in Address /\ d[1] = End[1] - Start[1]
    BY <1>1, <1>2, <1>5, DifferenceTyped, DifferenceIsExact DEF Ordered
  <2>2. delta = One \/ delta = Divide(d)
    BY <1>1, <1>5, <1>8, StepIs DEF ScanInvariant, Ordered
  <2> HIDE DEF d
  <2>3. Divide(d)[1] = q
    <3>1. Divide(d)[1] = (d[1] + Remainder(d)[1 - 1] * B) \div Loop
      BY <1>2 DEF Divide
    <3>2. Remainder(d)[0] = 0 /\ 1 - 1 = 0
      BY <2>1, RemaindersAre
    <3>3. d[1] + 0 * B = End[1] - Start[1]
      BY <1>2, <1>3, <2>1
    <3> QED BY <3>1, <3>2, <3>3
  <2>4. One[1] = IF N = 1 THEN 1 ELSE 0
    BY <1>2 DEF One, Zero
  <2> HIDE DEF q
  <2> QED BY <1>2, <1>3, <1>5, <1>6, <2>2, <2>3, <2>4
<1> QED BY <1>7, <1>8

\* A step within the range does not lead below its prefix.
LEMMA PrefixAdvance ==
  ASSUME RangeInvariant, Prefixed
  PROVE  Linear(Start) <= Linear(Plus(daddr, delta))
<1> DEFINE p == Plus(daddr, delta)
<1>1. Start \in Address /\ End \in Address /\ delta \in Address /\ daddr \in Address /\ long \in Longs
  BY Ends DEF RangeInvariant, ScanInvariant, TypeOK
<1>2. N \in Nat \ {0} /\ B \in Nat /\ 1 \in 1 .. N /\ 2 \in 1 .. N + 1
  BY ScanAssumption
<1>3. /\ Start[1] \in 0 .. B - 1 /\ End[1] \in 0 .. B - 1
      /\ delta[1] \in 0 .. B - 1 /\ daddr[1] \in 0 .. B - 1
  BY <1>1, <1>2 DEF Address
<1>4. Start[1] <= daddr[1] /\ daddr[1] <= End[1]
  <2>1. Linear(Start) <= Linear(daddr) /\ Linear(daddr) <= Linear(End)
    BY DEF RangeInvariant, InRange
  <2>2. Linear(Start) \in Nat /\ Linear(daddr) \in Nat /\ Linear(End) \in Nat
    BY <1>1, BeyondIsOrder
  <2>3. ~ Beyond(Start, daddr) /\ ~ Beyond(daddr, End)
    BY <1>1, <2>1, <2>2, BeyondIsOrder
  <2> QED BY <1>2, <1>3, <2>3 DEF Beyond
<1>5. IF N = 1 THEN End[1] + delta[1] < B ELSE End[1] + delta[1] + 1 < B
  BY PrefixStep DEF RangeInvariant
<1>6. p[1] = daddr[1] + delta[1]
  <2>1. Carry(daddr, delta)[2] \in {0, 1} /\ (N = 1 => Carry(daddr, delta)[2] = 0)
    BY <1>1, <1>2, CarriesAre
  <2>2. daddr[1] + delta[1] + Carry(daddr, delta)[2] < B
    BY <1>2, <1>3, <1>4, <1>5, <2>1
  <2>3. 1 + 1 = 2
    OBVIOUS
  <2> QED BY <1>1, <1>2, <2>2, <2>3, PlusWord
<1>7. p \in Address
  BY <1>1, PlusTyped
<1> HIDE DEF p
<1>8. ASSUME NEW w \in 1 .. N PROVE Start[w] <= p[w]
  <2>1. CASE w = 1
    BY <1>2, <1>3, <1>4, <1>6, <2>1
  <2>2. CASE w # 1
    <3>1. w \in 2 .. N /\ p[w] \in 0 .. B - 1
      BY <1>2, <1>7, <2>2 DEF Address
    <3> QED BY <1>2, <3>1 DEF Prefixed
  <2> QED BY <2>1, <2>2
<1>9. Start \in Words /\ p \in Words
  BY <1>1, <1>7, WordsOfAddress
<1> QED BY <1>8, <1>9, LinearMonotonic DEF p

LEMMA PrefixRestart ==
  ASSUME ScanInvariant, Prefixed, NEW m \in Masked(delta), NEW w \in 1 .. N
  PROVE  Start[w] + m[w] < B
<1>1. Start \in Address /\ End \in Address /\ delta \in Address /\ m \in Address /\ m[w] <= delta[w]
  BY Ends DEF ScanInvariant, TypeOK, Masked
<1>2. N \in Nat \ {0} /\ B \in Nat
  BY ScanAssumption
<1>3. /\ Start[w] \in 0 .. B - 1 /\ End[w] \in 0 .. B - 1
      /\ delta[w] \in 0 .. B - 1 /\ m[w] \in 0 .. B - 1
  BY <1>1 DEF Address
<1>4. CASE w = 1
  <2>1. End[1] + delta[1] < B
    BY <1>2, <1>3, <1>4, PrefixStep
  <2>2. Start[1] <= End[1]
    BY <1>4, PrefixStep DEF Ordered
  <2> QED BY <1>1, <1>2, <1>3, <1>4, <2>1, <2>2
<1>5. CASE w # 1
  <2>1. w \in 2 .. N
    BY <1>2, <1>5
  <2> QED BY <1>2, <1>3, <2>1 DEF Prefixed
<1> QED BY <1>4, <1>5

\* What CarryFree says of a number of steps that fits into the range.
LEMMA CarryFreeWord ==
  ASSUME ScanInvariant, CarryFree, Start # End, NEW k \in Nat,
         Linear(Start) + k * Stride <= Linear(End), NEW w \in 1 .. N
  PROVE  Start[w] + (k + 2) * delta[w] < B
<1>1. Start \in Address /\ End \in Address /\ delta \in Address
  BY Ends DEF ScanInvariant, TypeOK
<1>2. /\ Linear(Start) \in Nat /\ Linear(End) \in Nat
      /\ Linear(delta) = Stride /\ Stride \in 1 .. Linear(End) - Linear(Start)
  BY <1>1, BeyondIsOrder, StrideIs DEF CarryFree, Stride
<1>3. PICK d \in Address :
        /\ Linear(d) = Stride
        /\ \A n \in 0 .. Linear(End) - Linear(Start), v \in 1 .. N :
             Linear(Start) + n * Stride <= Linear(End) => Start[v] + (n + 2) * d[v] < B
  BY DEF CarryFree, Stride
<1>4. d = delta
  BY <1>1, <1>2, <1>3, BeyondIsOrder
<1>5. k \in 0 .. Linear(End) - Linear(Start)
  <2>1. 1 * k <= Stride * k
    BY <1>2, Times
  <2>2. 1 * k = k /\ Stride * k = k * Stride /\ k * Stride \in Nat
    BY <1>2
  <2> QED BY <1>2, <2>1, <2>2
<1> QED BY <1>3, <1>4, <1>5

LEMMA CarryFreeAdvance ==
  ASSUME RangeInvariant, CarryFree, NEW w \in 1 .. N
  PROVE  daddr[w] + delta[w] < B
<1>1. Start \in Address /\ End \in Address /\ delta \in Address /\ daddr \in Address
  BY Ends DEF RangeInvariant, ScanInvariant, TypeOK
<1>2. B \in Nat /\ Start[w] \in 0 .. B - 1 /\ delta[w] \in 0 .. B - 1 /\ daddr[w] \in 0 .. B - 1
  BY <1>1, ScanAssumption DEF Address
<1>3. CASE Start = End
  <2>1. delta[w] = 0
    BY <1>3 DEF RangeInvariant, ScanInvariant, Zero
  <2> QED BY <1>2, <2>1
<1>4. CASE Start # End
  <2>1. PICK k \in Nat : /\ Linear(Start) + k * Stride <= Linear(daddr)
                        /\ daddr[w] <= Start[w] + (k + 1) * delta[w]
    BY <1>4 DEF RangeInvariant, CarryFreeInvariant
  <2>2. Linear(Start) + k * Stride <= Linear(End)
    <3>1. Linear(daddr) <= Linear(End)
      BY DEF RangeInvariant, InRange
    <3>2. Linear(Start) \in Nat /\ Linear(End) \in Nat /\ Linear(daddr) \in Nat
      BY <1>1, BeyondIsOrder
    <3>3. Stride \in Nat
      BY <1>4, <3>2, StrideIs DEF CarryFree, Stride, RangeInvariant
    <3>4. k * Stride \in Nat
      BY <3>3
    <3> QED BY <2>1, <3>1, <3>2, <3>4
  <2>3. Start[w] + (k + 2) * delta[w] < B
    BY <1>4, <2>2, CarryFreeWord DEF RangeInvariant
  <2>4. (k + 2) * delta[w] = (k + 1) * delta[w] + delta[w] /\ (k + 1) * delta[w] \in Nat
    BY <1>2
  <2> QED BY <1>2, <2>1, <2>3, <2>4
<1> QED BY <1>3, <1>4

LEMMA CarryFreeRestart ==
  ASSUME ScanInvariant, CarryFree, NEW m \in Masked(delta), NEW w \in 1 .. N
  PROVE  Start[w] + m[w] < B
<1>1. Start \in Address /\ End \in Address /\ delta \in Address /\ m \in Address /\ m[w] <= delta[w]
  BY Ends DEF ScanInvariant, TypeOK, Masked
<1>2. /\ B \in Nat /\ Start[w] \in 0 .. B - 1
      /\ delta[w] \in 0 .. B - 1 /\ m[w] \in 0 .. B - 1
  BY <1>1, ScanAssumption DEF Address
<1>3. CASE Start = End
  <2>1. delta[w] = 0
    BY <1>3 DEF ScanInvariant, Zero
  <2> QED BY <1>1, <1>2, <2>1
<1>4. CASE Start # End
  <2>1. Linear(Start) \in Nat /\ Linear(End) \in Nat /\ Linear(Start) <= Linear(End)
    BY <1>1, BeyondIsOrder DEF ScanInvariant
  <2>2. Stride \in Nat
    BY <1>4, <2>1, StrideIs DEF CarryFree, Stride
  <2>3. Linear(Start) + 0 * Stride <= Linear(End)
    BY <2>1, <2>2
  <2>4. Start[w] + (0 + 2) * delta[w] < B
    BY <1>4, <2>3, CarryFreeWord
  <2> QED BY <1>1, <1>2, <2>4
<1> QED BY <1>3, <1>4

\* A restart leads into the first step of the range.
LEMMA RestartIs ==
  ASSUME ScanInvariant, Ordered, NEW m \in Masked(delta), \A w \in 1 .. N : Start[w] + m[w] < B
  PROVE  /\ \A w \in 1 .. N : Plus(Start, m)[w] = Start[w] + m[w]
         /\ Linear(Start) <= Linear(Plus(Start, m))
         /\ Linear(Plus(Start, m)) <= Linear(Start) + Linear(delta)
         /\ Linear(Start) + Linear(delta) <= Linear(End)
<1>1. /\ Start \in Address /\ End \in Address /\ delta \in Address /\ long \in Longs
      /\ m \in Address /\ \A w \in 1 .. N : m[w] <= delta[w]
  BY Ends DEF ScanInvariant, TypeOK, Masked
<1>2. /\ \A w \in 1 .. N : Plus(Start, m)[w] = Start[w] + m[w]
      /\ Linear(Plus(Start, m)) = Linear(Start) + Linear(m)
  BY <1>1, PlusIsExact
<1>3. Linear(m) <= Linear(delta)
  BY <1>1, WordsOfAddress, LinearMonotonic
<1>4. Linear(m) \in Nat /\ Linear(delta) \in Nat /\ Linear(Start) \in Nat /\ Linear(End) \in Nat
  BY <1>1, BeyondIsOrder
<1>5. Linear(Start) + Linear(delta) <= Linear(End)
  <2>1. Linear(Start) <= Linear(End)
    BY DEF ScanInvariant
  <2> QED BY <1>4, <2>1, StrideIs
<1> QED BY <1>2, <1>3, <1>4, <1>5

LEMMA InitRange ==
  ASSUME Init PROVE RangeInvariant
<1>1. ScanInvariant
  BY InitScan
<1>2. Start \in Address /\ End \in Address /\ delta \in Address /\ daddr = Start
  BY <1>1, Ends DEF ScanInvariant, TypeOK, Init
<1>3. Linear(Start) \in Nat /\ Linear(End) \in Nat
  BY <1>2, BeyondIsOrder
<1>4. InRange
  BY <1>1, <1>2, <1>3 DEF InRange, ScanInvariant
<1>5. ASSUME CarryFree, Start # End
      PROVE  \E k \in Nat : /\ Linear(Start) + k * Stride <= Linear(daddr)
                           /\ \A w \in 1 .. N : daddr[w] <= Start[w] + (k + 1) * delta[w]
  <2>1. Stride \in Nat
    BY <1>1, <1>3, <1>5, StrideIs DEF CarryFree, Stride
  <2>2. Linear(Start) + 0 * Stride <= Linear(daddr)
    BY <1>2, <1>3, <2>1
  <2>3. ASSUME NEW w \in 1 .. N PROVE daddr[w] <= Start[w] + (0 + 1) * delta[w]
    BY <1>2, ScanAssumption DEF Address
  <2> QED BY <2>2, <2>3
<1> QED BY <1>1, <1>4, <1>5 DEF RangeInvariant, CarryFreeInvariant

\* The limits of the range stay what they are.
LEMMA SameRange ==
  ASSUME UNCHANGED <<range, delta>>
  PROVE  /\ Start' = Start /\ End' = End /\ Stride' = Stride
         /\ Prefixed' = Prefixed /\ CarryFree' = CarryFree /\ Ordered' = Ordered
<1>1. Start' = Start /\ End' = End
  BY DEF Start, End
<1>2. Stride' = Stride
  BY <1>1 DEF Stride, Lin!Stride
<1>3. Ordered' = Ordered /\ Prefixed' = Prefixed
  BY <1>1 DEF Ordered, Prefixed
<1>4. CarryFree' = CarryFree
  BY <1>1, <1>2, <1>3 DEF CarryFree, Stride
<1> QED BY <1>1, <1>2, <1>3, <1>4

LEMMA AdvanceKeepsRange ==
  ASSUME RangeInvariant, Advance PROVE InRange' /\ CarryFreeInvariant'
<1>1. /\ Start \in Address /\ End \in Address /\ delta \in Address /\ daddr \in Address
      /\ long \in Longs
  BY Ends DEF RangeInvariant, ScanInvariant, TypeOK
<1>2. daddr' = Plus(daddr, delta) /\ ~ Beyond(Plus(daddr, delta), End) /\ UNCHANGED <<range, delta>>
  BY DEF Advance, Lookup
<1>3. daddr' \in Address
  BY <1>1, <1>2, PlusTyped
<1>4. /\ Linear(Start) \in Nat /\ Linear(End) \in Nat /\ Linear(daddr) \in Nat
      /\ Linear(delta) \in Nat /\ Linear(daddr') \in Nat
  BY <1>1, <1>3, BeyondIsOrder
<1>5. Linear(daddr') <= Linear(End)
  BY <1>1, <1>2, <1>3, <1>4, BeyondIsOrder
<1>6. ASSUME CarryFree
      PROVE  /\ Linear(daddr') = Linear(daddr) + Linear(delta)
             /\ \A w \in 1 .. N : daddr'[w] = daddr[w] + delta[w]
  BY <1>1, <1>2, <1>6, CarryFreeAdvance, PlusIsExact
<1>7. Prefixed \/ CarryFree => Linear(Start) <= Linear(daddr')
  <2>1. CASE Prefixed
    BY <1>2, <2>1, PrefixAdvance
  <2>2. CASE CarryFree
    <3>1. Linear(Start) <= Linear(daddr)
      BY <2>2 DEF RangeInvariant, InRange
    <3> QED BY <1>4, <1>6, <2>2, <3>1
  <2> QED BY <2>1, <2>2
<1>8. InRange'
  BY <1>2, <1>5, <1>7, SameRange DEF InRange
<1>9. ASSUME CarryFree, Start # End
      PROVE  \E k \in Nat : /\ Linear(Start) + k * Stride <= Linear(daddr')
                           /\ \A w \in 1 .. N : daddr'[w] <= Start[w] + (k + 1) * delta[w]
  <2>1. PICK k \in Nat : /\ Linear(Start) + k * Stride <= Linear(daddr)
                        /\ \A w \in 1 .. N : daddr[w] <= Start[w] + (k + 1) * delta[w]
    BY <1>9 DEF RangeInvariant, CarryFreeInvariant
  <2>2. Stride \in Nat /\ Linear(delta) = Stride
    BY <1>4, <1>9, StrideIs DEF CarryFree, Stride, RangeInvariant
  <2>3. (k + 1) * Stride = k * Stride + Stride /\ k * Stride \in Nat
    BY <2>2
  <2>4. Linear(Start) + (k + 1) * Stride <= Linear(daddr')
    BY <1>4, <1>6, <1>9, <2>1, <2>2, <2>3
  <2>5. ASSUME NEW w \in 1 .. N PROVE daddr'[w] <= Start[w] + ((k + 1) + 1) * delta[w]
    <3>1. daddr[w] \in Nat /\ delta[w] \in Nat /\ Start[w] \in Nat
      BY <1>1, ScanAssumption DEF Address
    <3>2. ((k + 1) + 1) * delta[w] = (k + 1) * delta[w] + delta[w] /\ (k + 1) * delta[w] \in Nat
      BY <3>1
    <3>3. daddr'[w] = daddr[w] + delta[w] /\ daddr[w] <= Start[w] + (k + 1) * delta[w]
      BY <1>6, <1>9, <2>1
    <3> QED BY <3>1, <3>2, <3>3
  <2> QED BY <2>4, <2>5
<1>10. CarryFreeInvariant'
  BY <1>2, <1>9, SameRange DEF CarryFreeInvariant
<1> QED BY <1>8, <1>10

LEMMA RestartKeepsRange ==
  ASSUME RangeInvariant, Restart PROVE InRange' /\ CarryFreeInvariant'
<1>1. PICK m \in Masked(delta) : daddr' = Plus(Start, m)
  BY DEF Restart
<1>2. UNCHANGED <<range, delta>>
  BY DEF Restart, Lookup
<1>3. ScanInvariant
  BY DEF RangeInvariant
<1>4. /\ Start \in Address /\ End \in Address /\ delta \in Address /\ m \in Address
      /\ \A w \in 1 .. N : m[w] <= delta[w]
  BY <1>3, Ends DEF ScanInvariant, TypeOK, Masked
<1>5. daddr' \in Address
  BY <1>1, <1>4, PlusTyped
<1>6. /\ Linear(Start) \in Nat /\ Linear(End) \in Nat /\ Linear(delta) \in Nat
      /\ Linear(daddr') \in Nat
  BY <1>4, <1>5, BeyondIsOrder
<1>7. Prefixed \/ CarryFree => Ordered /\ \A w \in 1 .. N : Start[w] + m[w] < B
  BY <1>3, PrefixStep, PrefixRestart, CarryFreeRestart DEF CarryFree
<1>8. Prefixed \/ CarryFree =>
        /\ Linear(Start) <= Linear(daddr') /\ Linear(daddr') <= Linear(End)
        /\ \A w \in 1 .. N : daddr'[w] = Start[w] + m[w]
  BY <1>1, <1>3, <1>6, <1>7, RestartIs
<1>9. InRange'
  BY <1>2, <1>8, SameRange DEF InRange
<1>10. ASSUME CarryFree, Start # End
      PROVE  \E k \in Nat : /\ Linear(Start) + k * Stride <= Linear(daddr')
                           /\ \A w \in 1 .. N : daddr'[w] <= Start[w] + (k + 1) * delta[w]
  <2>1. Stride \in Nat
    BY <1>3, <1>6, <1>10, StrideIs DEF CarryFree, Stride
  <2>2. Linear(Start) + 0 * Stride <= Linear(daddr')
    BY <1>6, <1>8, <1>10, <2>1
  <2>3. ASSUME NEW w \in 1 .. N PROVE daddr'[w] <= Start[w] + (0 + 1) * delta[w]
    <3>1. m[w] \in Nat /\ delta[w] \in Nat /\ Start[w] \in Nat /\ m[w] <= delta[w]
      BY <1>4, ScanAssumption DEF Address
    <3> QED BY <1>8, <1>10, <3>1
  <2> QED BY <2>2, <2>3
<1>11. CarryFreeInvariant'
  BY <1>2, <1>10, SameRange DEF CarryFreeInvariant
<1> QED BY <1>9, <1>11

LEMMA NextRange ==
  ASSUME RangeInvariant, [Next]_vars PROVE RangeInvariant'
<1>1. ScanInvariant'
  BY NextScan DEF RangeInvariant
<1>2. CASE Same \/ Done \/ UNCHANGED vars
  <2>1. UNCHANGED <<range, delta, daddr>>
    BY <1>2 DEF Same, Lookup, Done, vars
  <2>2. InRange'
    BY <2>1, SameRange DEF RangeInvariant, InRange
  <2>3. CarryFreeInvariant'
    BY <2>1, SameRange DEF RangeInvariant, CarryFreeInvariant
  <2> QED BY <1>1, <2>2, <2>3 DEF RangeInvariant
<1>3. CASE Advance
  BY <1>1, <1>3, AdvanceKeepsRange DEF RangeInvariant
<1>4. CASE Restart
  BY <1>1, <1>4, RestartKeepsRange DEF RangeInvariant
<1> QED BY <1>2, <1>3, <1>4 DEF Next

LEMMA RangeInvariantHolds == Spec => []RangeInvariant
<1>1. Init => RangeInvariant
  BY InitRange
<1>2. RangeInvariant /\ [Next]_vars => RangeInvariant'
  BY NextRange
<1> QED BY <1>1, <1>2, PTL DEF Spec

\* No lookup of a scan that starts at a prefix, as the default one does, is out
\* of the range, for words of any size and whatever the carries that are lost.
THEOREM LookupsInRange == Spec => []InRange
<1>1. RangeInvariant => InRange
  BY DEF RangeInvariant
<1> QED BY <1>1, RangeInvariantHolds, PTL

-----------------------------------------------------------------------------
(* The scan implements that of numbers *)

LEMMA InitLinear ==
  ASSUME Init PROVE Lin!Init
<1>1. Start \in Address /\ End \in Address
  BY Ends DEF Init
<1>2. Linear(Start) \in Nat /\ Linear(End) \in Nat
  BY <1>1, BeyondIsOrder
<1> QED BY <1>2 DEF Init, Lin!Init

LEMMA NextLinear ==
  ASSUME RangeInvariant, CarryFree, [Next]_vars PROVE Lin!Next \/ UNCHANGED Lin!vars
<1>1. ScanInvariant
  BY DEF RangeInvariant
<1>2. /\ Start \in Address /\ End \in Address /\ delta \in Address /\ daddr \in Address
      /\ long \in Longs /\ i \in Nat
  BY <1>1, Ends, ScanAssumption DEF ScanInvariant, TypeOK
<1>3. Linear(delta) = Stride
  BY <1>1, StrideIs DEF CarryFree, Stride
<1>4. CASE Done \/ UNCHANGED vars
  BY <1>4 DEF Done, vars, Lin!vars, Start, End
<1>5. CASE Same
  <2>1. Start = End
    BY <1>1, <1>5 DEF Same, ScanInvariant
  <2>2. daddr = Start /\ Stride = 0
    BY <1>1, <1>3, <2>1, LinearZero DEF ScanInvariant
  <2>3. daddr' = daddr /\ i' = i + 1 /\ Start' = Start /\ End' = End
    BY <1>5 DEF Same, Lookup, Start, End
  <2>4. Linear(daddr) \in Nat
    BY <1>2, BeyondIsOrder
  <2>5. Lin!Advance
    BY <2>1, <2>2, <2>3, <2>4 DEF Lin!Advance, Stride
  <2> QED BY <2>3, <2>5 DEF Lin!Next
<1>6. CASE Advance
  <2>1. daddr' = Plus(daddr, delta) /\ ~ Beyond(Plus(daddr, delta), End)
        /\ i' = i + 1 /\ Start' = Start /\ End' = End
    BY <1>6 DEF Advance, Lookup, Start, End
  <2>2. Linear(daddr') = Linear(daddr) + Stride
    BY <1>2, <1>3, <2>1, CarryFreeAdvance, PlusIsExact
  <2>3. daddr' \in Address
    BY <1>2, <2>1, PlusTyped
  <2>4. Linear(daddr') <= Linear(End)
    BY <1>2, <2>1, <2>3, BeyondIsOrder
  <2>5. Lin!Advance
    BY <2>2, <2>4 DEF Lin!Advance, Stride
  <2> QED BY <2>1, <2>5 DEF Lin!Next
<1>7. CASE Restart
  <2>1. PICK m \in Masked(delta) : daddr' = Plus(Start, m)
    BY <1>7 DEF Restart
  <2>2. Beyond(Plus(daddr, delta), End) /\ i' = i + 1 /\ Start' = Start /\ End' = End
    BY <1>7 DEF Restart, Lookup, Start, End
  <2>3. Plus(daddr, delta) \in Address
    BY <1>2, PlusTyped
  <2>4. Linear(Plus(daddr, delta)) = Linear(daddr) + Stride
    BY <1>2, <1>3, CarryFreeAdvance, PlusIsExact
  <2>5. Linear(daddr) + Stride > Linear(End)
    BY <1>2, <2>2, <2>3, <2>4, BeyondIsOrder
  <2>6. Linear(Start) <= Linear(daddr') /\ Linear(daddr') <= Linear(Start) + Stride
    BY <1>1, <1>3, <2>1, CarryFreeRestart, RestartIs DEF CarryFree
  <2>7. Linear(daddr') \in Nat /\ Linear(Start) \in Nat /\ Stride \in Nat
    <3>1. m \in Address
      BY <2>1 DEF Masked
    <3>2. daddr' \in Address
      BY <1>2, <2>1, <3>1, PlusTyped
    <3> QED BY <1>2, <1>3, <3>2, BeyondIsOrder
  <2>8. Linear(daddr') \in Linear(Start) .. Linear(Start) + Stride
    BY <2>6, <2>7
  <2>9. Lin!Restart
    BY <2>5, <2>8 DEF Lin!Restart, Stride
  <2> QED BY <2>2, <2>9 DEF Lin!Next
<1> QED BY <1>4, <1>5, <1>6, <1>7 DEF Next

\* Where no sum of words overflows, the scan by words implements the scan by
\* numbers: each step is one of LinearScan.
THEOREM ScanIsLinear == Spec => LinearIfCarryFree
<1>1. Init => Lin!Init
  BY InitLinear
<1>2. RangeInvariant /\ [Next]_vars => [LinearStep]_(Lin!vars)
  BY NextLinear DEF LinearStep
<1> QED BY <1>1, <1>2, RangeInvariantHolds, PTL DEF Spec, LinearIfCarryFree
=============================================================================
