---------------------------- MODULE NaturalsLemmas ----------------------------
(***************************************************************************)
(* What the proofs about numbers have in common: products and quotients,   *)
(* induction on the naturals with a set where the rules of                 *)
(* NaturalsInduction have an operator, and, from it, the functions that    *)
(* satisfy a recursive equation: on an interval, or on a set of naturals   *)
(* whose elements are followed down to some of them.                       *)
(***************************************************************************)
EXTENDS Integers, WellFoundedInduction, TLAPS

\* A product with a natural is monotonic.
LEMMA Times ==
  ASSUME NEW x \in Int, NEW y \in Int, x <= y, NEW b \in Nat
  PROVE  x * b <= y * b
<1>1. PICK z \in Nat : y = x + z
  <2>1. y - x \in Nat /\ y = x + (y - x)
    OBVIOUS
  <2> QED BY <2>1
<1>2. (x + z) * b = x * b + z * b /\ z * b \in Nat /\ x * b \in Int
  OBVIOUS
<1> QED BY <1>1, <1>2

\* The quotient is the only one that leaves a remainder below the divisor.
LEMMA Quotient ==
  ASSUME NEW n \in Nat, NEW b \in Nat \ {0}, NEW q \in Nat, NEW r \in 0 .. b - 1, n = q * b + r
  PROVE  q = n \div b
<1> DEFINE d == n \div b
<1>1. d \in Nat /\ n % b \in 0 .. b - 1 /\ n = b * d + (n % b)
  OBVIOUS
<1>2. b * d = d * b
  BY <1>1
<1>3. \A x, y \in Nat : x < y => (x + 1) * b <= y * b
  <2>1. SUFFICES ASSUME NEW x \in Nat, NEW y \in Nat, x < y PROVE (x + 1) * b <= y * b
    OBVIOUS
  <2>2. PICK z \in Nat : y = x + 1 + z
    <3>1. y - x - 1 \in Nat /\ y = x + 1 + (y - x - 1)
      BY <2>1
    <3> QED BY <3>1
  <2>3. (x + 1 + z) * b = (x + 1) * b + z * b /\ z * b \in Nat /\ (x + 1) * b \in Nat
    OBVIOUS
  <2> QED BY <2>2, <2>3
<1>4. \A x \in Nat : (x + 1) * b = x * b + b /\ x * b \in Nat
  OBVIOUS
<1>5. CASE q < d
  <2>1. (q + 1) * b <= d * b /\ (q + 1) * b = q * b + b
    BY <1>1, <1>3, <1>4, <1>5
  <2> QED BY <1>1, <1>2, <1>4, <2>1
<1>6. CASE d < q
  <2>1. (d + 1) * b <= q * b /\ (d + 1) * b = d * b + b
    BY <1>1, <1>3, <1>4, <1>6
  <2> QED BY <1>1, <1>2, <1>4, <2>1
<1> QED BY <1>1, <1>5, <1>6

\* The remainder of what is below the divisor.
LEMMA SmallModulo ==
  ASSUME NEW n \in Nat, NEW b \in Nat \ {0}, n < b
  PROVE  n % b = n
<1>1. n \div b = 0
  <2>1. n = 0 * b + n /\ n \in 0 .. b - 1
    OBVIOUS
  <2> QED BY <2>1, Quotient
<1>2. n = b * (n \div b) + (n % b)
  OBVIOUS
<1> QED BY <1>1, <1>2

\* Quotient and remainder.
LEMMA Divides ==
  ASSUME NEW n \in Nat \ {0}, NEW x \in Nat
  PROVE  x \div n \in Nat /\ x % n \in 0 .. n - 1 /\ x = n * (x \div n) + (x % n)
  OBVIOUS

\* The quotient and the remainder of an integer are unique, and a remainder may
\* be taken before an addition or after it.
LEMMA UniqueRemainder ==
  ASSUME NEW b \in Nat \ {0}, NEW p \in Int, NEW q \in Int,
         NEW r \in 0 .. b - 1, NEW s \in 0 .. b - 1, p * b + r = q * b + s
  PROVE  r = s
<1>1. \A x \in Int : x * b \in Int /\ (x + 1) * b = x * b + b
  OBVIOUS
<1>2. CASE p < q
  <2>1. (p + 1) * b <= q * b
    BY <1>2, Times
  <2> QED BY <1>1, <2>1
<1>3. CASE q < p
  <2>1. (q + 1) * b <= p * b
    BY <1>3, Times
  <2> QED BY <1>1, <2>1
<1>4. CASE p = q
  BY <1>1, <1>4
<1> QED BY <1>2, <1>3, <1>4

LEMMA ModuloSum ==
  ASSUME NEW b \in Nat \ {0}, NEW x \in Int, NEW a \in Int
  PROVE  ((x % b) + a) % b = (x + a) % b /\ x % b \in 0 .. b - 1
<1> DEFINE r == x % b
           q == x \div b
<1>1. \A y \in Int : y \div b \in Int /\ y % b \in 0 .. b - 1 /\ y = b * (y \div b) + (y % b)
  OBVIOUS
<1>2. q \in Int /\ r \in 0 .. b - 1 /\ x = b * q + r
  BY <1>1
<1> HIDE DEF q, r
<1> DEFINE u == (x + a) \div b
           v == (r + a) \div b
           s == (x + a) % b
           t == (r + a) % b
<1>3. /\ u \in Int /\ s \in 0 .. b - 1 /\ x + a = b * u + s
      /\ v \in Int /\ t \in 0 .. b - 1 /\ r + a = b * v + t
  <2>1. x + a \in Int /\ r + a \in Int
    BY <1>2
  <2> QED BY <1>1, <2>1
<1> HIDE DEF u, v, s, t
<1>4. b * u = u * b /\ b * (q + v) = b * q + b * v /\ b * (q + v) = (q + v) * b /\ q + v \in Int
  BY <1>2, <1>3
<1>5. u * b + s = (q + v) * b + t
  <2>1. b * q \in Int /\ b * v \in Int /\ b * u \in Int
    BY <1>2, <1>3
  <2> QED BY <1>2, <1>3, <1>4, <2>1
<1>6. s = t
  BY <1>3, <1>4, <1>5, UniqueRemainder
<1> QED BY <1>2, <1>6 DEF s, t, r

-----------------------------------------------------------------------------
\* A set of naturals that is not empty has a least element.
LEMMA Minimum ==
  ASSUME NEW T \in SUBSET Nat, T # {}
  PROVE  \E x \in T : \A y \in T : x <= y
<1> DEFINE R == OpToRel(<, Nat)
<1>1. IsWellFoundedOn(R, Nat)
  BY NatLessThanWellFounded
<1>2. PICK x \in T : \A y \in T : ~ (<<y, x>> \in R)
  <2> HIDE DEF R
  <2> QED BY <1>1, WFMin
<1>3. \A y \in T : <<y, x>> \in R <=> y < x
  BY DEF OpToRel
<1> HIDE DEF R
<1>4. ASSUME NEW y \in T PROVE x <= y
  <2>1. ~ (y < x)
    BY <1>2, <1>3
  <2>2. x \in Nat /\ y \in Nat
    OBVIOUS
  <2> QED BY <2>1, <2>2
<1> QED BY <1>4

\* A set that has 0 and, with a number below n, the next one, has 0 .. n.
LEMMA UpTo ==
  ASSUME NEW n \in Nat, NEW S, 0 \in S, \A k \in 0 .. n - 1 : k \in S => k + 1 \in S
  PROVE  0 .. n \subseteq S
<1> DEFINE T == (0 .. n) \ S
<1>1. SUFFICES ASSUME T # {} PROVE FALSE
  OBVIOUS
<1>2. T \in SUBSET Nat
  OBVIOUS
<1>3. PICK x \in T : \A y \in T : x <= y
  BY <1>1, <1>2, Minimum
<1>4. x - 1 \in 0 .. n - 1 /\ x - 1 \notin T
  BY <1>3
<1> QED BY <1>3, <1>4

\* The same from n down to 1.
LEMMA DownTo ==
  ASSUME NEW n \in Nat, NEW S, n \in S, \A k \in 2 .. n : k \in S => k - 1 \in S
  PROVE  1 .. n \subseteq S
<1> DEFINE T == {k \in 0 .. n : k < n => n - k \in S}
<1>1. 0 \in T
  OBVIOUS
<1>2. \A k \in 0 .. n - 1 : k \in T => k + 1 \in T
  <2> SUFFICES ASSUME NEW k \in 0 .. n - 1, k \in T, k + 1 < n
               PROVE  n - (k + 1) \in S
    OBVIOUS
  <2>1. n - k \in 2 .. n /\ n - k \in S /\ (n - k) - 1 = n - (k + 1)
    OBVIOUS
  <2> QED BY <2>1
<1>3. 0 .. n \subseteq T
  <2> HIDE DEF T
  <2> QED BY <1>1, <1>2, UpTo
<1> SUFFICES ASSUME NEW w \in 1 .. n PROVE w \in S
  OBVIOUS
<1>4. n - w \in T /\ n - w < n /\ n - (n - w) = w
  BY <1>3
<1> QED BY <1>4

\* Every natural is in a set that has 0 and, with a number, the next one.
LEMMA All ==
  ASSUME NEW S, 0 \in S, \A k \in Nat : k \in S => k + 1 \in S
  PROVE  Nat \subseteq S
<1> SUFFICES ASSUME NEW n \in Nat PROVE n \in S
  OBVIOUS
<1>1. 0 .. n \subseteq S
  BY UpTo
<1> QED BY <1>1

-----------------------------------------------------------------------------
\* The functions on 0 .. n with a first value c and the steps G.
Recursive(n, S, c, G) ==
  {h \in [0 .. n -> S] : h[0] = c /\ \A k \in 1 .. n : h[k] = G[k][h[k - 1]]}

\* There is one.
LEMMA Recursion ==
  ASSUME NEW n \in Nat, NEW S, NEW c \in S, NEW G,
         \A k \in 1 .. n, x \in S : G[k][x] \in S
  PROVE  Recursive(n, S, c, G) # {}
<1> DEFINE T == {m \in 0 .. n : \E h \in [0 .. m -> S] :
                   h[0] = c /\ \A k \in 1 .. m : h[k] = G[k][h[k - 1]]}
<1>1. 0 \in T
  <2> DEFINE h == [k \in 0 .. 0 |-> c]
  <2>1. h \in [0 .. 0 -> S] /\ h[0] = c /\ \A k \in 1 .. 0 : h[k] = G[k][h[k - 1]]
    OBVIOUS
  <2> HIDE DEF h
  <2> QED BY <2>1
<1>2. ASSUME NEW m \in 0 .. n - 1, m \in T PROVE m + 1 \in T
  <2>1. PICK h \in [0 .. m -> S] : h[0] = c /\ \A k \in 1 .. m : h[k] = G[k][h[k - 1]]
    BY <1>2
  <2> DEFINE g == [k \in 0 .. m + 1 |-> IF k = m + 1 THEN G[m + 1][h[m]] ELSE h[k]]
  <2>2. G[m + 1][h[m]] \in S
    BY <2>1, <1>2
  <2>3. g \in [0 .. m + 1 -> S] /\ g[0] = c
    BY <2>1, <2>2
  <2>4. ASSUME NEW k \in 1 .. m + 1 PROVE g[k] = G[k][g[k - 1]]
    BY <2>1
  <2> HIDE DEF g
  <2> QED BY <2>3, <2>4
<1>3. 0 .. n \subseteq T
  <2> HIDE DEF T
  <2> QED BY <1>1, <1>2, UpTo
<1> QED BY <1>3 DEF Recursive

\* The same on 1 .. n, with the last value given.
RecursiveDown(n, S, c, G) ==
  {h \in [1 .. n -> S] : h[n] = c /\ \A k \in 1 .. n - 1 : h[k] = G[k][h[k + 1]]}

LEMMA RecursionDown ==
  ASSUME NEW n \in Nat \ {0}, NEW S, NEW c \in S, NEW G,
         \A k \in 1 .. n - 1, x \in S : G[k][x] \in S
  PROVE  RecursiveDown(n, S, c, G) # {}
<1> DEFINE F == [k \in 1 .. n - 1 |-> G[n - k]]
<1>1. \A k \in 1 .. n - 1 : n - k \in 1 .. n - 1 /\ F[k] = G[n - k]
  OBVIOUS
<1> HIDE DEF F
<1>2. PICK h \in [0 .. n - 1 -> S] : h[0] = c /\ \A k \in 1 .. n - 1 : h[k] = F[k][h[k - 1]]
  <2> DEFINE m == n - 1
  <2>1. m \in Nat
    OBVIOUS
  <2>2. \A k \in 1 .. m, x \in S : F[k][x] \in S
    BY <1>1
  <2> HIDE DEF m
  <2>3. Recursive(m, S, c, F) # {}
    BY <2>1, <2>2, Recursion
  <2> QED BY <2>3 DEF m, Recursive
<1> DEFINE g == [k \in 1 .. n |-> h[n - k]]
<1>3. g \in [1 .. n -> S] /\ g[n] = c
  BY <1>2
<1>4. ASSUME NEW k \in 1 .. n - 1 PROVE g[k] = G[k][g[k + 1]]
  <2>1. n - k \in 1 .. n - 1 /\ n - (n - k) = k /\ (n - k) - 1 = n - (k + 1)
    OBVIOUS
  <2>2. h[n - k] = F[n - k][h[n - (k + 1)]]
    BY <1>2, <2>1
  <2>3. h[n - (k + 1)] \in S
    BY <1>2, <2>1
  <2>4. F[n - k][h[n - (k + 1)]] = G[k][h[n - (k + 1)]]
    BY <1>1, <2>1
  <2> QED BY <2>2, <2>4
<1> HIDE DEF g
<1> QED BY <1>3, <1>4 DEF RecursiveDown

-----------------------------------------------------------------------------
\* The functions on D that have the value c on the set A, and elsewhere one that
\* G makes from the value at a smaller element p[n]; on an initial part of D.
Followed(D, A, p, S, c, G, h) ==
  /\ h \in [D -> S]
  /\ \A n \in D : h[n] = IF n \in A THEN c ELSE G[n][h[p[n]]]

Initial(D, m) == {n \in D : n <= m}

\* Two of them agree where both are defined.
LEMMA FollowedOnce ==
  ASSUME NEW D \in SUBSET Nat, NEW A, NEW p, NEW S, NEW c, NEW G,
         \A n \in D \ A : p[n] \in D /\ p[n] < n,
         NEW m1 \in Nat, NEW m2 \in Nat, m1 <= m2, NEW h1, NEW h2,
         Followed(Initial(D, m1), A, p, S, c, G, h1),
         Followed(Initial(D, m2), A, p, S, c, G, h2)
  PROVE  \A n \in Initial(D, m1) : h1[n] = h2[n]
<1> DEFINE T == {n \in Initial(D, m1) : h1[n] # h2[n]}
<1>1. SUFFICES ASSUME T # {} PROVE FALSE
  OBVIOUS
<1>2. T \in SUBSET Nat
  BY DEF Initial
<1>3. PICK x \in T : \A y \in T : x <= y
  BY <1>1, <1>2, Minimum
<1>4. x \in D /\ x \in Nat /\ x <= m1 /\ x <= m2
  BY <1>3 DEF Initial
<1>5. x \in Initial(D, m1) /\ x \in Initial(D, m2)
  BY <1>4 DEF Initial
<1>6. /\ h1[x] = IF x \in A THEN c ELSE G[x][h1[p[x]]]
      /\ h2[x] = IF x \in A THEN c ELSE G[x][h2[p[x]]]
  BY <1>5 DEF Followed
<1>7. x \notin A
  BY <1>3, <1>6
<1>8. p[x] \in D /\ p[x] < x /\ p[x] \in Nat
  BY <1>4, <1>7
<1>9. p[x] \in Initial(D, m1)
  BY <1>4, <1>8 DEF Initial
<1>10. h1[p[x]] = h2[p[x]]
  <2>1. ~(x <= p[x])
    BY <1>4, <1>8
  <2> QED BY <1>3, <1>9, <2>1
<1> QED BY <1>3, <1>6, <1>7, <1>10

LEMMA FollowedPart ==
  ASSUME NEW D \in SUBSET Nat, NEW A, NEW p, NEW S, NEW c \in S, NEW G,
         \A n \in D \ A : p[n] \in D /\ p[n] < n,
         \A n \in D, x \in S : G[n][x] \in S,
         NEW m \in Nat
  PROVE  \E h : Followed(Initial(D, m), A, p, S, c, G, h)
<1> DEFINE T == {l \in Nat : \E h : Followed(Initial(D, l), A, p, S, c, G, h)}
<1>1. 0 \in T
  <2> DEFINE h == [n \in Initial(D, 0) |-> c]
  <2>1. ASSUME NEW n \in Initial(D, 0), n \notin A PROVE FALSE
    <3>1. n \in D /\ n \in Nat /\ n <= 0
      BY DEF Initial
    <3>2. p[n] \in D /\ p[n] < n /\ p[n] \in Nat
      BY <2>1, <3>1
    <3> QED BY <3>1, <3>2
  <2>2. Followed(Initial(D, 0), A, p, S, c, G, h)
    BY <2>1 DEF Followed
  <2> QED BY <2>2
<1>2. ASSUME NEW l \in Nat, l \in T PROVE l + 1 \in T
  <2>1. PICK h : Followed(Initial(D, l), A, p, S, c, G, h)
    BY <1>2
  <2> DEFINE g == [n \in Initial(D, l + 1) |->
                     IF n <= l THEN h[n] ELSE IF n \in A THEN c ELSE G[n][h[p[n]]]]
  <2>2. \A n \in Initial(D, l + 1) \ A :
          n \in D /\ n \in Nat /\ p[n] \in Initial(D, l) /\ p[n] \in Initial(D, l + 1) /\ p[n] <= l
    <3> TAKE n \in Initial(D, l + 1) \ A
    <3>1. n \in D \ A /\ n \in Nat /\ n <= l + 1
      BY DEF Initial
    <3>2. p[n] \in D /\ p[n] < n /\ p[n] \in Nat
      BY <3>1
    <3> QED BY <3>1, <3>2 DEF Initial
  <2>3. \A n \in Initial(D, l + 1) : n <= l => n \in Initial(D, l)
    BY DEF Initial
  <2>4. \A n \in Initial(D, l + 1) \ A : g[p[n]] = h[p[n]]
    BY <2>2
  <2>5. ASSUME NEW n \in Initial(D, l + 1)
        PROVE  g[n] \in S /\ g[n] = IF n \in A THEN c ELSE G[n][g[p[n]]]
    <3>1. CASE n <= l
      <4>1. n \in Initial(D, l) /\ g[n] = h[n]
        BY <2>3, <3>1
      <4>2. h[n] \in S /\ h[n] = IF n \in A THEN c ELSE G[n][h[p[n]]]
        BY <2>1, <4>1 DEF Followed
      <4> HIDE DEF g
      <4> QED BY <2>4, <4>1, <4>2
    <3>2. CASE ~(n <= l)
      <4>1. g[n] = IF n \in A THEN c ELSE G[n][h[p[n]]]
        BY <3>2
      <4>2. n \notin A => h[p[n]] \in S /\ n \in D
        BY <2>1, <2>2 DEF Followed
      <4> HIDE DEF g
      <4> QED BY <2>4, <4>1, <4>2
    <3> QED BY <3>1, <3>2
  <2>6. g = [n \in Initial(D, l + 1) |-> g[n]]
    OBVIOUS
  <2> HIDE DEF g
  <2>7. Followed(Initial(D, l + 1), A, p, S, c, G, g)
    BY <2>5, <2>6 DEF Followed
  <2> QED BY <2>7
<1>3. Nat \subseteq T
  <2> HIDE DEF T
  <2> QED BY <1>1, <1>2, All
<1> QED BY <1>3

\* There is one on the whole of D, for a p that leads down to A.
LEMMA FollowedOnAll ==
  ASSUME NEW D \in SUBSET Nat, NEW A, NEW p, NEW S, NEW c \in S, NEW G,
         \A n \in D \ A : p[n] \in D /\ p[n] < n,
         \A n \in D, x \in S : G[n][x] \in S
  PROVE  \E h : Followed(D, A, p, S, c, G, h)
<1> DEFINE f == [n \in D |-> CHOOSE h : Followed(Initial(D, n), A, p, S, c, G, h)]
           h == [n \in D |-> f[n][n]]
<1>1. \A n \in D : Followed(Initial(D, n), A, p, S, c, G, f[n])
  <2> TAKE n \in D
  <2>1. \E g : Followed(Initial(D, n), A, p, S, c, G, g)
    BY FollowedPart
  <2> QED BY <2>1
<1> HIDE DEF f
<1>2. ASSUME NEW n \in D PROVE h[n] \in S /\ h[n] = IF n \in A THEN c ELSE G[n][h[p[n]]]
  <2>1. n \in Nat /\ n \in Initial(D, n)
    <3>1. n \in Nat
      OBVIOUS
    <3> QED BY <3>1 DEF Initial
  <2>2. f[n][n] \in S /\ f[n][n] = IF n \in A THEN c ELSE G[n][f[n][p[n]]]
    BY <1>1, <2>1 DEF Followed
  <2>3. CASE n \in A
    BY <2>2, <2>3
  <2>4. CASE n \notin A
    <3>1. p[n] \in D /\ p[n] < n /\ p[n] \in Nat
      BY <2>4
    <3>2. p[n] <= n
      BY <2>1, <3>1
    <3>3. p[n] \in Initial(D, p[n])
      BY <3>1 DEF Initial
    <3>4. f[p[n]][p[n]] = f[n][p[n]]
      BY <1>1, <2>1, <3>1, <3>3, <3>2, FollowedOnce
    <3> QED BY <2>2, <2>4, <3>1, <3>4
  <2> QED BY <2>3, <2>4
<1>3. h = [n \in D |-> h[n]]
  OBVIOUS
<1> HIDE DEF h
<1> QED BY <1>2, <1>3 DEF Followed
=============================================================================
