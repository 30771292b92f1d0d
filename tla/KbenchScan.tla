------------------------------ MODULE KbenchScan ------------------------------
(***************************************************************************)
(* The scan of do_bench in lab-routes-ipv6/2026/kbench_mod.c: an IPv6      *)
(* address is four words, and the step of the scan, its division by the    *)
(* number of lookups, the addition and the comparison go word by word.     *)
(*                                                                         *)
(* Word 1 is the most significant one.  What a restart adds may be any     *)
(* address whose words are at most those of the step.  A range that ends   *)
(* before its start is left out: the code then reads a flag that it never  *)
(* set.                                                                    *)
(***************************************************************************)
EXTENDS Integers

CONSTANTS
  N,           \* words of an address: 4
  B,           \* values of a word: 2^32
  Loop,        \* loop_count
  MaxLoop,     \* max_loop_count
  Longs,       \* words in an unsigned long: 1 or 2, as the kernel has 32 or 64 bits
  Ranges       \* pairs <<flow_dst_ipaddr_s, flow_dst_ipaddr_e>>

ASSUME ScanAssumption ==
  /\ N \in Nat \ {0} /\ B \in Nat \ {0, 1}
  /\ Loop \in Nat \ {0} /\ MaxLoop \in Nat \ {0}
  /\ Longs \subseteq {1, 2}
  /\ Ranges \subseteq [1 .. N -> 0 .. B - 1] \X [1 .. N -> 0 .. B - 1]

VARIABLES
  long,    \* words in an unsigned long
  range,   \* the range of the scan
  delta,   \* the step of the scan
  scan,    \* whether there is one
  daddr,   \* the address to look up
  i,       \* lookups so far
  total    \* lookups with a match so far

vars == <<long, range, delta, scan, daddr, i, total>>

Word    == 0 .. B - 1
Address == [1 .. N -> Word]
Zero    == [w \in 1 .. N |-> 0]

Start == range[1]
End   == range[2]

\* The first words of an address as a number, and all of them.
Numbers(a) ==
  LET upTo[w \in 0 .. N] == IF w = 0 THEN 0 ELSE upTo[w - 1] * B + a[w]
  IN upTo

Linear(a) == Numbers(a)[N]

-----------------------------------------------------------------------------
\* The borrow into word w, from the words on its right.
Borrow(s, e) ==
  LET from[w \in 1 .. N] ==
        IF w = N THEN 0 ELSE IF s[w + 1] + from[w + 1] <= e[w + 1] THEN 0 ELSE 1
  IN from

\* A word of the difference.  One that borrows is subtracted backwards.
Difference(s, e) ==
  LET b == Borrow(s, e)
  IN [w \in 1 .. N |->
        IF s[w] + b[w] <= e[w] THEN e[w] - s[w] - b[w] ELSE (s[w] + b[w] - e[w]) % B]

\* Mutant of Divide: each word on its own.
DivideWords(d) == [w \in 1 .. N |-> d[w] \div Loop]

\* Long division by loop_count: the remainders of its words, and the quotient.
Remainder(d) ==
  LET rem[w \in 0 .. N] == IF w = 0 THEN 0 ELSE (d[w] + rem[w - 1] * B) % Loop
  IN rem

Divide(d) == [w \in 1 .. N |-> (d[w] + Remainder(d)[w - 1] * B) \div Loop]

\* Mutant of Step: a range with less addresses than lookups has no step.
StepPlain(s, e) == Divide(Difference(s, e))

\* The step of a scan from s to e, of one address at least.
Step(s, e) ==
  LET d == Divide(Difference(s, e))
  IN IF d = Zero THEN [Zero EXCEPT ![N] = 1] ELSE d

\* Mutant of Plus: a word is not reduced.
PlusWide(a, b) == [w \in 1 .. N |-> a[w] + b[w]]

ULONG_MAX == IF long = 1 THEN B - 1 ELSE B * B - 1

\* Word by word, from the last one.  The carry out of a word is computed first
\* and added to that word, not to the next, which only takes it into account
\* to compute its own.  There is none if unsigned long is wider than a word.
Carry(a, b) ==
  LET carry[w \in 1 .. N + 1] ==
        IF w <= N /\ a[w] + b[w] + carry[w + 1] > ULONG_MAX THEN 1 ELSE 0
  IN carry

Plus(a, b) == [w \in 1 .. N |-> (a[w] + b[w] + Carry(a, b)[w]) % B]

\* Mutant of Beyond: the first word alone is compared.
BeyondPrefix(a, e) == a[1] > e[1]

\* The nested comparison of the four words.
Beyond(a, e) ==
  \E w \in 1 .. N : a[w] > e[w] /\ \A v \in 1 .. w - 1 : a[v] = e[v]

\* What is added to the start of the range: the step under a mask of bits.
Masked(d) == {m \in Address : \A w \in 1 .. N : m[w] <= d[w]}

-----------------------------------------------------------------------------
TypeOK ==
  /\ long \in Longs
  /\ range \in Ranges
  /\ delta \in Address /\ daddr \in Address
  /\ scan \in BOOLEAN
  /\ i \in 0 .. MaxLoop /\ total \in 0 .. Loop
  /\ total <= i

\* The first lookup comes after a first step.  An empty range leaves the flag
\* as the stack had it, with a step of nothing.
Init ==
  /\ long \in Longs
  /\ range \in Ranges
  /\ Linear(Start) <= Linear(End)
  /\ IF Start = End
       THEN scan \in BOOLEAN /\ delta = Zero
       ELSE scan = TRUE /\ delta = Step(Start, End)
  /\ daddr = Start
  /\ i = 0 /\ total = 0

Running == i < MaxLoop /\ total < Loop

\* The lookup of the address: counted only if there is a route.
Lookup ==
  /\ i' = i + 1
  /\ total' \in {total, total + 1}
  /\ UNCHANGED <<long, range, delta, scan>>

\* Without a scan all lookups are of the same address.
Same == Running /\ ~scan /\ UNCHANGED daddr /\ Lookup

Advance ==
  /\ Running /\ scan
  /\ ~Beyond(Plus(daddr, delta), End)
  /\ daddr' = Plus(daddr, delta)
  /\ Lookup

Restart ==
  /\ Running /\ scan
  /\ Beyond(Plus(daddr, delta), End)
  /\ \E m \in Masked(delta) : daddr' = Plus(Start, m)
  /\ Lookup

Done == ~Running /\ UNCHANGED vars

Next == Same \/ Advance \/ Restart \/ Done

Spec == Init /\ [][Next]_vars

-----------------------------------------------------------------------------
(* Properties *)

Lin == INSTANCE LinearScan WITH
  first <- Linear(Start), last <- Linear(End), pos <- Linear(daddr), done <- i

\* No word borrows.
Ordered == \A w \in 1 .. N : Start[w] <= End[w]

\* The range starts at a prefix, as 2000::/3 and 2400::-2a07:: do, and does not
\* end among the last addresses, where a step leads to :: again.
Prefixed ==
  /\ \A w \in 2 .. N : Start[w] = 0
  /\ End[1] + (End[1] - Start[1]) \div Loop + 1 < B

\* In no number of equal steps that fits into the range does a word exceed its
\* limit, nor in the two that may follow: one from a restart, one that is tried.
CarryFree ==
  /\ Ordered
  /\ \E d \in Address :
       /\ Linear(d) = Lin!Stride
       /\ \A k \in 0 .. Linear(End) - Linear(Start), w \in 1 .. N :
            Linear(Start) + k * Lin!Stride <= Linear(End) => Start[w] + (k + 2) * d[w] < B

\* No lookup is outside the range that was asked for.
InRange ==
  Prefixed \/ CarryFree => Linear(Start) <= Linear(daddr) /\ Linear(daddr) <= Linear(End)

\* The subtraction and the long division of the words give the step that the
\* numbers have, on every range that needs no borrow.
StepIsExact == scan /\ Start # End /\ Ordered => Linear(delta) = Lin!Stride

\* Where no sum of words overflows, the words make the numbers of LinearScan:
\* the same step, the same restarts, and every lookup counted.
LinearStep        == CarryFree => Lin!Next
LinearIfCarryFree == Lin!Init /\ [][LinearStep]_(Lin!vars)

\* kbench_mod.c:4, "By default, a scan is done in 2000::/3 (considered as a
\* linear space)": the words make the numbers of LinearScan.
ImplementsLinearScan == Lin!Spec
=============================================================================
