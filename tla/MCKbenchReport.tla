---------------------------- MODULE MCKbenchReport ----------------------------
(***************************************************************************)
(* Every report of at most three samples, of nineteen to twenty-one        *)
(* samples of three values (the percentiles are among the samples from     *)
(* twenty on), and of one sample with every tree on eight nodes: the root  *)
(* has both children and a subtree, its left child as well, and the        *)
(* subtree of the root has a right child.                                  *)
(***************************************************************************)
EXTENDS KbenchReport

Values == {0, 1, 9, 75, 200}

Few == {s \in UNION {[1 .. n -> Values] : n \in 0 .. 3} :
          \A a, b \in DOMAIN s : a <= b => s[a] <= s[b]}

\* So many times 3, then so many times 40, then 120.
Many == {[a \in 1 .. n |-> IF a <= low THEN 3 ELSE IF a <= mid THEN 40 ELSE 120] :
           n \in 19 .. 21, low \in {0, 1, 5, 10, 11, 18}, mid \in {5, 11, 18, 19, 20, 21}}

MCSamples == Few \cup Many
MCAnyTree == {<<9>>}
MCBeyond  == {0, 20000}
MCNodes   == {1, 2, 3, 4, 5, 6, 7, 12}
MCLimit   == 2 ^ 16
=============================================================================
