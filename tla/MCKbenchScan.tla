---------------------------- MODULE MCKbenchScan ----------------------------
(***************************************************************************)
(* Addresses of three words of six values each.                            *)
(***************************************************************************)
EXTENDS KbenchScan

MCN == 3
MCB == 6

\* All ranges whose words are 0, 2 or 5, or 1 in the last one, also those in which
\* a word borrows.
Some == {a \in [1 .. MCN -> {0, 1, 2, MCB - 1}] : \A w \in 1 .. MCN - 1 : a[w] # 1}
All  == Some \X Some

\* The like of 2000::/3.
Default == {<<<<0, 0, 0>>, <<1, MCB - 1, MCB - 1>>>>}

AnyLong == {1, 2}
Wider   == {2}
=============================================================================
