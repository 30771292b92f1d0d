------------------------------ MODULE LinearScan ------------------------------
(***************************************************************************)
(* What the benchmark of kbench_mod.c promises of its lookups: addresses   *)
(* are numbers, and a scan goes from one end of a range to the other in    *)
(* equal steps, then over again from somewhere in the first step.          *)
(***************************************************************************)
EXTENDS Integers

CONSTANT Loop  \* loop_count, the number of lookups to do

VARIABLES
  first,  \* the start of the range
  last,   \* its end
  pos,    \* the address to look up
  done    \* lookups so far

vars == <<first, last, pos, done>>

\* A scan in Loop steps, each of one address at least.
Stride ==
  LET step == (last - first) \div Loop
  IN IF first = last THEN 0 ELSE IF step = 0 THEN 1 ELSE step

Init ==
  /\ first \in Nat /\ last \in Nat /\ first <= last
  /\ pos = first
  /\ done = 0

Advance ==
  /\ pos + Stride <= last
  /\ pos' = pos + Stride

Restart ==
  /\ pos + Stride > last
  /\ pos' \in first .. first + Stride

Next ==
  /\ Advance \/ Restart
  /\ done' = done + 1
  /\ UNCHANGED <<first, last>>

Spec == Init /\ [][Next]_vars
=============================================================================
