----------------------------- MODULE Hysteresis -----------------------------
(***************************************************************************)
(* What lab-exabgp/healthcheck.py promises to the network: the service is  *)
(* announced as up after Rise consecutive successes, as down after Fall    *)
(* consecutive failures, as disabled while it is disabled, and what is     *)
(* announced stays the same in between.  There is no state machine here:   *)
(* each turn sees one result, counts it, and announces what the counts     *)
(* amount to.                                                              *)
(***************************************************************************)
EXTENDS Integers

CONSTANTS
  Rise,  \* --rise
  Fall   \* --fall

VARIABLES
  seen,    \* the result of the turn: nothing yet, one of Results, or counted
  ok,      \* how many checks succeeded in a row, up to what is needed
  ko,      \* how many checks failed in a row, up to what is needed
  paused,  \* checks do not count: the service is disabled, or was until now
  ann      \* what is announced

vars == <<seen, ok, ko, paused, ann>>

Results == {"success", "failure", "disabled"}

\* A threshold below one is met by a single result.
Need(n) == IF n <= 1 THEN 1 ELSE n

Capped(n, max) == IF n < max THEN n ELSE max

Init == seen = "nothing" /\ ok = 0 /\ ko = 0 /\ paused = FALSE /\ ann = "NONE"

See ==
  /\ seen = "nothing" /\ seen' \in Results
  /\ UNCHANGED <<ok, ko, paused, ann>>

\* Each result is counted once, as what it is.
Counted(result) == seen = result /\ seen' = "counted" /\ UNCHANGED ann

Succeed ==
  /\ Counted("success") /\ ~paused
  /\ ok' = Capped(ok + 1, Need(Rise))
  /\ ko' = 0
  /\ UNCHANGED paused

Fail ==
  /\ Counted("failure") /\ ~paused
  /\ ko' = Capped(ko + 1, Need(Fall))
  /\ ok' = 0
  /\ UNCHANGED paused

Disable ==
  /\ Counted("disabled")
  /\ ok' = 0 /\ ko' = 0
  /\ paused' = TRUE

\* The first check after that goes into neither count.
Resume ==
  /\ Counted("success") \/ Counted("failure")
  /\ paused /\ paused' = FALSE
  /\ UNCHANGED <<ok, ko>>

Verdict ==
  IF paused THEN "DISABLED"
  ELSE IF ok = Need(Rise) THEN "UP"
  ELSE IF ko = Need(Fall) THEN "DOWN"
  ELSE ann

Announce ==
  /\ seen = "counted" /\ seen' = "nothing"
  /\ ann' = Verdict
  /\ UNCHANGED <<ok, ko, paused>>

Next == See \/ Succeed \/ Fail \/ Disable \/ Resume \/ Announce

Spec == Init /\ [][Next]_vars
=============================================================================
