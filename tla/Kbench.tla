-------------------------------- MODULE Kbench --------------------------------
(***************************************************************************)
(* The lookup benchmark of a host: the IPv4 or the IPv6 module.  Both make *)
(* the directory /sys/kernel/kbench, so that only one of them is loaded.   *)
(***************************************************************************)
EXTENDS Kbench4, Kbench6

CONSTANT Versions  \* the modules: "ipv4", "ipv6"

ASSUME VersionsAssumption == Versions \subseteq {"ipv4", "ipv6"}

VARIABLE version   \* the one that was built

vars == <<version, kbench>>

Init == SysfsInit /\ version \in Versions

BenchIpv4 == version = "ipv4" /\ Next4
BenchIpv6 == version = "ipv6" /\ Next6

Next == (BenchIpv4 \/ BenchIpv6) /\ UNCHANGED version

Progress(t) ==
  /\ \/ version = "ipv4" /\ Progress4(t)
     \/ version = "ipv6" /\ Progress6(t)
  /\ UNCHANGED version

Spec == Init /\ [][Next]_vars

\* The threads are scheduled.  The mutex is handed over to those that wait for
\* it: a thread that can have it again and again gets it, hence SF.
FairSpec ==
  /\ Spec
  /\ WF_vars(PutKobject /\ UNCHANGED version)
  /\ \A t \in Threads : SF_vars(Progress(t))

-----------------------------------------------------------------------------
(* Properties *)

\* The buffers are large enough, as long as nobody raises loop_count between
\* the allocations of an IPv6 benchmark and its mutex.
BuffersFit ==
  /\ version = "ipv4" => BuffersFit4
  /\ version = "ipv6" => BuffersFit6

\* A sample is made of as many lookups as the report says.
SamplesAreWhole ==
  /\ version = "ipv4" => SamplesAreWhole4
  /\ version = "ipv6" => SamplesAreWhole6

\* On an IPv4 range that ascends, every lookup is in it.
InRange == version = "ipv4" => InRange4

\* The mutex is held by the one thread that looks IPv6 addresses up.
MutexHeld == version = "ipv6" => MutexHeld6

\* While an IPv6 benchmark looks addresses up no parameter changes: the step of
\* its scan was computed from those that it reads again for every lookup.  The
\* mutex keeps the other files out, and the unload, after which the module could
\* be loaded anew with its defaults, waits for the benchmark.
ParametersStay ==
  [][version = "ipv6" /\ (\E t \in Threads : InBench6(t)) => UNCHANGED param]_vars

\* Every call of a file ends, unless the kernel faults in it.
CallsEnd ==
  \A t \in Threads : at[t] # "idle" ~> at[t] \in {"idle", "oops"}

\* Unloading ends, unless a thread was lost in a handler.
UnloadEnds ==
  module = "leaving" ~> module = "out" \/ \E t \in Threads : at[t] = "oops"
=============================================================================
