------------------------------- MODULE Kbench4 -------------------------------
(***************************************************************************)
(* The benchmark of IPv4 lookups, lab-routes-ipv4/kbench_mod.c.  do_bench  *)
(* copies the parameters and allocates its buffers under the mutex, and    *)
(* runs without it: several benchmarks may run, and parameters change,     *)
(* while it does.                                                          *)
(*                                                                         *)
(* Addresses are small numbers.  The sizes of the buffers are taken not to *)
(* wrap around.                                                            *)
(***************************************************************************)
EXTENDS KbenchSysfs

CONSTANTS
  Runners4,  \* threads that read run and run_verbose
  Loopback   \* the addresses of 127.0.0.0/8

ASSUME Runners4Assumption == Runners4 \subseteq Threads

-----------------------------------------------------------------------------
(* The files *)

FlowTos(t) == File(t, "flow_tos", Tos)

\* in_aton never fails: a text that is not an address is 0.0.0.0.
InAton(in) == IF in.form = "number" /\ in.val >= 0 THEN {in.val} ELSE {0}

FlowDstS4(t) == File(t, "flow_dst_ipaddr_s", InAton)
FlowDstE4(t) == File(t, "flow_dst_ipaddr_e", InAton)
FlowSrc4(t)  == File(t, "flow_src_ipaddr", InAton)

Files4(t) ==
  \/ WarmupCount(t) \/ LoopCount(t) \/ BatchCount(t)
  \/ FlowOif(t) \/ FlowIif(t) \/ FlowTos(t) \/ FlowMark(t)
  \/ FlowDstS4(t) \/ FlowDstE4(t) \/ FlowSrc4(t)
  \/ Shown(t) \/ Stored(t)

-----------------------------------------------------------------------------
(* do_bench *)

\* Mutant of Copied: results has no room for one more than the samples.
CopiedExact(s, e, flag) ==
  [NoLocals EXCEPT
     !.count = param["loop_count"], !.batch = param["batch_count"], !.start = s,
     !.delta = IF s < e THEN e - s ELSE 0,
     !.scan  = flag,
     !.size  = param["loop_count"] \div param["batch_count"]]

\* What is copied under the lock for a range from s to e.
Copied(s, e, flag) ==
  [NoLocals EXCEPT
     !.count = param["loop_count"], !.batch = param["batch_count"], !.start = s,
     !.delta = IF s < e THEN e - s ELSE 0,
     !.scan  = flag,
     !.size  = param["loop_count"] \div param["batch_count"] + 1]

Wanted4 == {"results"} \cup (IF param["batch_count"] > 1 THEN {"batched_fl"} ELSE {})

\* From the lock to the unlock.  The ends of the range are never swapped: the
\* difference of two unsigned values is not below zero.  scan is set only for
\* a range that ascends, and is otherwise what the stack had.  Any of the
\* allocations may fail.
Snapshot(t) ==
  /\ at[t] = "begin" /\ kb_lock = NoThread
  /\ \E flag \in BOOLEAN, got \in SUBSET Wanted4 :
       LET s == param["flow_dst_ipaddr_s"]
           e == param["flow_dst_ipaddr_e"]
       IN /\ s < e => flag
          /\ loc' = [loc EXCEPT ![t] = IF got = Wanted4 THEN Copied(s, e, flag) ELSE NoLocals]
          /\ heap' = [heap EXCEPT ![t] = got]
          /\ Goto(t, IF got = Wanted4 THEN "warmup" ELSE "nomem")
  /\ UNCHANGED <<sysfs, kb_lock, call>>

NoMemory4(t) ==
  /\ at[t] = "nomem"
  /\ Return(t, {"results", "batched_fl"})
  /\ UNCHANGED <<sysfs, kb_lock, call>>

\* Mutant of WarmupFails4: a buffer is forgotten on the way out.
WarmupLeaks(t) ==
  /\ at[t] = "warmup"
  /\ Return(t, {"results"})
  /\ UNCHANGED <<sysfs, kb_lock, call>>

\* A lookup gives an error that is neither ENETUNREACH nor ESRCH.
WarmupFails4(t) ==
  /\ at[t] = "warmup"
  /\ Return(t, {"results", "batched_fl"})
  /\ UNCHANGED <<sysfs, kb_lock, call>>

\* Mutant of Daddr: the scan of a short range does not start over.
DaddrOnce(l) ==
  IF l.delta < l.count THEN l.start + l.i ELSE l.start + ((l.delta \div l.count) * l.i)

\* The address of lookup i: the whole range in a loop if it has less addresses
\* than there are lookups, else equal steps.
Daddr(l) ==
  IF l.delta < l.count THEN l.start + (l.i % l.delta) ELSE l.start + ((l.delta \div l.count) * l.i)

Looping4(t) == at[t] = "loop" /\ loc[t].i < loc[t].count

\* A remainder of a division by an empty range, if scan happens to be set.
DivideError(t) ==
  /\ Looping4(t) /\ loc[t].scan /\ loc[t].delta = 0
  /\ Oops(t)
  /\ UNCHANGED <<sysfs, kb_lock, call>>

SkipLoopback(t) ==
  /\ Looping4(t) /\ loc[t].scan /\ loc[t].delta > 0 /\ Daddr(loc[t]) \in Loopback
  /\ loc' = [loc EXCEPT ![t].i = @ + 1]
  /\ UNCHANGED <<sysfs, kb_lock, at, call, heap>>

LooksUp(t) ==
  /\ Looping4(t)
  /\ loc[t].scan => loc[t].delta > 0 /\ Daddr(loc[t]) \notin Loopback
  /\ UNCHANGED <<sysfs, kb_lock, at, call, heap>>

\* A sample is counted (1), or dropped (0) because it found no route.
Single(t) ==
  /\ LooksUp(t) /\ loc[t].batch <= 1
  /\ \E counted \in {0, 1} :
       loc' = [loc EXCEPT ![t].i = @ + 1, ![t].total = @ + counted]

Collect(t) ==
  /\ LooksUp(t) /\ loc[t].batch > 1 /\ loc[t].j + 1 # loc[t].batch
  /\ loc' = [loc EXCEPT ![t].i = @ + 1, ![t].j = @ + 1]

\* The last address of a batch: the batch is timed, and counted unless one of
\* its addresses has no route.
TimeBatch4(t) ==
  /\ LooksUp(t) /\ loc[t].batch > 1 /\ loc[t].j + 1 = loc[t].batch
  /\ \E counted \in {0, 1} :
       loc' = [loc EXCEPT ![t].i = @ + 1, ![t].total = @ + counted, ![t].j = 0]

LoopEnds4(t) ==
  /\ at[t] = "loop" /\ loc[t].i >= loc[t].count
  /\ Goto(t, "stats")
  /\ UNCHANGED <<sysfs, kb_lock, call, heap, loc>>

\* display_statistics, then the return.
Statistics4(t) ==
  /\ at[t] = "stats"
  /\ Return(t, {"results", "batched_fl"})
  /\ UNCHANGED <<sysfs, kb_lock, call>>

Bench4(t) ==
  \/ Snapshot(t) \/ NoMemory4(t) \/ WarmedUp(t) \/ WarmupFails4(t)
  \/ DivideError(t) \/ SkipLoopback(t) \/ Single(t) \/ Collect(t) \/ TimeBatch4(t)
  \/ LoopEnds4(t) \/ Statistics4(t) \/ MadFails(t)

Next4 ==
  \/ Load
  \/ \E t \in Writers : Files4(t)
  \/ \E t \in Runners4 : Run(t) \/ Bench4(t)

\* What a thread that is in the module does next.
Progress4(t) == Shown(t) \/ Stored(t) \/ Bench4(t)

-----------------------------------------------------------------------------
(* Properties *)

InBench4(t) == at[t] \in {"warmup", "loop", "stats"}

\* No sample is written after the end of results, of which percentile may read
\* one more than there are samples, nor a flow after the end of batched_fl4,
\* whatever other threads write to the parameters meanwhile.
BuffersFit4 ==
  \A t \in Threads : InBench4(t) =>
    /\ loc[t].total < loc[t].size
    /\ loc[t].batch > 1 => loc[t].j < loc[t].batch

\* A sample is made of as many lookups as the report says (total * batch).
SamplesAreWhole4 ==
  \A t \in Threads : InBench4(t) =>
    loc[t].total * loc[t].batch + (IF loc[t].batch > 1 THEN loc[t].j ELSE 0) <= loc[t].i

\* On a range that ascends, every lookup is in it.
InRange4 ==
  \A t \in Threads : Looping4(t) /\ loc[t].delta > 0 =>
    Daddr(loc[t]) \in loc[t].start .. loc[t].start + loc[t].delta - 1
=============================================================================
