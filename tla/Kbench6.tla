------------------------------- MODULE Kbench6 -------------------------------
(***************************************************************************)
(* The benchmark of IPv6 lookups, lab-routes-ipv6/2026/kbench_mod.c (the   *)
(* older lab-routes-ipv6/kbench_mod.c is the same without batches).        *)
(* do_bench reads batch_count and allocates its buffers, whose sizes are   *)
(* those of loop_count at that time, before it takes the mutex.  It then   *)
(* keeps the mutex until all lookups are done, and reads loop_count again. *)
(*                                                                         *)
(* The addresses are those of KbenchScan.  Every lookup gives its route    *)
(* back.                                                                   *)
(***************************************************************************)
EXTENDS KbenchSysfs

CONSTANT Runners6  \* threads that read run and run_verbose

ASSUME Runners6Assumption == Runners6 \subseteq Threads

-----------------------------------------------------------------------------
(* The files *)

MaxLoopCount(t) == File(t, "max_loop_count", Count)
FlowLabel(t)    == File(t, "flow_label", Word)
FlowDstS6(t)    == File(t, "flow_dst_ipaddr_s", Address)
FlowDstE6(t)    == File(t, "flow_dst_ipaddr_e", Address)
FlowSrc6(t)     == File(t, "flow_src_ipaddr", Address)

Files6(t) ==
  \/ WarmupCount(t) \/ LoopCount(t) \/ MaxLoopCount(t) \/ BatchCount(t)
  \/ FlowOif(t) \/ FlowIif(t) \/ FlowLabel(t) \/ FlowMark(t)
  \/ FlowDstS6(t) \/ FlowDstE6(t) \/ FlowSrc6(t)
  \/ Shown(t) \/ Stored(t)

-----------------------------------------------------------------------------
(* do_bench *)

ReadBatch(t) ==
  /\ at[t] = "begin"
  /\ loc' = [loc EXCEPT ![t].batch = param["batch_count"]]
  /\ Goto(t, "results")
  /\ UNCHANGED <<sysfs, kb_lock, call, heap>>

AllocResults(t) ==
  /\ at[t] = "results"
  /\ loc' = [loc EXCEPT ![t].size = param["loop_count"]]
  /\ \E got \in SUBSET {"results"} : heap' = [heap EXCEPT ![t] = got]
  /\ Goto(t, "addrs")
  /\ UNCHANGED <<sysfs, kb_lock, call>>

Wanted6(t) ==
  {"results"} \cup (IF loc[t].batch > 1 THEN {"addrs", "batched_fl", "batched_dst"} ELSE {})

\* loop_count is read once more for addrs.
AllocBatch(t) ==
  /\ at[t] = "addrs"
  /\ \E got \in SUBSET (Wanted6(t) \ {"results"}) :
       /\ heap' = [heap EXCEPT ![t] = @ \cup got]
       /\ IF heap[t] \cup got = Wanted6(t)
            THEN /\ Goto(t, "lock")
                 /\ loc' = [loc EXCEPT ![t].room = IF loc[t].batch > 1 THEN param["loop_count"] ELSE 0]
            ELSE /\ Goto(t, "nomem")
                 /\ loc' = [loc EXCEPT ![t] = NoLocals]
  /\ UNCHANGED <<sysfs, kb_lock, call>>

NoMemory6(t) ==
  /\ at[t] = "nomem"
  /\ Return(t, Buffers)
  /\ UNCHANGED <<sysfs, kb_lock, call>>

Lock(t) ==
  /\ at[t] = "lock" /\ kb_lock = NoThread
  /\ kb_lock' = t
  /\ Goto(t, "warmup")
  /\ UNCHANGED <<sysfs, call, heap, loc>>

\* Mutant of WarmupFails6: the way out on an error does not unlock.
WarmupKeepsLock(t) ==
  /\ at[t] = "warmup"
  /\ Return(t, Buffers)
  /\ UNCHANGED <<sysfs, kb_lock, call>>

\* A lookup gives an error other than ENETUNREACH.
WarmupFails6(t) ==
  /\ at[t] = "warmup"
  /\ kb_lock' = NoThread
  /\ Return(t, Buffers)
  /\ UNCHANGED <<sysfs, call>>

Looping6(t) ==
  /\ at[t] = "loop"
  /\ loc[t].i < param["max_loop_count"] /\ loc[t].total < param["loop_count"]

\* A lookup, timed (or only noted, if there are batches) when there is a route.
Lookup(t) ==
  /\ Looping6(t)
  /\ \E match \in {0, 1} :
       loc' = [loc EXCEPT ![t].i = @ + 1, ![t].total = @ + match]
  /\ UNCHANGED <<sysfs, kb_lock, at, call, heap>>

\* Mutant of LoopEnds6: the batches are timed without the mutex.
LoopEndsUnlocked(t) ==
  /\ at[t] = "loop" /\ ~Looping6(t)
  /\ kb_lock' = NoThread
  /\ Goto(t, IF loc[t].batch > 1 THEN "batch" ELSE "unlock")
  /\ UNCHANGED <<sysfs, call, heap, loc>>

LoopEnds6(t) ==
  /\ at[t] = "loop" /\ ~Looping6(t)
  /\ Goto(t, IF loc[t].batch > 1 THEN "batch" ELSE "unlock")
  /\ UNCHANGED <<sysfs, kb_lock, call, heap, loc>>

\* Mutant of Batched: the last batch may be short of addresses.
BatchedPast(t) == loc[t].j < loc[t].total

\* There are addresses left for a whole batch.
Batched(t) == loc[t].j + loc[t].batch <= loc[t].total

TimeBatch6(t) ==
  /\ at[t] = "batch" /\ Batched(t)
  /\ loc' = [loc EXCEPT ![t].j = @ + loc[t].batch, ![t].n = @ + 1]
  /\ UNCHANGED <<sysfs, kb_lock, at, call, heap>>

BatchesEnd(t) ==
  /\ at[t] = "batch" /\ ~Batched(t)
  /\ loc' = [loc EXCEPT ![t].total = loc[t].n]
  /\ Goto(t, "unlock")
  /\ UNCHANGED <<sysfs, kb_lock, call, heap>>

Unlock(t) ==
  /\ at[t] = "unlock"
  /\ kb_lock' = NoThread
  /\ heap' = [heap EXCEPT ![t] = @ \ {"addrs", "batched_fl", "batched_dst"}]
  /\ Goto(t, "stats")
  /\ UNCHANGED <<sysfs, call, loc>>

Statistics6(t) ==
  /\ at[t] = "stats"
  /\ Return(t, {"results"})
  /\ UNCHANGED <<sysfs, kb_lock, call>>

Bench6(t) ==
  \/ ReadBatch(t) \/ AllocResults(t) \/ AllocBatch(t) \/ NoMemory6(t)
  \/ Lock(t) \/ WarmedUp(t) \/ WarmupFails6(t) \/ Lookup(t) \/ LoopEnds6(t)
  \/ TimeBatch6(t) \/ BatchesEnd(t) \/ Unlock(t) \/ Statistics6(t) \/ MadFails(t)

Next6 ==
  \/ Load
  \/ \E t \in Writers : Files6(t)
  \/ \E t \in Runners6 : Run(t) \/ Bench6(t)

\* What a thread that is in the module does next.
Progress6(t) == Shown(t) \/ Stored(t) \/ Bench6(t)

-----------------------------------------------------------------------------
(* Properties *)

\* The mutex is held by the one thread that looks addresses up.
InBench6(t) == at[t] \in {"warmup", "loop", "batch", "unlock"}

MutexHeld6 == \A t \in Threads : kb_lock = t <=> InBench6(t)

\* No sample is written after the end of results and no address after that of
\* addrs, unless loop_count was raised after they were allocated and before
\* the mutex was taken.
BuffersFit6 ==
  \A t \in Threads : InBench6(t) =>
    LET l == loc[t] IN
    /\ param["loop_count"] <= l.size => (IF l.batch > 1 THEN l.n ELSE l.total) <= l.size
    /\ l.batch > 1 /\ param["loop_count"] <= l.room => l.total <= l.room

\* A sample is the time of a whole batch of addresses with a route.
SamplesAreWhole6 ==
  \A t \in Threads : at[t] = "batch" => loc[t].j = loc[t].n * loc[t].batch /\ loc[t].j <= loc[t].total
=============================================================================
