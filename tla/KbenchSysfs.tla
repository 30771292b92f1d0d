----------------------------- MODULE KbenchSysfs -----------------------------
(***************************************************************************)
(* /sys/kernel/kbench, what the kernel modules of lab-routes-ipv4 and      *)
(* lab-routes-ipv6 have in common: their loading and unloading, the files  *)
(* of parameters with the mutex that guards them, and the threads that are *)
(* in a handler.  Kbench4 and Kbench6 have the parameters of each module,  *)
(* and do_bench, which is run by reading the files run and run_verbose.    *)
(*                                                                         *)
(* What is written to a file is a number (or an IPv4 address, which is one *)
(* here), an IPv6 address, or a text: the name of a network device, whose  *)
(* index is val, or anything that cannot be parsed.                        *)
(***************************************************************************)
EXTENDS Integers

CONSTANTS
  Threads,   \* threads that are in the module
  Writers,   \* those that read and write the parameters
  NoThread,  \* the owner of a mutex that is free
  Devices,   \* indexes of the network devices
  Inputs,    \* for each parameter, what may be written to its file
  Defaults   \* for each parameter, its value when the module is loaded

\* The parameters of both modules.
Names == {"warmup_count", "loop_count", "max_loop_count", "batch_count",
          "flow_oif", "flow_iif", "flow_tos", "flow_label", "flow_mark",
          "flow_dst_ipaddr_s", "flow_dst_ipaddr_e", "flow_src_ipaddr"}

Counts == {"warmup_count", "loop_count", "max_loop_count", "batch_count"}

Forms == {"number", "address", "text"}

ASSUME SysfsAssumption ==
  /\ NoThread \notin Threads /\ Writers \subseteq Threads
  /\ Devices \subseteq Nat
  /\ Inputs \in [Names -> SUBSET [form : Forms, val : Int]]
  /\ Defaults \in [Names -> Nat]
  /\ \A name \in Counts : Defaults[name] >= 1
  /\ Defaults["flow_tos"] <= 255

VARIABLES
  module,   \* out, kobject (half loaded), in, or leaving
  param,    \* the static variables of the module
  kb_lock,  \* the thread that holds the mutex
  at,       \* where each thread is
  call,     \* the parameter and the value that it is called for
  pinned,   \* devices with a reference that no handler gives back
  heap,     \* the buffers each thread has allocated
  loc       \* the local variables of do_bench

sysfs  == <<module, param, pinned>>
kbench == <<module, param, kb_lock, at, call, pinned, heap, loc>>

Buffers == {"results", "addrs", "batched_fl", "batched_dst"}

NoCall == [name |-> "none", val |-> 0]

\* count and batch as read, the scan (IPv4 only), the sizes of results and of
\* addrs, the counters of the loops, and n, the results of batches (IPv6 only).
NoLocals == [count |-> 0, batch |-> 0, start |-> 0, delta |-> 0, scan |-> FALSE,
             size |-> 0, room |-> 0, i |-> 0, j |-> 0, total |-> 0, n |-> 0]

SysfsInit ==
  /\ module = "out"
  /\ param = Defaults
  /\ kb_lock = NoThread
  /\ at = [t \in Threads |-> "idle"]
  /\ call = [t \in Threads |-> NoCall]
  /\ pinned = {}
  /\ heap = [t \in Threads |-> {}]
  /\ loc = [t \in Threads |-> NoLocals]

-----------------------------------------------------------------------------
(* Loading and unloading *)

\* kbench_init: the directory, then its files.
CreateKobject ==
  /\ module = "out"
  /\ module' = "kobject"
  /\ param' = Defaults
  /\ UNCHANGED <<kb_lock, at, call, pinned, heap, loc>>

CreateGroup ==
  /\ module = "kobject"
  /\ module' = "in"
  /\ UNCHANGED <<param, kb_lock, at, call, pinned, heap, loc>>

CreateGroupFails ==
  /\ module = "kobject"
  /\ module' = "out"
  /\ UNCHANGED <<param, kb_lock, at, call, pinned, heap, loc>>

\* sysfs_remove_group: no new call, then a wait for those that are running.
RemoveGroup ==
  /\ module = "in"
  /\ module' = "leaving"
  /\ UNCHANGED <<param, kb_lock, at, call, pinned, heap, loc>>

\* The wait is over; kobject_put removes the directory.
PutKobject ==
  /\ module = "leaving" /\ \A t \in Threads : at[t] = "idle"
  /\ module' = "out"
  /\ UNCHANGED <<param, kb_lock, at, call, pinned, heap, loc>>

Load == CreateKobject \/ CreateGroup \/ CreateGroupFails \/ RemoveGroup \/ PutKobject

-----------------------------------------------------------------------------
(* The files of parameters *)

\* The value that is stored for an input, if it is accepted.
Count(in)   == {v \in {in.val} : in.form = "number" /\ v >= 1}
Iface(in)   == {v \in {in.val} : IF in.form = "number" THEN v >= 0 ELSE v \in Devices}

\* Mutant of Tos: a value that does not fit.
TosWide(in) == {v \in {in.val} : in.form = "number" /\ v \in 0 .. 256}

Tos(in)     == {v \in {in.val} : in.form = "number" /\ v \in 0 .. 255}
Word(in)    == {v \in {in.val} : in.form = "number" /\ v >= 0}
Address(in) == {v \in {in.val} : in.form = "address" /\ v >= 0}

Enter(t, where) == module = "in" /\ at[t] = "idle" /\ at' = [at EXCEPT ![t] = where]

\* A handler _show, up to its lock.
Show(t, name) ==
  /\ Enter(t, "show")
  /\ call' = [call EXCEPT ![t] = [name |-> name, val |-> 0]]
  /\ UNCHANGED <<module, param, kb_lock, pinned, heap, loc>>

\* A handler _store, up to its lock.  A refused input changes nothing.
Store(t, name, vals) ==
  /\ Enter(t, "store")
  /\ \E v \in vals : call' = [call EXCEPT ![t] = [name |-> name, val |-> v]]
  /\ UNCHANGED <<module, param, kb_lock, heap, loc>>

\* dev_get_by_name takes a reference that nothing puts.
Named(name, in) ==
  IF name \in {"flow_oif", "flow_iif"} /\ in.form = "text" THEN {in.val} \cap Devices ELSE {}

File(t, name, Parse(_)) ==
  \/ Show(t, name)
  \/ \E in \in Inputs[name] :
       /\ Store(t, name, Parse(in))
       /\ pinned' = pinned \cup Named(name, in)

\* The files that both modules have.
WarmupCount(t) == File(t, "warmup_count", Count)
LoopCount(t)   == File(t, "loop_count", Count)
BatchCount(t)  == File(t, "batch_count", Count)
FlowOif(t)     == File(t, "flow_oif", Iface)
FlowIif(t)     == File(t, "flow_iif", Iface)
FlowMark(t)    == File(t, "flow_mark", Word)

Finish(t) ==
  /\ kb_lock = NoThread
  /\ at' = [at EXCEPT ![t] = "idle"]
  /\ call' = [call EXCEPT ![t] = NoCall]

\* The rest of a _show, under the lock: the value is printed.  That of a device
\* takes a reference with dev_get_by_index, and does not put it either.
Shown(t) ==
  /\ at[t] = "show" /\ Finish(t)
  /\ pinned' = IF call[t].name \in {"flow_oif", "flow_iif"}
                 THEN pinned \cup (Devices \cap {param[call[t].name]}) ELSE pinned
  /\ UNCHANGED <<module, param, kb_lock, heap, loc>>

\* Mutant of Stored: the value is stored without the mutex.
StoredUnlocked(t) ==
  /\ at[t] = "store" /\ at' = [at EXCEPT ![t] = "idle"]
  /\ call' = [call EXCEPT ![t] = NoCall]
  /\ param' = [param EXCEPT ![call[t].name] = call[t].val]
  /\ UNCHANGED <<module, kb_lock, pinned, heap, loc>>

\* The rest of a _store.
Stored(t) ==
  /\ at[t] = "store" /\ Finish(t)
  /\ param' = [param EXCEPT ![call[t].name] = call[t].val]
  /\ UNCHANGED <<module, kb_lock, pinned, heap, loc>>

-----------------------------------------------------------------------------
(* do_bench, the parts that both modules have *)

\* The handlers run_show and run_verbose_show.
Run(t) ==
  /\ Enter(t, "begin")
  /\ UNCHANGED <<module, param, kb_lock, call, pinned, heap, loc>>

Goto(t, where) == at' = [at EXCEPT ![t] = where]

\* do_bench returns, having given back some of its buffers.
Return(t, freed) ==
  /\ at' = [at EXCEPT ![t] = "idle"]
  /\ heap' = [heap EXCEPT ![t] = @ \ freed]
  /\ loc' = [loc EXCEPT ![t] = NoLocals]

\* A fault in the kernel: the thread is lost, with all that it holds.
Oops(t) == Goto(t, "oops") /\ loc' = [loc EXCEPT ![t] = NoLocals] /\ UNCHANGED heap

WarmedUp(t) ==
  /\ at[t] = "warmup"
  /\ Goto(t, "loop")
  /\ UNCHANGED <<sysfs, kb_lock, call, heap, loc>>

\* mad does not look at what kmalloc returned.
MadFails(t) ==
  /\ at[t] = "stats" /\ loc[t].total > 0
  /\ Oops(t)
  /\ UNCHANGED <<sysfs, kb_lock, call>>

-----------------------------------------------------------------------------
(* Properties *)

Locals == [count : Nat, batch : Nat, start : Nat, delta : Nat, scan : BOOLEAN, size : Nat,
           room : Nat, i : Nat, j : Nat, total : Nat, n : Nat]

Places == {"idle", "show", "store", "begin", "results", "addrs", "nomem", "lock",
           "warmup", "loop", "batch", "unlock", "stats", "oops"}

TypeOK ==
  /\ module \in {"out", "kobject", "in", "leaving"}
  /\ param \in [Names -> Nat] /\ param["flow_tos"] <= 255
  /\ kb_lock \in Threads \cup {NoThread}
  /\ at \in [Threads -> Places]
  /\ call \in [Threads -> [name : Names \cup {"none"}, val : Nat]]
  /\ pinned \subseteq Devices
  /\ heap \in [Threads -> SUBSET Buffers]
  /\ loc \in [Threads -> Locals]

\* A thread that has left do_bench, by whatever way, holds no buffer and not the
\* mutex; once the module is unloaded no thread is in its code.
NothingLeft ==
  /\ \A t \in Threads : at[t] = "idle" => heap[t] = {} /\ kb_lock # t
  /\ module = "out" => \A t \in Threads : at[t] = "idle"

=============================================================================
