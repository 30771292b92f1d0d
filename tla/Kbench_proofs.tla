---------------------------- MODULE Kbench_proofs ----------------------------
(***************************************************************************)
(* The benchmarks, for every number of threads and every value that the    *)
(* files take.  Each module has an inductive invariant, over the one of    *)
(* what both have in common: the files and the threads that are in them.   *)
(***************************************************************************)
EXTENDS Kbench, TLAPS

-----------------------------------------------------------------------------
(* Arithmetic *)

LEMMA Division ==
  ASSUME NEW n \in Nat, NEW b \in Nat \ {0}
  PROVE  n \div b \in Nat /\ n % b \in 0 .. b - 1 /\ n = b * (n \div b) + (n % b)
OBVIOUS

LEMMA Product ==
  ASSUME NEW a \in Nat, NEW b \in Nat
  PROVE  a * b \in Nat /\ (a + 1) * b = a * b + b
OBVIOUS

LEMMA Monotone ==
  ASSUME NEW a \in Nat, NEW c \in Nat, NEW b \in Nat, a <= c
  PROVE  a * b <= c * b
<1>1. PICK d \in Nat : c = a + d
  <2>1. c - a \in Nat /\ c = a + (c - a)
    OBVIOUS
  <2> QED BY <2>1
<1>2. c * b = a * b + d * b /\ d * b \in Nat /\ a * b \in Nat
  BY <1>1, Product
<1> QED BY <1>2

LEMMA OneMore ==
  ASSUME NEW a \in Nat, NEW b \in Nat, NEW c \in {0, 1}
  PROVE  a * b \in Nat /\ (a + c) * b \in Nat /\ (a + c) * b <= a * b + b
<1>1. a * b \in Nat /\ (a + 1) * b = a * b + b
  BY Product
<1>2. CASE c = 0
  BY <1>1, <1>2
<1>3. CASE c = 1
  BY <1>1, <1>3
<1> QED BY <1>2, <1>3

\* As many batches of b as there are in n.
LEMMA Batches ==
  ASSUME NEW n \in Nat, NEW b \in Nat \ {0}, NEW a \in Nat, a * b <= n
  PROVE  a <= n \div b
<1> DEFINE q == n \div b
<1>1. q \in Nat /\ n < q * b + b
  <2>1. q \in Nat /\ n % b \in 0 .. b - 1 /\ n = b * q + (n % b)
    BY Division
  <2>2. b * q = q * b
    BY <2>1
  <2> QED BY <2>1, <2>2
<1>2. SUFFICES ASSUME a > q PROVE FALSE
  BY <1>1
<1>3. (q + 1) * b <= a * b
  BY <1>1, <1>2, Monotone
<1>4. (q + 1) * b = q * b + b
  BY <1>1, Product
<1> QED BY <1>1, <1>3, <1>4

\* Equal steps, one less of them than lookups, stay in the range.
LEMMA Steps ==
  ASSUME NEW d \in Nat, NEW n \in Nat \ {0}, NEW k \in Nat, k < n, n <= d
  PROVE  (d \div n) * k \in 0 .. d - 1
<1> DEFINE q == d \div n
<1>1. q \in Nat /\ n * q <= d /\ q >= 1
  <2>1. q \in Nat /\ d % n \in 0 .. n - 1 /\ d = n * q + (d % n)
    BY Division
  <2>2. CASE q = 0
    <3>1. n * q = 0
      BY <2>2
    <3> QED BY <2>1, <3>1
  <2> QED BY <2>1, <2>2
<1>2. (k + 1) * q <= n * q
  BY <1>1, Monotone
<1>3. (k + 1) * q = k * q + q /\ k * q \in Nat /\ q * k = k * q
  BY <1>1, Product
<1> QED BY <1>1, <1>2, <1>3

-----------------------------------------------------------------------------
(* The files and the threads that are in them *)

\* What a handler is about to store is what the file may hold.
StoresAreValid ==
  \A t \in Threads : at[t] = "store" =>
    /\ call[t].name \in Names
    /\ call[t].name \in Counts => call[t].val >= 1
    /\ call[t].name = "flow_tos" => call[t].val <= 255

\* No count is zero: the scan divides by loop_count, the batches by batch_count.
CountsArePositive == \A name \in Counts : param[name] >= 1

\* Only do_bench allocates, and only in a module that is loaded.
IdleIsClean ==
  /\ \A t \in Threads : at[t] \in {"idle", "show", "store", "begin"} => heap[t] = {}
  /\ module \in {"out", "kobject"} => \A t \in Threads : at[t] = "idle"

SysfsInvariant == TypeOK /\ CountsArePositive /\ StoresAreValid /\ IdleIsClean

LEMMA InitSysfs ==
  ASSUME SysfsInit PROVE SysfsInvariant
<1>1. NoCall \in [name : Names \cup {"none"}, val : Nat]
  BY DEF NoCall
<1>2. NoLocals \in Locals
  BY DEF NoLocals, Locals
<1>3. TypeOK
  BY <1>1, <1>2, SysfsAssumption DEF SysfsInit, TypeOK, Places
<1>4. CountsArePositive
  BY SysfsAssumption DEF SysfsInit, CountsArePositive
<1>5. StoresAreValid /\ IdleIsClean
  BY DEF SysfsInit, StoresAreValid, IdleIsClean
<1> QED BY <1>3, <1>4, <1>5 DEF SysfsInvariant

\* Loading, which starts from the defaults, and unloading, which waits.
LEMMA LoadKeeps ==
  ASSUME SysfsInvariant, Load
  PROVE  /\ SysfsInvariant' /\ UNCHANGED <<kb_lock, at, heap, loc>>
         /\ UNCHANGED param \/ \A t \in Threads : at[t] = "idle"
<1> USE DEF SysfsInvariant
<1>1. UNCHANGED <<kb_lock, at, call, pinned, heap, loc>>
  BY DEF Load, CreateKobject, CreateGroup, CreateGroupFails, RemoveGroup, PutKobject
<1>2. param' \in {param, Defaults}
  BY DEF Load, CreateKobject, CreateGroup, CreateGroupFails, RemoveGroup, PutKobject
<1>3. /\ module' \in {"out", "kobject", "in", "leaving"}
      /\ module' \in {"out", "kobject"} => \A t \in Threads : at[t] = "idle"
  BY DEF Load, CreateKobject, CreateGroup, CreateGroupFails, RemoveGroup, PutKobject, IdleIsClean
<1>4. TypeOK'
  BY <1>1, <1>2, <1>3, SysfsAssumption DEF TypeOK
<1>5. CountsArePositive'
  BY <1>2, SysfsAssumption DEF CountsArePositive
<1>6. StoresAreValid' /\ IdleIsClean'
  BY <1>1, <1>3 DEF StoresAreValid, IdleIsClean
<1>7. UNCHANGED param \/ \A t \in Threads : at[t] = "idle"
  BY DEF Load, CreateKobject, CreateGroup, CreateGroupFails, RemoveGroup, PutKobject, IdleIsClean
<1> QED BY <1>1, <1>4, <1>5, <1>6, <1>7

\* A call of a file, up to the lock.
LEMMA ShowKeeps ==
  ASSUME SysfsInvariant, NEW t \in Threads, NEW name \in Names, Show(t, name)
  PROVE  /\ SysfsInvariant' /\ UNCHANGED <<param, kb_lock, heap, loc>>
         /\ at[t] = "idle" /\ at' = [at EXCEPT ![t] = "show"]
<1> USE DEF SysfsInvariant
<1>1. /\ module = "in" /\ at[t] = "idle" /\ at' = [at EXCEPT ![t] = "show"]
      /\ call' = [call EXCEPT ![t] = [name |-> name, val |-> 0]]
      /\ UNCHANGED <<module, param, kb_lock, pinned, heap, loc>>
  BY DEF Show, Enter
<1>2. TypeOK'
  BY <1>1 DEF TypeOK, Places
<1>3. CountsArePositive' /\ StoresAreValid'
  BY <1>1 DEF CountsArePositive, StoresAreValid, TypeOK
<1>4. IdleIsClean'
  BY <1>1 DEF IdleIsClean, TypeOK
<1> QED BY <1>1, <1>2, <1>3, <1>4

LEMMA StoreKeeps ==
  ASSUME SysfsInvariant, NEW t \in Threads, NEW name \in Names, NEW vals \in SUBSET Nat,
         \A v \in vals : /\ name \in Counts => v >= 1
                         /\ name = "flow_tos" => v <= 255,
         pinned' \subseteq Devices, Store(t, name, vals)
  PROVE  /\ SysfsInvariant' /\ UNCHANGED <<param, kb_lock, heap, loc>>
         /\ at[t] = "idle" /\ at' = [at EXCEPT ![t] = "store"]
<1> USE DEF SysfsInvariant
<1>1. PICK v \in vals : call' = [call EXCEPT ![t] = [name |-> name, val |-> v]]
  BY DEF Store
<1>2. /\ module = "in" /\ at[t] = "idle" /\ at' = [at EXCEPT ![t] = "store"]
      /\ UNCHANGED <<module, param, kb_lock, heap, loc>>
  BY DEF Store, Enter
<1>3. TypeOK'
  BY <1>1, <1>2 DEF TypeOK, Places
<1>4. CountsArePositive' /\ StoresAreValid'
  BY <1>1, <1>2 DEF CountsArePositive, StoresAreValid, TypeOK
<1>5. IdleIsClean'
  BY <1>2 DEF IdleIsClean, TypeOK
<1> QED BY <1>2, <1>3, <1>4, <1>5

\* The rest of the call, with the lock.
LEMMA ShownKeeps ==
  ASSUME SysfsInvariant, NEW t \in Threads, Shown(t)
  PROVE  /\ SysfsInvariant' /\ UNCHANGED <<param, kb_lock, heap, loc>>
         /\ at[t] = "show" /\ at' = [at EXCEPT ![t] = "idle"]
<1> USE DEF SysfsInvariant
<1>1. /\ at[t] = "show" /\ at' = [at EXCEPT ![t] = "idle"]
      /\ call' = [call EXCEPT ![t] = NoCall]
      /\ UNCHANGED <<module, param, kb_lock, heap, loc>>
  BY DEF Shown, Finish
<1>2. pinned' \subseteq Devices
  BY DEF Shown, TypeOK
<1>3. TypeOK'
  BY <1>1, <1>2 DEF TypeOK, NoCall, Places
<1>4. CountsArePositive' /\ StoresAreValid'
  BY <1>1 DEF CountsArePositive, StoresAreValid, TypeOK
<1>5. IdleIsClean'
  BY <1>1 DEF IdleIsClean, TypeOK
<1> QED BY <1>1, <1>3, <1>4, <1>5

LEMMA StoredKeeps ==
  ASSUME SysfsInvariant, NEW t \in Threads, Stored(t)
  PROVE  /\ SysfsInvariant' /\ UNCHANGED <<kb_lock, heap, loc>>
         /\ at[t] = "store" /\ at' = [at EXCEPT ![t] = "idle"] /\ kb_lock = NoThread
<1> USE DEF SysfsInvariant
<1>1. /\ at[t] = "store" /\ at' = [at EXCEPT ![t] = "idle"]
      /\ call' = [call EXCEPT ![t] = NoCall] /\ kb_lock = NoThread
      /\ param' = [param EXCEPT ![call[t].name] = call[t].val]
      /\ UNCHANGED <<module, kb_lock, pinned, heap, loc>>
  BY DEF Stored, Finish
<1>2. /\ call[t].name \in Names /\ call[t].val \in Nat
      /\ call[t].name \in Counts => call[t].val >= 1
      /\ call[t].name = "flow_tos" => call[t].val <= 255
  BY <1>1 DEF StoresAreValid, TypeOK
<1>3. param' \in [Names -> Nat] /\ param'["flow_tos"] <= 255
  BY <1>1, <1>2 DEF TypeOK, Names
<1>4. TypeOK'
  BY <1>1, <1>3 DEF TypeOK, NoCall, Places
<1>5. CountsArePositive'
  BY <1>1, <1>2 DEF CountsArePositive, TypeOK, Counts, Names
<1>6. StoresAreValid'
  BY <1>1 DEF StoresAreValid, TypeOK
<1>7. IdleIsClean'
  BY <1>1 DEF IdleIsClean, TypeOK
<1> QED BY <1>1, <1>4, <1>5, <1>6, <1>7

LEMMA RunKeeps ==
  ASSUME SysfsInvariant, NEW t \in Threads, Run(t)
  PROVE  /\ SysfsInvariant' /\ UNCHANGED <<param, kb_lock, heap, loc>>
         /\ at[t] = "idle" /\ at' = [at EXCEPT ![t] = "begin"]
<1> USE DEF SysfsInvariant
<1>1. /\ module = "in" /\ at[t] = "idle" /\ at' = [at EXCEPT ![t] = "begin"]
      /\ UNCHANGED <<module, param, kb_lock, call, pinned, heap, loc>>
  BY DEF Run, Enter
<1>2. TypeOK'
  BY <1>1 DEF TypeOK, Places
<1>3. CountsArePositive' /\ StoresAreValid' /\ IdleIsClean'
  BY <1>1 DEF CountsArePositive, StoresAreValid, IdleIsClean, TypeOK
<1> QED BY <1>1, <1>2, <1>3

\* A step of do_bench, whatever it does to its own buffers and locals.
LEMMA BenchKeeps ==
  ASSUME SysfsInvariant, NEW t \in Threads, UNCHANGED <<sysfs, call>>,
         at[t] \notin {"idle", "show", "store"},
         NEW where \in Places, where \notin {"show", "store", "begin"},
         at' = [at EXCEPT ![t] = where],
         heap' \in [Threads -> SUBSET Buffers],
         \A u \in Threads \ {t} : heap'[u] = heap[u],
         where = "idle" => heap'[t] = {},
         loc' \in [Threads -> Locals],
         kb_lock' \in Threads \cup {NoThread}
  PROVE  SysfsInvariant'
<1> USE DEF SysfsInvariant
<1>1. UNCHANGED <<module, param, call, pinned>>
  BY DEF sysfs
<1>2. TypeOK'
  BY <1>1 DEF TypeOK, Places
<1>3. CountsArePositive' /\ StoresAreValid'
  BY <1>1 DEF CountsArePositive, StoresAreValid, TypeOK
<1>4. IdleIsClean'
  BY <1>1 DEF IdleIsClean, TypeOK
<1> QED BY <1>2, <1>3, <1>4

-----------------------------------------------------------------------------
(* IPv4 *)

\* The mutex is never kept, and these are all the buffers there are.
Unlocked ==
  /\ kb_lock = NoThread
  /\ \A t \in Threads : heap[t] \subseteq {"results", "batched_fl"}

\* The locals of a run: why the samples are whole, and fit.
Fits4(l) ==
  /\ l.count >= 1 /\ l.batch >= 1 /\ l.size = (l.count \div l.batch) + 1
  /\ l.i <= l.count
  /\ l.batch > 1 => l.j < l.batch
  /\ l.total * l.batch + (IF l.batch > 1 THEN l.j ELSE 0) <= l.i

RunsFit4 == \A t \in Threads : InBench4(t) => Fits4(loc[t])

Inv4 == SysfsInvariant /\ Unlocked /\ RunsFit4

LEMMA InitInv4 ==
  ASSUME SysfsInit PROVE Inv4
<1>1. Unlocked /\ RunsFit4
  BY DEF SysfsInit, Unlocked, RunsFit4, InBench4
<1> QED BY <1>1, InitSysfs DEF Inv4

\* A file changes nothing that a benchmark has copied.
LEMMA FilesKeep4 ==
  ASSUME Inv4, NEW t \in Threads, Files4(t) PROVE Inv4'
<1>1. SysfsInvariant' /\ UNCHANGED <<kb_lock, heap, loc>>
      /\ \E where \in {"show", "store", "idle"} : at' = [at EXCEPT ![t] = where]
  <2> DEFINE Valid(name, vals) ==
        /\ vals \in SUBSET Nat
        /\ \A v \in vals : /\ name \in Counts => v >= 1
                           /\ name = "flow_tos" => v <= 255
  <2> DEFINE Kept == /\ SysfsInvariant' /\ UNCHANGED <<kb_lock, heap, loc>>
                     /\ \E where \in {"show", "store", "idle"} : at' = [at EXCEPT ![t] = where]
  <2>1. ASSUME NEW name \in Names, Show(t, name) PROVE Kept
    BY <2>1, ShowKeeps DEF Inv4
  <2>2. ASSUME NEW name \in Names, NEW vals, Valid(name, vals), NEW in \in Inputs[name],
               Store(t, name, vals), pinned' = pinned \cup Named(name, in)
        PROVE  Kept
    <3>1. pinned' \subseteq Devices
      BY <2>2 DEF Named, Inv4, SysfsInvariant, TypeOK
    <3> QED BY <2>2, <3>1, StoreKeeps DEF Inv4
  <2>3. ASSUME NEW name \in Names, NEW in \in Inputs[name]
        PROVE  /\ in.val \in Int
               /\ name \in Counts => Valid(name, Count(in))
               /\ name \in {"flow_oif", "flow_iif"} => Valid(name, Iface(in))
               /\ Valid("flow_tos", Tos(in))
               /\ name = "flow_mark" => Valid(name, Word(in))
               /\ name \in {"flow_dst_ipaddr_s", "flow_dst_ipaddr_e", "flow_src_ipaddr"} =>
                    Valid(name, InAton(in))
    <3>1. in \in [form : Forms, val : Int]
      BY <2>3, SysfsAssumption
    <3>2. in.val \in Int
      BY <3>1
    <3>3. Count(in) \subseteq Nat /\ \A v \in Count(in) : v >= 1
      BY <3>2 DEF Count
    <3>4. Iface(in) \subseteq Nat
      BY <3>2, SysfsAssumption DEF Iface
    <3>5. Tos(in) \subseteq Nat /\ \A v \in Tos(in) : v <= 255
      BY <3>2 DEF Tos
    <3>6. Word(in) \subseteq Nat /\ InAton(in) \subseteq Nat
      BY <3>2 DEF Word, InAton
    <3> QED BY <3>2, <3>3, <3>4, <3>5, <3>6 DEF Counts
  <2>4. CASE WarmupCount(t) \/ LoopCount(t) \/ BatchCount(t)
    BY <2>1, <2>2, <2>3, <2>4 DEF WarmupCount, LoopCount, BatchCount, File, Names, Counts
  <2>5. CASE FlowOif(t) \/ FlowIif(t)
    BY <2>1, <2>2, <2>3, <2>5 DEF FlowOif, FlowIif, File, Names
  <2>6. CASE FlowTos(t)
    BY <2>1, <2>2, <2>3, <2>6 DEF FlowTos, File, Names
  <2>7. CASE FlowMark(t)
    BY <2>1, <2>2, <2>3, <2>7 DEF FlowMark, File, Names
  <2>8. CASE FlowDstS4(t) \/ FlowDstE4(t) \/ FlowSrc4(t)
    BY <2>1, <2>2, <2>3, <2>8 DEF FlowDstS4, FlowDstE4, FlowSrc4, File, Names
  <2>9. CASE Shown(t)
    BY <2>9, ShownKeeps DEF Inv4
  <2>10. CASE Stored(t)
    BY <2>10, StoredKeeps DEF Inv4
  <2> QED BY <2>4, <2>5, <2>6, <2>7, <2>8, <2>9, <2>10 DEF Files4
<1>2. Unlocked'
  BY <1>1 DEF Inv4, Unlocked
<1>3. RunsFit4'
  BY <1>1 DEF Inv4, RunsFit4, InBench4, SysfsInvariant, TypeOK
<1> QED BY <1>1, <1>2, <1>3 DEF Inv4

-----------------------------------------------------------------------------
(* do_bench of IPv4 *)

\* What is to show of a step of do_bench: where it goes, with which buffers and
\* which locals.
LEMMA StepKeeps4 ==
  ASSUME Inv4, NEW t \in Threads, UNCHANGED <<sysfs, kb_lock, call>>,
         at[t] \notin {"idle", "show", "store"},
         NEW where \in Places \ {"show", "store", "begin"}, at' = [at EXCEPT ![t] = where],
         NEW h \in SUBSET {"results", "batched_fl"}, heap' = [heap EXCEPT ![t] = h],
         where = "idle" => h = {},
         NEW l \in Locals, loc' = [loc EXCEPT ![t] = l],
         where \in {"warmup", "loop", "stats"} => Fits4(l)
  PROVE  Inv4'
<1>1. SysfsInvariant /\ TypeOK /\ Unlocked /\ RunsFit4
  BY DEF Inv4, SysfsInvariant
<1>2. /\ heap' \in [Threads -> SUBSET Buffers] /\ heap'[t] = h
      /\ \A u \in Threads \ {t} : heap'[u] = heap[u]
  BY <1>1 DEF TypeOK, Buffers
<1>3. loc' \in [Threads -> Locals] /\ kb_lock' \in Threads \cup {NoThread}
  BY <1>1 DEF TypeOK
<1>4. SysfsInvariant'
  BY <1>1, <1>2, <1>3, BenchKeeps
<1>5. Unlocked'
  BY <1>1, <1>2 DEF Unlocked
<1>6. RunsFit4'
  BY <1>1 DEF RunsFit4, InBench4, TypeOK
<1> QED BY <1>4, <1>5, <1>6 DEF Inv4

\* The way into a run, with the counts as they are at that time.
LEMMA SnapshotKeeps ==
  ASSUME Inv4, NEW t \in Threads, Snapshot(t) PROVE Inv4'
<1>1. TypeOK /\ CountsArePositive
  BY DEF Inv4, SysfsInvariant
<1> DEFINE c == param["loop_count"]
           b == param["batch_count"]
           s == param["flow_dst_ipaddr_s"]
           e == param["flow_dst_ipaddr_e"]
<1>2. c \in Nat \ {0} /\ b \in Nat \ {0} /\ s \in Nat /\ e \in Nat
  BY <1>1 DEF TypeOK, CountsArePositive, Counts, Names
<1>3. PICK flag \in BOOLEAN, got \in SUBSET Wanted4 :
        /\ loc' = [loc EXCEPT ![t] = IF got = Wanted4 THEN Copied(s, e, flag) ELSE NoLocals]
        /\ heap' = [heap EXCEPT ![t] = got]
        /\ at' = [at EXCEPT ![t] = IF got = Wanted4 THEN "warmup" ELSE "nomem"]
  BY DEF Snapshot, Goto
<1>4. c \div b \in Nat
  BY <1>2, Division
<1>5. NoLocals \in Locals
  BY DEF NoLocals, Locals
<1>6. Copied(s, e, flag) \in Locals
  <2>1. (IF s < e THEN e - s ELSE 0) \in Nat /\ (c \div b) + 1 \in Nat
    BY <1>2, <1>4
  <2> QED BY <1>2, <2>1 DEF Copied, NoLocals, Locals
<1>7. Fits4(Copied(s, e, flag))
  BY <1>2, <1>4 DEF Copied, NoLocals, Fits4
<1>8. UNCHANGED <<sysfs, kb_lock, call>> /\ at[t] = "begin"
  BY DEF Snapshot
<1>9. got \in SUBSET {"results", "batched_fl"}
  BY DEF Wanted4
<1>10. CASE got = Wanted4
  <2>1. /\ loc' = [loc EXCEPT ![t] = Copied(s, e, flag)]
        /\ at' = [at EXCEPT ![t] = "warmup"]
    BY <1>3, <1>10
  <2>2. "warmup" \in Places \ {"show", "store", "begin"}
    BY DEF Places
  <2> HIDE DEF s, e
  <2> QED BY <1>3, <1>6, <1>7, <1>8, <1>9, <2>1, <2>2, StepKeeps4
<1>11. CASE got # Wanted4
  <2>1. loc' = [loc EXCEPT ![t] = NoLocals] /\ at' = [at EXCEPT ![t] = "nomem"]
    BY <1>3, <1>11
  <2>2. "nomem" \in Places \ {"show", "store", "begin"}
    BY DEF Places
  <2>3. "nomem" \notin {"idle", "warmup", "loop", "stats"}
        /\ at[t] \notin {"idle", "show", "store"}
    BY <1>8
  <2>4. heap' = [heap EXCEPT ![t] = got]
    BY <1>3
  <2> QED BY <1>5, <1>8, <1>9, <2>1, <2>2, <2>3, <2>4, StepKeeps4
<1> QED BY <1>10, <1>11

\* A return with both buffers freed.
LEMMA ReturnKeeps4 ==
  ASSUME Inv4, NEW t \in Threads, UNCHANGED <<sysfs, kb_lock, call>>,
         at[t] \notin {"idle", "show", "store"}, Return(t, {"results", "batched_fl"})
  PROVE  Inv4'
<1>1. TypeOK /\ Unlocked
  BY DEF Inv4, SysfsInvariant
<1>2. heap' = [heap EXCEPT ![t] = {}]
  BY <1>1 DEF Return, Unlocked, TypeOK
<1>3. /\ at' = [at EXCEPT ![t] = "idle"] /\ loc' = [loc EXCEPT ![t] = NoLocals]
      /\ NoLocals \in Locals
  BY DEF Return, NoLocals, Locals
<1>4. "idle" \in Places \ {"show", "store", "begin"} /\ {} \in SUBSET {"results", "batched_fl"}
  BY DEF Places
<1> QED BY <1>2, <1>3, <1>4, StepKeeps4

\* A step from one place of a run to the next, or to its loss.
LEMMA GotoKeeps ==
  ASSUME Inv4, NEW t \in Threads, UNCHANGED <<sysfs, kb_lock, call, heap>>, InBench4(t),
         NEW where \in {"loop", "stats", "oops"}, Goto(t, where),
         UNCHANGED loc \/ (where = "oops" /\ loc' = [loc EXCEPT ![t] = NoLocals])
  PROVE  Inv4'
<1>1. TypeOK /\ Unlocked /\ RunsFit4
  BY DEF Inv4, SysfsInvariant
<1>2. /\ heap' = [heap EXCEPT ![t] = heap[t]]
      /\ heap[t] \in SUBSET {"results", "batched_fl"}
  BY <1>1 DEF TypeOK, Unlocked
<1>3. PICK l \in {loc[t], NoLocals} :
        loc' = [loc EXCEPT ![t] = l] /\ (where # "oops" => l = loc[t])
  <2>1. loc = [loc EXCEPT ![t] = loc[t]]
    BY <1>1 DEF TypeOK
  <2> QED BY <2>1
<1>4. l \in Locals /\ Fits4(loc[t])
  <2>1. NoLocals \in Locals
    BY DEF NoLocals, Locals
  <2>2. loc[t] \in Locals /\ Fits4(loc[t])
    BY <1>1 DEF TypeOK, RunsFit4
  <2> QED BY <1>3, <2>1, <2>2
<1>5. at[t] \notin {"idle", "show", "store"} /\ at' = [at EXCEPT ![t] = where]
  BY DEF InBench4, Goto
<1> QED BY <1>2, <1>3, <1>4, <1>5, StepKeeps4 DEF Places

\* An address is looked up, or collected, or skipped: the locals go on.
LEMMA LoopKeeps ==
  ASSUME Inv4, NEW t \in Threads, Looping4(t), UNCHANGED <<sysfs, kb_lock, at, call, heap>>,
         NEW counted \in {0, 1}, NEW j \in Nat,
         loc' = [loc EXCEPT ![t] = [loc[t] EXCEPT !.i = @ + 1, !.total = @ + counted, !.j = j]],
         loc[t].batch > 1 => j < loc[t].batch,
         (loc[t].total + counted) * loc[t].batch + (IF loc[t].batch > 1 THEN j ELSE 0)
           <= loc[t].i + 1
  PROVE  Inv4'
<1>1. TypeOK /\ Unlocked /\ RunsFit4
  BY DEF Inv4, SysfsInvariant
<1> DEFINE l == [loc[t] EXCEPT !.i = @ + 1, !.total = @ + counted, !.j = j]
<1>2. /\ heap' = [heap EXCEPT ![t] = heap[t]] /\ at' = [at EXCEPT ![t] = "loop"]
      /\ heap[t] \in SUBSET {"results", "batched_fl"} /\ at[t] = "loop"
  BY <1>1 DEF TypeOK, Unlocked, Looping4
<1>3. loc[t] \in Locals /\ Fits4(loc[t]) /\ loc[t].i < loc[t].count
  BY <1>1 DEF TypeOK, RunsFit4, InBench4, Looping4
<1>4. l \in Locals
  <2>1. loc[t].i + 1 \in Nat /\ loc[t].total + counted \in Nat
    BY <1>3 DEF Locals
  <2> QED BY <1>3, <2>1 DEF Locals
<1>5. Fits4(l)
  BY <1>3 DEF Fits4, Locals
<1> QED BY <1>2, <1>4, <1>5, StepKeeps4 DEF Places

LEMMA BenchKeepsInv4 ==
  ASSUME Inv4, NEW t \in Threads, Bench4(t) PROVE Inv4'
<1>1. TypeOK /\ RunsFit4
  BY DEF Inv4, SysfsInvariant
<1> DEFINE l == loc[t]
<1>2. ASSUME Looping4(t)
      PROVE  l \in Locals /\ Fits4(l)
  BY <1>1, <1>2 DEF TypeOK, RunsFit4, InBench4, Looping4
<1>3. CASE Snapshot(t)
  BY <1>3, SnapshotKeeps
<1>4. CASE NoMemory4(t) \/ WarmupFails4(t) \/ Statistics4(t)
  BY <1>4, ReturnKeeps4 DEF NoMemory4, WarmupFails4, Statistics4
<1>5. CASE WarmedUp(t) \/ LoopEnds4(t)
  BY <1>5, GotoKeeps DEF WarmedUp, LoopEnds4, InBench4
<1>6. CASE DivideError(t) \/ MadFails(t)
  BY <1>6, GotoKeeps DEF DivideError, MadFails, Oops, InBench4, Looping4
<1>7. CASE SkipLoopback(t)
  <2>1. Looping4(t) /\ UNCHANGED <<sysfs, kb_lock, at, call, heap>>
    BY <1>7 DEF SkipLoopback
  <2>2. loc' = [loc EXCEPT ![t] = [l EXCEPT !.i = @ + 1, !.total = @ + 0, !.j = l.j]]
    <3>1. [l EXCEPT !.i = @ + 1] = [l EXCEPT !.i = @ + 1, !.total = @ + 0, !.j = l.j]
      <4>1. l.total + 0 = l.total /\ l \in Locals
        BY <1>2, <2>1 DEF Locals
      <4>2. l = [l EXCEPT !.total = @ + 0, !.j = l.j]
        BY <4>1 DEF Locals
      <4> QED BY <4>1, <4>2 DEF Locals
    <3>2. loc' = [loc EXCEPT ![t] = [l EXCEPT !.i = @ + 1]]
      BY <1>7 DEF SkipLoopback
    <3> QED BY <3>1, <3>2
  <2>3. /\ l.batch > 1 => l.j < l.batch
        /\ (l.total + 0) * l.batch + (IF l.batch > 1 THEN l.j ELSE 0) <= l.i + 1
    BY <1>2, <2>1 DEF Fits4, Locals
  <2>4. l.j \in Nat
    BY <1>2, <2>1 DEF Locals
  <2> QED BY <2>1, <2>2, <2>3, <2>4, LoopKeeps
<1>8. CASE Single(t)
  <2>1. Looping4(t) /\ UNCHANGED <<sysfs, kb_lock, at, call, heap>> /\ l.batch <= 1
    BY <1>8 DEF Single, LooksUp
  <2>2. PICK counted \in {0, 1} :
          loc' = [loc EXCEPT ![t] = [l EXCEPT !.i = @ + 1, !.total = @ + counted, !.j = l.j]]
    BY <1>1, <1>2, <1>8, <2>1 DEF Single, Locals, TypeOK
  <2>3. l.batch = 1 /\ l.total * 1 <= l.i /\ l.j \in Nat
    BY <1>2, <2>1 DEF Fits4, Locals
  <2>4. (l.total + counted) * l.batch + (IF l.batch > 1 THEN l.j ELSE 0) <= l.i + 1
    <3>1. l.total \in Nat /\ l.batch \in Nat /\ l.i \in Nat
      BY <1>2, <2>1 DEF Locals
    <3>2. (l.total + counted) * l.batch <= l.total * l.batch + l.batch
          /\ l.total * l.batch \in Nat /\ (l.total + counted) * l.batch \in Nat
      BY <3>1, OneMore
    <3>3. l.total * l.batch <= l.i
      BY <1>2, <2>1, <2>3 DEF Fits4
    <3> QED BY <2>3, <3>1, <3>2, <3>3
  <2>5. l.batch > 1 => l.j < l.batch
    BY <2>3
  <2>6. l.j \in Nat
    BY <2>3
  <2> HIDE DEF l
  <2> QED BY <2>1, <2>2, <2>4, <2>5, <2>6, LoopKeeps DEF l
<1>9. CASE Collect(t)
  <2>1. /\ Looping4(t) /\ UNCHANGED <<sysfs, kb_lock, at, call, heap>>
        /\ l.batch > 1 /\ l.j + 1 # l.batch
    BY <1>9 DEF Collect, LooksUp
  <2>2. loc' = [loc EXCEPT ![t] = [l EXCEPT !.i = @ + 1, !.total = @ + 0, !.j = l.j + 1]]
    BY <1>1, <1>2, <1>9, <2>1 DEF Collect, Locals, TypeOK
  <2>3. l.j + 1 \in Nat /\ l.j + 1 < l.batch
    BY <1>2, <2>1 DEF Fits4, Locals
  <2>4. (l.total + 0) * l.batch + (IF l.batch > 1 THEN l.j + 1 ELSE 0) <= l.i + 1
    <3>1. l.total * l.batch \in Nat /\ l.total + 0 = l.total
      BY <1>2, <2>1, Product DEF Locals
    <3> QED BY <1>2, <2>1, <3>1 DEF Fits4, Locals
  <2> QED BY <2>1, <2>2, <2>3, <2>4, LoopKeeps
<1>10. CASE TimeBatch4(t)
  <2>1. /\ Looping4(t) /\ UNCHANGED <<sysfs, kb_lock, at, call, heap>>
        /\ l.batch > 1 /\ l.j + 1 = l.batch
    BY <1>10 DEF TimeBatch4, LooksUp
  <2>2. PICK counted \in {0, 1} :
          loc' = [loc EXCEPT ![t] = [l EXCEPT !.i = @ + 1, !.total = @ + counted, !.j = 0]]
    BY <1>1, <1>2, <1>10, <2>1 DEF TimeBatch4, Locals, TypeOK
  <2>3. /\ l.total * l.batch \in Nat /\ (l.total + counted) * l.batch \in Nat
        /\ (l.total + counted) * l.batch <= l.total * l.batch + l.batch
    <3>1. l.total \in Nat /\ l.batch \in Nat
      BY <1>2, <2>1 DEF Locals
    <3> QED BY <3>1, OneMore
  <2>4. (l.total + counted) * l.batch + (IF l.batch > 1 THEN 0 ELSE 0) <= l.i + 1
    BY <1>2, <2>1, <2>3 DEF Fits4, Locals
  <2>5. l.batch > 1 => 0 < l.batch
    BY <1>2, <2>1 DEF Locals
  <2> QED BY <2>1, <2>2, <2>4, <2>5, LoopKeeps
<1> QED BY <1>3, <1>4, <1>5, <1>6, <1>7, <1>8, <1>9, <1>10 DEF Bench4

-----------------------------------------------------------------------------
(* The steps of IPv4 *)

LEMMA NextKeepsInv4 ==
  ASSUME Inv4, [Next4]_kbench PROVE Inv4'
<1>1. CASE Load
  <2>1. SysfsInvariant' /\ UNCHANGED <<kb_lock, at, heap, loc>>
    BY <1>1, LoadKeeps DEF Inv4
  <2> QED BY <2>1 DEF Inv4, Unlocked, RunsFit4, InBench4
<1>2. CASE \E t \in Writers : Files4(t)
  BY <1>2, FilesKeep4, SysfsAssumption
<1>3. ASSUME NEW t \in Runners4, Run(t) PROVE Inv4'
  <2>1. /\ SysfsInvariant' /\ UNCHANGED <<kb_lock, heap, loc>>
        /\ at' = [at EXCEPT ![t] = "begin"]
    BY <1>3, RunKeeps, Runners4Assumption DEF Inv4
  <2> QED BY <2>1 DEF Inv4, Unlocked, RunsFit4, InBench4, SysfsInvariant, TypeOK
<1>4. CASE \E t \in Runners4 : Bench4(t)
  BY <1>4, BenchKeepsInv4, Runners4Assumption
<1>5. CASE UNCHANGED kbench
  BY <1>5 DEF kbench, sysfs, Inv4, SysfsInvariant, TypeOK, CountsArePositive, StoresAreValid,
              IdleIsClean, Unlocked, RunsFit4, InBench4
<1> QED BY <1>1, <1>2, <1>3, <1>4, <1>5 DEF Next4

-----------------------------------------------------------------------------
(* IPv6 *)

Held == {"warmup", "loop", "batch", "unlock"}

\* The locals of a run that has the mutex, and until then cannot have its
\* loop_count changed; where is the part of the run.
Fits6(l, loop_count, where) ==
  /\ l.batch >= 1 /\ l.total <= loop_count /\ l.n <= loop_count
  /\ where \in {"warmup", "loop"} => l.j = 0 /\ l.n = 0
  /\ where = "batch" => l.j = l.n * l.batch /\ l.j <= l.total

RunsFit6 == \A t \in Threads : InBench6(t) => Fits6(loc[t], param["loop_count"], at[t])

\* A run starts from locals of zero.
Fresh(l) == l.batch >= 1 /\ l.total = 0 /\ l.j = 0 /\ l.n = 0

RunsStart ==
  \A t \in Threads :
    /\ at[t] \in {"idle", "show", "store", "begin"} => loc[t] = NoLocals
    /\ at[t] \in {"results", "addrs", "lock"} => Fresh(loc[t])
    /\ at[t] = "stats" => heap[t] \subseteq {"results"}

Inv6 == SysfsInvariant /\ MutexHeld6 /\ RunsFit6 /\ RunsStart

LEMMA InitInv6 ==
  ASSUME SysfsInit PROVE Inv6
<1>1. MutexHeld6 /\ RunsFit6 /\ RunsStart
  BY SysfsAssumption DEF SysfsInit, MutexHeld6, RunsFit6, RunsStart, InBench6
<1> QED BY <1>1, InitSysfs DEF Inv6

-----------------------------------------------------------------------------
(* The files of IPv6 *)

\* A handler that is entered or left, with the parameters as they were unless
\* nobody has the mutex.
LEMMA FileStep ==
  ASSUME Inv6, NEW t \in Threads, SysfsInvariant', UNCHANGED <<kb_lock, heap, loc>>,
         UNCHANGED param \/ kb_lock = NoThread,
         at[t] \in {"idle", "show", "store"},
         NEW where \in {"idle", "show", "store", "begin"}, at' = [at EXCEPT ![t] = where]
  PROVE  Inv6'
<1>1. TypeOK /\ MutexHeld6 /\ RunsFit6 /\ RunsStart
  BY DEF Inv6, SysfsInvariant
<1>2. at'[t] = where /\ \A u \in Threads \ {t} : at'[u] = at[u]
  BY <1>1 DEF TypeOK
<1>3. MutexHeld6'
  BY <1>1, <1>2 DEF MutexHeld6, InBench6
<1>4. RunsFit6'
  <2>1. ASSUME NEW u \in Threads, InBench6(u)'
        PROVE  Fits6(loc[u], param["loop_count"], at[u])'
    <3>1. u # t /\ at'[u] = at[u] /\ InBench6(u)
      BY <1>2, <2>1 DEF InBench6
    <3>2. UNCHANGED param
      BY <1>1, <3>1, SysfsAssumption DEF MutexHeld6
    <3>3. Fits6(loc[u], param["loop_count"], at[u])
      BY <1>1, <3>1 DEF RunsFit6
    <3> QED BY <3>1, <3>2, <3>3
  <2> QED BY <2>1 DEF RunsFit6
<1>5. RunsStart'
  BY <1>1, <1>2 DEF RunsStart
<1> QED BY <1>3, <1>4, <1>5 DEF Inv6

LEMMA FilesKeep6 ==
  ASSUME Inv6, NEW t \in Threads, Files6(t) PROVE Inv6'
<1> DEFINE Valid(name, vals) ==
      /\ vals \in SUBSET Nat
      /\ \A v \in vals : /\ name \in Counts => v >= 1
                         /\ name = "flow_tos" => v <= 255
<1>1. ASSUME NEW name \in Names, Show(t, name) PROVE Inv6'
  <2>1. /\ SysfsInvariant' /\ UNCHANGED <<param, kb_lock, heap, loc>>
        /\ at[t] = "idle" /\ at' = [at EXCEPT ![t] = "show"]
    BY <1>1, ShowKeeps DEF Inv6
  <2> QED BY <2>1, FileStep
<1>2. ASSUME NEW name \in Names, NEW vals, Valid(name, vals), NEW in \in Inputs[name],
             Store(t, name, vals), pinned' = pinned \cup Named(name, in)
      PROVE  Inv6'
  <2>1. pinned' \subseteq Devices
    BY <1>2 DEF Named, Inv6, SysfsInvariant, TypeOK
  <2>2. /\ SysfsInvariant' /\ UNCHANGED <<param, kb_lock, heap, loc>>
        /\ at[t] = "idle" /\ at' = [at EXCEPT ![t] = "store"]
    BY <1>2, <2>1, StoreKeeps DEF Inv6
  <2> QED BY <2>2, FileStep
<1>3. ASSUME NEW name \in Names, NEW in \in Inputs[name]
      PROVE  /\ name \in Counts => Valid(name, Count(in))
             /\ name \in {"flow_oif", "flow_iif"} => Valid(name, Iface(in))
             /\ name \in {"flow_label", "flow_mark"} => Valid(name, Word(in))
             /\ name \in {"flow_dst_ipaddr_s", "flow_dst_ipaddr_e", "flow_src_ipaddr"} =>
                  Valid(name, Address(in))
  <2>1. in \in [form : Forms, val : Int]
    BY <1>3, SysfsAssumption
  <2>2. in.val \in Int
    BY <2>1
  <2>3. Count(in) \subseteq Nat /\ \A v \in Count(in) : v >= 1
    BY <2>2 DEF Count
  <2>4. Iface(in) \subseteq Nat
    BY <2>2, SysfsAssumption DEF Iface
  <2>5. Word(in) \subseteq Nat /\ Address(in) \subseteq Nat
    BY <2>2 DEF Word, Address
  <2> QED BY <2>3, <2>4, <2>5 DEF Counts
<1>4. CASE WarmupCount(t) \/ LoopCount(t) \/ MaxLoopCount(t) \/ BatchCount(t)
  BY <1>1, <1>2, <1>3, <1>4
  DEF WarmupCount, LoopCount, MaxLoopCount, BatchCount, File, Names, Counts
<1>5. CASE FlowOif(t) \/ FlowIif(t)
  BY <1>1, <1>2, <1>3, <1>5 DEF FlowOif, FlowIif, File, Names
<1>6. CASE FlowLabel(t) \/ FlowMark(t)
  BY <1>1, <1>2, <1>3, <1>6 DEF FlowLabel, FlowMark, File, Names
<1>7. CASE FlowDstS6(t) \/ FlowDstE6(t) \/ FlowSrc6(t)
  BY <1>1, <1>2, <1>3, <1>7 DEF FlowDstS6, FlowDstE6, FlowSrc6, File, Names
<1>8. CASE Shown(t)
  BY <1>8, ShownKeeps, FileStep DEF Inv6
<1>9. CASE Stored(t)
  BY <1>9, StoredKeeps, FileStep DEF Inv6
<1> QED BY <1>4, <1>5, <1>6, <1>7, <1>8, <1>9 DEF Files6

-----------------------------------------------------------------------------
(* do_bench of IPv6 *)

\* What is to show of a step of do_bench: where it goes, with which buffers,
\* which locals, and what becomes of the mutex.
LEMMA StepKeeps6 ==
  ASSUME Inv6, NEW t \in Threads, UNCHANGED <<sysfs, call>>,
         at[t] \notin {"idle", "show", "store"},
         NEW where \in Places \ {"show", "store", "begin"}, at' = [at EXCEPT ![t] = where],
         NEW h \in SUBSET Buffers, heap' = [heap EXCEPT ![t] = h],
         where = "idle" => h = {},
         where = "stats" => h \subseteq {"results"},
         NEW l \in Locals, loc' = [loc EXCEPT ![t] = l],
         where = "idle" => l = NoLocals,
         where \in {"results", "addrs", "lock"} => Fresh(l),
         where \in Held => Fits6(l, param["loop_count"], where),
         where \in Held /\ at[t] \notin Held => kb_lock = NoThread,
         kb_lock' = IF where \in Held THEN t
                    ELSE IF at[t] \in Held THEN NoThread ELSE kb_lock
  PROVE  Inv6'
<1>1. SysfsInvariant /\ TypeOK /\ MutexHeld6 /\ RunsFit6 /\ RunsStart
  BY DEF Inv6, SysfsInvariant
<1>2. /\ heap' \in [Threads -> SUBSET Buffers] /\ heap'[t] = h
      /\ \A u \in Threads \ {t} : heap'[u] = heap[u]
  BY <1>1 DEF TypeOK
<1>3. /\ loc' \in [Threads -> Locals] /\ loc'[t] = l
      /\ \A u \in Threads \ {t} : loc'[u] = loc[u]
  BY <1>1 DEF TypeOK
<1>4. at'[t] = where /\ \A u \in Threads \ {t} : at'[u] = at[u]
  BY <1>1 DEF TypeOK
<1>5. kb_lock' \in Threads \cup {NoThread} /\ UNCHANGED param
  BY <1>1 DEF TypeOK, sysfs
<1>6. SysfsInvariant'
  BY <1>1, <1>2, <1>3, <1>5, BenchKeeps
<1>7. MutexHeld6'
  <2>1. \A u \in Threads : (kb_lock = u <=> at[u] \in Held) /\ u # NoThread
    BY <1>1, SysfsAssumption DEF MutexHeld6, InBench6, Held
  <2>2. \A u \in Threads : kb_lock' = u <=> at'[u] \in Held
    BY <1>4, <2>1
  <2> QED BY <2>2 DEF MutexHeld6, InBench6, Held
<1>8. RunsFit6'
  BY <1>1, <1>3, <1>4, <1>5 DEF RunsFit6, InBench6, Held
<1>9. RunsStart'
  BY <1>1, <1>2, <1>3, <1>4 DEF RunsStart
<1> QED BY <1>6, <1>7, <1>8, <1>9 DEF Inv6

\* A return with every buffer freed, from before the mutex or with it released.
LEMMA ReturnKeeps6 ==
  ASSUME Inv6, NEW t \in Threads, UNCHANGED <<sysfs, call>>,
         at[t] \notin {"idle", "show", "store"},
         NEW freed \in SUBSET Buffers, Return(t, freed), heap[t] \subseteq freed,
         kb_lock' = IF at[t] \in Held THEN NoThread ELSE kb_lock
  PROVE  Inv6'
<1>1. TypeOK
  BY DEF Inv6, SysfsInvariant
<1>2. heap' = [heap EXCEPT ![t] = {}]
  BY <1>1 DEF Return, TypeOK
<1>3. /\ at' = [at EXCEPT ![t] = "idle"] /\ loc' = [loc EXCEPT ![t] = NoLocals]
      /\ NoLocals \in Locals
  BY DEF Return, NoLocals, Locals
<1>4. /\ "idle" \in Places \ {"show", "store", "begin"} /\ {} \in SUBSET Buffers
      /\ "idle" \notin Held \cup {"stats", "results", "addrs", "lock"}
  BY DEF Places, Held
<1>5. kb_lock' = IF "idle" \in Held THEN t ELSE IF at[t] \in Held THEN NoThread ELSE kb_lock
  BY <1>4
<1> QED BY <1>2, <1>3, <1>4, <1>5, StepKeeps6

\* A thread that is lost in the statistics.
LEMMA MadKeeps ==
  ASSUME Inv6, NEW t \in Threads, MadFails(t) PROVE Inv6'
<1>1. TypeOK
  BY DEF Inv6, SysfsInvariant
<1>2. /\ at[t] = "stats" /\ at' = [at EXCEPT ![t] = "oops"]
      /\ UNCHANGED <<sysfs, kb_lock, call>>
      /\ loc' = [loc EXCEPT ![t] = NoLocals] /\ NoLocals \in Locals
  BY DEF MadFails, Oops, Goto, NoLocals, Locals
<1>3. heap' = [heap EXCEPT ![t] = heap[t]] /\ heap[t] \in SUBSET Buffers
  BY <1>1 DEF MadFails, Oops, TypeOK
<1>4. /\ "oops" \in Places \ {"show", "store", "begin"}
      /\ "oops" \notin Held \cup {"idle", "stats", "results", "addrs", "lock"}
      /\ at[t] \notin Held \cup {"idle", "show", "store"}
  BY <1>2 DEF Places, Held
<1>5. kb_lock' = IF "oops" \in Held THEN t ELSE IF at[t] \in Held THEN NoThread ELSE kb_lock
  BY <1>2, <1>4
<1>6. UNCHANGED <<sysfs, call>>
  BY <1>2
<1> QED BY <1>2, <1>3, <1>4, <1>5, <1>6, StepKeeps6

\* Steps before the mutex is taken.
LEMMA StartKeeps ==
  ASSUME Inv6, NEW t \in Threads,
         ReadBatch(t) \/ AllocResults(t) \/ AllocBatch(t) \/ Lock(t)
  PROVE  Inv6'
<1>1. TypeOK /\ CountsArePositive /\ RunsStart
  BY DEF Inv6, SysfsInvariant
<1>2. loc[t] \in Locals /\ heap[t] \in SUBSET Buffers
  BY <1>1 DEF TypeOK
<1>3. param["batch_count"] \in Nat \ {0} /\ param["loop_count"] \in Nat
  BY <1>1 DEF TypeOK, CountsArePositive, Counts, Names
<1>4. \A w \in {"results", "addrs", "lock", "nomem", "warmup"} :
        w \in Places \ {"show", "store", "begin"} /\ w \notin {"idle", "stats"}
  BY DEF Places
<1>5. CASE ReadBatch(t)
  <2> DEFINE l == [loc[t] EXCEPT !.batch = param["batch_count"]]
  <2>1. /\ at[t] = "begin" /\ UNCHANGED <<sysfs, kb_lock, call>>
        /\ at' = [at EXCEPT ![t] = "results"] /\ loc' = [loc EXCEPT ![t] = l]
    BY <1>5 DEF ReadBatch, Goto
  <2>2. heap' = [heap EXCEPT ![t] = heap[t]]
    BY <1>1, <1>5 DEF ReadBatch, TypeOK
  <2>3. l \in Locals
    BY <1>2, <1>3 DEF Locals
  <2>4. Fresh(l)
    BY <1>1, <1>3, <2>1 DEF RunsStart, Fresh, NoLocals
  <2> QED BY <1>2, <1>4, <2>1, <2>2, <2>3, <2>4, StepKeeps6 DEF Held
<1>6. CASE AllocResults(t)
  <2> DEFINE l == [loc[t] EXCEPT !.size = param["loop_count"]]
  <2>1. /\ at[t] = "results" /\ UNCHANGED <<sysfs, kb_lock, call>>
        /\ at' = [at EXCEPT ![t] = "addrs"] /\ loc' = [loc EXCEPT ![t] = l]
    BY <1>6 DEF AllocResults, Goto
  <2>2. PICK got \in SUBSET Buffers : heap' = [heap EXCEPT ![t] = got]
    BY <1>6 DEF AllocResults, Buffers
  <2>3. l \in Locals
    BY <1>2, <1>3 DEF Locals
  <2>4. Fresh(l)
    BY <1>1, <1>2, <2>1 DEF RunsStart, Fresh, Locals
  <2> QED BY <1>4, <2>1, <2>2, <2>3, <2>4, StepKeeps6 DEF Held
<1>7. CASE AllocBatch(t)
  <2>1. at[t] = "addrs" /\ UNCHANGED <<sysfs, kb_lock, call>>
    BY <1>7 DEF AllocBatch
  <2>2. PICK got \in SUBSET (Wanted6(t) \ {"results"}) :
          /\ heap' = [heap EXCEPT ![t] = @ \cup got]
          /\ IF heap[t] \cup got = Wanted6(t)
               THEN /\ Goto(t, "lock")
                    /\ loc' = [loc EXCEPT ![t].room =
                                 IF loc[t].batch > 1 THEN param["loop_count"] ELSE 0]
               ELSE /\ Goto(t, "nomem")
                    /\ loc' = [loc EXCEPT ![t] = NoLocals]
    BY <1>7 DEF AllocBatch
  <2> DEFINE h == heap[t] \cup got
             l == [loc[t] EXCEPT !.room = IF loc[t].batch > 1 THEN param["loop_count"] ELSE 0]
  <2>3. heap' = [heap EXCEPT ![t] = h] /\ h \in SUBSET Buffers
    BY <1>2, <2>2 DEF Wanted6, Buffers
  <2>4. l \in Locals
    BY <1>2, <1>3 DEF Locals
  <2>5. Fresh(l)
    BY <1>1, <1>2, <2>1 DEF RunsStart, Fresh, Locals
  <2>6. NoLocals \in Locals
    BY DEF NoLocals, Locals
  <2>7. CASE h = Wanted6(t)
    <3>1. at' = [at EXCEPT ![t] = "lock"] /\ loc' = [loc EXCEPT ![t] = l]
      BY <2>2, <2>7 DEF Goto
    <3> QED BY <1>4, <2>1, <2>3, <2>4, <2>5, <3>1, StepKeeps6 DEF Held
  <2>8. CASE h # Wanted6(t)
    <3>1. at' = [at EXCEPT ![t] = "nomem"] /\ loc' = [loc EXCEPT ![t] = NoLocals]
      BY <2>2, <2>8 DEF Goto
    <3> QED BY <1>4, <2>1, <2>3, <2>6, <3>1, StepKeeps6 DEF Held
  <2> QED BY <2>7, <2>8
<1>8. CASE Lock(t)
  <2>1. /\ at[t] = "lock" /\ UNCHANGED <<sysfs, call>> /\ kb_lock = NoThread /\ kb_lock' = t
        /\ at' = [at EXCEPT ![t] = "warmup"]
    BY <1>8 DEF Lock, Goto
  <2>2. heap' = [heap EXCEPT ![t] = heap[t]] /\ loc' = [loc EXCEPT ![t] = loc[t]]
    BY <1>1, <1>8 DEF Lock, TypeOK
  <2>3. Fits6(loc[t], param["loop_count"], "warmup")
    BY <1>1, <1>3, <2>1 DEF RunsStart, Fresh, Fits6
  <2> QED BY <1>2, <1>4, <2>1, <2>2, <2>3, StepKeeps6 DEF Held
<1> QED BY <1>5, <1>6, <1>7, <1>8

\* Steps with the mutex, up to its release.
LEMMA HeldKeeps ==
  ASSUME Inv6, NEW t \in Threads,
         \/ WarmedUp(t) \/ Lookup(t) \/ LoopEnds6(t) \/ TimeBatch6(t) \/ BatchesEnd(t) \/ Unlock(t)
  PROVE  Inv6'
<1> DEFINE l == loc[t]
           L == param["loop_count"]
<1>1. TypeOK /\ MutexHeld6 /\ RunsFit6
  BY DEF Inv6, SysfsInvariant
<1>2. l \in Locals /\ heap[t] \in SUBSET Buffers
  BY <1>1 DEF TypeOK
<1>3. L \in Nat
  BY <1>1 DEF TypeOK, Names
<1>4. \A w \in Held \cup {"stats"} : w \in Places \ {"show", "store", "begin"} /\ w # "idle"
  BY DEF Places, Held
<1>5. at[t] \in Held
  BY DEF WarmedUp, Lookup, Looping6, LoopEnds6, TimeBatch6, BatchesEnd, Unlock, Held
<1>6. Fits6(l, L, at[t]) /\ kb_lock = t
  BY <1>1, <1>5 DEF RunsFit6, MutexHeld6, InBench6, Held
<1>7. UNCHANGED <<sysfs, call>>
  BY DEF WarmedUp, Lookup, LoopEnds6, TimeBatch6, BatchesEnd, Unlock
\* With the mutex kept, it is the locals that matter.
<1>8. ASSUME NEW w \in Held, at' = [at EXCEPT ![t] = w], NEW new \in Locals,
             loc' = [loc EXCEPT ![t] = new], Fits6(new, L, w), UNCHANGED <<kb_lock, heap>>
      PROVE  Inv6'
  <2>1. heap' = [heap EXCEPT ![t] = heap[t]]
    BY <1>1, <1>8 DEF TypeOK
  <2> HIDE DEF L
  <2> QED BY <1>2, <1>4, <1>5, <1>6, <1>7, <1>8, <2>1, StepKeeps6 DEF Held, L
<1>9. CASE WarmedUp(t)
  <2>1. at[t] = "warmup" /\ at' = [at EXCEPT ![t] = "loop"] /\ UNCHANGED <<kb_lock, heap, loc>>
    BY <1>9 DEF WarmedUp, Goto
  <2>2. loc' = [loc EXCEPT ![t] = l] /\ Fits6(l, L, "loop")
    BY <1>1, <1>6, <2>1 DEF Fits6, TypeOK
  <2> QED BY <1>2, <1>8, <2>1, <2>2 DEF Held
<1>10. CASE Lookup(t)
  <2>1. /\ at[t] = "loop" /\ UNCHANGED <<kb_lock, heap, at>> /\ l.total < L
    BY <1>10 DEF Lookup, Looping6
  <2>2. PICK match \in {0, 1} :
          loc' = [loc EXCEPT ![t] = [l EXCEPT !.i = @ + 1, !.total = @ + match]]
    BY <1>10 DEF Lookup
  <2> DEFINE new == [l EXCEPT !.i = @ + 1, !.total = @ + match]
  <2>3. l.i + 1 \in Nat /\ l.total + match \in Nat /\ l.total + match <= L
    BY <1>2, <1>3, <2>1 DEF Locals
  <2>4. new \in Locals
    BY <1>2, <2>3 DEF Locals
  <2>5. Fits6(new, L, "loop")
    BY <1>2, <1>6, <2>1, <2>3 DEF Fits6, Locals
  <2>6. at' = [at EXCEPT ![t] = "loop"]
    BY <1>1, <2>1 DEF TypeOK
  <2> QED BY <1>8, <2>1, <2>2, <2>4, <2>5, <2>6 DEF Held
<1>11. CASE LoopEnds6(t)
  <2>1. at[t] = "loop" /\ UNCHANGED <<kb_lock, heap, loc>>
    BY <1>11 DEF LoopEnds6
  <2>2. PICK w \in {"batch", "unlock"} : at' = [at EXCEPT ![t] = w]
    BY <1>11 DEF LoopEnds6, Goto
  <2>3. l.j = l.n * l.batch /\ l.j <= l.total
    <3>1. l.n = 0 /\ l.j = 0 /\ l.batch \in Nat /\ l.total \in Nat
      BY <1>2, <1>6, <2>1 DEF Fits6, Locals
    <3>2. 0 * l.batch = 0
      BY <3>1
    <3> QED BY <3>1, <3>2
  <2>4. loc' = [loc EXCEPT ![t] = l] /\ Fits6(l, L, w)
    BY <1>1, <1>6, <2>1, <2>2, <2>3 DEF Fits6, TypeOK
  <2> QED BY <1>2, <1>8, <2>1, <2>2, <2>4 DEF Held
<1>12. CASE TimeBatch6(t)
  <2> DEFINE new == [l EXCEPT !.j = @ + l.batch, !.n = @ + 1]
  <2>1. /\ at[t] = "batch" /\ UNCHANGED <<kb_lock, heap, at>> /\ l.j + l.batch <= l.total
        /\ loc' = [loc EXCEPT ![t] = new]
    BY <1>12 DEF TimeBatch6, Batched
  <2>2. /\ l.j \in Nat /\ l.batch \in Nat \ {0} /\ l.n \in Nat /\ l.total \in Nat
        /\ l.j = l.n * l.batch /\ l.total <= L
    BY <1>2, <1>6, <2>1 DEF Fits6, Locals
  <2>3. (l.n + 1) * l.batch = l.j + l.batch
    BY <2>2
  <2>4. l.n + 1 <= L
    <3>1. l.n + 1 <= (l.n + 1) * l.batch
      <4>1. \A a \in Nat, b \in Nat \ {0} : a <= a * b
        <5>1. SUFFICES ASSUME NEW a \in Nat, NEW b \in Nat \ {0} PROVE a <= a * b
          OBVIOUS
        <5>2. a * b = a * (b - 1) + a /\ a * (b - 1) \in Nat
          <6>1. b - 1 \in Nat
            OBVIOUS
          <6>2. \A x, y \in Nat : x * y \in Nat
            OBVIOUS
          <6> QED BY <6>1, <6>2
        <5> QED BY <5>2
      <4> QED BY <2>2, <4>1
    <3> QED BY <1>3, <2>1, <2>2, <2>3, <3>1
  <2>5. new \in Locals
    <3>1. l.j + l.batch \in Nat /\ l.n + 1 \in Nat
      BY <2>2
    <3> QED BY <1>2, <3>1 DEF Locals
  <2>6. Fits6(new, L, "batch")
    BY <1>2, <1>6, <2>1, <2>2, <2>3, <2>4 DEF Fits6, Locals
  <2>7. at' = [at EXCEPT ![t] = "batch"]
    BY <1>1, <2>1 DEF TypeOK
  <2> QED BY <1>8, <2>1, <2>5, <2>6, <2>7 DEF Held
<1>13. CASE BatchesEnd(t)
  <2> DEFINE new == [l EXCEPT !.total = l.n]
  <2>1. /\ at[t] = "batch" /\ UNCHANGED <<kb_lock, heap>> /\ at' = [at EXCEPT ![t] = "unlock"]
        /\ loc' = [loc EXCEPT ![t] = new]
    BY <1>13 DEF BatchesEnd, Goto
  <2>2. new \in Locals
    BY <1>2 DEF Locals
  <2>3. Fits6(new, L, "unlock")
    BY <1>2, <1>6 DEF Fits6, Locals
  <2> QED BY <1>8, <2>1, <2>2, <2>3 DEF Held
<1>14. CASE Unlock(t)
  <2> DEFINE h == heap[t] \ {"addrs", "batched_fl", "batched_dst"}
  <2>1. /\ kb_lock' = NoThread /\ at' = [at EXCEPT ![t] = "stats"]
        /\ heap' = [heap EXCEPT ![t] = h] /\ UNCHANGED loc
    BY <1>14 DEF Unlock, Goto
  <2>2. h \in SUBSET Buffers /\ h \subseteq {"results"}
    BY <1>2 DEF Buffers
  <2>3. loc' = [loc EXCEPT ![t] = l]
    BY <1>1, <2>1 DEF TypeOK
  <2>4. "stats" \notin Held \cup {"idle", "results", "addrs", "lock"}
        /\ "stats" \in Places \ {"show", "store", "begin"}
    BY DEF Held, Places
  <2>5. at[t] \notin {"idle", "show", "store"}
    BY <1>5 DEF Held
  <2>6. kb_lock' = IF "stats" \in Held THEN t ELSE IF at[t] \in Held THEN NoThread ELSE kb_lock
    BY <1>5, <2>1, <2>4
  <2> HIDE DEF h, l
  <2> QED BY <1>2, <1>7, <2>1, <2>2, <2>3, <2>4, <2>5, <2>6, StepKeeps6
<1> QED BY <1>9, <1>10, <1>11, <1>12, <1>13, <1>14

LEMMA BenchKeepsInv6 ==
  ASSUME Inv6, NEW t \in Threads, Bench6(t) PROVE Inv6'
<1>1. TypeOK /\ RunsStart
  BY DEF Inv6, SysfsInvariant
<1>2. CASE NoMemory6(t)
  BY <1>1, <1>2, ReturnKeeps6 DEF NoMemory6, TypeOK, Held
<1>3. CASE WarmupFails6(t)
  BY <1>1, <1>3, ReturnKeeps6 DEF WarmupFails6, TypeOK, Held
<1>4. CASE Statistics6(t)
  BY <1>1, <1>4, ReturnKeeps6 DEF Statistics6, RunsStart, Held, Buffers
<1> QED BY <1>2, <1>3, <1>4, StartKeeps, HeldKeeps, MadKeeps DEF Bench6

-----------------------------------------------------------------------------
(* The steps of IPv6 *)

LEMMA NextKeepsInv6 ==
  ASSUME Inv6, [Next6]_kbench PROVE Inv6'
<1>1. CASE Load
  <2>1. /\ SysfsInvariant' /\ UNCHANGED <<kb_lock, at, heap, loc>>
        /\ UNCHANGED param \/ \A t \in Threads : at[t] = "idle"
    BY <1>1, LoadKeeps DEF Inv6
  <2>2. MutexHeld6' /\ RunsStart'
    BY <2>1 DEF Inv6, MutexHeld6, RunsStart, InBench6
  <2>3. RunsFit6'
    BY <2>1 DEF Inv6, RunsFit6, InBench6
  <2> QED BY <2>1, <2>2, <2>3 DEF Inv6
<1>2. CASE \E t \in Writers : Files6(t)
  BY <1>2, FilesKeep6, SysfsAssumption
<1>3. ASSUME NEW t \in Runners6, Run(t) PROVE Inv6'
  BY <1>3, RunKeeps, FileStep, Runners6Assumption DEF Inv6
<1>4. CASE \E t \in Runners6 : Bench6(t)
  BY <1>4, BenchKeepsInv6, Runners6Assumption
<1>5. CASE UNCHANGED kbench
  BY <1>5 DEF kbench, sysfs, Inv6, SysfsInvariant, TypeOK, CountsArePositive, StoresAreValid,
              IdleIsClean, MutexHeld6, RunsFit6, RunsStart, InBench6
<1> QED BY <1>1, <1>2, <1>3, <1>4, <1>5 DEF Next6

-----------------------------------------------------------------------------
(* The benchmark of a host *)

\* The invariant of the module that was built.
Inv == (version = "ipv4" /\ Inv4) \/ (version = "ipv6" /\ Inv6)

LEMMA InitInv ==
  ASSUME Init PROVE Inv
BY InitInv4, InitInv6, VersionsAssumption DEF Init, Inv

LEMMA NextKeepsInv ==
  ASSUME Inv, [Next]_vars PROVE Inv'
<1>1. CASE UNCHANGED vars
  <2>1. UNCHANGED version /\ UNCHANGED kbench
    BY <1>1 DEF vars
  <2> QED BY <2>1, NextKeepsInv4, NextKeepsInv6 DEF Inv
<1>2. CASE BenchIpv4 /\ UNCHANGED version
  BY <1>2, NextKeepsInv4 DEF BenchIpv4, Inv
<1>3. CASE BenchIpv6 /\ UNCHANGED version
  BY <1>3, NextKeepsInv6 DEF BenchIpv6, Inv
<1> QED BY <1>1, <1>2, <1>3 DEF Next

LEMMA Invariance == Spec => []Inv
  BY InitInv, NextKeepsInv, PTL DEF Spec

\* The types of the module that was built and of its files.
THEOREM KbenchTyped == Spec => []TypeOK
<1>1. Inv => TypeOK
  BY DEF Inv, Inv4, Inv6, SysfsInvariant
<1> QED BY <1>1, Invariance, PTL

\* A thread that is out of do_bench, on whatever path it left, has given back
\* its buffers and the mutex, and the module is unloaded under nobody's feet.
THEOREM NothingIsLeft == Spec => []NothingLeft
<1>1. Inv4 => NothingLeft
  BY SysfsAssumption DEF Inv4, SysfsInvariant, IdleIsClean, Unlocked, NothingLeft
<1>2. Inv6 => NothingLeft
  BY DEF Inv6, SysfsInvariant, IdleIsClean, MutexHeld6, InBench6, NothingLeft
<1>3. Inv => NothingLeft
  BY <1>1, <1>2 DEF Inv
<1> QED BY <1>3, Invariance, PTL

\* The mutex is held from the warm-up of IPv6 to the end of its batches, and by
\* nobody else: no path out of do_bench keeps it.
THEOREM MutexIsHeld == Spec => []MutexHeld
<1>1. Inv => MutexHeld
  BY DEF Inv, Inv6, MutexHeld
<1> QED BY <1>1, Invariance, PTL

\* A step of the IPv6 module, while a thread has its mutex.
LEMMA NextLeavesParameters ==
  ASSUME Inv6, [Next6]_kbench, NEW t \in Threads, InBench6(t) PROVE UNCHANGED param
<1>1. kb_lock = t /\ kb_lock # NoThread /\ at[t] # "idle"
  BY SysfsAssumption DEF Inv6, MutexHeld6, InBench6
<1>2. CASE Load
  BY <1>1, <1>2, LoadKeeps DEF Inv6
<1>3. ASSUME NEW u \in Writers, Files6(u) PROVE UNCHANGED param
  <2>1. ~Stored(u)
    BY <1>1 DEF Stored, Finish
  <2>2. CASE Shown(u)
    BY <2>2 DEF Shown
  <2>3. CASE \E name : Show(u, name) \/ \E vals : Store(u, name, vals)
    BY <2>3 DEF Show, Store
  <2> QED
    BY <1>3, <2>1, <2>2, <2>3 DEF Files6, File, WarmupCount, LoopCount, MaxLoopCount, BatchCount,
       FlowOif, FlowIif, FlowLabel, FlowMark, FlowDstS6, FlowDstE6, FlowSrc6
<1>4. ASSUME NEW u \in Runners6, Run(u) \/ Bench6(u) PROVE UNCHANGED param
  BY <1>4 DEF Run, Bench6, ReadBatch, AllocResults, AllocBatch, NoMemory6, Lock, WarmedUp,
     WarmupFails6, Lookup, LoopEnds6, TimeBatch6, BatchesEnd, Unlock, Statistics6, MadFails, sysfs
<1>5. CASE UNCHANGED kbench
  BY <1>5 DEF kbench
<1> QED BY <1>2, <1>3, <1>4, <1>5 DEF Next6

\* No write and no reload changes a parameter under an IPv6 benchmark that reads
\* it again for each lookup.
THEOREM ParametersAlwaysStay == Spec => ParametersStay
<1> DEFINE Stays == version = "ipv6" /\ (\E t \in Threads : InBench6(t)) => UNCHANGED param
<1>1. Inv /\ [Next]_vars => [Stays]_vars
  <2> SUFFICES ASSUME Inv, [Next]_vars, version = "ipv6", NEW t \in Threads, InBench6(t)
               PROVE  UNCHANGED param
    OBVIOUS
  <2>1. Inv6 /\ [Next6]_kbench
    BY DEF Inv, Next, BenchIpv4, BenchIpv6, vars
  <2> QED BY <2>1, NextLeavesParameters
<1> QED BY <1>1, Invariance, PTL DEF Spec, ParametersStay

LEMMA BuffersFitIpv4 ==
  ASSUME Inv4 PROVE BuffersFit4
<1> SUFFICES ASSUME NEW t \in Threads, InBench4(t)
             PROVE  /\ loc[t].total < loc[t].size
                    /\ loc[t].batch > 1 => loc[t].j < loc[t].batch
  BY DEF BuffersFit4
<1> DEFINE l == loc[t]
<1>1. l \in Locals /\ Fits4(l)
  BY DEF Inv4, SysfsInvariant, TypeOK, RunsFit4
<1>2. l.total * l.batch <= l.count
  <2>1. l.total * l.batch \in Nat
    BY <1>1, Product DEF Locals
  <2> QED BY <1>1, <2>1 DEF Fits4, Locals
<1>3. l.total <= l.count \div l.batch /\ l.count \div l.batch \in Nat
  <2>1. l.count \in Nat /\ l.batch \in Nat \ {0} /\ l.total \in Nat
    BY <1>1 DEF Fits4, Locals
  <2> QED BY <1>2, <2>1, Batches, Division
<1> QED BY <1>1, <1>3 DEF Fits4, Locals

LEMMA BuffersFitIpv6 ==
  ASSUME Inv6 PROVE BuffersFit6
<1> SUFFICES ASSUME NEW t \in Threads, InBench6(t)
             PROVE  LET l == loc[t] IN
                    /\ param["loop_count"] <= l.size =>
                         (IF l.batch > 1 THEN l.n ELSE l.total) <= l.size
                    /\ l.batch > 1 /\ param["loop_count"] <= l.room => l.total <= l.room
  BY DEF BuffersFit6
<1>1. loc[t] \in Locals /\ param["loop_count"] \in Nat
  BY DEF Inv6, SysfsInvariant, TypeOK, Names
<1>2. loc[t].total <= param["loop_count"] /\ loc[t].n <= param["loop_count"]
  BY DEF Inv6, RunsFit6, Fits6
<1> QED BY <1>1, <1>2 DEF Locals

\* The buffers of IPv4 are large enough for every batch_count and loop_count, and
\* stay so when these change during the run; those of IPv6 are if loop_count was
\* not raised between the allocation and the mutex.
THEOREM BuffersAreLargeEnough == Spec => []BuffersFit
<1>1. Inv => BuffersFit
  BY BuffersFitIpv4, BuffersFitIpv6 DEF Inv, BuffersFit
<1> QED BY <1>1, Invariance, PTL

\* A sample counts as many lookups as the report multiplies it by (IPv4), and is
\* the time of batch_count addresses, none of them twice (IPv6).
THEOREM SamplesStayWhole == Spec => []SamplesAreWhole
<1>1. Inv4 => SamplesAreWhole4
  BY DEF Inv4, RunsFit4, Fits4, SamplesAreWhole4
<1>2. Inv6 => SamplesAreWhole6
  BY DEF Inv6, RunsFit6, Fits6, InBench6, SamplesAreWhole6
<1>3. Inv => SamplesAreWhole
  BY <1>1, <1>2 DEF Inv, SamplesAreWhole
<1> QED BY <1>3, Invariance, PTL

LEMMA InRangeIpv4 ==
  ASSUME Inv4 PROVE InRange4
<1> SUFFICES ASSUME NEW t \in Threads, Looping4(t), loc[t].delta > 0
             PROVE  Daddr(loc[t]) \in loc[t].start .. loc[t].start + loc[t].delta - 1
  BY DEF InRange4
<1> DEFINE l == loc[t]
<1>1. l \in Locals /\ Fits4(l) /\ l.i < l.count
  BY DEF Inv4, SysfsInvariant, TypeOK, RunsFit4, InBench4, Looping4
<1>2. l.start \in Nat /\ l.delta \in Nat \ {0} /\ l.i \in Nat /\ l.count \in Nat \ {0}
  BY <1>1 DEF Locals
<1>3. CASE l.delta < l.count
  <2>1. l.i % l.delta \in 0 .. l.delta - 1
    BY <1>2, Division
  <2> QED BY <1>2, <1>3, <2>1 DEF Daddr
<1>4. CASE l.count <= l.delta
  <2>1. (l.delta \div l.count) * l.i \in 0 .. l.delta - 1
    BY <1>1, <1>2, <1>4, Steps
  <2> QED BY <1>2, <1>4, <2>1 DEF Daddr
<1> QED BY <1>2, <1>3, <1>4

\* No lookup is outside of an IPv4 range that ascends, whatever its size and the
\* number of lookups.
THEOREM LookupsStayInRange == Spec => []InRange
<1>1. Inv => InRange
  BY InRangeIpv4 DEF Inv, InRange
<1> QED BY <1>1, Invariance, PTL
=============================================================================
