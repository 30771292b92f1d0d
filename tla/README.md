# Verification of network-lab

network-lab is a collection of network laboratories. A lab is a shell script
(`lab-*/setup`) that spawns virtual machines, routers and network namespaces,
connects them with switches, and configures what runs in them. The programs of
the repository are few and the labs that use them many: this directory has
TLA+ modules of the programs, TLC runs of small instances of them, and proofs
for TLAPS. Paths below are relative to `src/`.

## 1. Inventory

| component | source | state | modules |
|---|---|---|---|
| guest boot | `common/lab-setup` (STATE machine, `link`, `start_ns`) | STATE of each VM, namespaces, `/tmp/ready` | `LabBoot`, `LabReadiness` |
| host launcher | `common/lab-setup` (`spawn`, `start_*`, `run`, `cleanup`) | `$TMP`: counters, pid files, `ssh_config`, `ssh-junos.conf`; tmux windows; switches | `LabLaunch`, `LabMachines` |
| BGP healthcheck | `lab-exabgp/healthcheck.py` | state, counter, disable file | `Healthcheck`, `Hysteresis` |
| clab-gnmi launcher | `clab-gnmi/setup.py` | three processes, two pipes, id maps, network | `ClabLaunch` |
| lookup benchmarks: files and runs | `lab-routes-ipv4/kbench_mod.c`, `lab-routes-ipv6/kbench_mod.c`, `lab-routes-ipv6/2026/kbench_mod.c` | parameters, their mutex, threads in a handler, buffers, references to devices | `KbenchSysfs`, `Kbench4`, `Kbench6`, `Kbench` |
| lookup benchmarks: report | the same | sorted samples, running mean, the walk of a tree, the rows of a histogram | `KbenchStats`, `KbenchDepth`, `KbenchReport` |
| lookup benchmarks: scan of IPv6 | `lab-routes-ipv6/2026/kbench_mod.c` | the address of a lookup | `KbenchScan`, `LinearScan` |
| IOU to VDE bridge | `lab-iou/iou2vde.py` | wires between plugs, open connections | - |
| HTTP clients | `lab-3tier-lb/httpclients.{go,py}`, `lab-ipvs/httprequests.py` | outstanding requests | - |

`PROJECT.json` also lists the parts that are not modelled.

### Guest boot

`common/lab-setup` is sourced by every lab, and is at once the launcher on the
host, `/init` of the initrd, the system initialisation of each VM, its login
program and its shell. A variable, `STATE`, is passed from one `exec` to the
next and tells which: BEGIN (initrd), CHROOTED (system), GETTY (login), SETUP
(while the lab's own script is sourced) and SHELL. A *namespace* is a machine
that lives inside another VM: a tmux window of the host polls `/tmp/ready` of
that VM over ssh, then enters the namespace over ssh again, and runs the same
script from BEGIN.

- Operations: one transition per state, `spawn ns` and `link` during SETUP, the
  `touch` of `/tmp/ready`, the polling loop and the two ssh commands of a
  window, its respawn by the user.
- Interactions: the launcher opens the windows; a namespace sees its VM only
  through ssh. Everything in a VM is lost when it stops.
- What is hard: all windows start at once, a VM may stop or restart between
  any two commands of a namespace's window, and `set -e` is the only error
  handling, in every process.
- Correctness: a namespace offers its shell only when it is really configured;
  `/tmp/ready` means that all the namespaces of the VM are made and linked; no
  window polls for ever; a boot where nothing fails brings everything up.

### Host launcher

`spawn` starts a VDE switch for each network of the line and a tmux window for
each machine; fourteen kinds of machines have a `start_*` function each. Ports
and MAC addresses come from counters kept in files of `$TMP`, because they are
read in command substitutions. A window runs a script, `*.exec`, which prepares
disks, and then replaces itself by qemu through `start-stop-daemon`, which
leaves a pid file. `cleanup`, in the exit trap, kills what has a pid file,
waits a second, kills harder, removes `$TMP` and ends the tmux session.

- What is hard: windows and switches run on their own while the launcher goes
  on, fails, or cleans up; they share the files of `$TMP`; the user may respawn
  a window at any time; fourteen functions repeat the same plugging loop.
- Correctness: nothing survives cleanup, whenever it comes; addresses are
  unique; a machine is on the networks of its line and gets its own name.

### BGP healthcheck

A process of ExaBGP that runs a check command in a loop and prints route
announcements. Six states, one counter shared by two of them, two thresholds,
a disable file that wins over everything, hooks at each transition.

- What is hard: the file and the service change in the middle of a turn; the
  thresholds may be one or less and then take shortcuts; the counter must never
  be carried from one direction to the other.
- Correctness: every result is counted as what it is; what is announced changes
  only after the required number of consecutive results, or because of the file,
  in the turn that sees it; a dead service ends as down.

### clab-gnmi launcher

A parent that stays in the initial namespaces, a child that unshares its own,
and a grand-child that becomes tmux. The child says through a pipe that it has
unshared, the parent maps its ids and starts pasta, then releases it through
the other pipe.

- What is hard: any of the three may fail or be interrupted at any point, and
  what the others see of that is the end of a pipe, which looks like a byte.
- Correctness: nobody waits for ever; no failure becomes a success; the child
  goes on only once configured.

### Lookup benchmarks

Kernel modules driven by files of `/sys/kernel/kbench`: each parameter has one,
and reading `run` or `run_verbose` makes a benchmark in the reader's thread
(`do_bench`). It looks up addresses that scan a range in equal steps, one by
one or in batches, sorts the times, and prints figures, a histogram and, for
IPv6, the depth of the routing tree. IPv4 copies the parameters under the
mutex and then runs without it; IPv6 keeps the mutex until all lookups are
done. `lab-routes-ipv4/2026/kbench_mod.c` is the same file as
`lab-routes-ipv4/kbench_mod.c`; the IPv6 module of `2026` is the older one with
batches.

- What is hard: any number of threads are in the files at once, while the
  module may be leaving; sizes are computed from a parameter that is read again
  later; 128-bit arithmetic by hand, on words whose width is that of `unsigned
  int` while carries are looked for at the width of `unsigned long`; a walk with
  neither stack nor recursion; percentiles of small samples.
- Correctness: no way out of a handler keeps a buffer or the mutex; buffers
  suffice whatever is written meanwhile; every call and every unload ends; no
  lookup leaves the range; a sample is a whole batch; the walk ends and counts
  each route once; the figures are those of the samples.

### IOU to VDE bridge

An event loop that connects the interfaces of Cisco IOU instances, described by
a NETMAP file, to VDE switches. A plug holds its peers; when a switch is lost
its plug is closed. Hard: what is still forwarded by and to a plug that was
closed, several mappings with the same key. Correctness: a frame reaches the
plugs of its wire and no other, and none after the close.

## 2. Plan

Done:

1. `LabBoot` with `LabReadiness` as its abstract specification, and proofs.
2. `LabMachines` and `LabLaunch`, and proofs.
3. `Healthcheck` with `Hysteresis`, and proofs.
4. `ClabLaunch`, and proofs.
5. `KbenchScan` with `LinearScan`, and proofs.
6. `KbenchSysfs` with `Kbench4` and `Kbench6`, composed in `Kbench`, and proofs.
7. `KbenchStats` and `KbenchDepth` (with subtrees), composed in `KbenchReport`,
   and proofs.

Every safety invariant, action property and refinement that a passing run
checks is also proved.

Left, in this order:

1. `IouBridge`: wires, frames in flight, loss of a switch; an abstract hub per
   wire that it implements.
2. `HealthcheckAddresses`: the setup of loopback addresses; the metrics of the
   announced routes, and a composition of the three workers of `lab-exabgp`
   that announce the same addresses with different metrics.
3. `HttpClients`: bounded outstanding requests, timeouts and their late answers.
4. `LabSession`: `LabLaunch` and `LabBoot` composed; two labs that share a host
   and its ports.
5. Theorems about these modules, as they come.

Every module is written to be proved about: no RECURSIVE operator, constants
with a named assumption, one action per operation.

## 3. Modules and the code

### LabBoot (abstract: LabReadiness)

`vm` is the STATE of process 1 of each VM: `begin` is the initrd, `setup` the
sourced setup of the lab, `none` and `dead` before and after qemu. `netns`,
`linked` and `addressed` are what the setup of `lab-generic` makes: network
namespaces, veth pairs with an end in one, interfaces with an address. `ns` is
where the window of a namespace is: `poll` is the loop on `/tmp/ready`, `enter`
the point between the two ssh commands, then the states of the script.

`StartVM` stands for the exec of `start_vm`; `Begin`, `Chrooted`, `Getty`,
`TouchReady` and `Shell` for the branches of the final `case`. `SpawnNetns` and
`Link` are commands of the sourced setup, and `TouchReady` comes only after all
of them, as in the code. `StopVM` and `StopNS` are the failures: a command
under `set -e`, a kernel panic, a lost connection, a user. They may come in
every state. `EnterFails` and `NsAddressFails` are the failures that the state
itself causes.

An address is added with `ip addr add`, which fails when it exists: that is why
a namespace comes up at most once per boot, which is what `LabReadiness` says.
Its five lives (absent, linked, claimed, up, spent) are read off `linked`,
`addressed` and `ns` by `Life`.

Assumptions: the ssh sessions of a VM end in the step in which it stops; the
setup of the namespaces is that of `lab-generic` (links, one address, services).

### LabMachines and LabLaunch

`LabMachines` has one operator per `start_*` function: what it asks of the
launcher (ports, MAC addresses, internal switches) and where it plugs the
networks. `LabLaunch` is the launcher with its switches and windows. `pc` goes
through `spawn` (`switches`, then `start`), the help screen and cleanup
(`term`, `kill`, `rm`, `session`). `hosts` is `$TMP/ssh_config` and `nics` the
MAC addresses given to each machine. A window is `forked` when tmux has opened
it, `configured` after it has read what it needs, `running` once qemu runs.

`SpawnStartFails` opens any subset of the windows of the line. `Term` stops any
subset of the processes with a pid file, `KillAll` all of them. `Respawn` may
come as long as `$TMP` is there; `ExecLost` is a script that finds `$TMP` gone.

Assumptions: the second between the two kills is enough for a switch that was
just forked to write its pid file (the guard of `KillAll`); the user does not
ask for a lab whose names collide; the rocker ports, and the preparation of
kernel and initrd, are left out.

### Healthcheck (abstract: Hysteresis)

One action per phase of a turn: `Look` at the file, `Check`, `Decide`,
`Execute` the hooks, `Announce`. `Decide` is the chain of transitions, one
definition per branch. `file` and `healthy` belong to the environment and may
change between any two phases; a healthy service may still fail its check (the
alarm), a dead one cannot pass it. `Disabling` is the first condition of the
chain: where it does not hold, the branch of the state is taken, as in the code.

`Hysteresis` has no states, only two counters. A turn of it sees a result
(`See`), counts it (`Succeed`, `Fail`, `Disable`, `Resume`) and announces what
the counters amount to (`Announce`). The mapping takes the result from
`disabled` and `successful` while it is not decided on (`Seen`), the counters
from the state, and the verdict from what was last told to ExaBGP. A step that
decides must therefore count the result, as the success or failure that it was:
to ignore it or to take one for the other is not a step of `Hysteresis`.

Left out: the metrics, and the loopback addresses.

### ClabLaunch

`held` has the pipe ends that each process keeps open: `Read` succeeds on a
byte or when nobody can write, and does not say which, as `os.read` whose
result is dropped. `Waited` passes the exit status on. `ParentFails`,
`ChildFails` and `GrandFails` may come anywhere; `ParentStuck`, `ChildStuck`
and `GrandStuck` are the same failures where the step itself cannot succeed,
and only these are fair. pasta may fail after it opened its log (`net = "log"`),
and the grand-child cannot enter without that log, which it binds.

### KbenchSysfs, Kbench4, Kbench6, Kbench

`KbenchSysfs` has what both modules share. `module` is `kobject` between the two
calls of `kbench_init`, and `leaving` while `sysfs_remove_group` waits for the
handlers that run. `at` is where each thread is: a handler is two steps, one up
to the mutex (`Show`, `Store`: the input is parsed there, and a refused one
changes nothing) and one under it (`Shown`, `Stored`). `call` is what the
handler has in its local variables in between. An input is a number or a text;
which are accepted is one operator per parser (`Count`, `Iface`, `Tos`, `Word`,
`Address`, and `InAton` of IPv4, which accepts everything). `pinned` has the
devices whose reference `dev_get_by_name` and `dev_get_by_index` took and
nobody puts: nothing is promised of it.

`Kbench4` and `Kbench6` have one action for each part of `do_bench` that other
threads can interfere with: in IPv4 `Snapshot` is all that is under the mutex;
in IPv6 `ReadBatch`, `AllocResults` and `AllocBatch` each read a parameter before
`Lock`. Any allocation and any lookup may fail. `loc` has the local variables:
`size` and `room` are the sizes of the buffers when they were allocated, `heap`
which of them the thread holds. `flag` in `Snapshot` is the local `scan`, which
is set when the range ascends and is otherwise what was on the stack; with it
`DivideError` is the remainder by an empty range, and `MadFails` the `kmalloc`
of `mad` that nobody looks at. A fault loses the thread in its handler
(`oops`), with all that it holds.

IPv6 addresses are single values here: their words are in `KbenchScan`. `Kbench`
is a host with either module: both make the same directory, so that only one of
them is loaded, and `version` is the one that was built.

### KbenchScan (abstract: LinearScan)

`KbenchScan` has `do_bench`'s scan for addresses of `N` words of `B` values;
`long` is the number of words in an `unsigned long` (2 on a 64-bit kernel).
`Borrow`, `Difference`, `Remainder`, `Divide`, `Carry`, `Plus`, `Beyond` and
`Masked` are its loops over words, as recursive functions of the word. `Plus` does what lines 304-311 do: the carry out of a
word is computed first, against `ULONG_MAX`, and added to that same word.
`LinearScan` has the same scan with numbers and counts its lookups. The flag
`scan` is read without being set when the range is empty: its value is any.
Masked bits of the step are taken to be any words up to it. The warm-up lookups
and the batches, which do not change the addresses, are in `Kbench6`.

### KbenchStats, KbenchDepth, KbenchReport

`KbenchStats` has the functions that both modules have twice in their source.
`Percentile` reads `sorted[index + 1]` as the code does, and `beyond` is what may
be in memory after the last sample. `Average` is one turn of IPv4's loop and, at
the same time, of the sum of IPv6: `avg` and `sum` are the two results.
`CountIn` and `PrintRow` are the two branches of the loop of the histogram;
`used` counts the bytes of the page, a bar being three bytes. `Sort` is the
`sort` of the kernel by what it returns. `Order` is an `int` in the code: that it
overflows from rows of 2^35 on, half a minute in nanoseconds, is left out.

`KbenchDepth` has the walk of `collect_depth`: one action per `continue` of its
loop. `Pending` is the case that falls through from the states before it.
`Into` goes to the tree of source-specific routes, which `bench-kernel` enables
(`CONFIG_IPV6_SUBTREES`): the depth is not increased there and is decreased on
the way back, so it drifts by one for each subtree, and wraps around below the
root. The count of routes is exact all the same, and so are the depths of a
table without subtrees; that is what `DepthIsExact` says.

`KbenchReport` puts both in the order of `do_bench`: figures, walk, histogram.

## 4. Runs

| run | bounds | what it shows |
|---|---|---|
| `lab_boot` | 2 VMs, two namespaces in one of them, 2 faults | the invariants, no window hangs, a boot without faults brings all up, refinement of `LabReadiness` |
| `lab_launch` | the labs of `MCScripts` | nothing is left after cleanup, addresses are distinct, machines are plugged |
| `lab_launch_hostname` | 2 Junos routers | **violation**: a router gets the name of another |
| `lab_launch_vjunos` | 1 vJunos router | **violation**: it is on no network |
| `healthcheck` | Rise 3, Fall 2 | refinement of `Hysteresis`, a dead service is announced down, the disable file wins within the turn that sees it |
| `healthcheck_flapping` | Rise 3, Fall 2 | **violation**: a flapping service is not announced again |
| `clab_launch` | the three processes | of those that run one is never blocked, no hang, success means configured |
| `clab_wait` | the three processes | **violation**: the child goes on without its parent |
| `kbench_scan` | 3 words of 6 values, 2 lookups to do, 4 at most; every range of words 0, 2 or 5 (1 as well in the last word) that does not descend | no lookup leaves a range that starts at a prefix or in which no sum overflows; without a borrow the step is the exact quotient; where no sum overflows the scan is that of `LinearScan`, with a long of either width |
| `kbench_linear` | the same; the like of 2000::/3 | **violation**: the scan is not linear with a longer long |
| `kbench_run` | 2 threads, counts up to 3, batches of 2, either module | no buffer or mutex is left, buffers suffice, no parameter changes under an IPv6 benchmark, IPv4 lookups stay in a range that ascends, calls and unloads end; except what section 7 says of IPv6 buffers and of faults |
| `kbench_report` | up to 3 samples of 5 values, 19 to 21 samples of 3 values, every tree within 8 nodes | the averages agree, the percentiles are in order from twenty samples on, no sample is lost to the histogram, the walk ends and counts each route once, and is exact about depths where there is no subtree |

Why the bounds are enough. Two VMs let one restart while the other runs, and
two faults make a restart between the two ssh commands followed by a failure of
the namespace; a namespace only interacts with its own VM. The scripts of
`lab_launch` have one machine of each way of plugging, a machine with two
windows, and a machine without ssh port. Thresholds of 3 and 2 have a state
where the counter is neither at its start nor at its end; the shortcuts of
thresholds of one or less are covered by the theorem, which holds for every
integer. Three words have a first, an inner
and a last one, which is all that the code tells apart. A word that borrows makes
`Difference` wrong: such ranges are among those of the run, and the properties
name what they need (`Ordered`, `Prefixed`, `CarryFree`) rather than the inputs.
Two threads are enough for what one handler does between two steps of
another, and the theorems are for any number; the counts have a loop that
divides into batches, one that does not, and one batch that is more than the
loop. Twenty samples is where the 95th percentile comes to lie among the
samples. Eight nodes have both children, a subtree under the root and one under
its left child, and a child in a subtree. `ClabLaunch` has no bound.

`MCKbench.cfg` does not check deadlock: a thread that is lost to a fault stays
in its handler, and an unload then waits for it for ever. `CallsEnd` and
`UnloadEnds` say that nothing else can block.

## 5. Fairness

- `LabBoot`: the launcher opens each window once and the operating system
  schedules every process (`WF` of the launch, and of the progress of each VM
  and namespace). Nobody has to respawn a window, and faults are not fair.
- `LabLaunch`: `Cleanup` is straight-line code and the switches are scheduled.
  The user need not quit, and a window may stay where it is for ever.
- `Healthcheck`: the loop goes on. The check has an alarm; the hooks have no
  timeout and are taken to return.
- `ClabLaunch`: each process is scheduled; the user need not leave tmux.
- `MCKbench`: each thread is scheduled, with strong fairness because the mutex
  is handed over to those that wait for it (since Linux 4.10 a waiter that was
  passed over is next): a thread that can have it again and again gets it. Nobody has to enter a handler or unload the module.
- `KbenchReport`: the kernel thread runs.

## 6. Proofs

All are for any value of the constants, under the `ASSUME` of the module.

- `LabBoot_proofs`: `BootInv` is inductive. Its parts: `NetworkOrder`
  (addressed is within linked, linked within made, and nothing is made before
  the setup), `ReadyLast` (`/tmp/ready` and the shell come last), `SessionInVM`
  (a session lives in a VM that serves it). The two invariants follow
  (`ReadyLinked`, `ShellConfigured`): without `SessionInVM` a session might
  outlive its VM, and without `ReadyLast` a window that saw the file would
  prove nothing. `BootImplementsReadiness` maps each step to a step of the
  lives or to a stutter, from the same invariant.
  `BootTyped` is its first part.
- `LabLaunch_proofs`: `CleanupIsComplete` from `KillFindsDaemons` (as long as
  `$TMP` exists every daemon can be found by its pid file, and after the second
  kill none runs); `AddressesStayDistinct` from `BelowCounters` (all that was
  given lies below the counters).
- `Healthcheck_proofs`: `CounterBounded`, `FileAlwaysWins`, and
  `HealthcheckImplementsHysteresis`, for any two integers as thresholds. Besides
  the types, the invariant has `DecidedDisabled`: after the decision the state is
  DISABLED if and only if the turn saw the file. The refinement has one lemma
  for each phase that is a step of `Hysteresis`, the decision with one case per
  branch; the bounds of the counter in `TypeOK` are what makes the counters that
  are read off the state those of the results.
- `ClabLaunch_proofs`: `LaunchTyped`, and `SuccessIsConfigured` from
  `GoMeansConfigured` (a parent past a step has done it) and `NotYetForked`.
  `SomebodyAlwaysGoesOn` is the safety half of `NoHang`: the deadlock check of
  TLC says nothing about it, since a failure may always come. It follows from
  `PipesClosed`: a parent that reads has closed `ready_w` and a child past its
  first step `go_w`, so whoever waits for a byte waits for an end that the
  other holds, and the other has written or is on its way to.
- `Kbench_proofs`: the seven safety properties of the run, for any number of
  threads, any counts, any inputs and any range, whatever fails, for both
  modules. `SysfsInvariant` is what the files preserve: types, positive counts,
  that what a handler is about to store is what its file may hold
  (`StoresAreValid`), and that a thread outside of `do_bench` holds nothing
  (`IdleIsClean`). For IPv4, `Fits4` relates the samples to the lookups
  (`total * batch + j <= i <= count`), from which the size `count / batch + 1`
  is enough (`Batches`), and `Daddr` stays in the range because
  `(delta / count) * i` is below `delta` for `i < count` (`Steps`). For IPv6 the
  mutex keeps `loop_count` still from the lock on (`Fits6`), so that only a write
  between the allocation and the lock can make the buffers too small: the
  premise of `BuffersFit`. `ParametersAlwaysStay` needs two parts of the
  invariant: the mutex keeps a handler from storing, and a module that could be
  loaded anew has no thread in it.
- `KbenchScan_proofs`: for addresses of any number of words of any size.
  `LinearIs` and the lemmas after it say how words make numbers; `Borrow`,
  `Remainder` and `Carry` obey their recursive definitions (`BorrowsAre`,
  `RemaindersAre`, `CarriesAre`), from which the subtraction and the long
  division are those of numbers (`DifferenceIsExact`, `DivideIsExact`), the sum
  is when no word overflows (`PlusIsExact`), and the nested comparison is their
  order (`BeyondIsOrder`). Then the invariants: `ScanInvariant` (the types, and the
  step that the range has) gives `StepsAreExact`. `RangeInvariant` gives
  `LookupsInRange`: with a prefix because the sum of the first words never wraps,
  even with a carry; where no sum overflows it
  needs `CarryFreeInvariant`, that the address is at most one step after a number
  of steps that fits, since it is the words and not the number that must not
  overflow in the next sum. `ScanIsLinear` maps each step to one of `LinearScan`.
- `KbenchReport_proofs`: for any samples and any finite tree.
  `SameAverageAlways` follows from `sum = avg * total + remainder` with the
  remainder below `total` (`MeanInvariant`). `FiguresAlwaysInOrder`:
  `ReadsBeyondFew` says exactly when a percentile is read beyond the samples,
  `PercentileBetween` puts it between its two samples, `PercentileCounts` counts
  those below and above, and `SortInOrder` makes the distances of `mad` a
  sequence to which the same applies. `HistogramAlwaysWhole` needs besides itself
  that nothing is counted before the histogram starts (`RowInvariant`).
  `DepthAlwaysExact`: the walk has no stack, so the invariant gives it one.
  `OnTheWay(D, P)` says that there are nodes D that the walk is done with and
  nodes P on its way from the root, such that below each node of P the children
  done with are those before the next node of P; state and node are then enough
  to tell what is left (`NextChild`, `AllBelowDone`, `GoesUp`). `Measured` is what
  the variables hold by then: the routes counted, the depth as the length of the
  way less the subtrees left, the sum and the maximum of the depths. At the end D
  is every node but the root (`AllDone`): the least one missing would have a
  parent that is not. `ReportTyped` puts the types of both parts together.
- `NaturalsLemmas`: quotients and remainders, and induction. The induction
  theorems of the library take an operator, which the provers here cannot
  instantiate; `Minimum` (from the well-foundedness of `<` on the naturals) says
  that a set of naturals has a least element, and each induction is over a set:
  that of the counterexamples, which has no least one. That a recursive function
  is defined is proved from it as well (`Recursion` and `RecursionDown` on an
  interval, `FollowedOnAll` on a set where each number refers to a lower one):
  a function that obeys the definition exists, hence the one that is chosen does.

What the proofs assume is the `ASSUME` of each module, which TLC evaluates on
every run: thresholds are integers; lines of a lab are well formed; counts have
positive defaults; samples are sorted, below half of the values of an `unsigned
long long`, and the page has room for something; the nodes of a tree are
finitely many, at most as many as an `unsigned long` has values, and closed under
parents. `MachinesArePlugged` has as hypotheses that names are distinct and that no
machine is a vJunos, for which it is false.

Only model-checked: the liveness properties (`NoHang`, `FaultFreeBoot`,
`ShutdownEnds`, `DeadServiceGetsDown`, `CallsEnd`, `UnloadEnds`, `ReportEnds`), which depend on fairness and on when actions are
enabled.

## 7. Disagreements found

Each has a run that shows it.

1. `common/lab-setup:166`: one `ssh-junos.conf` for all Junos routers, read
   later by each (`lab_launch_hostname`).
2. `common/lab-setup:1067`: the networks of a vJunos are counted and plugged
   nowhere (`lab_launch_vjunos`).
3. `lab-exabgp/healthcheck.py:270`: nothing is announced in RISING and FALLING,
   while line 353 says that announcements are regular (`healthcheck_flapping`).
4. `clab-gnmi/setup.py:392`: the end of the pipe is taken for the release
   (`clab_wait`).
5. `lab-routes-ipv6/2026/kbench_mod.c:305`: a carry is looked for above
   `ULONG_MAX`, and added to the word it comes out of (`kbench_linear`).

One more that no run shows, since addresses have no byte order in `Kbench4`:
the default end of the IPv4 range is the number 0xdfffffff
(`lab-routes-ipv4/kbench_mod.c:43`) where the files store network order, so on a
little-endian kernel the default scan ends at 255.255.255.223 and not at
223.255.255.255 as line 5 says.

Defects that the models have, but that no line of the repository contradicts, so
that a property excepts them instead of being violated by them:

1. `lab-routes-ipv6/2026/kbench_mod.c:228`: `loop_count` is read to size
   `results` and `addrs` before the mutex is taken, and again at line 301 under
   it. If it is raised in between, the loop writes past the end of both (premise
   of `BuffersFit`).
2. `lab-routes-ipv4/kbench_mod.c:236`: the difference of two unsigned values is
   never below zero, so the ends of a range are never swapped; `scan` is then
   read without being set, and with it the remainder at line 294 may be by zero
   (`DivideError`; `InRange` is about ranges that ascend).
3. `lab-routes-ipv4/kbench_mod.c:110`: `mad` uses what `kmalloc` returned without
   a look at it. The fault loses the thread in its handler, and the module can
   not be unloaded any more (`MadFails`; excepted by `CallsEnd` and
   `UnloadEnds`).
4. `lab-routes-ipv6/kbench_mod.c:92`: `percentile` reads one sample too far when
   there are few: the 95th below twenty samples, the 90th below ten, the median
   of a single one (`ReadsBeyondFew`; `FiguresInOrder` begins at twenty).
5. `lab-routes-ipv6/kbench_mod.c:183`: the depth is decreased on the way out of a
   subtree and not increased on the way in (`DepthIsExact` has the drift as the
   depth at the end, and speaks of the depths of routes only without subtrees).
6. `lab-routes-ipv6/2026/kbench_mod.c:259`: a word that borrows gives a wrong
   step (`StepIsExact` is about ranges without a borrow).

And an assumption: the second that `cleanup` sleeps between its two kills is
enough for a switch that was just forked to write its pid file (guard of
`KillAll`).

## 8. Not modelled

Kernel and initrd preparation, image builds and helper scripts are input and
output without a state that later steps depend on. The configurations of the
labs are data for programs that are not here (BGP daemons, router images). The
older labs carry a copy of the launcher of their time. The bridge of IOU
and the HTTP clients are programs of their own that no lab's state depends on:
they come next in the plan. The kernel samples (`lab-bridge-linux/xdp_drop_all.c`,
`lab-teamd-activebackup/livepatch-teamd-ab.c`) are a constant return value and a
copy of a function of the kernel with one condition removed: what they do is in
code that is not here. In the modelled parts:
process ids that the system reuses (a stale pid file in `$TMP` may name another
process), the pseudo-random numbers (ports and restarts may take any value of
their range), and time, except where a pause orders two steps.
