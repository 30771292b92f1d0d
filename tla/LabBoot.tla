------------------------------- MODULE LabBoot -------------------------------
(***************************************************************************)
(* The guest side of common/lab-setup: the same script is the process 1 of *)
(* the initrd, the system initialisation, the login program and the shell  *)
(* of every VM, and its STATE variable says which.  A namespace is a       *)
(* second instance of the script, started over ssh by a tmux window of the *)
(* host once the VM has touched /tmp/ready.                                *)
(*                                                                         *)
(* The script runs under "set -e".  A command that fails in process 1 of a *)
(* VM is a kernel panic, and with panic=1 and -no-reboot the end of qemu;  *)
(* a command that fails in a namespace ends its ssh session.  The window   *)
(* stays (remain-on-exit) and the user may respawn it.                     *)
(***************************************************************************)
EXTENDS Naturals

CONSTANTS
  VM,        \* virtual machines (spawn vm)
  NS,        \* network namespaces (spawn ns)
  Host,      \* Host[n] is the VM named before the slash of a namespace
  OobVM,     \* VMs spawned with the "oob" network: they have an sshd
  MaxFaults  \* bound on the failures and stops that may happen

ASSUME BootAssumption ==
  /\ Host \in [NS -> VM]
  /\ OobVM \subseteq VM
  /\ MaxFaults \in Nat

VARIABLES
  vm,        \* STATE of process 1 of each VM; "none": not started, "dead": stopped
  boot,      \* how many times each VM was started
  netns,     \* namespaces created in the current boot of their VM
  linked,    \* namespaces that hold an end of a veth pair
  addressed, \* namespaces whose interface has its address
  ready,     \* VMs with a /tmp/ready
  ns,        \* where the window of each namespace is
  seen,      \* boot of the VM in which the window last saw /tmp/ready
  faults     \* failures and stops so far

vars == <<vm, boot, netns, linked, addressed, ready, ns, seen, faults>>
vmVars == <<vm, boot, netns, linked, ready>>

VmStates == {"none", "dead", "begin", "chrooted", "getty", "setup", "shell"}
NsStates == {"none", "dead", "poll", "enter",
             "begin", "chrooted", "setup", "service", "shell"}

\* The window holds an ssh session in the VM.
Inside == {"begin", "chrooted", "setup", "service", "shell"}

NsOf(v) == {n \in NS : Host[n] = v}

\* sshd is started in STATE=CHROOTED, before the switch to STATE=GETTY.
Sshd(v) == v \in OobVM /\ vm[v] \in {"getty", "setup", "shell"}

TypeOK ==
  /\ vm \in [VM -> VmStates]
  /\ boot \in [VM -> Nat]
  /\ netns \subseteq NS /\ linked \subseteq NS /\ addressed \subseteq NS
  /\ ready \subseteq VM
  /\ ns \in [NS -> NsStates]
  /\ seen \in [NS -> Nat]
  /\ faults \in 0 .. MaxFaults

Init ==
  /\ vm = [v \in VM |-> "none"]
  /\ boot = [v \in VM |-> 0]
  /\ netns = {} /\ linked = {} /\ addressed = {}
  /\ ready = {}
  /\ ns = [n \in NS |-> "none"]
  /\ seen = [n \in NS |-> 0]
  /\ faults = 0

-----------------------------------------------------------------------------
(* Virtual machines *)

VmStep(v, from, to) == vm[v] = from /\ vm' = [vm EXCEPT ![v] = to]

NsStep(n, from, to) == ns[n] = from /\ ns' = [ns EXCEPT ![n] = to]

\* The window runs vm-NAME.exec.  /run and /tmp are fresh tmpfs in each boot.
StartVM(v, from) ==
  /\ VmStep(v, from, "begin")
  /\ boot' = [boot EXCEPT ![v] = @ + 1]
  /\ UNCHANGED <<netns, linked, addressed, ready, ns, seen, faults>>

LaunchVM(v)  == StartVM(v, "none")
RespawnVM(v) == StartVM(v, "dead")

\* 1,BEGIN in the initrd: mount the shares, then exec chroot.
Begin(v) ==
  /\ VmStep(v, "begin", "chrooted")
  /\ UNCHANGED <<boot, netns, linked, addressed, ready, ns, seen, faults>>

\* *,CHROOTED: hosts, udev, interfaces, syslog, sshd, then exec agetty.
Chrooted(v) ==
  /\ VmStep(v, "chrooted", "getty")
  /\ UNCHANGED <<boot, netns, linked, addressed, ready, ns, seen, faults>>

\* Mutant of Getty: /tmp/ready is touched before the setup is sourced.
GettyTouches(v) ==
  /\ VmStep(v, "getty", "setup")
  /\ ready' = ready \cup {v}
  /\ UNCHANGED <<boot, netns, linked, addressed, ns, seen, faults>>

\* *,GETTY up to the point where it sources the setup of the lab.
Getty(v) ==
  /\ VmStep(v, "getty", "setup")
  /\ UNCHANGED <<boot, netns, linked, addressed, ready, ns, seen, faults>>

\* spawn ns VM/NS in STATE=SETUP, when uts is the name of the VM.
SpawnNetns(n) ==
  /\ vm[Host[n]] = "setup"
  /\ n \notin netns
  /\ netns' = netns \cup {n}
  /\ UNCHANGED <<vm, boot, linked, addressed, ready, ns, seen, faults>>

\* One turn of the loop of link: a veth pair with an end in the namespace.
\* The spawn lines come first in the setup.
Link(n) ==
  /\ vm[Host[n]] = "setup"
  /\ NsOf(Host[n]) \subseteq netns
  /\ n \notin linked
  /\ linked' = linked \cup {n}
  /\ UNCHANGED <<vm, boot, netns, addressed, ready, ns, seen, faults>>

\* Mutant of TouchReady: the shell starts and nothing is touched.
TouchNothing(v) ==
  /\ VmStep(v, "setup", "shell")
  /\ NsOf(v) \subseteq linked
  /\ UNCHANGED <<boot, netns, linked, addressed, ready, ns, seen, faults>>

\* The sourced setup returns: touch /tmp/ready, then exec in STATE=SHELL.
TouchReady(v) ==
  /\ VmStep(v, "setup", "shell")
  /\ NsOf(v) \subseteq linked
  /\ ready' = ready \cup {v}
  /\ UNCHANGED <<boot, netns, linked, addressed, ns, seen, faults>>

\* A command fails in process 1, or the user halts the VM: qemu exits, and
\* the ssh sessions that it carried end with it.
StopVM(v) ==
  /\ vm[v] \notin {"none", "dead"}
  /\ faults < MaxFaults
  /\ faults' = faults + 1
  /\ vm' = [vm EXCEPT ![v] = "dead"]
  /\ netns' = netns \ NsOf(v)
  /\ linked' = linked \ NsOf(v)
  /\ addressed' = addressed \ NsOf(v)
  /\ ready' = ready \ {v}
  /\ ns' = [n \in NS |-> IF n \in NsOf(v) /\ ns[n] \in Inside THEN "dead" ELSE ns[n]]
  /\ UNCHANGED <<boot, seen>>

\* *,SHELL: a shell that exits is replaced by another, for ever.
Shell(v) == vm[v] = "shell" /\ UNCHANGED vars

-----------------------------------------------------------------------------
(* Namespaces *)

StartNS(n, from) ==
  /\ NsStep(n, from, "poll")
  /\ UNCHANGED <<vmVars, addressed, seen, faults>>

LaunchNS(n)  == StartNS(n, "none")
RespawnNS(n) == StartNS(n, "dead")

\* Mutant of SeeReady: the loop breaks as soon as an sshd answers.
SeeSshd(n) ==
  /\ NsStep(n, "poll", "enter")
  /\ Sshd(Host[n])
  /\ seen' = [seen EXCEPT ![n] = boot[Host[n]]]
  /\ UNCHANGED <<vmVars, addressed, faults>>

\* "ssh VM test -f /tmp/ready" succeeds and the polling loop breaks.
SeeReady(n) ==
  /\ NsStep(n, "poll", "enter")
  /\ Sshd(Host[n])
  /\ Host[n] \in ready
  /\ seen' = [seen EXCEPT ![n] = boot[Host[n]]]
  /\ UNCHANGED <<vmVars, addressed, faults>>

\* The second ssh: unshare, then nsenter in /run/netns/NS.
Enter(n) ==
  /\ NsStep(n, "enter", "begin")
  /\ Sshd(Host[n])
  /\ n \in netns
  /\ UNCHANGED <<vmVars, addressed, seen, faults>>

\* No sshd answers, or nsenter finds no such namespace.
EnterFails(n) ==
  /\ NsStep(n, "enter", "dead")
  /\ ~ (Sshd(Host[n]) /\ n \in netns)
  /\ UNCHANGED <<vmVars, addressed, seen, faults>>

\* 1,BEGIN without /init: run the script in STATE=CHROOTED as a child.
NsBegin(n) ==
  /\ NsStep(n, "begin", "chrooted")
  /\ UNCHANGED <<vmVars, addressed, seen, faults>>

\* Mutant of NsChrooted: NOGETTY is not in the environment.
NsGetty(n) ==
  /\ NsStep(n, "chrooted", "getty")
  /\ UNCHANGED <<vmVars, addressed, seen, faults>>

\* *,CHROOTED with NOGETTY: source the setup of the lab.
NsChrooted(n) ==
  /\ NsStep(n, "chrooted", "setup")
  /\ UNCHANGED <<vmVars, addressed, seen, faults>>

\* Mutant of NsAddress: without "set -e" the setup goes on when it fails.
NsAddressIgnored(n) ==
  /\ NsStep(n, "setup", "service")
  /\ addressed' = addressed \cup (linked \cap {n})
  /\ UNCHANGED <<vmVars, seen, faults>>

\* Mutant of NsAddress: the address is replaced instead of added.
NsAddressReplaced(n) ==
  /\ NsStep(n, "setup", "service")
  /\ n \in linked
  /\ addressed' = addressed \cup {n}
  /\ UNCHANGED <<vmVars, seen, faults>>

\* "ip addr add ... dev veth0" in the branch of the setup for this uts.
NsAddress(n) ==
  /\ NsStep(n, "setup", "service")
  /\ n \in linked \ addressed
  /\ addressed' = addressed \cup {n}
  /\ UNCHANGED <<vmVars, seen, faults>>

\* The same command fails: no such device, or the address exists.
NsAddressFails(n) ==
  /\ NsStep(n, "setup", "dead")
  /\ n \notin linked \ addressed
  /\ UNCHANGED <<vmVars, addressed, seen, faults>>

\* The rest of the setup, then exec in STATE=SHELL.
NsSetup(n) ==
  /\ NsStep(n, "service", "shell")
  /\ UNCHANGED <<vmVars, addressed, seen, faults>>

\* Any command of the namespace fails, or its ssh connection is lost.
StopNS(n) ==
  /\ ns[n] \in Inside
  /\ faults < MaxFaults
  /\ faults' = faults + 1
  /\ ns' = [ns EXCEPT ![n] = "dead"]
  /\ UNCHANGED <<vmVars, addressed, seen>>

-----------------------------------------------------------------------------
VmProgress(v) ==
  \/ Begin(v) \/ Chrooted(v) \/ Getty(v) \/ TouchReady(v)
  \/ \E n \in NsOf(v) : SpawnNetns(n) \/ Link(n)

NsProgress(n) ==
  \/ SeeReady(n) \/ Enter(n) \/ EnterFails(n)
  \/ NsBegin(n) \/ NsChrooted(n) \/ NsAddress(n) \/ NsAddressFails(n) \/ NsSetup(n)

Next ==
  \/ \E v \in VM : LaunchVM(v) \/ RespawnVM(v) \/ VmProgress(v) \/ StopVM(v) \/ Shell(v)
  \/ \E n \in NS : LaunchNS(n) \/ RespawnNS(n) \/ NsProgress(n) \/ StopNS(n)

Spec == Init /\ [][Next]_vars

\* The launcher opens every window once and the processes are scheduled.
\* Nobody has to press the key that respawns a window.
Fairness ==
  /\ \A v \in VM : WF_vars(LaunchVM(v)) /\ WF_vars(VmProgress(v))
  /\ \A n \in NS : WF_vars(LaunchNS(n)) /\ WF_vars(NsProgress(n))

FairSpec == Spec /\ Fairness
-----------------------------------------------------------------------------
(* Properties *)

\* A window that saw /tmp/ready in the running boot of its VM finds its
\* namespace made and linked: touch comes after the whole sourced setup.
\* Across a restart between the two ssh commands nothing is promised.
ReadyMeansLinked ==
  \A n \in NS :
    ns[n] \in Inside \cup {"enter"} /\ seen[n] = boot[Host[n]] /\ vm[Host[n]] # "dead"
      => vm[Host[n]] = "shell" /\ n \in linked

\* A namespace offers its shell only in a live VM, inside its own network,
\* with its address set: "set -e" never lets a half-made one through, even
\* when its VM restarted between the two ssh commands of the window.
ShellMeansConfigured ==
  \A n \in NS :
    ns[n] \in {"service", "shell"}
      => n \in netns \cap linked \cap addressed /\ Sshd(Host[n])

\* Once the VM of a namespace is up for good, the window of the namespace
\* does not poll, or stay half-way, for ever: it ends in its shell or dead.
NoHang ==
  \A n \in NS : Host[n] \in OobVM =>
    (<>[](vm[Host[n]] = "shell") => []<>(ns[n] \in {"dead", "shell"}))

\* When nothing fails every VM and every namespace gets its shell, whatever
\* the order in which the windows run: nobody has to respawn anything.
AllUp ==
  /\ \A v \in VM : vm[v] = "shell"
  /\ \A n \in NS : Host[n] \in OobVM => ns[n] = "shell"

FaultFreeBoot == [](faults = 0) => <>[]AllUp

\* The facts that make the two invariants inductive.  What is configured in
\* a VM grows in one order, from nothing in each boot ...
NetworkOrder ==
  /\ addressed \subseteq linked
  /\ linked \subseteq netns
  /\ \A n \in NS : vm[Host[n]] \notin {"setup", "shell"} => n \notin netns

\* ... /tmp/ready and the shell come last, when it is complete ...
ReadyLast ==
  /\ \A v \in ready : vm[v] = "shell"
  /\ \A n \in NS : vm[Host[n]] = "shell" => n \in linked

\* ... and a session lives in a VM that serves it.
SessionInVM ==
  /\ \A n \in NS : ns[n] \in Inside => n \in netns /\ Sshd(Host[n])
  /\ \A n \in NS : seen[n] <= boot[Host[n]]

BootInv ==
  TypeOK /\ NetworkOrder /\ ReadyLast /\ SessionInVM
         /\ ReadyMeansLinked /\ ShellMeansConfigured

\* The life of a namespace, as LabReadiness describes it.
Life(n) ==
  CASE n \notin linked                           -> "absent"
    [] n \in linked \ addressed                  -> "linked"
    [] n \in linked \cap addressed /\ ns[n] = "service" -> "claimed"
    [] n \in linked \cap addressed /\ ns[n] = "shell"   -> "up"
    [] OTHER                                     -> "spent"

Readiness == INSTANCE LabReadiness WITH life <- [n \in NS |-> Life(n)]

\* The boot implements LabReadiness: a namespace comes up at most once per
\* boot of its VM, since a second setup finds the address already there.
ImplementsReadiness == Readiness!Spec
=============================================================================
