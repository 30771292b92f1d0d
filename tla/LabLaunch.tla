------------------------------ MODULE LabLaunch ------------------------------
(***************************************************************************)
(* The host side of common/lab-setup: the launcher goes through the spawn  *)
(* lines of a lab, starts a switch for each network and a tmux window for  *)
(* each machine, waits for the user, and cleans everything up in its exit  *)
(* trap.  The windows run their .exec scripts on their own: they read and  *)
(* write files of the same temporary directory while the launcher goes on. *)
(***************************************************************************)
EXTENDS LabMachines, Sequences

CONSTANTS
  Scripts,   \* the labs that may be launched
  Base       \* the first ssh port, drawn at random by tcp_port

ASSUME LaunchAssumption ==
  /\ Base \in 9400 .. 14399
  /\ \A s \in Scripts :
       /\ s \in Seq(Lines(s))
       /\ \A l \in Lines(s) : l.kind \in Kinds /\ IsFiniteSet(l.nets)

VARIABLES
  script,    \* the lab
  pc,        \* what the launcher is doing
  line,      \* the spawn line it is at
  tcp,       \* $TMP/tcp-counter
  mac,       \* $TMP/mac-counter
  hosts,     \* $TMP/ssh_config: hosts and their forwarded ports
  nics,      \* the range of MAC addresses given to each host
  junos,     \* the host-name in $TMP/ssh-junos.conf
  switch,    \* state of the daemon of each switch
  window,    \* state of each window
  named,     \* the host-name each window gave its machine
  pidfile,   \* switches and windows with a pid file in $TMP
  tmp        \* whether $TMP exists

launcherVars == <<script, pc, line>>
fileVars == <<tcp, mac, hosts, nics, junos>>
vars == <<launcherVars, fileVars, switch, window, named, pidfile, tmp>>

Phases == {"switches", "start", "help", "prompt", "term", "kill", "rm", "session", "gone"}

Windows  == WindowsOf(script)
Switches == SwitchesOf(script)

\* The spawn line of a window, and the switches its machine is plugged into.
LineOf(w)  == CHOOSE l \in Lines(script) : l.name = w[1]
PlugsOf(w) == {p[2] : p \in {q \in Machine(LineOf(w)).plugs : q[1] = w[2]}}

ReadsJunos(w)   == w[2] \in Machine(LineOf(w)).junos
WritesPid(w)    == LineOf(w).kind # "ns"

TypeOK ==
  /\ script \in Scripts
  /\ pc \in Phases
  /\ line \in 1 .. Len(script) + 1
  /\ tcp >= Base /\ mac >= 1
  /\ \A h \in hosts : h.port \in Base .. tcp - 1
  /\ switch \in [Switches -> {"none", "starting", "running", "dead"}]
  /\ window \in [Windows -> {"none", "forked", "configured", "running", "dead"}]
  /\ pidfile \subseteq Switches \cup Windows
  /\ tmp \in BOOLEAN

Init ==
  /\ script \in Scripts
  /\ pc = "switches"
  /\ line = 1
  /\ tcp = Base
  /\ mac = 1
  /\ hosts = {} /\ nics = {}
  /\ junos = ""
  /\ switch = [b \in Switches |-> "none"]
  /\ window = [w \in Windows |-> "none"]
  /\ named = [w \in Windows |-> ""]
  /\ pidfile = {}
  /\ tmp = TRUE

-----------------------------------------------------------------------------
(* The launcher *)

\* setup_switch: nothing to do for a switch that has its configuration file.
SetupSwitches(S) ==
  switch' = [b \in Switches |-> IF b \in S /\ switch[b] = "none" THEN "starting" ELSE switch[b]]

\* spawn: the switches of the networks, then half a second for them to start.
SpawnSwitches ==
  /\ pc = "switches"
  /\ line <= Len(script)
  /\ SetupSwitches(script[line].nets)
  /\ pc' = "start"
  /\ UNCHANGED <<script, line, fileVars, window, named, pidfile, tmp>>

\* Mutant of TcpPort: the successor stays in the subshell of the caller.
TcpPortSubshell(n) == n

\* tcp_port: print the counter and write back its successor.
TcpPort(n) == n + 1

\* Mutant of MacAddress: the counter is not written back.
MacAddressSubshell(n, k) == n

\* mac_address, called k times.
MacAddress(n, k) == n + k

\* add_ssh_config, when the machine calls it.
AddSshConfig(l) ==
  IF Machine(l).oob
    THEN /\ hosts' = hosts \cup {[host |-> l.name, port |-> tcp]}
         /\ tcp' = TcpPort(tcp)
         /\ junos' = l.name
    ELSE UNCHANGED <<hosts, tcp, junos>>

\* The rest of spawn: the start function of the kind, which opens windows.
StartMachine(l, opened) ==
  /\ SetupSwitches(Machine(l).internal)
  /\ AddSshConfig(l)
  /\ mac' = MacAddress(mac, Machine(l).macs)
  /\ nics' = nics \cup {[host |-> l.name, first |-> mac, count |-> Machine(l).macs]}
  /\ window' = [w \in Windows |-> IF w \in {l.name} \X opened THEN "forked" ELSE window[w]]
  /\ UNCHANGED <<script, named, pidfile, tmp>>

SpawnStart ==
  /\ pc = "start"
  /\ StartMachine(script[line], Machine(script[line]).parts)
  /\ pc' = "switches"
  /\ line' = line + 1

\* One of its commands fails, with some of its windows open.
SpawnStartFails ==
  /\ pc = "start"
  /\ \E opened \in SUBSET Machine(script[line]).parts : StartMachine(script[line], opened)
  /\ pc' = "prompt"
  /\ UNCHANGED line

\* run, after the last spawn line: display_help waits for the user.
Run ==
  /\ pc = "switches"
  /\ line > Len(script)
  /\ pc' = "help"
  /\ UNCHANGED <<script, line, fileVars, switch, window, named, pidfile, tmp>>

\* The user presses enter: done=1, exit 0, and the trap runs cleanup.
Quit ==
  /\ pc = "help"
  /\ pc' = "term"
  /\ UNCHANGED <<script, line, fileVars, switch, window, named, pidfile, tmp>>

\* A switch does not start, or a keyword is unknown: cleanup without done ...
Fail ==
  /\ pc = "switches"
  /\ line <= Len(script)
  /\ pc' = "prompt"
  /\ UNCHANGED <<script, line, fileVars, switch, window, named, pidfile, tmp>>

\* ... asks the user to press enter first.
Confirm ==
  /\ pc = "prompt"
  /\ pc' = "term"
  /\ UNCHANGED <<script, line, fileVars, switch, window, named, pidfile, tmp>>

SwitchesIn(S) == {b \in Switches : switch[b] = "running" /\ b \in S}
WindowsIn(S)  == {w \in Windows : window[w] = "running" /\ w \in S}

Kill(S) ==
  /\ switch' = [b \in Switches |-> IF b \in SwitchesIn(S) THEN "dead" ELSE switch[b]]
  /\ window' = [w \in Windows |-> IF w \in WindowsIn(S) THEN "dead" ELSE window[w]]

\* kill -15 to every process with a pid file: some of them stop.
Term ==
  /\ pc = "term"
  /\ \E S \in SUBSET (SwitchesIn(pidfile) \cup WindowsIn(pidfile)) : Kill(S)
  /\ pc' = "kill"
  /\ UNCHANGED <<script, line, fileVars, named, pidfile, tmp>>

\* Mutant of KillAll: only the pid files of the virtual machines are read.
KillMachines ==
  /\ pc = "kill"
  /\ \A b \in Switches : switch[b] # "starting"
  /\ Kill(pidfile \cap Windows)
  /\ pc' = "rm"
  /\ UNCHANGED <<script, line, fileVars, named, pidfile, tmp>>

\* One second later, kill -9: all of them stop.  The second is taken to be
\* enough for a switch that was just forked to write its pid file.
KillAll ==
  /\ pc = "kill"
  /\ \A b \in Switches : switch[b] # "starting"
  /\ Kill(pidfile)
  /\ pc' = "rm"
  /\ UNCHANGED <<script, line, fileVars, named, pidfile, tmp>>

RemoveTmp ==
  /\ pc = "rm"
  /\ tmp' = FALSE
  /\ pidfile' = {}
  /\ pc' = "session"
  /\ UNCHANGED <<script, line, fileVars, switch, window, named>>

\* Mutant of KillSession: the launcher ends and leaves its windows open.
LeaveSession ==
  /\ pc = "session"
  /\ pc' = "gone"
  /\ UNCHANGED <<script, line, fileVars, switch, window, named, pidfile, tmp>>

\* tmux kill-session: every window of the lab is closed, the launcher's too.
KillSession ==
  /\ pc = "session"
  /\ window' = [w \in Windows |-> IF window[w] = "none" THEN "none" ELSE "dead"]
  /\ pc' = "gone"
  /\ UNCHANGED <<script, line, fileVars, switch, named, pidfile, tmp>>

-----------------------------------------------------------------------------
(* Daemons and windows *)

\* vde_switch, in the background: the pid file, then its socket.
SwitchUp(b) ==
  /\ switch[b] = "starting"
  /\ switch' = [switch EXCEPT ![b] = "running"]
  /\ pidfile' = pidfile \cup {b}
  /\ UNCHANGED <<launcherVars, fileVars, window, named, tmp>>

WindowStep(w, from, to) == window[w] = from /\ window' = [window EXCEPT ![w] = to]

\* The .exec prepares the disks; that of a Junos machine includes the
\* ssh-junos.conf of the moment, the others have their name written in them.
Configure(w) ==
  /\ WindowStep(w, "forked", "configured")
  /\ tmp
  /\ named' = [named EXCEPT ![w] = IF ReadsJunos(w) THEN junos ELSE w[1]]
  /\ UNCHANGED <<launcherVars, fileVars, switch, pidfile, tmp>>

\* exec start-stop-daemon: the pid file, then qemu, which connects to the
\* socket of each switch.  The window of a namespace runs ssh and has none.
Exec(w) ==
  /\ WindowStep(w, "configured", "running")
  /\ tmp
  /\ \A b \in PlugsOf(w) : switch[b] = "running"
  /\ pidfile' = IF WritesPid(w) THEN pidfile \cup {w} ELSE pidfile
  /\ UNCHANGED <<launcherVars, fileVars, switch, named, tmp>>

\* A switch does not answer: qemu stops after its pid file was written.
ExecFails(w) ==
  /\ WindowStep(w, "configured", "dead")
  /\ tmp
  /\ \E b \in PlugsOf(w) : switch[b] # "running"
  /\ pidfile' = pidfile \cup {w}
  /\ UNCHANGED <<launcherVars, fileVars, switch, named, tmp>>

\* $TMP is gone: neither the files nor the pid file can be written.
ExecLost(w) ==
  /\ window[w] \in {"forked", "configured"}
  /\ ~tmp
  /\ window' = [window EXCEPT ![w] = "dead"]
  /\ UNCHANGED <<launcherVars, fileVars, switch, named, pidfile, tmp>>

\* The machine stops; its pid file stays behind.
Exit(w) ==
  /\ WindowStep(w, "running", "dead")
  /\ UNCHANGED <<launcherVars, fileVars, switch, named, pidfile, tmp>>

\* The key r of tmux, as long as there is a session and a script to run.
Respawn(w) ==
  /\ WindowStep(w, "dead", "forked")
  /\ tmp
  /\ UNCHANGED <<launcherVars, fileVars, switch, named, pidfile, tmp>>

-----------------------------------------------------------------------------
Cleanup == Term \/ KillAll \/ RemoveTmp \/ KillSession

WindowProgress(w) == Configure(w) \/ Exec(w) \/ ExecFails(w) \/ ExecLost(w)

\* Nothing is left to do.
Terminated == pc = "gone" /\ UNCHANGED vars

Next ==
  \/ SpawnSwitches \/ SpawnStart \/ SpawnStartFails \/ Run \/ Quit \/ Fail \/ Confirm \/ Cleanup \/ Terminated
  \/ \E b \in Switches : SwitchUp(b)
  \/ \E w \in Windows : WindowProgress(w) \/ Exit(w) \/ Respawn(w)

Spec == Init /\ [][Next]_vars

\* Processes are scheduled.  The user need not quit, confirm or respawn.
FairSpec ==
  /\ Spec
  /\ WF_vars(Cleanup)
  /\ \A b \in UNION {SwitchesOf(s) : s \in Scripts} : WF_vars(b \in Switches /\ SwitchUp(b))

-----------------------------------------------------------------------------
(* Properties *)

AllStopped ==
  /\ \A b \in Switches : switch[b] \in {"none", "dead"}
  /\ \A w \in Windows : window[w] \in {"none", "dead"}

\* Once the launcher has ended nothing of the lab runs: not a switch, which is
\* no child of the session, and not a window opened or respawned while cleanup
\* was already signalling the others.
NoOrphan == pc = "gone" => AllStopped

\* Once cleanup starts, the lab stops and stays so.
ShutdownEnds == pc = "term" ~> [](pc = "gone" /\ AllStopped)

\* No two hosts are reached through the same port, and no two machines get
\* the same MAC address, although both counters are read in subshells.
AddressesDistinct ==
  /\ \A g, h \in hosts : g.port = h.port => g = h
  /\ \A m, n \in nics :
       m.host # n.host => m.first + m.count <= n.first \/ n.first + n.count <= m.first

\* What makes AddressesDistinct inductive: all that was given is below the
\* counters.
BelowCounters ==
  /\ tcp \in Int /\ mac \in Int
  /\ \A h \in hosts : h.port \in Int /\ h.port < tcp
  /\ \A m \in nics : m.first \in Int /\ m.count \in Nat /\ m.first + m.count <= mac

\* What makes NoOrphan inductive: as long as $TMP exists every daemon that
\* runs can be found from its pid file, and after kill -9 none runs.
KillFindsDaemons ==
  /\ tmp = (pc \notin {"session", "gone"})
  /\ tmp => \A b \in Switches : switch[b] = "running" => b \in pidfile
  /\ pc \in {"rm", "session", "gone"} => \A b \in Switches : switch[b] \in {"none", "dead"}

\* A machine whose windows all run is plugged into every network of its
\* spawn line.
Plugged ==
  \A l \in Lines(script) :
    (\A p \in Machine(l).parts : window[<<l.name, p>>] = "running")
      => l.nets \subseteq UNION {PlugsOf(<<l.name, p>>) : p \in Machine(l).parts}

\* A machine is given its own host-name.
OwnHostname ==
  \A w \in Windows : window[w] \in {"configured", "running"} => named[w] = w[1]
=============================================================================
