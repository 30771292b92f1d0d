-------------------------- MODULE LabLaunch_proofs --------------------------
(***************************************************************************)
(* Proofs about LabLaunch, for every lab: any number of spawn lines of any *)
(* kind, and any base port.                                                *)
(***************************************************************************)
EXTENDS LabLaunch, FiniteSetTheorems, TLAPS

SwitchStates == {"none", "starting", "running", "dead"}
WindowStates == {"none", "forked", "configured", "running", "dead"}

\* The part of TypeOK about the processes, which the proofs start from.
ProcessType ==
  /\ pc \in Phases
  /\ switch \in [Switches -> SwitchStates]
  /\ window \in [Windows -> WindowStates]

ShutdownInv == ProcessType /\ KillFindsDaemons /\ NoOrphan

LEMMA InitShutdown == Init => ShutdownInv
BY DEF Init, ShutdownInv, ProcessType, KillFindsDaemons, NoOrphan, Phases,
       SwitchStates, WindowStates

\* Every step of the launcher, the switches and the windows preserves it.
LEMMA NextShutdown == ShutdownInv /\ [Next]_vars => ShutdownInv'
<1> SUFFICES ASSUME ShutdownInv, [Next]_vars PROVE ShutdownInv'
  OBVIOUS
<1> USE DEF ShutdownInv, ProcessType, KillFindsDaemons, NoOrphan, AllStopped, Phases,
            SwitchStates, WindowStates, Switches, Windows, launcherVars, WindowStep
<1>1. CASE SpawnSwitches
  BY <1>1 DEF SpawnSwitches, SetupSwitches
<1>2. CASE SpawnStart \/ SpawnStartFails
  BY <1>2 DEF SpawnStart, SpawnStartFails, StartMachine, SetupSwitches
<1>3. CASE Run \/ Quit \/ Fail \/ Confirm
  BY <1>3 DEF Run, Quit, Fail, Confirm
<1>4. CASE Term
  <2>1. /\ switch' \in [Switches -> SwitchStates]
        /\ window' \in [Windows -> WindowStates]
        /\ \A b \in Switches : switch'[b] = "running" => switch[b] = "running"
    BY <1>4 DEF Term, Kill
  <2> QED
    BY <1>4, <2>1 DEF Term
<1>5. CASE KillAll
  <2>1. /\ switch' \in [Switches -> SwitchStates]
        /\ window' \in [Windows -> WindowStates]
    BY <1>5 DEF KillAll, Kill
  <2>2. \A b \in Switches : switch'[b] \in {"none", "dead"}
    BY <1>5 DEF KillAll, Kill, SwitchesIn
  <2> QED
    BY <1>5, <2>1, <2>2 DEF KillAll
<1>6. CASE RemoveTmp
  BY <1>6 DEF RemoveTmp
<1>7. CASE KillSession
  BY <1>7 DEF KillSession
<1>8. CASE Terminated \/ UNCHANGED vars
  BY <1>8 DEF Terminated, vars
<1>9. ASSUME NEW b \in Switches, SwitchUp(b) PROVE ShutdownInv'
  BY <1>9 DEF SwitchUp
<1>10. ASSUME NEW w \in Windows, Configure(w) PROVE ShutdownInv'
  BY <1>10 DEF Configure
<1>11. ASSUME NEW w \in Windows, Exec(w) PROVE ShutdownInv'
  BY <1>11 DEF Exec
<1>12. ASSUME NEW w \in Windows, ExecFails(w) PROVE ShutdownInv'
  BY <1>12 DEF ExecFails
<1>13. ASSUME NEW w \in Windows, ExecLost(w) \/ Exit(w) \/ Respawn(w) PROVE ShutdownInv'
  BY <1>13 DEF ExecLost, Exit, Respawn
<1> QED
  BY <1>1, <1>2, <1>3, <1>4, <1>5, <1>6, <1>7, <1>8, <1>9, <1>10, <1>11, <1>12, <1>13
     DEF Next, Cleanup, WindowProgress

\* Cleanup leaves no process behind, for every lab and at whatever moment the
\* launch fails or the user quits.
THEOREM CleanupIsComplete == Spec => []NoOrphan
<1>1. ShutdownInv => NoOrphan
  BY DEF ShutdownInv
<1> QED
  BY <1>1, InitShutdown, NextShutdown, PTL DEF Spec

-----------------------------------------------------------------------------
(* Addresses *)

\* However a machine is made, it takes a natural number of MAC addresses.
LEMMA MacsAreCounted ==
  ASSUME NEW l, l.kind \in Kinds, IsFiniteSet(l.nets)
  PROVE  Machine(l).macs \in Nat
<1>1. Nics(l) \in Nat
  BY FS_CardinalityType DEF Nics
<1>2. /\ StartNs(l).macs \in Nat /\ StartVm(l).macs \in Nat /\ StartImg(l).macs \in Nat
      /\ StartJuniperVrr(l).macs \in Nat /\ StartJuniperVsrx(l).macs \in Nat
      /\ StartJuniperFirefly(l).macs \in Nat /\ StartCumulusVx(l).macs \in Nat
      /\ StartSonic(l).macs \in Nat /\ StartCiscoIosxrv(l).macs \in Nat
      /\ StartCiscoNxos(l).macs \in Nat /\ StartHpVsr1000(l).macs \in Nat
  BY <1>1
     DEF OneWindow, StartNs, StartVm, StartImg, StartJuniperVrr, StartJuniperVsrx,
         StartJuniperFirefly, StartCumulusVx, StartSonic, StartCiscoIosxrv,
         StartCiscoNxos, StartHpVsr1000
<1>3. /\ StartJuniperVqfx(l).macs \in Nat /\ StartJuniperVmx(l).macs \in Nat
      /\ StartJuniperVjunos(l).macs \in Nat
  BY <1>1 DEF StartJuniperVqfx, StartJuniperVmx, StartJuniperVjunos
<1> QED
  BY <1>2, <1>3, Zenon DEF Machine, Kinds

\* A launcher that still starts machines is at one of its spawn lines.
LineInv ==
  /\ script \in Scripts
  /\ line \in Nat \ {0}
  /\ pc = "start" => line \in DOMAIN script

AddressInv == LineInv /\ BelowCounters /\ AddressesDistinct

LEMMA InitAddress == Init => AddressInv
<1> SUFFICES ASSUME Init PROVE AddressInv
  OBVIOUS
<1>1. LineInv
  <2>1. script \in Scripts /\ line = 1 /\ pc # "start"
    BY DEF Init
  <2> QED
    BY <2>1 DEF LineInv
<1>2. hosts = {} /\ nics = {} /\ tcp \in Int /\ mac \in Int
  <2>1. hosts = {} /\ nics = {} /\ tcp = Base /\ mac = 1
    BY DEF Init
  <2>2. Base \in Int
    BY LaunchAssumption
  <2> QED
    BY <2>1, <2>2
<1> QED
  BY <1>1, <1>2 DEF AddressInv, BelowCounters, AddressesDistinct

\* The one step that gives addresses out: all of them are the next ones.
LEMMA StartAddress ==
  ASSUME AddressInv, NEW l \in Lines(script), NEW opened, StartMachine(l, opened)
  PROVE  BelowCounters' /\ AddressesDistinct'
<1>1. Machine(l).macs \in Nat
  BY LaunchAssumption, MacsAreCounted DEF AddressInv, LineInv
<1>2. /\ \A h \in hosts' : h \in hosts \/ (h = [host |-> l.name, port |-> tcp] /\ tcp' = tcp + 1)
      /\ tcp' = tcp \/ tcp' = tcp + 1
  BY DEF StartMachine, AddSshConfig, TcpPort
<1>3. /\ nics' = nics \cup {[host |-> l.name, first |-> mac, count |-> Machine(l).macs]}
      /\ mac' = mac + Machine(l).macs
  BY DEF StartMachine, MacAddress
<1>4. BelowCounters'
  BY <1>1, <1>2, <1>3 DEF AddressInv, BelowCounters
<1>5. \A g, h \in hosts' : g.port = h.port => g = h
  BY <1>2 DEF AddressInv, BelowCounters, AddressesDistinct
<1>6. ASSUME NEW m \in nics', NEW n \in nics', m.host # n.host
      PROVE  m.first + m.count <= n.first \/ n.first + n.count <= m.first
  <2>1. CASE m \in nics /\ n \in nics
    BY <1>6, <2>1 DEF AddressInv, AddressesDistinct
  <2>2. CASE m \in nics /\ n \notin nics
    BY <1>3, <2>2 DEF AddressInv, BelowCounters
  <2>3. CASE m \notin nics /\ n \in nics
    BY <1>3, <2>3 DEF AddressInv, BelowCounters
  <2>4. CASE m \notin nics /\ n \notin nics
    BY <1>3, <1>6, <2>4
  <2> QED
    BY <2>1, <2>2, <2>3, <2>4
<1> QED
  BY <1>4, <1>5, <1>6 DEF AddressesDistinct

LEMMA NextAddress == AddressInv /\ [Next]_vars => AddressInv'
<1> SUFFICES ASSUME AddressInv, [Next]_vars PROVE AddressInv'
  OBVIOUS
<1>line. line \in DOMAIN script <=> line <= Len(script)
  BY LaunchAssumption DEF AddressInv, LineInv
<1>1. CASE SpawnSwitches
  BY <1>1, <1>line
     DEF SpawnSwitches, fileVars, AddressInv, LineInv, BelowCounters, AddressesDistinct
<1>2. CASE SpawnStart \/ SpawnStartFails
  <2>1. script[line] \in Lines(script)
    BY <1>2 DEF SpawnStart, SpawnStartFails, AddressInv, LineInv, Lines
  <2>2. BelowCounters' /\ AddressesDistinct'
    BY <1>2, <2>1, StartAddress DEF SpawnStart, SpawnStartFails
  <2>3. LineInv'
    BY <1>2 DEF SpawnStart, SpawnStartFails, StartMachine, AddressInv, LineInv
  <2> QED
    BY <2>2, <2>3 DEF AddressInv
<1>3. CASE Run \/ Quit \/ Fail \/ Confirm \/ Cleanup
  BY <1>3
     DEF Run, Quit, Fail, Confirm, Cleanup, Term, KillAll, RemoveTmp, KillSession,
         fileVars, AddressInv, LineInv, BelowCounters, AddressesDistinct
<1>4. ASSUME UNCHANGED <<launcherVars, fileVars>> PROVE AddressInv'
  BY <1>4 DEF launcherVars, fileVars, AddressInv, LineInv, BelowCounters, AddressesDistinct
<1>5. CASE Terminated \/ UNCHANGED vars
  BY <1>4, <1>5 DEF Terminated, vars
<1>6. ASSUME NEW b \in Switches, SwitchUp(b) PROVE AddressInv'
  BY <1>4, <1>6 DEF SwitchUp
<1>7. ASSUME NEW w \in Windows, WindowProgress(w) \/ Exit(w) \/ Respawn(w) PROVE AddressInv'
  BY <1>4, <1>7 DEF WindowProgress, Configure, Exec, ExecFails, ExecLost, Exit, Respawn
<1> QED
  BY <1>1, <1>2, <1>3, <1>5, <1>6, <1>7 DEF Next

\* However many machines a lab has and of whatever kind, no port and no MAC
\* address is given twice.
THEOREM AddressesStayDistinct == Spec => []AddressesDistinct
<1>1. AddressInv => AddressesDistinct
  BY DEF AddressInv
<1> QED
  BY <1>1, InitAddress, NextAddress, PTL DEF Spec

-----------------------------------------------------------------------------
(* Types *)

TypeInv == TypeOK /\ AddressInv

LEMMA InitTypeInv == Init => TypeInv
<1> SUFFICES ASSUME Init PROVE TypeInv
  OBVIOUS
<1>1. AddressInv
  BY InitAddress
<1>2. script \in Scripts /\ line \in 1 .. Len(script) + 1
  <2>1. script \in Scripts /\ line = 1
    BY DEF Init
  <2>2. Len(script) \in Nat
    BY <2>1, LaunchAssumption
  <2> QED
    BY <2>1, <2>2
<1>3. tcp >= Base /\ mac >= 1 /\ hosts = {} /\ pidfile = {} /\ tmp = TRUE /\ pc \in Phases
  <2>1. tcp = Base /\ mac = 1 /\ hosts = {} /\ pidfile = {} /\ tmp = TRUE /\ pc = "switches"
    BY DEF Init
  <2>2. Base \in Int
    BY LaunchAssumption
  <2> QED
    BY <2>1, <2>2 DEF Phases
<1>4. /\ switch \in [Switches -> {"none", "starting", "running", "dead"}]
      /\ window \in [Windows -> {"none", "forked", "configured", "running", "dead"}]
  <2>1. switch = [b \in Switches |-> "none"] /\ window = [w \in Windows |-> "none"]
    BY DEF Init
  <2> QED
    BY <2>1
<1> QED
  BY <1>1, <1>2, <1>3, <1>4 DEF TypeInv, TypeOK

LEMMA NextTypeInv == TypeInv /\ [Next]_vars => TypeInv'
<1> SUFFICES ASSUME TypeInv, [Next]_vars PROVE TypeInv'
  OBVIOUS
<1>a. AddressInv'
  BY NextAddress DEF TypeInv
<1>l. /\ Len(script) \in Nat /\ line \in Nat
      /\ line \in DOMAIN script <=> line <= Len(script)
      /\ tcp \in Int /\ mac \in Int
  BY LaunchAssumption DEF TypeInv, AddressInv, LineInv, BelowCounters
<1>b. Base \in Int
  BY LaunchAssumption
<1> USE DEF TypeInv, TypeOK, Phases, Switches, Windows
<1>1. CASE SpawnSwitches
  BY <1>1, <1>a, <1>l DEF SpawnSwitches, SetupSwitches, fileVars
<1>2. CASE SpawnStart \/ SpawnStartFails
  <2>1. PICK opened : StartMachine(script[line], opened)
    BY <1>2 DEF SpawnStart, SpawnStartFails
  <2>2. line \in DOMAIN script /\ script[line] \in Lines(script)
    BY <1>2 DEF SpawnStart, SpawnStartFails, AddressInv, LineInv, Lines
  <2>3. Machine(script[line]).macs \in Nat
    BY <2>2, LaunchAssumption, MacsAreCounted
  <2>4. mac' >= 1
    BY <1>l, <2>1, <2>3 DEF StartMachine, MacAddress
  <2>5. tcp' >= Base /\ \A h \in hosts' : h.port \in Base .. tcp' - 1
    BY <1>l, <1>b, <2>1 DEF StartMachine, AddSshConfig, TcpPort
  <2>6. /\ switch' \in [Switches -> {"none", "starting", "running", "dead"}]
        /\ window' \in [Windows -> {"none", "forked", "configured", "running", "dead"}]
        /\ UNCHANGED <<script, pidfile, tmp>>
    BY <2>1 DEF StartMachine, SetupSwitches
  <2>7. line' \in 1 .. Len(script) + 1 /\ pc' \in Phases
    BY <1>2, <1>l, <2>2 DEF SpawnStart, SpawnStartFails
  <2> QED
    BY <1>a, <2>4, <2>5, <2>6, <2>7
<1>3. CASE Run \/ Quit \/ Fail \/ Confirm
  BY <1>3, <1>a DEF Run, Quit, Fail, Confirm, fileVars
<1>4. CASE Term \/ KillAll
  <2>1. PICK S : Kill(S)
    BY <1>4 DEF Term, KillAll
  <2>2. /\ switch' \in [Switches -> {"none", "starting", "running", "dead"}]
        /\ window' \in [Windows -> {"none", "forked", "configured", "running", "dead"}]
    BY <2>1 DEF Kill
  <2> QED
    BY <1>4, <1>a, <2>2 DEF Term, KillAll, fileVars
<1>5. CASE RemoveTmp
  BY <1>5, <1>a DEF RemoveTmp, fileVars
<1>6. CASE KillSession
  BY <1>6, <1>a DEF KillSession, fileVars
<1>7. CASE Terminated \/ UNCHANGED vars
  BY <1>7, <1>a DEF Terminated, vars, launcherVars, fileVars
<1>8. ASSUME NEW b \in Switches, SwitchUp(b) PROVE TypeInv'
  BY <1>8, <1>a DEF SwitchUp, launcherVars, fileVars
<1>9. ASSUME NEW w \in Windows, Configure(w) \/ Exec(w) PROVE TypeInv'
  BY <1>9, <1>a DEF Configure, Exec, WindowStep, launcherVars, fileVars
<1>10. ASSUME NEW w \in Windows, ExecFails(w) \/ ExecLost(w) \/ Exit(w) \/ Respawn(w)
       PROVE  TypeInv'
  BY <1>10, <1>a DEF ExecFails, ExecLost, Exit, Respawn, WindowStep, launcherVars, fileVars
<1> QED
  BY <1>1, <1>2, <1>3, <1>4, <1>5, <1>6, <1>7, <1>8, <1>9, <1>10
     DEF Next, Cleanup, WindowProgress

\* Whatever lab is launched: a window never leaves its life cycle, and a port is
\* between the first one and the counter.
THEOREM LaunchTyped == Spec => []TypeOK
<1>1. TypeInv => TypeOK
  BY DEF TypeInv
<1> QED
  BY <1>1, InitTypeInv, NextTypeInv, PTL DEF Spec

-----------------------------------------------------------------------------
(* Networks *)

\* Every kind of machine but the one that is known not to, and a namespace,
\* which has no network of its own line, gives a port to each network.
LEMMA NetsAreCovered ==
  ASSUME NEW l, l.kind \in Kinds \ {"juniper-vjunos", "ns"}, NEW net \in l.nets
  PROVE  \E p \in Machine(l).parts : <<p, net>> \in Machine(l).plugs
<1>1. CASE l.kind \notin {"juniper-vqfx", "juniper-vmx"}
  <2>1. PICK oob, extra, named_in : Machine(l) = OneWindow(l, oob, extra, named_in)
    <3>1. \/ Machine(l) = StartVm(l) \/ Machine(l) = StartImg(l) \/ Machine(l) = StartJuniperVrr(l)
          \/ Machine(l) = StartJuniperVsrx(l) \/ Machine(l) = StartJuniperFirefly(l)
          \/ Machine(l) = StartCumulusVx(l) \/ Machine(l) = StartSonic(l)
          \/ Machine(l) = StartCiscoIosxrv(l) \/ Machine(l) = StartCiscoNxos(l)
          \/ Machine(l) = StartHpVsr1000(l)
      BY <1>1 DEF Machine, Kinds
    <3> QED
      BY <3>1, Zenon
         DEF StartVm, StartImg, StartJuniperVrr, StartJuniperVsrx, StartJuniperFirefly,
             StartCumulusVx, StartSonic, StartCiscoIosxrv, StartCiscoNxos, StartHpVsr1000
  <2>2. Machine(l).parts = {"vm"} /\ Machine(l).plugs = {"vm"} \X l.nets
    BY <2>1 DEF OneWindow
  <2> QED
    BY <2>2
<1>2. CASE l.kind = "juniper-vqfx"
  <2>1. Machine(l) = StartJuniperVqfx(l)
    BY <1>2 DEF Machine
  <2>2. "re" \in Machine(l).parts /\ <<"re", net>> \in Machine(l).plugs
    BY <2>1 DEF StartJuniperVqfx
  <2> QED
    BY <2>2
<1>3. CASE l.kind = "juniper-vmx"
  <2>1. Machine(l) = StartJuniperVmx(l)
    BY <1>3 DEF Machine
  <2>2. "pfe" \in Machine(l).parts /\ <<"pfe", net>> \in Machine(l).plugs
    BY <2>1 DEF StartJuniperVmx
  <2> QED
    BY <2>2
<1> QED
  BY <1>1, <1>2, <1>3

\* In every lab without a vJunos router, whose namespaces have no network of
\* their line and whose names are distinct, a machine that runs is plugged into
\* each of its networks.
THEOREM MachinesArePlugged ==
  ASSUME \A s \in Scripts : \A l, m \in Lines(s) :
           /\ l.kind # "juniper-vjunos"
           /\ l.kind = "ns" => l.nets = {}
           /\ l.name = m.name => l = m
  PROVE  Spec => []Plugged
<1>1. TypeOK => Plugged
  <2> SUFFICES ASSUME TypeOK, NEW l \in Lines(script), NEW net \in l.nets
               PROVE  \E p \in Machine(l).parts : net \in PlugsOf(<<l.name, p>>)
    BY DEF Plugged
  <2>1. l.kind \in Kinds \ {"juniper-vjunos", "ns"} /\ script \in Scripts
    BY LaunchAssumption DEF TypeOK
  <2>2. PICK p \in Machine(l).parts : <<p, net>> \in Machine(l).plugs
    BY <2>1, NetsAreCovered
  <2>3. LineOf(<<l.name, p>>) = l
    BY <2>1 DEF LineOf
  <2>4. net \in PlugsOf(<<l.name, p>>)
    BY <2>2, <2>3 DEF PlugsOf
  <2> QED
    BY <2>4
<1> QED
  BY <1>1, LaunchTyped, PTL
=============================================================================
