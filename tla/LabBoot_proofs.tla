--------------------------- MODULE LabBoot_proofs ---------------------------
(***************************************************************************)
(* Proofs about LabBoot, for every set of VMs and namespaces, every        *)
(* placement of the namespaces and any number of failures.                 *)
(***************************************************************************)
EXTENDS LabBoot, TLAPS

\* Before the first window opens the invariant holds.
LEMMA InitBootInv == Init => BootInv
BY BootAssumption
   DEF Init, BootInv, TypeOK, NetworkOrder, ReadyLast, SessionInVM,
       ReadyMeansLinked, ShellMeansConfigured, VmStates, NsStates, Inside, Sshd

\* Every step of the boot, every failure and every respawn preserves it.
LEMMA NextBootInv == BootInv /\ [Next]_vars => BootInv'
<1> SUFFICES ASSUME BootInv, [Next]_vars PROVE BootInv'
  OBVIOUS
<1> USE BootAssumption
        DEF BootInv, TypeOK, NetworkOrder, ReadyLast, SessionInVM,
            ReadyMeansLinked, ShellMeansConfigured, VmStates, NsStates, Inside,
            Sshd, NsOf, VmStep, NsStep, vmVars
<1>1. ASSUME NEW v \in VM, LaunchVM(v) PROVE BootInv'
  BY <1>1 DEF LaunchVM, StartVM
<1>2. ASSUME NEW v \in VM, RespawnVM(v) PROVE BootInv'
  BY <1>2 DEF RespawnVM, StartVM
<1>3. ASSUME NEW v \in VM, Begin(v) PROVE BootInv'
  BY <1>3 DEF Begin
<1>4. ASSUME NEW v \in VM, Chrooted(v) PROVE BootInv'
  BY <1>4 DEF Chrooted
<1>5. ASSUME NEW v \in VM, Getty(v) PROVE BootInv'
  BY <1>5 DEF Getty
<1>6. ASSUME NEW v \in VM, NEW n \in NsOf(v), SpawnNetns(n) PROVE BootInv'
  BY <1>6 DEF SpawnNetns
<1>7. ASSUME NEW v \in VM, NEW n \in NsOf(v), Link(n) PROVE BootInv'
  BY <1>7 DEF Link
<1>8. ASSUME NEW v \in VM, TouchReady(v) PROVE BootInv'
  BY <1>8 DEF TouchReady
<1>9. ASSUME NEW v \in VM, StopVM(v) PROVE BootInv'
  BY <1>9 DEF StopVM
<1>10. ASSUME NEW n \in NS, LaunchNS(n) \/ RespawnNS(n) PROVE BootInv'
  BY <1>10 DEF LaunchNS, RespawnNS, StartNS
<1>11. ASSUME NEW n \in NS, SeeReady(n) PROVE BootInv'
  BY <1>11 DEF SeeReady
<1>12. ASSUME NEW n \in NS, Enter(n) PROVE BootInv'
  BY <1>12 DEF Enter
<1>13. ASSUME NEW n \in NS, EnterFails(n) PROVE BootInv'
  BY <1>13 DEF EnterFails
<1>14. ASSUME NEW n \in NS, NsBegin(n) \/ NsChrooted(n) PROVE BootInv'
  BY <1>14 DEF NsBegin, NsChrooted
<1>15. ASSUME NEW n \in NS, NsAddress(n) PROVE BootInv'
  BY <1>15 DEF NsAddress
<1>16. ASSUME NEW n \in NS, NsAddressFails(n) PROVE BootInv'
  BY <1>16 DEF NsAddressFails
<1>17. ASSUME NEW n \in NS, NsSetup(n) PROVE BootInv'
  BY <1>17 DEF NsSetup
<1>18. ASSUME NEW n \in NS, StopNS(n) PROVE BootInv'
  BY <1>18 DEF StopNS
<1>19. CASE UNCHANGED vars
  BY <1>19 DEF vars
<1> QED
  BY <1>1, <1>2, <1>3, <1>4, <1>5, <1>6, <1>7, <1>8, <1>9, <1>10, <1>11,
     <1>12, <1>13, <1>14, <1>15, <1>16, <1>17, <1>18, <1>19
     DEF Next, VmProgress, NsProgress, Shell

\* Every state of the boot, at any size, satisfies the inductive invariant.
THEOREM BootInvariant == Spec => []BootInv
BY InitBootInv, NextBootInv, PTL DEF Spec

\* The state of the boot is typed, the bound of the failures included.
THEOREM BootTyped == Spec => []TypeOK
<1>1. BootInv => TypeOK
  BY DEF BootInv
<1> QED
  BY <1>1, BootInvariant, PTL

\* A namespace that offers its shell is in its own network, configured, in a
\* VM that runs: no interleaving of stops, respawns and logins breaks it.
THEOREM ShellConfigured == Spec => []ShellMeansConfigured
<1>1. BootInv => ShellMeansConfigured
  BY DEF BootInv
<1> QED
  BY <1>1, BootInvariant, PTL

\* A window that saw /tmp/ready in the running boot finds its namespace linked.
THEOREM ReadyLinked == Spec => []ReadyMeansLinked
<1>1. BootInv => ReadyMeansLinked
  BY DEF BootInv
<1> QED
  BY <1>1, BootInvariant, PTL

-----------------------------------------------------------------------------
(* Refinement *)

\* Nothing is linked before the first boot.
LEMMA InitReadiness == Init => Readiness!Init
BY DEF Init, Readiness!Init, Life

\* A step that leaves alone what Life reads leaves every life alone.
LEMMA LifeStutters ==
  ASSUME UNCHANGED <<linked, addressed, ns>>
  PROVE  UNCHANGED [n \in NS |-> Life(n)]
BY DEF Life

\* Every step of the boot is a step of the lives of the namespaces or none.
LEMMA NextReadiness ==
  BootInv /\ [Next]_vars => [Readiness!Next]_[n \in NS |-> Life(n)]
<1> SUFFICES ASSUME BootInv, [Next]_vars
             PROVE  [Readiness!Next]_[n \in NS |-> Life(n)]
  OBVIOUS
<1> DEFINE L == [n \in NS |-> Life(n)]
<1>inv. TypeOK /\ NetworkOrder /\ ReadyLast /\ SessionInVM /\ ShellMeansConfigured
  BY DEF BootInv
<1>1. ASSUME NEW v \in VM,
             LaunchVM(v) \/ RespawnVM(v) \/ Begin(v) \/ Chrooted(v) \/ Getty(v) \/ TouchReady(v)
      PROVE  UNCHANGED L
  BY <1>1, LifeStutters
     DEF LaunchVM, RespawnVM, StartVM, Begin, Chrooted, Getty, TouchReady
<1>2. ASSUME NEW n \in NS, SpawnNetns(n) PROVE UNCHANGED L
  BY <1>2, LifeStutters DEF SpawnNetns
<1>3. ASSUME NEW n \in NS, Link(n) PROVE Readiness!Link(n)
  <2>1. n \notin addressed
    BY <1>3, <1>inv DEF Link, NetworkOrder
  <2>2. \A m \in NS : Life(m)' = IF m = n THEN "linked" ELSE Life(m)
    BY <1>3, <2>1 DEF Link, Life
  <2>3. Life(n) = "absent"
    BY <1>3 DEF Link, Life
  <2> QED
    BY <2>2, <2>3 DEF Readiness!Link
<1>4. ASSUME NEW v \in VM, StopVM(v) PROVE Readiness!LoseVM(v)
  <2>1. \A m \in NS : Host[m] = v => Life(m)' = "absent"
    BY <1>4 DEF StopVM, NsOf, Life
  <2>2. \A m \in NS : Host[m] # v => Life(m)' = Life(m)
    BY <1>4, <1>inv DEF StopVM, NsOf, Life, TypeOK
  <2> QED
    BY <2>1, <2>2 DEF Readiness!LoseVM
<1>5. ASSUME NEW n \in NS,
             \/ LaunchNS(n) \/ RespawnNS(n) \/ SeeReady(n) \/ Enter(n) \/ EnterFails(n)
             \/ NsBegin(n) \/ NsChrooted(n) \/ NsAddressFails(n)
      PROVE  UNCHANGED L
  <2>1. \A m \in NS : Life(m)' = Life(m)
    BY <1>5, <1>inv
       DEF LaunchNS, RespawnNS, StartNS, SeeReady, Enter, EnterFails, NsBegin,
           NsChrooted, NsAddressFails, NsStep, vmVars, Life, TypeOK
  <2> QED
    BY <2>1
<1>6. ASSUME NEW n \in NS, NsAddress(n) PROVE Readiness!Claim(n)
  <2>1. \A m \in NS : Life(m)' = IF m = n THEN "claimed" ELSE Life(m)
    BY <1>6, <1>inv DEF NsAddress, NsStep, vmVars, Life, TypeOK
  <2>2. Life(n) = "linked"
    BY <1>6 DEF NsAddress, Life
  <2> QED
    BY <2>1, <2>2 DEF Readiness!Claim
<1>7. ASSUME NEW n \in NS, NsSetup(n) PROVE Readiness!Rise(n)
  <2>1. n \in linked \cap addressed
    BY <1>7, <1>inv DEF NsSetup, NsStep, ShellMeansConfigured
  <2>2. \A m \in NS : Life(m)' = IF m = n THEN "up" ELSE Life(m)
    BY <1>7, <1>inv, <2>1 DEF NsSetup, NsStep, vmVars, Life, TypeOK
  <2>3. Life(n) = "claimed"
    BY <1>7, <2>1 DEF NsSetup, NsStep, Life
  <2> QED
    BY <2>2, <2>3 DEF Readiness!Rise
<1>8. ASSUME NEW n \in NS, StopNS(n) PROVE Readiness!Spend(n) \/ UNCHANGED L
  <2>1. \A m \in NS : m # n => Life(m)' = Life(m)
    BY <1>8, <1>inv DEF StopNS, vmVars, Life, TypeOK
  <2>2. CASE ns[n] \in {"service", "shell"}
    <3>1. Life(n)' = "spent" /\ Life(n) \in {"claimed", "up"}
      BY <1>8, <1>inv, <2>2 DEF StopNS, vmVars, Life, TypeOK, ShellMeansConfigured
    <3> QED
      BY <2>1, <3>1 DEF Readiness!Spend
  <2>3. CASE ns[n] \notin {"service", "shell"}
    <3>1. Life(n)' = Life(n)
      BY <1>8, <1>inv, <2>3 DEF StopNS, vmVars, Life, TypeOK
    <3> QED
      BY <2>1, <3>1
  <2> QED
    BY <2>2, <2>3
<1>9. CASE UNCHANGED vars
  BY <1>9, LifeStutters DEF vars
<1> QED
  BY <1>1, <1>2, <1>3, <1>4, <1>5, <1>6, <1>7, <1>8, <1>9
     DEF Next, VmProgress, NsProgress, Shell, NsOf, Readiness!Next

\* The boot implements LabReadiness: in one boot of its VM a namespace comes
\* up at most once, after its network, and only the loss of the VM resets it.
THEOREM BootImplementsReadiness == Spec => ImplementsReadiness
BY InitReadiness, NextReadiness, BootInvariant, PTL
   DEF Spec, ImplementsReadiness, Readiness!Spec
=============================================================================
