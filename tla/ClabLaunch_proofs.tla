--------------------------- MODULE ClabLaunch_proofs ---------------------------
(***************************************************************************)
(* The launch never reports a success it did not have: in every order of   *)
(* the steps and failures of the three processes, exit status 0 of the     *)
(* parent stands for a configured environment that tmux left well.         *)
(***************************************************************************)
EXTENDS ClabLaunch, TLAPS

Inv == TypeOK /\ NotYetForked /\ GoMeansConfigured /\ SuccessMeansConfigured

LEMMA InitInv == Init => Inv
  BY DEF Init, Inv, TypeOK, NotYetForked, GoMeansConfigured, SuccessMeansConfigured,
         Procs, Ends, ParentPcs, ChildPcs, GrandPcs

LEMMA NextInv == Inv /\ [Next]_vars => Inv'
<1> SUFFICES ASSUME Inv, [Next]_vars PROVE Inv'
  OBVIOUS
<1> USE DEF Inv, TypeOK, NotYetForked, GoMeansConfigured, SuccessMeansConfigured,
            Procs, Ends, ParentPcs, ChildPcs, GrandPcs, Step, End, Close, Waited
<1>1. CASE BuildWorkspace
  BY <1>1 DEF BuildWorkspace
<1>2. CASE Fork
  <2>1. TypeOK'
    <3>1. pc' \in [Procs -> ParentPcs \cup ChildPcs \cup GrandPcs]
      BY <1>2 DEF Fork
    <3>2. pc'["parent"] \in ParentPcs /\ pc'["child"] \in ChildPcs /\ pc'["grand"] \in GrandPcs
      BY <1>2 DEF Fork
    <3>3. \A p \in Procs : pc'[p] = "gone" <=> pc[p] = "gone"
      BY <1>2 DEF Fork
    <3>4. held' \in [Procs -> SUBSET Ends]
      BY <1>2 DEF Fork
    <3>5. \A p \in Procs : pc'[p] \in {"none", "gone"} => held'[p] = {}
      BY <1>2 DEF Fork
    <3> QED BY <1>2, <3>1, <3>2, <3>3, <3>4, <3>5 DEF Fork
  <2>2. (NotYetForked /\ GoMeansConfigured)'      BY <1>2 DEF Fork
  <2>3. SuccessMeansConfigured' BY <1>2 DEF Fork
  <2> QED BY <2>1, <2>2, <2>3
<1>3. CASE ParentClose
  BY <1>3 DEF ParentClose
<1>4. CASE ParentRead
  BY <1>4 DEF ParentRead
<1>5. CASE MapUid
  BY <1>5 DEF MapUid, CanMap
<1>6. CASE MapGid
  BY <1>6 DEF MapGid, CanMap
<1>7. CASE Pasta
  BY <1>7 DEF Pasta, CanMap
<1>8. CASE WriteGo
  BY <1>8 DEF WriteGo
<1>9. CASE ParentWait
  <2>1. TypeOK'                 BY <1>9 DEF ParentWait
  <2>2. (NotYetForked /\ GoMeansConfigured)'      BY <1>9 DEF ParentWait
  <2>3. SuccessMeansConfigured'
    <3>1. code'["parent"] = code["child"] /\ code'["grand"] = code["grand"]
      BY <1>9 DEF ParentWait
    <3>2. unshared /\ mapped = {"uid", "gid"} /\ net = "up"
      BY <1>9 DEF ParentWait
    <3>3. UNCHANGED <<unshared, mapped, net>>
      BY <1>9 DEF ParentWait
    <3> QED BY <3>1, <3>2, <3>3
  <2> QED BY <2>1, <2>2, <2>3
<1>10. CASE PastaFails
  BY <1>10 DEF PastaFails
<1>11. CASE ParentFails
  BY <1>11 DEF ParentFails
<1>12. CASE ChildClose
  BY <1>12 DEF ChildClose
<1>13. CASE Unshare
  <2>1. TypeOK'                 BY <1>13 DEF Unshare
  <2>2. (NotYetForked /\ GoMeansConfigured)'      BY <1>13 DEF Unshare
  <2>3. SuccessMeansConfigured' BY <1>13 DEF Unshare
  <2> QED BY <2>1, <2>2, <2>3
<1>14. CASE WriteReady
  BY <1>14 DEF WriteReady
<1>15. CASE ReadGo
  BY <1>15 DEF ReadGo
<1>16. CASE ForkGrand
  <2>1. TypeOK'
    <3>1. pc' \in [Procs -> ParentPcs \cup ChildPcs \cup GrandPcs]
      BY <1>16 DEF ForkGrand
    <3>2. pc'["parent"] \in ParentPcs /\ pc'["child"] \in ChildPcs /\ pc'["grand"] \in GrandPcs
      BY <1>16 DEF ForkGrand
    <3>3. \A p \in Procs : pc'[p] = "gone" <=> pc[p] = "gone"
      BY <1>16 DEF ForkGrand
    <3>4. held' \in [Procs -> SUBSET Ends]
      BY <1>16 DEF ForkGrand
    <3>5. \A p \in Procs : pc'[p] \in {"none", "gone"} => held'[p] = {}
      BY <1>16 DEF ForkGrand
    <3> QED BY <1>16, <3>1, <3>2, <3>3, <3>4, <3>5 DEF ForkGrand
  <2>2. (NotYetForked /\ GoMeansConfigured)'      BY <1>16 DEF ForkGrand
  <2>3. SuccessMeansConfigured' BY <1>16 DEF ForkGrand
  <2> QED BY <2>1, <2>2, <2>3
<1>17. CASE ChildWait
  BY <1>17 DEF ChildWait
<1>18. CASE ChildFails
  BY <1>18 DEF ChildFails
<1>19. CASE EnterNamespace
  BY <1>19 DEF EnterNamespace
<1>20. CASE LeaveTmux
  <2>1. TypeOK'                 BY <1>20 DEF LeaveTmux
  <2>2. (NotYetForked /\ GoMeansConfigured)'      BY <1>20 DEF LeaveTmux
  <2>3. SuccessMeansConfigured' BY <1>20 DEF LeaveTmux
  <2> QED BY <2>1, <2>2, <2>3
<1>21. CASE GrandFails
  <2>1. TypeOK'                 BY <1>21 DEF GrandFails
  <2>2. (NotYetForked /\ GoMeansConfigured)'      BY <1>21 DEF GrandFails
  <2>3. SuccessMeansConfigured' BY <1>21 DEF GrandFails
  <2> QED BY <2>1, <2>2, <2>3
<1>22. CASE UNCHANGED vars
  BY <1>22 DEF vars
<1> QED BY <1>1, <1>2, <1>3, <1>4, <1>5, <1>6, <1>7, <1>8, <1>9, <1>10, <1>11, <1>12, <1>13, <1>14, <1>15, <1>16, <1>17, <1>18, <1>19, <1>20, <1>21, <1>22 DEF Next, Parent, Child, Terminated

\* Type correctness, with the discipline of the pipes: a process that is over
\* holds no end, and has an exit status.
THEOREM LaunchTyped == Spec => []TypeOK
  BY InitInv, NextInv, PTL DEF Spec, Inv

\* The command succeeds only if tmux ended well in a configured environment.
THEOREM SuccessIsConfigured == Spec => []SuccessMeansConfigured
  BY InitInv, NextInv, PTL DEF Spec, Inv
-----------------------------------------------------------------------------
(* Nobody waits for nobody *)

LEMMA InitClosed == Init => PipesClosed
  BY DEF Init, PipesClosed, Procs, ParentPcs

\* Each step closes what it says, and only a fork gives an end to another.
LEMMA NextClosed == Inv /\ PipesClosed /\ [Next]_vars => PipesClosed'
<1> SUFFICES ASSUME TypeOK, NotYetForked, PipesClosed, [Next]_vars PROVE PipesClosed'
  BY DEF Inv
<1> USE DEF TypeOK, NotYetForked, PipesClosed, Procs, Ends, ParentPcs, ChildPcs, GrandPcs,
            Step, End, Close, Waited
<1>1. CASE Parent
  <2>1. CASE BuildWorkspace
    BY <2>1 DEF BuildWorkspace
  <2>2. CASE Fork
    BY <2>2 DEF Fork
  <2>3. CASE ParentClose
    BY <2>3 DEF ParentClose
  <2>4. CASE ParentRead
    BY <2>4 DEF ParentRead
  <2>5. CASE MapUid \/ MapGid \/ Pasta
    BY <2>5 DEF MapUid, MapGid, Pasta
  <2>6. CASE WriteGo
    BY <2>6 DEF WriteGo
  <2>7. CASE ParentWait
    BY <2>7 DEF ParentWait
  <2> QED BY <1>1, <2>1, <2>2, <2>3, <2>4, <2>5, <2>6, <2>7 DEF Parent
<1>2. CASE PastaFails \/ ParentFails
  BY <1>2 DEF PastaFails, ParentFails
<1>3. CASE Child
  <2>1. CASE ChildClose
    BY <2>1 DEF ChildClose
  <2>2. CASE Unshare
    BY <2>2 DEF Unshare
  <2>3. CASE WriteReady
    BY <2>3 DEF WriteReady
  <2>4. CASE ReadGo
    BY <2>4 DEF ReadGo
  <2>5. CASE ForkGrand
    BY <2>5 DEF ForkGrand
  <2>6. CASE ChildWait
    BY <2>6 DEF ChildWait
  <2> QED BY <1>3, <2>1, <2>2, <2>3, <2>4, <2>5, <2>6 DEF Child
<1>4. CASE ChildFails
  BY <1>4 DEF ChildFails
<1>5. CASE EnterNamespace
  BY <1>5 DEF EnterNamespace
<1>6. CASE LeaveTmux \/ GrandFails
  BY <1>6 DEF LeaveTmux, GrandFails
<1>7. CASE UNCHANGED vars
  BY <1>7 DEF vars
<1> QED BY <1>1, <1>2, <1>3, <1>4, <1>5, <1>6, <1>7 DEF Next, Terminated

\* The parent can only wait for the child and the child for the parent, while
\* it holds the end the other reads from, or for the grandchild, which waits
\* for nobody.
LEMMA ClosedGoesOn == TypeOK /\ PipesClosed => SomebodyGoesOn
<1> SUFFICES ASSUME TypeOK, PipesClosed, NEW r \in Procs, Runs(r)
             PROVE \E p \in Procs : Runs(p) /\ ~Waits(p)
  BY DEF SomebodyGoesOn
<1> USE DEF TypeOK, PipesClosed, Procs, Ends, ParentPcs, ChildPcs, GrandPcs
<1>1. CASE Runs("grand")
  BY <1>1 DEF Waits
<1>2. CASE Runs("child") /\ ~Runs("grand")
  <2>1. CASE ~Waits("child")
    BY <1>2, <2>1
  <2>2. CASE Waits("child")
    <3>1. pc["child"] # "wait"
      BY <1>2, <2>2 DEF Waits, Runs
    <3>2. pc["child"] = "read" /\ "go" \notin sent /\ Open("go_w")
      BY <2>2, <3>1 DEF Waits, Read
    <3>3. "go_w" \in held["parent"]
      BY <3>2 DEF Open
    <3>4. Runs("parent") /\ pc["parent"] # "wait"
      BY <3>2, <3>3 DEF Runs
    <3>5. pc["parent"] = "read" => ~Open("ready_w")
      BY <3>2 DEF Open
    <3> QED BY <3>4, <3>5 DEF Waits, Read
  <2> QED BY <2>1, <2>2
<1>3. CASE ~Runs("child") /\ ~Runs("grand")
  <2>1. Runs("parent")
    BY <1>3
  <2>2. pc["parent"] = "read" => ~Open("ready_w")
    BY <1>3 DEF Runs, Open
  <2>3. pc["parent"] = "wait" => pc["child"] = "gone"
    BY <1>3 DEF Runs
  <2> QED BY <2>1, <2>2, <2>3 DEF Waits, Read
<1> QED BY <1>1, <1>2, <1>3

\* In every order of the steps and failures of the three processes, one that
\* runs is not blocked in os.read or waitpid: they never all wait for another.
THEOREM SomebodyAlwaysGoesOn == Spec => []SomebodyGoesOn
<1>1. Init => Inv /\ PipesClosed
  BY InitInv, InitClosed
<1>2. Inv /\ PipesClosed /\ [Next]_vars => (Inv /\ PipesClosed)'
  BY NextInv, NextClosed
<1>3. Inv /\ PipesClosed => SomebodyGoesOn
  BY ClosedGoesOn DEF Inv
<1> QED BY <1>1, <1>2, <1>3, PTL DEF Spec
=============================================================================
