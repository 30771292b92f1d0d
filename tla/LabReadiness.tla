---------------------------- MODULE LabReadiness ----------------------------
(***************************************************************************)
(* What the boot of a lab promises about its network namespaces, without   *)
(* the windows, the ssh connections and the states of the guest script.    *)
(*                                                                         *)
(* A namespace goes through one life per boot of the VM that hosts it:     *)
(* its network is made (linked), its own setup claims that network         *)
(* (claimed), it is usable (up), and once it stops it is spent.  Nothing   *)
(* but the loss of the VM brings it back to absent.                        *)
(***************************************************************************)

CONSTANTS
  VM,      \* virtual machines
  NS,      \* network namespaces
  Host     \* Host[n] is the VM in which namespace n lives

VARIABLE life

Lives == {"absent", "linked", "claimed", "up", "spent"}

TypeOK == life \in [NS -> Lives]

Init == life = [n \in NS |-> "absent"]

Link(n)  == life[n] = "absent"  /\ life' = [life EXCEPT ![n] = "linked"]
Claim(n) == life[n] = "linked"  /\ life' = [life EXCEPT ![n] = "claimed"]
Rise(n)  == life[n] = "claimed" /\ life' = [life EXCEPT ![n] = "up"]
Spend(n) ==
  /\ life[n] \in {"claimed", "up"}
  /\ life' = [life EXCEPT ![n] = "spent"]

\* The VM stops: its namespaces and all that was configured in them vanish.
LoseVM(v) ==
  life' = [n \in NS |-> IF Host[n] = v THEN "absent" ELSE life[n]]

Next ==
  \/ \E n \in NS : Link(n) \/ Claim(n) \/ Rise(n) \/ Spend(n)
  \/ \E v \in VM : LoseVM(v)

Spec == Init /\ [][Next]_life
=============================================================================
