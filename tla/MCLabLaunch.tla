----------------------------- MODULE MCLabLaunch -----------------------------
(***************************************************************************)
(* A VM with a namespace and a machine in two parts on one network, and    *)
(* every kind of machine followed by a Junos router.                       *)
(***************************************************************************)
EXTENDS LabLaunch

Net == <<"lab", "1">>

SpawnLine(n, k) ==
  [name |-> n, kind |-> k, oob |-> TRUE, nets |-> IF k = "ns" THEN {} ELSE {Net}]

Generic == <<SpawnLine("R2", "vm"), SpawnLine("R2/NS1", "ns"), SpawnLine("QFX", "juniper-vqfx")>>

\* start_juniper_vjunos has a run of its own.
Pairs == {<<SpawnLine("A", k), SpawnLine("B", "juniper-vrr")>> : k \in Kinds \ {"juniper-vjunos"}}

MCScripts == {Generic} \cup Pairs

TwoRouters == {<<SpawnLine("A", "juniper-vrr"), SpawnLine("B", "juniper-vrr")>>}
OneVjunos  == {<<SpawnLine("R1", "vm"), SpawnLine("vJunos", "juniper-vjunos")>>}
=============================================================================
