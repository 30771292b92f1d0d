------------------------------ MODULE MCLabBoot ------------------------------
(***************************************************************************)
(* lab-generic: two VMs, R2 carries the namespaces NS1 and NS2.            *)
(***************************************************************************)
EXTENDS LabBoot, TLC

CONSTANTS R1, R2, NS1, NS2

MCVM   == {R1, R2}
MCNS   == {NS1, NS2}
MCHost == [n \in MCNS |-> R2]
=============================================================================
