----------------------------- MODULE LabMachines -----------------------------
(***************************************************************************)
(* The machines a lab can spawn: what the start_* functions of             *)
(* common/lab-setup ask of the launcher, for each kind of machine.         *)
(*                                                                         *)
(* A spawn line is a record: name, kind, oob (whether "oob" is one of its  *)
(* networks) and nets (its other networks).  A switch is a pair            *)
(* <<owner, id>>, a window a pair <<name, part>>.                          *)
(***************************************************************************)
EXTENDS Integers, FiniteSets

Kinds == {"vm", "img", "ns", "juniper-vrr", "juniper-vsrx", "juniper-vqfx",
          "juniper-vmx", "juniper-vjunos", "juniper-firefly", "cumulus-vx",
          "sonic", "cisco-iosxrv", "cisco-nxos", "hp-vsr1000"}

-----------------------------------------------------------------------------
(* What each start function makes of its spawn line:                       *)
(*   oob       it calls tcp_port and add_ssh_config                        *)
(*   macs      how many times it calls mac_address                         *)
(*   internal  the switches it starts besides those of the spawn line      *)
(*   plugs     which part of the machine gets a port of which switch       *)
(*   parts     the windows it opens                                        *)
(*   junos     the windows whose .exec reads the shared ssh-junos.conf     *)

Nics(s) == Cardinality(s.nets)

OneWindow(s, oob, extra, junos) ==
  [oob |-> oob, macs |-> Nics(s) + extra, internal |-> {},
   plugs |-> {"vm"} \X s.nets, parts |-> {"vm"}, junos |-> junos]

StartNs(s)             == [OneWindow(s, FALSE, 0, {}) EXCEPT !.plugs = {}]
StartVm(s)             == OneWindow(s, s.oob, 0, {})
StartImg(s)            == OneWindow(s, s.oob, 0, {})
StartJuniperVrr(s)     == OneWindow(s, TRUE, 0, {"vm"})
StartJuniperVsrx(s)    == OneWindow(s, TRUE, 0, {"vm"})
StartJuniperFirefly(s) == OneWindow(s, FALSE, 1, {})
StartCumulusVx(s)      == OneWindow(s, TRUE, 0, {})
StartSonic(s)          == OneWindow(s, TRUE, 0, {})
StartCiscoIosxrv(s)    == OneWindow(s, TRUE, 2, {})
StartCiscoNxos(s)      == OneWindow(s, TRUE, 0, {})
StartHpVsr1000(s)      == OneWindow(s, TRUE, 0, {})

\* The routing engine of a vQFX carries the networks of the lab ...
StartJuniperVqfx(s) ==
  LET internal == <<s.name, "internal">>
  IN [oob |-> TRUE, macs |-> Nics(s) + 4, internal |-> {internal},
      plugs |-> ({"re", "pfe"} \X {internal}) \cup ({"re"} \X s.nets),
      parts |-> {"re", "pfe"}, junos |-> {"re"}]

\* Mutant of StartJuniperVmx: the networks stay on the routing engine.
StartJuniperVmxUnplugged(s) ==
  LET internal == <<s.name, "internal">>
  IN [oob |-> TRUE, macs |-> 3, internal |-> {internal},
      plugs |-> {"re", "pfe"} \X {internal},
      parts |-> {"re", "pfe"}, junos |-> {"re"}]

\* ... and the forwarding engine those of a vMX.
StartJuniperVmx(s) ==
  LET internal == <<s.name, "internal">>
  IN [oob |-> TRUE, macs |-> Nics(s) + 3, internal |-> {internal},
      plugs |-> ({"re", "pfe"} \X {internal}) \cup ({"pfe"} \X s.nets),
      parts |-> {"re", "pfe"}, junos |-> {"re"}]

\* The networks of the spawn line are counted, and plugged nowhere.
StartJuniperVjunos(s) ==
  LET internal == {<<s.name, "pfe">>, <<s.name, "rpio">>}
  IN [oob |-> TRUE, macs |-> 4, internal |-> internal,
      plugs |-> {"re"} \X internal, parts |-> {"re"}, junos |-> {"re"}]

Machine(s) ==
  CASE s.kind = "vm"              -> StartVm(s)
    [] s.kind = "img"             -> StartImg(s)
    [] s.kind = "ns"              -> StartNs(s)
    [] s.kind = "juniper-vrr"     -> StartJuniperVrr(s)
    [] s.kind = "juniper-vsrx"    -> StartJuniperVsrx(s)
    [] s.kind = "juniper-vqfx"    -> StartJuniperVqfx(s)
    [] s.kind = "juniper-vmx"     -> StartJuniperVmx(s)
    [] s.kind = "juniper-vjunos"  -> StartJuniperVjunos(s)
    [] s.kind = "juniper-firefly" -> StartJuniperFirefly(s)
    [] s.kind = "cumulus-vx"      -> StartCumulusVx(s)
    [] s.kind = "sonic"           -> StartSonic(s)
    [] s.kind = "cisco-iosxrv"    -> StartCiscoIosxrv(s)
    [] s.kind = "cisco-nxos"      -> StartCiscoNxos(s)
    [] s.kind = "hp-vsr1000"      -> StartHpVsr1000(s)

\* A lab is a sequence of spawn lines.
Lines(script) == {script[i] : i \in DOMAIN script}

WindowsOf(script) == UNION {{l.name} \X Machine(l).parts : l \in Lines(script)}

SwitchesOf(script) == UNION {l.nets \cup Machine(l).internal : l \in Lines(script)}
=============================================================================
