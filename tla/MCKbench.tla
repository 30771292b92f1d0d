------------------------------ MODULE MCKbench ------------------------------
(***************************************************************************)
(* Two threads: one writes the parameters while the other benchmarks, and  *)
(* with IPv6, where benchmarks have a mutex in common, both benchmark.     *)
(***************************************************************************)
EXTENDS Kbench, TLC

Number(n) == [form |-> "number", val |-> n]
Inet6(n)  == [form |-> "address", val |-> n]
Text(n)   == [form |-> "text", val |-> n]

MCDefaults ==
  [name \in {"warmup_count", "loop_count", "batch_count", "max_loop_count", "flow_oif"} |->
     CASE name = "loop_count" -> 2 [] name = "max_loop_count" -> 3 [] OTHER -> 1]
  @@ [name \in {"flow_iif", "flow_tos", "flow_label", "flow_mark",
                 "flow_dst_ipaddr_s", "flow_src_ipaddr"} |-> 0]
  @@ [name \in {"flow_dst_ipaddr_e"} |-> 4]

\* A count that is refused and two that are not; a device that exists and one
\* that does not; ranges of more and of less addresses than lookups, and empty.
\* The range of IPv6 does not matter to the control: one source address is
\* written, and the IPv4 addresses are refused.
MCInputs ==
  [name \in DOMAIN MCDefaults |->
     CASE name = "warmup_count"      -> {Number(0), Number(1)}
       [] name = "loop_count"        -> {Number(0), Number(2), Number(3)}
       [] name = "batch_count"       -> {Number(0), Number(1), Number(2)}
       [] name = "max_loop_count"    -> {Number(0), Number(3)}
       [] name = "flow_oif"          -> {Number(-1), Text(1), Text(2)}
       [] name = "flow_iif"          -> {Number(0)}
       [] name = "flow_tos"          -> {Number(0), Number(256)}
       [] name = "flow_dst_ipaddr_s" -> {Number(2), Number(4), Text(0)}
       [] name = "flow_dst_ipaddr_e" -> {Number(4)}
       [] name = "flow_src_ipaddr"   -> {Inet6(0), Text(0)}
       [] OTHER                      -> {Number(0), Text(0)}]
=============================================================================
