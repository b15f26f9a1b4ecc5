---------------------------- MODULE MCReconcile ----------------------------
(***************************************************************************)
(* A small instance of Reconcile: commands under every default root, with  *)
(* two values of one node where the device holds one, ethernet             *)
(* descriptions, and commands no apply manages.                            *)
(***************************************************************************)
EXTENDS Reconcile

MCAddr == {"192.0.2.1"}
MCPrefix == {"192.0.2.0/24"}
MCNumber == {"22"}

Described(v) == <<"set", "interfaces", "ethernet", "eth0", "description", v>>
br0 == <<"set", "interfaces", "bridge", "br0", "description", "LAN">>
br1 == <<"set", "interfaces", "bridge", "br1", "address", "dhcp">>
nat == <<"set", "nat", "source", "rule", "100">>
ssh == <<"set", "service", "ssh", "port", "22">>
address == <<"set", "interfaces", "ethernet", "eth0", "address", "dhcp">>
dynamic == <<"set", "service", "dns", "dynamic", "name", "x">>

MCOperator == {br0, nat, Described("WAN"), address, dynamic}
MCLists == { <<br0, Described("WAN"), ssh>>, <<br1, Described("LAN"), Described("WAN")>>,
             <<nat, Described("LAN")>>, <<ssh>> }
MCPolicies == {DefaultRoots, << <<"interfaces", "bridge", "br0">> >>,
               << <<"service", "ssh">>, <<"nat", "source">> >>, <<>>}
MCCommand == MCOperator \cup UNION {{l[j] : j \in DOMAIN l} : l \in MCLists}
               \cup {smokeCommands[j] : j \in DOMAIN smokeCommands}

\* A description has one value.
MCNode(t) == IF t[Len(t) - 1] = "description" THEN SubSeq(t, 1, Len(t) - 1) ELSE t

Run(confirmed, skip, mode) ==
  [flags |-> TRUE, confirmed |-> confirmed, skip |-> skip, mode |-> mode,
   target |-> "vyos", uuid |-> "u"]
MCSmoke == {Run(TRUE, FALSE, m) : m \in {"", "minimal-managed", "nat"}}
             \cup {Run(FALSE, FALSE, ""), Run(TRUE, TRUE, ""),
                   [Run(TRUE, TRUE, "bridge") EXCEPT !.flags = FALSE],
                   [Run(TRUE, FALSE, "") EXCEPT !.target = "other"],
                   [Run(TRUE, TRUE, "") EXCEPT !.uuid = ""]}
=============================================================================
