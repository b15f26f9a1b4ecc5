---------------------------- MODULE MCApplyEngine ----------------------------
(***************************************************************************)
(* A small instance of ApplyEngine: every kind of line and every path of   *)
(* the allowlist with a near miss of it, alone, before and after a valid   *)
(* and a blank line, under every list of up to two options.                *)
(***************************************************************************)
EXTENDS ApplyEngine, FiniteSets, TLC

MCAddr == {"192.0.2.1"}
MCPrefix == {"192.0.2.0/24"}
MCPositive == {"22", "70000"}
MCPort == {"22"}

Command(t) == [kind |-> "command", tokens |-> t]
DHCP == <<"set", "service", "dhcp-server", "shared-network-name", "LAN", "subnet", "192.0.2.0/24">>
Good == {
  <<"set", "interfaces", "bridge", "br0">>,
  <<"set", "interfaces", "ethernet", "eth0", "description", "WAN">>,
  <<"set", "nat", "source", "rule">>,
  DHCP \o <<"lease", "22">>,
  DHCP \o <<"subnet-id", "70000">>,
  DHCP \o <<"option", "name-server", "192.0.2.1">>,
  DHCP \o <<"range", "0", "stop", "192.0.2.1">>,
  <<"set", "service", "dns", "forwarding", "allow-from", "192.0.2.0/24">>,
  <<"set", "service", "dns", "forwarding", "cache-size", "0">>,
  <<"set", "service", "dns", "forwarding", "listen-address", "192.0.2.1">>,
  <<"set", "service", "ssh", "port", "22">> }
Bad == {
  <<"set", "interfaces", "bridge">>,
  <<"set", "interfaces", "ethernet", "eth0", "address", "dhcp">>,
  <<"set", "interfaces", "ethernet", "", "description", "WAN">>,
  <<"set", "nat", "destination", "rule">>,
  <<"set", "system", "host-name", "x">>,
  DHCP,
  DHCP \o <<"lease", "0">>,
  DHCP \o <<"option", "domain-name", "192.0.2.1">>,
  DHCP \o <<"range", "1", "stop", "192.0.2.1">>,
  <<"set", "service", "dns", "dynamic", "allow-from", "192.0.2.0/24">>,
  <<"set", "service", "dns", "forwarding", "cache-size", "22">>,
  <<"set", "service", "ssh", "port", "70000">>,
  <<"set", "service", "ssh", "listen-address", "192.0.2.1">>,
  <<"delete", "interfaces", "bridge", "br0">>,
  <<"commit">>, <<"load", "interfaces", "bridge", "br0">> }
Lines == {Command(t) : t \in Good \cup Bad}
           \cup {[kind |-> q, tokens |-> <<>>] : q \in LineKinds \ {"command"}}

In(ls) == [ctx |-> "live", target |-> "vyos", uuid |-> "u", lines |-> ls]
Rule == Command(<<"set", "nat", "source", "rule">>)
Blank == [kind |-> "blank", tokens |-> <<>>]
Lease == In(<<Command(DHCP \o <<"lease", "22">>)>>)
MCInputs ==
  {In(<<l>>) : l \in Lines}
    \cup {In(<<l, x>>) : l \in Lines, x \in {Rule, Blank}}
    \cup {In(<<x, l>>) : l \in Lines, x \in {Rule, Blank}}
    \cup {[Lease EXCEPT !.ctx = q] : q \in {"nil", "done"}}
    \cup {[Lease EXCEPT !.target = q] : q \in {"", "other"}}
    \cup {[Lease EXCEPT !.uuid = ""]}

O(op, v) == [op |-> op, value |-> v]
Options == {
  O("nil", ""), O("foreign", ""), O("executor", "custom"), O("executor", "nil"),
  O("save", TRUE), O("save", FALSE),
  O("policy", << <<"interfaces", "bridge", "br0">> >>), O("policy", <<>>),
  O("policy", << <<"nat", "source">>, <<"system">> >>), O("policy", << <<>> >>) }

MCOptions == {<<>>} \cup {<<o>> : o \in Options} \cup {<<o, p>> : o, p \in Options}
=============================================================================
