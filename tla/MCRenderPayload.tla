--------------------------- MODULE MCRenderPayload ---------------------------
(***************************************************************************)
(* Four families of requests: interface arrays of up to four entries in    *)
(* every order; one service LAN with every subnet, range and lease of an   *)
(* address space of 16; several LANs whose subnets, identifiers and places *)
(* vary; and NAT rules, SSH ports, port maps and metadata.                 *)
(***************************************************************************)
EXTENDS RenderPayload

MCTop == 15
MCMaxInt == 8191
MCAddress(a) == "10.0.0." \o ToString(a)
Text(ip, size) == MCAddress(ip) \o "/" \o ToString(size)
MCSubnet(first, last) == Text(first, last - first + 1)
Blocks == [ip : 0 .. MCTop, size : {1, 2, 4, 8, 16}]
BlockOf ==
  [t \in {Text(p.ip, p.size) : p \in Blocks} |-> CHOOSE p \in Blocks : Text(p.ip, p.size) = t]
MCSubnetPrefix == BlockOf @@ <<>>   \* @@ has TLC tabulate the function
MCTextBefore(a, b) == a.net < b.net

MCTokenNames == 1 .. 6
MCUnsafeNames == {9}
MCMetaNames == {8}
MCJoinedBefore(p, q) == p = {"eth1"} /\ q = {"eth1", "eth2"}

MCIpv4Addr == {MCAddress(a) : a \in 0 .. MCTop}
MCIpv4Prefix == DOMAIN MCSubnetPrefix
MCPositiveInt == {ToString(n) : n \in 1 .. MCMaxInt}
MCPort == {ToString(n) : n \in {1, 22, 2222}}

DHCP(base, unit, first, count) ==
  [lease |-> [base |-> base, unit |-> unit], first |-> first, count |-> count]
Short == DHCP(300, "none", 2, 1)
E(role, name, select, vlan, addressing, subnet, dhcp) ==
  [role |-> role, name |-> name, select |-> select, vlan |-> vlan,
   addressing |-> addressing, subnet |-> subnet, dhcp |-> dhcp]
WAN == E("upstream", 1, {"WAN*"}, 0, "dynamic", "", Short)
Dynamic == E("downstream", 0, {"LAN*"}, 0, "dynamic", "", Short)
LAN(name, vlan, subnet, dhcp) == E("downstream", name, {"LAN*"}, vlan, "static", subnet, dhcp)

GoodInput == [ctx |-> "live", config_uuid |-> "id", payload_json |-> "object"] @@ Supported
R(entries0, rules, ssh) ==
  [portMaps |-> <<>>, input |-> GoodInput, meta |-> <<>>, entries |-> entries0,
   rules |-> rules, ssh |-> ssh]

-----------------------------------------------------------------------------
Accepted == {
  WAN,
  LAN(2, 0, Text(1, 4), Short),
  E("downstream", 0, {"LAN1", "SFP"}, 0, "dynamic", "", Short),
  E("downstream", 3, {"LAN1"}, 10, "static", Text(5, 4), Short),
  E("downstream", 8, {"WAN*", "LAN*"}, 5, "", Text(9, 4), Short),
  E("downstream", 0, {"LAN*"}, 10, "dynamic", Text(13, 4), Short),
  E("upstream", 5, {"WAN*"}, 7, "static", Text(13, 4), Short),
  E("guest", 6, {}, 0, "", "", Short) }
Faulty == {
  E("malformed", 1, {"WAN*"}, 0, "dynamic", "", Short),
  E("downstream", 9, {"LAN*"}, 0, "dynamic", "", Short),
  E("downstream", 2, {"SFP"}, 0, "dynamic", "", Short),
  E("downstream", 2, {"LAN*"}, 10, "static", "", Short),
  E("upstream", 1, {"WAN*"}, 0, "static", "unsafe", Short),
  E("downstream", 2, {"LAN*"}, 0, "", Text(1, 4), Short) }
Rule(id) == [id |-> id, outbound |-> "eth0", source |-> "10.0.0.0/24", translation |-> "masquerade"]
Arrays(m) == {R(p, <<>>, NoSSH) : p \in [1 .. m -> Accepted]}
FaultyArrays == {R(p, <<>>, NoSSH) : p \in [1 .. 2 -> Accepted \cup Faulty]}
OtherSections == {R(p, <<Rule(5)>>, 22) : p \in UNION {[1 .. m -> Accepted] : m \in 0 .. 2}}

-----------------------------------------------------------------------------
Leases == {DHCP(b, u, 1, 2) : b \in {-3, -1, 0, 1, 2, 5}, u \in {"none", "s", "m", "h", "d"}}
            \cup {DHCP(MCMaxInt, "none", 1, 2)}
Ranges == {DHCP(300, "none", f, c) : f \in {0, 1, 2, 3, 6, 14, 16}, c \in {0, 1, 2, 5, 13, 15}}
SingleRanges == {R(<<LAN(2, 0, Text(p.ip, p.size), d)>>, <<>>, NoSSH) : p \in Blocks, d \in Ranges}
SingleLeases == {R(<<LAN(2, 0, Text(4, 4), d)>>, <<>>, NoSSH) : d \in Leases}
SingleTexts == {R(<<LAN(name, 0, s, Short)>>, <<>>, NoSSH) :
                  name \in {0, 2, 8}, s \in {"text", "2001:db8::1/64", Text(1, 4)}}

Subnets == {Text(p.ip, p.size) : p \in [ip : {0, 1, 5, 10, 13, 15}, size : {2, 4, 8, 16}]}
Dhcps == {DHCP(300, "none", f, c) : f \in {1, 2}, c \in {1, 2}}
Pairs ==
  {R(<<LAN(2, 0, s, d), LAN(3, v, t, e)>>, <<>>, NoSSH) :
     s \in Subnets, t \in Subnets, d \in Dhcps, e \in Dhcps, v \in {0, 4050}}
Places == {
  LAN(4, 0, Text(1, 4), DHCP(300, "none", 2, 1)), LAN(3, 0, Text(5, 4), DHCP(300, "none", 2, 1)),
  LAN(2, 7, Text(9, 4), DHCP(300, "none", 2, 1)), LAN(5, 3, Text(13, 4), DHCP(300, "none", 2, 1)),
  LAN(1, 7, Text(13, 4), DHCP(300, "none", 2, 1)), LAN(2, 4051, Text(13, 4), DHCP(300, "none", 2, 1)), WAN }
Several == {R(p, <<>>, NoSSH) : p \in [1 .. 4 -> Places]}
\* VLANs that sort.Slice may leave in either order.
Alike == {R(<<LAN(3, 7, Text(1, 4), Short), LAN(3, 7, Text(5, 4), Short),
              LAN(2, 0, Text(9, 4), Short)>>, <<>>, NoSSH)}

-----------------------------------------------------------------------------
RuleSet == {Rule(-1), Rule(0), Rule(5), Rule(10), Rule(NoId), [Rule(7) EXCEPT !.source = ""]}
NAT == {R(<<WAN>>, r, NoSSH) : r \in UNION {[1 .. m -> RuleSet] : m \in 0 .. 3}}
SSH == {R(<<WAN>>, <<>>, p) : p \in {NoSSH, 0, 1, 22, 2222, 65536}}

PortMaps == {"" :> {"eth0"}, "LAN*" :> {}, "LAN*" :> {"eth3", "eth4"},
             "SFP" :> {"eth5"}, "SFP" :> {"unsafe"}}
Mapped == {[R(<<E("downstream", 2, {"LAN*", "SFP"}, 0, "dynamic", "", Short)>>, <<>>, NoSSH)
              EXCEPT !.portMaps = m] : m \in UNION {[1 .. k -> PortMaps] : k \in 0 .. 2}}

Field(f) == CASE f = "ctx" -> {"nil", "done"} [] f = "payload_json" -> {"", "malformed"}
              [] f = "config_uuid" -> {""} [] OTHER -> {"", "other"}
Metadata ==
  {<<>>, "schema" :> "other"}
    \cup {k :> x : k \in DOMAIN MetadataField, x \in {"vyos", "olg-ucentral", "4.2.0", "other"}}
Contradicted == {[R(<<WAN>>, <<>>, NoSSH) EXCEPT !.meta = m] : m \in Metadata}
Checked ==
  UNION {{[R(<<WAN>>, <<>>, NoSSH) EXCEPT !.input[f] = x] : x \in Field(f)} : f \in DOMAIN GoodInput}

MCRequests ==
  <<Arrays(0), Arrays(1), Arrays(2), Arrays(3), Arrays(4), FaultyArrays, OtherSections,
    SingleRanges, SingleLeases, SingleTexts, Pairs, Several, Alike, NAT, SSH, Mapped, Contradicted, Checked>>
=============================================================================
