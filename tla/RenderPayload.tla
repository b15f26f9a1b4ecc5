---------------------------- MODULE RenderPayload ----------------------------
(***************************************************************************)
(* Render as a whole (src/renderer/renderer.go): a renderer is built with  *)
(* its port maps, the request is checked, the three sections are           *)
(* normalized one after the other (normalize.go) and the templates make    *)
(* set commands of them (src/internal/templates).  A command is the        *)
(* sequence of its tokens, to be read by the allowlist of the apply        *)
(* package, ConfigureGrammar.                                              *)
(***************************************************************************)
EXTENDS NormalizeInterfaces, NormalizeServices, ConfigureGrammar, TLC

CONSTANTS Requests,          \* bound: what New and Render are called with, by family
          MetaNames,         \* names with a character the apply package refuses
          Address(_),        \* the text of an address
          Subnet(_, _)       \* and of the prefix from one address to another

\* A name as a token; the others are the words of the templates and what the
\* functions of this module make of numbers, ports and addresses.
NameToken(name) == IF name = NoName THEN "" ELSE "name" \o ToString(name)
MetaTokens == {NameToken(name) : name \in MetaNames}
Bridgename(n) == "br" \o ToString(n)
Words == {
  "set", "interfaces", "bridge", "address", "dhcp", "description", "member", "interface",
  "allowed-vlan", "native-vlan", "1", "vif", "ethernet", "service", "dhcp-server",
  "shared-network-name", "subnet", "lease", "option", "default-router", "name-server",
  "range", "0", "start", "stop", "subnet-id", "dns", "forwarding", "allow-from", "cache-size",
  "listen-address", "nat", "source", "rule", "outbound-interface", "name", "translation",
  "ssh", "port", "eth0", "eth1", "eth2" }

\* The texts of numbers, addresses and prefixes are what the apply package
\* reads as such, and of all tokens only names have the characters it refuses.
ASSUME ValuesAssumption ==
  /\ \A n \in 1 .. MaxInt : ToString(n) \in PositiveInt
  /\ \A a \in 0 .. Top : Address(a) \in Ipv4Addr
  /\ \A p \in Range(SubnetPrefix) :
       Subnet(Network(p), Network(p) + p.size - 1) \in Ipv4Prefix
ASSUME TokensAssumption ==
  /\ \A name \in TokenNames : NameToken(name) # "" /\ NameToken(name) \notin MetaTokens
  /\ \A n \in 0 .. MaxInt : Bridgename(n) \notin MetaTokens
  /\ \A n \in -MaxInt - 1 .. MaxInt : ToString(n) \notin MetaTokens
  /\ MetaTokens \cap (Words \cup PositiveInt \cup Ipv4Addr \cup Ipv4Prefix) = {}

\* The ports and the other texts of request r that are no names.
PortsOf(r) == UNION {UNION Range(r.portMaps[k]) : k \in DOMAIN r.portMaps}
SubnetsOf(r) == {r.entries[k].subnet : k \in DOMAIN r.entries}
TextsOf(rule) == {rule.outbound, rule.source, rule.translation}
Texts(r) == PortsOf(r) \cup SubnetsOf(r) \cup UNION {TextsOf(r.rules[k]) : k \in DOMAIN r.rules}

\* Numbers and lengths are ints; a text that is no name is "" or "unsafe" where
\* it has a character its check refuses.
Legal(r) ==
  /\ r.entries \in Seq(Range(r.entries)) /\ Len(r.entries) + 4051 <= MaxInt
  /\ \A k \in DOMAIN r.entries :
       /\ r.entries[k].dhcp.first \in Int /\ r.entries[k].dhcp.count \in Int
       /\ r.entries[k].dhcp.lease.base \in Int
       /\ r.entries[k].dhcp.lease.unit \in DOMAIN Multiplier
       /\ r.entries[k].vlan \in 0 .. MaxInt
  /\ r.rules \in Seq(Range(r.rules))
  /\ \A k \in DOMAIN r.rules : r.rules[k].id \in -MaxInt - 1 .. NoId
  /\ r.portMaps \in Seq(Range(r.portMaps)) /\ IsFiniteSet(PortsOf(r))
  /\ r.ssh \in Int /\ (r.ssh = NoSSH \/ SSHFault(r.ssh) \/ ToString(r.ssh) \in Port)
  /\ Texts(r) \cap MetaTokens = {}
ASSUME RequestsAssumption ==
  \A family \in DOMAIN Requests : \A r \in Requests[family] : Legal(r)

VARIABLES request,           \* [portMaps, input, meta, entries, rules, ssh]
          natRules, services,
          commands           \* the rendered text

vars == <<interfaceVars, request, natRules, services, commands>>

Init ==
  /\ \E family \in DOMAIN Requests : request \in Requests[family]
  /\ entries = request.entries /\ portMap = <<>>
  /\ InterfacesInit
  /\ natRules = <<>> /\ services = {} /\ commands = <<>>
  /\ phase = "new" /\ err = NoError

-----------------------------------------------------------------------------
\* New and WithPortMap.

defaultPortMap == [s \in {"WAN*", "LAN*", "LAN1", "LAN2"} |->
  CASE s = "WAN*" -> {"eth0"} [] s = "LAN*" -> {"eth1", "eth2"}
    [] s = "LAN1" -> {"eth1"} [] s = "LAN2" -> {"eth2"}]

\* "unsafe" is a selector or port with blanks or special characters; a nil map
\* is one with the empty selector.
PortMapFault(m) ==
  \E s \in DOMAIN m : s \in {"", "unsafe"} \/ m[s] = {} \/ m[s] \cap {"", "unsafe"} # {}

\* The ports of a selector are those of the last map that has it.
WithPortMap(maps) ==
  [s \in DOMAIN defaultPortMap \cup UNION {DOMAIN m : m \in Range(maps)} |->
     LET given == {k \in DOMAIN maps : s \in DOMAIN maps[k]}
     IN IF given = {} THEN defaultPortMap[s] ELSE maps[Max(given)][s]]

New ==
  /\ phase = "new"
  /\ IF \E m \in Range(request.portMaps) : PortMapFault(m) THEN Fail("invalid_input")
     ELSE /\ portMap' = WithPortMap(request.portMaps)
          /\ phase' = "input"
          /\ UNCHANGED <<entries, i, found, err>>
  /\ UNCHANGED <<request, natRules, services, commands>>

-----------------------------------------------------------------------------
\* The checks before normalization, in their order.

Supported == [target |-> "vyos", schema_name |-> "olg-ucentral", schema_version |-> "4.2.0"]

MetadataField == [k \in {"target", "schema_name", "schema_version", "schema.name", "schema.version"} |->
  CASE k = "schema.name" -> "schema_name" [] k = "schema.version" -> "schema_version" [] OTHER -> k]

\* The payload's own metadata, where it has any; "schema" is one that is no object.
MetadataFault(input, meta) ==
  \E k \in DOMAIN meta : k = "schema" \/ meta[k] # input[MetadataField[k]]

Checks(input, meta) == <<
  [code |-> "invalid_input",
   fails |-> input.ctx # "live" \/ \E f \in DOMAIN input : input[f] = ""],
  [code |-> "unsupported_target", fails |-> input.target # Supported.target],
  [code |-> "unsupported_schema", fails |-> input.schema_name # Supported.schema_name],
  [code |-> "unsupported_schema_version",
   fails |-> input.schema_version # Supported.schema_version],
  [code |-> "invalid_json", fails |-> input.payload_json = "malformed"],
  [code |-> "metadata_mismatch", fails |-> MetadataFault(input, meta)] >>

ValidateRequest ==
  /\ phase = "input"
  /\ LET failed == SelectSeq(Checks(request.input, request.meta), LAMBDA c : c.fails)
     IN IF failed # <<>> THEN Fail(failed[1].code)
        ELSE phase' = "interfaces" /\ UNCHANGED <<portMap, entries, i, found, err>>
  /\ UNCHANGED <<request, natRules, services, commands>>

-----------------------------------------------------------------------------
\* NAT, then services.

normalizeNAT ==
  /\ phase = "nat"
  /\ IF NATFault(request.rules) THEN Fail("normalize_failed") /\ UNCHANGED natRules
     ELSE /\ natRules' \in Sortings(request.rules, RuleBefore)
          /\ phase' = "services"
          /\ UNCHANGED <<portMap, entries, i, found, err>>
  /\ UNCHANGED <<request, services, commands>>

\* Mutant: the service of a VLAN is not told its identifier.
ServiceInputsUntagged ==
  {[index |-> k - 1, name |-> entries[k].name, subnet |-> entries[k].subnet,
    vlan |-> 0, lease |-> entries[k].dhcp.lease,
    first |-> entries[k].dhcp.first, count |-> entries[k].dhcp.count] : k \in Range(lans)}

\* serviceLANInputFromRaw: the index of the entry counts from 0.
ServiceInputs ==
  {[index |-> k - 1, name |-> entries[k].name, subnet |-> entries[k].subnet,
    vlan |-> entries[k].vlan, lease |-> entries[k].dhcp.lease,
    first |-> entries[k].dhcp.first, count |-> entries[k].dhcp.count] : k \in Range(lans)}

normalizeServices ==
  /\ phase = "services"
  /\ IF SSHFault(request.ssh) \/ LANsFault(ServiceInputs)
     THEN Fail("normalize_failed") /\ UNCHANGED services
     ELSE /\ services' = {ServiceLAN(input) : input \in ServiceInputs}
          /\ phase' = "templates"
          /\ UNCHANGED <<portMap, entries, i, found, err>>
  /\ UNCHANGED <<request, natRules, commands>>

-----------------------------------------------------------------------------
\* The templates: the commands of each section, in their order.

Commands(base, tails) == [k \in DOMAIN tails |-> base \o tails[k]]

\* bridge.tmpl: the VLANs allowed on member port p of bridge b.
allowedVLANsForMember(b, p) == {b.vifs[k].id : k \in {j \in DOMAIN b.vifs : p \in b.vifs[j].members}}

\* sort.Ints
Ascending(S) ==
  [k \in 1 .. Cardinality(S) |-> CHOOSE v \in S : Cardinality({w \in S : w < v}) = k - 1]

MemberTails(b, p) ==
  LET member == <<"member", "interface", p>>
      allowed == Ascending(allowedVLANsForMember(b, p))
  IN IF allowed = <<>> THEN <<member>>
     ELSE [k \in DOMAIN allowed |-> member \o <<"allowed-vlan", ToString(allowed[k])>>]
            \o <<member \o <<"native-vlan", "1">> >>

VIFTails(v) == Commands(<<"vif", ToString(v.id)>>,
  << <<"address", v.address>>, <<"description", NameToken(v.name)>> >>)

BridgeCommands(b) == Commands(<<"set", "interfaces", "bridge", Bridgename(b.number)>>,
  << <<"address", b.address>>, <<"description", NameToken(b.name)>> >>
    \o FlattenSeq([k \in 1 .. Cardinality(b.members) |-> MemberTails(b, SetToSeq(b.members)[k])])
    \o FlattenSeq([k \in DOMAIN b.vifs |-> VIFTails(b.vifs[k])]))

EthernetCommand(p) ==
  <<"set", "interfaces", "ethernet", p, "description", NameToken(ethernets[p].name)>>

DHCPCommands(lan) == Commands(
  <<"set", "service", "dhcp-server", "shared-network-name", NameToken(lan.name),
    "subnet", Subnet(lan.net, lan.last)>>,
  << <<"lease", ToString(lan.lease)>>,
     <<"option", "default-router", Address(lan.router)>>,
     <<"option", "name-server", Address(lan.router)>>,
     <<"range", "0", "start", Address(lan.start)>>,
     <<"range", "0", "stop", Address(lan.stop)>>,
     <<"subnet-id", ToString(lan.subnetID)>> >>)

\* Mutant: the forwarder caches.
DNSCommandsCaching(served) == Commands(<<"set", "service", "dns", "forwarding">>,
  [k \in DOMAIN served |-> <<"allow-from", Subnet(served[k].net, served[k].last)>>]
    \o (IF served = <<>> THEN <<>> ELSE << <<"cache-size", "1">> >>)
    \o [k \in DOMAIN served |-> <<"listen-address", Address(served[k].router)>>])

DNSCommands(served) == Commands(<<"set", "service", "dns", "forwarding">>,
  [k \in DOMAIN served |-> <<"allow-from", Subnet(served[k].net, served[k].last)>>]
    \o (IF served = <<>> THEN <<>> ELSE << <<"cache-size", "0">> >>)
    \o [k \in DOMAIN served |-> <<"listen-address", Address(served[k].router)>>])

NATCommands(rule) == Commands(<<"set", "nat", "source", "rule", ToString(rule.id)>>,
  << <<"outbound-interface", "name", rule.outbound>>,
     <<"source", "address", rule.source>>, <<"translation", "address", rule.translation>> >>)

Sections(served) ==
  LET ports == SetToSeq(DOMAIN ethernets)
  IN FlattenSeq([k \in DOMAIN bridges |-> BridgeCommands(bridges[k])])
       \o [k \in DOMAIN ports |-> EthernetCommand(ports[k])]
       \o FlattenSeq([k \in DOMAIN served |-> DHCPCommands(served[k])])
       \o DNSCommands(served)
       \o (IF request.ssh = NoSSH THEN <<>>
            ELSE << <<"set", "service", "ssh", "port", ToString(request.ssh)>> >>)
       \o FlattenSeq([k \in DOMAIN natRules |-> NATCommands(natRules[k])])

\* vyosQuote cannot fail: UnsafeNames were refused.
RenderTemplates ==
  /\ phase = "templates"
  /\ \E served \in Sortings(SetToSeq(services), LANBefore) :
       IF Sections(served) = <<>> THEN Fail("missing_config") /\ UNCHANGED commands
       ELSE /\ commands' = Sections(served)
            /\ phase' = "rendered"
            /\ UNCHANGED <<portMap, entries, i, found, err>>
  /\ UNCHANGED <<request, natRules, services>>

Done == phase \in {"rendered", "failed"} /\ UNCHANGED vars

Next ==
  \/ New \/ ValidateRequest
  \/ InterfacesNext /\ UNCHANGED <<request, natRules, services, commands>>
  \/ normalizeNAT \/ normalizeServices \/ RenderTemplates \/ Done
Spec == Init /\ [][Next]_vars

-----------------------------------------------------------------------------
\* Properties of the rendered configuration.

Rendered == phase = "rendered"

Leased(lan) == lan.start .. lan.stop

\* An address a DHCP server leases is in its subnet and is not the network, the
\* broadcast or the router address of any LAN, nor leased by another LAN: the
\* code compares each range with its own LAN only, and the LANs by their first
\* addresses only.
Unambiguous(served) ==
  \A a \in served : \A x \in Leased(a) :
    /\ InSubnet(a, x)
    /\ \A b \in served : /\ x \notin {b.net, b.last, b.router}
                         /\ x \in Leased(b) => b = a
LeasesUnambiguous == Unambiguous(services)

\* Two DHCP subnets have two identifiers, as long as VLAN identifiers are
\* distinct and, as the schema has it (ucentral.schema.full.json:929), below
\* the 4051 base interfaces count from.
VLANsDistinct(served) ==
  \A a \in served : a.vlan > 0 =>
    a.vlan <= 4050 /\ \A b \in served : a.vlan = b.vlan => a = b
IDsDistinct(served) ==
  VLANsDistinct(served) => \A a, b \in served : a.subnetID = b.subnetID => a = b
SubnetIDsDistinct == IDsDistinct(services)

\* The command that ends the subnet of a service, and the one that starts a rule.
SubnetLine(c) == Len(c) = 9 /\ c[3] = "dhcp-server" /\ c[8] = "subnet-id"
RuleLine(c) == Len(c) = 8 /\ c[2] = "nat" /\ c[6] = "outbound-interface"

SubnetOf(c, lan) == c[7] = Subnet(lan.net, lan.last)
RuleOf(c, rule) == c[5] = ToString(rule.id)

\* Command c stands before command d, both of subnets or both of rules.
SubnetsOrdered(c, d) ==
  \E a, b \in services :
    /\ a # b /\ SubnetOf(c, a) /\ SubnetOf(d, b)
    /\ \/ a.vlan = 0 /\ (b.vlan = 0 => a.index < b.index)
       \/ a.vlan > 0 /\ b.vlan >= a.vlan
RulesOrdered(c, d) ==
  \E r, s \in Range(request.rules) : r.id < s.id /\ RuleOf(c, r) /\ RuleOf(d, s)

\* SPEC.md:1910: the services of the base interfaces come in the order of the
\* payload, those of the VLANs after them by identifier, and NAT rules by their
\* own, each once.
OutputOrdered ==
  Rendered =>
    LET subnets == {k \in DOMAIN commands : SubnetLine(commands[k])}
        rules == {k \in DOMAIN commands : RuleLine(commands[k])}
    IN /\ \A lan \in services : \E k \in subnets : SubnetOf(commands[k], lan)
       /\ \A rule \in Range(request.rules) : \E k \in rules : RuleOf(commands[k], rule)
       /\ \A j, k \in subnets : j < k => SubnetsOrdered(commands[j], commands[k])
       /\ \A j, k \in rules : j < k => RulesOrdered(commands[j], commands[k])

\* The router a DHCP server announces, and the DNS forwarder listens on, is the
\* address of a rendered bridge, or of the VIF with the VLAN's identifier, in
\* the same subnet: the two sections are made apart, from the same entry.
RouterOnBridge ==
  Rendered => \A lan \in services :
    /\ \E text \in DOMAIN SubnetPrefix :
         /\ SubnetPrefix[text] = [ip |-> lan.router, size |-> lan.last - lan.net + 1]
         /\ \E b \in Range(bridges) :
              <<"set", "interfaces", "bridge", Bridgename(b.number)>>
                \o (IF lan.vlan > 0 THEN <<"vif", ToString(lan.vlan)>> ELSE <<>>)
                \o <<"address", text>> \in Range(commands)
    /\ <<"set", "service", "dns", "forwarding", "listen-address", Address(lan.router)>>
         \in Range(commands)

\* Every rendered line is a command the apply package accepts, descriptions
\* with a character it refuses aside: templates and parser are two files that
\* have to agree on every path, length and kind of value.
Line(c) == [kind |-> IF Range(c) \cap MetaTokens = {} THEN "command" ELSE "metachar", tokens |-> c]
RenderedAccepted ==
  \A k \in DOMAIN commands :
    \/ AcceptedLine(Line(commands[k]))
    \/ commands[k][Len(commands[k]) - 1] = "description" /\ Last(commands[k]) \in MetaTokens

\* A DHCP lease lasts as long as the payload says.  service.go:282 and :250:
\* "duration overflows integer", "must be positive".
LeaseAsConfigured ==
  \A lan \in services :
    LET lease == entries[lan.index + 1].dhcp.lease
    IN lan.lease = lease.base * Multiplier[lease.unit]

\* SPEC.md, failure behaviour of Render: "successful render should require at
\* least one renderable upstream interface".
RenderNeedsUpstream == Rendered => HasUpstream
=============================================================================
