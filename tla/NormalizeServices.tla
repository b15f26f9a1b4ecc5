-------------------------- MODULE NormalizeServices --------------------------
(***************************************************************************)
(* From a static downstream interface to its DHCP and DNS service          *)
(* (src/internal/normalize/service.go), and from nat.snat.rules to the NAT *)
(* section (nat.go).  An IPv4 address is its number; a subnet text is      *)
(* known by what netip.ParsePrefix makes of it, the address and the number *)
(* of addresses of its block.  Numbers of the payload that are absent,     *)
(* null or malformed are 0, which is refused as they are.                  *)
(***************************************************************************)
EXTENDS Integers, Sequences

CONSTANTS Top,               \* the last IPv4 address
          MaxInt,            \* the largest int
          SubnetPrefix,      \* from subnet texts to [ip, size]; no others are IPv4 prefixes
          TokenNames,        \* names without blanks or special characters
          TextBefore(_, _)   \* order of two subnets as texts, by [net, last]

ASSUME ServicesAssumption ==
  /\ Top \in Nat /\ MaxInt \in Nat
  /\ SubnetPrefix \in [DOMAIN SubnetPrefix -> [ip : 0 .. Top, size : Nat \ {0}]]

-----------------------------------------------------------------------------
\* Lease times: [base, unit], unit "none" for plain seconds.

Multiplier == [u \in {"none", "s", "m", "h", "d"} |->
                 CASE u = "m" -> 60 [] u = "h" -> 3600 [] u = "d" -> 86400 [] OTHER -> 1]

\* int arithmetic wraps.
Wrapped(n) == ((n + MaxInt + 1) % (2 * MaxInt + 2)) - MaxInt - 1

LeaseSecs(lease) == Wrapped(lease.base * Multiplier[lease.unit])

LeaseFault(lease) ==
  \/ lease.base > MaxInt \div Multiplier[lease.unit]
  \/ LeaseSecs(lease) < 1

-----------------------------------------------------------------------------
\* A service LAN, of an input [index, name, subnet, vlan, lease, first, count].

Network(prefix) == prefix.ip - (prefix.ip % prefix.size)
InSubnet(lan, address) == lan.net <= address /\ address <= lan.last

\* Mutant: the identifiers start one lower.
SubnetIDLow(input) == IF input.vlan > 0 THEN input.vlan ELSE 4050 + input.index

SubnetID(input) == IF input.vlan > 0 THEN input.vlan ELSE 4051 + input.index

ServiceLAN(input) ==
  LET prefix == SubnetPrefix[input.subnet]
      net == Network(prefix)
  IN [index |-> input.index, name |-> input.name, vlan |-> input.vlan,
      router |-> prefix.ip, net |-> net, last |-> net + prefix.size - 1,
      start |-> net + input.first, stop |-> net + input.first + input.count - 1,
      lease |-> LeaseSecs(input.lease), subnetID |-> SubnetID(input)]

\* Mutant: only the ends of the range are compared with the reserved addresses.
RangeFaultEnds(lan) ==
  \/ lan.stop > Top
  \/ ~InSubnet(lan, lan.start) \/ ~InSubnet(lan, lan.stop)
  \/ {lan.net, lan.last, lan.router} \cap {lan.start, lan.stop} # {}

\* ipv4Add overflows, the range leaves the subnet or includes the network, the
\* broadcast or the router address.
RangeFault(lan) ==
  \/ lan.stop > Top
  \/ ~InSubnet(lan, lan.start) \/ ~InSubnet(lan, lan.stop)
  \/ \E reserved \in {lan.net, lan.last, lan.router} :
       lan.start <= reserved /\ reserved <= lan.stop

LANFault(input) ==
  \/ input.name \notin TokenNames
  \/ input.subnet \notin DOMAIN SubnetPrefix
  \/ LeaseFault(input.lease)
  \/ input.first < 1 \/ input.count < 1
  \/ RangeFault(ServiceLAN(input))

Overlap(a, b) == InSubnet(a, b.net) \/ InSubnet(b, a.net)

\* What ends normalizeServiceLANs, for a set of inputs.
LANsFault(inputs) ==
  \/ \E input \in inputs : LANFault(input)
  \/ \E a \in inputs, b \in inputs : a # b /\ Overlap(ServiceLAN(a), ServiceLAN(b))

\* Mutant: VLANs in the order of the payload too.
LANBeforeByIndex(a, b) ==
  IF (a.vlan > 0) # (b.vlan > 0) THEN b.vlan > 0 ELSE a.index < b.index

\* The order of the services: base interfaces by index, then VLANs.
LANBefore(a, b) ==
  IF (a.vlan > 0) # (b.vlan > 0) THEN b.vlan > 0
  ELSE IF a.vlan = 0 THEN a.index < b.index
  ELSE \/ a.vlan < b.vlan
       \/ a.vlan = b.vlan /\ a.name < b.name
       \/ a.vlan = b.vlan /\ a.name = b.name /\ TextBefore(a, b)

\* services.ssh.port; NoSSH when services, ssh or port is absent.
NoSSH == -1
SSHFault(port) == port # NoSSH /\ (port < 1 \/ port > 65535)

-----------------------------------------------------------------------------
\* NAT: a rule is [id, outbound, source, translation].

NoId == MaxInt + 1   \* absent or not an int

\* ValidateInterfaceToken, validateAddressToken: a text that is absent, empty
\* or holds a character outside their alphabet is "".
RuleFault(rule) ==
  \/ rule.id = NoId
  \/ "" \in {rule.outbound, rule.source, rule.translation}

NATFault(rules) ==
  \/ \E k \in DOMAIN rules : RuleFault(rules[k])
  \/ \E j, k \in DOMAIN rules : j # k /\ rules[j].id = rules[k].id

RuleBefore(r, s) == r.id < s.id
=============================================================================
