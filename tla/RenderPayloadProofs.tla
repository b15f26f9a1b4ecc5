------------------------- MODULE RenderPayloadProofs -------------------------
(***************************************************************************)
(* What is rendered of any payload, for any number of interfaces and any   *)
(* address space: the ranges lease usable addresses only and no address    *)
(* twice, the subnets have distinct identifiers and a router on a bridge,  *)
(* the apply engine accepts every command, and the commands stand in an    *)
(* order that the payload's does not change.                               *)
(***************************************************************************)
EXTENDS InterfacesProofs

-----------------------------------------------------------------------------
\* The arithmetic of one LAN and of two.

\* A subnet starts at a multiple of its size, and its router is in it.
LEMMA BlockOfRouter ==
  ASSUME NEW input, input.subnet \in DOMAIN SubnetPrefix,
         input.first \in Int, input.count \in Int
  PROVE  LET lan == ServiceLAN(input) IN
           /\ lan.net \in Int /\ lan.last \in Int /\ lan.router \in Int
           /\ lan.start \in Int /\ lan.stop \in Int
           /\ InSubnet(lan, lan.router)
<1> DEFINE prefix == SubnetPrefix[input.subnet]
<1>1. prefix.ip \in Nat /\ prefix.size \in Nat \ {0}
  BY ServicesAssumption
<1>2. prefix.ip % prefix.size \in 0 .. prefix.size - 1
  BY <1>1
<1>3. QED BY <1>1, <1>2 DEF ServiceLAN, Network, InSubnet

\* A LAN without fault leases addresses strictly inside its subnet, its router
\* not among them.
LEMMA RangeInside ==
  ASSUME NEW input, input.first \in Int, input.count \in Int, ~LANFault(input)
  PROVE  LET lan == ServiceLAN(input) IN
           /\ input.subnet \in DOMAIN SubnetPrefix
           /\ \A x \in Leased(lan) :
                /\ x \in Int /\ lan.net < x /\ x < lan.last /\ InSubnet(lan, x)
                /\ x # lan.router
<1>1. input.subnet \in DOMAIN SubnetPrefix /\ ~RangeFault(ServiceLAN(input))
  BY DEF LANFault
<1> DEFINE lan == ServiceLAN(input)
<1>2. /\ lan.net \in Int /\ lan.last \in Int /\ lan.router \in Int
      /\ lan.start \in Int /\ lan.stop \in Int
  BY <1>1, BlockOfRouter
<1> HIDE DEF lan
<1>3. /\ lan.net <= lan.start /\ lan.stop <= lan.last
      /\ ~(lan.start <= lan.net /\ lan.net <= lan.stop)
      /\ ~(lan.start <= lan.last /\ lan.last <= lan.stop)
      /\ ~(lan.start <= lan.router /\ lan.router <= lan.stop)
  BY <1>1 DEF RangeFault, InSubnet, lan
<1>4. ASSUME NEW x \in Leased(lan)
      PROVE  x \in Int /\ lan.net < x /\ x < lan.last /\ InSubnet(lan, x) /\ x # lan.router
  BY <1>2, <1>3 DEF Leased, InSubnet
<1>5. QED BY <1>1, <1>4 DEF lan

\* Two intervals that share an address overlap: one starts inside the other.
LEMMA SharedAddressOverlaps ==
  ASSUME NEW a, NEW b, NEW x \in Int,
         a.net \in Int, a.last \in Int, b.net \in Int, b.last \in Int,
         InSubnet(a, x), InSubnet(b, x)
  PROVE  Overlap(a, b)
BY DEF Overlap, InSubnet

-----------------------------------------------------------------------------
\* The inputs the services are made of are typed entries of the payload.

Inputs ==
  /\ \A input \in ServiceInputs :
       /\ input.first \in Int /\ input.count \in Int
       /\ input.vlan \in Nat /\ input.index \in Nat
  /\ \A p, q \in ServiceInputs : p.index = q.index => p = q

\* The service inputs are made of entries, of distinct positions.
LEMMA InputsTyped == EntriesInv => Inputs
<1> SUFFICES ASSUME EntriesInv PROVE Inputs
  OBVIOUS
<1>1. \A k \in Range(lans) : k \in DOMAIN entries /\ k \in Nat \ {0}
  BY DEF EntriesInv, Range
<1>2. \A k \in Range(lans) :
        /\ entries[k].dhcp.first \in Int /\ entries[k].dhcp.count \in Int
        /\ entries[k].vlan \in Nat
  BY <1>1 DEF EntriesInv
<1>3. QED BY <1>1, <1>2 DEF Inputs, ServiceInputs
-----------------------------------------------------------------------------
\* The services an accepted payload gets.

\* Of inputs without fault: what a range may lease.
LEMMA AcceptedUnambiguous ==
  ASSUME NEW inputs, \A input \in inputs : input.first \in Int /\ input.count \in Int,
         ~LANsFault(inputs)
  PROVE  Unambiguous({ServiceLAN(input) : input \in inputs})
<1> SUFFICES ASSUME NEW p \in inputs, NEW q \in inputs, NEW x \in Leased(ServiceLAN(p))
             PROVE  /\ InSubnet(ServiceLAN(p), x)
                    /\ x \notin {ServiceLAN(q).net, ServiceLAN(q).last, ServiceLAN(q).router}
                    /\ x \in Leased(ServiceLAN(q)) => ServiceLAN(q) = ServiceLAN(p)
  BY DEF Unambiguous
<1> DEFINE a == ServiceLAN(p)
           b == ServiceLAN(q)
<1>1. ~LANFault(p) /\ ~LANFault(q) /\ (p # q => ~Overlap(a, b))
  BY DEF LANsFault
<1>2. /\ x \in Int /\ a.net < x /\ x < a.last /\ InSubnet(a, x) /\ x # a.router
      /\ \A y \in Leased(b) : InSubnet(b, y)
  BY <1>1, RangeInside
<1>3. /\ a.net \in Int /\ a.last \in Int /\ b.net \in Int /\ b.last \in Int /\ b.router \in Int
      /\ InSubnet(b, b.router)
  BY <1>1, RangeInside, BlockOfRouter
<1>4. p = q => a = b
  OBVIOUS
<1> HIDE DEF a, b
<1>5. InSubnet(b, b.net) /\ InSubnet(b, b.last)
  BY <1>3 DEF InSubnet
<1>6. CASE p = q
  BY <1>2, <1>3, <1>4, <1>6 DEF a, b
<1>7. CASE p # q
  <2>1. ~InSubnet(b, x)
    BY <1>1, <1>2, <1>3, <1>7, SharedAddressOverlaps DEF a, b
  <2>2. x \notin {b.net, b.last, b.router} /\ x \notin Leased(b)
    BY <1>2, <1>3, <1>5, <2>1
  <2>3. QED BY <1>2, <2>2 DEF a, b
<1>8. QED BY <1>6, <1>7

\* Of any inputs with distinct indices: their identifiers.
LEMMA AcceptedIdentifiers ==
  ASSUME NEW inputs, \A input \in inputs : input.vlan \in Nat /\ input.index \in Nat,
         \A p, q \in inputs : p.index = q.index => p = q
  PROVE  IDsDistinct({ServiceLAN(input) : input \in inputs})
<1> DEFINE served == {ServiceLAN(input) : input \in inputs}
<1> SUFFICES ASSUME VLANsDistinct(served), NEW p \in inputs, NEW q \in inputs,
                    ServiceLAN(p).subnetID = ServiceLAN(q).subnetID
             PROVE  ServiceLAN(p) = ServiceLAN(q)
  BY DEF IDsDistinct
<1>1. /\ p.vlan \in Nat /\ q.vlan \in Nat /\ p.index \in Nat /\ q.index \in Nat
      /\ SubnetID(p) = SubnetID(q)
  BY DEF ServiceLAN
<1>2. /\ p.vlan > 0 => p.vlan <= 4050
      /\ q.vlan > 0 => q.vlan <= 4050
      /\ p.vlan > 0 /\ p.vlan = q.vlan => ServiceLAN(p) = ServiceLAN(q)
  BY DEF VLANsDistinct, ServiceLAN
<1>3. CASE p.vlan > 0
  BY <1>1, <1>2, <1>3 DEF SubnetID
<1>4. CASE p.vlan = 0
  <2>1. q.vlan = 0 /\ p.index = q.index
    BY <1>1, <1>2, <1>4 DEF SubnetID
  <2>2. QED BY <2>1
<1>5. QED BY <1>1, <1>3, <1>4

ServicesInv == LeasesUnambiguous /\ SubnetIDsDistinct

\* Only normalizeServices makes services, and of inputs without fault.
LEMMA ServicesStep == EntriesInv /\ ServicesInv /\ [Next]_vars => ServicesInv'
<1> SUFFICES ASSUME EntriesInv, ServicesInv, [Next]_vars PROVE ServicesInv'
  OBVIOUS
<1>1. CASE UNCHANGED services
  BY <1>1 DEF ServicesInv, LeasesUnambiguous, SubnetIDsDistinct
<1>2. CASE normalizeServices
  <2>1. CASE SSHFault(request.ssh) \/ LANsFault(ServiceInputs)
    BY <1>1, <1>2, <2>1 DEF normalizeServices
  <2>2. CASE ~(SSHFault(request.ssh) \/ LANsFault(ServiceInputs))
    <3>1. services' = {ServiceLAN(input) : input \in ServiceInputs}
      BY <1>2, <2>2 DEF normalizeServices
    <3>2. Unambiguous({ServiceLAN(input) : input \in ServiceInputs})
      BY <2>2, InputsTyped, AcceptedUnambiguous DEF Inputs
    <3>3. IDsDistinct({ServiceLAN(input) : input \in ServiceInputs})
      BY InputsTyped, AcceptedIdentifiers DEF Inputs
    <3>4. QED BY <3>1, <3>2, <3>3 DEF ServicesInv, LeasesUnambiguous, SubnetIDsDistinct
  <2>3. QED BY <2>1, <2>2
<1>3. ~normalizeServices => UNCHANGED services
  BY DEF Next, New, ValidateRequest, normalizeNAT, RenderTemplates, Done, vars
<1>4. QED BY <1>1, <1>2, <1>3

\* The services satisfy both properties at any time.
LEMMA ServicesInvariant == Spec => [](EntriesInv /\ ServicesInv)
<1>1. Init => ServicesInv
  BY DEF Init, ServicesInv, LeasesUnambiguous, SubnetIDsDistinct, Unambiguous, IDsDistinct
<1>2. QED BY <1>1, EntriesInitially, EntriesStep, ServicesStep, PTL DEF Spec

\* Whatever is configured, no DHCP server leases the network, broadcast or
\* router address of any LAN, nor an address another one leases.
THEOREM LeasesNeverClash == Spec => []LeasesUnambiguous
BY ServicesInvariant, PTL DEF ServicesInv

\* Whatever is configured within the schema, DHCP subnets have distinct identifiers.
THEOREM SubnetsIdentified == Spec => []SubnetIDsDistinct
BY ServicesInvariant, PTL DEF ServicesInv

-----------------------------------------------------------------------------
\* Commands, and which of them the apply package reads as what they are.

Plain(c) == Range(c) \cap MetaTokens = {}

\* A command it accepts, or a description it refuses.
Fine(c) ==
  \/ AcceptedLine(Line(c))
  \/ c[Len(c) - 1] = "description" /\ Last(c) \in MetaTokens

\* What may follow a plain base.
FineTail(t) ==
  /\ Sequence(t)
  /\ \/ Plain(t)
     \/ Len(t) >= 2 /\ t[Len(t) - 1] = "description" /\ t[Len(t)] \in MetaTokens

\* No word of the templates has a character the apply package refuses.
LEMMA WordsPlain == \A w \in Words : w \notin MetaTokens
BY TokensAssumption

\* A plain command is read as it is.
LEMMA PlainAccepted ==
  ASSUME NEW c, Plain(c), AcceptedCommand(c)
  PROVE  Fine(c)
BY DEF Plain, Fine, Line, AcceptedLine

\* The tokens of a command are those of its base and of its tail.
LEMMA PlainJoined ==
  ASSUME NEW s, NEW t, Sequence(s), Sequence(t), Plain(s), Plain(t)
  PROVE  Plain(s \o t)
BY Concatenated DEF Plain

\* A base of n tokens.
Base(base, n) == Sequence(base) /\ Plain(base) /\ Len(base) = n

\* The tokens of a command, by their places.
LEMMA Joined ==
  ASSUME NEW n \in Nat, NEW base, Base(base, n), NEW m \in Nat, NEW t, Base(t, m)
  PROVE  LET c == base \o t IN
           /\ Plain(c) /\ Len(c) = n + m
           /\ \A j \in 1 .. n : c[j] = base[j]
           /\ \A j \in 1 .. m : c[n + j] = t[j]
<1> DEFINE c == base \o t
<1>1. Sequence(base) /\ Sequence(t) /\ Plain(base) /\ Plain(t)
  BY DEF Base
<1>2. Plain(c)
  BY <1>1, PlainJoined
<1>3. /\ Len(base) \in Nat /\ Len(t) \in Nat /\ Len(c) = Len(base) + Len(t)
      /\ \A j \in 1 .. Len(base) : c[j] = base[j]
      /\ \A j \in 1 .. Len(t) : c[Len(base) + j] = t[j]
  BY <1>1, SequenceFacts, Concatenated
<1> HIDE DEF c
<1> QED BY <1>2, <1>3 DEF Base, c

\* Short sequences of tokens.
LEMMA Pair ==
  ASSUME NEW a, NEW b
  PROVE  LET t == <<a, b>> IN
           /\ Sequence(t) /\ Len(t) = 2 /\ t[1] = a /\ t[2] = b /\ Range(t) = {a, b}
BY DEF Sequence, Range

\* Of three elements.
LEMMA Triple ==
  ASSUME NEW a, NEW b, NEW c
  PROVE  LET t == <<a, b, c>> IN
           /\ Sequence(t) /\ Len(t) = 3 /\ t[1] = a /\ t[2] = b /\ t[3] = c
           /\ Range(t) = {a, b, c}
BY DEF Sequence, Range

\* Of four.
LEMMA Quadruple ==
  ASSUME NEW a, NEW b, NEW c, NEW d
  PROVE  LET t == <<a, b, c, d>> IN
           /\ Sequence(t) /\ Len(t) = 4 /\ t[1] = a /\ t[2] = b /\ t[3] = c /\ t[4] = d
           /\ Range(t) = {a, b, c, d}
BY DEF Sequence, Range

\* Of six.
LEMMA Six ==
  ASSUME NEW a, NEW b, NEW c, NEW d, NEW e, NEW f
  PROVE  LET t == <<a, b, c, d, e, f>> IN
           /\ Sequence(t) /\ Len(t) = 6 /\ t[1] = a /\ t[2] = b /\ t[3] = c
           /\ t[4] = d /\ t[5] = e /\ t[6] = f /\ Range(t) = {a, b, c, d, e, f}
BY DEF Sequence, Range

\* Where bridges and NAT rules are set, any plain command is accepted.
LEMMA FineUnder ==
  ASSUME NEW base, Sequence(base), Plain(base), Len(base) >= 4, base[1] = "set",
         \/ base[2] = "interfaces" /\ base[3] = "bridge"
         \/ base[2] = "nat" /\ base[3] = "source",
         NEW t, FineTail(t)
  PROVE  Fine(base \o t)
<1> DEFINE c == base \o t
           n == Len(base)
<1>1. n \in Nat /\ Len(t) \in Nat /\ Sequence(t)
  BY SequenceFacts DEF FineTail
<1>2. /\ Len(c) = n + Len(t) /\ Range(c) = Range(base) \cup Range(t)
      /\ \A j \in 1 .. n : c[j] = base[j]
      /\ \A j \in 1 .. Len(t) : c[n + j] = t[j]
  BY <1>1, Concatenated
<1> HIDE DEF c, n
<1>3. Len(c) >= 4 /\ c[1] = base[1] /\ c[2] = base[2] /\ c[3] = base[3]
  BY <1>1, <1>2 DEF n
<1>4. AcceptedCommand(c)
  BY <1>3 DEF AcceptedCommand, SetPath, InterfacesPath, ForbiddenOperations
<1>5. CASE Plain(t)
  BY <1>1, <1>4, <1>5, PlainJoined, PlainAccepted DEF c
<1>6. CASE Len(t) >= 2 /\ t[Len(t) - 1] = "description" /\ t[Len(t)] \in MetaTokens
  <2>1. /\ Len(t) - 1 \in 1 .. Len(t) /\ Len(t) \in 1 .. Len(t)
        /\ n + (Len(t) - 1) = Len(c) - 1 /\ n + Len(t) = Len(c)
    BY <1>1, <1>2, <1>6
  <2>2. c[Len(c) - 1] = "description" /\ c[Len(c)] \in MetaTokens
    BY <1>2, <1>6, <2>1
  <2> QED BY <2>2 DEF Fine, Last, c
<1> QED BY <1>5, <1>6 DEF FineTail

\* What a DHCP subnet is configured with.
DHCPTail(t) ==
  \/ Base(t, 2) /\ t[1] \in {"lease", "subnet-id"} /\ t[2] \in PositiveInt
  \/ /\ Base(t, 3) /\ t[1] = "option" /\ t[2] \in {"default-router", "name-server"}
     /\ t[3] \in Ipv4Addr
  \/ /\ Base(t, 4) /\ t[1] = "range" /\ t[2] = "0" /\ t[3] \in {"start", "stop"}
     /\ t[4] \in Ipv4Addr

DHCPBase(base) ==
  /\ Base(base, 7)
  /\ base[1] = "set" /\ base[2] = "service" /\ base[3] = "dhcp-server"
  /\ base[4] = "shared-network-name" /\ base[5] # "" /\ base[6] = "subnet"
  /\ base[7] \in Ipv4Prefix

\* DHCP commands have the lengths and the values the apply package asks for.
LEMMA FineDHCP ==
  ASSUME NEW base, DHCPBase(base), NEW t, DHCPTail(t)
  PROVE  Fine(base \o t)
<1> DEFINE c == base \o t
<1>1. PICK m \in Nat : Base(t, m)
  BY DEF DHCPTail
<1>2. /\ Plain(c) /\ Len(c) = 7 + m
      /\ \A j \in 1 .. 7 : c[j] = base[j]
      /\ \A j \in 1 .. m : c[7 + j] = t[j]
  <2>1. Base(base, 7) /\ 7 \in Nat
    BY Zenon DEF DHCPBase
  <2> DEFINE n == 7
  <2>2. n \in Nat /\ Base(base, n)
    BY <2>1
  <2> HIDE DEF n
  <2>3. /\ Plain(c) /\ Len(c) = n + m
        /\ \A j \in 1 .. n : c[j] = base[j]
        /\ \A j \in 1 .. m : c[n + j] = t[j]
    BY <1>1, <2>2, Joined
  <2> HIDE DEF c
  <2> QED BY <2>3 DEF n
<1> HIDE DEF c
<1>3. /\ c[1] = base[1] /\ c[2] = base[2] /\ c[3] = base[3] /\ c[4] = base[4]
      /\ c[5] = base[5] /\ c[6] = base[6] /\ c[7] = base[7]
  BY <1>2
<1>4. /\ m >= 1 => c[8] = t[1]
      /\ m >= 2 => c[9] = t[2]
      /\ m >= 3 => c[10] = t[3]
      /\ m >= 4 => c[11] = t[4]
  <2>1. m >= 1 => c[7 + 1] = t[1]
    BY <1>2
  <2>2. m >= 2 => c[7 + 2] = t[2]
    BY <1>2
  <2>3. m >= 3 => c[7 + 3] = t[3]
    BY <1>2
  <2>4. m >= 4 => c[7 + 4] = t[4]
    BY <1>2
  <2> QED BY <2>1, <2>2, <2>3, <2>4
<1>5. c[1] = "set" /\ c[2] = "service" /\ c[3] = "dhcp-server"
  BY <1>3, Zenon DEF DHCPBase
<1>6. DHCPPath(c)
  <2>1. c[4] = "shared-network-name" /\ c[5] # "" /\ c[6] = "subnet" /\ c[7] \in Ipv4Prefix
    BY <1>3, Zenon DEF DHCPBase
  <2>2. \A k : Base(t, k) => k = m
    BY <1>1 DEF Base
  <2>3. Len(c) >= 8 /\ (m = 2 => Len(c) = 9) /\ (m = 3 => Len(c) = 10) /\ (m = 4 => Len(c) = 11)
    <3>1. m = 2 \/ m = 3 \/ m = 4
      BY <2>2 DEF DHCPTail
    <3> QED BY <1>2, <3>1
  <2>4. CASE m = 2 /\ t[1] \in {"lease", "subnet-id"} /\ t[2] \in PositiveInt
    <3>1. c[8] \in {"lease", "subnet-id"} /\ c[9] \in PositiveInt
      BY <1>4, <2>4
    <3> QED BY <2>1, <2>3, <2>4, <3>1, Zenon DEF DHCPPath
  <2>5. CASE /\ m = 3 /\ t[1] = "option" /\ t[2] \in {"default-router", "name-server"}
             /\ t[3] \in Ipv4Addr
    <3>1. c[8] = "option" /\ c[9] \in {"default-router", "name-server"} /\ c[10] \in Ipv4Addr
      BY <1>4, <2>5
    <3> QED BY <2>1, <2>3, <2>5, <3>1, Zenon DEF DHCPPath
  <2>6. CASE /\ m = 4 /\ t[1] = "range" /\ t[2] = "0" /\ t[3] \in {"start", "stop"}
             /\ t[4] \in Ipv4Addr
    <3>1. c[8] = "range" /\ c[9] = "0" /\ c[10] \in {"start", "stop"} /\ c[11] \in Ipv4Addr
      BY <1>4, <2>6
    <3> QED BY <2>1, <2>3, <2>6, <3>1, Zenon DEF DHCPPath
  <2> QED BY <2>2, <2>4, <2>5, <2>6 DEF DHCPTail
<1>7. AcceptedCommand(c)
  <2>1. Len(c) >= 4
    BY <1>2
  <2>2. SetPath(c)
    BY <1>5, <1>6, <2>1 DEF SetPath, ServicePath
  <2> QED BY <1>5, <2>2 DEF AcceptedCommand, ForbiddenOperations
<1>8. Fine(c)
  BY <1>2, <1>7, PlainAccepted
<1> QED BY <1>8 DEF c

\* What the DNS forwarder is configured with.
DNSTail(t) ==
  /\ Base(t, 2)
  /\ \/ t[1] = "allow-from" /\ t[2] \in Ipv4Prefix
     \/ t[1] = "cache-size" /\ t[2] = "0"
     \/ t[1] = "listen-address" /\ t[2] \in Ipv4Addr

\* And so have those of the DNS forwarder.
LEMMA FineDNS ==
  ASSUME NEW t, DNSTail(t)
  PROVE  Fine(<<"set", "service", "dns", "forwarding">> \o t)
<1> DEFINE base == <<"set", "service", "dns", "forwarding">>
           c == base \o t
<1>1. base[1] = "set" /\ base[2] = "service" /\ base[3] = "dns" /\ base[4] = "forwarding"
  BY Quadruple
<1>2. Base(base, 4)
  BY Quadruple, WordsPlain DEF Base, Plain, Words
<1> HIDE DEF base
<1>3. /\ Plain(c) /\ Len(c) = 6
      /\ \A j \in 1 .. 4 : c[j] = base[j]
      /\ \A j \in 1 .. 2 : c[4 + j] = t[j]
  <2>1. Base(t, 2) /\ 2 \in Nat /\ 4 \in Nat
    BY DEF DNSTail
  <2> QED BY <1>2, <2>1, Joined
<1> HIDE DEF c
<1>4. c[1] = base[1] /\ c[2] = base[2] /\ c[3] = base[3] /\ c[4] = base[4]
  BY <1>3
<1>5. c[4 + 1] = t[1] /\ c[4 + 2] = t[2]
  BY <1>3
<1>6. c[5] = t[1] /\ c[6] = t[2]
  BY <1>5
<1>7. AcceptedCommand(c)
  BY <1>1, <1>3, <1>4, <1>6
     DEF AcceptedCommand, SetPath, ServicePath, DNSPath, ForbiddenOperations, DNSTail
<1>8. Fine(c)
  BY <1>3, <1>7, PlainAccepted
<1> QED BY <1>8 DEF base, c

-----------------------------------------------------------------------------
\* The bridges.

\* A command for every tail.
LEMMA CommandsMade ==
  ASSUME NEW base, NEW tails, Sequence(tails)
  PROVE  /\ Sequence(Commands(base, tails))
         /\ \A c \in Range(Commands(base, tails)) : \E t \in Range(tails) : c = base \o t
         /\ \A t \in Range(tails) : base \o t \in Range(Commands(base, tails))
<1> DEFINE cs == Commands(base, tails)
<1>1. DOMAIN cs = DOMAIN tails /\ \A k \in DOMAIN tails : cs[k] = base \o tails[k]
  BY DEF Commands
<1>2. Len(tails) \in Nat /\ DOMAIN tails = 1 .. Len(tails)
  BY SequenceFacts
<1>3. cs = [k \in 1 .. Len(tails) |-> cs[k]]
  BY <1>1, <1>2 DEF Commands
<1> HIDE DEF cs
<1>4. Sequence(cs)
  BY <1>1, <1>2, <1>3, Listed
<1>5. \A c \in Range(cs) : \E t \in Range(tails) : c = base \o t
  BY <1>1 DEF Range
<1>6. \A t \in Range(tails) : base \o t \in Range(cs)
  BY <1>1 DEF Range
<1> QED BY <1>4, <1>5, <1>6 DEF cs

FineTails(s) == Sequence(s) /\ \A t \in Range(s) : FineTail(t)

\* A description may be what the apply package refuses.
LEMMA DescriptionTail == ASSUME NEW n PROVE FineTail(<<"description", n>>)
<1> DEFINE t == <<"description", n>>
<1>1. Sequence(t) /\ Len(t) = 2 /\ t[1] = "description" /\ t[2] = n /\ Range(t) = {"description", n}
  BY Pair
<1>2. "description" \notin MetaTokens
  BY WordsPlain DEF Words
<1> HIDE DEF t
<1>3. CASE n \in MetaTokens
  <2>1. Len(t) >= 2 /\ Len(t) - 1 = 1
    BY <1>1
  <2> QED BY <1>1, <1>3, <2>1 DEF FineTail, t
<1>4. CASE n \notin MetaTokens
  BY <1>1, <1>2, <1>4 DEF FineTail, Plain, t
<1> QED BY <1>3, <1>4

\* What may follow a base may follow it after more plain tokens.
LEMMA FineTailUnder ==
  ASSUME NEW base, Sequence(base), Plain(base), NEW t, FineTail(t)
  PROVE  FineTail(base \o t)
<1> DEFINE c == base \o t
<1>1. Sequence(t)
  BY DEF FineTail
<1>2. /\ Sequence(c) /\ Len(base) \in Nat /\ Len(t) \in Nat /\ Len(c) = Len(base) + Len(t)
      /\ \A j \in 1 .. Len(t) : c[Len(base) + j] = t[j]
  BY <1>1, SequenceFacts, Concatenated
<1>3. Plain(t) => Plain(c)
  BY <1>1, PlainJoined
<1> HIDE DEF c
<1>4. ASSUME Len(t) >= 2, t[Len(t) - 1] = "description", t[Len(t)] \in MetaTokens
      PROVE  Len(c) >= 2 /\ c[Len(c) - 1] = "description" /\ c[Len(c)] \in MetaTokens
  <2>1. /\ Len(t) - 1 \in 1 .. Len(t) /\ Len(t) \in 1 .. Len(t)
        /\ Len(base) + (Len(t) - 1) = Len(c) - 1 /\ Len(base) + Len(t) = Len(c) /\ Len(c) >= 2
    BY <1>2, <1>4
  <2>2. /\ c[Len(base) + (Len(t) - 1)] = t[Len(t) - 1]
        /\ c[Len(base) + Len(t)] = t[Len(t)]
    BY <1>2, <2>1
  <2> QED BY <1>4, <2>1, <2>2
<1>5. FineTail(c)
  BY <1>2, <1>3, <1>4 DEF FineTail
<1> QED BY <1>5 DEF c

\* The tails of a command without a value from elsewhere.
LEMMA PlainPair ==
  ASSUME NEW a \in Words, NEW b, b \notin MetaTokens
  PROVE  Base(<<a, b>>, 2) /\ FineTail(<<a, b>>)
<1>1. Sequence(<<a, b>>) /\ Len(<<a, b>>) = 2 /\ Range(<<a, b>>) = {a, b}
  BY Pair
<1>2. a \notin MetaTokens
  BY WordsPlain
<1> QED BY <1>1, <1>2 DEF Base, FineTail, Plain

\* Plain tails stay plain below a plain path.
LEMMA FineTailsUnder ==
  ASSUME NEW base, Sequence(base), Plain(base), NEW s, FineTails(s)
  PROVE  FineTails(Commands(base, s))
<1>1. /\ Sequence(Commands(base, s))
      /\ \A c \in Range(Commands(base, s)) : \E t \in Range(s) : c = base \o t
  BY CommandsMade DEF FineTails
<1>2. \A t \in Range(s) : FineTail(base \o t)
  BY FineTailUnder DEF FineTails
<1> QED BY <1>1, <1>2 DEF FineTails

VIFTyped(v) == ToString(v.id) \notin MetaTokens /\ v.address \notin MetaTokens

\* The tails of a VIF.
LEMMA VIFTailsFine ==
  ASSUME NEW v, VIFTyped(v)
  PROVE  /\ FineTails(VIFTails(v))
         /\ <<"vif", ToString(v.id)>> \o <<"address", v.address>> \in Range(VIFTails(v))
<1> DEFINE base == <<"vif", ToString(v.id)>>
           address == <<"address", v.address>>
           description == <<"description", NameToken(v.name)>>
           tails == <<address, description>>
<1>1. Sequence(base) /\ Plain(base)
  BY PlainPair DEF VIFTyped, Words, Base
<1>2. FineTail(address) /\ FineTail(description)
  BY PlainPair, DescriptionTail DEF VIFTyped, Words
<1>3. VIFTails(v) = Commands(base, tails)
  BY DEF VIFTails
<1> HIDE DEF base, address, description
<1>4. Sequence(tails) /\ Range(tails) = {address, description}
  BY Pair
<1> HIDE DEF tails
<1>5. FineTails(VIFTails(v))
  BY <1>1, <1>2, <1>3, <1>4, FineTailsUnder DEF FineTails
<1>6. base \o address \in Range(VIFTails(v))
  BY <1>3, <1>4, CommandsMade
<1> QED BY <1>5, <1>6 DEF base, address

\* Tails one after the other.
LEMMA FineTailsJoined ==
  ASSUME NEW s, NEW t, FineTails(s), FineTails(t)
  PROVE  FineTails(s \o t) /\ Range(s \o t) = Range(s) \cup Range(t)
BY Concatenated DEF FineTails

\* Sequences of plain tails, one after the other, are plain tails.
LEMMA FineTailsFlattened ==
  ASSUME NEW ss, Sequence(ss), \A k \in DOMAIN ss : FineTails(ss[k])
  PROVE  /\ FineTails(FlattenSeq(ss))
         /\ Range(FlattenSeq(ss)) = UNION {Range(ss[k]) : k \in DOMAIN ss}
<1>1. \A k \in DOMAIN ss : Sequence(ss[k])
  BY DEF FineTails
<1>2. /\ Sequence(FlattenSeq(ss))
      /\ Range(FlattenSeq(ss)) = UNION {Range(ss[k]) : k \in DOMAIN ss}
  BY <1>1, Flattened
<1> QED BY <1>2 DEF FineTails

BridgeTyped(b) ==
  /\ Bridgename(b.number) \notin MetaTokens /\ b.address \notin MetaTokens
  /\ IsFiniteSet(b.members) /\ \A p \in b.members : p \notin MetaTokens
  /\ Sequence(b.vifs) /\ \A v \in Range(b.vifs) : VIFTyped(v) /\ v.id \in Nat

\* sort.Ints gives a sequence.
LEMMA AscendingListed ==
  ASSUME NEW S
  PROVE  LET a == Ascending(S) IN a = [k \in 1 .. Cardinality(S) |-> a[k]]
<1> DEFINE n == Cardinality(S)
           g(k) == CHOOSE v \in S : Cardinality({w \in S : w < v}) = k - 1
           D == 1 .. n
           a == Ascending(S)
<1>1. a = [k \in D |-> g(k)]
  BY DEF Ascending
<1> HIDE DEF n, D, g
<1>2. \A k \in D : a[k] = g(k)
  BY <1>1
<1>3. a = [k \in D |-> a[k]]
  BY <1>1, <1>2
<1> QED BY <1>3 DEF D, n

\* The VLANs a member allows are VLANs of the bridge, by their identifiers.
LEMMA AllowedAscending ==
  ASSUME NEW b, BridgeTyped(b), NEW p
  PROVE  LET allowed == Ascending(allowedVLANsForMember(b, p)) IN
           /\ Sequence(allowed)
           /\ \A k \in DOMAIN allowed : ToString(allowed[k]) \notin MetaTokens
<1> DEFINE S == allowedVLANsForMember(b, p)
           allowed == Ascending(S)
           J == {j \in DOMAIN b.vifs : p \in b.vifs[j].members}
           f == [j \in J |-> b.vifs[j].id]
<1>1. S = {b.vifs[k].id : k \in J}
  BY DEF allowedVLANsForMember
<1>2. Sequence(b.vifs)
  BY DEF BridgeTyped
<1>3. Len(b.vifs) \in Nat /\ DOMAIN b.vifs = 1 .. Len(b.vifs)
  BY <1>2, SequenceFacts
<1>4. IsFiniteSet(J)
  <2>1. IsFiniteSet(DOMAIN b.vifs)
    BY <1>3, FS_Interval
  <2> QED BY <2>1, FS_Subset
<1>5. f \in Surjection(J, S)
  BY <1>1 DEF Surjection
<1>6. IsFiniteSet(S)
  <2> HIDE DEF f, J, S
  <2> QED BY <1>4, <1>5, FS_Surjection
<1>7. \A v \in S : v \in Nat /\ ToString(v) \notin MetaTokens
  BY <1>1 DEF BridgeTyped, VIFTyped, Range
<1> HIDE DEF S
<1>8. /\ Cardinality(S) \in Nat
      /\ \A k \in 1 .. Cardinality(S) : \E v \in S : Cardinality({w \in S : w < v}) = k - 1
  BY <1>6, <1>7, Ranked
<1>9. DOMAIN allowed = 1 .. Cardinality(S) /\ \A k \in DOMAIN allowed : allowed[k] \in S
  BY <1>8 DEF Ascending
<1>10. allowed = [k \in 1 .. Cardinality(S) |-> allowed[k]]
  BY AscendingListed
<1> HIDE DEF allowed
<1>11. Sequence(allowed)
  BY <1>8, <1>9, <1>10, Listed
<1> QED BY <1>7, <1>9, <1>11 DEF S, allowed

\* The tails of a member port are plain.
LEMMA MemberTailsFine ==
  ASSUME NEW b, BridgeTyped(b), NEW p, p \notin MetaTokens
  PROVE  FineTails(MemberTails(b, p))
<1> DEFINE member == <<"member", "interface", p>>
           allowed == Ascending(allowedVLANsForMember(b, p))
           tails == [k \in DOMAIN allowed |-> member \o <<"allowed-vlan", ToString(allowed[k])>>]
           native == member \o <<"native-vlan", "1">>
<1>1. MemberTails(b, p) = IF allowed = <<>> THEN <<member>> ELSE tails \o <<native>>
  BY DEF MemberTails
<1>2. Sequence(allowed) /\ \A k \in DOMAIN allowed : ToString(allowed[k]) \notin MetaTokens
  BY AllowedAscending
<1>3. Len(allowed) \in Nat /\ DOMAIN allowed = 1 .. Len(allowed)
  BY <1>2, SequenceFacts
<1>4. Sequence(member) /\ Plain(member)
  BY Triple, WordsPlain DEF Plain, Words
<1>5. FineTail(member)
  BY <1>4 DEF FineTail
<1> HIDE DEF member, allowed
<1>6. FineTail(native)
  <2>1. FineTail(<<"native-vlan", "1">>)
    BY PlainPair, WordsPlain DEF Words
  <2> QED BY <1>4, <2>1, FineTailUnder
<1>7. \A k \in DOMAIN allowed : FineTail(member \o <<"allowed-vlan", ToString(allowed[k])>>)
  <2> TAKE k \in DOMAIN allowed
  <2>1. FineTail(<<"allowed-vlan", ToString(allowed[k])>>)
    BY <1>2, PlainPair DEF Words
  <2> QED BY <1>4, <2>1, FineTailUnder
<1>8. Sequence(tails)
  <2>1. DOMAIN tails = 1 .. Len(allowed) /\ tails = [k \in 1 .. Len(allowed) |-> tails[k]]
    BY <1>3
  <2> HIDE DEF tails
  <2> QED BY <1>3, <2>1, Listed
<1>9. \A t \in Range(tails) : FineTail(t)
  BY <1>7 DEF Range
<1> HIDE DEF tails, native
<1>10. /\ Sequence(<<native>>) /\ Range(<<native>>) = {native}
       /\ Sequence(<<member>>) /\ Range(<<member>>) = {member}
  BY DEF Sequence, Range
<1>11. FineTails(<<member>>) /\ FineTails(<<native>>) /\ FineTails(tails)
  BY <1>5, <1>6, <1>8, <1>9, <1>10 DEF FineTails
<1> QED BY <1>1, <1>11, FineTailsJoined

FineCommands(s) == Sequence(s) /\ \A c \in Range(s) : Fine(c)

\* Where bridges and NAT rules are set.
LEMMA FineCommandsUnder ==
  ASSUME NEW base, Sequence(base), Plain(base), Len(base) >= 4, base[1] = "set",
         \/ base[2] = "interfaces" /\ base[3] = "bridge"
         \/ base[2] = "nat" /\ base[3] = "source",
         NEW s, FineTails(s)
  PROVE  /\ FineCommands(Commands(base, s))
         /\ \A t \in Range(s) : base \o t \in Range(Commands(base, s))
         /\ \A c \in Range(Commands(base, s)) : c[2] = base[2] /\ c[3] = base[3]
<1>1. /\ Sequence(Commands(base, s))
      /\ \A c \in Range(Commands(base, s)) : \E t \in Range(s) : c = base \o t
      /\ \A t \in Range(s) : base \o t \in Range(Commands(base, s))
  BY CommandsMade DEF FineTails
<1>2. \A t \in Range(s) : Fine(base \o t)
  BY FineUnder DEF FineTails
<1>3. \A t \in Range(s) : (base \o t)[2] = base[2] /\ (base \o t)[3] = base[3]
  <2> TAKE t \in Range(s)
  <2>1. \A j \in 1 .. Len(base) : (base \o t)[j] = base[j]
    BY Concatenated DEF FineTails, FineTail
  <2>2. 2 \in 1 .. Len(base) /\ 3 \in 1 .. Len(base)
    BY SequenceFacts
  <2> QED BY <2>1, <2>2
<1> QED BY <1>1, <1>2, <1>3 DEF FineCommands

BridgeBase(b) == <<"set", "interfaces", "bridge", Bridgename(b.number)>>

\* The commands of a bridge, the addresses of it and of its VIFs among them.
LEMMA BridgeCommandsFine ==
  ASSUME NEW b, BridgeTyped(b)
  PROVE  /\ FineCommands(BridgeCommands(b))
         /\ \A c \in Range(BridgeCommands(b)) : c[2] = "interfaces" /\ c[3] = "bridge"
         /\ BridgeBase(b) \o <<"address", b.address>> \in Range(BridgeCommands(b))
         /\ \A v \in Range(b.vifs) :
              BridgeBase(b) \o (<<"vif", ToString(v.id)>> \o <<"address", v.address>>)
                \in Range(BridgeCommands(b))
<1> DEFINE base == BridgeBase(b)
           address == <<"address", b.address>>
           description == <<"description", NameToken(b.name)>>
           own == <<address, description>>
           ports == SetToSeq(b.members)
           memberships == [k \in 1 .. Cardinality(b.members) |-> MemberTails(b, ports[k])]
           vifs == [k \in DOMAIN b.vifs |-> VIFTails(b.vifs[k])]
<1>1. BridgeCommands(b) = Commands(base, own \o FlattenSeq(memberships) \o FlattenSeq(vifs))
  BY DEF BridgeCommands, BridgeBase
<1>2. /\ Sequence(base) /\ Len(base) = 4 /\ base[1] = "set"
      /\ base[2] = "interfaces" /\ base[3] = "bridge"
  BY Quadruple DEF BridgeBase
<1>3. Plain(base)
  BY Quadruple, WordsPlain DEF Plain, Words, BridgeTyped, BridgeBase
<1>4. FineTail(address) /\ FineTail(description)
  BY PlainPair, DescriptionTail DEF BridgeTyped, Words
<1> HIDE DEF base, address, description
<1>5. FineTails(own) /\ address \in Range(own)
  BY <1>4, Pair DEF FineTails
<1>6. FineTails(FlattenSeq(memberships))
  <2>1. Sequence(ports) /\ Range(ports) = b.members /\ Len(ports) = Cardinality(b.members)
    BY SequenceOfSet DEF BridgeTyped
  <2>2. Len(ports) \in Nat /\ DOMAIN ports = 1 .. Len(ports)
    BY <2>1, SequenceFacts
  <2> HIDE DEF ports
  <2>3. /\ DOMAIN memberships = 1 .. Cardinality(b.members)
        /\ memberships = [k \in 1 .. Cardinality(b.members) |-> memberships[k]]
    OBVIOUS
  <2>4. \A k \in DOMAIN memberships : FineTails(memberships[k])
    <3> TAKE k \in DOMAIN memberships
    <3>1. ports[k] \in b.members
      BY <2>1, <2>2, <2>3 DEF Range
    <3>2. FineTails(MemberTails(b, ports[k]))
      BY <3>1, MemberTailsFine DEF BridgeTyped
    <3> QED BY <2>3, <3>2
  <2> HIDE DEF memberships
  <2>5. Sequence(memberships)
    BY <2>1, <2>2, <2>3, Listed
  <2> QED BY <2>4, <2>5, FineTailsFlattened
<1>7. /\ FineTails(FlattenSeq(vifs))
      /\ \A v \in Range(b.vifs) :
           <<"vif", ToString(v.id)>> \o <<"address", v.address>> \in Range(FlattenSeq(vifs))
  <2>1. Sequence(b.vifs) /\ \A k \in DOMAIN b.vifs : VIFTyped(b.vifs[k])
    BY DEF BridgeTyped, Range
  <2>2. Len(b.vifs) \in Nat /\ DOMAIN b.vifs = 1 .. Len(b.vifs)
    BY <2>1, SequenceFacts
  <2>3. DOMAIN vifs = 1 .. Len(b.vifs) /\ vifs = [k \in 1 .. Len(b.vifs) |-> vifs[k]]
    BY <2>2
  <2>4. \A k \in DOMAIN vifs :
          LET v == b.vifs[k] IN
            /\ FineTails(vifs[k])
            /\ <<"vif", ToString(v.id)>> \o <<"address", v.address>> \in Range(vifs[k])
    BY <2>1, VIFTailsFine
  <2>5. DOMAIN vifs = DOMAIN b.vifs
    OBVIOUS
  <2> HIDE DEF vifs
  <2>6. Sequence(vifs)
    BY <2>2, <2>3, Listed
  <2>7. /\ FineTails(FlattenSeq(vifs))
        /\ Range(FlattenSeq(vifs)) = UNION {Range(vifs[k]) : k \in DOMAIN vifs}
    BY <2>4, <2>6, FineTailsFlattened
  <2>8. ASSUME NEW v \in Range(b.vifs)
        PROVE  <<"vif", ToString(v.id)>> \o <<"address", v.address>> \in Range(FlattenSeq(vifs))
    <3>1. PICK k \in DOMAIN b.vifs : v = b.vifs[k]
      BY DEF Range
    <3>2. <<"vif", ToString(v.id)>> \o <<"address", v.address>> \in Range(vifs[k])
      BY <2>4, <2>5, <3>1
    <3> QED BY <2>5, <2>7, <3>1, <3>2
  <2> QED BY <2>7, <2>8
<1> DEFINE tails == own \o FlattenSeq(memberships) \o FlattenSeq(vifs)
<1> HIDE DEF own, memberships, vifs
<1>8. /\ FineTails(tails) /\ address \in Range(tails)
      /\ Range(FlattenSeq(vifs)) \subseteq Range(tails)
  BY <1>5, <1>6, <1>7, FineTailsJoined
<1>9. /\ Len(base) >= 4 /\ Sequence(base) /\ base[1] = "set"
      /\ base[2] = "interfaces" /\ base[3] = "bridge"
      /\ BridgeCommands(b) = Commands(base, tails)
  BY <1>1, <1>2
<1> HIDE DEF tails
<1>10. /\ FineCommands(BridgeCommands(b))
       /\ \A t \in Range(tails) : base \o t \in Range(BridgeCommands(b))
       /\ \A c \in Range(BridgeCommands(b)) : c[2] = base[2] /\ c[3] = base[3]
  BY <1>3, <1>8, <1>9, FineCommandsUnder
<1> QED BY <1>2, <1>7, <1>8, <1>10 DEF base, address

-----------------------------------------------------------------------------
\* The other sections.

LANTyped(lan) ==
  /\ lan.name \in TokenNames
  /\ Subnet(lan.net, lan.last) \in Ipv4Prefix
  /\ lan.lease \in 1 .. MaxInt /\ lan.subnetID \in 1 .. MaxInt
  /\ lan.router \in 0 .. Top /\ lan.start \in 0 .. Top /\ lan.stop \in 0 .. Top

\* Numbers, addresses and prefixes are plain.
LEMMA ValuesPlain ==
  /\ \A v \in PositiveInt : v \notin MetaTokens
  /\ \A v \in Ipv4Addr : v \notin MetaTokens
  /\ \A v \in Ipv4Prefix : v \notin MetaTokens
<1>1. MetaTokens \cap (Words \cup PositiveInt \cup Ipv4Addr \cup Ipv4Prefix) = {}
  BY TokensAssumption, Zenon
<1> QED BY <1>1

\* And so are the names of bridges.
LEMMA NumbersPlain ==
  /\ \A n \in -MaxInt - 1 .. MaxInt : ToString(n) \notin MetaTokens
  /\ \A n \in 1 .. MaxInt : ToString(n) \notin MetaTokens
  /\ \A n \in 0 .. MaxInt : Bridgename(n) \notin MetaTokens
<1>1. /\ \A n \in -MaxInt - 1 .. MaxInt : ToString(n) \notin MetaTokens
      /\ \A n \in 0 .. MaxInt : Bridgename(n) \notin MetaTokens
  BY TokensAssumption, Zenon
<1>2. \A n \in 1 .. MaxInt : n \in -MaxInt - 1 .. MaxInt
  BY ServicesAssumption
<1> QED BY <1>1, <1>2

\* What is made of the values of a service.
LEMMA LANValues ==
  ASSUME NEW lan, LANTyped(lan)
  PROVE  /\ ToString(lan.lease) \in PositiveInt /\ ToString(lan.subnetID) \in PositiveInt
         /\ Address(lan.router) \in Ipv4Addr /\ Address(lan.start) \in Ipv4Addr
         /\ Address(lan.stop) \in Ipv4Addr
         /\ NameToken(lan.name) # "" /\ NameToken(lan.name) \notin MetaTokens
BY ValuesAssumption, TokensAssumption, Zenon DEF LANTyped

\* A base of seven tokens.
LEMMA DHCPBaseFine ==
  ASSUME NEW lan, LANTyped(lan)
  PROVE  DHCPBase(<<"set", "service", "dhcp-server", "shared-network-name",
                    NameToken(lan.name), "subnet", Subnet(lan.net, lan.last)>>)
<1> DEFINE name == NameToken(lan.name)
           prefix == Subnet(lan.net, lan.last)
<1>1. name # "" /\ name \notin MetaTokens
  BY LANValues
<1>2. prefix \in Ipv4Prefix /\ prefix \notin MetaTokens
  BY ValuesPlain DEF LANTyped
<1> HIDE DEF name, prefix
<1> DEFINE base == <<"set", "service", "dhcp-server", "shared-network-name", name, "subnet", prefix>>
<1>3. /\ Sequence(base) /\ Len(base) = 7
      /\ Range(base) = {"set", "service", "dhcp-server", "shared-network-name", name, "subnet", prefix}
      /\ base[1] = "set" /\ base[2] = "service" /\ base[3] = "dhcp-server"
      /\ base[4] = "shared-network-name" /\ base[5] = name /\ base[6] = "subnet"
      /\ base[7] = prefix
  BY DEF Sequence, Range
<1> HIDE DEF base
<1>4. \A w \in {"set", "service", "dhcp-server", "shared-network-name", "subnet"} : w \notin MetaTokens
  BY WordsPlain DEF Words
<1>5. Plain(base)
  <2>1. \A x \in Range(base) :
          \/ x \in {"set", "service", "dhcp-server", "shared-network-name", "subnet"}
          \/ x = name \/ x = prefix
    BY <1>3
  <2> QED BY <1>1, <1>2, <1>4, <2>1 DEF Plain
<1>6. Base(base, 7)
  BY <1>3, <1>5 DEF Base
<1>7. DHCPBase(base)
  BY <1>1, <1>2, <1>3, <1>6, Zenon DEF DHCPBase
<1> QED BY <1>7 DEF base, name, prefix

\* The commands of a DHCP subnet.
LEMMA DHCPCommandsFine ==
  ASSUME NEW lan, LANTyped(lan)
  PROVE  FineCommands(DHCPCommands(lan))
<1> DEFINE base == <<"set", "service", "dhcp-server", "shared-network-name",
                     NameToken(lan.name), "subnet", Subnet(lan.net, lan.last)>>
           t1 == <<"lease", ToString(lan.lease)>>
           t2 == <<"option", "default-router", Address(lan.router)>>
           t3 == <<"option", "name-server", Address(lan.router)>>
           t4 == <<"range", "0", "start", Address(lan.start)>>
           t5 == <<"range", "0", "stop", Address(lan.stop)>>
           t6 == <<"subnet-id", ToString(lan.subnetID)>>
           tails == <<t1, t2, t3, t4, t5, t6>>
<1>1. DHCPCommands(lan) = Commands(base, tails)
  BY DEF DHCPCommands
<1>2. DHCPBase(base)
  BY DHCPBaseFine
<1>3. /\ ToString(lan.lease) \in PositiveInt /\ ToString(lan.subnetID) \in PositiveInt
      /\ Address(lan.router) \in Ipv4Addr /\ Address(lan.start) \in Ipv4Addr
      /\ Address(lan.stop) \in Ipv4Addr
  BY LANValues
<1>4. \A w \in {"lease", "option", "default-router", "name-server", "range", "0", "start",
                "stop", "subnet-id"} : w \notin MetaTokens
  BY WordsPlain DEF Words
<1>5. DHCPTail(t1) /\ DHCPTail(t6)
  <2>1. ASSUME NEW w \in {"lease", "subnet-id"}, NEW v \in PositiveInt
        PROVE  DHCPTail(<<w, v>>)
    <3> DEFINE t == <<w, v>>
    <3>1. Sequence(t) /\ Len(t) = 2 /\ t[1] = w /\ t[2] = v /\ Range(t) = {w, v}
      BY Pair
    <3> HIDE DEF t
    <3>2. Plain(t)
      BY <1>4, <3>1, ValuesPlain DEF Plain
    <3>3. DHCPTail(t)
      BY <2>1, <3>1, <3>2 DEF DHCPTail, Base
    <3> QED BY <3>3 DEF t
  <2> QED BY <1>3, <2>1
<1>6. DHCPTail(t2) /\ DHCPTail(t3)
  <2>1. ASSUME NEW w \in {"default-router", "name-server"}, NEW v \in Ipv4Addr
        PROVE  DHCPTail(<<"option", w, v>>)
    <3> DEFINE t == <<"option", w, v>>
    <3>1. /\ Sequence(t) /\ Len(t) = 3 /\ t[1] = "option" /\ t[2] = w /\ t[3] = v
          /\ Range(t) = {"option", w, v}
      BY Triple
    <3> HIDE DEF t
    <3>2. Plain(t)
      BY <1>4, <3>1, ValuesPlain DEF Plain
    <3>3. DHCPTail(t)
      BY <2>1, <3>1, <3>2 DEF DHCPTail, Base
    <3> QED BY <3>3 DEF t
  <2> QED BY <1>3, <2>1
<1>7. DHCPTail(t4) /\ DHCPTail(t5)
  <2>1. ASSUME NEW w \in {"start", "stop"}, NEW v \in Ipv4Addr
        PROVE  DHCPTail(<<"range", "0", w, v>>)
    <3> DEFINE t == <<"range", "0", w, v>>
    <3>1. /\ Sequence(t) /\ Len(t) = 4 /\ t[1] = "range" /\ t[2] = "0" /\ t[3] = w /\ t[4] = v
          /\ Range(t) = {"range", "0", w, v}
      BY Quadruple
    <3> HIDE DEF t
    <3>2. Plain(t)
      BY <1>4, <3>1, ValuesPlain DEF Plain
    <3>3. DHCPTail(t)
      BY <2>1, <3>1, <3>2 DEF DHCPTail, Base
    <3> QED BY <3>3 DEF t
  <2> QED BY <1>3, <2>1
<1> HIDE DEF base, t1, t2, t3, t4, t5, t6
<1>8. Sequence(tails) /\ Range(tails) = {t1, t2, t3, t4, t5, t6}
  BY DEF Sequence, Range
<1> HIDE DEF tails
<1>9. /\ Sequence(Commands(base, tails))
      /\ \A c \in Range(Commands(base, tails)) : \E t \in Range(tails) : c = base \o t
  BY <1>8, CommandsMade
<1>10. \A t \in Range(tails) : Fine(base \o t)
  BY <1>2, <1>5, <1>6, <1>7, <1>8, FineDHCP
<1> QED BY <1>1, <1>9, <1>10 DEF FineCommands

\* The commands of the DNS forwarder.
LEMMA DNSCommandsFine ==
  ASSUME NEW served, Sequence(served), \A k \in DOMAIN served : LANTyped(served[k])
  PROVE  /\ FineCommands(DNSCommands(served))
         /\ \A c \in Range(DNSCommands(served)) : c[2] = "service" /\ c[3] = "dns"
         /\ \A lan \in Range(served) :
              <<"set", "service", "dns", "forwarding">> \o <<"listen-address", Address(lan.router)>>
                \in Range(DNSCommands(served))
<1> DEFINE base == <<"set", "service", "dns", "forwarding">>
           from == [k \in DOMAIN served |-> <<"allow-from", Subnet(served[k].net, served[k].last)>>]
           cache == IF served = <<>> THEN <<>> ELSE << <<"cache-size", "0">> >>
           listen == [k \in DOMAIN served |-> <<"listen-address", Address(served[k].router)>>]
           tails == from \o cache \o listen
<1>1. DNSCommands(served) = Commands(base, tails)
  BY DEF DNSCommands
<1>2. Len(served) \in Nat /\ DOMAIN served = 1 .. Len(served)
  BY SequenceFacts
<1>3. Sequence(from) /\ Sequence(listen)
  <2>1. /\ DOMAIN from = 1 .. Len(served) /\ from = [k \in 1 .. Len(served) |-> from[k]]
        /\ DOMAIN listen = 1 .. Len(served) /\ listen = [k \in 1 .. Len(served) |-> listen[k]]
    BY <1>2
  <2> HIDE DEF from, listen
  <2> QED BY <1>2, <2>1, Listed
<1>4. ASSUME NEW w, NEW v, v \notin MetaTokens,
             \/ w = "allow-from" /\ v \in Ipv4Prefix
             \/ w = "cache-size" /\ v = "0"
             \/ w = "listen-address" /\ v \in Ipv4Addr
      PROVE  DNSTail(<<w, v>>)
  <2> DEFINE t == <<w, v>>
  <2>1. w \in Words
    BY <1>4 DEF Words
  <2>2. Base(t, 2)
    BY <1>4, <2>1, PlainPair
  <2>3. t[1] = w /\ t[2] = v
    BY Pair
  <2> HIDE DEF t
  <2>4. DNSTail(t)
    BY <1>4, <2>2, <2>3 DEF DNSTail
  <2> QED BY <2>4 DEF t
<1>5. \A t \in Range(from) : DNSTail(t)
  <2>1. ASSUME NEW k \in DOMAIN served
        PROVE  DNSTail(<<"allow-from", Subnet(served[k].net, served[k].last)>>)
    <3>1. Subnet(served[k].net, served[k].last) \in Ipv4Prefix
      BY DEF LANTyped
    <3> QED BY <1>4, <3>1, ValuesPlain
  <2> QED BY <2>1 DEF Range
<1>6. \A t \in Range(listen) : DNSTail(t)
  <2>1. ASSUME NEW k \in DOMAIN served
        PROVE  DNSTail(<<"listen-address", Address(served[k].router)>>)
    <3>1. Address(served[k].router) \in Ipv4Addr
      BY LANValues
    <3> QED BY <1>4, <3>1, ValuesPlain
  <2> QED BY <2>1 DEF Range
<1>7. Sequence(cache) /\ \A t \in Range(cache) : DNSTail(t)
  <2>1. DNSTail(<<"cache-size", "0">>)
    BY <1>4, WordsPlain DEF Words
  <2>2. /\ Sequence(<< <<"cache-size", "0">> >>)
        /\ Range(<< <<"cache-size", "0">> >>) = {<<"cache-size", "0">>}
        /\ Sequence(<<>>) /\ Range(<<>>) = {}
    BY DEF Sequence, Range
  <2> QED BY <2>1, <2>2
<1>8. \A lan \in Range(served) : <<"listen-address", Address(lan.router)>> \in Range(listen)
  BY DEF Range
<1>9. Sequence(base) /\ Len(base) = 4 /\ base[2] = "service" /\ base[3] = "dns"
  BY Quadruple
<1> HIDE DEF base, from, cache, listen
<1>10. Sequence(tails) /\ Range(tails) = Range(from) \cup Range(cache) \cup Range(listen)
  BY <1>3, <1>7, Concatenated
<1> HIDE DEF tails
<1>11. /\ Sequence(Commands(base, tails))
       /\ \A c \in Range(Commands(base, tails)) : \E t \in Range(tails) : c = base \o t
       /\ \A t \in Range(tails) : base \o t \in Range(Commands(base, tails))
  BY <1>10, CommandsMade
<1>12. \A t \in Range(tails) : Fine(base \o t)
  BY <1>5, <1>6, <1>7, <1>10, FineDNS DEF base
<1>13. FineCommands(DNSCommands(served))
  BY <1>1, <1>11, <1>12 DEF FineCommands
<1>14. \A c \in Range(DNSCommands(served)) : c[2] = "service" /\ c[3] = "dns"
  <2>1. \A t \in Range(tails) : Sequence(t)
    BY <1>5, <1>6, <1>7, <1>10 DEF DNSTail, Base
  <2>2. ASSUME NEW t \in Range(tails)
        PROVE  (base \o t)[2] = "service" /\ (base \o t)[3] = "dns"
    <3>1. \A j \in 1 .. Len(base) : (base \o t)[j] = base[j]
      BY <1>9, <2>1, Concatenated, SMTT(30)
    <3> DEFINE c == base \o t
    <3> HIDE DEF c
    <3>2. \A j \in 1 .. 4 : c[j] = base[j]
      BY <1>9, <3>1 DEF c
    <3>3. c[2] = base[2] /\ c[3] = base[3]
      BY <3>2
    <3> QED BY <1>9, <3>3 DEF c
  <2> QED BY <1>1, <1>11, <2>2
<1> QED BY <1>1, <1>8, <1>10, <1>11, <1>13, <1>14 DEF base

RuleTyped(rule) ==
  /\ ToString(rule.id) \notin MetaTokens
  /\ rule.outbound \notin MetaTokens /\ rule.source \notin MetaTokens
  /\ rule.translation \notin MetaTokens

\* The commands of a NAT rule.
LEMMA NATCommandsFine ==
  ASSUME NEW rule, RuleTyped(rule)
  PROVE  FineCommands(NATCommands(rule))
<1> DEFINE id == ToString(rule.id)
           base == <<"set", "nat", "source", "rule", id>>
           t1 == <<"outbound-interface", "name", rule.outbound>>
           t2 == <<"source", "address", rule.source>>
           t3 == <<"translation", "address", rule.translation>>
           tails == <<t1, t2, t3>>
<1>1. NATCommands(rule) = Commands(base, tails)
  BY DEF NATCommands
<1>2. \A w \in {"set", "nat", "source", "rule", "outbound-interface", "name", "address",
                "translation"} : w \notin MetaTokens
  BY WordsPlain DEF Words
<1>3. id \notin MetaTokens
  BY DEF RuleTyped
<1> HIDE DEF id
<1>4. /\ Sequence(base) /\ Len(base) = 5 /\ base[1] = "set" /\ base[2] = "nat"
      /\ base[3] = "source" /\ Range(base) = {"set", "nat", "source", "rule", id}
  BY DEF Sequence, Range
<1> HIDE DEF base
<1>5. Plain(base)
  BY <1>2, <1>3, <1>4 DEF Plain
<1>6. ASSUME NEW a, a \notin MetaTokens, NEW b, b \notin MetaTokens, NEW c, c \notin MetaTokens
      PROVE  FineTail(<<a, b, c>>)
  BY <1>6, Triple DEF FineTail, Plain
<1>7. FineTail(t1) /\ FineTail(t2) /\ FineTail(t3)
  BY <1>2, <1>6 DEF RuleTyped
<1> HIDE DEF t1, t2, t3
<1>8. FineTails(tails)
  BY <1>7, Triple DEF FineTails
<1> HIDE DEF tails
<1>9. Len(base) >= 4
  BY <1>4
<1> QED BY <1>1, <1>4, <1>5, <1>8, <1>9, FineCommandsUnder

PortTyped(p) == p # "" /\ p \notin MetaTokens

\* The description of a port.
LEMMA EthernetCommandFine ==
  ASSUME NEW p, PortTyped(p)
  PROVE  Fine(EthernetCommand(p))
<1> DEFINE n == NameToken(ethernets[p].name)
           c == <<"set", "interfaces", "ethernet", p, "description", n>>
<1>1. EthernetCommand(p) = c
  BY DEF EthernetCommand
<1> HIDE DEF n
<1>2. /\ Sequence(c) /\ Len(c) = 6 /\ c[1] = "set" /\ c[2] = "interfaces" /\ c[3] = "ethernet"
      /\ c[4] = p /\ c[5] = "description" /\ c[6] = n
      /\ Range(c) = {"set", "interfaces", "ethernet", p, "description", n}
  BY Six
<1> HIDE DEF c
<1>3. \A w \in {"set", "interfaces", "ethernet", "description"} : w \notin MetaTokens
  BY WordsPlain DEF Words
<1>4. CASE n \in MetaTokens
  <2>1. Len(c) - 1 = 5
    BY <1>2
  <2>2. c[Len(c) - 1] = "description" /\ c[Len(c)] \in MetaTokens
    BY <1>2, <1>4, <2>1, Zenon
  <2> QED BY <1>1, <2>2, Zenon DEF Fine, Last
<1>5. CASE n \notin MetaTokens
  <2>1. Plain(c)
    <3>1. \A x \in Range(c) : x \in {"set", "interfaces", "ethernet", "description"} \/ x = p \/ x = n
      BY <1>2, Zenon
    <3> QED BY <1>3, <1>5, <3>1, Zenon DEF Plain, PortTyped
  <2>2. Len(c) >= 6 /\ Len(c) >= 4
    BY <1>2
  <2>3. InterfacesPath(c)
    BY <1>2, <2>2, Zenon DEF InterfacesPath, PortTyped
  <2>4. AcceptedCommand(c)
    <3>1. SetPath(c)
      BY <1>2, <2>2, <2>3, Zenon DEF SetPath
    <3>2. "set" \notin ForbiddenOperations
      BY DEF ForbiddenOperations
    <3> QED BY <1>2, <3>1, <3>2, Zenon DEF AcceptedCommand
  <2> QED BY <1>1, <2>1, <2>4, PlainAccepted
<1> QED BY <1>4, <1>5

\* The port of the SSH service.
LEMMA SSHCommandFine ==
  ASSUME NEW x \in Port
  PROVE  Fine(<<"set", "service", "ssh", "port", x>>)
<1> DEFINE c == <<"set", "service", "ssh", "port", x>>
<1>1. /\ Len(c) = 5 /\ c[1] = "set" /\ c[2] = "service" /\ c[3] = "ssh"
      /\ c[4] = "port" /\ c[5] = x /\ Range(c) = {"set", "service", "ssh", "port", x}
  BY DEF Range
<1> HIDE DEF c
<1>2. \A w \in {"set", "service", "ssh", "port"} : w \notin MetaTokens
  BY WordsPlain DEF Words
<1>3. x \notin MetaTokens
  BY ValuesPlain, GrammarAssumption
<1>4. Plain(c)
  BY <1>1, <1>2, <1>3 DEF Plain
<1>5. AcceptedCommand(c)
  BY <1>1 DEF AcceptedCommand, SetPath, ServicePath, SSHPath, ForbiddenOperations
<1>6. Fine(c)
  BY <1>4, <1>5, PlainAccepted
<1> QED BY <1>6 DEF c

-----------------------------------------------------------------------------
\* All sections.

\* Commands one after the other.
LEMMA FineCommandsJoined ==
  ASSUME NEW s, NEW t, FineCommands(s), FineCommands(t)
  PROVE  /\ FineCommands(s \o t) /\ Range(s \o t) = Range(s) \cup Range(t)
BY Concatenated DEF FineCommands

\* Any number of accepted lists, one after the other, is accepted.
LEMMA FineCommandsFlattened ==
  ASSUME NEW ss, Sequence(ss), \A k \in DOMAIN ss : FineCommands(ss[k])
  PROVE  /\ FineCommands(FlattenSeq(ss))
         /\ Range(FlattenSeq(ss)) = UNION {Range(ss[k]) : k \in DOMAIN ss}
<1>1. \A k \in DOMAIN ss : Sequence(ss[k])
  BY DEF FineCommands
<1>2. /\ Sequence(FlattenSeq(ss))
      /\ Range(FlattenSeq(ss)) = UNION {Range(ss[k]) : k \in DOMAIN ss}
  BY <1>1, Flattened
<1> QED BY <1>2 DEF FineCommands

-----------------------------------------------------------------------------
\* What the templates are given has the types they ask for.

PortsTyped ==
  /\ IsFiniteSet(Selectable) /\ \A p \in Selectable : PortTyped(p)
  /\ DOMAIN ethernets \subseteq Selectable

VLANTyped(v) == v.members \subseteq Selectable /\ VIFTyped(v) /\ v.id \in Nat
BasesTyped ==
  /\ Sequence(bridges)
  /\ \A b \in Range(bridges) :
       /\ b.members \subseteq Selectable /\ b.address \notin MetaTokens
       /\ Sequence(b.vifs) /\ \A v \in Range(b.vifs) : VIFTyped(v) /\ v.id \in Nat
  /\ \A v \in Range(pending) : VLANTyped(v)

NATInv == Sequence(natRules) /\ \A r \in Range(natRules) : RuleTyped(r)

\* What a request may hold, one by one.
LEMMA LegalEntries ==
  ASSUME EntriesInv
  PROVE  /\ Len(entries) \in Nat /\ DOMAIN entries = 1 .. Len(entries)
         /\ Len(entries) + 4051 <= MaxInt /\ MaxInt \in Nat
         /\ \A k \in DOMAIN entries :
              /\ entries[k].dhcp.lease.base \in Int
              /\ entries[k].dhcp.lease.unit \in DOMAIN Multiplier
              /\ entries[k].vlan \in 0 .. MaxInt
              /\ entries[k].subnet \notin MetaTokens
<1>1. Legal(request) /\ entries = request.entries
  BY DEF EntriesInv
<1>2. entries \in Seq(Range(entries)) /\ Len(entries) + 4051 <= MaxInt
  BY <1>1 DEF Legal
<1>3. \A k \in DOMAIN entries :
        /\ entries[k].dhcp.lease.base \in Int
        /\ entries[k].dhcp.lease.unit \in DOMAIN Multiplier
        /\ entries[k].vlan \in 0 .. MaxInt
  BY <1>1 DEF Legal
<1>4. \A k \in DOMAIN entries : entries[k].subnet \notin MetaTokens
  <2>1. Texts(request) \cap MetaTokens = {}
    BY <1>1 DEF Legal
  <2>2. \A k \in DOMAIN entries : entries[k].subnet \in Texts(request)
    BY <1>1 DEF Texts, SubnetsOf
  <2> QED BY <2>1, <2>2, Zenon
<1> QED BY <1>2, <1>3, <1>4, ServicesAssumption

\* The ports of a legal request are finitely many plain words.
LEMMA LegalPorts ==
  ASSUME EntriesInv
  PROVE  /\ IsFiniteSet(PortsOf(request)) /\ \A p \in PortsOf(request) : p \notin MetaTokens
         /\ Sequence(request.portMaps)
<1>1. Legal(request)
  BY DEF EntriesInv
<1>2. IsFiniteSet(PortsOf(request)) /\ Sequence(request.portMaps)
  BY <1>1 DEF Legal, Sequence
<1>3. Texts(request) \cap MetaTokens = {}
  BY <1>1 DEF Legal
<1>4. PortsOf(request) \subseteq Texts(request)
  BY DEF Texts
<1> QED BY <1>2, <1>3, <1>4

\* Its NAT rules are plain words and integers of their width.
LEMMA LegalRules ==
  ASSUME EntriesInv
  PROVE  /\ Sequence(request.rules)
         /\ \A k \in DOMAIN request.rules :
              LET r == request.rules[k] IN
                /\ r.id \in -MaxInt - 1 .. NoId
                /\ r.outbound \notin MetaTokens /\ r.source \notin MetaTokens
                /\ r.translation \notin MetaTokens
         /\ \/ request.ssh = NoSSH \/ SSHFault(request.ssh) \/ ToString(request.ssh) \in Port
<1>1. Legal(request)
  BY DEF EntriesInv
<1>2. /\ Sequence(request.rules)
      /\ \A k \in DOMAIN request.rules : request.rules[k].id \in -MaxInt - 1 .. NoId
      /\ \/ request.ssh = NoSSH \/ SSHFault(request.ssh) \/ ToString(request.ssh) \in Port
  BY <1>1 DEF Legal, Sequence
<1>3. Texts(request) \cap MetaTokens = {}
  BY <1>1 DEF Legal
<1>4. \A k \in DOMAIN request.rules : TextsOf(request.rules[k]) \subseteq Texts(request)
  BY DEF Texts
<1> QED BY <1>2, <1>3, <1>4 DEF TextsOf

\* The ports of a renderer: those of its maps and of the default map.
LEMMA PortsStep == EntriesInv /\ InterfacesInv /\ PortsTyped /\ [Next]_vars => PortsTyped'
<1> SUFFICES ASSUME EntriesInv, InterfacesInv, PortsTyped, [Next]_vars PROVE PortsTyped'
  OBVIOUS
<1>1. CASE UNCHANGED <<portMap, ethernets>>
  BY <1>1 DEF PortsTyped, Selectable
<1>2. CASE New /\ phase' = "input"
  <2>1. /\ portMap' = WithPortMap(request.portMaps) /\ ethernets' = ethernets
        /\ ~\E m \in Range(request.portMaps) : PortMapFault(m)
    BY <1>2 DEF New, Fail, found
  <2>2. ethernets = <<>>
    BY <1>2 DEF New, InterfacesInv, InterfacesInit
  <2> DEFINE maps == request.portMaps
             own == {"eth0", "eth1", "eth2"}
             after == own \cup (PortsOf(request) \ {""})
  <2>3. Sequence(maps)
    BY LegalPorts
  <2>4. Len(maps) \in Nat /\ DOMAIN maps = 1 .. Len(maps)
    BY <2>3, SequenceFacts
  <2>5. ASSUME NEW t \in DOMAIN portMap' PROVE portMap'[t] \subseteq after
    <3> DEFINE given == {k \in DOMAIN maps : t \in DOMAIN maps[k]}
    <3>1. CASE given = {}
      <4>1. portMap'[t] = defaultPortMap[t] /\ t \in DOMAIN defaultPortMap
        BY <2>1, <2>5, <3>1 DEF WithPortMap, Range
      <4>2. defaultPortMap[t] \subseteq own
        BY <4>1 DEF defaultPortMap
      <4> QED BY <4>1, <4>2
    <3>2. CASE given # {}
      <4>1. portMap'[t] = maps[Max(given)][t]
        BY <2>1, <2>5, <3>2 DEF WithPortMap
      <4>2. Max(given) \in given
        BY <2>4, <3>2, MaxIsGreatest
      <4> DEFINE m == Max(given)
      <4>3. m \in DOMAIN maps /\ t \in DOMAIN maps[m]
        BY <4>2
      <4> HIDE DEF m, given, maps
      <4>4. maps[m][t] \subseteq PortsOf(request)
        <5>1. maps[m][t] \in Range(maps[m])
          BY <4>3 DEF Range
        <5>2. UNION Range(maps[m]) \subseteq PortsOf(request)
          BY <4>3 DEF PortsOf, maps
        <5> QED BY <5>1, <5>2
      <4>5. "" \notin maps[m][t]
        <5>1. ~PortMapFault(maps[m])
          BY <2>1, <4>3, Zenon DEF Range, maps
        <5> QED BY <4>3, <5>1, Zenon DEF PortMapFault
      <4>6. portMap'[t] \subseteq PortsOf(request) \ {""}
        BY <4>1, <4>4, <4>5, Zenon DEF m
      <4> QED BY <4>6, Zenon
    <3> QED BY <3>1, <3>2
  <2> HIDE DEF after
  <2>6. Selectable' \subseteq after
    BY <2>5 DEF Selectable
  <2>7. IsFiniteSet(after)
    <3>1. IsFiniteSet(PortsOf(request) \ {""})
      BY LegalPorts, FS_Subset, Zenon
    <3>2. IsFiniteSet(own)
      <4>1. IsFiniteSet({"eth0"}) /\ IsFiniteSet({"eth1"}) /\ IsFiniteSet({"eth2"})
        BY FS_Singleton
      <4>2. own = ({"eth0"} \cup {"eth1"}) \cup {"eth2"}
        OBVIOUS
      <4>3. IsFiniteSet({"eth0"} \cup {"eth1"})
        BY <4>1, FS_Union
      <4> QED BY <4>1, <4>2, <4>3, FS_Union, ZenonT(30)
    <3> HIDE DEF own
    <3> QED BY <3>1, <3>2, FS_Union, Zenon DEF after
  <2>8. \A p \in after : PortTyped(p)
    <3>1. \A p \in own : p \notin MetaTokens
      BY WordsPlain DEF Words
    <3>2. \A p \in own : p # ""
      OBVIOUS
    <3> HIDE DEF own
    <3> QED BY <3>1, <3>2, LegalPorts, Zenon DEF after, PortTyped
  <2>9. DOMAIN ethernets' \subseteq Selectable'
    BY <2>1, <2>2
  <2> QED BY <2>6, <2>7, <2>8, <2>9, FS_Subset DEF PortsTyped
<1>3. ASSUME NEW e, NEW priority, ethernets' = Described(e, priority), portMap' = portMap
      PROVE  PortsTyped'
  <2>1. Ports(e) \subseteq Selectable
    BY DEF Ports, Selectable
  <2>2. DOMAIN ethernets' \subseteq DOMAIN ethernets \cup Ports(e)
    BY <1>3 DEF Described
  <2> QED BY <1>3, <2>1, <2>2 DEF PortsTyped, Selectable
<1>4. CASE InterfacesNext
  <2>1. ASSUME NEW e, RejectEntry(e) \/ IgnoreEntry(e) PROVE PortsTyped'
    BY <1>1, <2>1 DEF RejectEntry, IgnoreEntry, Fail, Advance, found
  <2>2. ASSUME NEW e, VLANEntry(e) \/ UpstreamEntry(e) \/ DownstreamEntry(e) PROVE PortsTyped'
    BY <1>3, <2>2 DEF VLANEntry, UpstreamEntry, DownstreamEntry, Advance
  <2>3. CASE MergeVLANs
    BY <1>1, <2>3 DEF MergeVLANs, Fail, found
  <2> QED BY <1>4, <2>1, <2>2, <2>3 DEF InterfacesNext
<1>5. CASE New /\ phase' # "input"
  BY <1>1, <1>5 DEF New, Fail, found
<1>6. CASE ValidateRequest \/ normalizeNAT \/ normalizeServices \/ RenderTemplates
  BY <1>1, <1>6 DEF ValidateRequest, normalizeNAT, normalizeServices, RenderTemplates, Fail, found
<1>7. CASE Done \/ UNCHANGED vars
  BY <1>1, <1>7 DEF Done, vars, interfaceVars, found
<1> QED BY <1>2, <1>4, <1>5, <1>6, <1>7 DEF Next

\* What a merge that does not fail has chosen.
LEMMA MergeChoices ==
  ASSUME EntriesInv, Found, MergeVLANs, phase' # "failed"
  PROVE  AllRead /\ \E vifs, p : Merging(vifs, p)
<1>1. ~(pending # <<>> /\ firstDown = 0)
  BY DEF MergeVLANs, Fail
<1>2. AllRead
  BY DEF MergeVLANs, AllRead
<1>3. PICK vifs \in Sortings(pending, VLANBefore) :
        bridges' \in Sortings(WithVLANs(vifs), BridgeBefore)
  BY <1>1 DEF MergeVLANs
<1>4. /\ UNCHANGED <<portMap, entries, i, firstDown, pending, ethernets, lans, err>>
      /\ phase' = "nat"
  BY <1>1 DEF MergeVLANs
<1>5. DOMAIN WithVLANs(vifs) = DOMAIN bridges
  BY <1>1, <1>2, Attached
<1>6. PICK p \in Bijection(DOMAIN bridges, DOMAIN bridges) :
        /\ \A j, k \in DOMAIN bridges :
             j < k => ~BridgeBefore(WithVLANs(vifs)[p[k]], WithVLANs(vifs)[p[j]])
        /\ bridges' = [k \in DOMAIN bridges |-> WithVLANs(vifs)[p[k]]]
  BY <1>3, <1>5 DEF Sortings
<1>7. Merging(vifs, p)
  BY <1>1, <1>3, <1>4, <1>6 DEF Merging, BridgeBefore
<1> QED BY <1>2, <1>7

\* The bridges and the VLANs are made of entries.
LEMMA BasesStep == EntriesInv /\ InterfacesInv /\ BasesTyped /\ [Next]_vars => BasesTyped'
<1> SUFFICES ASSUME EntriesInv, InterfacesInv, BasesTyped, [Next]_vars PROVE BasesTyped'
  OBVIOUS
<1>1. CASE UNCHANGED <<portMap, bridges, pending>>
  BY <1>1 DEF BasesTyped, Selectable, VLANTyped
<1>2. CASE bridges' = <<>> /\ pending' = <<>>
  <2>1. Sequence(<<>>) /\ Range(<<>>) = {}
    BY DEF Sequence, Range
  <2>2. Sequence(bridges') /\ Range(bridges') = {} /\ Range(pending') = {}
    BY <1>2, <2>1
  <2> QED BY <2>2 DEF BasesTyped
<1>3. CASE New
  <2>1. bridges = <<>> /\ pending = <<>>
    BY <1>3 DEF New, InterfacesInv, InterfacesInit
  <2> QED BY <1>2, <1>3, <2>1 DEF New, Fail, found
<1>4. ASSUME NEW e, Entry(e)
      PROVE  /\ Ports(e) \subseteq Selectable /\ AddressOf(e) \notin MetaTokens
             /\ e.subnet \notin MetaTokens /\ e.vlan \in 0 .. MaxInt /\ Sequence(pending)
  <2>1. i \in DOMAIN entries /\ e = entries[i] /\ Found
    BY <1>4, LegalEntries DEF Entry, EntriesInv, InterfacesInv
  <2>2. e.subnet \notin MetaTokens /\ e.vlan \in 0 .. MaxInt
    BY <2>1, LegalEntries
  <2>3. "dhcp" \notin MetaTokens
    BY WordsPlain DEF Words
  <2> QED BY <2>1, <2>2, <2>3 DEF Ports, Selectable, AddressOf, Found, VLANsFound
<1>5. ASSUME NEW e, Entry(e), NEW number, bridges' = Append(bridges, Bridge(e, number)),
             UNCHANGED <<portMap, pending>>
      PROVE  BasesTyped'
  <2> DEFINE b == Bridge(e, number)
  <2>1. /\ b.members \subseteq Selectable /\ b.address \notin MetaTokens
        /\ b.vifs = <<>>
    BY <1>4, <1>5 DEF Bridge
  <2>2. Sequence(<<>>) /\ Range(<<>>) = {}
    BY DEF Sequence, Range
  <2> HIDE DEF b
  <2>3. Sequence(bridges') /\ Range(bridges') = Range(bridges) \cup {b}
    BY <1>5, AppendOne DEF BasesTyped, b
  <2> QED BY <1>5, <2>1, <2>2, <2>3 DEF BasesTyped, Selectable, VLANTyped
<1>6. ASSUME NEW e, VLANEntry(e)
      PROVE  BasesTyped'
  <2> DEFINE v == [id |-> e.vlan, address |-> e.subnet, name |-> e.name, members |-> Ports(e)]
  <2>1. /\ Entry(e) /\ IsVLAN(e) /\ pending' = Append(pending, v)
        /\ UNCHANGED <<portMap, bridges>>
    BY <1>6 DEF VLANEntry, Advance
  <2>2. v.id = e.vlan /\ v.address = e.subnet /\ v.members = Ports(e)
    OBVIOUS
  <2> HIDE DEF v
  <2>3. v.members \subseteq Selectable /\ v.address \notin MetaTokens /\ v.id \in Nat
        /\ ToString(v.id) \notin MetaTokens
    <3>1. e.vlan \in 1 .. MaxInt
      BY <1>4, <2>1, ServicesAssumption DEF IsVLAN
    <3>2. ToString(e.vlan) \notin MetaTokens
      BY <3>1, NumbersPlain
    <3> QED BY <1>4, <2>1, <2>2, <3>1, <3>2
  <2>4. Range(pending') = Range(pending) \cup {v}
    BY <1>4, <2>1, AppendOne
  <2> QED BY <2>1, <2>3, <2>4 DEF BasesTyped, Selectable, VLANTyped, VIFTyped
<1>7. ASSUME MergeVLANs, phase' # "failed"
      PROVE  BasesTyped'
  <2>1. Found
    BY <1>7 DEF MergeVLANs, InterfacesInv
  <2>2. PICK vifs, p : AllRead /\ Merging(vifs, p)
    BY <1>7, <2>1, MergeChoices
  <2>3. /\ Sequence(bridges') /\ DOMAIN bridges' = DOMAIN bridges
        /\ \A k \in DOMAIN bridges :
             p[k] \in DOMAIN bridges /\ bridges'[k] = WithVLANs(vifs)[p[k]]
    BY <2>2, BridgesSorted
  <2>4. Sequence(vifs) /\ Range(vifs) = Range(pending)
    BY <2>2, VIFs DEF Merging
  <2>5. portMap' = portMap /\ pending' = pending
    BY <2>2 DEF Merging
  <2>6. ASSUME NEW k \in DOMAIN bridges
        PROVE  LET b == WithVLANs(vifs)[k] IN
                 /\ b.members \subseteq Selectable /\ b.address \notin MetaTokens
                 /\ Sequence(b.vifs) /\ \A v \in Range(b.vifs) : VIFTyped(v) /\ v.id \in Nat
    <3> DEFINE b == WithVLANs(vifs)[k]
    <3>1. /\ b.address = bridges[k].address
          /\ b.members \subseteq bridges[k].members \cup UNION {pending[j].members : j \in DOMAIN pending}
          /\ b.vifs = <<>> \/ b.vifs = vifs
      BY <2>2, Attached DEF Merging
    <3> HIDE DEF b
    <3>2. bridges[k].address \notin MetaTokens /\ bridges[k].members \subseteq Selectable
      BY DEF BasesTyped, Range
    <3>3. \A j \in DOMAIN pending : pending[j].members \subseteq Selectable
      BY DEF BasesTyped, VLANTyped, Range
    <3>4. \A v \in Range(vifs) : VIFTyped(v) /\ v.id \in Nat
      BY <2>4 DEF BasesTyped, VLANTyped
    <3>5. Sequence(<<>>) /\ Range(<<>>) = {}
      BY DEF Sequence, Range
    <3>6. Sequence(b.vifs) /\ \A v \in Range(b.vifs) : VIFTyped(v) /\ v.id \in Nat
      BY <2>4, <3>1, <3>4, <3>5
    <3> QED BY <3>1, <3>2, <3>3, <3>6 DEF b
  <2>7. \A b \in Range(bridges') :
          /\ b.members \subseteq Selectable /\ b.address \notin MetaTokens
          /\ Sequence(b.vifs) /\ \A v \in Range(b.vifs) : VIFTyped(v) /\ v.id \in Nat
    BY <2>3, <2>6 DEF Range
  <2> QED BY <2>3, <2>5, <2>7 DEF BasesTyped, Selectable, VLANTyped
<1>8. CASE InterfacesNext
  <2>1. ASSUME NEW e, RejectEntry(e) \/ IgnoreEntry(e) PROVE BasesTyped'
    BY <1>1, <2>1 DEF RejectEntry, IgnoreEntry, Fail, Advance, found
  <2>2. ASSUME NEW e, UpstreamEntry(e) PROVE BasesTyped'
    BY <1>5, <2>2 DEF UpstreamEntry, Advance
  <2>3. ASSUME NEW e, DownstreamEntry(e) PROVE BasesTyped'
    BY <1>5, <2>3 DEF DownstreamEntry, Advance
  <2>4. CASE MergeVLANs /\ phase' = "failed"
    BY <1>1, <2>4 DEF MergeVLANs, Fail, found
  <2> QED BY <1>6, <1>7, <1>8, <2>1, <2>2, <2>3, <2>4 DEF InterfacesNext
<1>9. CASE ValidateRequest \/ normalizeNAT \/ normalizeServices \/ RenderTemplates
  BY <1>1, <1>9 DEF ValidateRequest, normalizeNAT, normalizeServices, RenderTemplates, Fail, found
<1>10. CASE Done \/ UNCHANGED vars
  BY <1>1, <1>10 DEF Done, vars, interfaceVars, found
<1> QED BY <1>3, <1>8, <1>9, <1>10 DEF Next

\* The NAT rules are those of the request, in another order.
LEMMA NATStep == EntriesInv /\ NATInv /\ [Next]_vars => NATInv'
<1> SUFFICES ASSUME EntriesInv, NATInv, [Next]_vars PROVE NATInv'
  OBVIOUS
<1>1. CASE UNCHANGED natRules
  BY <1>1 DEF NATInv
<1>2. CASE normalizeNAT /\ ~NATFault(request.rules)
  <2> DEFINE rules == request.rules
  <2>1. natRules' \in Sortings(rules, RuleBefore)
    BY <1>2 DEF normalizeNAT
  <2>2. PICK q \in Bijection(DOMAIN rules, DOMAIN rules) :
          natRules' = [k \in DOMAIN rules |-> rules[q[k]]]
    BY <2>1 DEF Sortings
  <2>3. Sequence(rules)
    BY LegalRules
  <2>4. Sequence(natRules') /\ Range(natRules') = Range(rules)
    <3> HIDE DEF rules
    <3> QED BY <2>2, <2>3, Permuted
  <2>5. \A k \in DOMAIN rules : RuleTyped(rules[k])
    <3> TAKE k \in DOMAIN rules
    <3> DEFINE r == rules[k]
    <3>1. r.id # NoId
      BY <1>2 DEF NATFault, RuleFault
    <3>2. /\ r.id \in -MaxInt - 1 .. NoId
          /\ r.outbound \notin MetaTokens /\ r.source \notin MetaTokens
          /\ r.translation \notin MetaTokens
      BY LegalRules
    <3> HIDE DEF r
    <3>3. r.id \in -MaxInt - 1 .. MaxInt
      BY <3>1, <3>2, ServicesAssumption DEF NoId
    <3>4. ToString(r.id) \notin MetaTokens
      BY <3>3, NumbersPlain
    <3> QED BY <3>2, <3>4 DEF RuleTyped, r
  <2>6. \A r \in Range(natRules') : RuleTyped(r)
    BY <2>4, <2>5 DEF Range
  <2> QED BY <2>4, <2>6 DEF NATInv
<1>3. ~(normalizeNAT /\ ~NATFault(request.rules)) => UNCHANGED natRules
  BY DEF Next, New, ValidateRequest, normalizeNAT, normalizeServices, RenderTemplates, Done, vars
<1> QED BY <1>1, <1>2, <1>3

\* A remainder is at most what is divided.
LEMMA RemainderBelow == ASSUME NEW a \in Nat, NEW b \in Nat \ {0} PROVE a % b <= a
<1>1. a % b \in 0 .. b - 1
  OBVIOUS
<1>2. CASE a < b
  BY <1>2
<1>3. CASE a >= b
  BY <1>1, <1>3
<1> QED BY <1>2, <1>3

\* Wrapped numbers are ints.
LEMMA WrappedIsInt == ASSUME NEW n \in Int PROVE Wrapped(n) \in Int /\ Wrapped(n) <= MaxInt
<1>1. MaxInt \in Nat /\ 2 * MaxInt + 2 \in Nat \ {0}
  BY ServicesAssumption
<1>2. (n + MaxInt + 1) % (2 * MaxInt + 2) \in 0 .. 2 * MaxInt + 1
  BY <1>1
<1> QED BY <1>1, <1>2 DEF Wrapped

\* Every unit has a multiplier.
LEMMA MultipliersInt == \A u \in DOMAIN Multiplier : Multiplier[u] \in Int
BY DEF Multiplier

\* A service of an input without fault can be rendered.
LEMMA ServiceTyped ==
  ASSUME NEW input, ~LANFault(input), input.first \in Int, input.count \in Int,
         input.vlan \in 0 .. MaxInt, input.index \in Nat, input.index + 4051 <= MaxInt,
         input.lease.base \in Int, input.lease.unit \in DOMAIN Multiplier
  PROVE  LET lan == ServiceLAN(input) IN
           /\ LANTyped(lan) /\ lan.vlan = input.vlan
           /\ input.subnet \in DOMAIN SubnetPrefix
           /\ SubnetPrefix[input.subnet] = [ip |-> lan.router, size |-> lan.last - lan.net + 1]
<1> DEFINE lan == ServiceLAN(input)
           prefix == SubnetPrefix[input.subnet]
<1>1. /\ input.name \in TokenNames /\ input.subnet \in DOMAIN SubnetPrefix
      /\ ~LeaseFault(input.lease) /\ ~RangeFault(lan) /\ input.count >= 1
  BY DEF LANFault
<1>2. prefix \in [ip : 0 .. Top, size : Nat \ {0}] /\ Top \in Nat /\ MaxInt \in Nat
  BY <1>1, ServicesAssumption
<1>3. prefix.ip \in 0 .. Top /\ prefix.ip \in Nat /\ prefix.size \in Nat \ {0}
      /\ prefix = [ip |-> prefix.ip, size |-> prefix.size]
  BY <1>2
<1>4. /\ lan.router = prefix.ip /\ lan.net = Network(prefix) /\ lan.last = lan.net + prefix.size - 1
      /\ lan.start = lan.net + input.first /\ lan.stop = lan.net + input.first + input.count - 1
      /\ lan.lease = LeaseSecs(input.lease) /\ lan.subnetID = SubnetID(input)
      /\ lan.name = input.name /\ lan.vlan = input.vlan
  BY DEF ServiceLAN
<1> HIDE DEF lan
<1>5. lan.net \in Int /\ lan.net >= 0
  <2>1. prefix.ip % prefix.size \in 0 .. prefix.size - 1 /\ prefix.ip % prefix.size <= prefix.ip
    BY <1>3, RemainderBelow
  <2> HIDE DEF prefix
  <2>2. Network(prefix) = prefix.ip - (prefix.ip % prefix.size)
    BY DEF Network
  <2> QED BY <1>3, <1>4, <2>1, <2>2
<1> HIDE DEF prefix
<1>6. lan.last - lan.net + 1 = prefix.size
  BY <1>3, <1>4, <1>5
<1>7. Subnet(lan.net, lan.last) \in Ipv4Prefix
  <2>1. prefix \in Range(SubnetPrefix)
    BY <1>1 DEF Range, prefix
  <2>2. \A p \in Range(SubnetPrefix) :
          Subnet(Network(p), Network(p) + p.size - 1) \in Ipv4Prefix
    BY ValuesAssumption
  <2>3. Subnet(Network(prefix), Network(prefix) + prefix.size - 1) \in Ipv4Prefix
    BY <2>1, <2>2
  <2> QED BY <1>4, <2>3
<1>8. lan.start \in 0 .. Top /\ lan.stop \in 0 .. Top
  <2>1. lan.start \in Int /\ lan.stop \in Int /\ lan.start <= lan.stop
    BY <1>1, <1>4, <1>5
  <2>2. ~(lan.stop > Top) /\ InSubnet(lan, lan.start)
    BY <1>1 DEF RangeFault
  <2>3. lan.net <= lan.start
    BY <2>2 DEF InSubnet
  <2> QED BY <1>2, <1>5, <2>1, <2>2, <2>3
<1>9. lan.lease \in 1 .. MaxInt
  <2> DEFINE n == input.lease.base * Multiplier[input.lease.unit]
  <2>1. n \in Int
    <3>1. Multiplier[input.lease.unit] \in Int
      BY MultipliersInt
    <3> QED BY <3>1
  <2>2. lan.lease = Wrapped(n)
    BY <1>4 DEF LeaseSecs
  <2>3. ~(lan.lease < 1)
    BY <1>1, <1>4 DEF LeaseFault
  <2> HIDE DEF n
  <2> QED BY <1>2, <2>1, <2>2, <2>3, WrappedIsInt
<1>10. lan.subnetID \in 1 .. MaxInt
  BY <1>2, <1>4 DEF SubnetID
<1>11. LANTyped(lan)
  BY <1>1, <1>3, <1>4, <1>7, <1>8, <1>9, <1>10 DEF LANTyped
<1> QED BY <1>1, <1>3, <1>4, <1>6, <1>11 DEF lan, prefix

\* A service is that of a downstream static interface.
OfEntry(lan) ==
  \E k \in Served :
    /\ entries[k].subnet \in DOMAIN SubnetPrefix
    /\ SubnetPrefix[entries[k].subnet] = [ip |-> lan.router, size |-> lan.last - lan.net + 1]
    /\ lan.vlan = entries[k].vlan
ServedInv ==
  phase \in {"templates", "rendered"} =>
    /\ IsFiniteSet(services)
    /\ \A lan \in services : LANTyped(lan) /\ OfEntry(lan)
    /\ request.ssh = NoSSH \/ ToString(request.ssh) \in Port

\* The inputs are entries with their values.
LEMMA InputsLegal ==
  ASSUME EntriesInv, NEW input \in ServiceInputs
  PROVE  \E k \in Range(lans) :
           /\ input.first \in Int /\ input.count \in Int /\ input.vlan \in 0 .. MaxInt
           /\ input.index \in Nat /\ input.index + 4051 <= MaxInt
           /\ input.lease.base \in Int /\ input.lease.unit \in DOMAIN Multiplier
           /\ input.subnet = entries[k].subnet /\ input.vlan = entries[k].vlan
<1>1. PICK k \in Range(lans) :
        input = [index |-> k - 1, name |-> entries[k].name, subnet |-> entries[k].subnet,
                 vlan |-> entries[k].vlan, lease |-> entries[k].dhcp.lease,
                 first |-> entries[k].dhcp.first, count |-> entries[k].dhcp.count]
  BY DEF ServiceInputs
<1>2. k \in DOMAIN entries
  BY DEF EntriesInv, Range
<1>3. /\ entries[k].dhcp.first \in Int /\ entries[k].dhcp.count \in Int
  BY <1>2 DEF EntriesInv
<1>4. /\ entries[k].dhcp.lease.base \in Int /\ entries[k].dhcp.lease.unit \in DOMAIN Multiplier
      /\ entries[k].vlan \in 0 .. MaxInt
      /\ k \in 1 .. Len(entries) /\ Len(entries) \in Nat
      /\ Len(entries) + 4051 <= MaxInt /\ MaxInt \in Nat
  BY <1>2, LegalEntries
<1>5. k - 1 \in Nat /\ (k - 1) + 4051 <= MaxInt
  BY <1>4
<1> QED BY <1>1, <1>3, <1>4, <1>5

\* Finitely many entries make finitely many services.
LEMMA ServicesFinite ==
  ASSUME Sequence(lans)
  PROVE  IsFiniteSet({ServiceLAN(input) : input \in ServiceInputs})
<1> DEFINE In(k) == [index |-> k - 1, name |-> entries[k].name, subnet |-> entries[k].subnet,
                     vlan |-> entries[k].vlan, lease |-> entries[k].dhcp.lease,
                     first |-> entries[k].dhcp.first, count |-> entries[k].dhcp.count]
           S == {ServiceLAN(input) : input \in ServiceInputs}
           f == [j \in DOMAIN lans |-> ServiceLAN(In(lans[j]))]
<1>1. ServiceInputs = {In(k) : k \in Range(lans)}
  BY DEF ServiceInputs
<1> HIDE DEF In
<1>2. S = {ServiceLAN(In(k)) : k \in Range(lans)}
  BY <1>1
<1>3. f \in Surjection(DOMAIN lans, S)
  <2>1. f \in [DOMAIN lans -> S]
    BY <1>2 DEF Range
  <2>2. \A x \in S : \E j \in DOMAIN lans : f[j] = x
    BY <1>2 DEF Range
  <2> HIDE DEF f, S
  <2> QED BY <2>1, <2>2 DEF Surjection
<1>4. IsFiniteSet(DOMAIN lans)
  BY SequenceFacts, FS_Interval
<1> HIDE DEF f, S
<1>5. IsFiniteSet(S)
  BY <1>3, <1>4, FS_Surjection
<1> QED BY <1>5 DEF S

\* Services are made once, of inputs without fault.
LEMMA ServicesTypedStep == EntriesInv /\ InterfacesInv /\ ServedInv /\ [Next]_vars => ServedInv'
<1> SUFFICES ASSUME EntriesInv, InterfacesInv, ServedInv, [Next]_vars,
                    phase' \in {"templates", "rendered"}
             PROVE  /\ IsFiniteSet(services')
                    /\ \A lan \in services' : LANTyped(lan) /\ OfEntry(lan)'
                    /\ request'.ssh = NoSSH \/ ToString(request'.ssh) \in Port
  BY DEF ServedInv, LANTyped
<1>1. CASE UNCHANGED <<services, request, entries>> /\ phase \in {"templates", "rendered"}
  BY <1>1 DEF ServedInv, OfEntry, Served
<1>2. CASE normalizeServices
  <2>1. /\ ~SSHFault(request.ssh) /\ ~LANsFault(ServiceInputs)
        /\ services' = {ServiceLAN(input) : input \in ServiceInputs}
        /\ UNCHANGED <<entries, request>> /\ phase = "services"
    BY <1>2 DEF normalizeServices, Fail
  <2>2. request.ssh = NoSSH \/ ToString(request.ssh) \in Port
    BY <2>1, LegalRules
  <2>3. Range(lans) = Served
    BY <2>1 DEF InterfacesInv, ServicesFollowPayload, Normalized
  <2>4. IsFiniteSet(services')
    <3>1. Sequence(lans)
      BY SequenceOfAny DEF EntriesInv
    <3> QED BY <2>1, <3>1, ServicesFinite
  <2>5. ASSUME NEW input \in ServiceInputs
        PROVE  LANTyped(ServiceLAN(input)) /\ OfEntry(ServiceLAN(input))
    <3>1. ~LANFault(input)
      BY <2>1 DEF LANsFault
    <3>2. PICK k \in Range(lans) :
             /\ input.first \in Int /\ input.count \in Int /\ input.vlan \in 0 .. MaxInt
             /\ input.index \in Nat /\ input.index + 4051 <= MaxInt
             /\ input.lease.base \in Int /\ input.lease.unit \in DOMAIN Multiplier
             /\ input.subnet = entries[k].subnet /\ input.vlan = entries[k].vlan
      BY InputsLegal
    <3> DEFINE lan == ServiceLAN(input)
    <3>3. /\ LANTyped(lan) /\ lan.vlan = input.vlan
          /\ input.subnet \in DOMAIN SubnetPrefix
          /\ SubnetPrefix[input.subnet] = [ip |-> lan.router, size |-> lan.last - lan.net + 1]
      BY <3>1, <3>2, ServiceTyped
    <3> HIDE DEF lan
    <3>4. OfEntry(lan)
      BY <2>3, <3>2, <3>3 DEF OfEntry
    <3> QED BY <3>3, <3>4 DEF lan
  <2>6. \A lan \in services' : LANTyped(lan) /\ OfEntry(lan)
    BY <2>1, <2>5
  <2>7. \A lan : OfEntry(lan)' <=> OfEntry(lan)
    BY <2>1 DEF OfEntry, Served
  <2> QED BY <2>1, <2>2, <2>4, <2>6, <2>7
<1>3. CASE New \/ ValidateRequest \/ normalizeNAT
  BY <1>3 DEF New, ValidateRequest, normalizeNAT, Fail
<1>4. CASE InterfacesNext
  BY <1>4 DEF InterfacesNext, RejectEntry, IgnoreEntry, VLANEntry, UpstreamEntry, DownstreamEntry,
       Entry, Advance, MergeVLANs, Fail
<1>5. CASE RenderTemplates \/ Done \/ UNCHANGED vars
  BY <1>1, <1>5 DEF RenderTemplates, Done, vars, interfaceVars, Fail
<1> QED BY <1>2, <1>3, <1>4, <1>5 DEF Next

-----------------------------------------------------------------------------
\* The sections that are rendered.

RenderTyped ==
  /\ Sequence(bridges) /\ \A b \in Range(bridges) : BridgeTyped(b)
  /\ IsFiniteSet(DOMAIN ethernets) /\ \A p \in DOMAIN ethernets : PortTyped(p)
  /\ NATInv
  /\ request.ssh = NoSSH \/ ToString(request.ssh) \in Port

\* The commands of all bridges.
LEMMA BridgesFine ==
  ASSUME RenderTyped
  PROVE  LET section == FlattenSeq([k \in DOMAIN bridges |-> BridgeCommands(bridges[k])]) IN
           /\ FineCommands(section)
           /\ \A b \in Range(bridges) : Range(BridgeCommands(b)) \subseteq Range(section)
           /\ \A c \in Range(section) : \E b \in Range(bridges) : c \in Range(BridgeCommands(b))
<1> DEFINE ss == [k \in DOMAIN bridges |-> BridgeCommands(bridges[k])]
<1>1. Sequence(bridges)
  BY DEF RenderTyped
<1>2. Len(bridges) \in Nat /\ DOMAIN bridges = 1 .. Len(bridges)
  BY <1>1, SequenceFacts
<1>3. DOMAIN ss = 1 .. Len(bridges) /\ ss = [k \in 1 .. Len(bridges) |-> ss[k]]
  BY <1>2
<1>4. \A k \in DOMAIN bridges : ss[k] = BridgeCommands(bridges[k]) /\ BridgeTyped(bridges[k])
  BY DEF RenderTyped, Range
<1> HIDE DEF ss
<1>5. Sequence(ss)
  BY <1>2, <1>3, Listed
<1>6. \A k \in DOMAIN ss : FineCommands(ss[k])
  BY <1>2, <1>3, <1>4, BridgeCommandsFine
<1>7. /\ FineCommands(FlattenSeq(ss))
      /\ Range(FlattenSeq(ss)) = UNION {Range(ss[k]) : k \in DOMAIN ss}
  BY <1>5, <1>6, FineCommandsFlattened
<1>8. \A b \in Range(bridges) : Range(BridgeCommands(b)) \subseteq Range(FlattenSeq(ss))
  <2> SUFFICES ASSUME NEW k \in DOMAIN bridges
               PROVE  Range(BridgeCommands(bridges[k])) \subseteq Range(FlattenSeq(ss))
    BY DEF Range
  <2>1. ss[k] = BridgeCommands(bridges[k]) /\ k \in DOMAIN ss
    BY <1>2, <1>3, <1>4
  <2> QED BY <1>7, <2>1
<1>9. \A c \in Range(FlattenSeq(ss)) : \E b \in Range(bridges) : c \in Range(BridgeCommands(b))
  <2> TAKE c \in Range(FlattenSeq(ss))
  <2>1. PICK k \in DOMAIN ss : c \in Range(ss[k])
    BY <1>7
  <2>2. k \in DOMAIN bridges /\ ss[k] = BridgeCommands(bridges[k])
    BY <1>2, <1>3, <1>4
  <2>3. bridges[k] \in Range(bridges)
    BY <2>2 DEF Range
  <2> QED BY <2>1, <2>2, <2>3
<1> QED BY <1>7, <1>8, <1>9 DEF ss

\* The descriptions of all ports.
LEMMA EthernetsFine ==
  ASSUME RenderTyped
  PROVE  LET ports == SetToSeq(DOMAIN ethernets)
         IN FineCommands([k \in DOMAIN ports |-> EthernetCommand(ports[k])])
<1> DEFINE ports == SetToSeq(DOMAIN ethernets)
           cs == [k \in DOMAIN ports |-> EthernetCommand(ports[k])]
<1>1. Sequence(ports) /\ Range(ports) = DOMAIN ethernets
  BY SequenceOfSet DEF RenderTyped
<1> HIDE DEF ports
<1>2. Len(ports) \in Nat /\ DOMAIN ports = 1 .. Len(ports)
  BY <1>1, SequenceFacts
<1>3. DOMAIN cs = 1 .. Len(ports) /\ cs = [k \in 1 .. Len(ports) |-> cs[k]]
  BY <1>2
<1>4. \A k \in DOMAIN ports : PortTyped(ports[k])
  BY <1>1 DEF RenderTyped, Range
<1>5. \A k \in DOMAIN cs : Fine(cs[k])
  BY <1>4, EthernetCommandFine
<1> HIDE DEF cs
<1>6. Sequence(cs)
  BY <1>2, <1>3, Listed
<1>7. FineCommands(cs)
  BY <1>5, <1>6 DEF FineCommands, Range
<1> QED BY <1>7 DEF cs, ports

\* The DHCP servers of all services.
LEMMA DHCPFine ==
  ASSUME NEW served, Sequence(served), \A k \in DOMAIN served : LANTyped(served[k])
  PROVE  LET section == FlattenSeq([k \in DOMAIN served |-> DHCPCommands(served[k])]) IN
           /\ FineCommands(section)
           /\ \A lan \in Range(served) : Range(DHCPCommands(lan)) \subseteq Range(section)
<1> DEFINE ss == [k \in DOMAIN served |-> DHCPCommands(served[k])]
<1>1. Len(served) \in Nat /\ DOMAIN served = 1 .. Len(served)
  BY SequenceFacts
<1>2. DOMAIN ss = 1 .. Len(served) /\ ss = [k \in 1 .. Len(served) |-> ss[k]]
  BY <1>1
<1>3. \A k \in DOMAIN ss : FineCommands(ss[k])
  BY DHCPCommandsFine
<1>4. \A lan \in Range(served) : \E k \in DOMAIN ss : ss[k] = DHCPCommands(lan)
  BY DEF Range
<1> HIDE DEF ss
<1>5. Sequence(ss)
  BY <1>1, <1>2, Listed
<1>6. /\ FineCommands(FlattenSeq(ss))
      /\ Range(FlattenSeq(ss)) = UNION {Range(ss[k]) : k \in DOMAIN ss}
  BY <1>3, <1>5, FineCommandsFlattened
<1>7. \A lan \in Range(served) : Range(DHCPCommands(lan)) \subseteq Range(FlattenSeq(ss))
  <2> TAKE lan \in Range(served)
  <2>1. PICK k \in DOMAIN ss : ss[k] = DHCPCommands(lan)
    BY <1>4
  <2> QED BY <1>6, <2>1
<1> QED BY <1>6, <1>7 DEF ss

\* The NAT rules.
LEMMA RulesFine ==
  ASSUME RenderTyped
  PROVE  LET section == FlattenSeq([k \in DOMAIN natRules |-> NATCommands(natRules[k])]) IN
           /\ FineCommands(section)
           /\ \A rule \in Range(natRules) : Range(NATCommands(rule)) \subseteq Range(section)
<1> DEFINE ss == [k \in DOMAIN natRules |-> NATCommands(natRules[k])]
<1>1. Sequence(natRules) /\ \A k \in DOMAIN natRules : RuleTyped(natRules[k])
  BY DEF RenderTyped, NATInv, Range
<1>2. Len(natRules) \in Nat /\ DOMAIN natRules = 1 .. Len(natRules)
  BY <1>1, SequenceFacts
<1>3. DOMAIN ss = 1 .. Len(natRules) /\ ss = [k \in 1 .. Len(natRules) |-> ss[k]]
  BY <1>2
<1>4. \A k \in DOMAIN ss : FineCommands(ss[k])
  BY <1>1, NATCommandsFine
<1>5. \A rule \in Range(natRules) : \E k \in DOMAIN ss : ss[k] = NATCommands(rule)
  BY DEF Range
<1> HIDE DEF ss
<1>6. Sequence(ss)
  BY <1>2, <1>3, Listed
<1>7. /\ FineCommands(FlattenSeq(ss))
      /\ Range(FlattenSeq(ss)) = UNION {Range(ss[k]) : k \in DOMAIN ss}
  BY <1>4, <1>6, FineCommandsFlattened
<1>8. \A rule \in Range(natRules) : Range(NATCommands(rule)) \subseteq Range(FlattenSeq(ss))
  <2> TAKE rule \in Range(natRules)
  <2>1. PICK k \in DOMAIN ss : ss[k] = NATCommands(rule)
    BY <1>5
  <2> QED BY <1>7, <2>1
<1> QED BY <1>7, <1>8 DEF ss

\* The SSH service, where there is one.
LEMMA SSHFine ==
  ASSUME RenderTyped
  PROVE  FineCommands(IF request.ssh = NoSSH THEN <<>>
                      ELSE << <<"set", "service", "ssh", "port", ToString(request.ssh)>> >>)
<1> DEFINE c == <<"set", "service", "ssh", "port", ToString(request.ssh)>>
<1>1. request.ssh # NoSSH => Fine(c)
  BY SSHCommandFine DEF RenderTyped
<1> HIDE DEF c
<1>2. Sequence(<<>>) /\ Range(<<>>) = {} /\ Sequence(<<c>>) /\ Range(<<c>>) = {c}
  BY DEF Sequence, Range
<1>3. FineCommands(<<>>) /\ (request.ssh # NoSSH => FineCommands(<<c>>))
  BY <1>1, <1>2 DEF FineCommands
<1> QED BY <1>3 DEF c

\* All sections, each of them whole.
LEMMA SectionsFine ==
  ASSUME RenderTyped, NEW served, Sequence(served), \A k \in DOMAIN served : LANTyped(served[k])
  PROVE  /\ FineCommands(Sections(served))
         /\ \A b \in Range(bridges) : Range(BridgeCommands(b)) \subseteq Range(Sections(served))
         /\ Range(DNSCommands(served)) \subseteq Range(Sections(served))
         /\ \A lan \in Range(served) : Range(DHCPCommands(lan)) \subseteq Range(Sections(served))
         /\ \A rule \in Range(natRules) : Range(NATCommands(rule)) \subseteq Range(Sections(served))
<1> DEFINE ports == SetToSeq(DOMAIN ethernets)
           s1 == FlattenSeq([k \in DOMAIN bridges |-> BridgeCommands(bridges[k])])
           s2 == [k \in DOMAIN ports |-> EthernetCommand(ports[k])]
           s3 == FlattenSeq([k \in DOMAIN served |-> DHCPCommands(served[k])])
           s4 == DNSCommands(served)
           s5 == IF request.ssh = NoSSH THEN <<>>
                 ELSE << <<"set", "service", "ssh", "port", ToString(request.ssh)>> >>
           s6 == FlattenSeq([k \in DOMAIN natRules |-> NATCommands(natRules[k])])
<1>1. /\ FineCommands(s1)
      /\ \A b \in Range(bridges) : Range(BridgeCommands(b)) \subseteq Range(s1)
  BY BridgesFine
<1>2. /\ FineCommands(s2) /\ FineCommands(s3)
      /\ \A lan \in Range(served) : Range(DHCPCommands(lan)) \subseteq Range(s3)
  BY EthernetsFine, DHCPFine
<1>3. FineCommands(s4)
  BY DNSCommandsFine
<1>4. /\ FineCommands(s5) /\ FineCommands(s6)
      /\ \A rule \in Range(natRules) : Range(NATCommands(rule)) \subseteq Range(s6)
  BY SSHFine, RulesFine
<1>5. Sections(served) = s1 \o s2 \o s3 \o s4 \o s5 \o s6
  BY DEF Sections
<1>6. s4 = DNSCommands(served)
  OBVIOUS
<1> HIDE DEF s1, s2, s3, s4, s5, s6
<1>7. FineCommands(s1 \o s2) /\ Range(s1 \o s2) = Range(s1) \cup Range(s2)
  BY <1>1, <1>2, FineCommandsJoined
<1>8. /\ FineCommands(s1 \o s2 \o s3)
      /\ Range(s1 \o s2 \o s3) = Range(s1) \cup Range(s2) \cup Range(s3)
  BY <1>2, <1>7, FineCommandsJoined
<1>9. /\ FineCommands(s1 \o s2 \o s3 \o s4)
      /\ Range(s1 \o s2 \o s3 \o s4) = Range(s1) \cup Range(s2) \cup Range(s3) \cup Range(s4)
  BY <1>3, <1>8, FineCommandsJoined
<1>10. /\ FineCommands(s1 \o s2 \o s3 \o s4 \o s5)
       /\ Range(s1) \cup Range(s3) \cup Range(s4) \subseteq Range(s1 \o s2 \o s3 \o s4 \o s5)
  BY <1>4, <1>9, FineCommandsJoined
<1>11. /\ FineCommands(s1 \o s2 \o s3 \o s4 \o s5 \o s6)
       /\ Range(s1) \cup Range(s3) \cup Range(s4) \cup Range(s6)
            \subseteq Range(s1 \o s2 \o s3 \o s4 \o s5 \o s6)
  BY <1>4, <1>10, FineCommandsJoined
<1>12. Range(s1) \cup Range(s3) \cup Range(s4) \cup Range(s6) \subseteq Range(Sections(served))
  BY <1>5, <1>11
<1> QED BY <1>1, <1>2, <1>4, <1>5, <1>6, <1>11, <1>12

-----------------------------------------------------------------------------
\* What the templates make of the normalized payload.

\* The numbers up to n are n.
LEMMA UpTo == ASSUME NEW n \in Nat PROVE IsFiniteSet(1 .. n) /\ Cardinality(1 .. n) = n
<1>1. 1 \in Int /\ n \in Int
  OBVIOUS
<1>2. IsFiniteSet(1 .. n) /\ Cardinality(1 .. n) = IF 1 > n THEN 0 ELSE n - 1 + 1
  BY <1>1, FS_Interval
<1> QED BY <1>2

\* Six tokens, written in two parts.
LEMMA FourAndTwo ==
  ASSUME NEW a, NEW b, NEW c, NEW d, NEW e, NEW f
  PROVE  <<a, b, c, d>> \o <<e, f>> = <<a, b, c, d, e, f>>
<1> DEFINE s == <<a, b, c, d>>
           t == <<e, f>>
           u == <<a, b, c, d, e, f>>
           j == s \o t
<1>1. Sequence(s) /\ Len(s) = 4 /\ s[1] = a /\ s[2] = b /\ s[3] = c /\ s[4] = d
  BY Quadruple
<1>2. Sequence(t) /\ Len(t) = 2 /\ t[1] = e /\ t[2] = f
  BY Pair
<1>3. /\ Sequence(u) /\ Len(u) = 6 /\ u[1] = a /\ u[2] = b /\ u[3] = c /\ u[4] = d
      /\ u[5] = e /\ u[6] = f
  BY Six
<1> HIDE DEF s, t, u
<1>4. /\ Sequence(j) /\ Len(j) = 6
      /\ \A k \in 1 .. 4 : j[k] = s[k]
      /\ \A k \in 1 .. 2 : j[4 + k] = t[k]
  <2>1. /\ Sequence(j) /\ Len(j) = Len(s) + Len(t)
        /\ \A k \in 1 .. Len(s) : j[k] = s[k]
        /\ \A k \in 1 .. Len(t) : j[Len(s) + k] = t[k]
    <3>1. Sequence(s) /\ Sequence(t)
      BY <1>1, <1>2
    <3> QED BY <3>1, Concatenated
  <2> HIDE DEF j
  <2> QED BY <1>1, <1>2, <2>1
<1> HIDE DEF j
<1>5. j[4 + 1] = t[1] /\ j[4 + 2] = t[2]
  BY <1>4
<1>6. \A k \in 1 .. 6 : j[k] = u[k]
  BY <1>1, <1>2, <1>3, <1>4, <1>5
<1>7. /\ j \in [1 .. 6 -> Range(j) \cup Range(u)]
      /\ u \in [1 .. 6 -> Range(j) \cup Range(u)]
  <2>1. j \in Seq(Range(j) \cup Range(u)) /\ u \in Seq(Range(j) \cup Range(u))
    BY <1>3, <1>4, SeqMonotonic DEF Sequence
  <2> DEFINE S == Range(j) \cup Range(u)
  <2> HIDE DEF S
  <2>2. j \in [1 .. Len(j) -> S] /\ u \in [1 .. Len(u) -> S]
    BY <2>1, LenProperties DEF S
  <2> QED BY <1>3, <1>4, <2>2 DEF S
<1>8. j = u
  BY <1>6, <1>7
<1> QED BY <1>8 DEF j, s, t, u

\* There are no more bridges than entries, so their numbers are ints.
LEMMA BridgesRenderable ==
  ASSUME EntriesInv, Normalized, BridgesFollowPayload, PortsTyped, BasesTyped
  PROVE  \A b \in Range(bridges) : BridgeTyped(b)
<1>1. PICK at \in [DOMAIN bridges -> Bases] :
        /\ \A j, k \in DOMAIN bridges : j < k =>
             LET e == entries[at[j]] f == entries[at[k]]
             IN f.role = "downstream" /\ (e.role = "downstream" => at[j] < at[k])
        /\ \A k \in DOMAIN bridges : bridges[k].number = FirstNumber + k - 1
  BY DEF BridgesFollowPayload
<1>2. /\ Len(entries) \in Nat /\ DOMAIN entries = 1 .. Len(entries)
      /\ Len(entries) + 4051 <= MaxInt /\ MaxInt \in Nat
  BY LegalEntries
<1>3. Len(bridges) \in Nat /\ DOMAIN bridges = 1 .. Len(bridges)
  BY SequenceFacts DEF BasesTyped
<1>4. ASSUME NEW j \in DOMAIN bridges, NEW k \in DOMAIN bridges, at[j] = at[k] PROVE j = k
  <2>1. at[j] \in Int
    <3>1. at[j] \in 1 .. Len(entries)
      BY <1>2 DEF Bases
    <3> DEFINE x == at[j]
               n == Len(entries)
    <3>2. x \in 1 .. n /\ n \in Nat
      BY <1>2, <3>1
    <3> HIDE DEF x, n
    <3>3. x \in Int
      BY <3>2
    <3> QED BY <3>3 DEF x
  <2>2. ~(at[j] < at[k]) /\ ~(at[k] < at[j])
    BY <1>4, <2>1
  <2>3. ~(j < k) /\ ~(k < j)
    BY <1>1, <1>4, <2>2
  <2> QED BY <1>3, <2>3
<1>5. Len(bridges) <= Len(entries)
  <2>1. Bases \subseteq 1 .. Len(entries)
    BY <1>2 DEF Bases
  <2>2. at \in Injection(DOMAIN bridges, 1 .. Len(entries))
    BY <1>4, <2>1 DEF Injection, IsInjective
  <2>3. IsFiniteSet(1 .. Len(entries)) /\ Cardinality(1 .. Len(entries)) = Len(entries)
    BY <1>2, UpTo
  <2>4. Cardinality(1 .. Len(bridges)) = Len(bridges)
    BY <1>3, UpTo
  <2>5. Cardinality(DOMAIN bridges) <= Cardinality(1 .. Len(entries))
    BY <2>2, <2>3, FS_Injection
  <2> QED BY <1>3, <2>3, <2>4, <2>5
<1>6. ASSUME NEW k \in DOMAIN bridges PROVE BridgeTyped(bridges[k])
  <2> DEFINE b == bridges[k]
  <2>1. b.number \in 0 .. MaxInt
    <3>1. FirstNumber \in 0 .. 1 /\ b.number = FirstNumber + k - 1
      BY <1>1 DEF FirstNumber
    <3> HIDE DEF b
    <3> QED BY <1>2, <1>3, <1>5, <3>1
  <2>2. /\ b.members \subseteq Selectable /\ b.address \notin MetaTokens
        /\ Sequence(b.vifs) /\ \A v \in Range(b.vifs) : VIFTyped(v) /\ v.id \in Nat
    BY DEF BasesTyped, Range
  <2> HIDE DEF b
  <2>3. IsFiniteSet(b.members) /\ \A p \in b.members : p \notin MetaTokens
    BY <2>2, FS_Subset, Zenon DEF PortsTyped, PortTyped
  <2>4. Bridgename(b.number) \notin MetaTokens
    BY <2>1, NumbersPlain
  <2> QED BY <2>2, <2>3, <2>4 DEF BridgeTyped, b
<1> QED BY <1>6 DEF Range

\* What of RouterOnBridge is said of one service and the commands cs.
Routed(lan, cs) ==
  /\ \E text \in DOMAIN SubnetPrefix :
       /\ SubnetPrefix[text] = [ip |-> lan.router, size |-> lan.last - lan.net + 1]
       /\ \E b \in Range(bridges) :
            <<"set", "interfaces", "bridge", Bridgename(b.number)>>
              \o (IF lan.vlan > 0 THEN <<"vif", ToString(lan.vlan)>> ELSE <<>>)
              \o <<"address", text>> \in Range(cs)
  /\ <<"set", "service", "dns", "forwarding", "listen-address", Address(lan.router)>>
       \in Range(cs)

\* The router of a service is on the bridge or the VIF of the same entry.
LEMMA RouterRouted ==
  ASSUME EntriesInv, Normalized, BridgesFollowPayload, VLANsCarried, RenderTyped,
         NEW served, Sequence(served), \A k \in DOMAIN served : LANTyped(served[k]),
         NEW lan \in Range(served), OfEntry(lan)
  PROVE  Routed(lan, Sections(served))
<1> DEFINE cs == Sections(served)
<1>1. /\ \A b \in Range(bridges) : Range(BridgeCommands(b)) \subseteq Range(cs)
      /\ Range(DNSCommands(served)) \subseteq Range(cs)
  BY SectionsFine
<1> HIDE DEF cs
<1>2. <<"set", "service", "dns", "forwarding", "listen-address", Address(lan.router)>> \in Range(cs)
  <2>1. <<"set", "service", "dns", "forwarding">> \o <<"listen-address", Address(lan.router)>>
          \in Range(cs)
    BY <1>1, DNSCommandsFine
  <2> DEFINE x == Address(lan.router)
  <2> HIDE DEF x
  <2>2. <<"set", "service", "dns", "forwarding">> \o <<"listen-address", x>>
          = <<"set", "service", "dns", "forwarding", "listen-address", x>>
    BY FourAndTwo
  <2> QED BY <2>1, <2>2 DEF x
<1>3. PICK e \in Served :
        /\ entries[e].subnet \in DOMAIN SubnetPrefix
        /\ SubnetPrefix[entries[e].subnet] = [ip |-> lan.router, size |-> lan.last - lan.net + 1]
        /\ lan.vlan = entries[e].vlan
  BY DEF OfEntry
<1>4. /\ e \in DOMAIN entries /\ entries[e].role = "downstream"
      /\ entries[e].addressing = "static" /\ entries[e].vlan \in Nat
  BY <1>3 DEF Served, EntriesInv
<1> DEFINE text == entries[e].subnet
<1>5. ASSUME NEW b \in Range(bridges)
      PROVE  /\ Sequence(BridgeBase(b)) /\ BridgeTyped(b)
             /\ BridgeBase(b) \o <<"address", b.address>> \in Range(cs)
             /\ \A v \in Range(b.vifs) :
                  BridgeBase(b) \o (<<"vif", ToString(v.id)>> \o <<"address", v.address>>)
                    \in Range(cs)
  <2>1. BridgeTyped(b)
    BY DEF RenderTyped
  <2>2. Sequence(BridgeBase(b))
    BY Quadruple DEF BridgeBase
  <2> QED BY <1>1, <2>1, <2>2, BridgeCommandsFine
<1>6. CASE lan.vlan > 0
  <2>1. e \in DownVLANs
    BY <1>3, <1>4, <1>6 DEF DownVLANs, IsVLAN
  <2>2. PICK k \in DOMAIN bridges : \A j \in DownVLANs : \E v \in Range(bridges[k].vifs) :
          v.id = entries[j].vlan /\ v.address = entries[j].subnet
    BY <2>1 DEF VLANsCarried
  <2> DEFINE b == bridges[k]
  <2>3. PICK v \in Range(b.vifs) : v.id = lan.vlan /\ v.address = text
    BY <1>3, <2>1, <2>2
  <2>4. b \in Range(bridges)
    BY DEF Range
  <2> HIDE DEF b, text
  <2> DEFINE vif == <<"vif", ToString(lan.vlan)>>
             address == <<"address", text>>
  <2>5. BridgeBase(b) \o (vif \o address) \in Range(cs) /\ Sequence(BridgeBase(b))
    BY <1>5, <2>3, <2>4
  <2>6. Sequence(vif) /\ Sequence(address)
    BY Pair
  <2> HIDE DEF vif, address
  <2>7. (BridgeBase(b) \o vif) \o address = BridgeBase(b) \o (vif \o address)
    <3> DEFINE S == Range(BridgeBase(b)) \cup Range(vif) \cup Range(address)
    <3>1. BridgeBase(b) \in Seq(S) /\ vif \in Seq(S) /\ address \in Seq(S)
      BY <2>5, <2>6, SeqMonotonic DEF Sequence
    <3> HIDE DEF S
    <3> QED BY <3>1, ConcatAssociative
  <2>8. BridgeBase(b) \o (IF lan.vlan > 0 THEN vif ELSE <<>>) \o address \in Range(cs)
    BY <1>6, <2>5, <2>7
  <2> QED BY <1>2, <1>3, <2>4, <2>8 DEF Routed, BridgeBase, vif, address, text, cs
<1>7. CASE ~(lan.vlan > 0)
  <2>1. e \in Bases
    BY <1>3, <1>4, <1>7 DEF Bases, HasRole, IsVLAN
  <2>2. PICK k \in DOMAIN bridges : bridges[k].address = AddressOf(entries[e])
    <3>1. PICK at \in [DOMAIN bridges -> Bases] :
            /\ Range(at) = Bases
            /\ \A k \in DOMAIN bridges : bridges[k].address = AddressOf(entries[at[k]])
      BY DEF BridgesFollowPayload
    <3>2. PICK k \in DOMAIN bridges : at[k] = e
      BY <2>1, <3>1 DEF Range
    <3> QED BY <3>1, <3>2
  <2>3. AddressOf(entries[e]) = text
    BY <1>4 DEF AddressOf
  <2> DEFINE b == bridges[k]
  <2>4. b \in Range(bridges) /\ b.address = text
    BY <2>2, <2>3 DEF Range
  <2> HIDE DEF b, text
  <2>5. BridgeBase(b) \o <<"address", text>> \in Range(cs) /\ Sequence(BridgeBase(b))
    BY <1>5, <2>4
  <2>6. BridgeBase(b) \o <<>> = BridgeBase(b)
    BY <2>5, ConcatEmptySeq DEF Sequence
  <2>7. BridgeBase(b) \o (IF lan.vlan > 0 THEN <<"vif", ToString(lan.vlan)>> ELSE <<>>)
          \o <<"address", text>> \in Range(cs)
    BY <1>7, <2>5, <2>6
  <2> QED BY <1>2, <1>3, <2>4, <2>7 DEF Routed, BridgeBase, text, cs
<1> QED BY <1>6, <1>7

-----------------------------------------------------------------------------
\* The order of the commands.

\* What OutputOrdered says of two commands, one before the other.
Placed(c, d) ==
  /\ SubnetLine(c) /\ SubnetLine(d) => SubnetsOrdered(c, d)
  /\ RuleLine(c) /\ RuleLine(d) => RulesOrdered(c, d)
Ordered(s) == \A j, k \in DOMAIN s : j < k => Placed(s[j], s[k])

NoSubnet(s) == \A c \in Range(s) : ~SubnetLine(c)
NoRule(s) == \A c \in Range(s) : ~RuleLine(c)

\* What keeps two parts in order keeps their concatenation.
LEMMA OrderedJoined ==
  ASSUME NEW s, NEW t, Sequence(s), Sequence(t), Ordered(s), Ordered(t),
         \A c \in Range(s), d \in Range(t) : Placed(c, d)
  PROVE  Ordered(s \o t)
<1> DEFINE u == s \o t
<1>1. /\ Len(s) \in Nat /\ DOMAIN s = 1 .. Len(s)
      /\ Len(t) \in Nat /\ DOMAIN t = 1 .. Len(t)
  BY SequenceFacts
<1>2. /\ Sequence(u) /\ Len(u) = Len(s) + Len(t)
      /\ \A j \in 1 .. Len(s) : u[j] = s[j]
      /\ \A j \in 1 .. Len(t) : u[Len(s) + j] = t[j]
  BY Concatenated
<1> HIDE DEF u
<1>3. DOMAIN u = 1 .. Len(s) + Len(t)
  BY <1>2, SequenceFacts
<1>4. ASSUME NEW j \in DOMAIN u
      PROVE  \/ j \in DOMAIN s /\ u[j] = s[j] /\ s[j] \in Range(s)
             \/ /\ j > Len(s) /\ j - Len(s) \in DOMAIN t /\ u[j] = t[j - Len(s)]
                /\ u[j] \in Range(t)
  <2>1. CASE j <= Len(s)
    BY <1>1, <1>2, <1>3, <2>1 DEF Range
  <2>2. CASE j > Len(s)
    <3>1. j - Len(s) \in 1 .. Len(t) /\ Len(s) + (j - Len(s)) = j
      BY <1>1, <1>3, <2>2
    <3>2. u[j] = t[j - Len(s)] /\ j - Len(s) \in DOMAIN t
      BY <1>1, <1>2, <3>1
    <3> QED BY <2>2, <3>2 DEF Range
  <2> QED BY <1>1, <1>3, <2>1, <2>2
<1>5. ASSUME NEW j \in DOMAIN u, NEW k \in DOMAIN u, j < k
      PROVE  Placed(u[j], u[k])
  <2>1. j \in Int /\ k \in Int
    BY <1>3
  <2>2. CASE k \in DOMAIN s /\ u[k] = s[k]
    <3>1. j \in DOMAIN s /\ u[j] = s[j]
      BY <1>1, <1>4, <1>5, <2>1, <2>2
    <3> QED BY <1>5, <2>2, <3>1 DEF Ordered
  <2>3. CASE k > Len(s) /\ k - Len(s) \in DOMAIN t /\ u[k] = t[k - Len(s)] /\ u[k] \in Range(t)
    <3>1. CASE u[j] \in Range(s)
      BY <2>3, <3>1
    <3>2. CASE j - Len(s) \in DOMAIN t /\ u[j] = t[j - Len(s)]
      <4>1. j - Len(s) < k - Len(s)
        BY <1>1, <1>5, <2>1
      <4> QED BY <2>3, <3>2, <4>1 DEF Ordered
    <3> QED BY <1>4, <3>1, <3>2
  <2> QED BY <1>4, <2>2, <2>3
<1> QED BY <1>5 DEF Ordered, u

\* Nothing to order.
LEMMA OrderedUnmarked ==
  ASSUME NEW s, NoSubnet(s), NoRule(s)
  PROVE  Ordered(s)
BY DEF Ordered, Placed, NoSubnet, NoRule, Range

\* Parts of which one has all subnets and one all rules.
LEMMA OrderedApart ==
  ASSUME NEW s, NEW t, Sequence(s), Sequence(t), Ordered(s), Ordered(t),
         NoSubnet(s) \/ NoSubnet(t), NoRule(s) \/ NoRule(t)
  PROVE  Ordered(s \o t)
BY OrderedJoined DEF Placed, NoSubnet, NoRule

\* What both parts have not, the two have not.
LEMMA UnmarkedJoined ==
  ASSUME NEW s, NEW t, Sequence(s), Sequence(t)
  PROVE  /\ NoSubnet(s) /\ NoSubnet(t) => NoSubnet(s \o t)
         /\ NoRule(s) /\ NoRule(t) => NoRule(s \o t)
BY Concatenated DEF NoSubnet, NoRule

\* Many parts, each in order and each before those after it.
LEMMA OrderedFlattened ==
  ASSUME NEW ss, Sequence(ss), \A k \in DOMAIN ss : Sequence(ss[k]) /\ Ordered(ss[k]),
         \A j, k \in DOMAIN ss : j < k => \A c \in Range(ss[j]), d \in Range(ss[k]) : Placed(c, d)
  PROVE  Ordered(FlattenSeq(ss))
<1> DEFINE n == Len(ss)
           flat == CHOOSE f : f = [k \in 1 .. n |-> IF k = 1 THEN ss[k] ELSE f[k - 1] \o ss[k]]
<1>1. n \in Nat /\ DOMAIN ss = 1 .. n
  BY SequenceFacts
<1>2. CASE n = 0
  <2>1. FlattenSeq(ss) = ss /\ DOMAIN ss = {}
    BY <1>1, <1>2 DEF FlattenSeq
  <2> QED BY <2>1 DEF Ordered
<1>3. CASE n # 0
  <2>1. flat = [k \in 1 .. n |-> IF k = 1 THEN ss[k] ELSE flat[k - 1] \o ss[k]]
    <3> HIDE DEF n
    <3> QED BY <1>1, FlattenExists
  <2>2. FlattenSeq(ss) = flat[n]
    BY <1>3 DEF FlattenSeq
  <2> HIDE DEF flat, n
  <2> DEFINE Good(k) == /\ Sequence(flat[k]) /\ Ordered(flat[k])
                        /\ \A x \in Range(flat[k]) : \E j \in 1 .. k : x \in Range(ss[j])
             Bad == {k \in 1 .. n : ~Good(k)}
  <2>3. Bad = {}
    <3> SUFFICES ASSUME Bad # {} PROVE FALSE
      OBVIOUS
    <3>1. PICK k \in Bad : \A j \in Bad : k <= j
      <4>1. Bad \subseteq Nat
        BY <1>1
      <4> HIDE DEF Bad
      <4> QED BY <4>1, LeastNumber
    <3>2. k \in 1 .. n /\ ~Good(k)
      OBVIOUS
    <3>3. CASE k = 1
      <4>1. flat[k] = ss[1] /\ Sequence(ss[1]) /\ Ordered(ss[1])
        BY <1>1, <2>1, <3>2, <3>3
      <4>2. 1 \in 1 .. k
        BY <3>3
      <4> QED BY <3>2, <4>1, <4>2
    <3>4. CASE k # 1
      <4>1. k - 1 \in 1 .. n /\ k - 1 \notin Bad
        BY <1>1, <3>1, <3>2, <3>4
      <4>2. Good(k - 1)
        BY <4>1
      <4>3. flat[k] = flat[k - 1] \o ss[k]
        BY <2>1, <3>2, <3>4
      <4>4. Sequence(ss[k]) /\ Ordered(ss[k])
        BY <1>1, <3>2
      <4>5. Sequence(flat[k]) /\ Range(flat[k]) = Range(flat[k - 1]) \cup Range(ss[k])
        BY <4>2, <4>3, <4>4, Concatenated
      <4>6. \A j \in 1 .. k - 1 : j \in 1 .. k /\ j < k /\ j \in DOMAIN ss
        BY <1>1, <3>2, <4>1
      <4>7. k \in 1 .. k /\ k \in DOMAIN ss
        BY <1>1, <3>2
      <4>8. Ordered(flat[k])
        <5>1. ASSUME NEW c \in Range(flat[k - 1]), NEW d \in Range(ss[k]) PROVE Placed(c, d)
          <6>1. PICK j \in 1 .. k - 1 : c \in Range(ss[j])
            BY <4>2
          <6> QED BY <4>6, <4>7, <6>1
        <5>2. Sequence(flat[k - 1]) /\ Ordered(flat[k - 1])
          BY <4>2
        <5>3. Ordered(flat[k - 1] \o ss[k])
          BY <4>4, <5>1, <5>2, OrderedJoined
        <5> QED BY <4>3, <5>3
      <4>9. \A x \in Range(flat[k]) : \E j \in 1 .. k : x \in Range(ss[j])
        <5> TAKE x \in Range(flat[k])
        <5>1. x \in Range(flat[k - 1]) \/ x \in Range(ss[k])
          BY <4>5
        <5>2. x \in Range(flat[k - 1]) => \E j \in 1 .. k - 1 : x \in Range(ss[j])
          BY <4>2
        <5> QED BY <4>6, <4>7, <5>1, <5>2
      <4> QED BY <3>2, <4>5, <4>8, <4>9
    <3> QED BY <3>3, <3>4
  <2>4. n \in 1 .. n
    BY <1>1, <1>3
  <2>5. Good(n)
    BY <2>3, <2>4
  <2> QED BY <2>2, <2>5
<1> QED BY <1>2, <1>3

-----------------------------------------------------------------------------
\* Which commands are ordered.

\* The tokens of a command, those of the base and the first of the tail.
LEMMA TailTokens ==
  ASSUME NEW n \in Nat, NEW base, Sequence(base), Len(base) = n,
         NEW t, Sequence(t), Len(t) >= 1
  PROVE  LET c == base \o t IN
           /\ Len(c) = n + Len(t) /\ c[n + 1] = t[1]
           /\ \A j \in 1 .. n : c[j] = base[j]
<1> DEFINE c == base \o t
<1>1. Len(t) \in Nat
  BY SequenceFacts
<1>2. /\ Len(c) = Len(base) + Len(t)
      /\ \A j \in 1 .. Len(base) : c[j] = base[j]
      /\ \A j \in 1 .. Len(t) : c[Len(base) + j] = t[j]
  BY Concatenated
<1> HIDE DEF c
<1>3. c[n + 1] = t[1]
  BY <1>1, <1>2
<1> QED BY <1>2, <1>3 DEF c

\* The last command of a DHCP subnet has its identifier, and no other has.
LEMMA DHCPMarked ==
  ASSUME NEW lan
  PROVE  LET cs == DHCPCommands(lan) IN
           /\ \A k \in DOMAIN cs :
                /\ cs[k][2] = "service" /\ SubnetOf(cs[k], lan)
                /\ SubnetLine(cs[k]) <=> k = 6
           /\ 6 \in DOMAIN cs /\ DOMAIN cs = 1 .. 6
<1> DEFINE name == NameToken(lan.name)
           prefix == Subnet(lan.net, lan.last)
           base == <<"set", "service", "dhcp-server", "shared-network-name", name, "subnet", prefix>>
           t1 == <<"lease", ToString(lan.lease)>>
           t2 == <<"option", "default-router", Address(lan.router)>>
           t3 == <<"option", "name-server", Address(lan.router)>>
           t4 == <<"range", "0", "start", Address(lan.start)>>
           t5 == <<"range", "0", "stop", Address(lan.stop)>>
           t6 == <<"subnet-id", ToString(lan.subnetID)>>
           tails == <<t1, t2, t3, t4, t5, t6>>
<1>1. DHCPCommands(lan) = Commands(base, tails)
  BY DEF DHCPCommands
<1>2. \A c : SubnetOf(c, lan) <=> c[7] = prefix
  BY DEF SubnetOf
<1> HIDE DEF name, prefix
<1>3. Sequence(base) /\ Len(base) = 7 /\ base[2] = "service" /\ base[3] = "dhcp-server"
      /\ base[7] = prefix
  BY DEF Sequence, Range
<1> HIDE DEF base
<1>4. /\ Sequence(t1) /\ Len(t1) = 2 /\ t1[1] = "lease"
      /\ Sequence(t6) /\ Len(t6) = 2 /\ t6[1] = "subnet-id"
  BY Pair
<1>5. /\ Sequence(t2) /\ Len(t2) = 3 /\ t2[1] = "option"
      /\ Sequence(t3) /\ Len(t3) = 3 /\ t3[1] = "option"
  BY Triple
<1>6. /\ Sequence(t4) /\ Len(t4) = 4 /\ t4[1] = "range"
      /\ Sequence(t5) /\ Len(t5) = 4 /\ t5[1] = "range"
  BY Quadruple
<1> HIDE DEF t1, t2, t3, t4, t5, t6
<1>7. ASSUME NEW t, Sequence(t), Len(t) \in {2, 3, 4}
      PROVE  LET c == base \o t IN
               /\ c[2] = "service" /\ c[7] = prefix
               /\ SubnetLine(c) <=> Len(t) = 2 /\ t[1] = "subnet-id"
  <2> DEFINE c == base \o t
             n == 7
  <2>1. n \in Nat /\ Sequence(base) /\ Len(base) = n
    BY <1>3
  <2>2. Sequence(t) /\ Len(t) >= 1
    BY <1>7
  <2> HIDE DEF n
  <2>3. /\ Len(c) = n + Len(t) /\ c[n + 1] = t[1]
        /\ \A j \in 1 .. n : c[j] = base[j]
    BY <2>1, <2>2, TailTokens
  <2> HIDE DEF c
  <2>4. /\ Len(c) = 7 + Len(t) /\ c[7 + 1] = t[1]
        /\ \A j \in 1 .. 7 : c[j] = base[j]
    BY <2>3 DEF n
  <2>5. c[8] = t[1] /\ c[2] = base[2] /\ c[3] = base[3] /\ c[7] = base[7]
    BY <2>4
  <2>6. Len(c) = 9 <=> Len(t) = 2
    <3> DEFINE m == Len(t)
    <3>1. Len(c) = 7 + m /\ (m = 2 \/ m = 3 \/ m = 4)
      BY <1>7, <2>4
    <3> HIDE DEF m
    <3>2. Len(c) = 9 <=> m = 2
      BY <3>1
    <3> QED BY <3>2 DEF m
  <2> QED BY <1>3, <2>5, <2>6 DEF SubnetLine, c
<1>8. /\ DOMAIN tails = 1 .. 6 /\ tails[1] = t1 /\ tails[2] = t2 /\ tails[3] = t3
      /\ tails[4] = t4 /\ tails[5] = t5 /\ tails[6] = t6
  BY Six
<1> HIDE DEF tails
<1> DEFINE cs == Commands(base, tails)
<1>9. DOMAIN cs = 1 .. 6 /\ \A k \in 1 .. 6 : cs[k] = base \o tails[k]
  BY <1>8 DEF Commands
<1> HIDE DEF cs
<1>10. \A k \in 1 .. 6 :
         /\ Sequence(tails[k]) /\ Len(tails[k]) \in {2, 3, 4}
         /\ tails[k][1] = "subnet-id" <=> k = 6
         /\ k = 6 => Len(tails[k]) = 2
  BY <1>4, <1>5, <1>6, <1>8
<1>11. \A k \in 1 .. 6 : /\ cs[k][2] = "service" /\ cs[k][7] = prefix
                         /\ SubnetLine(cs[k]) <=> k = 6
  <2> TAKE k \in 1 .. 6
  <2>1. /\ Sequence(tails[k]) /\ Len(tails[k]) \in {2, 3, 4} /\ cs[k] = base \o tails[k]
        /\ Len(tails[k]) = 2 /\ tails[k][1] = "subnet-id" <=> k = 6
    BY <1>9, <1>10
  <2>2. /\ cs[k][2] = "service" /\ cs[k][7] = prefix
        /\ SubnetLine(cs[k]) <=> Len(tails[k]) = 2 /\ tails[k][1] = "subnet-id"
    BY <1>7, <2>1
  <2> QED BY <2>1, <2>2
<1> QED BY <1>1, <1>2, <1>9, <1>11 DEF cs

\* The first command of a NAT rule names its interface, and no other does.
LEMMA NATMarked ==
  ASSUME NEW rule
  PROVE  LET cs == NATCommands(rule) IN
           /\ \A k \in DOMAIN cs :
                /\ cs[k][3] = "source" /\ RuleOf(cs[k], rule)
                /\ RuleLine(cs[k]) <=> k = 1
           /\ 1 \in DOMAIN cs /\ DOMAIN cs = 1 .. 3
<1> DEFINE id == ToString(rule.id)
           base == <<"set", "nat", "source", "rule", id>>
           t1 == <<"outbound-interface", "name", rule.outbound>>
           t2 == <<"source", "address", rule.source>>
           t3 == <<"translation", "address", rule.translation>>
           tails == <<t1, t2, t3>>
<1>1. NATCommands(rule) = Commands(base, tails)
  BY DEF NATCommands
<1>2. \A c : RuleOf(c, rule) <=> c[5] = id
  BY DEF RuleOf
<1> HIDE DEF id
<1>3. Sequence(base) /\ Len(base) = 5 /\ base[2] = "nat" /\ base[3] = "source" /\ base[5] = id
  BY DEF Sequence, Range
<1> HIDE DEF base
<1>4. /\ Sequence(t1) /\ Len(t1) = 3 /\ t1[1] = "outbound-interface"
      /\ Sequence(t2) /\ Len(t2) = 3 /\ t2[1] = "source"
      /\ Sequence(t3) /\ Len(t3) = 3 /\ t3[1] = "translation"
  BY Triple
<1> HIDE DEF t1, t2, t3
<1>5. ASSUME NEW t, Sequence(t), Len(t) = 3
      PROVE  LET c == base \o t IN
               /\ c[3] = "source" /\ c[5] = id
               /\ RuleLine(c) <=> t[1] = "outbound-interface"
  <2> DEFINE c == base \o t
             n == 5
  <2>1. n \in Nat /\ Sequence(base) /\ Len(base) = n
    BY <1>3
  <2>2. Sequence(t) /\ Len(t) >= 1
    BY <1>5
  <2> HIDE DEF n
  <2>3. /\ Len(c) = n + Len(t) /\ c[n + 1] = t[1]
        /\ \A j \in 1 .. n : c[j] = base[j]
    BY <2>1, <2>2, TailTokens
  <2> HIDE DEF c
  <2>4. /\ Len(c) = 5 + Len(t) /\ c[5 + 1] = t[1]
        /\ \A j \in 1 .. 5 : c[j] = base[j]
    BY <2>3 DEF n
  <2>5. c[6] = t[1] /\ c[2] = base[2] /\ c[3] = base[3] /\ c[5] = base[5]
    BY <2>4
  <2>6. Len(c) = 8
    BY <1>5, <2>4
  <2> QED BY <1>3, <2>5, <2>6 DEF RuleLine, c
<1>6. DOMAIN tails = 1 .. 3 /\ tails[1] = t1 /\ tails[2] = t2 /\ tails[3] = t3
  BY Triple
<1> HIDE DEF tails
<1> DEFINE cs == Commands(base, tails)
<1>7. DOMAIN cs = 1 .. 3 /\ \A k \in 1 .. 3 : cs[k] = base \o tails[k]
  BY <1>6 DEF Commands
<1> HIDE DEF cs
<1>8. \A k \in 1 .. 3 :
        /\ Sequence(tails[k]) /\ Len(tails[k]) = 3
        /\ tails[k][1] = "outbound-interface" <=> k = 1
  BY <1>4, <1>6
<1>9. \A k \in 1 .. 3 : cs[k][3] = "source" /\ cs[k][5] = id /\ (RuleLine(cs[k]) <=> k = 1)
  <2> TAKE k \in 1 .. 3
  <2>1. /\ Sequence(tails[k]) /\ Len(tails[k]) = 3 /\ cs[k] = base \o tails[k]
        /\ tails[k][1] = "outbound-interface" <=> k = 1
    BY <1>7, <1>8
  <2>2. /\ cs[k][3] = "source" /\ cs[k][5] = id
        /\ RuleLine(cs[k]) <=> tails[k][1] = "outbound-interface"
    BY <1>5, <2>1
  <2> QED BY <2>1, <2>2
<1> QED BY <1>1, <1>2, <1>7, <1>9 DEF cs

-----------------------------------------------------------------------------
\* The sections in their order.

\* Services in the order of the templates, and rules by their identifiers.
ServedInOrder(served) ==
  \A p, q \in DOMAIN served : p < q =>
    LET a == served[p] b == served[q] IN
      /\ a \in services /\ b \in services /\ a # b
      /\ \/ a.vlan = 0 /\ (b.vlan = 0 => a.index < b.index)
         \/ a.vlan > 0 /\ b.vlan >= a.vlan
RulesInOrder == \A p, q \in DOMAIN natRules : p < q => natRules[p].id < natRules[q].id

\* The DHCP commands come in the order of the services.
LEMMA DHCPOrdered ==
  ASSUME NEW served, Sequence(served), \A k \in DOMAIN served : LANTyped(served[k]),
         ServedInOrder(served)
  PROVE  LET section == FlattenSeq([k \in DOMAIN served |-> DHCPCommands(served[k])])
         IN Ordered(section) /\ NoRule(section)
<1> DEFINE ss == [k \in DOMAIN served |-> DHCPCommands(served[k])]
<1>1. Len(served) \in Nat /\ DOMAIN served = 1 .. Len(served)
  BY SequenceFacts
<1>2. DOMAIN ss = 1 .. Len(served) /\ ss = [k \in 1 .. Len(served) |-> ss[k]]
  BY <1>1
<1>3. \A k \in DOMAIN ss : ss[k] = DHCPCommands(served[k]) /\ FineCommands(ss[k])
  BY DHCPCommandsFine
<1>4. DOMAIN ss = DOMAIN served
  OBVIOUS
<1> HIDE DEF ss
<1>5. Sequence(ss)
  BY <1>1, <1>2, Listed
<1>6. ASSUME NEW k \in DOMAIN ss
      PROVE  /\ Ordered(ss[k]) /\ NoRule(ss[k])
             /\ \A c \in Range(ss[k]) : SubnetOf(c, served[k]) /\ ~RuleLine(c)
  <2>1. /\ \A j \in DOMAIN ss[k] :
             /\ ss[k][j][2] = "service" /\ SubnetOf(ss[k][j], served[k])
             /\ SubnetLine(ss[k][j]) <=> j = 6
        /\ DOMAIN ss[k] = 1 .. 6
    BY <1>3, DHCPMarked
  <2>2. \A j \in DOMAIN ss[k] : ~RuleLine(ss[k][j])
    BY <2>1 DEF RuleLine
  <2>3. Ordered(ss[k])
    <3> SUFFICES ASSUME NEW p \in DOMAIN ss[k], NEW q \in DOMAIN ss[k], p < q
                 PROVE  Placed(ss[k][p], ss[k][q])
      BY DEF Ordered
    <3>1. ~(SubnetLine(ss[k][p]) /\ SubnetLine(ss[k][q]))
      BY <2>1
    <3> QED BY <2>2, <3>1 DEF Placed
  <2> QED BY <2>1, <2>2, <2>3 DEF NoRule, Range
<1>7. \A j, k \in DOMAIN ss : j < k => \A c \in Range(ss[j]), d \in Range(ss[k]) : Placed(c, d)
  <2> SUFFICES ASSUME NEW j \in DOMAIN ss, NEW k \in DOMAIN ss, j < k,
                      NEW c \in Range(ss[j]), NEW d \in Range(ss[k])
               PROVE  Placed(c, d)
    OBVIOUS
  <2>1. SubnetOf(c, served[j]) /\ SubnetOf(d, served[k]) /\ ~RuleLine(c)
    BY <1>6
  <2>2. SubnetsOrdered(c, d)
    <3> DEFINE a == served[j]
               b == served[k]
    <3>1. /\ a \in services /\ b \in services /\ a # b
          /\ \/ a.vlan = 0 /\ (b.vlan = 0 => a.index < b.index)
             \/ a.vlan > 0 /\ b.vlan >= a.vlan
      BY <1>4 DEF ServedInOrder
    <3> QED BY <2>1, <3>1 DEF SubnetsOrdered
  <2> QED BY <2>1, <2>2 DEF Placed
<1>8. \A k \in DOMAIN ss : Sequence(ss[k])
  BY <1>3 DEF FineCommands
<1>9. Ordered(FlattenSeq(ss))
  BY <1>5, <1>6, <1>7, <1>8, OrderedFlattened
<1>10. Range(FlattenSeq(ss)) = UNION {Range(ss[k]) : k \in DOMAIN ss}
  BY <1>5, <1>8, Flattened
<1>11. NoRule(FlattenSeq(ss))
  BY <1>6, <1>10 DEF NoRule
<1> QED BY <1>9, <1>11 DEF ss

\* The NAT commands come in the order of the identifiers.
LEMMA RulesOrderedAll ==
  ASSUME RenderTyped, RulesInOrder, Range(natRules) = Range(request.rules)
  PROVE  LET section == FlattenSeq([k \in DOMAIN natRules |-> NATCommands(natRules[k])])
         IN Ordered(section) /\ NoSubnet(section)
<1> DEFINE ss == [k \in DOMAIN natRules |-> NATCommands(natRules[k])]
<1>1. Sequence(natRules) /\ \A k \in DOMAIN natRules : RuleTyped(natRules[k])
  BY DEF RenderTyped, NATInv, Range
<1>2. Len(natRules) \in Nat /\ DOMAIN natRules = 1 .. Len(natRules)
  BY <1>1, SequenceFacts
<1>3. DOMAIN ss = 1 .. Len(natRules) /\ ss = [k \in 1 .. Len(natRules) |-> ss[k]]
  BY <1>2
<1>4. \A k \in DOMAIN ss : ss[k] = NATCommands(natRules[k]) /\ FineCommands(ss[k])
  BY <1>1, NATCommandsFine
<1>5. DOMAIN ss = DOMAIN natRules
  OBVIOUS
<1> HIDE DEF ss
<1>6. Sequence(ss)
  BY <1>2, <1>3, Listed
<1>7. ASSUME NEW k \in DOMAIN ss
      PROVE  /\ Ordered(ss[k]) /\ NoSubnet(ss[k])
             /\ \A c \in Range(ss[k]) : RuleOf(c, natRules[k]) /\ ~SubnetLine(c)
  <2>1. /\ \A j \in DOMAIN ss[k] :
             /\ ss[k][j][3] = "source" /\ RuleOf(ss[k][j], natRules[k])
             /\ RuleLine(ss[k][j]) <=> j = 1
        /\ DOMAIN ss[k] = 1 .. 3
    BY <1>4, NATMarked
  <2>2. \A j \in DOMAIN ss[k] : ~SubnetLine(ss[k][j])
    BY <2>1 DEF SubnetLine
  <2>3. Ordered(ss[k])
    <3> SUFFICES ASSUME NEW p \in DOMAIN ss[k], NEW q \in DOMAIN ss[k], p < q
                 PROVE  Placed(ss[k][p], ss[k][q])
      BY DEF Ordered
    <3>1. ~(RuleLine(ss[k][p]) /\ RuleLine(ss[k][q]))
      BY <2>1
    <3> QED BY <2>2, <3>1 DEF Placed
  <2> QED BY <2>1, <2>2, <2>3 DEF NoSubnet, Range
<1>8. \A j, k \in DOMAIN ss : j < k => \A c \in Range(ss[j]), d \in Range(ss[k]) : Placed(c, d)
  <2> SUFFICES ASSUME NEW j \in DOMAIN ss, NEW k \in DOMAIN ss, j < k,
                      NEW c \in Range(ss[j]), NEW d \in Range(ss[k])
               PROVE  Placed(c, d)
    OBVIOUS
  <2>1. RuleOf(c, natRules[j]) /\ RuleOf(d, natRules[k]) /\ ~SubnetLine(c)
    BY <1>7
  <2>2. /\ natRules[j] \in Range(request.rules) /\ natRules[k] \in Range(request.rules)
        /\ natRules[j].id < natRules[k].id
    BY <1>5 DEF RulesInOrder, Range
  <2>3. RulesOrdered(c, d)
    BY <2>1, <2>2 DEF RulesOrdered
  <2> QED BY <2>1, <2>3 DEF Placed
<1>9. \A k \in DOMAIN ss : Sequence(ss[k])
  BY <1>4 DEF FineCommands
<1>10. Ordered(FlattenSeq(ss))
  BY <1>6, <1>7, <1>8, <1>9, OrderedFlattened
<1>11. Range(FlattenSeq(ss)) = UNION {Range(ss[k]) : k \in DOMAIN ss}
  BY <1>6, <1>9, Flattened
<1>12. NoSubnet(FlattenSeq(ss))
  BY <1>7, <1>11 DEF NoSubnet
<1> QED BY <1>10, <1>12 DEF ss

Unmarked(s) == NoSubnet(s) /\ NoRule(s)

\* Interfaces and the DNS forwarder have neither subnets nor rules.
LEMMA OthersUnmarked ==
  ASSUME RenderTyped, NEW served, Sequence(served), \A k \in DOMAIN served : LANTyped(served[k])
  PROVE  LET ports == SetToSeq(DOMAIN ethernets) IN
           /\ Unmarked(FlattenSeq([k \in DOMAIN bridges |-> BridgeCommands(bridges[k])]))
           /\ Unmarked([k \in DOMAIN ports |-> EthernetCommand(ports[k])])
           /\ Unmarked(DNSCommands(served))
           /\ Unmarked(IF request.ssh = NoSSH THEN <<>>
                       ELSE << <<"set", "service", "ssh", "port", ToString(request.ssh)>> >>)
<1>1. Unmarked(FlattenSeq([k \in DOMAIN bridges |-> BridgeCommands(bridges[k])]))
  <2> DEFINE section == FlattenSeq([k \in DOMAIN bridges |-> BridgeCommands(bridges[k])])
  <2>1. \A c \in Range(section) : \E b \in Range(bridges) : c \in Range(BridgeCommands(b))
    BY BridgesFine
  <2> HIDE DEF section
  <2>2. \A b \in Range(bridges) : \A c \in Range(BridgeCommands(b)) :
          c[2] = "interfaces" /\ c[3] = "bridge"
    BY BridgeCommandsFine DEF RenderTyped
  <2>3. \A c \in Range(section) : c[2] = "interfaces" /\ c[3] = "bridge"
    BY <2>1, <2>2
  <2>4. Unmarked(section)
    BY <2>3 DEF Unmarked, NoSubnet, NoRule, SubnetLine, RuleLine
  <2> QED BY <2>4 DEF section
<1> DEFINE ports == SetToSeq(DOMAIN ethernets)
<1>2. Unmarked([k \in DOMAIN ports |-> EthernetCommand(ports[k])])
  <2> HIDE DEF ports
  <2>1. ASSUME NEW p PROVE ~SubnetLine(EthernetCommand(p)) /\ ~RuleLine(EthernetCommand(p))
    <3> DEFINE c == EthernetCommand(p)
    <3>1. c[2] = "interfaces" /\ c[3] = "ethernet"
      BY Six DEF EthernetCommand
    <3> HIDE DEF c
    <3>2. ~SubnetLine(c) /\ ~RuleLine(c)
      BY <3>1 DEF SubnetLine, RuleLine
    <3> QED BY <3>2 DEF c
  <2> QED BY <2>1 DEF Unmarked, NoSubnet, NoRule, Range
<1>3. Unmarked(DNSCommands(served))
  <2>1. \A c \in Range(DNSCommands(served)) : c[2] = "service" /\ c[3] = "dns"
    BY DNSCommandsFine
  <2> QED BY <2>1 DEF Unmarked, NoSubnet, NoRule, SubnetLine, RuleLine
<1>4. Unmarked(IF request.ssh = NoSSH THEN <<>>
               ELSE << <<"set", "service", "ssh", "port", ToString(request.ssh)>> >>)
  <2> DEFINE x == ToString(request.ssh)
             c == <<"set", "service", "ssh", "port", x>>
  <2> HIDE DEF x
  <2>1. c[2] = "service" /\ c[3] = "ssh"
    OBVIOUS
  <2> HIDE DEF c
  <2>2. Range(<<>>) = {} /\ Range(<<c>>) = {c}
    BY DEF Range
  <2>3. Unmarked(<<>>) /\ Unmarked(<<c>>)
    BY <2>1, <2>2 DEF Unmarked, NoSubnet, NoRule, SubnetLine, RuleLine
  <2> QED BY <2>3 DEF c, x
<1> QED BY <1>1, <1>2, <1>3, <1>4

\* All sections are in order.
LEMMA SectionsOrdered ==
  ASSUME RenderTyped, NEW served, Sequence(served), \A k \in DOMAIN served : LANTyped(served[k]),
         ServedInOrder(served), RulesInOrder, Range(natRules) = Range(request.rules)
  PROVE  Ordered(Sections(served))
<1> DEFINE ports == SetToSeq(DOMAIN ethernets)
           s1 == FlattenSeq([k \in DOMAIN bridges |-> BridgeCommands(bridges[k])])
           s2 == [k \in DOMAIN ports |-> EthernetCommand(ports[k])]
           s3 == FlattenSeq([k \in DOMAIN served |-> DHCPCommands(served[k])])
           s4 == DNSCommands(served)
           s5 == IF request.ssh = NoSSH THEN <<>>
                 ELSE << <<"set", "service", "ssh", "port", ToString(request.ssh)>> >>
           s6 == FlattenSeq([k \in DOMAIN natRules |-> NATCommands(natRules[k])])
<1>1. Sequence(s1) /\ Sequence(s2) /\ Sequence(s3)
  BY BridgesFine, EthernetsFine, DHCPFine DEF FineCommands
<1>2. Sequence(s4) /\ Sequence(s5) /\ Sequence(s6)
  BY DNSCommandsFine, SSHFine, RulesFine DEF FineCommands
<1>3. Unmarked(s1) /\ Unmarked(s2) /\ Unmarked(s4) /\ Unmarked(s5)
  BY OthersUnmarked
<1>4. Ordered(s3) /\ NoRule(s3)
  BY DHCPOrdered
<1>5. Ordered(s6) /\ NoSubnet(s6)
  BY RulesOrderedAll
<1>6. Sections(served) = s1 \o s2 \o s3 \o s4 \o s5 \o s6
  BY DEF Sections
<1> HIDE DEF s1, s2, s3, s4, s5, s6
<1>7. Ordered(s1) /\ Ordered(s2) /\ Ordered(s4) /\ Ordered(s5)
  BY <1>3, OrderedUnmarked DEF Unmarked
<1>8. Sequence(s1 \o s2) /\ Ordered(s1 \o s2) /\ NoSubnet(s1 \o s2) /\ NoRule(s1 \o s2)
  BY <1>1, <1>3, <1>7, OrderedApart, UnmarkedJoined, Concatenated DEF Unmarked
<1>9. Sequence(s1 \o s2 \o s3) /\ Ordered(s1 \o s2 \o s3) /\ NoRule(s1 \o s2 \o s3)
  BY <1>1, <1>4, <1>8, OrderedApart, UnmarkedJoined, Concatenated
<1>10. /\ Sequence(s1 \o s2 \o s3 \o s4) /\ Ordered(s1 \o s2 \o s3 \o s4)
       /\ NoRule(s1 \o s2 \o s3 \o s4)
  BY <1>2, <1>3, <1>7, <1>9, OrderedApart, UnmarkedJoined, Concatenated DEF Unmarked
<1>11. /\ Sequence(s1 \o s2 \o s3 \o s4 \o s5) /\ Ordered(s1 \o s2 \o s3 \o s4 \o s5)
       /\ NoRule(s1 \o s2 \o s3 \o s4 \o s5)
  BY <1>2, <1>3, <1>7, <1>10, OrderedApart, UnmarkedJoined, Concatenated DEF Unmarked
<1> QED BY <1>2, <1>5, <1>6, <1>11, OrderedApart

\* What OutputOrdered says of rendered commands cs.
InOrder(cs) ==
  LET subnets == {k \in DOMAIN cs : SubnetLine(cs[k])}
      rules == {k \in DOMAIN cs : RuleLine(cs[k])}
  IN /\ \A lan \in services : \E k \in subnets : SubnetOf(cs[k], lan)
     /\ \A rule \in Range(request.rules) : \E k \in rules : RuleOf(cs[k], rule)
     /\ \A j, k \in subnets : j < k => SubnetsOrdered(cs[j], cs[k])
     /\ \A j, k \in rules : j < k => RulesOrdered(cs[j], cs[k])

\* All services and all rules have their commands, in order.
LEMMA SectionsInOrder ==
  ASSUME RenderTyped, NEW served, Sequence(served), \A k \in DOMAIN served : LANTyped(served[k]),
         Range(served) = services, ServedInOrder(served),
         RulesInOrder, Range(natRules) = Range(request.rules)
  PROVE  InOrder(Sections(served))
<1> DEFINE cs == Sections(served)
<1>1. Ordered(cs)
  BY SectionsOrdered
<1>2. /\ \A lan \in services : Range(DHCPCommands(lan)) \subseteq Range(cs)
      /\ \A rule \in Range(natRules) : Range(NATCommands(rule)) \subseteq Range(cs)
  BY SectionsFine
<1> HIDE DEF cs
<1>3. ASSUME NEW lan \in services
      PROVE  \E k \in DOMAIN cs : SubnetLine(cs[k]) /\ SubnetOf(cs[k], lan)
  <2> DEFINE c == DHCPCommands(lan)[6]
  <2>1. SubnetLine(c) /\ SubnetOf(c, lan) /\ c \in Range(DHCPCommands(lan))
    BY DHCPMarked DEF Range
  <2> HIDE DEF c
  <2>2. c \in Range(cs)
    BY <1>2, <2>1
  <2> QED BY <2>1, <2>2 DEF Range
<1>4. ASSUME NEW rule \in Range(request.rules)
      PROVE  \E k \in DOMAIN cs : RuleLine(cs[k]) /\ RuleOf(cs[k], rule)
  <2> DEFINE c == NATCommands(rule)[1]
  <2>1. RuleLine(c) /\ RuleOf(c, rule) /\ c \in Range(NATCommands(rule))
    BY NATMarked DEF Range
  <2> HIDE DEF c
  <2>2. c \in Range(cs)
    BY <1>2, <2>1
  <2> QED BY <2>1, <2>2 DEF Range
<1> QED BY <1>1, <1>3, <1>4 DEF InOrder, Ordered, Placed, cs

\* The NAT rules are sorted and, once sorted, those of the request.
RulesInv ==
  /\ RulesInOrder
  /\ phase \in {"services", "templates", "rendered"} => Range(natRules) = Range(request.rules)

\* Identifiers without fault are distinct, so that sorting orders them strictly.
LEMMA RulesStep == EntriesInv /\ RulesInv /\ [Next]_vars => RulesInv'
<1> SUFFICES ASSUME EntriesInv, RulesInv, [Next]_vars PROVE RulesInv'
  OBVIOUS
<1>1. CASE UNCHANGED <<natRules, request>> /\ (phase' \in {"services", "templates", "rendered"} =>
             phase \in {"services", "templates", "rendered"})
  BY <1>1 DEF RulesInv, RulesInOrder
<1>2. CASE normalizeNAT /\ ~NATFault(request.rules)
  <2> DEFINE rules == request.rules
  <2>1. PICK q \in Bijection(DOMAIN rules, DOMAIN rules) :
          /\ \A j, k \in DOMAIN rules : j < k => ~RuleBefore(rules[q[k]], rules[q[j]])
          /\ natRules' = [k \in DOMAIN rules |-> rules[q[k]]]
    BY <1>2 DEF normalizeNAT, Sortings
  <2>2. /\ Sequence(rules)
        /\ \A k \in DOMAIN rules : rules[k].id \in -MaxInt - 1 .. NoId
    BY LegalRules
  <2>3. \A j, k \in DOMAIN rules : j # k => rules[j].id # rules[k].id
    BY <1>2 DEF NATFault
  <2>4. \A k \in DOMAIN rules : rules[k].id \in Int
    BY <2>2, ServicesAssumption DEF NoId
  <2>5. request' = request
    BY <1>2 DEF normalizeNAT
  <2> HIDE DEF rules
  <2>6. /\ DOMAIN natRules' = DOMAIN rules /\ Range(natRules') = Range(rules)
        /\ \A k \in DOMAIN rules : q[k] \in DOMAIN rules /\ natRules'[k] = rules[q[k]]
        /\ \A j, k \in DOMAIN rules : q[j] = q[k] => j = k
    BY <2>1, <2>2, Permuted
  <2>9. DOMAIN rules = 1 .. Len(rules)
    BY <2>2, SequenceFacts
  <2>7. ASSUME NEW j \in DOMAIN rules, NEW k \in DOMAIN rules, j < k
        PROVE  natRules'[j].id < natRules'[k].id
    <3>1. /\ q[j] \in DOMAIN rules /\ q[k] \in DOMAIN rules /\ q[j] # q[k]
          /\ ~(rules[q[k]].id < rules[q[j]].id)
      BY <2>1, <2>6, <2>7, <2>9 DEF RuleBefore
    <3>2. /\ rules[q[j]].id \in Int /\ rules[q[k]].id \in Int
          /\ rules[q[j]].id # rules[q[k]].id
      BY <2>3, <2>4, <3>1
    <3> QED BY <2>6, <3>1, <3>2
  <2>8. RulesInOrder'
    BY <2>6, <2>7 DEF RulesInOrder
  <2> QED BY <2>5, <2>6, <2>8 DEF RulesInv, rules
<1>3. CASE New \/ ValidateRequest \/ normalizeServices \/ RenderTemplates
  BY <1>1, <1>3 DEF New, ValidateRequest, normalizeServices, RenderTemplates, Fail
<1>4. CASE InterfacesNext /\ UNCHANGED <<request, natRules, services, commands>>
  BY <1>1, <1>4 DEF InterfacesNext, RejectEntry, IgnoreEntry, VLANEntry, UpstreamEntry,
       DownstreamEntry, Entry, Advance, MergeVLANs, Fail
<1>5. CASE normalizeNAT /\ NATFault(request.rules)
  BY <1>1, <1>5 DEF normalizeNAT, Fail
<1>6. CASE Done \/ UNCHANGED vars
  BY <1>1, <1>6 DEF Done, vars, interfaceVars
<1> QED BY <1>2, <1>3, <1>4, <1>5, <1>6 DEF Next

\* Services are told apart by the position of their entry.
IndexInv ==
  \A a \in services : /\ a.index \in Nat /\ a.vlan \in Nat
                      /\ \A b \in services : a.index = b.index => a = b

\* A service takes the position of its entry, which no earlier one has.
LEMMA IndexStep == EntriesInv /\ IndexInv /\ [Next]_vars => IndexInv'
<1> SUFFICES ASSUME EntriesInv, IndexInv, [Next]_vars PROVE IndexInv'
  OBVIOUS
<1>1. CASE UNCHANGED services
  BY <1>1 DEF IndexInv
<1>2. CASE normalizeServices /\ services' = {ServiceLAN(input) : input \in ServiceInputs}
  <2>1. \A input : ServiceLAN(input).index = input.index /\ ServiceLAN(input).vlan = input.vlan
    BY DEF ServiceLAN
  <2>2. Inputs
    BY InputsTyped
  <2> QED BY <1>2, <2>1, <2>2 DEF IndexInv, Inputs
<1>3. ~normalizeServices => UNCHANGED services
  BY DEF Next, New, ValidateRequest, normalizeNAT, RenderTemplates, Done, vars
<1>4. normalizeServices => \/ UNCHANGED services
                           \/ services' = {ServiceLAN(input) : input \in ServiceInputs}
  BY DEF normalizeServices
<1> QED BY <1>1, <1>2, <1>3, <1>4

\* The services in the order the templates have them.
LEMMA ServedOrdered ==
  ASSUME IndexInv, IsFiniteSet(services),
         NEW served \in Sortings(SetToSeq(services), LANBefore)
  PROVE  Sequence(served) /\ Range(served) = services /\ ServedInOrder(served)
<1> DEFINE s == SetToSeq(services)
<1>1. Sequence(s) /\ Range(s) = services /\ \A j, k \in DOMAIN s : s[j] = s[k] => j = k
  BY SequenceOfSet
<1>2. PICK q \in Bijection(DOMAIN s, DOMAIN s) :
        /\ \A j, k \in DOMAIN s : j < k => ~LANBefore(s[q[k]], s[q[j]])
        /\ served = [k \in DOMAIN s |-> s[q[k]]]
  BY DEF Sortings
<1> HIDE DEF s
<1>3. /\ Sequence(served) /\ Range(served) = services /\ DOMAIN served = DOMAIN s
      /\ \A k \in DOMAIN s : q[k] \in DOMAIN s /\ served[k] = s[q[k]]
      /\ \A j, k \in DOMAIN s : q[j] = q[k] => j = k
  BY <1>1, <1>2, Permuted
<1>4. DOMAIN served = 1 .. Len(served)
  BY <1>3, SequenceFacts
<1>5. ASSUME NEW j \in DOMAIN served, NEW k \in DOMAIN served, j < k
      PROVE  LET a == served[j] b == served[k] IN
               /\ a \in services /\ b \in services /\ a # b
               /\ \/ a.vlan = 0 /\ (b.vlan = 0 => a.index < b.index)
                  \/ a.vlan > 0 /\ b.vlan >= a.vlan
  <2> DEFINE a == served[j]
             b == served[k]
  <2>1. a \in services /\ b \in services
    BY <1>3 DEF Range
  <2>2. a # b
    BY <1>1, <1>3, <1>4, <1>5
  <2>3. ~LANBefore(b, a)
    BY <1>2, <1>3, <1>5
  <2>4. /\ a.index \in Nat /\ a.vlan \in Nat /\ b.index \in Nat /\ b.vlan \in Nat
        /\ a.index # b.index
    BY <2>1, <2>2 DEF IndexInv
  <2> HIDE DEF a, b
  <2>5. \/ a.vlan = 0 /\ (b.vlan = 0 => a.index < b.index)
        \/ a.vlan > 0 /\ b.vlan >= a.vlan
    <3>1. CASE a.vlan = 0 /\ b.vlan = 0
      <4>1. ~(a.vlan > 0) /\ ~(b.vlan > 0)
        BY <3>1
      <4>2. ~(b.index < a.index)
        BY <2>3, <3>1, <4>1, Zenon DEF LANBefore
      <4> QED BY <2>4, <3>1, <4>2
    <3>2. CASE a.vlan > 0 /\ b.vlan = 0
      <4>1. ~(b.vlan > 0)
        BY <3>2
      <4> QED BY <2>3, <3>2, <4>1, Zenon DEF LANBefore
    <3>3. CASE a.vlan > 0 /\ b.vlan > 0
      <4>1. b.vlan # 0
        BY <3>3
      <4>2. ~(b.vlan < a.vlan)
        BY <2>3, <3>3, <4>1, Zenon DEF LANBefore
      <4> QED BY <2>4, <3>3, <4>2
    <3>4. CASE a.vlan = 0 /\ b.vlan > 0
      BY <3>4
    <3> QED BY <2>4, <3>1, <3>2, <3>3, <3>4
  <2> QED BY <2>1, <2>2, <2>5 DEF a, b
<1> QED BY <1>3, <1>5 DEF ServedInOrder

-----------------------------------------------------------------------------
\* What is rendered.

RenderedInv == FineCommands(commands) /\ RouterOnBridge /\ OutputOrdered

\* Only RenderTemplates makes commands, of what the invariants describe.
LEMMA RenderedStep ==
  /\ EntriesInv /\ InterfacesInv /\ PortsTyped /\ BasesTyped /\ NATInv /\ ServedInv
  /\ RulesInv /\ IndexInv /\ RenderedInv /\ [Next]_vars
  => RenderedInv'
<1> SUFFICES ASSUME EntriesInv, InterfacesInv, PortsTyped, BasesTyped, NATInv, ServedInv,
                    RulesInv, IndexInv, RenderedInv, [Next]_vars
             PROVE  RenderedInv'
  OBVIOUS
<1>1. CASE commands' = commands /\ phase' # "rendered"
  BY <1>1 DEF RenderedInv, RouterOnBridge, OutputOrdered, Rendered
<1>2. CASE UNCHANGED <<commands, services, bridges, request, phase>>
  <2>1. RouterOnBridge'
    BY <1>2 DEF RenderedInv, RouterOnBridge, Rendered
  <2>2. InOrder(commands)' <=> InOrder(commands)
    BY <1>2 DEF InOrder, SubnetsOrdered, RulesOrdered
  <2>3. OutputOrdered'
    BY <1>2, <2>2 DEF RenderedInv, OutputOrdered, InOrder, Rendered
  <2> QED BY <1>2, <2>1, <2>3 DEF RenderedInv
<1>3. CASE RenderTemplates /\ phase' = "rendered"
  <2>1. PICK served \in Sortings(SetToSeq(services), LANBefore) : commands' = Sections(served)
    BY <1>3 DEF RenderTemplates, Fail
  <2>2. /\ phase = "templates" /\ Normalized
        /\ services' = services /\ bridges' = bridges /\ request' = request
    BY <1>3 DEF RenderTemplates, Fail, Normalized, found
  <2>3. /\ IsFiniteSet(services)
        /\ \A lan \in services : LANTyped(lan) /\ OfEntry(lan)
        /\ request.ssh = NoSSH \/ ToString(request.ssh) \in Port
    BY <2>2 DEF ServedInv
  <2>4. Sequence(served) /\ Range(served) = services /\ ServedInOrder(served)
    BY <2>1, <2>3, ServedOrdered
  <2>5. \A k \in DOMAIN served : LANTyped(served[k])
    BY <2>3, <2>4 DEF Range
  <2>6. BridgesFollowPayload /\ VLANsCarried
    BY DEF InterfacesInv
  <2>7. RenderTyped
    <3>1. \A b \in Range(bridges) : BridgeTyped(b)
      BY <2>2, <2>6, BridgesRenderable
    <3>2. IsFiniteSet(DOMAIN ethernets) /\ \A p \in DOMAIN ethernets : PortTyped(p)
      BY FS_Subset DEF PortsTyped
    <3> QED BY <2>3, <3>1, <3>2 DEF RenderTyped, BasesTyped
  <2>8. FineCommands(commands')
    BY <2>1, <2>4, <2>5, <2>7, SectionsFine
  <2>9. \A lan \in services : Routed(lan, commands')
    BY <2>1, <2>2, <2>3, <2>4, <2>5, <2>6, <2>7, RouterRouted
  <2>10. RouterOnBridge'
    BY <2>2, <2>9 DEF RouterOnBridge, Routed
  <2>11. InOrder(commands')
    BY <2>1, <2>2, <2>4, <2>5, <2>7, SectionsInOrder DEF RulesInv
  <2>12. InOrder(commands)'
    BY <2>2, <2>11 DEF InOrder, SubnetsOrdered, RulesOrdered
  <2>13. OutputOrdered'
    BY <2>12 DEF OutputOrdered, InOrder
  <2> QED BY <2>8, <2>10, <2>13 DEF RenderedInv, FineCommands
<1>4. CASE New \/ ValidateRequest \/ normalizeNAT \/ normalizeServices
  BY <1>1, <1>4 DEF New, ValidateRequest, normalizeNAT, normalizeServices, Fail
<1>5. CASE InterfacesNext /\ UNCHANGED <<request, natRules, services, commands>>
  BY <1>1, <1>5 DEF InterfacesNext, RejectEntry, IgnoreEntry, VLANEntry, UpstreamEntry,
       DownstreamEntry, Entry, Advance, MergeVLANs, Fail
<1>6. CASE RenderTemplates /\ phase' # "rendered"
  BY <1>1, <1>6 DEF RenderTemplates, Fail
<1>7. CASE Done \/ UNCHANGED vars
  BY <1>2, <1>7 DEF Done, vars, interfaceVars, found
<1> QED BY <1>3, <1>4, <1>5, <1>6, <1>7 DEF Next

\* Nothing is found and nothing rendered when Render is called.
LEMMA RenderedInitially ==
  Init => /\ PortsTyped /\ BasesTyped /\ NATInv /\ ServedInv /\ RulesInv /\ IndexInv
          /\ RenderedInv
<1> SUFFICES ASSUME Init
             PROVE  /\ PortsTyped /\ BasesTyped /\ NATInv /\ ServedInv /\ RulesInv /\ IndexInv
                    /\ RenderedInv
  OBVIOUS
<1>1. Sequence(<<>>) /\ Range(<<>>) = {} /\ DOMAIN <<>> = {}
  BY DEF Sequence, Range
<1>2. /\ portMap = <<>> /\ bridges = <<>> /\ pending = <<>> /\ ethernets = <<>>
      /\ natRules = <<>> /\ services = {} /\ commands = <<>> /\ phase = "new"
  BY DEF Init, InterfacesInit
<1>3. Selectable = {}
  BY <1>1, <1>2 DEF Selectable
<1>4. PortsTyped
  BY <1>1, <1>2, <1>3, FS_EmptySet DEF PortsTyped
<1>5. BasesTyped /\ NATInv
  BY <1>1, <1>2 DEF BasesTyped, NATInv
<1>6. ServedInv /\ RenderedInv
  BY <1>1, <1>2 DEF ServedInv, RenderedInv, FineCommands, RouterOnBridge, OutputOrdered, Rendered
<1>7. RulesInv /\ IndexInv
  BY <1>1, <1>2 DEF RulesInv, RulesInOrder, IndexInv
<1> QED BY <1>4, <1>5, <1>6, <1>7

RenderInv ==
  /\ EntriesInv /\ InterfacesInv /\ PortsTyped /\ BasesTyped /\ NATInv /\ ServedInv
  /\ RulesInv /\ IndexInv /\ RenderedInv

\* All of it holds at any time.
LEMMA RenderInvariant == Spec => []RenderInv
<1>1. Init => InterfacesInv
  BY DEF Init, InterfacesInv, BridgesFollowPayload, VLANsOnFirstDownstream,
         DescriptionPrecedence, ServicesFollowPayload, VLANsCarried, Normalized
<1>2. Init => RenderInv
  BY <1>1, EntriesInitially, RenderedInitially DEF RenderInv
<1>3. RenderInv /\ [Next]_vars => RenderInv'
  BY EntriesStep, InterfacesStep, PortsStep, BasesStep, NATStep, ServicesTypedStep, RulesStep, IndexStep,
     RenderedStep
     DEF RenderInv
<1> QED BY <1>2, <1>3, PTL DEF Spec

\* Whatever the payload, the router of every service is the address of a bridge
\* or VIF that is rendered too.
THEOREM RoutersRendered == Spec => []RouterOnBridge
BY RenderInvariant, PTL DEF RenderInv, RenderedInv

\* Whatever the payload and the port maps, every rendered command is one the
\* apply package accepts, or a description with a character it refuses.
THEOREM RenderedIsAccepted == Spec => []RenderedAccepted
<1>1. RenderInv => RenderedAccepted
  BY DEF RenderInv, RenderedInv, FineCommands, Fine, RenderedAccepted, Range
<1> QED BY <1>1, RenderInvariant, PTL

\* Whatever the payload, the DHCP subnets and the NAT rules are all rendered, each
\* once and in an order that the payload's own does not determine.
THEOREM OutputIsOrdered == Spec => []OutputOrdered
BY RenderInvariant, PTL DEF RenderInv, RenderedInv
=============================================================================
