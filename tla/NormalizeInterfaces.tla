------------------------- MODULE NormalizeInterfaces -------------------------
(***************************************************************************)
(* From the "interfaces" array of a payload to the bridges, VIFs and       *)
(* ethernet descriptions of the rendered configuration                     *)
(* (src/internal/normalize/interface.go).  One step handles one entry; the *)
(* VLANs wait until the array is read, since the bridge that carries them  *)
(* may come after them.  RenderPayload composes this with the rest of      *)
(* Render.                                                                 *)
(*                                                                         *)
(* An entry is [role, name, select, vlan, addressing, subnet, dhcp]: a     *)
(* name is known by its rank, NoName is the empty one; select is the set   *)
(* of its port selectors; vlan is 0 when there is none; role "malformed"   *)
(* is an entry that does not decode or uses an alias of a field.  A list   *)
(* of ports, which the code keeps sorted and without repetition, is a set. *)
(***************************************************************************)
EXTENDS SequencesExt, Integers

CONSTANTS UnsafeNames,       \* names with a quote or a control character
          JoinedBefore(_, _) \* order of two port lists, joined by commas

NoName == 0
NoError == "none"

VARIABLES portMap,      \* from the known selectors to their ports
          entries, i,
          bridges,      \* in the order they are found, until the final sort
          firstDown,    \* index of br1 in bridges, 0 before it is found
          pending,      \* downstream VLANs
          ethernets,    \* from the described ports to [name, priority]
          lans,         \* entries that become DHCP and DNS services
          phase, err

found == <<bridges, firstDown, pending, ethernets, lans>>
interfaceVars == <<portMap, entries, i, found, phase, err>>

InterfacesInit ==
  /\ i = 1
  /\ bridges = <<>> /\ firstDown = 0 /\ pending = <<>>
  /\ ethernets = <<>> /\ lans = <<>>

-----------------------------------------------------------------------------
Ports(e) == UNION {portMap[s] : s \in e.select \cap DOMAIN portMap}
HasRole(e) == e.role \in {"upstream", "downstream"}
IsVLAN(e) == e.vlan > 0

AddressOf(e) == IF e.addressing = "dynamic" THEN "dhcp" ELSE e.subnet
AddressFault(e) ==
  \/ e.addressing \notin {"dynamic", "static"}
  \/ e.addressing = "static" /\ e.subnet \in {"", "unsafe"}

HasUpstream == \E k \in DOMAIN bridges : bridges[k].number = 0
DownstreamCount == Cardinality({k \in DOMAIN bridges : bridges[k].number > 0})

\* What ends normalizeInterfaces at entry e.
Fault(e) ==
  \/ e.role = "malformed"
  \/ /\ HasRole(e)
     /\ \/ e.name \in UnsafeNames
        \/ Ports(e) = {}
        \/ IsVLAN(e) /\ e.role = "downstream" /\ e.subnet \in {"", "unsafe"}
        \/ ~IsVLAN(e) /\ AddressFault(e)
        \/ ~IsVLAN(e) /\ e.role = "upstream" /\ HasUpstream

\* Mutant: the last description of a priority stays.
DescribedLatest(e, priority) ==
  LET new == {p \in Ports(e) : /\ e.name # NoName
                               /\ p \in DOMAIN ethernets => priority >= ethernets[p].priority}
  IN [p \in DOMAIN ethernets \cup new |->
        IF p \in new THEN [name |-> e.name, priority |-> priority] ELSE ethernets[p]]

\* updateEthernetDescription, for every port of e: the first description of a
\* priority stays, a base interface outranks a VLAN.
Described(e, priority) ==
  LET new == {p \in Ports(e) : /\ e.name # NoName
                               /\ p \in DOMAIN ethernets => priority > ethernets[p].priority}
  IN [p \in DOMAIN ethernets \cup new |->
        IF p \in new THEN [name |-> e.name, priority |-> priority] ELSE ethernets[p]]

\* Mutant: an interface with a dynamic address is served too.
ServiceLANsAll(e) == Append(lans, i)

ServiceLANs(e) == IF e.addressing = "static" THEN Append(lans, i) ELSE lans

Bridge(e, number) ==
  [number |-> number, address |-> AddressOf(e), name |-> e.name,
   members |-> Ports(e), vifs |-> <<>>]

-----------------------------------------------------------------------------
\* One entry.

Entry(e) == phase = "interfaces" /\ i <= Len(entries) /\ e = entries[i]
Advance == i' = i + 1 /\ UNCHANGED <<portMap, entries, phase, err>>

Fail(code) ==
  /\ phase' = "failed" /\ err' = code
  /\ UNCHANGED <<portMap, entries, i, found>>

RejectEntry(e) == Entry(e) /\ Fault(e) /\ Fail("normalize_failed")

\* Other roles, and VLANs of an upstream interface.
IgnoreEntry(e) ==
  /\ Entry(e) /\ ~Fault(e)
  /\ HasRole(e) => IsVLAN(e) /\ e.role = "upstream"
  /\ Advance /\ UNCHANGED found

VLANEntry(e) ==
  /\ Entry(e) /\ ~Fault(e) /\ IsVLAN(e) /\ e.role = "downstream"
  /\ pending' = Append(pending, [id |-> e.vlan, address |-> e.subnet, name |-> e.name,
                                 members |-> Ports(e)])
  /\ lans' = ServiceLANs(e)
  /\ ethernets' = Described(e, 0)
  /\ Advance /\ UNCHANGED <<bridges, firstDown>>

UpstreamEntry(e) ==
  /\ Entry(e) /\ ~Fault(e) /\ ~IsVLAN(e) /\ e.role = "upstream"
  /\ bridges' = Append(bridges, Bridge(e, 0))
  /\ ethernets' = Described(e, 1)
  /\ Advance /\ UNCHANGED <<firstDown, pending, lans>>

DownstreamEntry(e) ==
  /\ Entry(e) /\ ~Fault(e) /\ ~IsVLAN(e) /\ e.role = "downstream"
  /\ bridges' = Append(bridges, Bridge(e, DownstreamCount + 1))
  /\ firstDown' = IF firstDown = 0 THEN Len(bridges) + 1 ELSE firstDown
  /\ lans' = ServiceLANs(e)
  /\ ethernets' = Described(e, 1)
  /\ Advance /\ UNCHANGED pending

-----------------------------------------------------------------------------
\* The end of the array: VLANs onto the bridge at firstDown, then the sort.

VLANBefore(v, w) ==
  \/ v.id < w.id
  \/ v.id = w.id /\ v.name < w.name
  \/ v.id = w.id /\ v.name = w.name /\ JoinedBefore(v.members, w.members)

\* Mutant: bridges keep the order they were found in.
BridgeUnsorted(b, c) == FALSE

BridgeBefore(b, c) == b.number < c.number

\* sort.Slice: the elements of s, each once, none before one that is less; the
\* order of elements that are equal is left open.
Sortings(s, Before(_, _)) ==
  {[k \in DOMAIN s |-> s[q[k]]] :
     q \in {p \in Bijection(DOMAIN s, DOMAIN s) :
              \A j, k \in DOMAIN s : j < k => ~Before(s[p[k]], s[p[j]])}}

\* Mutant: the bridges are sorted before the index is used.
WithVLANsSorted(vifs) ==
  LET sorted == CHOOSE s \in Sortings(bridges, BridgeBefore) : TRUE IN
    IF pending = <<>> THEN sorted
    ELSE [sorted EXCEPT
            ![firstDown].vifs = vifs,
            ![firstDown].members = @ \cup UNION {pending[k].members : k \in DOMAIN pending}]

WithVLANs(vifs) ==
  IF pending = <<>> THEN bridges
  ELSE [bridges EXCEPT
          ![firstDown].vifs = vifs,
          ![firstDown].members = @ \cup UNION {pending[k].members : k \in DOMAIN pending}]

MergeVLANs ==
  /\ phase = "interfaces" /\ i > Len(entries)
  /\ IF pending # <<>> /\ firstDown = 0 THEN Fail("missing_config")
     ELSE /\ \E vifs \in Sortings(pending, VLANBefore) :
               bridges' \in Sortings(WithVLANs(vifs), BridgeBefore)
          /\ phase' = "nat"
          /\ UNCHANGED <<portMap, entries, i, firstDown, pending, ethernets, lans, err>>

InterfacesNext ==
  \/ \E e \in Range(entries) : \/ RejectEntry(e) \/ IgnoreEntry(e) \/ VLANEntry(e)
                               \/ UpstreamEntry(e) \/ DownstreamEntry(e)
  \/ MergeVLANs

-----------------------------------------------------------------------------
\* Properties: what the interfaces section is, said of the whole array.

Normalized == phase \in {"nat", "services", "templates", "rendered"}
DownVLANs == {k \in DOMAIN entries : entries[k].role = "downstream" /\ IsVLAN(entries[k])}
\* The entries that become bridges.
Bases == {k \in DOMAIN entries : HasRole(entries[k]) /\ ~IsVLAN(entries[k])}
FirstNumber == IF \E k \in Bases : entries[k].role = "upstream" THEN 0 ELSE 1

\* br0 is the upstream interface and br1, br2, ... the downstream interfaces in
\* the order of the payload, wherever VLANs and other entries stand between
\* them, with their addresses, and nothing else is a bridge.
BridgesFollowPayload ==
  Normalized => \E at \in [DOMAIN bridges -> Bases] :
    /\ Range(at) = Bases
    /\ \A j, k \in DOMAIN bridges : j < k =>
         LET e == entries[at[j]] f == entries[at[k]]
         IN f.role = "downstream" /\ (e.role = "downstream" => at[j] < at[k])
    /\ \A k \in DOMAIN bridges :
         /\ bridges[k].number = FirstNumber + k - 1
         /\ bridges[k].name = entries[at[k]].name
         /\ bridges[k].address = AddressOf(entries[at[k]])

\* Every downstream VLAN of the payload is a VIF of br1 with its address, on ports
\* that br1 allows its identifier on, and no other bridge has a VIF: the index kept since
\* the loop still points at br1 when the VLANs are attached.
VLANsOnFirstDownstream ==
  Normalized => \A k \in DOMAIN bridges :
    LET b == bridges[k] IN
      IF b.number # 1 THEN b.vifs = <<>> ELSE
        /\ Len(b.vifs) = Cardinality(DownVLANs)
        /\ \A j \in DOMAIN b.vifs, m \in DOMAIN b.vifs : j < m => b.vifs[j].id <= b.vifs[m].id
        /\ \A j \in DownVLANs : \A p \in Ports(entries[j]) :
             /\ p \in b.members
             /\ \E v \in Range(b.vifs) :
                  v.id = entries[j].vlan /\ v.address = entries[j].subnet /\ p \in v.members

Naming(p, S) == {k \in S : p \in Ports(entries[k]) /\ entries[k].name # NoName}

\* A port is described by the first named base interface that selects it, or
\* else by the first named VLAN that does, and is not described otherwise.
DescriptionPrecedence ==
  Normalized => \A p \in UNION {portMap[s] : s \in DOMAIN portMap} :
    IF Naming(p, Bases) # {}
    THEN p \in DOMAIN ethernets /\ ethernets[p].name = entries[Min(Naming(p, Bases))].name
    ELSE IF Naming(p, DownVLANs) # {}
    THEN p \in DOMAIN ethernets /\ ethernets[p].name = entries[Min(Naming(p, DownVLANs))].name
    ELSE p \notin DOMAIN ethernets

Served == {k \in DOMAIN entries : entries[k].role = "downstream" /\ entries[k].addressing = "static"}

\* The DHCP and DNS services are those of the downstream static interfaces, base
\* or VLAN, each once and in the order of the payload.
ServicesFollowPayload ==
  Normalized =>
    /\ \A j, k \in DOMAIN lans : j < k => lans[j] < lans[k]
    /\ Range(lans) = Served
=============================================================================
