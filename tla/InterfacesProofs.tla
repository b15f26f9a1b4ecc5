-------------------------- MODULE InterfacesProofs --------------------------
(***************************************************************************)
(* What the interfaces section is, for payloads of any length: the loop    *)
(* over the entries is followed by an invariant that says of the entries   *)
(* read so far what the properties say of all of them, and the merge of    *)
(* the VLANs and the sort at the end keep it.                              *)
(***************************************************************************)
EXTENDS RenderPayload, SequenceLemmas

\* The members of S that have been read.
Handled(S) == {k \in S : k < i}

\* What the entries are, whatever is read.
EntriesInv ==
  /\ entries = request.entries
  /\ Legal(request)
  /\ entries \in Seq(Range(entries))
  /\ \A k \in DOMAIN entries :
       /\ entries[k].dhcp.first \in Int /\ entries[k].dhcp.count \in Int
       /\ entries[k].vlan \in Nat
  /\ i \in Nat \ {0}
  /\ lans \in Seq(DOMAIN entries)

\* The services of the entries read.
ServicesFound ==
  /\ Sequence(lans)
  /\ \A j, k \in DOMAIN lans : j < k => lans[j] < lans[k]
  /\ Range(lans) = Handled(Served)

\* The VLANs of the entries read, each once.
VLANsFound ==
  /\ Sequence(pending)
  /\ Len(pending) = Cardinality(Handled(DownVLANs))
  /\ \A v \in Range(pending) : v.id \in Nat
  /\ \A j \in Handled(DownVLANs) : \E v \in Range(pending) :
       /\ v.id = entries[j].vlan /\ v.address = entries[j].subnet
       /\ v.members = Ports(entries[j])

\* The description a port has after the entries read, and its priority.
Describes(p, S, priority) ==
  /\ p \in DOMAIN ethernets
  /\ ethernets[p] = [name |-> entries[Min(Handled(Naming(p, S)))].name, priority |-> priority]
DescribedFound(p) ==
  IF Handled(Naming(p, Bases)) # {} THEN Describes(p, Bases, 1)
  ELSE IF Handled(Naming(p, DownVLANs)) # {} THEN Describes(p, DownVLANs, 0)
  ELSE p \notin DOMAIN ethernets
Selectable == UNION {portMap[s] : s \in DOMAIN portMap}
DescriptionsFound == \A p \in Selectable : DescribedFound(p)

\* The bridges of the entries read, in their order, and the numbers they have.
Downstream == {k \in DOMAIN bridges : bridges[k].number > 0}
BridgeOf(b, e) ==
  /\ b = Bridge(e, b.number)
  /\ b.number \in Nat /\ (b.number = 0 <=> e.role = "upstream")
BridgesFound ==
  /\ Sequence(bridges)
  /\ \E at \in [DOMAIN bridges -> Handled(Bases)] :
       /\ Range(at) = Handled(Bases)
       /\ \A j, k \in DOMAIN bridges : j < k => at[j] < at[k]
       /\ \A k \in DOMAIN bridges : BridgeOf(bridges[k], entries[at[k]])
NumbersFound ==
  /\ \A j, k \in DOMAIN bridges :
       j < k /\ bridges[k].number > 0 => bridges[j].number < bridges[k].number
  /\ \A j, k \in DOMAIN bridges : bridges[j].number = 0 /\ bridges[k].number = 0 => j = k
  /\ {bridges[k].number : k \in Downstream} = 1 .. DownstreamCount
  /\ firstDown = 0 <=> Downstream = {}
  /\ firstDown # 0 => firstDown \in DOMAIN bridges /\ bridges[firstDown].number = 1

-----------------------------------------------------------------------------
\* The entries are those of the request.

\* The entries of a request are what RequestsAssumption says.
LEMMA EntriesInitially == Init => EntriesInv
<1> SUFFICES ASSUME Init PROVE EntriesInv
  OBVIOUS
<1>1. PICK family \in DOMAIN Requests : request \in Requests[family]
  BY DEF Init
<1>2. entries = request.entries /\ i = 1 /\ lans = <<>>
  BY DEF Init, InterfacesInit
<1>3. Legal(request)
  BY <1>1, RequestsAssumption
<1>4. request.entries \in Seq(Range(request.entries))
  BY <1>3 DEF Legal
<1>5. \A k \in DOMAIN request.entries :
        /\ request.entries[k].dhcp.first \in Int /\ request.entries[k].dhcp.count \in Int
        /\ request.entries[k].vlan \in 0 .. MaxInt
  BY <1>3 DEF Legal
<1>6. \A v \in 0 .. MaxInt : v \in Nat
  BY ServicesAssumption
<1>7. lans \in Seq(DOMAIN entries) /\ i \in Nat \ {0}
  BY <1>2
<1>8. \A k \in DOMAIN entries :
        /\ entries[k].dhcp.first \in Int /\ entries[k].dhcp.count \in Int
        /\ entries[k].vlan \in Nat
  BY <1>2, <1>5, <1>6
<1> QED BY <1>2, <1>3, <1>4, <1>7, <1>8 DEF EntriesInv

\* The steps over the entries remember positions of entries only.
LEMMA EntriesStep == EntriesInv /\ [Next]_vars => EntriesInv'
<1> SUFFICES ASSUME EntriesInv, [Next]_vars PROVE EntriesInv'
  OBVIOUS
<1> USE DEF EntriesInv
<1>1. entries' = entries /\ request' = request
  BY DEF Next, vars, interfaceVars, New, ValidateRequest, InterfacesNext, RejectEntry, IgnoreEntry,
         VLANEntry, UpstreamEntry, DownstreamEntry, MergeVLANs, Advance, Fail, normalizeNAT,
         normalizeServices, RenderTemplates, Done, found
<1>2. CASE UNCHANGED <<i, lans>>
  BY <1>1, <1>2
<1>3. ASSUME NEW e, Entry(e), Advance, lans' = lans \/ lans' = ServiceLANs(e)
      PROVE  EntriesInv'
  <2>1. i' \in Nat \ {0} /\ i \in DOMAIN entries
    BY <1>3 DEF Advance, Entry
  <2>2. Append(lans, i) \in Seq(DOMAIN entries)
    <3> DEFINE S == DOMAIN entries
    <3>1. lans \in Seq(S) /\ i \in S
      BY <2>1
    <3> HIDE DEF S
    <3>2. Append(lans, i) \in Seq(S)
      BY <3>1
    <3>3. QED BY <3>2 DEF S
  <2>3. lans' \in Seq(DOMAIN entries)
    BY <1>3, <2>2 DEF ServiceLANs
  <2>4. QED BY <1>1, <2>1, <2>3
<1>4. CASE InterfacesNext
  <2>1. ASSUME NEW e, RejectEntry(e)
        PROVE  EntriesInv'
    BY <1>2, <2>1 DEF RejectEntry, Fail, found
  <2>2. ASSUME NEW e, IgnoreEntry(e) \/ VLANEntry(e) \/ UpstreamEntry(e) \/ DownstreamEntry(e)
        PROVE  EntriesInv'
    BY <1>3, <2>2 DEF IgnoreEntry, VLANEntry, UpstreamEntry, DownstreamEntry, found
  <2>3. CASE MergeVLANs
    BY <1>2, <2>3 DEF MergeVLANs, Fail, found
  <2>4. QED BY <1>4, <2>1, <2>2, <2>3 DEF InterfacesNext
<1>5. CASE New \/ ValidateRequest \/ normalizeNAT \/ normalizeServices \/ RenderTemplates
  BY <1>2, <1>5 DEF New, ValidateRequest, normalizeNAT, normalizeServices, RenderTemplates, Fail, found
<1>6. CASE Done \/ UNCHANGED vars
  BY <1>2, <1>6 DEF Done, vars, interfaceVars, found
<1>7. QED BY <1>4, <1>5, <1>6 DEF Next

-----------------------------------------------------------------------------
\* One entry read.

Reading ==
  /\ EntriesInv /\ i \in DOMAIN entries
  /\ entries' = entries /\ portMap' = portMap /\ i' = i + 1

\* The sets of entries the properties speak of do not change.
LEMMA SameEntries ==
  ASSUME entries' = entries, portMap' = portMap
  PROVE  /\ Bases' = Bases /\ DownVLANs' = DownVLANs /\ Served' = Served
         /\ Selectable' = Selectable
         /\ \A e : Ports(e)' = Ports(e)
         /\ \A p, S : Naming(p, S)' = Naming(p, S)
BY DEF Bases, DownVLANs, Served, Selectable, Ports, Naming, HasRole, IsVLAN

\* One more is handled, if it is in S.
LEMMA HandledNext ==
  ASSUME Reading, NEW S, S \subseteq DOMAIN entries
  PROVE  /\ {k \in S : k < i'} = IF i \in S THEN Handled(S) \cup {i} ELSE Handled(S)
         /\ Handled(S) \subseteq 1 .. i - 1 /\ i - 1 \in Nat /\ (i - 1) + 1 = i
         /\ S \subseteq Nat
<1>1. DOMAIN entries \subseteq Nat \ {0} /\ i \in Nat \ {0} /\ i' = i + 1
  BY DEF Reading, EntriesInv
<1> QED BY <1>1 DEF Handled

\* A service more, if the entry has one.
LEMMA ServedStep ==
  ASSUME Reading, ServicesFound,
         IF i \in Served THEN lans' = Append(lans, i) ELSE lans' = lans
  PROVE  ServicesFound'
<1>1. Served' = Served /\ Served \subseteq DOMAIN entries
  BY SameEntries DEF Reading, Served
<1>2. CASE i \notin Served
  <2>1. Handled(Served)' = Handled(Served)
    BY <1>1, <1>2, HandledNext DEF Handled
  <2> QED BY <1>2, <2>1 DEF ServicesFound
<1>3. CASE i \in Served
  <2>1. Handled(Served)' = Handled(Served) \cup {i}
    BY <1>1, <1>3, HandledNext DEF Handled
  <2>2. Handled(Served) \subseteq 1 .. i - 1 /\ i \in Nat
    BY <1>1, HandledNext DEF Reading, EntriesInv
  <2>3. /\ Sequence(lans') /\ DOMAIN lans' = 1 .. Len(lans) + 1
        /\ \A j \in DOMAIN lans : lans'[j] = lans[j]
        /\ lans'[Len(lans) + 1] = i
        /\ Range(lans') = Range(lans) \cup {i}
    <3>1. Sequence(lans) /\ lans' = Append(lans, i)
      BY <1>3 DEF ServicesFound
    <3> QED BY <3>1, AppendOne
  <2>4. DOMAIN lans = 1 .. Len(lans) /\ Len(lans) \in Nat
    BY SequenceFacts DEF ServicesFound
  <2>5. \A j \in DOMAIN lans : lans[j] \in Nat /\ lans[j] < i
    <3>1. \A j \in DOMAIN lans : lans[j] \in Handled(Served)
      BY DEF ServicesFound, Range
    <3> QED BY <2>2, <3>1
  <2>6. ASSUME NEW j \in DOMAIN lans', NEW k \in DOMAIN lans', j < k
        PROVE  lans'[j] < lans'[k]
    <3>1. j \in DOMAIN lans /\ (k \in DOMAIN lans \/ k = Len(lans) + 1)
      BY <2>3, <2>4, <2>6
    <3> QED BY <2>3, <2>5, <2>6, <3>1 DEF ServicesFound
  <2> QED BY <2>1, <2>3, <2>6 DEF ServicesFound
<1> QED BY <1>2, <1>3

\* A VLAN more, if the entry is one.
LEMMA VLANsStep ==
  ASSUME Reading, VLANsFound,
         IF i \in DownVLANs
         THEN pending' = Append(pending, [id |-> entries[i].vlan, address |-> entries[i].subnet,
                                          name |-> entries[i].name,
                                          members |-> Ports(entries[i])])
         ELSE pending' = pending
  PROVE  VLANsFound'
<1>1. DownVLANs' = DownVLANs /\ DownVLANs \subseteq DOMAIN entries /\ entries' = entries
      /\ \A e : Ports(e)' = Ports(e)
  BY SameEntries DEF Reading, DownVLANs
<1>2. CASE i \notin DownVLANs
  <2>1. Handled(DownVLANs)' = Handled(DownVLANs)
    BY <1>1, <1>2, HandledNext DEF Handled
  <2> QED BY <1>1, <1>2, <2>1 DEF VLANsFound
<1>3. CASE i \in DownVLANs
  <2> DEFINE v == [id |-> entries[i].vlan, address |-> entries[i].subnet,
                   name |-> entries[i].name, members |-> Ports(entries[i])]
             H == Handled(DownVLANs)
  <2>1. Handled(DownVLANs)' = H \cup {i}
    BY <1>1, <1>3, HandledNext DEF Handled
  <2>2. Cardinality(H \cup {i}) = Cardinality(H) + 1
    <3>1. H \subseteq 1 .. i - 1 /\ i - 1 \in Nat /\ (i - 1) + 1 = i
      BY <1>1, HandledNext
    <3> HIDE DEF H
    <3> QED BY <3>1, CountOneMore
  <2>3. /\ Sequence(pending') /\ Len(pending') = Len(pending) + 1
        /\ Range(pending') = Range(pending) \cup {v}
    <3>1. Sequence(pending) /\ pending' = Append(pending, v)
      BY <1>3 DEF VLANsFound
    <3> HIDE DEF v
    <3> QED BY <3>1, AppendOne
  <2>4. v.id = entries[i].vlan /\ v.address = entries[i].subnet /\ v.members = Ports(entries[i])
    OBVIOUS
  <2> HIDE DEF v, H
  <2>5. Len(pending') = Cardinality(H \cup {i})
    BY <2>2, <2>3 DEF VLANsFound, H
  <2>6. ASSUME NEW j \in H \cup {i}
        PROVE  \E w \in Range(pending') :
                 /\ w.id = entries[j].vlan /\ w.address = entries[j].subnet
                 /\ w.members = Ports(entries[j])
    <3>1. CASE j \in H
      BY <2>3, <3>1 DEF VLANsFound, H
    <3>2. CASE j = i
      BY <2>3, <2>4, <3>2
    <3> QED BY <3>1, <3>2
  <2>7. v.id \in Nat
    BY <2>4 DEF Reading, EntriesInv
  <2> QED BY <1>1, <2>1, <2>3, <2>5, <2>6, <2>7 DEF VLANsFound
<1> QED BY <1>2, <1>3

\* What updateEthernetDescription makes of a port it describes.
LEMMA DescribedPort ==
  ASSUME NEW e, NEW priority, NEW p \in Ports(e), e.name # NoName,
         p \in DOMAIN ethernets => priority > ethernets[p].priority
  PROVE  /\ p \in DOMAIN Described(e, priority)
         /\ Described(e, priority)[p] = [name |-> e.name, priority |-> priority]
BY DEF Described

\* Of one that has a description of that priority.
LEMMA DescribedBefore ==
  ASSUME NEW e, NEW priority, NEW p \in DOMAIN ethernets, ~(priority > ethernets[p].priority)
  PROVE  /\ p \in DOMAIN Described(e, priority)
         /\ Described(e, priority)[p] = ethernets[p]
BY DEF Described

\* And of one that the entry does not name.
LEMMA NotDescribed ==
  ASSUME NEW e, NEW priority, NEW p, ~(p \in Ports(e) /\ e.name # NoName)
  PROVE  /\ p \in DOMAIN Described(e, priority) <=> p \in DOMAIN ethernets
         /\ p \in DOMAIN ethernets => Described(e, priority)[p] = ethernets[p]
BY DEF Described

\* The entries that name a port, after one more is read.
LEMMA NamingNext ==
  ASSUME Reading, NEW p, NEW S, S \subseteq DOMAIN entries
  PROVE  LET H == Handled(Naming(p, S)) IN
           /\ {k \in Naming(p, S) : k < i'} = IF i \in Naming(p, S) THEN H \cup {i} ELSE H
           /\ H # {} => Min(H \cup {i}) = Min(H)
           /\ H = {} => Min(H \cup {i}) = i
<1> DEFINE H == Handled(Naming(p, S))
<1>1. Naming(p, S) \subseteq DOMAIN entries
  BY DEF Naming
<1>2. /\ {k \in Naming(p, S) : k < i'} = IF i \in Naming(p, S) THEN H \cup {i} ELSE H
      /\ H \subseteq 1 .. i - 1 /\ i \in Nat
  BY <1>1, HandledNext DEF Reading, EntriesInv
<1> HIDE DEF H
<1>3. H \subseteq Nat /\ \A y \in H : y <= i
  BY <1>2
<1>4. H = {} => H \cup {i} = {i}
  OBVIOUS
<1> QED BY <1>2, <1>3, <1>4, MinStays, MinOfOne DEF H

\* A port is described by the entry read, if no other of its kind described it.
LEMMA DescriptionsStep ==
  ASSUME Reading, DescriptionsFound,
         IF i \in Bases THEN ethernets' = Described(entries[i], 1)
         ELSE IF i \in DownVLANs THEN ethernets' = Described(entries[i], 0)
         ELSE ethernets' = ethernets
  PROVE  DescriptionsFound'
<1>1. /\ Selectable' = Selectable /\ entries' = entries
      /\ Bases \subseteq DOMAIN entries /\ DownVLANs \subseteq DOMAIN entries
  BY SameEntries DEF Reading, Bases, DownVLANs
<1> SUFFICES ASSUME NEW p \in Selectable PROVE DescribedFound(p)'
  BY <1>1 DEF DescriptionsFound
<1> DEFINE e == entries[i]
           B == Naming(p, Bases)
           V == Naming(p, DownVLANs)
           HB == Handled(B)
           HV == Handled(V)
           named == p \in Ports(e) /\ e.name # NoName
<1>2. B' = B /\ V' = V
  BY SameEntries DEF Reading, Naming
<1>3. /\ (i \in B <=> i \in Bases /\ named)
      /\ (i \in V <=> i \in DownVLANs /\ named)
      /\ ~(i \in Bases /\ i \in DownVLANs)
  BY DEF Naming, Bases, DownVLANs
<1>4. HB' = (IF i \in B THEN HB \cup {i} ELSE HB) /\ HV' = (IF i \in V THEN HV \cup {i} ELSE HV)
  BY <1>1, <1>2, NamingNext DEF Handled
<1>5. /\ HB # {} => Min(HB \cup {i}) = Min(HB)
      /\ HV # {} => Min(HV \cup {i}) = Min(HV)
      /\ HB = {} => Min(HB \cup {i}) = i
      /\ HV = {} => Min(HV \cup {i}) = i
  BY <1>1, NamingNext
<1>6. /\ HB # {} => p \in DOMAIN ethernets
                    /\ ethernets[p] = [name |-> entries[Min(HB)].name, priority |-> 1]
      /\ HB = {} /\ HV # {} => p \in DOMAIN ethernets
                    /\ ethernets[p] = [name |-> entries[Min(HV)].name, priority |-> 0]
      /\ HB = {} /\ HV = {} => p \notin DOMAIN ethernets
  BY DEF DescriptionsFound, DescribedFound, Describes
<1>7. SUFFICES
      /\ HB' # {} => p \in DOMAIN ethernets'
                     /\ ethernets'[p] = [name |-> entries[Min(HB')].name, priority |-> 1]
      /\ HB' = {} /\ HV' # {} => p \in DOMAIN ethernets'
                     /\ ethernets'[p] = [name |-> entries[Min(HV')].name, priority |-> 0]
      /\ HB' = {} /\ HV' = {} => p \notin DOMAIN ethernets'
  BY <1>1 DEF DescribedFound, Describes
<1>8. CASE i \in Bases
  <2>1. ethernets' = Described(e, 1) /\ HV' = HV
    BY <1>3, <1>4, <1>8
  <2>2. CASE named /\ HB = {}
    <3>1. p \in DOMAIN ethernets => 1 > ethernets[p].priority
      BY <1>6, <2>2
    <3>2. p \in DOMAIN ethernets' /\ ethernets'[p] = [name |-> e.name, priority |-> 1]
      BY <2>1, <2>2, <3>1, DescribedPort
    <3>3. HB' = HB \cup {i} /\ Min(HB') = i
      BY <1>3, <1>4, <1>5, <1>8, <2>2
    <3> QED BY <3>2, <3>3
  <2>3. CASE named /\ HB # {}
    <3>1. p \in DOMAIN ethernets /\ ~(1 > ethernets[p].priority)
      BY <1>6, <2>3
    <3>2. p \in DOMAIN ethernets' /\ ethernets'[p] = ethernets[p]
      BY <2>1, <3>1, DescribedBefore
    <3>3. HB' = HB \cup {i} /\ Min(HB') = Min(HB)
      BY <1>3, <1>4, <1>5, <1>8, <2>3
    <3> HIDE DEF HB, HV
    <3> QED BY <1>6, <2>3, <3>2, <3>3
  <2>4. CASE ~named
    <3>1. HB' = HB /\ HV' = HV
      BY <1>3, <1>4, <2>1, <2>4
    <3>2. /\ p \in DOMAIN ethernets' <=> p \in DOMAIN ethernets
          /\ p \in DOMAIN ethernets => ethernets'[p] = ethernets[p]
      BY <2>1, <2>4, NotDescribed
    <3> HIDE DEF HB, HV
    <3> QED BY <1>6, <3>1, <3>2
  <2> QED BY <2>2, <2>3, <2>4
<1>9. CASE i \in DownVLANs
  <2>1. ethernets' = Described(e, 0) /\ HB' = HB
    BY <1>3, <1>4, <1>9
  <2>2. CASE named /\ HB = {} /\ HV = {}
    <3>1. p \in DOMAIN ethernets' /\ ethernets'[p] = [name |-> e.name, priority |-> 0]
      BY <1>6, <2>1, <2>2, DescribedPort
    <3>2. HV' = HV \cup {i} /\ Min(HV') = i
      BY <1>3, <1>4, <1>5, <1>9, <2>2
    <3> QED BY <2>1, <2>2, <3>1, <3>2
  <2>3. CASE named /\ (HB # {} \/ HV # {})
    <3>1. p \in DOMAIN ethernets /\ ~(0 > ethernets[p].priority)
      BY <1>6, <2>3
    <3>2. p \in DOMAIN ethernets' /\ ethernets'[p] = ethernets[p]
      BY <2>1, <3>1, DescribedBefore
    <3>3. HV' = HV \cup {i} /\ (HV # {} => Min(HV') = Min(HV))
      BY <1>3, <1>4, <1>5, <1>9, <2>3
    <3> HIDE DEF HB, HV
    <3> QED BY <1>6, <2>1, <2>3, <3>2, <3>3
  <2>4. CASE ~named
    <3>1. HB' = HB /\ HV' = HV
      BY <1>3, <1>4, <2>1, <2>4
    <3>2. /\ p \in DOMAIN ethernets' <=> p \in DOMAIN ethernets
          /\ p \in DOMAIN ethernets => ethernets'[p] = ethernets[p]
      BY <2>1, <2>4, NotDescribed
    <3> HIDE DEF HB, HV
    <3> QED BY <1>6, <3>1, <3>2
  <2> QED BY <2>2, <2>3, <2>4
<1>10. CASE i \notin Bases /\ i \notin DownVLANs
  <2>1. HB' = HB /\ HV' = HV /\ ethernets' = ethernets
    BY <1>3, <1>4, <1>10
  <2> HIDE DEF HB, HV
  <2> QED BY <1>6, <2>1
<1> QED BY <1>8, <1>9, <1>10

\* A bridge more, if the entry is a base interface.
LEMMA BridgesStep ==
  ASSUME Reading, BridgesFound,
         IF i \in Bases
         THEN \E b : bridges' = Append(bridges, b) /\ BridgeOf(b, entries[i])
         ELSE bridges' = bridges
  PROVE  BridgesFound'
<1>1. Bases' = Bases /\ Bases \subseteq DOMAIN entries /\ entries' = entries
  BY SameEntries DEF Reading, Bases
<1>2. PICK at \in [DOMAIN bridges -> Handled(Bases)] :
        /\ Range(at) = Handled(Bases)
        /\ \A j, k \in DOMAIN bridges : j < k => at[j] < at[k]
        /\ \A k \in DOMAIN bridges : BridgeOf(bridges[k], entries[at[k]])
  BY DEF BridgesFound
<1>3. CASE i \notin Bases
  <2>1. Handled(Bases)' = Handled(Bases)
    BY <1>1, <1>3, HandledNext DEF Handled
  <2>2. bridges' = bridges
    BY <1>3
  <2> QED BY <1>1, <2>1, <2>2 DEF Reading, BridgesFound, BridgeOf, Bridge, AddressOf, Ports
<1>4. CASE i \in Bases
  <2>1. PICK b : bridges' = Append(bridges, b) /\ BridgeOf(b, entries[i])
    BY <1>4
  <2> DEFINE L == Len(bridges)
             H == Handled(Bases)
             to == [k \in DOMAIN bridges' |-> IF k \in DOMAIN bridges THEN at[k] ELSE i]
  <2>2. Handled(Bases)' = H \cup {i}
    BY <1>1, <1>4, HandledNext DEF Handled
  <2>3. H \subseteq 1 .. i - 1 /\ i \in Nat
    BY <1>1, HandledNext DEF Reading, EntriesInv
  <2>4. Sequence(bridges)
    BY DEF BridgesFound
  <2>5. /\ Sequence(bridges') /\ DOMAIN bridges' = 1 .. L + 1
        /\ \A k \in DOMAIN bridges : bridges'[k] = bridges[k]
        /\ bridges'[L + 1] = b
    BY <2>1, <2>4, AppendOne
  <2>6. DOMAIN bridges = 1 .. L /\ L \in Nat
    BY <2>4, SequenceFacts
  <2> HIDE DEF L, H
  <2>7. /\ \A k \in DOMAIN bridges : k \in DOMAIN bridges' /\ to[k] = at[k]
        /\ L + 1 \in DOMAIN bridges' /\ to[L + 1] = i
        /\ \A k \in DOMAIN bridges' : k \in DOMAIN bridges \/ k = L + 1
    BY <2>5, <2>6
  <2>8. to \in [DOMAIN bridges' -> H \cup {i}] /\ DOMAIN to = DOMAIN bridges'
    BY <1>2, <2>7 DEF H
  <2> HIDE DEF to
  <2>9. Range(to) = H \cup {i}
    <3>1. \A x \in H : \E k \in DOMAIN bridges : at[k] = x
      BY <1>2 DEF Range, H
    <3>2. H \cup {i} \subseteq Range(to)
      BY <2>7, <2>8, <3>1 DEF Range
    <3>3. Range(to) \subseteq H \cup {i}
      BY <2>8 DEF Range
    <3> QED BY <3>2, <3>3
  <2>10. ASSUME NEW j \in DOMAIN bridges', NEW k \in DOMAIN bridges', j < k
         PROVE  to[j] < to[k]
    <3>1. j \in DOMAIN bridges /\ (k \in DOMAIN bridges \/ k = L + 1)
      BY <2>5, <2>6, <2>10
    <3>2. at[j] \in H
      BY <1>2, <3>1 DEF H
    <3>3. at[j] < i
      <4>1. at[j] \in 1 .. i - 1
        BY <2>3, <3>2, Zenon
      <4> HIDE <1>2
      <4> QED BY <2>3, <4>1
    <3>4. CASE k \in DOMAIN bridges
      BY <1>2, <2>7, <2>10, <3>1, <3>4
    <3>5. CASE k = L + 1
      BY <2>7, <3>1, <3>3, <3>5
    <3> QED BY <3>1, <3>4, <3>5
  <2>11. ASSUME NEW k \in DOMAIN bridges'
         PROVE  BridgeOf(bridges'[k], entries[to[k]])
    <3>1. CASE k \in DOMAIN bridges
      BY <1>2, <2>5, <2>7, <3>1
    <3>2. CASE k = L + 1
      BY <2>1, <2>5, <2>7, <3>2
    <3> QED BY <2>7, <3>1, <3>2
  <2>12. \A k \in DOMAIN bridges' : BridgeOf(bridges'[k], entries'[to[k]])
    BY <1>1, <2>11
  <2>13. \A x, e : BridgeOf(x, e)' = BridgeOf(x, e)
    BY DEF Reading, BridgeOf, Bridge, AddressOf, Ports
  <2> QED BY <2>2, <2>5, <2>8, <2>9, <2>10, <2>12, <2>13 DEF BridgesFound, H
<1> QED BY <1>3, <1>4

\* The numbers of the bridges after one more is found.
LEMMA NumbersStep ==
  ASSUME Sequence(bridges), \A k \in DOMAIN bridges : bridges[k].number \in Nat,
         NumbersFound, firstDown \in Nat,
         \/ bridges' = bridges /\ firstDown' = firstDown
         \/ /\ \E b : bridges' = Append(bridges, b) /\ b.number = 0
            /\ ~HasUpstream /\ firstDown' = firstDown
         \/ /\ \E b : bridges' = Append(bridges, b) /\ b.number = DownstreamCount + 1
            /\ firstDown' = IF firstDown = 0 THEN Len(bridges) + 1 ELSE firstDown
  PROVE  NumbersFound' /\ firstDown' \in Nat
<1> DEFINE L == Len(bridges)
           Numbers == {bridges[k].number : k \in Downstream}
<1>1. DOMAIN bridges = 1 .. L /\ L \in Nat
  BY SequenceFacts
<1>2. Downstream \subseteq 1 .. L
  BY <1>1 DEF Downstream
<1>3. DownstreamCount = Cardinality(Downstream)
  BY DEF DownstreamCount, Downstream
<1>4. DownstreamCount \in Nat /\ (DownstreamCount = 0 <=> Downstream = {})
  BY <1>1, <1>2, <1>3, CountOneMore
<1>5. CASE bridges' = bridges /\ firstDown' = firstDown
  BY <1>5 DEF NumbersFound, Downstream, DownstreamCount
<1>6. ASSUME NEW b, bridges' = Append(bridges, b)
      PROVE  /\ DOMAIN bridges' = 1 .. L + 1
             /\ \A k \in DOMAIN bridges : k \in DOMAIN bridges' /\ bridges'[k] = bridges[k]
             /\ bridges'[L + 1] = b /\ L + 1 \in DOMAIN bridges'
             /\ \A k \in DOMAIN bridges' : k \in DOMAIN bridges \/ k = L + 1
  <2>1. /\ DOMAIN bridges' = 1 .. L + 1
        /\ \A k \in DOMAIN bridges : k \in DOMAIN bridges' /\ bridges'[k] = bridges[k]
        /\ bridges'[L + 1] = b
    BY <1>6, AppendOne
  <2> QED BY <1>1, <2>1
<1>7. ASSUME NEW b, bridges' = Append(bridges, b), b.number = 0,
             ~HasUpstream, firstDown' = firstDown
      PROVE  NumbersFound' /\ firstDown' \in Nat
  <2>10. /\ DOMAIN bridges' = 1 .. L + 1
         /\ \A k \in DOMAIN bridges : k \in DOMAIN bridges' /\ bridges'[k] = bridges[k]
         /\ bridges'[L + 1] = b /\ L + 1 \in DOMAIN bridges'
         /\ \A k \in DOMAIN bridges' : k \in DOMAIN bridges \/ k = L + 1
    BY <1>6, <1>7
  <2>11. L + 1 \notin DOMAIN bridges
    BY <1>1
  <2> HIDE DEF L
  <2>1. \A k \in DOMAIN bridges : bridges[k].number # 0
    BY <1>7 DEF HasUpstream
  <2>2. Downstream' = Downstream
    BY <1>6, <1>7 DEF Downstream
  <2>3. DownstreamCount' = DownstreamCount
    BY <1>3, <2>2 DEF DownstreamCount, Downstream
  <2>4. {bridges'[k].number : k \in Downstream'} = 1 .. DownstreamCount'
    BY <1>6, <1>7, <2>2, <2>3 DEF NumbersFound, Downstream
  <2>5. ASSUME NEW j \in DOMAIN bridges', NEW k \in DOMAIN bridges'
        PROVE  /\ j < k /\ bridges'[k].number > 0 => bridges'[j].number < bridges'[k].number
               /\ bridges'[j].number = 0 /\ bridges'[k].number = 0 => j = k
    <3>1. (j \in DOMAIN bridges /\ j # L + 1) \/ (j = L + 1 /\ j \notin DOMAIN bridges)
      BY <1>1, <2>10, <2>11, Zenon
    <3>2. (k \in DOMAIN bridges /\ k # L + 1) \/ (k = L + 1 /\ k \notin DOMAIN bridges)
      BY <1>1, <2>10, <2>11, Zenon
    <3>3. j < k => j \in DOMAIN bridges
      BY <1>1, <3>1, <3>2
    <3> QED BY <1>7, <2>10, <2>1, <3>1, <3>2, <3>3 DEF NumbersFound
  <2>6. firstDown' # 0 => firstDown' \in DOMAIN bridges' /\ bridges'[firstDown'].number = 1
    BY <1>6, <1>7 DEF NumbersFound
  <2>7. firstDown' = 0 <=> Downstream' = {}
    BY <1>7, <2>2 DEF NumbersFound
  <2> QED BY <1>7, <2>4, <2>5, <2>6, <2>7 DEF NumbersFound
<1>8. ASSUME NEW b, bridges' = Append(bridges, b), b.number = DownstreamCount + 1,
             firstDown' = IF firstDown = 0 THEN Len(bridges) + 1 ELSE firstDown
      PROVE  NumbersFound' /\ firstDown' \in Nat
  <2>1. Cardinality(Downstream \cup {L + 1}) = DownstreamCount + 1
    BY <1>1, <1>2, <1>3, CountOneMore
  <2>10. /\ DOMAIN bridges' = 1 .. L + 1
         /\ \A k \in DOMAIN bridges : k \in DOMAIN bridges' /\ bridges'[k] = bridges[k]
         /\ bridges'[L + 1] = b /\ L + 1 \in DOMAIN bridges'
         /\ \A k \in DOMAIN bridges' : k \in DOMAIN bridges \/ k = L + 1
    BY <1>6, <1>8
  <2>11. L + 1 \notin DOMAIN bridges
    BY <1>1
  <2> HIDE DEF L
  <2>2. Downstream' = Downstream \cup {L + 1}
    BY <1>4, <1>6, <1>8 DEF Downstream
  <2>3. DownstreamCount' = DownstreamCount + 1
    BY <2>1, <2>2 DEF DownstreamCount, Downstream
  <2>4. {bridges'[k].number : k \in Downstream'} = 1 .. DownstreamCount'
    <3>1. {bridges'[k].number : k \in Downstream'} = Numbers \cup {DownstreamCount + 1}
      BY <1>6, <1>8, <2>2 DEF Downstream
    <3>2. Numbers = 1 .. DownstreamCount
      BY DEF NumbersFound
    <3> QED BY <1>4, <2>3, <3>1, <3>2, SMTT(30)
  <2>5. \A j \in DOMAIN bridges : bridges[j].number < DownstreamCount + 1
    <3>1. ASSUME NEW j \in Downstream PROVE bridges[j].number \in 1 .. DownstreamCount
      BY DEF NumbersFound
    <3>2. \A j \in DOMAIN bridges : j \in Downstream \/ bridges[j].number = 0
      BY DEF Downstream
    <3> QED BY <1>4, <3>1, <3>2
  <2>6. ASSUME NEW j \in DOMAIN bridges', NEW k \in DOMAIN bridges'
        PROVE  /\ j < k /\ bridges'[k].number > 0 => bridges'[j].number < bridges'[k].number
               /\ bridges'[j].number = 0 /\ bridges'[k].number = 0 => j = k
    <3>1. (j \in DOMAIN bridges /\ j # L + 1) \/ (j = L + 1 /\ j \notin DOMAIN bridges)
      BY <1>1, <2>10, <2>11, Zenon
    <3>2. (k \in DOMAIN bridges /\ k # L + 1) \/ (k = L + 1 /\ k \notin DOMAIN bridges)
      BY <1>1, <2>10, <2>11, Zenon
    <3>3. j < k => j \in DOMAIN bridges
      BY <1>1, <3>1, <3>2
    <3>4. DownstreamCount + 1 # 0
      BY <1>4
    <3> QED BY <1>6, <1>8, <2>5, <3>1, <3>2, <3>3, <3>4 DEF NumbersFound
  <2>7. firstDown = 0 => b.number = 1
    BY <1>4, <1>8 DEF NumbersFound
  <2>8. firstDown' # 0 /\ firstDown' \in DOMAIN bridges' /\ bridges'[firstDown'].number = 1
        /\ firstDown' \in Nat
    <3>1. Len(bridges) + 1 # 0 /\ Len(bridges) + 1 \in Nat
      BY <1>1 DEF L
    <3>2. CASE firstDown = 0
      <4>1. firstDown' = L + 1 /\ firstDown' # 0 /\ firstDown' \in Nat
        BY <1>8, <3>1, <3>2 DEF L
      <4>2. bridges'[L + 1].number = 1 /\ L + 1 \in DOMAIN bridges'
        BY <2>7, <2>10, <3>2
      <4> QED BY <4>1, <4>2
    <3>3. CASE firstDown # 0
      <4>1. firstDown' = firstDown
        BY <1>8, <3>3
      <4>2. firstDown \in DOMAIN bridges /\ bridges[firstDown].number = 1
        BY <3>3 DEF NumbersFound
      <4> QED BY <2>10, <3>3, <4>1, <4>2
    <3> QED BY <3>2, <3>3
  <2>9. Downstream' # {}
    BY <2>2
  <2> QED BY <2>4, <2>6, <2>8, <2>9 DEF NumbersFound
<1> QED BY <1>5, <1>7, <1>8

-----------------------------------------------------------------------------
\* What all sections of the entries read give, and the loop.

Found ==
  /\ ServicesFound /\ VLANsFound /\ DescriptionsFound
  /\ BridgesFound /\ NumbersFound /\ firstDown \in Nat

\* The entry read adds to each section what the properties count it in.
LEMMA EntryStep ==
  ASSUME EntriesInv, Found, NEW e,
         IgnoreEntry(e) \/ VLANEntry(e) \/ UpstreamEntry(e) \/ DownstreamEntry(e)
  PROVE  Found' /\ phase' = "interfaces"
<1>1. /\ DOMAIN entries = 1 .. Len(entries) /\ Len(entries) \in Nat
      /\ i \in Nat \ {0} /\ i \in DOMAIN entries /\ e = entries[i]
  BY DEF EntriesInv, IgnoreEntry, VLANEntry, UpstreamEntry, DownstreamEntry, Entry
<1>2. Reading /\ phase' = phase /\ phase = "interfaces"
  BY <1>1 DEF Reading, Advance, IgnoreEntry, VLANEntry, UpstreamEntry, DownstreamEntry, Entry
<1>4. /\ (i \in Bases <=> HasRole(e) /\ ~IsVLAN(e))
      /\ (i \in DownVLANs <=> e.role = "downstream" /\ IsVLAN(e))
      /\ (i \in Served <=> e.role = "downstream" /\ e.addressing = "static")
  BY <1>1 DEF Bases, DownVLANs, Served
<1>5. ServicesFound'
  <2>1. IF i \in Served THEN lans' = Append(lans, i) ELSE lans' = lans
    BY <1>4 DEF IgnoreEntry, VLANEntry, UpstreamEntry, DownstreamEntry, found, HasRole, ServiceLANs
  <2> QED BY <1>2, <2>1, ServedStep DEF Found
<1>6. VLANsFound'
  <2>1. IF i \in DownVLANs
        THEN pending' = Append(pending, [id |-> entries[i].vlan, address |-> entries[i].subnet,
                                         name |-> entries[i].name,
                                         members |-> Ports(entries[i])])
        ELSE pending' = pending
    BY <1>1, <1>4 DEF IgnoreEntry, VLANEntry, UpstreamEntry, DownstreamEntry, found, HasRole
  <2> QED BY <1>2, <2>1, VLANsStep DEF Found
<1>7. DescriptionsFound'
  <2>1. IF i \in Bases THEN ethernets' = Described(entries[i], 1)
        ELSE IF i \in DownVLANs THEN ethernets' = Described(entries[i], 0)
        ELSE ethernets' = ethernets
    BY <1>1, <1>4 DEF IgnoreEntry, VLANEntry, UpstreamEntry, DownstreamEntry, found, HasRole
  <2> QED BY <1>2, <2>1, DescriptionsStep DEF Found
<1>8. /\ Sequence(bridges)
      /\ \A k \in DOMAIN bridges : bridges[k].number \in Nat
  BY DEF Found, BridgesFound, BridgeOf
<1>9. DownstreamCount \in Nat
  <2>1. DOMAIN bridges = 1 .. Len(bridges) /\ Len(bridges) \in Nat
    BY <1>8, SequenceFacts
  <2>2. {k \in DOMAIN bridges : bridges[k].number > 0} \subseteq 1 .. Len(bridges)
    BY <2>1
  <2> QED BY <2>1, <2>2, CountOneMore DEF DownstreamCount
<1>10. BridgesFound'
  <2>1. IF i \in Bases
        THEN \E b : bridges' = Append(bridges, b) /\ BridgeOf(b, entries[i])
        ELSE bridges' = bridges
    <3>1. CASE IgnoreEntry(e) \/ VLANEntry(e)
      BY <1>4, <3>1 DEF IgnoreEntry, VLANEntry, found, HasRole
    <3>2. CASE UpstreamEntry(e)
      <4>1. BridgeOf(Bridge(e, 0), e) /\ bridges' = Append(bridges, Bridge(e, 0)) /\ i \in Bases
        BY <1>4, <3>2 DEF UpstreamEntry, BridgeOf, Bridge, HasRole
      <4> QED BY <1>1, <4>1
    <3>3. CASE DownstreamEntry(e)
      <4> DEFINE b == Bridge(e, DownstreamCount + 1)
      <4>1. b.number = DownstreamCount + 1 /\ b.number \in Nat /\ b.number # 0
        BY <1>9 DEF Bridge
      <4>2. e.role # "upstream" /\ bridges' = Append(bridges, b) /\ i \in Bases
        BY <1>4, <3>3 DEF DownstreamEntry, HasRole
      <4>3. BridgeOf(b, e)
        BY <4>1, <4>2 DEF BridgeOf
      <4> QED BY <1>1, <4>2, <4>3
    <3> QED BY <3>1, <3>2, <3>3
  <2> QED BY <1>2, <2>1, BridgesStep DEF Found
<1>11. NumbersFound' /\ firstDown' \in Nat
  <2>1. \/ bridges' = bridges /\ firstDown' = firstDown
        \/ /\ \E b : bridges' = Append(bridges, b) /\ b.number = 0
           /\ ~HasUpstream /\ firstDown' = firstDown
        \/ /\ \E b : bridges' = Append(bridges, b) /\ b.number = DownstreamCount + 1
           /\ firstDown' = IF firstDown = 0 THEN Len(bridges) + 1 ELSE firstDown
    <3>1. CASE IgnoreEntry(e) \/ VLANEntry(e)
      BY <3>1 DEF IgnoreEntry, VLANEntry, found
    <3>2. CASE UpstreamEntry(e)
      <4>1. Bridge(e, 0).number = 0
        BY DEF Bridge
      <4>2. ~HasUpstream
        BY <3>2 DEF UpstreamEntry, Fault, HasRole
      <4> QED BY <3>2, <4>1, <4>2 DEF UpstreamEntry
    <3>3. CASE DownstreamEntry(e)
      <4>1. Bridge(e, DownstreamCount + 1).number = DownstreamCount + 1
        BY DEF Bridge
      <4> QED BY <3>3, <4>1 DEF DownstreamEntry
    <3> QED BY <3>1, <3>2, <3>3
  <2> QED BY <1>8, <2>1, NumbersStep DEF Found
<1> QED BY <1>2, <1>5, <1>6, <1>7, <1>10, <1>11 DEF Found

\* Before the first entry nothing is found, which is what is to be found.
LEMMA NothingFound ==
  ASSUME InterfacesInit, DOMAIN entries \subseteq Nat \ {0}
  PROVE  Found
<1>1. \A S \in SUBSET DOMAIN entries : Handled(S) = {}
  BY DEF Handled, InterfacesInit
<1>2. Handled(Served) = {} /\ Handled(DownVLANs) = {} /\ Handled(Bases) = {}
  BY <1>1 DEF Served, DownVLANs, Bases
<1>3. \A p : Handled(Naming(p, Bases)) = {} /\ Handled(Naming(p, DownVLANs)) = {}
  BY <1>1 DEF Naming, DownVLANs, Bases
<1>4. Sequence(<<>>) /\ DOMAIN <<>> = {} /\ Range(<<>>) = {} /\ Len(<<>>) = 0
  BY DEF Sequence, Range
<1>5. ServicesFound
  BY <1>2, <1>4 DEF ServicesFound, InterfacesInit
<1>6. Cardinality({}) = 0
  BY FS_EmptySet
<1>7. VLANsFound
  BY <1>2, <1>4, <1>6 DEF VLANsFound, InterfacesInit
<1>8. DescriptionsFound
  BY <1>3, <1>4 DEF DescriptionsFound, DescribedFound, InterfacesInit
<1>9. BridgesFound
  <2>1. <<>> \in [DOMAIN bridges -> Handled(Bases)] /\ Range(<<>>) = Handled(Bases)
    BY <1>2, <1>4 DEF InterfacesInit
  <2> QED BY <1>4, <2>1 DEF BridgesFound, InterfacesInit
<1>10. NumbersFound /\ firstDown \in Nat
  <2>1. DownstreamCount = 0 /\ Downstream = {} /\ DOMAIN bridges = {}
    BY <1>4, <1>6 DEF DownstreamCount, Downstream, InterfacesInit
  <2> QED BY <2>1 DEF NumbersFound, InterfacesInit
<1> QED BY <1>5, <1>7, <1>8, <1>9, <1>10 DEF Found

-----------------------------------------------------------------------------
\* The end of the array: all entries are read.

AllRead == EntriesInv /\ Found /\ i > Len(entries)

\* MergeVLANs when it does not fail, with the orders it chose.
Merging(vifs, p) ==
  /\ vifs \in Sortings(pending, VLANBefore)
  /\ p \in Bijection(DOMAIN bridges, DOMAIN bridges)
  /\ \A j, k \in DOMAIN bridges :
       j < k => ~(WithVLANs(vifs)[p[k]].number < WithVLANs(vifs)[p[j]].number)
  /\ bridges' = [k \in DOMAIN bridges |-> WithVLANs(vifs)[p[k]]]
  /\ pending # <<>> => firstDown # 0
  /\ UNCHANGED <<portMap, entries, i, firstDown, pending, ethernets, lans, err>>

\* The sections are of the whole array.
LEMMA HandledAll ==
  ASSUME AllRead, NEW S, S \subseteq DOMAIN entries
  PROVE  Handled(S) = S
BY DEF AllRead, EntriesInv, Handled

\* The VIFs are the VLANs in another order, by their identifiers.
LEMMA VIFs ==
  ASSUME AllRead, NEW vifs \in Sortings(pending, VLANBefore)
  PROVE  /\ Sequence(vifs) /\ Len(vifs) = Cardinality(DownVLANs) /\ Range(vifs) = Range(pending)
         /\ \A j, m \in DOMAIN vifs : j < m => vifs[j].id <= vifs[m].id
<1>1. Sequence(pending) /\ \A v \in Range(pending) : v.id \in Nat
  BY DEF AllRead, Found, VLANsFound
<1>2. Len(pending) = Cardinality(DownVLANs)
  <2>1. DownVLANs \subseteq DOMAIN entries
    BY DEF DownVLANs
  <2> QED BY <2>1, HandledAll DEF AllRead, Found, VLANsFound
<1>3. PICK q \in Bijection(DOMAIN pending, DOMAIN pending) :
        /\ \A j, k \in DOMAIN pending : j < k => ~VLANBefore(pending[q[k]], pending[q[j]])
        /\ vifs = [k \in DOMAIN pending |-> pending[q[k]]]
  BY DEF Sortings
<1>4. /\ Sequence(vifs) /\ Len(vifs) = Len(pending) /\ DOMAIN vifs = DOMAIN pending
      /\ Range(vifs) = Range(pending)
      /\ \A k \in DOMAIN pending : q[k] \in DOMAIN pending /\ vifs[k] = pending[q[k]]
  BY <1>1, <1>3, Permuted
<1>5. ASSUME NEW j \in DOMAIN vifs, NEW m \in DOMAIN vifs, j < m
      PROVE  vifs[j].id <= vifs[m].id
  <2>1. ~(vifs[m].id < vifs[j].id)
    BY <1>3, <1>4, <1>5 DEF VLANBefore
  <2>2. vifs[j].id \in Nat /\ vifs[m].id \in Nat
    BY <1>1, <1>4 DEF Range
  <2> QED BY <2>1, <2>2
<1> QED BY <1>2, <1>4, <1>5

\* Attaching the VLANs changes the VIFs and the ports of the first downstream
\* bridge only, which is number 1.
LEMMA Attached ==
  ASSUME AllRead, NEW vifs, pending # <<>> => firstDown # 0
  PROVE  /\ Sequence(WithVLANs(vifs)) /\ DOMAIN WithVLANs(vifs) = DOMAIN bridges
         /\ \A k \in DOMAIN bridges :
              LET b == WithVLANs(vifs)[k] IN
                /\ b.number = bridges[k].number /\ b.name = bridges[k].name
                /\ b.address = bridges[k].address
                /\ b.members \subseteq
                     bridges[k].members \cup UNION {pending[j].members : j \in DOMAIN pending}
                /\ b.number # 1 \/ pending = <<>> => b.vifs = <<>>
                /\ b.number = 1 /\ pending # <<>> =>
                     /\ b.vifs = vifs
                     /\ \A v \in Range(pending) : v.members \subseteq b.members
<1> DEFINE w == WithVLANs(vifs)
<1>1. Sequence(bridges) /\ \A k \in DOMAIN bridges : \E e : BridgeOf(bridges[k], e)
  BY DEF AllRead, Found, BridgesFound
<1>2. \A k \in DOMAIN bridges : \E e :
        /\ bridges[k] = Bridge(e, bridges[k].number) /\ bridges[k].number \in Nat
        /\ bridges[k].vifs = <<>>
  BY <1>1 DEF BridgeOf, Bridge
<1>3. CASE pending = <<>>
  BY <1>1, <1>2, <1>3 DEF WithVLANs
<1>4. CASE pending # <<>>
  <2> DEFINE members == UNION {pending[k].members : k \in DOMAIN pending}
  <2>1. firstDown \in DOMAIN bridges /\ bridges[firstDown].number = 1
    BY <1>4 DEF AllRead, Found, NumbersFound
  <2>2. \A k \in DOMAIN bridges : bridges[k].number = 1 => k = firstDown
    <3>1. DOMAIN bridges \subseteq Nat
      BY <1>1, SequenceFacts
    <3>2. \A j, k \in DOMAIN bridges :
            j < k /\ bridges[k].number > 0 => bridges[j].number < bridges[k].number
      BY DEF AllRead, Found, NumbersFound
    <3> QED BY <2>1, <3>1, <3>2
  <2>3. /\ DOMAIN w = DOMAIN bridges
        /\ \A k \in DOMAIN bridges : k # firstDown => w[k] = bridges[k]
        /\ w[firstDown] = [bridges[firstDown] EXCEPT !.vifs = vifs,
                                                    !.members = @ \cup members]
    BY <1>4, <2>1 DEF WithVLANs
  <2>4. \A v \in Range(pending) : v.members \subseteq members
    BY DEF Range
  <2> HIDE DEF members, w
  <2>5. /\ w[firstDown].number = bridges[firstDown].number
        /\ w[firstDown].name = bridges[firstDown].name
        /\ w[firstDown].address = bridges[firstDown].address
        /\ w[firstDown].vifs = vifs
        /\ w[firstDown].members = bridges[firstDown].members \cup members
    <3>1. PICK e : bridges[firstDown] = Bridge(e, bridges[firstDown].number)
      BY <1>2, <2>1
    <3> QED BY <2>3, <3>1 DEF Bridge
  <2>6. Sequence(w)
    <3>1. DOMAIN w = 1 .. Len(bridges) /\ Len(bridges) \in Nat
      BY <1>1, <2>3, SequenceFacts
    <3>2. w = [k \in 1 .. Len(bridges) |-> w[k]]
      <4>1. w = [k \in DOMAIN w |-> w[k]]
        BY <1>4, <2>1 DEF w, WithVLANs
      <4> QED BY <3>1, <4>1
    <3>3. w \in [1 .. Len(bridges) -> Range(w)]
      BY <3>1, <3>2 DEF Range
    <3> QED BY <3>1, <3>3, IsASeq DEF Sequence
  <2>7. ASSUME NEW k \in DOMAIN bridges
        PROVE  /\ w[k].number = bridges[k].number /\ w[k].name = bridges[k].name
               /\ w[k].address = bridges[k].address
               /\ w[k].members \subseteq bridges[k].members \cup members
               /\ w[k].number # 1 => w[k].vifs = <<>>
               /\ w[k].number = 1 =>
                    w[k].vifs = vifs /\ \A v \in Range(pending) : v.members \subseteq w[k].members
    <3>1. CASE k = firstDown
      BY <2>1, <2>4, <2>5, <3>1
    <3>2. CASE k # firstDown
      BY <1>2, <2>2, <2>3, <3>2
    <3> QED BY <3>1, <3>2
  <2> QED BY <1>4, <2>3, <2>6, <2>7 DEF w, members
<1> QED BY <1>3, <1>4

\* The bridges after the sort: each is one of before, and the numbers count.
LEMMA BridgesSorted ==
  ASSUME AllRead, NEW vifs, NEW p, Merging(vifs, p)
  PROVE  /\ Sequence(bridges') /\ DOMAIN bridges' = DOMAIN bridges
         /\ DOMAIN bridges = 1 .. Len(bridges) /\ Len(bridges) \in Nat
         /\ \A k \in DOMAIN bridges :
              /\ p[k] \in DOMAIN bridges /\ bridges'[k] = WithVLANs(vifs)[p[k]]
              /\ bridges'[k].number = bridges[p[k]].number
              /\ bridges'[k].number \in Nat
         /\ \A k \in DOMAIN bridges : \E j \in DOMAIN bridges : p[j] = k
         /\ \A j, k \in DOMAIN bridges : j < k => bridges'[j].number < bridges'[k].number
<1> DEFINE w == WithVLANs(vifs)
<1>1. /\ Sequence(w) /\ DOMAIN w = DOMAIN bridges
      /\ \A k \in DOMAIN bridges : w[k].number = bridges[k].number
  BY Attached DEF Merging
<1>2. Sequence(bridges) /\ \A k \in DOMAIN bridges : bridges[k].number \in Nat
  BY DEF AllRead, Found, BridgesFound, BridgeOf
<1>3. DOMAIN bridges = 1 .. Len(bridges) /\ Len(bridges) \in Nat
  BY <1>2, SequenceFacts
<1>4. /\ p \in Bijection(DOMAIN w, DOMAIN w) /\ bridges' = [k \in DOMAIN w |-> w[p[k]]]
      /\ \A j, k \in DOMAIN bridges : j < k => ~(w[p[k]].number < w[p[j]].number)
  BY <1>1 DEF Merging
<1> HIDE DEF w
<1>5. /\ Sequence(bridges') /\ DOMAIN bridges' = DOMAIN bridges
      /\ \A k \in DOMAIN bridges : p[k] \in DOMAIN bridges /\ bridges'[k] = w[p[k]]
      /\ \A j, k \in DOMAIN bridges : p[j] = p[k] => j = k
      /\ \A k \in DOMAIN bridges : \E j \in DOMAIN bridges : p[j] = k
  <2>1. /\ Sequence(bridges') /\ DOMAIN bridges' = DOMAIN w
        /\ \A k \in DOMAIN w : p[k] \in DOMAIN w /\ bridges'[k] = w[p[k]]
        /\ \A j, k \in DOMAIN w : p[j] = p[k] => j = k
        /\ \A k \in DOMAIN w : \E j \in DOMAIN w : p[j] = k
    <3>1. p \in Bijection(DOMAIN w, DOMAIN w) /\ bridges' = [k \in DOMAIN w |-> w[p[k]]]
          /\ Sequence(w)
      BY <1>1, <1>4
    <3> HIDE <1>1, <1>4
    <3> QED BY <3>1, Permuted, SMTT(60)
  <2> QED BY <1>1, <2>1
<1>6. \A k \in DOMAIN bridges : /\ bridges'[k].number = bridges[p[k]].number
                               /\ bridges'[k].number \in Nat
  <2> SUFFICES ASSUME NEW k \in DOMAIN bridges
               PROVE  /\ bridges'[k].number = bridges[p[k]].number
                      /\ bridges'[k].number \in Nat
    OBVIOUS
  <2>1. p[k] \in DOMAIN bridges /\ bridges'[k] = w[p[k]]
    BY <1>5
  <2> QED BY <1>1, <1>2, <2>1
<1>7. ASSUME NEW j \in DOMAIN bridges, NEW k \in DOMAIN bridges, j < k
      PROVE  bridges'[j].number < bridges'[k].number
  <2>1. ~(bridges'[k].number < bridges'[j].number)
    BY <1>4, <1>5, <1>7
  <2>2. p[j] # p[k]
    <3>1. j # k
      BY <1>3, <1>7
    <3> QED BY <1>5, <3>1
  <2>3. ASSUME NEW x \in DOMAIN bridges, NEW y \in DOMAIN bridges, x < y
        PROVE  bridges[x].number # bridges[y].number
    <3>1. bridges[y].number > 0 => bridges[x].number < bridges[y].number
      BY <2>3 DEF AllRead, Found, NumbersFound
    <3>2. ~(bridges[x].number = 0 /\ bridges[y].number = 0)
      BY <1>3, <2>3 DEF AllRead, Found, NumbersFound
    <3> QED BY <1>2, <3>1, <3>2
  <2>4. bridges[p[j]].number # bridges[p[k]].number
    <3>1. p[j] < p[k] \/ p[k] < p[j]
      <4>1. p[j] \in 1 .. Len(bridges) /\ p[k] \in 1 .. Len(bridges)
        BY <1>3, <1>5
      <4> QED BY <1>3, <2>2, <4>1
    <3> QED BY <1>5, <2>3, <3>1
  <2> QED BY <1>6, <2>1, <2>4
<1> QED BY <1>3, <1>5, <1>6, <1>7 DEF w

\* BridgesFollowPayload, of bridges bs for the entries es.
Following(bs, es, bases, first) ==
  \E at \in [DOMAIN bs -> bases] :
    /\ Range(at) = bases
    /\ \A j, k \in DOMAIN bs : j < k =>
         LET e == es[at[j]] f == es[at[k]]
         IN f.role = "downstream" /\ (e.role = "downstream" => at[j] < at[k])
    /\ \A k \in DOMAIN bs :
         /\ bs[k].number = first + k - 1
         /\ bs[k].name = es[at[k]].name
         /\ bs[k].address = AddressOf(es[at[k]])

\* The bridges are the base interfaces, numbered from the first.
LEMMA BridgesMerged ==
  ASSUME AllRead, NEW vifs, NEW p, Merging(vifs, p)
  PROVE  BridgesFollowPayload'
<1> DEFINE Of(k) == bridges[p[k]]
<1>1. Bases' = Bases /\ Bases \subseteq DOMAIN entries /\ entries' = entries
      /\ FirstNumber' = FirstNumber
  BY SameEntries DEF Merging, Bases, FirstNumber
<1>2. /\ DOMAIN bridges' = DOMAIN bridges
      /\ DOMAIN bridges = 1 .. Len(bridges) /\ Len(bridges) \in Nat
      /\ \A k \in DOMAIN bridges :
           /\ p[k] \in DOMAIN bridges /\ bridges'[k] = WithVLANs(vifs)[p[k]]
           /\ bridges'[k].number = bridges[p[k]].number
           /\ bridges'[k].number \in Nat
      /\ \A k \in DOMAIN bridges : \E j \in DOMAIN bridges : p[j] = k
      /\ \A j, k \in DOMAIN bridges : j < k => bridges'[j].number < bridges'[k].number
  BY BridgesSorted
<1>3. PICK at \in [DOMAIN bridges -> Bases] :
        /\ Range(at) = Bases
        /\ \A j, k \in DOMAIN bridges : j < k => at[j] < at[k]
        /\ \A k \in DOMAIN bridges : BridgeOf(bridges[k], entries[at[k]])
  <2>1. Handled(Bases) = Bases
    BY <1>1, HandledAll
  <2> QED BY <2>1 DEF AllRead, Found, BridgesFound
<1>4. \A k \in DOMAIN bridges :
        /\ bridges[k].name = entries[at[k]].name
        /\ bridges[k].address = AddressOf(entries[at[k]])
        /\ bridges[k].number = 0 <=> entries[at[k]].role = "upstream"
        /\ bridges[k].number > 0 <=> entries[at[k]].role = "downstream"
  <2>1. ASSUME NEW k \in DOMAIN bridges
        PROVE  /\ bridges[k].name = entries[at[k]].name
               /\ bridges[k].address = AddressOf(entries[at[k]])
               /\ bridges[k].number \in Nat
               /\ bridges[k].number = 0 <=> entries[at[k]].role = "upstream"
               /\ HasRole(entries[at[k]])
    <3>1. BridgeOf(bridges[k], entries[at[k]]) /\ at[k] \in Bases
      BY <1>3
    <3> QED BY <3>1 DEF BridgeOf, Bridge, Bases
  <2> QED BY <2>1 DEF HasRole
<1> DEFINE to == [k \in DOMAIN bridges |-> at[p[k]]]
<1>5. to \in [DOMAIN bridges -> Bases] /\ \A k \in DOMAIN bridges : to[k] = at[p[k]]
  BY <1>2, <1>3
<1>6. Range(to) = Bases
  <2>1. Range(to) \subseteq Bases
    BY <1>5 DEF Range
  <2>2. ASSUME NEW x \in Bases PROVE x \in Range(to)
    <3>1. PICK k \in DOMAIN bridges : at[k] = x
      BY <1>3 DEF Range
    <3>2. PICK j \in DOMAIN bridges : p[j] = k
      BY <1>2
    <3>3. to[j] = x /\ DOMAIN to = DOMAIN bridges
      BY <3>1, <3>2
    <3> QED BY <3>3 DEF Range
  <2> QED BY <2>1, <2>2
<1> HIDE DEF to
<1>7. ASSUME NEW j \in DOMAIN bridges, NEW k \in DOMAIN bridges, j < k
      PROVE  /\ entries[to[k]].role = "downstream"
             /\ entries[to[j]].role = "downstream" => to[j] < to[k]
  <2>1. bridges[p[j]].number < bridges[p[k]].number /\ bridges[p[j]].number \in Nat
        /\ bridges[p[k]].number \in Nat
    <3>1. bridges'[j].number < bridges'[k].number
      BY <1>2, <1>7
    <3>2. /\ bridges'[j].number = bridges[p[j]].number /\ bridges'[j].number \in Nat
          /\ bridges'[k].number = bridges[p[k]].number /\ bridges'[k].number \in Nat
      BY <1>2
    <3> QED BY <3>1, <3>2
  <2>2. bridges[p[k]].number > 0
    BY <2>1
  <2>6. p[j] \in DOMAIN bridges /\ p[k] \in DOMAIN bridges
    BY <1>2
  <2>7. to[j] = at[p[j]] /\ to[k] = at[p[k]]
    BY <1>5
  <2>3. entries[to[k]].role = "downstream"
    BY <1>4, <2>2, <2>6, <2>7
  <2>4. p[j] < p[k] => to[j] < to[k]
    BY <1>3, <2>6, <2>7
  <2>5. ASSUME entries[to[j]].role = "downstream" PROVE p[j] < p[k]
    <3>1. bridges[p[j]].number > 0
      BY <1>4, <2>5, <2>6, <2>7
    <3>2. p[k] < p[j] => bridges[p[k]].number < bridges[p[j]].number
      BY <2>6, <3>1 DEF AllRead, Found, NumbersFound
    <3>3. ~(p[k] < p[j]) /\ p[k] # p[j]
      BY <2>1, <3>2
    <3>4. p[j] \in 1 .. Len(bridges) /\ p[k] \in 1 .. Len(bridges) /\ Len(bridges) \in Nat
      BY <1>2, <2>6
    <3> QED BY <3>3, <3>4
  <2> QED BY <2>3, <2>4, <2>5
<1>8. \A k \in DOMAIN bridges : bridges'[k].number = FirstNumber + k - 1
  <2> DEFINE f == [k \in DOMAIN bridges |-> bridges'[k].number]
             L == Len(bridges)
             Numbers == {f[k] : k \in 1 .. L}
  <2>1. DownstreamCount \in Nat
    <3>1. {k \in DOMAIN bridges : bridges[k].number > 0} \subseteq 1 .. Len(bridges)
      BY <1>2
    <3> QED BY <1>2, <3>1, CountOneMore DEF DownstreamCount
  <2>2. \A n : n \in Numbers <=> \E k \in DOMAIN bridges : bridges[k].number = n
    <3>1. \A k \in DOMAIN bridges : f[k] = bridges[p[k]].number /\ p[k] \in DOMAIN bridges
      BY <1>2
    <3>2. \A k \in DOMAIN bridges : \E j \in DOMAIN bridges : p[j] = k
      BY <1>2
    <3>3. DOMAIN bridges = 1 .. L
      BY <1>2
    <3> HIDE DEF f, L
    <3>4. \A n : n \in Numbers <=> \E k \in DOMAIN bridges : f[k] = n
      BY <3>3
    <3> HIDE DEF Numbers
    <3>5. \A n : n \in Numbers => \E k \in DOMAIN bridges : bridges[k].number = n
      BY <3>1, <3>4
    <3>6. ASSUME NEW k \in DOMAIN bridges PROVE bridges[k].number \in Numbers
      <4>1. PICK j \in DOMAIN bridges : p[j] = k
        BY <3>2
      <4>2. f[j] = bridges[k].number
        BY <3>1, <4>1
      <4> QED BY <3>4, <4>2
    <3> QED BY <3>5, <3>6
  <2>3. \A n : n \in 1 .. DownstreamCount <=>
                 \E k \in DOMAIN bridges : bridges[k].number > 0 /\ bridges[k].number = n
    <3>1. {bridges[k].number : k \in Downstream} = 1 .. DownstreamCount
      BY DEF AllRead, Found, NumbersFound
    <3> QED BY <3>1 DEF Downstream
  <2>4. FirstNumber = 0 <=> \E k \in DOMAIN bridges : bridges[k].number = 0
    <3>1. FirstNumber = 0 <=> \E x \in Bases : entries[x].role = "upstream"
      BY DEF FirstNumber
    <3>2. \A x \in Bases : \E k \in DOMAIN bridges : at[k] = x
      BY <1>3 DEF Range
    <3> QED BY <1>3, <1>4, <3>1, <3>2
  <2>5. FirstNumber \in {0, 1}
    BY DEF FirstNumber
  <2>6. \A k \in DOMAIN bridges : bridges[k].number \in Nat
    BY DEF AllRead, Found, BridgesFound, BridgeOf
  <2> HIDE DEF Numbers
  <2>7. Numbers = FirstNumber .. DownstreamCount
    <3>1. ASSUME NEW n \in Numbers PROVE n \in FirstNumber .. DownstreamCount
      <4>1. PICK k \in DOMAIN bridges : bridges[k].number = n
        BY <2>2
      <4>2. n \in Nat
        BY <2>6, <4>1
      <4>3. n > 0 => n \in 1 .. DownstreamCount
        BY <2>3, <4>1
      <4>4. n = 0 => FirstNumber = 0
        BY <2>4, <4>1
      <4> QED BY <2>1, <2>5, <4>2, <4>3, <4>4
    <3>2. ASSUME NEW n \in FirstNumber .. DownstreamCount PROVE n \in Numbers
      <4>1. n \in 1 .. DownstreamCount \/ (n = 0 /\ FirstNumber = 0)
        BY <2>1, <2>5
      <4> QED BY <2>2, <2>3, <2>4, <4>1
    <3> QED BY <3>1, <3>2
  <2>8. \A k \in DOMAIN bridges : f[k] = bridges'[k].number
    OBVIOUS
  <2> HIDE DEF f
  <2>14. DOMAIN bridges = 1 .. L /\ L \in Nat
    BY <1>2
  <2>9. \A j \in 1 .. L : f[j] \in Int
    <3>1. \A k \in DOMAIN bridges : bridges'[k].number \in Nat
      BY <1>2
    <3> QED BY <2>8, <2>14, <3>1
  <2>10. \A j, k \in 1 .. L : j < k => f[j] < f[k]
    <3>1. \A j, k \in DOMAIN bridges : j < k => bridges'[j].number < bridges'[k].number
      BY <1>2
    <3> HIDE DEF f, L
    <3> QED BY <2>8, <2>14, <3>1
  <2>11. {f[j] : j \in 1 .. L} = FirstNumber .. DownstreamCount
    BY <2>7 DEF Numbers
  <2>12. FirstNumber \in Int /\ DownstreamCount \in Int /\ L \in Nat
    BY <1>2, <2>1, <2>5
  <2> HIDE DEF L
  <2>13. \A j \in 1 .. L : f[j] = FirstNumber + j - 1
    BY <2>9, <2>10, <2>11, <2>12, IncreasingOnto
  <2> QED BY <1>2, <2>8, <2>13 DEF L
<1>9. ASSUME NEW k \in DOMAIN bridges
      PROVE  /\ bridges'[k].name = entries[to[k]].name
             /\ bridges'[k].address = AddressOf(entries[to[k]])
  <2>1. p[k] \in DOMAIN bridges /\ bridges'[k] = WithVLANs(vifs)[p[k]]
    BY <1>2
  <2>2. bridges'[k].name = bridges[p[k]].name /\ bridges'[k].address = bridges[p[k]].address
    BY <2>1, Attached DEF Merging
  <2> QED BY <1>4, <1>5, <2>1, <2>2
<1>10. Following(bridges', entries, Bases, FirstNumber)
  <2>1. to \in [DOMAIN bridges' -> Bases]
    BY <1>2, <1>5
  <2>2. \A j, k \in DOMAIN bridges' : j < k =>
          LET e == entries[to[j]] f == entries[to[k]]
          IN f.role = "downstream" /\ (e.role = "downstream" => to[j] < to[k])
    BY <1>2, <1>7
  <2>3. \A k \in DOMAIN bridges' :
          /\ bridges'[k].number = FirstNumber + k - 1
          /\ bridges'[k].name = entries[to[k]].name
          /\ bridges'[k].address = AddressOf(entries[to[k]])
    BY <1>2, <1>8, <1>9
  <2> QED BY <1>6, <2>1, <2>2, <2>3 DEF Following
<1>11. Following(bridges', entries', Bases', FirstNumber')
  BY <1>1, <1>10
<1> QED BY <1>11 DEF BridgesFollowPayload, Following, AddressOf

\* VLANsOnFirstDownstream, of bridge b for the entries es.
Carrying(b, es, vlans, map) ==
  IF b.number # 1 THEN b.vifs = <<>> ELSE
    /\ Len(b.vifs) = Cardinality(vlans)
    /\ \A j \in DOMAIN b.vifs, m \in DOMAIN b.vifs : j < m => b.vifs[j].id <= b.vifs[m].id
    /\ \A j \in vlans : \A q \in UNION {map[s] : s \in es[j].select \cap DOMAIN map} :
         /\ q \in b.members
         /\ \E v \in Range(b.vifs) :
              v.id = es[j].vlan /\ v.address = es[j].subnet /\ q \in v.members

\* The VLANs are the VIFs of the first downstream bridge.
LEMMA VLANsMerged ==
  ASSUME AllRead, NEW vifs, NEW p, Merging(vifs, p)
  PROVE  VLANsOnFirstDownstream'
<1>1. DownVLANs' = DownVLANs /\ entries' = entries /\ portMap' = portMap
      /\ DownVLANs \subseteq DOMAIN entries
  BY SameEntries DEF Merging, DownVLANs
<1>2. /\ DOMAIN bridges' = DOMAIN bridges
      /\ \A k \in DOMAIN bridges : /\ p[k] \in DOMAIN bridges
                                   /\ bridges'[k] = WithVLANs(vifs)[p[k]]
  BY BridgesSorted
<1>3. /\ Sequence(vifs) /\ Len(vifs) = Cardinality(DownVLANs) /\ Range(vifs) = Range(pending)
      /\ \A j, m \in DOMAIN vifs : j < m => vifs[j].id <= vifs[m].id
  BY VIFs DEF Merging
<1>4. /\ Sequence(pending) /\ Len(pending) = Cardinality(DownVLANs)
      /\ \A j \in DownVLANs : \E v \in Range(pending) :
           /\ v.id = entries[j].vlan /\ v.address = entries[j].subnet
           /\ v.members = Ports(entries[j])
  BY <1>1, HandledAll DEF AllRead, Found, VLANsFound
<1>5. ASSUME NEW k \in DOMAIN bridges
      PROVE  LET b == bridges'[k] IN
               IF b.number # 1 THEN b.vifs = <<>> ELSE
                 /\ Len(b.vifs) = Cardinality(DownVLANs)
                 /\ \A j \in DOMAIN b.vifs, m \in DOMAIN b.vifs :
                      j < m => b.vifs[j].id <= b.vifs[m].id
                 /\ \A j \in DownVLANs : \A q \in Ports(entries[j]) :
                      /\ q \in b.members
                      /\ \E v \in Range(b.vifs) :
                           v.id = entries[j].vlan /\ v.address = entries[j].subnet /\ q \in v.members
  <2> DEFINE b == bridges'[k]
  <2>1. /\ b.number # 1 \/ pending = <<>> => b.vifs = <<>>
        /\ b.number = 1 /\ pending # <<>> =>
             b.vifs = vifs /\ \A v \in Range(pending) : v.members \subseteq b.members
    BY <1>2, Attached DEF Merging
  <2> HIDE DEF b
  <2>2. CASE b.number # 1
    BY <2>1, <2>2 DEF b
  <2>3. CASE b.number = 1 /\ pending = <<>>
    <3>1. b.vifs = <<>> /\ Len(<<>>) = 0 /\ DOMAIN <<>> = {} /\ Len(pending) = 0
          /\ Range(pending) = {}
      BY <2>1, <2>3 DEF Range
    <3> QED BY <1>4, <2>3, <3>1 DEF b
  <2>4. CASE b.number = 1 /\ pending # <<>>
    <3>1. b.vifs = vifs /\ \A v \in Range(pending) : v.members \subseteq b.members
      BY <2>1, <2>4
    <3>2. ASSUME NEW j \in DownVLANs, NEW q \in Ports(entries[j])
          PROVE  /\ q \in b.members
                 /\ \E v \in Range(b.vifs) :
                      v.id = entries[j].vlan /\ v.address = entries[j].subnet /\ q \in v.members
      BY <1>3, <1>4, <3>1
    <3> QED BY <1>3, <2>4, <3>1, <3>2 DEF b
  <2> QED BY <2>2, <2>3, <2>4
<1>6. \A k \in DOMAIN bridges' : Carrying(bridges'[k], entries, DownVLANs, portMap)
  BY <1>2, <1>5 DEF Carrying, Ports
<1>7. \A k \in DOMAIN bridges' : Carrying(bridges'[k], entries', DownVLANs', portMap')
  BY <1>1, <1>6
<1> QED BY <1>7 DEF VLANsOnFirstDownstream, Carrying, Ports

\* The VLANs have a bridge to be on.
VLANsCarried ==
  Normalized /\ DownVLANs # {} => \E k \in DOMAIN bridges :
    /\ bridges[k].number = 1
    /\ \A j \in DownVLANs : \E v \in Range(bridges[k].vifs) :
         v.id = entries[j].vlan /\ v.address = entries[j].subnet

\* And there is such a bridge, if there is a VLAN.
LEMMA CarriedMerged ==
  ASSUME AllRead, NEW vifs, NEW p, Merging(vifs, p)
  PROVE  VLANsCarried'
<1>1. DownVLANs' = DownVLANs /\ entries' = entries /\ DownVLANs \subseteq DOMAIN entries
  BY SameEntries DEF Merging, DownVLANs
<1> SUFFICES ASSUME NEW d \in DownVLANs
             PROVE  \E k \in DOMAIN bridges' :
                      /\ bridges'[k].number = 1
                      /\ \A j \in DownVLANs : \E v \in Range(bridges'[k].vifs) :
                           v.id = entries[j].vlan /\ v.address = entries[j].subnet
  BY <1>1 DEF VLANsCarried
<1>2. \A j \in DownVLANs : \E v \in Range(pending) :
        v.id = entries[j].vlan /\ v.address = entries[j].subnet
  BY <1>1, HandledAll DEF AllRead, Found, VLANsFound
<1>3. pending # <<>>
  BY <1>2 DEF Range
<1>4. firstDown \in DOMAIN bridges /\ bridges[firstDown].number = 1
  BY <1>3 DEF Merging, AllRead, Found, NumbersFound
<1>5. PICK k \in DOMAIN bridges : p[k] = firstDown
  BY <1>4, BridgesSorted
<1>6. k \in DOMAIN bridges' /\ bridges'[k] = WithVLANs(vifs)[firstDown]
  <2>1. k \in DOMAIN bridges' /\ bridges'[k] = WithVLANs(vifs)[p[k]]
    BY BridgesSorted
  <2> QED BY <1>5, <2>1
<1>7. bridges'[k].number = 1 /\ bridges'[k].vifs = vifs
  BY <1>3, <1>4, <1>6, Attached DEF Merging
<1>8. Range(vifs) = Range(pending)
  BY VIFs DEF Merging
<1> QED BY <1>2, <1>6, <1>7, <1>8

\* Descriptions and services are what the loop left.
LEMMA RestMerged ==
  ASSUME AllRead, NEW vifs, NEW p, Merging(vifs, p)
  PROVE  DescriptionPrecedence' /\ ServicesFollowPayload'
<1>1. /\ Bases' = Bases /\ DownVLANs' = DownVLANs /\ Served' = Served
      /\ Selectable' = Selectable /\ entries' = entries /\ ethernets' = ethernets
      /\ lans' = lans /\ \A q, S : Naming(q, S)' = Naming(q, S)
  BY SameEntries DEF Merging
<1>2. ServicesFollowPayload'
  <2>1. Served \subseteq DOMAIN entries
    BY DEF Served
  <2>2. Range(lans) = Served /\ \A j, k \in DOMAIN lans : j < k => lans[j] < lans[k]
    BY <2>1, HandledAll DEF AllRead, Found, ServicesFound
  <2> QED BY <1>1, <2>2 DEF ServicesFollowPayload
<1>3. ASSUME NEW q \in Selectable
      PROVE  IF Naming(q, Bases) # {}
             THEN q \in DOMAIN ethernets
                  /\ ethernets[q].name = entries[Min(Naming(q, Bases))].name
             ELSE IF Naming(q, DownVLANs) # {}
             THEN q \in DOMAIN ethernets
                  /\ ethernets[q].name = entries[Min(Naming(q, DownVLANs))].name
             ELSE q \notin DOMAIN ethernets
  <2>1. Naming(q, Bases) \subseteq DOMAIN entries /\ Naming(q, DownVLANs) \subseteq DOMAIN entries
    BY DEF Naming, Bases, DownVLANs
  <2>2. /\ Handled(Naming(q, Bases)) = Naming(q, Bases)
        /\ Handled(Naming(q, DownVLANs)) = Naming(q, DownVLANs)
    BY <2>1, HandledAll
  <2>3. DescribedFound(q)
    BY DEF AllRead, Found, DescriptionsFound
  <2> QED BY <2>2, <2>3 DEF DescribedFound, Describes
<1>4. DescriptionPrecedence'
  BY <1>1, <1>3 DEF DescriptionPrecedence, Selectable
<1> QED BY <1>2, <1>4

-----------------------------------------------------------------------------
\* The invariant and the theorems.

InterfacesInv ==
  /\ phase \in {"new", "input"} => InterfacesInit
  /\ phase = "interfaces" => Found
  /\ BridgesFollowPayload /\ VLANsOnFirstDownstream
  /\ DescriptionPrecedence /\ ServicesFollowPayload /\ VLANsCarried

\* What is found stays while no entry is read.
LEMMA SameFound ==
  ASSUME UNCHANGED <<portMap, entries, i, found>>
  PROVE  Found' = Found
BY DEF found, Found, ServicesFound, VLANsFound, DescriptionsFound, DescribedFound, Describes,
       BridgesFound, BridgeOf, Bridge, AddressOf, NumbersFound, Downstream, DownstreamCount,
       Handled, Bases, DownVLANs, Served, Selectable, Ports, Naming, HasRole, IsVLAN

\* And so do the sections after the interfaces are normalized.
LEMMA SameSections ==
  ASSUME UNCHANGED <<portMap, entries, found>>, Normalized,
         BridgesFollowPayload, VLANsOnFirstDownstream, DescriptionPrecedence,
         ServicesFollowPayload, VLANsCarried
  PROVE  /\ BridgesFollowPayload' /\ VLANsOnFirstDownstream'
         /\ DescriptionPrecedence' /\ ServicesFollowPayload' /\ VLANsCarried'
<1>1. /\ bridges' = bridges /\ ethernets' = ethernets /\ lans' = lans
      /\ entries' = entries /\ portMap' = portMap
      /\ Bases' = Bases /\ DownVLANs' = DownVLANs /\ Served' = Served
      /\ Selectable' = Selectable /\ FirstNumber' = FirstNumber
      /\ \A p, S : Naming(p, S)' = Naming(p, S)
  BY SameEntries DEF found, FirstNumber
<1>2. BridgesFollowPayload'
  <2>1. Following(bridges, entries, Bases, FirstNumber)
    BY DEF BridgesFollowPayload, Following
  <2>2. Following(bridges', entries', Bases', FirstNumber')
    BY <1>1, <2>1
  <2> QED BY <2>2 DEF BridgesFollowPayload, Following, AddressOf
<1>3. VLANsOnFirstDownstream'
  <2>1. \A k \in DOMAIN bridges : Carrying(bridges[k], entries, DownVLANs, portMap)
    BY DEF VLANsOnFirstDownstream, Carrying, Ports
  <2>2. \A k \in DOMAIN bridges' : Carrying(bridges'[k], entries', DownVLANs', portMap')
    BY <1>1, <2>1
  <2> QED BY <2>2 DEF VLANsOnFirstDownstream, Carrying, Ports
<1>4. DescriptionPrecedence' /\ ServicesFollowPayload'
  BY <1>1 DEF DescriptionPrecedence, ServicesFollowPayload, Selectable
<1>5. VLANsCarried'
  BY <1>1 DEF VLANsCarried
<1> QED BY <1>2, <1>3, <1>4, <1>5

\* The properties speak of normalized interfaces only.
LEMMA NotNormalized ==
  ASSUME ~Normalized'
  PROVE  /\ BridgesFollowPayload' /\ VLANsOnFirstDownstream'
         /\ DescriptionPrecedence' /\ ServicesFollowPayload' /\ VLANsCarried'
BY DEF BridgesFollowPayload, VLANsOnFirstDownstream, DescriptionPrecedence, ServicesFollowPayload,
       VLANsCarried

\* The end of the array makes the properties of what was found.
LEMMA MergeStep ==
  ASSUME EntriesInv, Found, MergeVLANs
  PROVE  InterfacesInv'
<1>1. CASE pending # <<>> /\ firstDown = 0
  <2>1. phase' = "failed"
    BY <1>1 DEF MergeVLANs, Fail
  <2> QED BY <2>1, NotNormalized DEF InterfacesInv, Normalized
<1>2. CASE ~(pending # <<>> /\ firstDown = 0)
  <2>1. AllRead
    BY DEF MergeVLANs, AllRead
  <2>2. PICK vifs \in Sortings(pending, VLANBefore) :
          bridges' \in Sortings(WithVLANs(vifs), BridgeBefore)
    BY <1>2 DEF MergeVLANs
  <2>3. /\ UNCHANGED <<portMap, entries, i, firstDown, pending, ethernets, lans, err>>
        /\ phase' = "nat"
    BY <1>2 DEF MergeVLANs
  <2>4. DOMAIN WithVLANs(vifs) = DOMAIN bridges
    BY <1>2, <2>1, Attached
  <2>5. PICK p \in Bijection(DOMAIN bridges, DOMAIN bridges) :
          /\ \A j, k \in DOMAIN bridges :
               j < k => ~BridgeBefore(WithVLANs(vifs)[p[k]], WithVLANs(vifs)[p[j]])
          /\ bridges' = [k \in DOMAIN bridges |-> WithVLANs(vifs)[p[k]]]
    BY <2>2, <2>4 DEF Sortings
  <2>6. Merging(vifs, p)
    BY <1>2, <2>2, <2>3, <2>5 DEF Merging, BridgeBefore
  <2> QED BY <2>1, <2>3, <2>6, BridgesMerged, VLANsMerged, RestMerged, CarriedMerged
         DEF InterfacesInv
<1> QED BY <1>1, <1>2

\* Every step of Render keeps the invariant.
LEMMA InterfacesStep == EntriesInv /\ InterfacesInv /\ [Next]_vars => InterfacesInv'
<1> SUFFICES ASSUME EntriesInv, InterfacesInv, [Next]_vars PROVE InterfacesInv'
  OBVIOUS
<1>1. ASSUME phase' = "failed" PROVE InterfacesInv'
  BY <1>1, NotNormalized DEF InterfacesInv, Normalized
<1>2. CASE New
  <2>1. CASE phase' = "input"
    <3>1. UNCHANGED <<i, found>> /\ InterfacesInit
      BY <1>2, <2>1 DEF New, Fail, InterfacesInv
    <3>2. InterfacesInit'
      BY <3>1 DEF InterfacesInit, found
    <3> QED BY <2>1, <3>2, NotNormalized DEF InterfacesInv, Normalized
  <2> QED BY <1>1, <1>2, <2>1 DEF New, Fail
<1>3. CASE ValidateRequest
  <2>1. CASE phase' = "interfaces"
    <3>1. UNCHANGED <<portMap, entries, i, found>> /\ InterfacesInit
      BY <1>3, <2>1 DEF ValidateRequest, Fail, InterfacesInv
    <3>2. DOMAIN entries \subseteq Nat \ {0}
      BY DEF EntriesInv
    <3>3. Found'
      BY <3>1, <3>2, NothingFound, SameFound
    <3> QED BY <2>1, <3>3, NotNormalized DEF InterfacesInv, Normalized
  <2> QED BY <1>1, <1>3, <2>1 DEF ValidateRequest, Fail
<1>4. CASE InterfacesNext
  <2>1. ASSUME NEW e, RejectEntry(e) PROVE InterfacesInv'
    BY <1>1, <2>1 DEF RejectEntry, Fail
  <2>2. ASSUME NEW e,
               IgnoreEntry(e) \/ VLANEntry(e) \/ UpstreamEntry(e) \/ DownstreamEntry(e)
        PROVE  InterfacesInv'
    <3>1. Found
      BY <2>2 DEF InterfacesInv, IgnoreEntry, VLANEntry, UpstreamEntry, DownstreamEntry, Entry
    <3>2. Found' /\ phase' = "interfaces"
      BY <2>2, <3>1, EntryStep
    <3> QED BY <3>2, NotNormalized DEF InterfacesInv, Normalized
  <2>3. CASE MergeVLANs
    BY <2>3, MergeStep DEF InterfacesInv, MergeVLANs
  <2> QED BY <1>4, <2>1, <2>2, <2>3 DEF InterfacesNext
<1>5. CASE normalizeNAT \/ normalizeServices \/ RenderTemplates
  <2>1. CASE phase' = "failed"
    BY <1>1, <2>1
  <2>2. CASE phase' # "failed"
    <3>1. /\ UNCHANGED <<portMap, entries, found>> /\ Normalized
          /\ phase' \notin {"new", "input", "interfaces"}
      BY <1>5, <2>2 DEF normalizeNAT, normalizeServices, RenderTemplates, Fail, Normalized
    <3> QED BY <3>1, SameSections DEF InterfacesInv
  <2> QED BY <2>1, <2>2
<1>6. CASE Done \/ UNCHANGED vars
  <2>1. UNCHANGED <<portMap, entries, i, found, phase>>
    BY <1>6 DEF Done, vars, interfaceVars
  <2>2. InterfacesInit' = InterfacesInit
    BY <2>1 DEF InterfacesInit, found
  <2>3. Normalized' = Normalized
    BY <2>1 DEF Normalized
  <2>4. Found' = Found
    BY <2>1, SameFound
  <2> QED BY <2>1, <2>2, <2>3, <2>4, SameSections, NotNormalized DEF InterfacesInv
<1> QED BY <1>2, <1>3, <1>4, <1>5, <1>6 DEF Next

\* The sections satisfy the properties at any time.
LEMMA InterfacesInvariant == Spec => []InterfacesInv
<1>1. Init => InterfacesInv
  BY DEF Init, InterfacesInv, BridgesFollowPayload, VLANsOnFirstDownstream,
         DescriptionPrecedence, ServicesFollowPayload, VLANsCarried, Normalized
<1> QED BY <1>1, InterfacesStep, EntriesInitially, EntriesStep, PTL DEF Spec

\* Whatever the payload, br0 is its upstream interface and br1, br2, ... its
\* downstream interfaces in their order, and nothing else is a bridge.
THEOREM BridgesAreInterfaces == Spec => []BridgesFollowPayload
BY InterfacesInvariant, PTL DEF InterfacesInv

\* Whatever the payload, all its downstream VLANs are VIFs of br1 and of no
\* other bridge, on ports that allow them.
THEOREM VLANsAreVIFs == Spec => []VLANsOnFirstDownstream
BY InterfacesInvariant, PTL DEF InterfacesInv

\* Whatever the payload, a port has the description of the first base interface
\* that selects it, or else of the first VLAN.
THEOREM DescriptionsChosen == Spec => []DescriptionPrecedence
BY InterfacesInvariant, PTL DEF InterfacesInv

\* Whatever the payload, the services are those of its downstream static interfaces.
THEOREM ServicesAreInterfaces == Spec => []ServicesFollowPayload
BY InterfacesInvariant, PTL DEF InterfacesInv
=============================================================================
