----------------------- MODULE ConfigureGrammarProofs -----------------------
(***************************************************************************)
(* The two allowlists of the apply package against each other, for         *)
(* commands of any length with any values.                                 *)
(***************************************************************************)
EXTENDS ConfigureGrammar, TLAPS

\* t[2], t[3], ... are below root d of the default policy.
LEMMA RootsCover ==
  ASSUME NEW t, Len(t) \in Nat, Len(t) >= 4
  PROVE  /\ t[2] = "interfaces" /\ t[3] = "bridge" => Resets(DefaultRoots, t)
         /\ t[2] = "nat" /\ t[3] = "source" => Resets(DefaultRoots, t)
         /\ t[2] = "service" /\ t[3] = "dhcp-server" => Resets(DefaultRoots, t)
         /\ t[2] = "service" /\ t[3] = "dns" /\ t[4] = "forwarding" => Resets(DefaultRoots, t)
         /\ t[2] = "service" /\ t[3] = "ssh" => Resets(DefaultRoots, t)
<1>1. 1 .. 5 = DOMAIN DefaultRoots
  BY DEF DefaultRoots
<1>2. \A r \in 1 .. 5 : Covers(DefaultRoots[r], t) => Resets(DefaultRoots, t)
  BY <1>1 DEF Resets
<1>3. ASSUME t[2] = "interfaces" /\ t[3] = "bridge"
      PROVE  Resets(DefaultRoots, t)
  <2>1. DefaultRoots[1] = <<"interfaces", "bridge">>
    BY DEF DefaultRoots
  <2>2. Covers(<<"interfaces", "bridge">>, t)
    BY <1>3 DEF Covers
  <2> QED BY <1>2, <2>1, <2>2
<1>4. ASSUME t[2] = "nat" /\ t[3] = "source"
      PROVE  Resets(DefaultRoots, t)
  <2>1. DefaultRoots[2] = <<"nat", "source">>
    BY DEF DefaultRoots
  <2>2. Covers(<<"nat", "source">>, t)
    BY <1>4 DEF Covers
  <2> QED BY <1>2, <2>1, <2>2
<1>5. ASSUME t[2] = "service" /\ t[3] = "dhcp-server"
      PROVE  Resets(DefaultRoots, t)
  <2>1. DefaultRoots[3] = <<"service", "dhcp-server">>
    BY DEF DefaultRoots
  <2>2. Covers(<<"service", "dhcp-server">>, t)
    BY <1>5 DEF Covers
  <2> QED BY <1>2, <2>1, <2>2
<1>6. ASSUME t[2] = "service" /\ t[3] = "dns" /\ t[4] = "forwarding"
      PROVE  Resets(DefaultRoots, t)
  <2>1. DefaultRoots[4] = <<"service", "dns", "forwarding">>
    BY DEF DefaultRoots
  <2>2. Covers(<<"service", "dns", "forwarding">>, t)
    BY <1>6 DEF Covers
  <2> QED BY <1>2, <2>1, <2>2
<1>7. ASSUME t[2] = "service" /\ t[3] = "ssh"
      PROVE  Resets(DefaultRoots, t)
  <2>1. DefaultRoots[5] = <<"service", "ssh">>
    BY DEF DefaultRoots
  <2>2. Covers(<<"service", "ssh">>, t)
    BY <1>7 DEF Covers
  <2> QED BY <1>2, <2>1, <2>2
<1> QED BY <1>3, <1>4, <1>5, <1>6, <1>7

\* The two allowlists agree: whatever set command the parser accepts is removed
\* by one of the default reset roots, unless it describes an ethernet interface.
THEOREM AllowlistsAgree ==
  ASSUME NEW t, Len(t) \in Nat, AcceptedCommand(t)
  PROVE  EthernetDescription(t) \/ Resets(DefaultRoots, t)
<1>1. Len(t) >= 4 /\ SetPath(t)
  BY DEF AcceptedCommand, SetPath
<1>2. CASE t[2] = "interfaces" /\ InterfacesPath(t)
  <2>1. CASE t[3] = "bridge"
    BY <1>1, <1>2, <2>1, RootsCover
  <2>2. CASE t[3] # "bridge"
    BY <1>2, <2>2, Zenon DEF InterfacesPath, EthernetDescription
  <2> QED BY <2>1, <2>2
<1>3. CASE t[2] = "nat" /\ t[3] = "source"
  BY <1>1, <1>3, RootsCover
<1>4. CASE t[2] = "service" /\ ServicePath(t)
  BY <1>1, <1>4, RootsCover DEF ServicePath, DNSPath
<1> QED BY <1>1, <1>2, <1>3, <1>4 DEF SetPath
=============================================================================
