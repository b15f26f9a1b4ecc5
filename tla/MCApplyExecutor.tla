--------------------------- MODULE MCApplyExecutor ---------------------------
(***************************************************************************)
(* Small instances of ApplyExecutor.  The tree has two bridges under the   *)
(* reset root "interfaces bridge", one DHCP pool under "service            *)
(* dhcp-server", an ethernet description, which a plan sets but no reset   *)
(* root covers, and a leaf that is none of the cloud's business.           *)
(***************************************************************************)
EXTENDS ApplyRefinement, TLC

CONSTANTS br0, br1, pool, eth, sys, v1, v2, bridge, dhcp, c1, c2, p1, p2

MCLeaf == {br0, br1, pool, eth, sys}
MCUnder == (bridge :> {br0, br1}) @@ (dhcp :> {pool})
TwoLeaves(l1, l2) == [l \in MCLeaf |-> IF l \in {l1, l2} THEN v1 ELSE Absent]
MCInitial == {TwoLeaves(br1, sys), TwoLeaves(pool, eth)}
NoPool == {TwoLeaves(br1, sys)}
BridgeAndPool == {TwoLeaves(br1, pool)}

Set(l, v) == [leaf |-> l, val |-> v]
FullPlan == [dels |-> <<bridge, dhcp>>, sets |-> <<Set(br0, v1), Set(eth, v2)>>, save |-> TRUE]
BridgePlan == [dels |-> <<bridge>>, sets |-> <<Set(br1, v1), Set(br1, v2)>>, save |-> FALSE]

ShortPlan == [dels |-> <<dhcp>>, sets |-> <<Set(br0, v1)>>, save |-> TRUE]

TwoProcesses == (c1 :> p1) @@ (c2 :> p2)
OneProcess == (c1 :> p1) @@ (c2 :> p1)
TwoPlans == (c1 :> FullPlan) @@ (c2 :> BridgePlan)
OtherPlan == [dels |-> <<bridge>>, sets |-> <<Set(br1, v2)>>, save |-> FALSE]
ShortPlans == (c1 :> ShortPlan) @@ (c2 :> OtherPlan)
=============================================================================
