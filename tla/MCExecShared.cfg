SPECIFICATION Spec
CONSTANTS
  Absent = Absent
  Keep = Keep
  NoCall = NoCall
  br0 = br0
  br1 = br1
  pool = pool
  eth = eth
  sys = sys
  v1 = v1
  v2 = v2
  bridge = bridge
  dhcp = dhcp
  c1 = c1
  c2 = c2
  p1 = p1
  p2 = p2
  Leaf <- MCLeaf
  Val = {v1, v2}
  Root = {bridge, dhcp}
  Under <- MCUnder
  InitialConfigs <- NoPool
  Sid = {p1, p2}
  Call = {c1, c2}
  PlanOf <- TwoPlans
  SidOf <- OneProcess
  MayCrash = {}
  OperatorLeaf = {pool}
INVARIANT TypeOK
INVARIANT MutualExclusion
INVARIANT AppliedTruthful
INVARIANT CodeTellsOutcome
INVARIANT DiscardIffUncommitted
INVARIANT LeftoversReported
PROPERTY CommitReplaces
PROPERTY SaveOwnCommit
PROPERTY PrimaryCodeKept
