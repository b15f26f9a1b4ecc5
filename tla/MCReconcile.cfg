SPECIFICATION Spec
CONSTANTS
  Ipv4Addr <- MCAddr
  Ipv4Prefix <- MCPrefix
  PositiveInt <- MCNumber
  Port <- MCNumber
  Command <- MCCommand
  Policies <- MCPolicies
  DesiredLists <- MCLists
  Node <- MCNode
  OperatorCommands <- MCOperator
  SmokeRuns <- MCSmoke
INVARIANT ManagedExactly
INVARIANT UnmanagedKept
INVARIANT ResidueConfined
INVARIANT SmokeConfined
INVARIANT SmokeExitTruthful
