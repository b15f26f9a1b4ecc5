SPECIFICATION Spec
CONSTANTS
  Ipv4Addr <- MCAddr
  Ipv4Prefix <- MCPrefix
  PositiveInt <- MCPositive
  Port <- MCPort
  OptionLists <- MCOptions
  Inputs <- MCInputs
INVARIANT TypeOK
INVARIANT OnlyValidatedExecuted
INVARIANT SetsAreReset
INVARIANT ResultConsistent
INVARIANT OptionsTakeEffect
