SPECIFICATION Spec
CONSTANTS
  Top <- MCTop
  MaxInt <- MCMaxInt
  SubnetPrefix <- MCSubnetPrefix
  TokenNames <- MCTokenNames
  UnsafeNames <- MCUnsafeNames
  MetaNames <- MCMetaNames
  TextBefore <- MCTextBefore
  JoinedBefore <- MCJoinedBefore
  Address <- MCAddress
  Subnet <- MCSubnet
  Ipv4Addr <- MCIpv4Addr
  Ipv4Prefix <- MCIpv4Prefix
  PositiveInt <- MCPositiveInt
  Port <- MCPort
  Requests <- MCRequests
INVARIANT LeaseAsConfigured
