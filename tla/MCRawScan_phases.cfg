SPECIFICATION FairSpec
CONSTANTS
  h1 = h1  h2 = h2  h3 = h3  None = None
  Hosts <- ThreeHosts
  Targets <- TwoTargets
  Excluded = {}
  ScanPorts <- MixedPorts
  DiscoveryPorts <- Pings
  OpenPairs <- MixedOpen
  Discovery = {TRUE, FALSE}
  Verify = {TRUE, FALSE}
  ChanSize = 1
  MaxPackets = 2
INVARIANTS
  TypeOK
  OneProtocolFindsOpen
  DoneSettlesResults
PROPERTIES
  CloseReturnsUnlessStuck
