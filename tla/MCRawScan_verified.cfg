SPECIFICATION Spec
CONSTANTS
  h1 = h1  h2 = h2  h3 = h3  None = None
  Hosts <- ThreeHosts
  Targets <- TwoTargets
  Excluded = {}
  ScanPorts <- MixedPorts
  DiscoveryPorts <- Pings
  OpenPairs <- MixedOpen
  Discovery = {FALSE}
  Verify = {TRUE}
  ChanSize = 1
  MaxPackets = 2
INVARIANT
  VerifiedOutputIsConfirmed
