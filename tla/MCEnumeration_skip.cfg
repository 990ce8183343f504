SPECIFICATION FairSpec
CONSTANTS
  h1 = h1  h2 = h2  h3 = h3  p1 = p1  p2 = p2  p3 = p3
  Hosts <- ResumeHosts
  Ports <- SkipPorts
  Ips <- SkipIps
  PortList <- SkipPortList
  WithPort <- CdnWithPort
  Excluded <- SecondExcluded
  CdnHosts <- ThirdIsCdn
  WebPorts = {p1}
  OpenPairs <- SkipOpen
  Seeds <- TwoSeeds
  Shuffle <- Permutations3
  Retries = 2
  Rate = 2
  PortThreshold = 1
  MaxRuns = 2
PROPERTY
  ExitLeavesNoProbeBehind
