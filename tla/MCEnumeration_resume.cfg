SPECIFICATION FairSpec
CONSTANTS
  h1 = h1  h2 = h2  h3 = h3  p1 = p1  p2 = p2  p3 = p3
  Hosts <- ResumeHosts
  Ports <- ResumePorts
  Ips <- ResumeIps
  PortList <- ResumePortList
  WithPort <- CdnWithPort
  Excluded <- SecondExcluded
  CdnHosts <- ThirdIsCdn
  WebPorts = {p1}
  OpenPairs <- ResumeOpen
  Seeds <- TwoSeeds
  Shuffle <- Permutations6
  Retries = 2
  Rate = 1
  PortThreshold = 1
  MaxRuns = 2
INVARIANTS
  TypeOK
  CheckpointSound
  FinishedScanCoversAll
  NormalExitReportsAll
  ThresholdOvershoot
PROPERTIES
  CheckpointMovesForward
  EndsUnlessStuck
  ImplementsResumableScan
