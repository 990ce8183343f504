SPECIFICATION Spec
CONSTANTS
  Model <- DefaultModel
  MaxPort = 65535
  Top100 <- FirstOf100
  Top1000 <- FirstOf1000
  Blocks <- SmallBlocks
  AddrSpace = 256
  Shuffles <- Permutations3
  CancelStride = 2
  BatchSize = 2
  WithPort <- ExplicitTarget
  Excluded <- TwoExcluded
  CdnHosts <- NoCdn
  WebPorts <- Web
  OpenPairs <- SomeOpen
  PortOptions <- SomePortOptions
  Modes <- AllModes
  Retries = 2
  Rate = 2
  PortThreshold = 2
INVARIANTS
  TypeOK
  MapLeadsToItem
  OnlyOrderChanges
  PriorityIsBestEvidence
  OpenPortsOrderTheQueue
  EveryPairTried
  UncheckedPathsAside
  RequestedPorts
PROPERTIES
  PopsMostLikely
  ScanEndsUnlessStuck
