SPECIFICATION Spec
CONSTANTS
  a1 = a1  a2 = a2  a3 = a3  a4 = a4  b1 = b1
  MaxPort = 65535
  Top100 <- FirstOf100
  Top1000 <- FirstOf100
  Versions <- BothVersions
  Commands <- SomeCommands
  MaxLines = 6
  Addrs <- AllAddrs
  IPv6Addrs <- OneIPv6
  Excluded <- OneExcluded
  Threads = 3
INVARIANTS
  TypeOK
  EveryTargetScanned
  ModesExclude
PROPERTIES
  EndsUnlessStuck
