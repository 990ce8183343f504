SPECIFICATION FairSpec
CONSTANTS
  h1 = h1  h2 = h2  p1 = p1  p2 = p2
  main = main  handler = handler  None = None
  Hosts <- TwoHosts
  Ports <- TwoPorts
  OpenPairs <- CrossedPairs
  Nmap = TRUE
  Interrupts = TRUE
  PortThreshold = 2
  GroupLimits = {2}
  MaxReport = 1
CHECK_DEADLOCK FALSE
INVARIANTS
  TypeOK
  OutputIsSnapshot
  ReportIntegrated
PROPERTY
  EndsUnlessStuck
