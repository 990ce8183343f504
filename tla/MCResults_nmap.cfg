SPECIFICATION FairSpec
CONSTANTS
  h1 = h1  h2 = h2  p1 = p1  p2 = p2
  main = main  handler = handler  None = None
  Hosts <- TwoHosts
  Ports <- TwoPorts
  OpenPairs <- CrossedPairs
  Nmap = TRUE
  Interrupts = FALSE
  PortThreshold = 0
  GroupLimits = {2}
  MaxReport = 2
CHECK_DEADLOCK FALSE
PROPERTY
  NewPortIsAdded
