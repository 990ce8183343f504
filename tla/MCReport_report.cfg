SPECIFICATION Spec
CONSTANTS
  d1 = d1  d2 = d2  d3 = d3  d4 = d4  i1 = i1  i2 = i2  i6 = i6
  main = main  handler = handler
  Deliveries <- Four
  PortOf <- Finds
  NamesOf <- Hosts
  PortNames <- NameOfPort
  IsName <- Names
  WithPort <- Targets
  Wanted <- IPv4
  Alive <- Heard
  ServiceOf <- Services
  SigDB <- Signatures
  Commands <- Some
  Rate = 2
  CacheSize = 1
INVARIANTS
  TypeOK
  PrintedOncePerTurn
  
  BannersMixOnlyIfShared
