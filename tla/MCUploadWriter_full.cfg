SPECIFICATION FairSpec
CONSTANTS
  main = main  handler = handler  h1 = h1  h2 = h2  h3 = h3
  Clients = {main}
  Hosts <- ShortHosts
  Len1 <- ShortLength
  MaxChunkSize = 7
  ChanSize = 1
  AssetID = FALSE
  MaxFailures = 2
INVARIANT
  TakenIsUploaded
