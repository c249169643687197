SPECIFICATION FairSpec
CONSTANTS
  n1 = n1
  n2 = n2
  i1 = i1
  i2 = i2
  r1 = r1
  r2 = r2
  Nodes <- TwoNodes
  Ids <- OneId
  EmptyIds = {}
  Reqs <- OneReq
  HasStorage = TRUE
  PeerEnabled = FALSE
  ScaleIn = {}
  Tries = 1
  MaxReads = 2
  MaxFaults = 3
INVARIANT CachedIsStored
PROPERTIES RecachedWhole EventuallyStored
CHECK_DEADLOCK FALSE
