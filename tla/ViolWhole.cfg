SPECIFICATION Spec
CONSTANTS
  n1 = n1
  n2 = n2
  i1 = i1
  i2 = i2
  r1 = r1
  r2 = r2
  Nodes <- TwoNodes
  Ids <- OneId
  EmptyIds = {}
  Reqs <- OneReq
  HasStorage = TRUE
  PeerEnabled = TRUE
  ScaleIn = {}
  Tries = 1
  MaxReads = 2
  MaxFaults = 0
PROPERTY RecachedWhole
CHECK_DEADLOCK FALSE
