SPECIFICATION FairSpec
CONSTANTS
  Nodes = {n1, n2}
  Reqs = {r1, r2}
  r1 = r1
  r2 = r2
  n1 = n1
  n2 = n2
  NodeOf <- OneEach
  Keys <- MCKeys
  before = before
  after = after
  open = open
  closed = closed
  marked = marked
  other = other
  Acms <- MCAcms
  ValuesOf <- MCValuesOf
  Existing = {open, closed}
  RootAcms = {open}
  Before = before
  Snippets = {after}
  FieldsOf <- MCFieldsOf
  RootReqs = {r1}
  Writers = {w1}
  MaxFaults = 1
INVARIANTS
  TypeOK
  LinksSound
  DoneIsComplete
PROPERTIES
  AssociationRecovers
CHECK_DEADLOCK FALSE
