SPECIFICATION Spec
CONSTANTS
  o1 = o1
  o2 = o2
  o3 = o3
  o4 = o4
  r1 = r1
  r2 = r2
  Objects <- FourObjects
  Existing <- ThreeObjects
  Deletable <- ThreeObjects
  Reqs <- TwoReqs
  Movers <- FirstReq
  Ops <- MovingOps
  Tries = 1
  MaxOps = 3
  MaxFaults = 1
SYMMETRY ObjectSymmetry
INVARIANT TypeOK
INVARIANT Acyclic
PROPERTY UpdatesAreCurrent
PROPERTY RevisionsAtomic
CHECK_DEADLOCK FALSE
