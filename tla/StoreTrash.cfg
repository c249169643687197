SPECIFICATION Spec
CONSTANTS
  o1 = o1
  o2 = o2
  o3 = o3
  o4 = o4
  r1 = r1
  r2 = r2
  Objects <- FourObjects
  Existing <- ThreeObjects
  Deletable <- ThreeObjects
  Reqs <- TwoReqs
  Movers <- TwoReqs
  Ops <- TrashOps
  Tries = 1
  MaxOps = 4
  MaxFaults = 0
SYMMETRY Symmetry
INVARIANT RestoredWithParent
CHECK_DEADLOCK FALSE
