SPECIFICATION FairSpec
CONSTANTS
  Nil = Nil
  NumSlices = 2
  WorldSize = 2
  NcclDispatch = FALSE
  ChanCap = 2
  Requests = {r1, r2}
  Workers = {w1}
  Permits = {p1}
  Args <- SameArgs
  FaultKinds = {}
  MaxFaults = 0
INVARIANTS
  NoSliceLost
PROPERTIES
  CompletesByItself
