SPECIFICATION Spec
CONSTANTS
  Nil = Nil
  NumSlices = 2
  WorldSize = 2
  NcclDispatch = TRUE
  ChanCap = 1
  Requests = {r1, r2}
  Workers = {0, 1}
  Args <- TwoJobs
  FaultKinds = {}
  MaxFaults = 0
INVARIANTS
  SerialDispatchAgrees
  NcclOkIsOwnSoftmax
SYMMETRY Symmetry
