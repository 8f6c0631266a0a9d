SPECIFICATION StartSpec
CONSTANTS
  Nil = Nil
  NumSlices = 2
  WorldSize = 2
  NcclDispatch = TRUE
  ChanCap = 1
  Requests = {r1}
  Workers = {0, 1}
  Args <- OddJobs
  FaultKinds = {}
  MaxFaults = 0
  MaxStarts = 2
INVARIANTS
  OneCommunicator
