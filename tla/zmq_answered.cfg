SPECIFICATION TimedSpec
CONSTANTS
  Nil = Nil
  NumSlices = 1
  WorldSize = 2
  NcclDispatch = FALSE
  ChanCap = 1
  Requests = {r1, r2}
  Workers = {w1}
  Permits = {p1}
  Args <- OddArgs
  FaultKinds = {"redis_write", "redis_read", "pubsub", "push", "worker", "gpu", "cancel", "gateway"}
  MaxFaults = 1
INVARIANTS
  TypeOK

  
