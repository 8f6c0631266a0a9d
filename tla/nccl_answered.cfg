SPECIFICATION FairSpec
CONSTANTS
  Nil = Nil
  NumSlices = 2
  WorldSize = 2
  NcclDispatch = TRUE
  ChanCap = 1
  Requests = {r1}
  Workers = {0, 1}
  Args <- OddJobs
  FaultKinds = {"redis_write", "redis_read", "pubsub", "push", "worker", "gpu", "cancel", "gateway"}
  MaxFaults = 2
INVARIANTS
  TypeOK
PROPERTIES
  EveryCallAnswered
