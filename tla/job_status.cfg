SPECIFICATION StatusSpec
CONSTANTS
  Nil = Nil
  NumSlices = 1
  WorldSize = 2
  NcclDispatch = FALSE
  ChanCap = 1
  Requests = {r1, r2}
  Pollers = {q1}
  Workers = {w1}
  Permits = {p1}
  Args <- RetryJob
  FaultKinds = {"redis_read", "gateway"}
  MaxFaults = 1
INVARIANTS
  ReadyIsOwnSoftmax
  ReadyStaysReady
SYMMETRY Symmetry
VIEW StatusView
