SPECIFICATION Spec
CONSTANTS
  Nil = Nil
  NumSlices = 2
  WorldSize = 2
  NcclDispatch = FALSE
  ChanCap = 1
  Requests = {r1, r2}
  Workers = {w1}
  Permits = {p1}
  Args <- ClashArgs
  FaultKinds = {"pubsub", "cancel"}
  MaxFaults = 1
INVARIANTS
  NoLostWakeup
  SlicesKeepTheirJob
  OnlyCancelledLeak
SYMMETRY Symmetry
