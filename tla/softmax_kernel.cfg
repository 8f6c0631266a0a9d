SPECIFICATION KernelSpec
CONSTANTS
  NumSlices = 3
  WorldSize = 3
  NcclDispatch = FALSE
  Tiny32 = 3
  Tiny64 = 4
  BlockSize = 4
  Pad <- LowPad
  Values <- Elements
  MaxLen = 5
INVARIANTS
  KernelMatchesCpu
  ReplyIsSoftmax
