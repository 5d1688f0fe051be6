CONSTANTS
  Depth = 2
  None = None
  Requests = {w1, w2}
  MaxRequests = 4
SPECIFICATION FairSpec
INVARIANTS
  WriterInv
PROPERTIES
  FlushEnds
CHECK_DEADLOCK FALSE
