CONSTANTS
  Depth = 3
  None = None
  Requests = {r1, r2}
  MaxRequests = 5
SPECIFICATION Spec
INVARIANTS
  ReaderInv
PROPERTIES
  SlotsKept
  ImplementsFifo
CHECK_DEADLOCK FALSE
