CONSTANTS
  Depth = 2
  None = None
  ClusterCount = 5
  BatchLen = 3
  BytesPerCluster = 2
  Old = Old
  Modes = {"compare", "rcw", "copy"}
  Faults = TRUE
SPECIFICATION FairSpec
INVARIANTS
  TransferInv
  WritesInPlace
  DiffExact
PROPERTIES
  ImplementsUpdate
  Terminates
