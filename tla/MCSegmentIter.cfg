CONSTANTS
  Depth = 2
  None = None
  RunLists <- MCRunLists
  MaxClusters = 7
  BatchLen = 2
  SegmentsPerCluster = 2
  Unwanted <- MCUnwanted
SPECIFICATION FairSpec
INVARIANTS
  IteratorInv
  Complete
PROPERTIES
  UsesReader
  Ends
