CONSTANTS
  None = None
  Clusters = {0, 1, 2, 3, 4}
  SystemFiles <- MCSystemFiles
  ExtendDir <- MCExtendDir
  Volumes <- MCVolumes
  Options <- MCOptions
SPECIFICATION Spec
INVARIANTS
  PassInv
  DirtyExact
  NewClustersSelected
  ListingCovers
CHECK_DEADLOCK FALSE
