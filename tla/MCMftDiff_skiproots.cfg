CONSTANTS
  None = None
  Clusters = {0, 1, 2, 3, 4}
  SystemFiles <- MCSystemFiles
  ExtendDir <- MCExtendDir
  Volumes <- MCVolumes
  Options <- MCOptions
SPECIFICATION Spec
INVARIANT
  SkipRootsHonoured
CHECK_DEADLOCK FALSE
