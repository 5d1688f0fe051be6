CONSTANTS
  ClusterLen = 5
  NoHeader = NoHeader
  SegmentsPerCluster = 2
  EntryLen = 2
  Images <- MCImages
  IndexClusterLen = 2
  BitsPerUnit = 2
  Children <- MCChildren
  Directories <- MCDirectories
  Root = 5
  Trees <- MCTrees
  Options <- MCOptions
  Volumes <- MCVolumes
SPECIFICATION LoadingSpec
INVARIANTS
  LoaderInv
  LoadedMeansWhole
  RefusalMeansDamage
  DirInv
  DirParsedInOrder
  RulesInv
  RulesExact
PROPERTIES
  Ends
  DirEnds
  RulesEnd
