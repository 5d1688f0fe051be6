CONSTANTS
  None = None
  Boot = Boot
  Bitmap = Bitmap
  Files = {log, f}
  SystemFiles = {log}
  DataClusters = {d1, d2}
  Sessions <- MCSessions
  MaxChanges = 3
  MaxFailures = 1
SPECIFICATION FairSpec
INVARIANTS
  SessionInv
  SessionMirrors
  RefusalMeansDamage
  AntiMftDetects
PROPERTIES
  EveryChangeCaught
