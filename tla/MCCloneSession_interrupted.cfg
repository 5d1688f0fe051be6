CONSTANTS
  None = None
  Boot = Boot
  Bitmap = Bitmap
  Files = {log, f}
  SystemFiles = {log}
  DataClusters = {d1, d2}
  Sessions <- MCUpdates
  MaxChanges = 2
  MaxFailures = 1
SPECIFICATION FairSpec
PROPERTY CaughtOrReported
