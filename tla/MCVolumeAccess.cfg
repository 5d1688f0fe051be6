CONSTANTS
  CommandLines <- MCCommandLines
  MaxGrowth = 2
SPECIFICATION Spec
INVARIANTS
  AccessInv
  StableSource
  WriteGuards
  NothingLeft
