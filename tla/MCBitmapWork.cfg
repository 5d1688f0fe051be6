CONSTANTS
  BlockBits = 4
  ByteBits = 2
  Sizes <- MCSizes
  MaxLen = 3
  Contents <- MCContents
  MaxOps = 1
SPECIFICATION Spec
INVARIANTS
  BitmapInv
  SlicesExact
PROPERTIES
  ForeignKept
