\* Resizes that shrink the tile.
CONSTANTS
  TileSz <- MCTileSz
  Sizes <- MCSizes
  AttrVals <- MCAttrVals
SPECIFICATION Spec
INVARIANT NoOutOfBoundsWrite
