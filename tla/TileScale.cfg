\* A tile resized any number of times, its attributes edited between, and
\* the tileset saved and loaded again.
CONSTANTS
  TileSz <- MCTileSz
  Sizes <- MCSizes
  AttrVals <- MCAttrVals
SPECIFICATION Spec
INVARIANT TypeOK
PROPERTY AttrsPreservedWhenGrowing LoadRestoresSaved
