\* Tile editor with the list redrawn between any two events.
CONSTANTS
  t1 = t1
  t2 = t2
  Tiles <- MCTiles
  MaxObjs <- MCMaxObjs
  MaxElems <- MCMaxElems
  UintMax <- MCUintMax
  AttrCats <- MCAttrCats
  None = None
  OneEventPerFrame = TRUE
SPECIFICATION Spec
INVARIANT TypeOK NoDanglingReference EditedElementLive
PROPERTY ElementsSpec
SYMMETRY TileSymmetry
