\* Which element Detach and Destroy remove.
CONSTANTS
  t1 = t1
  t2 = t2
  Tiles <- MCTiles
  MaxObjs <- MCMaxObjs
  MaxElems <- MCMaxElems
  UintMax <- MCUintMax
  AttrCats <- MCAttrCats
  None = None
  OneEventPerFrame = TRUE
SPECIFICATION Spec
PROPERTY DeleteRemovesSelected
