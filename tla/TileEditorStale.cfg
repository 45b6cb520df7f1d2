\* Events handled without a redraw of tl_feats between them.
CONSTANTS
  t1 = t1
  t2 = t2
  Tiles <- MCTiles
  MaxObjs <- MCMaxObjs
  MaxElems <- MCMaxElems
  UintMax <- MCUintMax
  AttrCats <- MCAttrCats
  None = None
  OneEventPerFrame = FALSE
SPECIFICATION Spec
INVARIANT NoFreedElementAccess
