---------------------------- MODULE MCTileEditor ----------------------------
(***************************************************************************)
(* TileEditor for TLC: two tiles of one tileset, each with an open editor, *)
(* so that a pixmap or sketch can be shared between tiles; one object of   *)
(* each kind and three elements, enough for a tile to hold two elements    *)
(* of the same object and the other tile one more.                         *)
(***************************************************************************)
EXTENDS TileEditor

CONSTANTS t1, t2

MCTiles == {t1, t2}
MCMaxObjs == 1
MCMaxElems == 3
\* UINT_MAX: only the wrap of --nrefs from 0 matters, so any value above
\* MaxElems behaves the same.
MCUintMax == 4
\* The four attribute items of PollFeatures ("walkable-attrs",
\* "climbable-attrs", "jumpable-attrs", "slippery-attrs") differ only in
\* tv->edit_attr, which is abstracted: one of them stands for all.
MCAttrCats == {"walkable-attrs"}

\* The two tiles play the same role.
TileSymmetry == Permutations(MCTiles)

====
