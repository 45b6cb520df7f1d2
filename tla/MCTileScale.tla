----------------------------- MODULE MCTileScale -----------------------------
(***************************************************************************)
(* TileScale for TLC with two-pixel cells and sizes of one, two and three  *)
(* pixels: one or two cells in each dimension, so that every resize grows, *)
(* shrinks or keeps a row or a column, and a size of two or three pixels   *)
(* changes the surface without changing the grid.  Cells are zero or set,  *)
(* and a 2 x 2 grid tells a transposed read from a faithful one.           *)
(***************************************************************************)
EXTENDS TileScale

MCTileSz == 2
MCSizes == {1, 2, 3}
MCAttrVals == {0, 1}

====
