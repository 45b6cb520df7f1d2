------------------------------ MODULE TileScale ------------------------------
(***************************************************************************)
(* Resizing a tile (RG_TileScale in src/rg/tile.c) and its per-cell       *)
(* attribute grid.  A tile of w x h pixels has nw x nh cells of RG_TILESZ  *)
(* pixels, nw = w / RG_TILESZ + 1; t->attrs is an array of nw*nh Uint,     *)
(* row-major.  On a resize the old array is saved, the new one allocated   *)
(* and zeroed, and the saved cells are copied back at (x, y) for every x   *)
(* below the OLD nw and y below the OLD nh.  t->layers is resized by the   *)
(* same code and is left out; pixels, flags and alpha are abstracted.      *)
(***************************************************************************)
EXTENDS Naturals, Sequences, SequencesExt

CONSTANTS
  TileSz,     \* RG_TILESZ, pixels per attribute cell
  Sizes,      \* tile widths and heights the dialogs and controls can give
  AttrVals    \* attribute values a cell can be given

ASSUME TileSz \in Nat \ {0} /\ Sizes \subseteq Nat /\ 0 \in AttrVals

VARIABLES
  su,         \* <<t->su->w, t->su->h>>
  nw, nh,     \* t->nw, t->nh
  attrs,      \* t->attrs, a sequence of nw*nh values
  oob,        \* ghost: a copy wrote past the end of the new t->attrs;
              \* the model keeps only the writes inside it
  dlg,        \* the modal "Tile information" dialog is open
  file        \* the words RG_TileSave last wrote, <<>> before any save

vars == <<su, nw, nh, attrs, oob, dlg, file>>

TypeOK ==
  /\ su \in Sizes \X Sizes
  /\ nw \in Nat /\ nh \in Nat
  /\ attrs \in Seq(AttrVals) /\ Len(attrs) = nw * nh
  /\ oob \in BOOLEAN /\ dlg \in BOOLEAN
  /\ file \in Seq(Nat)

\* Cells of a w-pixel dimension.
Cells(w) == w \div TileSz + 1

\* Cell (x, y) of a row-major array with rows of width stride, 1-based.
At(stride, x, y) == y * stride + x + 1

\* The (x, y) of each cell in the order of the loops "for y < nh, for
\* x < nw" that visit the grid.
RowMajor(cw, ch) == [k \in 1..(cw * ch) |-> <<(k - 1) % cw, (k - 1) \div cw>>]

\* Fault: the saved cells are copied back at their old offsets.
CopyBackOldStride(old, onw, onh, nw1, nh1) ==
  LET buf0 == [i \in 1..(nw1 * nh1) |-> 0]
      Put(buf, k) == IF k <= Len(buf) THEN [buf EXCEPT ![k] = old[k]] ELSE buf
  IN FoldLeft(Put, buf0, [k \in 1..(onw * onh) |-> k])

\* The copy loop "for y < t->nh, for x < t->nw: attrs[y*nw + x] =
\* sattrs[y*t->nw + x]", in loop order, onto the zeroed array of nw1*nh1
\* cells; a write beyond the array is left out of the result.
CopyBack(old, onw, onh, nw1, nh1) ==
  LET Put(buf, xy) ==
        IF At(nw1, xy[1], xy[2]) <= Len(buf)
          THEN [buf EXCEPT ![At(nw1, xy[1], xy[2])] = old[At(onw, xy[1], xy[2])]]
          ELSE buf
  IN FoldLeft(Put, [i \in 1..(nw1 * nh1) |-> 0], RowMajor(onw, onh))

\* Some write of the copy loop falls outside the new array.
Overflows(onw, onh, nw1, nh1) ==
  \E x \in 0..(onw - 1), y \in 0..(onh - 1) : At(nw1, x, y) > nw1 * nh1

\* Fault: the arrays are reallocated with nw*nw cells.
RG_TileScaleSquare(w, h) ==
  LET nw1 == Cells(w) IN
  /\ attrs' = [i \in 1..(nw1 * nw1) |-> 0]
  /\ oob' = oob
  /\ nw' = nw1
  /\ nh' = Cells(h)
  /\ su' = <<w, h>>

\* RG_TileScale(ts, t, w, h, flags, alpha).
RG_TileScale(w, h) ==
  LET nw1 == Cells(w)
      nh1 == Cells(h) IN
  /\ attrs' = IF nw > 0 /\ nh > 0
                THEN CopyBack(attrs, nw, nh, nw1, nh1)
                ELSE [i \in 1..(nw1 * nh1) |-> 0]
  /\ oob' = (oob \/ (nw > 0 /\ nh > 0 /\ Overflows(nw, nh, nw1, nh1)))
  /\ nw' = nw1
  /\ nh' = nh1
  /\ su' = <<w, h>>

\* RG_TileInit, then the RG_TileScale to the tile's first size.
Init ==
  \E w, h \in Sizes :
    /\ su = <<w, h>>
    /\ nw = Cells(w)
    /\ nh = Cells(h)
    /\ attrs = [i \in 1..(Cells(w) * Cells(h)) |-> 0]
    /\ oob = FALSE
    /\ dlg = FALSE
    /\ file = <<>>

\* TileSettingsDlg: the modal dialog, named after the tile so that it is
\* not opened twice, whose size spin buttons start at the tile's size.
TileSettingsDlg ==
  /\ ~dlg
  /\ dlg' = TRUE
  /\ UNCHANGED <<su, nw, nh, attrs, oob, file>>

\* Its Cancel button detaches it.
CancelSettings ==
  /\ dlg
  /\ dlg' = FALSE
  /\ UNCHANGED <<su, nw, nh, attrs, oob, file>>

\* ResizeTile: its OK button rescales the tile to the size in the spin
\* buttons, kept in range by them, and detaches the dialog.
ResizeTile ==
  /\ dlg
  /\ \E w, h \in Sizes : RG_TileScale(w, h)
  /\ dlg' = FALSE
  /\ UNCHANGED file

\* GeoCtrlButtonUp: the geometry control released at a new size.
GeoCtrlButtonUp ==
  /\ ~dlg
  /\ \E w, h \in Sizes : <<w, h>> # su /\ RG_TileScale(w, h)
  /\ UNCHANGED <<dlg, file>>

\* RG_TileEdit rescales the tile to its own size when the editor opens.
TileEdit ==
  /\ ~dlg
  /\ RG_TileScale(su[1], su[2])
  /\ UNCHANGED <<dlg, file>>

\* The attribute editing mode of the tile view sets one cell.
SetAttr ==
  /\ ~dlg
  /\ \E i \in DOMAIN attrs, v \in AttrVals :
       /\ attrs[i] # v
       /\ attrs' = [attrs EXCEPT ![i] = v]
  /\ UNCHANGED <<su, nw, nh, oob, dlg, file>>

\* The words RG_TileSave writes for the surface size, nw, nh and then
\* attrs[y*nw + x] in its loop order.
TileWords(w, h, cw, ch, a) ==
  <<w, h, cw, ch>> \o [k \in 1..(cw * ch) |->
                        a[At(cw, RowMajor(cw, ch)[k][1], RowMajor(cw, ch)[k][2])]]

\* RG_TileSave, from the tileset's save, which the modal dialog blocks.
RG_TileSave ==
  /\ ~dlg
  /\ file' = TileWords(su[1], su[2], nw, nh, attrs)
  /\ UNCHANGED <<su, nw, nh, attrs, oob, dlg>>

\* Fault: the cells are read with x in the outer loop.
ColMajor(cw, ch) == [k \in 1..(cw * ch) |-> <<(k - 1) \div ch, (k - 1) % ch>>]

\* The loops "for y < t->nh, for x < t->nw" of RG_TileLoad.
LoadOrder(cw, ch) == RowMajor(cw, ch)

\* The attribute array RG_TileLoad reallocates to cw*ch cells and fills
\* from the words f, the next word at each (x, y) of its loops.
LoadCells(f, cw, ch) ==
  LET Put(acc, xy) ==
        [a |-> [acc.a EXCEPT ![At(cw, xy[1], xy[2])] = f[acc.pos]],
         pos |-> acc.pos + 1]
  IN FoldLeft(Put, [a |-> [i \in 1..(cw * ch) |-> 0], pos |-> 5],
              LoadOrder(cw, ch)).a

\* The tileset is loaded again: the tile is initialised and RG_TileLoad
\* reads the surface, nw, nh and the grid from the file.
RG_TileLoad ==
  /\ ~dlg
  /\ file # <<>>
  /\ su' = <<file[1], file[2]>>
  /\ nw' = file[3]
  /\ nh' = file[4]
  /\ attrs' = LoadCells(file, file[3], file[4])
  /\ UNCHANGED <<oob, dlg, file>>

\* While the modal dialog is open only its buttons take events.
Next ==
  \/ TileSettingsDlg \/ CancelSettings \/ ResizeTile
  \/ GeoCtrlButtonUp \/ TileEdit \/ SetAttr
  \/ RG_TileSave \/ RG_TileLoad

Spec == Init /\ [][Next]_vars


\* A resize (the dialog, the geometry control, or the rescale when the
\* editor opens) that shrinks neither dimension keeps the attribute of every cell
\* at its (x, y): the copy loop of RG_TileScale re-indexes the saved array
\* with the new row width.
AttrsPreservedWhenGrowing ==
  [][(ResizeTile \/ GeoCtrlButtonUp \/ TileEdit) /\ nw' >= nw /\ nh' >= nh =>
       \A x \in 0..(nw - 1), y \in 0..(nh - 1) :
         attrs'[At(nw', x, y)] = attrs[At(nw, x, y)]]_vars

\* Loading the tileset gives the tile back the size and the attribute of
\* every cell it had when RG_TileSave wrote the file, whatever resizes and
\* edits came between: the tile RG_TileLoad builds is the one whose save
\* wrote that file, because it reads the grid in the order and with the
\* row width RG_TileSave wrote it.
LoadRestoresSaved ==
  [][RG_TileLoad => TileWords(su'[1], su'[2], nw', nh', attrs') = file]_vars

\* No resize writes outside the newly allocated t->attrs.
NoOutOfBoundsWrite == ~oob

====
