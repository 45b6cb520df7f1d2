----------------------------- MODULE TileEditor -----------------------------
(***************************************************************************)
(* The tile editor of src/rg/tile.c.  A tileset owns lists of pixmaps,     *)
(* sketches and features; each tile holds an ordered list of elements      *)
(* (RG_TileElement), each referring to one of those objects, and pixmaps   *)
(* and sketches count their references in nrefs.  Every tile has an editor *)
(* window (RG_TileEdit) with a tile view, whose state says which element  *)
(* is being edited, and a tree list (tl_feats) refreshed by PollFeatures,  *)
(* whose selected item is what the menu handlers act on.                  *)
(*                                                                         *)
(* Names, pixels, positions, controls, toolbars and menus are abstracted:  *)
(* an object is a kind and a number, an element a kind and an object; its *)
(* visibility flag.  RG_TILE_DIRTY, which only schedules RG_TileGenerate, *)
(* and the control handlers that only rescale pixels are left out.  Each  *)
(* handler is one atomic step, as the GUI thread runs it to completion.    *)
(***************************************************************************)
EXTENDS Naturals, Sequences, SequencesExt, FiniteSets

CONSTANTS
  Tiles,      \* the tiles of the tileset, each with an open editor
  MaxObjs,    \* bound on the objects of each kind ever created
  MaxElems,   \* bound on the tile elements ever allocated
  UintMax,    \* largest value of an unsigned reference count
  AttrCats,   \* cats of the attribute items ("walkable-attrs", ...)
  None,       \* no element selected / no element edited
  OneEventPerFrame  \* TRUE: tl_feats is redrawn, hence polled, between
                    \* any two events

ASSUME /\ MaxObjs \in Nat \ {0} /\ MaxElems \in Nat \ {0} /\ UintMax \in Nat
       /\ OneEventPerFrame \in BOOLEAN

Kinds == {"feature", "pixmap", "sketch"}
Objs == Kinds \X (1..MaxObjs)
ElemIds == 1..MaxElems

\* The items of tl_feats, by their cat and p1 fields: an element item has
\* its element's type as cat and the element as p1; the attribute tree
\* that PollFeatures lists before the elements points into attr_names.
ElemItems == [cat : Kinds, p1 : ElemIds]
OtherItems == {[cat |-> c, p1 |-> 0] : c \in {"attributes", "layers"} \cup AttrCats}

\* Tile view states (tv->state) used by tile.c.
ViewStates == {"tile", "feature", "pixmap", "sketch", "attrib", "layers"}

VARIABLES
  objs,      \* objects in ts->features, ts->pixmaps, ts->sketches
  nObjs,     \* objects of each kind allocated so far
  nrefs,     \* the nrefs field of each allocated object
  elems,     \* t->elements of each tile: a sequence of element ids
  tel,       \* the contents of each allocated element
  nElems,    \* elements allocated so far
  tv,        \* the tile view of each tile's editor
  items,     \* the elements listed in tl_feats at its last poll
  sel,       \* the selected item of tl_feats
  fault      \* ghost: a handler dereferenced a freed element

vars == <<objs, nObjs, nrefs, elems, tel, nElems, tv, items, sel, fault>>

NoTel == [kind |-> "none", obj |-> <<"none", 0>>]

TypeOK ==
  /\ objs \subseteq Objs
  /\ nObjs \in [Kinds -> 0..MaxObjs]
  /\ nrefs \in [Objs -> 0..UintMax]
  /\ elems \in [Tiles -> Seq(ElemIds)]
  /\ tel \in [ElemIds -> [kind : Kinds, obj : Objs] \cup {NoTel}]
  /\ nElems \in 0..MaxElems
  /\ tv \in [Tiles -> [state : ViewStates, edit_mode : {0, 1},
                       cur : ElemIds \cup {None}]]
  /\ items \in [Tiles -> SUBSET ElemIds]
  /\ sel \in [Tiles -> ElemItems \cup OtherItems \cup {None}]
  /\ fault \in BOOLEAN

Allocated == {o \in Objs : o[2] <= nObjs[o[1]]}
Freed == Allocated \ objs
LiveElems(t) == ToSet(elems[t])

\* The elements of all tiles that refer to object o.
Refs(o) == {<<t, i>> \in Tiles \X ElemIds :
              i \in DOMAIN elems[t] /\ tel[elems[t][i]].obj = o}

\* Fault: the decrement written as on a signed count.
DecSigned(n) == n - 1

\* --nrefs on an unsigned counter.
Dec(n) == IF n = 0 THEN UintMax ELSE n - 1

\* The view after CloseElement: tile edition, no element, edit_mode 0.
ClosedView == [state |-> "tile", edit_mode |-> 0, cur |-> None]

\* The view after OpenElement(tv, e) for an element e of kind k.
OpenedView(e, k) == [state |-> k, edit_mode |-> 1, cur |-> e]

\* RG_TileEdit ends with CloseElement: each view starts in tile edition.
Init ==
  /\ objs = {}
  /\ nObjs = [k \in Kinds |-> 0]
  /\ nrefs = [o \in Objs |-> 0]
  /\ elems = [t \in Tiles |-> <<>>]
  /\ tel = [e \in ElemIds |-> NoTel]
  /\ nElems = 0
  /\ tv = [t \in Tiles |-> ClosedView]
  /\ items = [t \in Tiles |-> {}]
  /\ sel = [t \in Tiles |-> None]
  /\ fault = FALSE

(* Element list operations: RG_TileAddX and RG_TileDelX                    *)

\* Append a new element for object o to tile t; pixmaps and sketches count the reference, features do not.
AddElement(t, o) ==
  LET e == nElems + 1 IN
  /\ nElems < MaxElems
  /\ nElems' = e
  /\ elems' = [elems EXCEPT ![t] = Append(@, e)]
  /\ tel' = [tel EXCEPT ![e] = [kind |-> o[1], obj |-> o]]

RG_TileAddFeature(t, o) == AddElement(t, o) /\ UNCHANGED nrefs

RG_TileAddPixmap(t, o) ==
  AddElement(t, o) /\ nrefs' = [nrefs EXCEPT ![o] = @ + 1]

RG_TileAddSketch(t, o) ==
  AddElement(t, o) /\ nrefs' = [nrefs EXCEPT ![o] = @ + 1]

\* Remove the first element of t whose object is o, decrement o's nrefs,
\* and destroy o if the count reaches 0 and destroy is set.  The search
\* compares the object pointer only, whatever the element's type.
DelFirstRef(t, o, destroy) ==
  LET idx == {i \in DOMAIN elems[t] : tel[elems[t][i]].obj = o} IN
  IF idx = {}
    THEN UNCHANGED <<elems, nrefs, objs>>
    ELSE LET n == Dec(nrefs[o]) IN
         /\ elems' = [elems EXCEPT ![t] = RemoveAt(@, Min(idx))]
         /\ nrefs' = [nrefs EXCEPT ![o] = n]
         /\ objs' = IF n = 0 /\ destroy THEN objs \ {o} ELSE objs

RG_TileDelFeature(t, o, destroy) == DelFirstRef(t, o, destroy)

\* Fault: the pixmap is destroyed without consulting its reference count.
DelPixmapIgnoringRefs(t, o, destroy) ==
  LET idx == {i \in DOMAIN elems[t] : tel[elems[t][i]].obj = o} IN
  IF idx = {}
    THEN UNCHANGED <<elems, nrefs, objs>>
    ELSE /\ elems' = [elems EXCEPT ![t] = RemoveAt(@, Min(idx))]
         /\ nrefs' = [nrefs EXCEPT ![o] = Dec(@)]
         /\ objs' = IF destroy THEN objs \ {o} ELSE objs

RG_TileDelPixmap(t, o, destroy) == DelFirstRef(t, o, destroy)

\* Fault: the removal is done inside the search loop for every match
\* (with a safe iteration), so every element of t whose object is o is
\* removed, with one decrement of nrefs after the loop.
DelSketchAllRefs(t, o, destroy) ==
  LET idx == {i \in DOMAIN elems[t] : tel[elems[t][i]].obj = o} IN
  IF idx = {}
    THEN UNCHANGED <<elems, nrefs, objs>>
    ELSE LET n == Dec(nrefs[o]) IN
         /\ elems' = [elems EXCEPT ![t] = SelectSeq(@, LAMBDA e : tel[e].obj # o)]
         /\ nrefs' = [nrefs EXCEPT ![o] = n]
         /\ objs' = IF n = 0 /\ destroy THEN objs \ {o} ELSE objs

RG_TileDelSketch(t, o, destroy) == DelFirstRef(t, o, destroy)

\* The end of the handlers that insert an element: post "tlist-poll" to
\* tl_feats (PollFeatures runs at once), deselect all, and select the first
\* item of the category whose object is o.
PollSelect(t, o) ==
  LET ids == {i \in DOMAIN elems'[t] : tel'[elems'[t][i]].obj = o} IN
  /\ items' = [items EXCEPT ![t] = ToSet(elems'[t])]
  /\ sel' = [sel EXCEPT ![t] = [cat |-> o[1], p1 |-> elems'[t][Min(ids)]]]

\* A new object of kind k put on the tileset's list.
NewObject(k) ==
  LET o == <<k, nObjs[k] + 1>> IN
  /\ nObjs[k] < MaxObjs
  /\ nObjs' = [nObjs EXCEPT ![k] = @ + 1]
  /\ objs' = objs \cup {o}

NextObj(k) == <<k, nObjs[k] + 1>>

(* Handlers of the tile editor window                                      *)

\* CreatePixmap: a new pixmap, attached at 0,0, opened for edition and
\* selected.  CreateSketch does the same with a new sketch.
CreatePixmap(t) ==
  LET o == NextObj("pixmap") IN
  /\ NewObject("pixmap")
  /\ RG_TileAddPixmap(t, o)
  /\ tv' = [tv EXCEPT ![t] = OpenedView(nElems + 1, "pixmap")]
  /\ PollSelect(t, o)
  /\ UNCHANGED fault

CreateSketch(t) ==
  LET o == NextObj("sketch") IN
  /\ NewObject("sketch")
  /\ RG_TileAddSketch(t, o)
  /\ tv' = [tv EXCEPT ![t] = OpenedView(nElems + 1, "sketch")]
  /\ PollSelect(t, o)
  /\ UNCHANGED fault

\* ImportFromBMP: SDL_LoadBMP may fail (message, no change); otherwise a
\* new pixmap is attached, without opening it or polling the list.
ImportFromBMP(t) ==
  LET o == NextObj("pixmap") IN
  /\ NewObject("pixmap")
  /\ RG_TileAddPixmap(t, o)
  /\ UNCHANGED <<tv, items, sel, fault>>

\* AddFillFeature and AddSketchProjFeature: a new feature of that type.
AddFeature(t) ==
  LET o == NextObj("feature") IN
  /\ NewObject("feature")
  /\ RG_TileAddFeature(t, o)
  /\ tv' = [tv EXCEPT ![t] = OpenedView(nElems + 1, "feature")]
  /\ PollSelect(t, o)
  /\ UNCHANGED fault

AddFillFeature(t) == AddFeature(t)

AddSketchProjFeature(t) == AddFeature(t)

\* AttachPixmapDlg / AttachSketchDlg: a modal dialog whose list holds the
\* tileset's pixmaps / sketches when it opens; being modal, it keeps every
\* other window from changing them before its OK button is pushed.
AttachPixmapDlg == {o \in objs : o[1] = "pixmap"}

AttachSketchDlg == {o \in objs : o[1] = "sketch"}

\* AttachPixmap / AttachSketch: the OK button of the modal dialog listing
\* the tileset's objects of that kind; an existing object is attached
\* again, opened, and the first element referring to it is selected.
AttachPixmap(t) ==
  \E o \in AttachPixmapDlg :
    /\ RG_TileAddPixmap(t, o)
    /\ tv' = [tv EXCEPT ![t] = OpenedView(nElems + 1, "pixmap")]
    /\ PollSelect(t, o)
    /\ UNCHANGED <<objs, nObjs, fault>>

AttachSketch(t) ==
  \E o \in AttachSketchDlg :
    /\ RG_TileAddSketch(t, o)
    /\ tv' = [tv EXCEPT ![t] = OpenedView(nElems + 1, "sketch")]
    /\ PollSelect(t, o)
    /\ UNCHANGED <<objs, nObjs, fault>>

(* Handlers acting on the selected item of tl_feats                        *)

\* The selected item is an element that has been freed since the list was
\* last polled: the tlist item still holds it in p1.
StaleSel(t) == sel[t] \in ElemItems /\ sel[t].p1 \notin LiveElems(t)

\* A handler dereferencing it (undefined behaviour): recorded, and the
\* behaviour is not followed further.
Fault ==
  /\ fault' = TRUE
  /\ UNCHANGED <<objs, nObjs, nrefs, elems, tel, nElems, tv, items, sel>>

\* The index of element e in the tile's element list.
IndexOf(t, e) == CHOOSE i \in DOMAIN elems[t] : elems[t][i] = e

\* The call of RG_TileDelFeature, RG_TileDelPixmap or RG_TileDelSketch
\* chosen by the cat of the selected item, with the object of its element.
DelSelected(t, detach_only) ==
  LET i == sel[t] IN
  IF i \in ElemItems
    THEN CASE i.cat = "feature" -> RG_TileDelFeature(t, tel[i.p1].obj, ~detach_only)
           [] i.cat = "pixmap"  -> RG_TileDelPixmap(t, tel[i.p1].obj, ~detach_only)
           [] i.cat = "sketch"  -> RG_TileDelSketch(t, tel[i.p1].obj, ~detach_only)
    ELSE UNCHANGED <<elems, nrefs, objs>>

\* Fault: the element being edited is not closed first.
DeleteElementNoClose(t, detach_only) ==
  /\ sel[t] # None
  /\ IF StaleSel(t)
       THEN Fault
       ELSE /\ DelSelected(t, detach_only)
            /\ UNCHANGED <<nObjs, tel, nElems, tv, items, sel, fault>>

\* DeleteElement: "Detach" (detach_only) or "Destroy" the selected item.
\* The editor is closed whatever is being edited, then the FIRST element of
\* the tile whose object is the selected element's object is removed.
DeleteElement(t, detach_only) ==
  /\ sel[t] # None
  /\ IF StaleSel(t)
       THEN Fault
       ELSE /\ tv' = IF tv[t].edit_mode = 1
                       THEN [tv EXCEPT ![t] = ClosedView] ELSE tv
            /\ DelSelected(t, detach_only)
            /\ UNCHANGED <<nObjs, tel, nElems, items, sel, fault>>

\* MoveElementUp / MoveElementDown: swap the selected element with its
\* predecessor / successor, if it has one.
SwapAt(s, i, j) == [s EXCEPT ![i] = s[j], ![j] = s[i]]

MoveElement(t, up) ==
  /\ sel[t] \in ElemItems
  /\ IF StaleSel(t)
       THEN Fault
       ELSE LET i == IndexOf(t, sel[t].p1)
                j == IF up THEN i - 1 ELSE i + 1 IN
            /\ j \in DOMAIN elems[t]
            /\ elems' = [elems EXCEPT ![t] = SwapAt(@, i, j)]
            /\ UNCHANGED <<objs, nObjs, nrefs, tel, nElems, tv, items, sel, fault>>

MoveElementUp(t) == MoveElement(t, TRUE)

MoveElementDown(t) == MoveElement(t, FALSE)

\* ToggleElementVisibility: tel->visible only decides whether
\* RG_TileGenerate draws the element and how PollFeatures labels it, both
\* abstracted; what remains is the dereference of the selected element.
ToggleElementVisibility(t) ==
  /\ sel[t] \in ElemItems
  /\ IF StaleSel(t) THEN Fault ELSE UNCHANGED vars

\* Undo / Redo: in pixmap edition they replay the undo history of the
\* pixmap of the edited element tv_pixmap.tel (pixels, abstracted); in any
\* other state they do nothing.  What remains is the dereference.
PixmapUndoRedo(t) ==
  /\ tv[t].state = "pixmap"
  /\ IF tv[t].cur \in LiveElems(t) THEN UNCHANGED vars ELSE Fault

Undo(t) == PixmapUndoRedo(t)

Redo(t) == PixmapUndoRedo(t)

\* The view after EditElement has closed the current element and opened
\* the selected item: an element, an attribute layer, or the layers.
OpenSelected(t) ==
  LET i == sel[t] IN
  IF StaleSel(t) THEN Fault
  ELSE /\ tv' = [tv EXCEPT ![t] =
                   IF i \in ElemItems THEN OpenedView(i.p1, i.cat)
                   ELSE IF i \in OtherItems /\ i.cat \in AttrCats
                     THEN [state |-> "attrib", edit_mode |-> 1, cur |-> None]
                   ELSE IF i \in OtherItems /\ i.cat = "layers"
                     THEN [state |-> "layers", edit_mode |-> 1, cur |-> None]
                   ELSE ClosedView]
       /\ UNCHANGED <<objs, nObjs, nrefs, elems, tel, nElems, items, sel, fault>>

\* EditElement from the sticky "Edit" button, whose state is bound to
\* tv->edit_mode and toggled before the handler runs: it closes the element
\* if edit_mode was 1.  From the "Edit" menu entries and tlist double-click
\* (viaButton FALSE) it always closes and reopens.
EditElement(t, viaButton) ==
  IF viaButton /\ tv[t].edit_mode = 1
    THEN /\ tv' = [tv EXCEPT ![t] = ClosedView]
         /\ UNCHANGED <<objs, nObjs, nrefs, elems, tel, nElems, items, sel, fault>>
    ELSE OpenSelected(t)

\* ElementClosedEv: the element's edition window is closed by the user.
ElementClosedEv(t) ==
  /\ tv[t].state \in Kinds
  /\ tv[t].edit_mode = 1
  /\ tv' = [tv EXCEPT ![t] = ClosedView]
  /\ UNCHANGED <<objs, nObjs, nrefs, elems, tel, nElems, items, sel, fault>>

\* The user selects an item listed at the last poll, or clears the selection.
Select(t) ==
  \E i \in {[cat |-> tel[e].kind, p1 |-> e] : e \in items[t]}
            \cup OtherItems \cup {None} :
    /\ i # sel[t]
    /\ sel' = [sel EXCEPT ![t] = i]
    /\ UNCHANGED <<objs, nObjs, nrefs, elems, tel, nElems, tv, items, fault>>

\* PollFeatures, run by the AG_TLIST_POLL tlist when it is drawn: the list
\* is rebuilt from t->elements and AG_TlistRestore keeps the selection only
\* if its item is listed again.
PollFeatures(t) ==
  /\ items[t] # LiveElems(t)
  /\ items' = [items EXCEPT ![t] = LiveElems(t)]
  /\ sel' = [sel EXCEPT ![t] = IF StaleSel(t) THEN None ELSE @]
  /\ UNCHANGED <<objs, nObjs, nrefs, elems, tel, nElems, tv, fault>>


\* Every list shows the tile's elements: nothing happened since the draw.
AllFresh == \A t \in Tiles : items[t] = LiveElems(t)

\* The event loop dispatches the next event: not after undefined behaviour,
\* and, when OneEventPerFrame, only once every list has been redrawn.
Ready == ~fault /\ (OneEventPerFrame => AllFresh)

\* The events of the editor window of each tile, and the polls of its list.
Next ==
  \E t \in Tiles :
    \/ ~fault /\ PollFeatures(t)
    \/ Ready /\ CreatePixmap(t)
    \/ Ready /\ CreateSketch(t)
    \/ Ready /\ ImportFromBMP(t)
    \/ Ready /\ AddFillFeature(t)
    \/ Ready /\ AddSketchProjFeature(t)
    \/ Ready /\ AttachPixmap(t)
    \/ Ready /\ AttachSketch(t)
    \/ Ready /\ \E d \in BOOLEAN : DeleteElement(t, d)
    \/ Ready /\ MoveElementUp(t)
    \/ Ready /\ MoveElementDown(t)
    \/ Ready /\ ToggleElementVisibility(t)
    \/ Ready /\ Undo(t)
    \/ Ready /\ Redo(t)
    \/ Ready /\ \E b \in BOOLEAN : EditElement(t, b)
    \/ Ready /\ ElementClosedEv(t)
    \/ Ready /\ Select(t)

Spec == Init /\ [][Next]_vars

(* Properties                                                              *)

\* Every element of every tile refers to an object still on the tileset's
\* lists: RG_TileDelPixmap / RG_TileDelSketch free an object only when no
\* element of any tile refers to it any more, however the tiles attach,
\* detach and destroy a shared pixmap or sketch.
NoDanglingReference ==
  \A t \in Tiles : \A e \in LiveElems(t) : tel[e].obj \in objs

\* A tile view is in edit mode exactly when it edits something other than
\* the tile, and an element being edited (tv_pixmap.tel, tv_sketch.tel,
\* tv_feature.ft) is an element of that tile of the view's kind: no handler
\* frees or detaches the element an open editor works on.
EditedElementLive ==
  \A t \in Tiles :
    /\ (tv[t].edit_mode = 1) <=> (tv[t].state # "tile")
    /\ tv[t].state \in Kinds =>
         /\ tv[t].cur \in LiveElems(t)
         /\ tel[tv[t].cur].kind = tv[t].state

\* No handler dereferences a tile element that has been freed (the p1 of
\* a tlist item that PollFeatures has not yet dropped).
NoFreedElementAccess == ~fault

\* The element lists as the number of elements of each tile referring to
\* each object.
Uses == [t \in Tiles |-> [o \in Objs |->
            Cardinality({i \in DOMAIN elems[t] : tel[elems[t][i]].obj = o})]]

Elements == INSTANCE TileElements WITH Objects <- Objs, uses <- Uses

\* The handlers of the tile editors implement TileElements: every step adds
\* one element, removes one, or leaves the uses alone (a reordering or a
\* step outside the lists), and an object leaves the tileset only with the
\* removal of the last element of any tile that refers to it.  This is
\* Elements!Spec, whose stuttering steps UNCHANGED <<objs, Uses>> include
\* every step that leaves objs, elems and tel alone: that disjunct comes
\* first so that TLC does not compute Uses for those steps.
ElementsSpec ==
  /\ Elements!Init
  /\ [][\/ UNCHANGED <<objs, elems, tel>>
        \/ Elements!Next
        \/ UNCHANGED <<objs, Uses>>]_vars

\* "Detach" and "Destroy" in the popup menu of an element remove that
\* element: whenever an element of tile t disappears, it is the selected one.
DeleteRemovesSelected ==
  [][\A t \in Tiles :
       LiveElems(t) \ LiveElems(t)' # {} =>
         /\ sel[t] \in ElemItems
         /\ LiveElems(t) \ LiveElems(t)' = {sel[t].p1}]_vars

====
