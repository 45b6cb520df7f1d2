# TLA+ models of libagar (JamesLinus/libagar, src/)

This directory holds TLA+ models of the parts of `src/` whose behaviour
depends on the order of events, threads or calls. It also holds the TLC
configurations that check those models. Every definition is translated from
the C source. `PROJECT.json` maps each definition to the lines it models and
lists the runs, the mutants, the findings and the hazards.

## The system and its parts

`src/` is a sample of the Agar toolkit and of applications built on it.

| Part | Source | What changes state |
|------|--------|--------------------|
| Audio demo | `demos/audio/audio.c` | GUI handlers open and close an output device. A sine-generator thread writes to that device. The two share `auOut`, `outAbort` and `outLock`. |
| Tile editor | `rg/tile.c` | Each tile holds a list of elements, and each element refers to a pixmap, sketch or feature of the tileset. Pixmaps and sketches count their references in `nrefs`. Each tile has an editor window with a tile view (`tv->state`, `edit_mode`) and a polled tree list `tl_feats`. Every menu handler acts on the list's selected item. |
| Tile resizing and the grid's persistence | `rg/tile.c` | `RG_TileScale` reallocates the per-cell attribute and layer arrays and copies the old cells back. `RG_TileSave` writes the surface, `nw`, `nh` and the cells; `RG_TileLoad` reallocates the arrays to the `nw*nh` it reads and fills them. |
| Line geometry | `math/m_line.c` | Pure functions. `M_IntersectLineLine2` is the one with branching control. |
| Object manager | `engine/objmgr.c` | The world is a tree of objects. A polled multi-selection tree list (`objs_tl`) drives `obj_op`. Editor windows are registered per object in `dobjs` and `gobjs`, and each holds a dependency of `mapedit.pseudo` on its object. The "New object" dialog has a polled list of its own, whose selection is bound to the global `current_pobj`. |
| Map-editor object queue, UCombo widget, configuration | `engine/mapedit/objq.c`, `gui/ucombo.c`, `engine/config.c` | Tile map windows opened per object, a modal list window, property handlers. Not modelled (see "What is not modelled"). |
| Headers | `*.h` | Declarations only. |

How the parts interact:

- In the audio demo, the GUI thread runs one event handler at a time. The
  generator threads run concurrently with it.
- In the tile editor, every handler runs to completion on the GUI thread.
  What interleaves is the order of the user's events, across the editors of
  several tiles that share objects. The polls of `tl_feats` are interleaved
  with them too. A poll happens only when the list is drawn, so several
  events can be handled against one poll.

## Modules

| Module | Models | State | Actions |
|--------|--------|-------|---------|
| `AudioOut` | `audio.c` | `auOut`, `devOpen` (the devices `AU_OpenOut` opened and `AU_CloseOut` has not closed), `outAbort`, `outLock` owner, `pc` of each generator thread, `ui` of the GUI thread | `OpenFileOut`, `OpenAudioOut` (success or failure), `CloseOutStart` (sets `outAbort`), `CloseOutFinish` (its polling loop ends, the device is closed), `GenLock`, `GenAbort`, `GenWrite`, `GenUnlock` (the steps of `GenSine`) |
| `TileEditor` | `tile.c` element lists and editor handlers | `objs` (objects on the tileset's lists), `nrefs`, `elems` (each tile's element sequence), `tel` (the element records), `tv` (the tile view of each editor), `items` (elements listed at the last poll), `sel` (the selected tlist item as `cat` and `p1`), `fault` | `CreatePixmap`, `CreateSketch`, `ImportFromBMP`, `AddFillFeature`, `AddSketchProjFeature`, `AttachPixmap`, `AttachSketch`, `DeleteElement` (detach or destroy), `MoveElementUp` and `MoveElementDown`, `ToggleElementVisibility`, `EditElement` (from the sticky button or from the menu or double-click), `ElementClosedEv`, `Select`, `PollFeatures`. The helpers `RG_TileAdd*` and `RG_TileDel*` are operators of the actions that call them, as are `CloseElement` and `OpenElement`. |
| `TileScale` | `RG_TileScale` and its callers | `su` (surface size), `nw`, `nh`, `attrs` (the row-major array), `oob`, `dlg` (the modal "Tile information" dialog is open), `file` (the words the last save wrote) | `TileSettingsDlg` (opens the dialog), `CancelSettings`, `ResizeTile` (its OK button), `GeoCtrlButtonUp`, `TileEdit` (the rescale when the editor opens), `SetAttr`, `RG_TileSave`, `RG_TileLoad` |
| `ObjMgr` | `objmgr.c` | `alive` (allocated objects), `parent`, `editable` (objects whose type has an edit operation), `deps` (`mapedit.pseudo`'s dependency count per address), `resident` (data page-ins), `indestr` (objects flagged `OBJECT_INDESTRUCTIBLE`), `dobjs`, `gobjs`, `items` and `sel` of `objs_tl`, the dialog's `dlgOpen`, `dlgItems`, `dlgSel`, `dlgDob`, the global `currentPobj`, `fault` | `ObjOp(op)` for each `OBJEDIT_*` operation (one step runs the whole loop over the list with `FoldLeft`), `CloseObjData`, `CloseObjGeneric`, `PollObjs`, `PollDlg`, `SelectObjs`, `CreateObjDlg`, `SelectParent`, `CreateObj`, `CancelDlg`, and `Crashed` (nothing happens after undefined behaviour) |
| `EditorRegistry` | what `objmgr.c` promises | `live`, `par`, `editors` (the kinds of editor open on each object) | `OpenEditors`, `CloseEditor`, `Create`, `Destroy` (whole subtrees without editors) |
| `TileElements` | what the `RG_TileAdd*` / `RG_TileDel*` element lists promise | `objs`, `uses` (the elements of each tile referring to each object) | `AddUse` (one element added, its object created with it or already there), `RemoveUse` (one element removed; its object may go only when no tile uses it) |
| `LineIntersect` | `M_IntersectLineLine2` | `seg` (the four endpoints of one call) | `Call` (the next call, with one endpoint moved) |

Each module that is checked has an MC module (`MCAudioOut`, `MCTileEditor`,
`MCTileScale`, `MCLineIntersect`, `MCObjMgr`) that gives its constants
their values. `EditorRegistry` is checked through `ObjMgr`, and `TileElements` through
`TileEditor`: each instantiates the abstract module with a refinement mapping
(`EditorsOf`, `Uses`: the number of elements of each tile referring to each
object) and checks its `Spec` as a `PROPERTY`.

### How the models abstract the code

- **Audio.** The sample buffer, `df` and the `AG_Delay` pauses are left out.
  `CloseOut` is split at its polling loop, which is the only point where the
  generators interleave with it. An iteration of that loop that still reads
  `outAbort = 1` only sleeps, so it changes no state.
- **Tile editor: objects and elements.**
  - An object is a kind and a number.
  - An element is a kind and an object. Its visibility flag only decides
    what `RG_TileGenerate` draws and how the list labels it, so it is left
    out; `ToggleElementVisibility` keeps only its dereference of the
    selected element.
  - Element ids are never reused.
  - The element search in `RG_TileDel*` compares the object pointer, as the
    code does through the union.
- **Tile editor: the list and the selection.**
  - The selection is the tlist item's `cat` and `p1`.
  - A handler that dereferences an element freed since the last poll sets
    `fault`. This is undefined behaviour in C, and the model does not follow
    the behaviour past it.
  - The four attribute items behave alike, so the MC module keeps one of
    them.
- **Tile editor: the attach dialogs.** `AttachPixmap` and `AttachSketch`
  choose among the objects that the dialogs `AttachPixmapDlg` and
  `AttachSketchDlg` list: the tileset's pixmaps or sketches, as pointers in
  `p1`. The list is filled once when the dialog opens, but the dialog is
  created with `AG_WINDOW_MODAL`, so no other handler runs before its OK
  button. Opening the dialog and pressing OK are therefore one step, which
  chooses among the objects on the tileset's lists at that moment.
- **Tile editor: the refinement mapping.** `Uses` counts elements, which is
  costly for TLC to evaluate in every state. `ElementsSpec` therefore lists
  two stuttering disjuncts before `Elements!Next`: a step that changes none
  of `objs`, `elems`, `tel`, and a step that keeps `objs` and `Uses` (a
  reorder, a toggle, a poll). Both are stuttering steps of `TileElements`,
  so the property is the same as `[][Elements!Next]_Elements!vars`.
- **Tile editor: left out.** Names, positions, pixels, toolbars,
  `RG_TILE_DIRTY`, the pixel-only control handlers, sketch-element
  deletion and export. `Undo` and `Redo` replay a pixmap's history of
  pixels; what is kept of them is their dereference of the edited element
  `tv_pixmap.tel`, which sets `fault` if that element is freed. With the
  list redrawn between events, `EditedElementLive` keeps it live.
- **TileScale.** `t->layers` goes through the same code as `t->attrs` and is
  left out. A write beyond the new array is recorded in `oob`, and the model
  keeps only the writes inside the array. Attribute editing (`SetAttr`) is
  done by the tile view, whose code is not in `src/`; that action is marked
  spec_modelled.
- **TileScale: the settings dialog.** `ResizeTile` is the OK button of the
  "Tile information" window, which `tile_infos` creates with
  `AG_WINDOW_MODAL`. While it is open no other window of the editor gets
  events, so `GeoCtrlButtonUp`, `TileEdit` and `SetAttr` are guarded by
  `~dlg`. The sizes the dialog's spinbuttons can hold are the set `Sizes`.
- **TileScale: save and load.** The file is the sequence of words
  `RG_TileSave` writes: the surface's width and height (for
  `AG_WriteSurface`), `nw`, `nh`, then `attrs[y*nw + x]` in the order of its
  loops. The name, flags, origin, snap mode, `t->layers` and the elements
  are left out. `RG_TileLoad` is modelled by what it does with those words:
  it takes the size, `nw` and `nh` from them and fills a new array of
  `nw*nh` cells in its own loop order (`LoadCells`, `LoadOrder`). The
  tileset's save and load call them, and those are not in `src/`: a save
  can happen at any time outside the modal dialog, and a load replaces the
  tile with the one read from the last file.
- **ObjMgr: objects.**
  - An object is its address, a model value. A destroy frees addresses, and a
    later create or duplicate may be given one again, as malloc does.
  - The fields of freed memory are cleared, because the model never reads
    them. `deps` is kept per address, because the dependency entries live in
    `mapedit.pseudo` and are keyed by pointer.
  - The object library is not in `src/`. Its contract is modelled:
    - `object_destroy` frees the whole subtree (spec 4.1).
    - `object_in_use` is true when a dependency is held on the object or on
      a descendant.
    - `object_duplicate` attaches a copy beside the original.
    - A page-in or a duplication may fail.
- **ObjMgr: lists and dialog.**
  - Names, messages, icons, sibling order (so `move_up` and `move_down` only
    read the object) and `world_changed` are left out.
  - `OBJECT_INDESTRUCTIBLE` is kept: `obj_op` does not destroy a flagged
    object, and a duplicate copies the flag. `OBJECT_STATIC` is left out,
    because every object of the model was allocated by `create_obj` or a
    duplicate, so `object_destroy` always frees it.
  - Every branch of the tree list is taken as expanded.
  - One "New object" dialog at a time. A second one would share the same
    `current_pobj`.
  - As in the tile editor, `fault` records a read of a freed object.
- **LineIntersect.** Endpoints are integers on a 3 x 3 grid. On that grid the
  code's doubles are exact and `a/c` is correctly rounded, so the comparisons
  of the code are those of the rationals. `c = 0` gives infinity or NaN in
  the code, and both fail its range tests. The reference is the orientation
  test for crossing segments plus the parametric crossing point.

## Runs

| Run | Config | Expect | What it shows |
|-----|--------|--------|---------------|
| `audio_handshake` | `AudioOut.cfg` | pass | `CloseStopsOneGenerator`: when CloseOut returns, exactly one generator has stopped since it raised `outAbort`. `CloseWithGeneratorReturns`: a CloseOut started while a generator runs returns. |
| `audio_null_write` | `AudioOutWrite.cfg` | violation | `WriteOnlyToOpenDevice`: a generator writes to `auOut` after a later open that fails (the first one after a successful open) has set it to NULL, or after CloseOut has closed the device another generator still uses. |
| `audio_close_hang` | `AudioOutHang.cfg` | violation | `CloseOutReturns`: CloseOut with no generator running never returns. |
| `tile_editor` | `TileEditor.cfg` | pass | With the list redrawn between any two events, two editors sharing objects keep `NoDanglingReference` (no element refers to a destroyed object), `EditedElementLive` (an open editor edits a live element of its own kind, and `edit_mode` matches the state). `ElementsSpec`: the editors' handlers refine `TileElements`, so no handler removes two elements at once or frees an object another tile still uses. `TypeOK` is checked too. |
| `tile_stale_selection` | `TileEditorStale.cfg` | violation | Two events in one frame: the second dereferences an element freed by the first. |
| `tile_delete_first_match` | `TileEditorDelete.cfg` | violation | `DeleteRemovesSelected`: Detach removes another element of the same pixmap. |
| `objmgr_registry` | `ObjMgr.cfg` | pass | `EditorsOnLiveObjects`: no editor window is registered for a freed object. `EditorDepsBalanced`: each open editor holds exactly one dependency and each data editor one page-in, through failed page-ins, reopens, closes, destroys and reused addresses. `RegistrySpec`: the object manager refines `EditorRegistry`. `TypeOK` is checked too. |
| `objmgr_destroy_selection` | `ObjMgrDestroy.cfg` | violation | `NoFreedObjectAccess`: Destroy on a selection holding an object and its child destroys the child with its parent, then reads the freed child. |
| `tile_scale_grow` | `TileScale.cfg` | pass | `AttrsPreservedWhenGrowing`: a resize that shrinks no dimension keeps every cell's attribute in place. `LoadRestoresSaved`: a load gives back the grid of the last save, whatever resizes and edits came between, so the load reads the cells in the order and row width the save wrote them. `TypeOK` includes that the array has `nw*nh` cells. |
| `tile_scale_shrink` | `TileScaleOverflow.cfg` | violation | `NoOutOfBoundsWrite`: shrinking a tile writes past the new array. |
| `line_intersect_sound` | `LineIntersect.cfg` | pass | `IntersectionSound`: every returned point is the crossing. |
| `line_intersect_complete` | `LineIntersectComplete.cfg` | violation | `IntersectionComplete`: crossings with a positive determinant are missed. |

Each finding is explained in `PROJECT.json` under "findings". Each property
of a passing run has a mutant in `PROJECT.json`: a plausible bug of the code
that the property detects. The mutants are defined in the modules as
operators marked "Fault:".

## Bounds and why they are enough

- **`MCAudioOut`: `MaxOpens = 3`.**
  - With two opens, two generators can run at once, and a failed open can
    follow a successful one.
  - The third open lets a CloseOut happen between two generations.
  - There is one thread and one device per open.
- **`MCTileEditor`: two tiles, one object of each kind, three elements.**
  - These bounds let two tiles share a pixmap.
  - They also let a tile hold two elements of one object and still leave
    one more element.
  - Tile symmetry is sound because the tiles play identical roles.
  - `UintMax = 4` stands for `UINT_MAX`: only the wrap from 0 is observable.
  - The pass run explores about 305,000 distinct states in about 35 seconds.
- **`MCTileScale`: 2-pixel cells and sizes {1, 2, 3}.**
  - Each dimension then has 1 or 2 cells, so every resize can grow,
    shrink, or keep either dimension. Sizes 2 and 3 give the same grid, so
    a resize can also change the surface and keep the grid.
  - A shrink of a 2 x 2 grid writes past the new array, and a 2 x 2 grid
    read in the wrong loop order comes back transposed.
  - A third cell per dimension (size 4) multiplies the tiles by the files
    they can have saved, up to 512 grids of 3 x 3 each: the run no longer
    ends in minutes, and no new case of the copy or the load appears.
  - The pass run explores about 25,000 distinct states in about 20 seconds.
  - Attributes are 0 or 1, which is enough to distinguish any misplaced cell
    from a cell in place.
- **`MCObjMgr`: world and two more addresses.**
  - These give a child and a grandchild: an editor can be open below the
    object being destroyed, and a selection can hold an object together
    with its child.
  - They also give two siblings, and a freed address that is reused.
  - With a third address the state space grows to several million states,
    and no new case of the handlers appears.
  - The pass run explores about 141,000 distinct states in about 50
    seconds.
- **`MCLineIntersect`: the 3 x 3 grid.**
  - Every pair of segments on it is checked.
  - This includes crossing, touching, parallel, collinear and degenerate
    pairs, in every endpoint order.

## Fairness

- **`AudioOut`.** Weak fairness applies to each generator thread and to
  `CloseOutFinish`. The OS schedules every runnable thread, and the polling
  loop of CloseOut keeps running while its condition holds. The user's
  clicks are not assumed to happen.
- **`AudioOut.cfg` and deadlock.** This run sets `CHECK_DEADLOCK FALSE`.
  Once the open bound is reached, a CloseOut with no generator running
  leaves no step enabled. That hang is the subject of `AudioOutHang.cfg`.
- **The other modules.** They check only safety properties. The tile editor
  and the resize model never stop, because a user event is always possible.

## What is not modelled

Not modelled, and why:

- `objq.c`, the map editor's object queue. Its handlers create windows
  and buttons; the state they change is that of the map editor: the tile
  map `object_load` reads, `map_adjust`, `node_add_sprite` and
  `node_add_anim`, `mapview_init` and the mapview flags. None of that code
  is in `src/`, so the model would be made of contracts, not of this code.
  Its one control hazard, the frame-less animation at line 157, is listed in
  `PROJECT.json`.
- `ucombo.c`, the UCombo widget. No code in `src/` creates one. The order
  of its events is set by the widget library: the sticky button's `state`
  binding, which is what `Expand` receives, the `window-modal-close` that a
  click outside the modal panel posts, and when the list posts
  `tlist-changed`. None of that is in `src/`.
- `config.c`. Its handlers pass a value on to `prop_set_string`,
  `prop_set_int`, `object_save` or SDL, all outside `src/`.
  `config_search_file` is a sequential search of the file system, one
  directory at a time. Its truncation hazard is listed in `PROJECT.json`.
- The element part of `RG_TileSave` and `RG_TileLoad`, and
  `RG_TileDestroy`. They are called by the tileset's save, load and tile
  deletion, which are not in `src/`. Two hazards of this code are listed in
  `PROJECT.json`. A failed load returns with the elements read so far
  attached and their `nrefs` raised; spec.md calls this a known sharp edge.
  `RG_TileDestroy` frees elements without lowering `nrefs`.

- The rest of `objmgr.c`: `objmgr_changed_dlg` with `save_changes` and
  `discard_changes`, `objmgr_reopen`, `objmgr_destroy` and `world_changed`.
  Their callers (the object library's load and the application's quit path)
  and the readers of `world_changed` are not in `src/`, so neither when they
  run nor what their effect is used for can be taken from the code. Two
  hazards of this code are listed in `PROJECT.json` without a property:
  `create_obj` does not set `world_changed`, and `objmgr_changed_dlg` returns
  without a word when its window already exists, while Save and Discard
  never detach it.
- `RG_TileImportFromXCF` (`tile.c`, lines 984 to 1078): it is compiled out by
  `#if 0`. If it were compiled, its pixmap-name retry after `tryname3` would
  jump back to `tryname1` (line 1058), into the other branch.
- The pixel code (`RG_TileGenerate`, blending) and the serialisation: pure
  data transformations.
- The floating-point routines of `m_line.c` other than the segment
  intersection: they need square roots or trigonometry.
- The headers: they declare types and prototypes only.
