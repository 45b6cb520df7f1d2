------------------------------- MODULE ObjMgr -------------------------------
(***************************************************************************)
(* The object manager of the map editor (src/engine/objmgr.c).  The world *)
(* is a tree of objects; the "Object manager" window lists it in a polled, *)
(* multi-selection tree list (objs_tl, refreshed by poll_objs) whose popup *)
(* menu runs obj_op on every selected item.  Editor windows opened on an   *)
(* object are registered in dobjs (data editors) and gobjs (generic        *)
(* editors); each registration holds a dependency of mapedit.pseudo on the *)
(* object (object_add_dep), and a data editor also holds the object's data *)
(* paged in.  The "New object" dialog (create_obj_dlg) has a polled list   *)
(* of its own whose selection is bound to the global current_pobj.        *)
(*                                                                         *)
(* An object is its address, a model value of Objects: addresses freed    *)
(* by a destroy can be handed out again.  Names, icons, labels, messages,  *)
(* the order of siblings and world_changed are abstracted.  The object    *)
(* library (object_in_use, object_destroy, object_duplicate, page-in) is  *)
(* not in src/ and is modelled from its contract.  Each handler is one     *)
(* atomic step of the GUI thread.                                          *)
(***************************************************************************)
EXTENDS Naturals, Sequences, SequencesExt, FiniteSets

CONSTANTS
  Objects,    \* the addresses an object can have, world included
  world,      \* the root of the object tree
  None,       \* a NULL object pointer
  OneEventPerFrame  \* TRUE: both lists are redrawn, hence polled, between
                    \* any two events

ASSUME world \in Objects /\ None \notin Objects /\ OneEventPerFrame \in BOOLEAN

\* The operations of the objs_tl popup menu (OBJEDIT_*).
Ops == {"edit_data", "edit_generic", "load", "save", "dup",
        "move_up", "move_down", "reinit", "destroy"}

VARIABLES
  alive,      \* allocated objects, all in the tree under world
  parent,     \* the parent of each object (None for world)
  editable,   \* objects whose type has an edit operation
  indestr,    \* objects flagged OBJECT_INDESTRUCTIBLE
  deps,       \* count of mapedit.pseudo's dependency on each address
  resident,   \* data page-in count of each object
  dobjs,      \* objects with an entry in dobjs (open data editor)
  gobjs,      \* objects with an entry in gobjs (open generic editor)
  items,      \* objs_tl: the objects listed at its last poll, in order
  sel,        \* objs_tl: the objects of its selected items
  dlgOpen,    \* the "New object" dialog is shown
  dlgItems,   \* its pobj_tl: the objects listed at its last poll
  dlgSel,     \* the object of pobj_tl's selected item, or None
  dlgDob,     \* the current_pobj given to its poll_objs when it opened
  currentPobj,\* the global current_pobj
  fault       \* ghost: a handler dereferenced a freed object

vars == <<alive, parent, editable, indestr, deps, resident, dobjs, gobjs, items, sel,
          dlgOpen, dlgItems, dlgSel, dlgDob, currentPobj, fault>>

TypeOK ==
  /\ world \in alive /\ alive \subseteq Objects
  /\ parent \in [Objects -> Objects \cup {None}]
  /\ editable \subseteq alive /\ indestr \subseteq alive
  /\ deps \in [Objects -> Nat] /\ resident \in [Objects -> Nat]
  /\ dobjs \subseteq Objects /\ gobjs \subseteq Objects
  /\ items \in Seq(Objects) /\ sel \subseteq ToSet(items)
  /\ dlgOpen \in BOOLEAN /\ dlgItems \subseteq Objects
  /\ {dlgSel, dlgDob, currentPobj} \subseteq Objects \cup {None}
  /\ fault \in BOOLEAN

Init ==
  /\ alive = {world}
  /\ parent = [o \in Objects |-> None]
  /\ editable = {} /\ indestr = {}
  /\ deps = [o \in Objects |-> 0]
  /\ resident = [o \in Objects |-> 0]
  /\ dobjs = {} /\ gobjs = {}
  /\ items = <<world>> /\ sel = {}
  /\ dlgOpen = FALSE /\ dlgItems = {} /\ dlgSel = None /\ dlgDob = None
  /\ currentPobj = None
  /\ fault = FALSE

(* The object state a handler updates, as a record, so that obj_op can    *)
(* apply its loop body item after item.                                    *)
Cur == [alive |-> alive, parent |-> parent, editable |-> editable,
        indestr |-> indestr,
        deps |-> deps, resident |-> resident, dobjs |-> dobjs,
        gobjs |-> gobjs, fault |-> fault]

Apply(r) ==
  /\ alive' = r.alive /\ parent' = r.parent /\ editable' = r.editable
  /\ indestr' = r.indestr
  /\ deps' = r.deps /\ resident' = r.resident
  /\ dobjs' = r.dobjs /\ gobjs' = r.gobjs /\ fault' = r.fault

ChildrenIn(r, o) == {c \in r.alive : r.parent[c] = o}

\* The object and all its descendants.
RECURSIVE SubtreeIn(_, _)
SubtreeIn(r, o) == {o} \cup UNION {SubtreeIn(r, c) : c \in ChildrenIn(r, o)}

\* Fault: object_in_use looks only at the object itself.
InUseShallow(r, o) == r.deps[o] > 0

\* object_in_use: some object depends on o or on one of its descendants.
InUse(r, o) == \E d \in SubtreeIn(r, o) : r.deps[d] > 0

(* Editor registry                                                         *)

\* Fault: the search of dobjs for an existing entry is left out.
OpenDataNoSearch(r, ob, pageFails) ==
  IF ob \in pageFails THEN r
  ELSE [r EXCEPT !.deps[ob] = @ + 1, !.resident[ob] = @ + 1,
                 !.dobjs = @ \cup {ob}]

\* objmgr_open_data: an existing entry is only shown again; otherwise the
\* data is paged in (which may fail, for the objects of pageFails), the
\* dependency added and the entry inserted.
OpenData(r, ob, pageFails) ==
  IF ob \in r.dobjs \/ ob \in pageFails
    THEN r
    ELSE [r EXCEPT !.deps[ob] = @ + 1, !.resident[ob] = @ + 1,
                   !.dobjs = @ \cup {ob}]

\* objmgr_open_generic.
OpenGeneric(r, ob) ==
  IF ob \in r.gobjs THEN r
  ELSE [r EXCEPT !.deps[ob] = @ + 1, !.gobjs = @ \cup {ob}]

\* close_obj_data, the window-close handler of a data editor: edit-close is
\* posted to the object, its data paged out and the dependency dropped.
CloseObjData(o) ==
  /\ o \in dobjs
  /\ IF o \notin alive
       THEN /\ fault' = TRUE
            /\ UNCHANGED <<alive, parent, editable, indestr, deps, resident, dobjs, gobjs>>
       ELSE /\ dobjs' = dobjs \ {o}
            /\ resident' = [resident EXCEPT ![o] = @ - 1]
            /\ deps' = [deps EXCEPT ![o] = @ - 1]
            /\ UNCHANGED <<alive, parent, editable, indestr, gobjs, fault>>
  /\ UNCHANGED <<items, sel, dlgOpen, dlgItems, dlgSel, dlgDob, currentPobj>>

\* close_obj_generic: the dependency is looked up by address only.
CloseObjGeneric(o) ==
  /\ o \in gobjs
  /\ gobjs' = gobjs \ {o}
  /\ deps' = [deps EXCEPT ![o] = @ - 1]
  /\ UNCHANGED <<alive, parent, editable, indestr, resident, dobjs, fault, items, sel,
                 dlgOpen, dlgItems, dlgSel, dlgDob, currentPobj>>

(* obj_op                                                                  *)

\* object_duplicate: a copy attached beside the original, at an address
\* malloc hands out; no free address, like any failure, gives no copy.
Duplicate(r, ob, fails) ==
  IF ob \in fails \/ r.alive = Objects THEN r
  ELSE LET d == CHOOSE a \in Objects \ r.alive : TRUE IN
       [r EXCEPT !.alive = @ \cup {d}, !.parent[d] = r.parent[ob],
                 !.editable = IF ob \in r.editable THEN @ \cup {d} ELSE @,
                 !.indestr = IF ob \in r.indestr THEN @ \cup {d} ELSE @,
                 !.resident[d] = 0]

\* Fault: only the object itself is freed; its children keep it as parent.
DestroyObjShallow(r, ob) ==
  [r EXCEPT !.alive = @ \ {ob}, !.editable = @ \ {ob}, !.indestr = @ \ {ob},
            !.parent[ob] = None,
            !.resident[ob] = 0]

\* object_detach, object_destroy and Free: the object and, as
\* object_destroy frees the children first, all its descendants.
\* The fields of freed memory are never read again and are cleared.  The
\* objects here come from create_obj and object_duplicate, both of which
\* allocate them, so none is OBJECT_STATIC and Free always runs.
DestroyObj(r, ob) ==
  LET gone == SubtreeIn(r, ob) IN
  [r EXCEPT !.alive = @ \ gone, !.editable = @ \ gone, !.indestr = @ \ gone,
            !.parent = [o \in Objects |-> IF o \in gone THEN None ELSE @[o]],
            !.resident = [o \in Objects |-> IF o \in gone THEN 0 ELSE @[o]]]

\* The body of obj_op's loop for item ob of the list.  Every case reads
\* the object (ob->ops, ob->flags, ob->name, object_in_use) except the
\* comparisons with world that skip it.  Destroy refuses an object in use
\* or flagged OBJECT_INDESTRUCTIBLE.  Load, save, move and reinit only read
\* the object here.
OpStep(op, fails, r, ob) ==
  CASE r.fault \/ ob \notin sel -> r
    [] op \in {"dup", "reinit", "destroy"} /\ ob = world -> r
    [] ob \notin r.alive -> [r EXCEPT !.fault = TRUE]
    [] op = "edit_data" ->
         IF ob \in r.editable THEN OpenData(r, ob, fails) ELSE r
    [] op = "edit_generic" -> OpenGeneric(r, ob)
    [] op = "dup" -> Duplicate(r, ob, fails)
    [] op = "destroy" ->
         IF InUse(r, ob) \/ ob \in r.indestr THEN r ELSE DestroyObj(r, ob)
    [] OTHER -> r

\* obj_op(tl, op): the loop over the items of objs_tl listed at its last
\* poll, acting on the selected ones in list order.  fails are the objects
\* whose page-in or duplication fails.
ObjOp(op) ==
  /\ sel # {}
  /\ \E fails \in IF op \in {"edit_data", "dup"} THEN SUBSET sel ELSE {{}} :
       Apply(FoldLeft(LAMBDA r, ob : OpStep(op, fails, r, ob), Cur, items))
  /\ UNCHANGED <<items, sel, dlgOpen, dlgItems, dlgSel, dlgDob, currentPobj>>

(* The tree lists                                                          *)

Children(o) == ChildrenIn(Cur, o)

\* find_objs(tl, world, 0): each object followed by its subtree.  All
\* branches are taken as expanded.
RECURSIVE Preorder(_)
Preorder(o) ==
  <<o>> \o FoldLeft(LAMBDA s, c : s \o Preorder(c), <<>>, SetToSeq(Children(o)))

\* Fault: the selection is not restored against the new items.
PollObjsKeepSel ==
  /\ items # Preorder(world)
  /\ items' = Preorder(world)
  /\ UNCHANGED <<alive, parent, editable, indestr, deps, resident, dobjs, gobjs, sel,
                 dlgOpen, dlgItems, dlgSel, dlgDob, currentPobj, fault>>

\* poll_objs on objs_tl: the tree is listed again and
\* tlist_restore_selections keeps the items whose object is still listed;
\* its dob is NULL, so nothing is selected by default.
PollObjs ==
  /\ items # Preorder(world)
  /\ items' = Preorder(world)
  /\ sel' = sel \cap alive
  /\ UNCHANGED <<alive, parent, editable, indestr, deps, resident, dobjs, gobjs,
                 dlgOpen, dlgItems, dlgSel, dlgDob, currentPobj, fault>>

\* The selection poll_objs leaves on pobj_tl: the restored one, else the
\* item of dob.
DlgSelAfterPoll ==
  IF dlgSel \in alive THEN dlgSel
  ELSE IF dlgDob \in alive THEN dlgDob ELSE None

\* poll_objs on pobj_tl; its "selected" binding writes current_pobj.
PollDlg ==
  /\ dlgOpen
  /\ <<dlgItems, dlgSel>> # <<alive, DlgSelAfterPoll>>
  /\ dlgItems' = alive
  /\ dlgSel' = DlgSelAfterPoll
  /\ currentPobj' = IF DlgSelAfterPoll = None THEN currentPobj ELSE DlgSelAfterPoll
  /\ UNCHANGED <<alive, parent, editable, indestr, deps, resident, dobjs, gobjs,
                 items, sel, dlgOpen, dlgDob, fault>>

\* The user selects a set of items of objs_tl (AG_TLIST_MULTI).
SelectObjs ==
  \E s \in SUBSET ToSet(items) :
    /\ s # sel
    /\ sel' = s
    /\ UNCHANGED <<alive, parent, editable, indestr, deps, resident, dobjs, gobjs,
                   items, dlgOpen, dlgItems, dlgSel, dlgDob, currentPobj, fault>>

(* The "New object" dialog                                                 *)

\* create_obj_dlg: a new dialog whose pobj_tl polls with the current_pobj
\* of this moment as its default.
CreateObjDlg ==
  /\ ~dlgOpen
  /\ dlgOpen' = TRUE
  /\ dlgItems' = {}
  /\ dlgSel' = None
  /\ dlgDob' = currentPobj
  /\ UNCHANGED <<alive, parent, editable, indestr, deps, resident, dobjs, gobjs,
                 items, sel, currentPobj, fault>>

\* Selecting a parent in pobj_tl.
SelectParent ==
  \E o \in dlgItems :
    /\ dlgOpen /\ o # dlgSel
    /\ dlgSel' = o
    /\ currentPobj' = o
    /\ UNCHANGED <<alive, parent, editable, indestr, deps, resident, dobjs, gobjs,
                   items, sel, dlgOpen, dlgItems, dlgDob, fault>>

CloseDlg ==
  /\ dlgOpen' = FALSE /\ dlgItems' = {} /\ dlgSel' = None /\ dlgDob' = None

\* create_obj (OK or Return): the parent is the selected item's object or
\* world; the dialog is detached; a new object of the dialog's type (with
\* or without an edit operation) is attached to the parent; its data
\* editor is opened if "Edit now" (edit_on_create) is set.
CreateObj ==
  /\ dlgOpen
  /\ \E n \in Objects \ alive, ed, ind, editOnCreate, pageFails \in BOOLEAN :
       LET pobj == IF dlgSel = None THEN world ELSE dlgSel
           r1 == [Cur EXCEPT !.alive = @ \cup {n}, !.parent[n] = pobj,
                             !.editable = IF ed THEN @ \cup {n} ELSE @,
                             !.indestr = IF ind THEN @ \cup {n} ELSE @,
                             !.resident[n] = 0]
       IN IF pobj \notin alive
            THEN /\ fault' = TRUE
                 /\ UNCHANGED <<alive, parent, editable, indestr, deps, resident, dobjs, gobjs>>
            ELSE Apply(IF editOnCreate /\ ed
                         THEN OpenData(r1, n, IF pageFails THEN {n} ELSE {})
                         ELSE r1)
  /\ CloseDlg
  /\ UNCHANGED <<items, sel, currentPobj>>

\* The Cancel button: window_generic_detach.
CancelDlg ==
  /\ dlgOpen
  /\ CloseDlg
  /\ UNCHANGED <<alive, parent, editable, indestr, deps, resident, dobjs, gobjs,
                 items, sel, currentPobj, fault>>

AllFresh ==
  /\ items = Preorder(world)
  /\ dlgOpen => <<dlgItems, dlgSel>> = <<alive, DlgSelAfterPoll>>

\* The event loop dispatches the next event: not after undefined behaviour,
\* and, when OneEventPerFrame, only once every list has been redrawn.
Ready == ~fault /\ (OneEventPerFrame => AllFresh)

\* After undefined behaviour the process is taken to have crashed: it does
\* nothing more.
Crashed == fault /\ UNCHANGED vars

Next ==
  \/ Crashed
  \/ ~fault /\ PollObjs
  \/ ~fault /\ PollDlg
  \/ Ready /\ SelectObjs
  \/ \E op \in Ops : Ready /\ ObjOp(op)
  \/ \E o \in Objects : Ready /\ CloseObjData(o)
  \/ \E o \in Objects : Ready /\ CloseObjGeneric(o)
  \/ Ready /\ CreateObjDlg
  \/ Ready /\ SelectParent
  \/ Ready /\ CreateObj
  \/ Ready /\ CancelDlg

Spec == Init /\ [][Next]_vars

(* Properties                                                              *)

\* The registry as the kinds of editor open on each object.
EditorsOf == [o \in Objects |-> (IF o \in dobjs THEN {"data"} ELSE {})
                                \cup (IF o \in gobjs THEN {"generic"} ELSE {})]

Registry == INSTANCE EditorRegistry WITH live <- alive, par <- parent,
                                         editors <- EditorsOf

\* The object manager implements the editor registry: every handler step
\* (obj_op over a whole selection included) opens or closes editors,
\* attaches new objects under live ones, or frees whole subtrees that no
\* editor is open on, and never leaves an object whose parent was freed.
RegistrySpec == Registry!Spec


\* Every registered editor window edits an allocated object: obj_op's
\* destroy refuses an object that an open editor, of it or of one of its
\* descendants, depends on.
EditorsOnLiveObjects == dobjs \cup gobjs \subseteq alive

\* The dependencies of mapedit.pseudo and the page-in counts match the
\* editor registry: each open editor holds exactly one dependency and a
\* data editor exactly one page-in, whatever order editors are opened,
\* reopened, closed and their objects destroyed and reallocated in.
EditorDepsBalanced ==
  \A o \in alive :
    /\ deps[o] = (IF o \in dobjs THEN 1 ELSE 0) + (IF o \in gobjs THEN 1 ELSE 0)
    /\ resident[o] = IF o \in dobjs THEN 1 ELSE 0

\* No handler of the object manager reads an object after it was freed.
NoFreedObjectAccess == ~fault

====
