--------------------------- MODULE EditorRegistry ---------------------------
(***************************************************************************)
(* What the object manager (src/engine/objmgr.c) promises about objects   *)
(* and their editor windows, without lists, selections, dependencies or   *)
(* page-ins: the objects form a tree under world; an object gets data and *)
(* generic editors and loses them one at a time; new objects are attached *)
(* under live parents; and a step may destroy whole subtrees, never world *)
(* and never an object with an open editor.                               *)
(***************************************************************************)
EXTENDS FiniteSets

CONSTANTS Objects, world, None

Kinds == {"data", "generic"}

VARIABLES
  live,       \* the objects of the tree
  par,        \* the parent of each object, None for world and freed ones
  editors     \* the kinds of editor open on each object

vars == <<live, par, editors>>

Init ==
  /\ live = {world}
  /\ par = [o \in Objects |-> None]
  /\ editors = [o \in Objects |-> {}]

\* Editors are opened on some live objects (obj_op on a selection).
OpenEditors ==
  /\ \A o \in Objects : editors[o] \subseteq editors'[o]
  /\ \A o \in Objects \ live : editors'[o] = {}
  /\ editors' # editors
  /\ UNCHANGED <<live, par>>

\* One editor window is closed.
CloseEditor ==
  \E o \in Objects, k \in Kinds :
    /\ k \in editors[o]
    /\ editors' = [editors EXCEPT ![o] = @ \ {k}]
    /\ UNCHANGED <<live, par>>

\* New objects are attached under live objects; a new one may be opened
\* for edition at once.
Create ==
  \E new \in SUBSET (Objects \ live) :
    /\ new # {}
    /\ live' = live \cup new
    /\ \A n \in new : par'[n] \in live /\ editors'[n] \subseteq {"data"}
    /\ \A o \in live : par'[o] = par[o] /\ editors'[o] = editors[o]

\* The set of gone objects is closed under children, holds neither world
\* nor an edited object, and is freed.
Destroy ==
  \E gone \in SUBSET (live \ {world}) :
    /\ gone # {}
    /\ \A o \in live : par[o] \in gone => o \in gone
    /\ \A o \in gone : editors[o] = {}
    /\ live' = live \ gone
    /\ par' = [o \in Objects |-> IF o \in gone THEN None ELSE par[o]]
    /\ UNCHANGED editors

Next == OpenEditors \/ CloseEditor \/ Create \/ Destroy

Spec == Init /\ [][Next]_vars

====
