---------------------------- MODULE TileElements ----------------------------
(***************************************************************************)
(* What the element lists of src/rg/tile.c promise, without the order of  *)
(* the elements, the views and the lists of the editors: each tile uses   *)
(* each object of the tileset some number of times; a handler adds one    *)
(* use, creating the object if it is new, or removes one use, and may     *)
(* free the object only when no tile uses it any more.                    *)
(***************************************************************************)
EXTENDS Naturals

CONSTANTS Tiles, Objects

VARIABLES
  objs,       \* the objects on the tileset's lists
  uses        \* uses[t][o]: the elements of tile t that refer to o

vars == <<objs, uses>>

Init ==
  /\ objs = {}
  /\ uses = [t \in Tiles |-> [o \in Objects |-> 0]]

\* A new element of tile t refers to o, an object of the tileset or a new
\* one put on it by the same handler; u and nu are uses now and next.
AddUse(t, o, u, nu) ==
  /\ objs \subseteq objs' /\ objs' \subseteq objs \cup {o}
  /\ o \in objs'
  /\ nu = [u EXCEPT ![t][o] = @ + 1]

\* An element of tile t that refers to o is removed; o is freed with it
\* only if no element of any tile refers to it afterwards.
RemoveUse(t, o, u, nu) ==
  /\ u[t][o] > 0
  /\ nu = [u EXCEPT ![t][o] = @ - 1]
  /\ \/ objs' = objs
     \/ /\ \A v \in Tiles : nu[v][o] = 0
        /\ objs' = objs \ {o}

\* The step changes the uses of one tile and object, or none (then uses
\* and objs are left alone: a reordering or a step outside the lists).
Next ==
  LET u == uses
      nu == uses'
      changed == {p \in Tiles \X Objects : nu[p[1]][p[2]] # u[p[1]][p[2]]} IN
  \E p \in changed : AddUse(p[1], p[2], u, nu) \/ RemoveUse(p[1], p[2], u, nu)

Spec == Init /\ [][Next]_vars

====
