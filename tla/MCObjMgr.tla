------------------------------ MODULE MCObjMgr ------------------------------
(***************************************************************************)
(* ObjMgr for TLC: world and two more addresses, enough for a child and a *)
(* grandchild (an editor below the object destroyed, a selection holding  *)
(* both), for two siblings, and for a freed address to be handed out      *)
(* again.                                                                  *)
(***************************************************************************)
EXTENDS ObjMgr

CONSTANTS w, o1, o2

MCObjects == {w, o1, o2}

====
