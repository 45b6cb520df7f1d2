--------------------------- MODULE MCLineIntersect ---------------------------
(***************************************************************************)
(* LineIntersect for TLC on the 3 x 3 grid: every segment pair with        *)
(* endpoints in it, crossing, touching, collinear and parallel ones, in    *)
(* both endpoint orders.                                                   *)
(***************************************************************************)
EXTENDS LineIntersect

MCCoords == 0..2

====
