---------------------------- MODULE LineIntersect ----------------------------
(***************************************************************************)
(* M_IntersectLineLine2 of src/math/m_line.c: the intersection point of    *)
(* two line segments in R2, from the determinants a, b, c of the segment   *)
(* endpoints.  Endpoints are taken on a small integer grid, where the      *)
(* doubles of the code are exact and a/c is correctly rounded, so the      *)
(* comparisons 0 <= a/c <= 1 are those of the rationals; c = 0 gives a     *)
(* division by zero whose result (+-inf or NaN) fails both comparisons.    *)
(* The result set holds the point as its parameter a/c along L1, a pair.   *)
(*                                                                         *)
(* The behaviour enumerates the segment pairs: each state is one call.     *)
(***************************************************************************)
EXTENDS Integers

CONSTANTS
  Coords      \* the integer coordinates of the endpoints

Points == Coords \X Coords

VARIABLE seg  \* <<a1, a2, b1, b2>>: L1 from a1 to a2, L2 from b1 to b2

\* 0 <= n/d <= 1 for d # 0, as the comparisons of the doubles decide it.
InUnit(n, d) == IF d > 0 THEN 0 <= n /\ n <= d ELSE d <= n /\ n <= 0

\* Fault: the range test of b/c is left out.
IntersectLineLine2NoB(a1, a2, b1, b2) ==
  LET a == (b2[1] - b1[1]) * (a1[2] - b1[2]) - (b2[2] - b1[2]) * (a1[1] - b1[1])
      c == (b2[2] - b1[2]) * (a2[1] - a1[1]) - (b2[1] - b1[1]) * (a2[2] - a1[2])
  IN IF c < 0 /\ InUnit(a, c) THEN {<<a, c>>} ELSE {}

\* M_IntersectLineLine2(L1, L2).  M_MACHEP is a small positive double, so
\* on integers c < M_MACHEP is c <= 0.
IntersectLineLine2(a1, a2, b1, b2) ==
  LET a == (b2[1] - b1[1]) * (a1[2] - b1[2]) - (b2[2] - b1[2]) * (a1[1] - b1[1])
      b == (a2[1] - a1[1]) * (a1[2] - b1[2]) - (a2[2] - a1[2]) * (a1[1] - b1[1])
      c == (b2[2] - b1[2]) * (a2[1] - a1[1]) - (b2[1] - b1[1]) * (a2[2] - a1[2])
  IN IF c <= 0
       THEN IF c # 0 /\ InUnit(a, c) /\ InUnit(b, c) THEN {<<a, c>>} ELSE {}
       ELSE {}

Init == seg \in Points \X Points \X Points \X Points

\* The next call, on the segments of the last one with an endpoint moved.
Call == \E i \in 1..4, p \in Points : p # seg[i] /\ seg' = [seg EXCEPT ![i] = p]

Next == Call

Spec == Init /\ [][Next]_seg

(* Reference: orientation tests                                            *)

Cross(u, v) == u[1] * v[2] - u[2] * v[1]
Sub(p, q) == <<p[1] - q[1], p[2] - q[2]>>
Orient(p, q, r) == Cross(Sub(q, p), Sub(r, p))
Sgn(n) == IF n > 0 THEN 1 ELSE IF n < 0 THEN -1 ELSE 0

\* The segments are not parallel and share a point.
Crossing(a1, a2, b1, b2) ==
  /\ Cross(Sub(a2, a1), Sub(b2, b1)) # 0
  /\ Sgn(Orient(a1, a2, b1)) * Sgn(Orient(a1, a2, b2)) <= 0
  /\ Sgn(Orient(b1, b2, a1)) * Sgn(Orient(b1, b2, a2)) <= 0

\* Their common point is a1 + s (a2 - a1) with s = RefNum / RefDen.
RefNum(a1, a2, b1, b2) == Cross(Sub(b1, a1), Sub(b2, b1))
RefDen(a1, a2, b1, b2) == Cross(Sub(a2, a1), Sub(b2, b1))


\* Every point M_IntersectLineLine2 returns lies on both segments and is
\* their crossing: the determinant formula and its range tests agree with
\* the orientation test and the parametric intersection.
IntersectionSound ==
  LET a1 == seg[1]  a2 == seg[2]  b1 == seg[3]  b2 == seg[4] IN
  \A r \in IntersectLineLine2(a1, a2, b1, b2) :
    /\ Crossing(a1, a2, b1, b2)
    /\ r[1] * RefDen(a1, a2, b1, b2) = RefNum(a1, a2, b1, b2) * r[2]

\* Two segments that cross at a single point are reported to intersect,
\* whatever the order of their endpoints.
IntersectionComplete ==
  LET a1 == seg[1]  a2 == seg[2]  b1 == seg[3]  b2 == seg[4] IN
  Crossing(a1, a2, b1, b2) => IntersectLineLine2(a1, a2, b1, b2) # {}

====
