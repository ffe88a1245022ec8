-------------------------------- MODULE Geometry --------------------------------
(***************************************************************************)
(* Plots as polygons: pointInPolygon, and the shape test a polygon passes  *)
(* before the database looks at it.  Coordinates are whole numbers, a      *)
(* point is <<longitude, latitude>>.                                       *)
(***************************************************************************)
EXTENDS Integers, Sequences, FiniteSets

CONSTANT Side   \* the grid is 0..Side in both directions

ASSUME GeometryAssumption == Side \in Nat

Grid == (0..Side) \X (0..Side)

Before(i, s) == IF i = 1 THEN Len(s) ELSE i - 1
After(i, s) == IF i = Len(s) THEN 1 ELSE i + 1

\* Mutant: a ray through a corner crosses both edges.
CrossesInclusive(p, a, b) ==
    /\ (a[2] >= p[2]) # (b[2] > p[2])
    /\ LET rise == b[2] - a[2]
           run == (b[1] - a[1]) * (p[2] - a[2]) IN
       IF rise > 0 THEN (p[1] - a[1]) * rise < run ELSE (p[1] - a[1]) * rise > run

\* The ray from p to the east crosses the edge from a to b; the division of
\* the code is multiplied out.
Crosses(p, a, b) ==
    /\ (a[2] > p[2]) # (b[2] > p[2])
    /\ LET rise == b[2] - a[2]
           run == (b[1] - a[1]) * (p[2] - a[2]) IN
       IF rise > 0 THEN (p[1] - a[1]) * rise < run ELSE (p[1] - a[1]) * rise > run

PointInPolygon(p, s) ==
    Cardinality({i \in DOMAIN s : Crosses(p, s[i], s[Before(i, s)])}) % 2 = 1

Orientation(a, b, c) == (b[1] - a[1]) * (c[2] - a[2]) - (b[2] - a[2]) * (c[1] - a[1])

Intersects(a, b, c, d) ==
    /\ Orientation(a, b, c) * Orientation(a, b, d) < 0
    /\ Orientation(c, d, a) * Orientation(c, d, b) < 0

\* validatePolygonShape; every coordinate of the grid is one on earth.
ValidShape(s) ==
    /\ Len(s) >= 3
    /\ Cardinality({s[i] : i \in DOMAIN s}) >= 3
    /\ \A i, j \in DOMAIN s :
          i < j /\ j # After(i, s) /\ i # After(j, s) =>
              ~Intersects(s[i], s[After(i, s)], s[j], s[After(j, s)])

(***************************************************************************)
(* Properties of a polygon s.                                              *)
(***************************************************************************)

OnSegment(p, a, b) ==
    /\ Orientation(a, b, p) = 0
    /\ (p[1] - a[1]) * (p[1] - b[1]) <= 0
    /\ (p[2] - a[2]) * (p[2] - b[2]) <= 0

OnBoundary(p, s) == \E i \in DOMAIN s : OnSegment(p, s[i], s[After(i, s)])

Swap(p) == <<p[2], p[1]>>
Rotated(s) == [i \in DOMAIN s |-> s[After(i, s)]]
Reversed(s) == [i \in DOMAIN s |-> s[Len(s) + 1 - i]]
Swapped(s) == [i \in DOMAIN s |-> Swap(s[i])]

\* The geofence depends on the field alone: not on the corner a polygon begins
\* with, its direction, or the axis the ray is cast along, rays that meet
\* corners and edges included.  Only points of the border may differ.
InsideIsWellDefined(s) ==
    \A p \in Grid : ~OnBoundary(p, s) =>
        /\ PointInPolygon(p, s) = PointInPolygon(p, Rotated(s))
        /\ PointInPolygon(p, s) = PointInPolygon(p, Reversed(s))
        /\ PointInPolygon(p, s) = PointInPolygon(Swap(p), Swapped(s))

\* For a triangle, inside is on one side of all of its edges.
TriangleIsInside(s) ==
    Len(s) = 3 => \A p \in Grid : ~OnBoundary(p, s) =>
        (PointInPolygon(p, s) <=>
            \/ \A i \in DOMAIN s : Orientation(s[i], s[After(i, s)], p) > 0
            \/ \A i \in DOMAIN s : Orientation(s[i], s[After(i, s)], p) < 0)

\* Of the four-cornered shapes just those are refused in which two sides cross
\* like the diagonals of a convex field; the answer does not depend on how
\* the corners are listed.  Sides that only touch pass.
ConvexQuad(a, b, c, d) ==
    LET turns == {Orientation(a, b, c), Orientation(b, c, d), Orientation(c, d, a),
                  Orientation(d, a, b)} IN
    (\A t \in turns : t > 0) \/ (\A t \in turns : t < 0)

CrossingsAreRefused(s) ==
    /\ ValidShape(s) = ValidShape(Rotated(s))
    /\ ValidShape(s) = ValidShape(Reversed(s))
    /\ Len(s) = 4 /\ Cardinality({s[i] : i \in DOMAIN s}) >= 3 =>
          (~ValidShape(s) <=> \/ ConvexQuad(s[1], s[3], s[2], s[4])
                              \/ ConvexQuad(s[2], s[4], s[3], s[1]))
=============================================================================
