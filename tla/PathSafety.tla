----------------------------- MODULE PathSafety -----------------------------
(***************************************************************************)
(* PathSafetyChecker, the answer of the validate_path service, over the    *)
(* snapshots of GeofenceMap.  The service shares the node's mutually       *)
(* exclusive callback group with every operation that writes the map, so   *)
(* the several loads of one validation see the same snapshot.              *)
(*                                                                         *)
(* Geometry is exact here.  The collision test between a segment and an    *)
(* obstacle and the distance to one belong to the geometry backend         *)
(* (Boost.Geometry); they are given by their definitions.                  *)
(***************************************************************************)
EXTENDS GeofenceMap

CONSTANTS
  StartRadius,   \* first radius of the expanding search (0.5 m)
  MaxRadius,     \* bound: last radius (100 m in the code)
  Margin2        \* safety_margin_, squared

ASSUME PathAssumption ==
  StartRadius \in Nat \ {0} /\ MaxRadius \in Nat /\ Margin2 \in Nat

Lesser(a, b)  == IF a < b THEN a ELSE b
Greater(a, b) == IF a > b THEN a ELSE b
Square(n) == n * n

SegmentBox(p, q) ==
  [x0 |-> Lesser(p.x, q.x), y0 |-> Lesser(p.y, q.y),
   x1 |-> Greater(p.x, q.x), y1 |-> Greater(p.y, q.y)]

Inside(p, b) == b.x0 <= p.x /\ p.x <= b.x1 /\ b.y0 <= p.y /\ p.y <= b.y1

Corners(b) ==
  {[x |-> x, y |-> y] : x \in {b.x0, b.x1}, y \in {b.y0, b.y1}}

(* On which side of the line from p to q a point lies.                     *)
Side(p, q, c) == (q.x - p.x) * (c.y - p.y) - (q.y - p.y) * (c.x - p.x)

(* collision of a line and an axis-parallel box: they have a point in      *)
(* common, that is, no axis separates them.                                *)
Intersects(p, q, b) ==
  /\ Lesser(p.x, q.x) <= b.x1 /\ b.x0 <= Greater(p.x, q.x)
  /\ Lesser(p.y, q.y) <= b.y1 /\ b.y0 <= Greater(p.y, q.y)
  /\ \E c \in Corners(b) : Side(p, q, c) >= 0
  /\ \E c \in Corners(b) : Side(p, q, c) <= 0

(* distanceSquared of a point and a box.                                   *)
Distance2(p, b) ==
  Square(Greater(Greater(b.x0 - p.x, p.x - b.x1), 0))
    + Square(Greater(Greater(b.y0 - p.y, p.y - b.y1), 0))

-----------------------------------------------------------------------------
(* distanceToNearestObstacle: boxes of growing radius around the point are *)
(* queried until one has candidates; the nearest candidate is the answer.  *)
PowerOfTwo(k) == \A d \in 2..k : k % d = 0 => d % 2 = 0

Radii == {StartRadius * k : k \in {j \in 1..MaxRadius : PowerOfTwo(j)}} \cap 1..MaxRadius

Around(p, r) == [x0 |-> p.x - r, y0 |-> p.y - r, x1 |-> p.x + r, y1 |-> p.y + r]

Candidates(p, r) == Query(snap.obstacleTree, Around(p, r)) \cap DOMAIN snap.obstacles

(* The search found nothing: infinity.                                     *)
Infinity == Square(MaxX) + Square(MaxY) + 1

Least(S) == CHOOSE n \in S : \A m \in S : n <= m

(* Faulty variant: the search starts at half the radius.                   *)
DistanceToNearestObstacleHalved(p) ==
  LET hits == {r \in Radii \cup {0} : Candidates(p, r) # {}}
  IN  IF hits = {} THEN Infinity
      ELSE Least({Distance2(p, snap.obstacles[id]) : id \in Candidates(p, Least(hits))})

DistanceToNearestObstacle(p) ==
  LET hits == {r \in Radii : Candidates(p, r) # {}}
  IN  IF hits = {} THEN Infinity
      ELSE Least({Distance2(p, snap.obstacles[id]) : id \in Candidates(p, Least(hits))})

(* Faulty variant: only the ends of the segment are looked at.             *)
DoesSegmentIntersectObstacleEnds(p, q) ==
  \E id \in Query(snap.obstacleTree, SegmentBox(p, q)) \cap DOMAIN snap.obstacles :
    Inside(p, snap.obstacles[id]) \/ Inside(q, snap.obstacles[id])

DoesSegmentIntersectObstacle(p, q) ==
  \E id \in Query(snap.obstacleTree, SegmentBox(p, q)) \cap DOMAIN snap.obstacles :
    Intersects(p, q, snap.obstacles[id])

(* segments_intersect: the parameters of the crossing lie in 0..1; never   *)
(* for parallel segments.                                                  *)
SegmentsIntersect(p1, p2, p3, p4) ==
  LET denom == (p1.x - p2.x) * (p3.y - p4.y) - (p1.y - p2.y) * (p3.x - p4.x)
      t == (p1.x - p3.x) * (p3.y - p4.y) - (p1.y - p3.y) * (p3.x - p4.x)
      u == -((p1.x - p2.x) * (p1.y - p3.y) - (p1.y - p2.y) * (p1.x - p3.x))
      InUnit(n) == IF denom > 0 THEN 0 <= n /\ n <= denom ELSE denom <= n /\ n <= 0
  IN  denom # 0 /\ InUnit(t) /\ InUnit(u)

(* Faulty variant: only the endpoints of the segment are looked at.        *)
EntersAreaEndpoints(p, q, b) == Inside(p, b) \/ Inside(q, b)

(* The predicate given to findFirstAreaInRegion, for a locked area.        *)
EntersArea(p, q, b) ==
  LET bottomLeft == [x |-> b.x0, y |-> b.y0]   bottomRight == [x |-> b.x1, y |-> b.y0]
      topLeft    == [x |-> b.x0, y |-> b.y1]   topRight    == [x |-> b.x1, y |-> b.y1]
  IN  \/ Inside(p, b) \/ Inside(q, b)
      \/ SegmentsIntersect(p, q, bottomLeft, bottomRight)
      \/ SegmentsIntersect(p, q, bottomRight, topRight)
      \/ SegmentsIntersect(p, q, topRight, topLeft)
      \/ SegmentsIntersect(p, q, topLeft, bottomLeft)

DoesSegmentIntersectLockedArea(p, q) ==
  \E id \in Query(snap.areaTree, SegmentBox(p, q)) \cap DOMAIN snap.areas :
    id \in snap.locked /\ EntersArea(p, q, snap.areas[id])

IsPointInsideMapBounds(p) == snap.contours = NoContours \/ Inside(p, snap.contours)

(* isSegmentSafe, all four phases enabled (the defaults).                  *)
IsSegmentSafe(p, q) ==
  /\ IsPointInsideMapBounds(p) /\ IsPointInsideMapBounds(q)
  /\ ~DoesSegmentIntersectObstacle(p, q)
  /\ DistanceToNearestObstacle(p) >= Margin2
  /\ DistanceToNearestObstacle(q) >= Margin2
  /\ ~DoesSegmentIntersectLockedArea(p, q)

-----------------------------------------------------------------------------
(* Properties.                                                             *)

(* The segment meets the interior of the box.                              *)
Crosses(p, q, b) ==
  /\ Lesser(p.x, q.x) < b.x1 /\ b.x0 < Greater(p.x, q.x)
  /\ Lesser(p.y, q.y) < b.y1 /\ b.y0 < Greater(p.y, q.y)
  /\ \/ p = q
     \/ /\ \E c \in Corners(b) : Side(p, q, c) > 0
        /\ \E c \in Corners(b) : Side(p, q, c) < 0

(* A segment validate_path accepts runs through no obstacle, whatever      *)
(* inserts, replacements and removals led to the present index.            *)
SafeSegmentAvoidsObstacles ==
  \A id \in DOMAIN snap.obstacles, p, q \in Points :
    Crosses(p, q, snap.obstacles[id]) => ~IsSegmentSafe(p, q)

(* ... and through no area that is locked, also when the area was          *)
(* registered several times with different rectangles.                     *)
SafeSegmentAvoidsLockedAreas ==
  \A id \in DOMAIN snap.areas \cap snap.locked, p, q \in Points :
    Crosses(p, q, snap.areas[id]) => ~IsSegmentSafe(p, q)

(* ... and no end of it is nearer to an obstacle than the safety margin,   *)
(* although the search for the nearest obstacle stops at the first radius  *)
(* with candidates.  Needs a margin of at most StartRadius * sqrt(2), which *)
(* the code's 0.1 m satisfies.                                             *)
SafeSegmentHasClearance ==
  \A id \in DOMAIN snap.obstacles, p, q \in Points :
    Lesser(Distance2(p, snap.obstacles[id]), Distance2(q, snap.obstacles[id])) < Margin2
      => ~IsSegmentSafe(p, q)

-----------------------------------------------------------------------------
(* What the comments say and the code does not do: TLC refutes it.         *)

(* distanceToNearestObstacle: "Distance to nearest obstacle in meters".    *)
DistanceIsToNearest ==
  \A p \in Points : DOMAIN snap.obstacles # {} =>
    DistanceToNearestObstacle(p) =
      Least({Distance2(p, snap.obstacles[id]) : id \in DOMAIN snap.obstacles})
=============================================================================
