------------------------------- MODULE GridMap -------------------------------
(***************************************************************************)
(* The occupancy-grid backend of the geofence: gridmap_data.cpp,           *)
(* gridmap_policies.cpp, gridmap.cpp and geofencing_gridmap_node.cpp.      *)
(*                                                                         *)
(* A snapshot holds the obstacles with the cells each occupies, a          *)
(* reference count per layer and cell, a grid per layer and the merged     *)
(* grid.  Writers share one mutually exclusive callback group and publish  *)
(* a copy they have changed; scans run in a reentrant group and load the   *)
(* snapshot anew for every point they look up.                             *)
(*                                                                         *)
(* Coordinates are integers, Res of them per cell, the origin of the grid  *)
(* at <<0, 0>>.                                                            *)
(***************************************************************************)
EXTENDS Integers, Sequences, FiniteSets

CONSTANTS
  Ids,         \* obstacle ids
  Width, Height, Res,
  Inflation,   \* obstacle_inflation_radius
  Shapes,      \* geometries that may be inserted
  ApiLayers,   \* layers insertObstacle is called with
  RefLimit,    \* a reference count is kept modulo this (uint16_t: 2^16)
  Messages,    \* scans that may arrive: sequences of scanned obstacles
  Robot,       \* where the robot is
  Radius,      \* safety_circle_outer_radius
  Samples,     \* kSamples of a line
  EdgeSamples, \* kEdgeSamples of a polygon's edge
  Rim,         \* directions in which a circle's rim is sampled
  Segments,    \* segments of paths to validate
  MaxUpdates   \* bound: changes of the map

ASSUME GridAssumption ==
  /\ IsFiniteSet(Ids)
  /\ Width \in Nat /\ Height \in Nat /\ Res \in Nat \ {0} /\ Inflation \in Nat
  /\ RefLimit \in Nat /\ Cardinality(Ids) < RefLimit
  /\ Samples \in Nat \ {0} /\ EdgeSamples \in Nat \ {0} /\ MaxUpdates \in Nat

IsSeq(s) == s \in Seq({s[k] : k \in DOMAIN s})

ASSUME ScanAssumption ==
  /\ IsSeq(Rim)
  /\ \A msg \in Messages :
       IsSeq(msg) /\ \A k \in DOMAIN msg : IsSeq(msg[k].vertices) /\ msg[k].robot \in BOOLEAN

VARIABLES
  map,       \* the published snapshot
  draft,     \* the copy a batch of updates is applied to
  writer,    \* what the writers' callback group is doing
  updates,   \* changes so far
  scan,      \* the scan in progress and what it has found
  steady     \* cells whose occupancy has not changed since the scan began

vars == <<map, draft, writer, updates, scan, steady>>

Layers == {"FIXED", "STATIC", "DYNAMIC"}
Cells == (0..Width - 1) \X (0..Height - 1)

ASSUME ApiAssumption == ApiLayers \subseteq Layers

-----------------------------------------------------------------------------
(* Coordinates.  worldToGrid truncates toward zero, rasterisation floors.  *)

Trunc(a, b) == IF a >= 0 THEN a \div b ELSE -((-a) \div b)
WorldToGrid(p, k) == <<Trunc(p[1], k * Res), Trunc(p[2], k * Res)>>  \* of the point p / k
InBounds(p) == WorldToGrid(p, 1) \in Cells
FloorCell(p) == <<p[1] \div Res, p[2] \div Res>>

(* Twice the centre of a cell.                                             *)
Centre2(c) == <<(2 * c[1] + 1) * Res, (2 * c[2] + 1) * Res>>

Abs(a) == IF a < 0 THEN -a ELSE a
Dist2(p, q) == (p[1] - q[1]) * (p[1] - q[1]) + (p[2] - q[2]) * (p[2] - q[2])
Twice(p) == <<2 * p[1], 2 * p[2]>>

(* Is w within r of the segment from a to b?                               *)
NearSegment(w, a, b, r) ==
  LET d == <<b[1] - a[1], b[2] - a[2]>>
      len2 == Dist2(a, b)
      t == (w[1] - a[1]) * d[1] + (w[2] - a[2]) * d[2]
      cross == (w[1] - a[1]) * d[2] - (w[2] - a[2]) * d[1]
  IN  CASE t <= 0 -> Dist2(w, a) <= r * r
        [] t > 0 /\ t >= len2 -> Dist2(w, b) <= r * r
        [] OTHER -> cross * cross <= r * r * len2

-----------------------------------------------------------------------------
(* Rasterisation.                                                          *)

(* The cells that the integer line algorithm visits.                       *)
Bresenham(a, b) ==
  LET dx == Abs(b[1] - a[1])
      dy == Abs(b[2] - a[2])
      sx == IF a[1] < b[1] THEN 1 ELSE -1
      sy == IF a[2] < b[2] THEN 1 ELSE -1
      at[n \in 0..dx + dy] ==
        IF n = 0 THEN [x |-> a[1], y |-> a[2], err |-> dx - dy]
        ELSE LET p == at[n - 1]
                 goX == 2 * p.err > -dy
                 goY == 2 * p.err < dx
             IN  IF <<p.x, p.y>> = b THEN p
                 ELSE [x |-> IF goX THEN p.x + sx ELSE p.x,
                       y |-> IF goY THEN p.y + sy ELSE p.y,
                       err |-> p.err - (IF goX THEN dy ELSE 0) + (IF goY THEN dx ELSE 0)]
  IN  {<<at[n].x, at[n].y>> : n \in 0..dx + dy}

RasterizeCircle(c, r) ==
  {g \in Cells : Res * Res * Dist2(g, FloorCell(c)) <= (r + Inflation) * (r + Inflation)}

Edges(vs) == {<<vs[i], vs[(i % Len(vs)) + 1]>> : i \in DOMAIN vs}

(* Ray casting: an odd number of edges to the right of w.                  *)
InPolygon(w, vs) ==
  LET crossed(e) ==
        LET a == e[1]  b == e[2]
            side == (w[1] - a[1]) * (b[2] - a[2]) - (b[1] - a[1]) * (w[2] - a[2])
        IN  /\ (a[2] > w[2]) # (b[2] > w[2])
            /\ IF b[2] > a[2] THEN side < 0 ELSE side > 0
  IN  Cardinality({e \in Edges(vs) : crossed(e)}) % 2 = 1

RasterizePolygon(vs, inflation) ==
  LET vs2 == [i \in DOMAIN vs |-> Twice(vs[i])]
  IN  {g \in Cells :
         \/ InPolygon(Centre2(g), vs2)
         \/ /\ inflation > 0
            /\ \E e \in Edges(vs2) : e[1] # e[2] /\ NearSegment(Centre2(g), e[1], e[2], 2 * inflation)}

RasterizePoint(p) ==
  IF Inflation > 0 THEN RasterizeCircle(p, 0)
  ELSE IF InBounds(p) THEN {WorldToGrid(p, 1)} ELSE {}

(* An inflated line is the strip along it.                                 *)
RasterizeLine(a, b) ==
  IF Inflation = 0 THEN Bresenham(FloorCell(a), FloorCell(b)) \cap Cells
  ELSE IF a = b THEN RasterizePoint(a)
  ELSE {g \in Cells :
          LET w == Centre2(g)  p == Twice(a)  q == Twice(b)
              t == (w[1] - p[1]) * (q[1] - p[1]) + (w[2] - p[2]) * (q[2] - p[2])
          IN  0 <= t /\ t < Dist2(p, q) /\ NearSegment(w, p, q, 2 * Inflation)}

(* Faulty variant: half extents are rounded down.                          *)
HalfCellsFloor(size) == (size + 2 * Inflation) \div (2 * Res)

HalfCells(size) == (size + 2 * Inflation + 2 * Res - 1) \div (2 * Res)

(* Axis-parallel: a block around the cell of the centre, if that is in the *)
(* grid; else a polygon (here: turned by a right angle, sizes even).       *)
RasterizeRectangle(c, w, h, turned) ==
  IF turned
    THEN LET hw == (w + 2 * Inflation) \div 2
             hh == (h + 2 * Inflation) \div 2
         IN  RasterizePolygon(<< <<c[1] - hh, c[2] + hw>>, <<c[1] - hh, c[2] - hw>>,
                                 <<c[1] + hh, c[2] - hw>>, <<c[1] + hh, c[2] + hw>> >>, 0)
    ELSE IF ~InBounds(c) THEN {}
    ELSE LET m == WorldToGrid(c, 1)
         IN  {g \in Cells : Abs(g[1] - m[1]) <= HalfCells(w) /\ Abs(g[2] - m[2]) <= HalfCells(h)}

(* An unknown type, or a line without two vertices, occupies nothing.      *)
Rasterize(s) ==
  CASE s.type = "CIRCLE" -> RasterizeCircle(s.position, s.radius)
    [] s.type = "POLYGON" -> RasterizePolygon(s.vertices, Inflation)
    [] s.type = "POINT" -> RasterizePoint(s.position)
    [] s.type = "LINE" /\ Len(s.vertices) >= 2 -> RasterizeLine(s.vertices[1], s.vertices[2])
    [] s.type = "RECTANGLE" -> RasterizeRectangle(s.position, s.width, s.height, s.turned)
    [] OTHER -> {}

Rasterized == [s \in Shapes |-> Rasterize(s)]

-----------------------------------------------------------------------------
(* Snapshots.  An obstacle that is not in the map has layer "none".        *)

Absent == [layer |-> "none", cells |-> {}]

EmptyMap ==
  [obstacles |-> [i \in Ids |-> Absent],
   ref |-> [l \in Layers |-> [g \in Cells |-> 0]],
   grid |-> [l \in Layers |-> {}],
   merged |-> {}]

(* Faulty variant: the merged grid follows the obstacle's own layer.       *)
RemoveOwnLayer(d, id) ==
  LET o == d.obstacles[id]
      ref == [l \in Layers |-> [g \in Cells |->
                IF l = o.layer /\ g \in o.cells /\ d.ref[l][g] > 0 THEN d.ref[l][g] - 1 ELSE d.ref[l][g]]]
  IN  [obstacles |-> [d.obstacles EXCEPT ![id] = Absent],
       ref |-> ref,
       grid |-> [l \in Layers |-> IF l = o.layer THEN d.grid[l] \ {g \in o.cells : ref[l][g] = 0} ELSE d.grid[l]],
       merged |-> d.merged \ {g \in o.cells : ref[o.layer][g] = 0}]

Remove(d, id) ==
  LET o == d.obstacles[id]
      ref == [l \in Layers |-> [g \in Cells |->
                IF l = o.layer /\ g \in o.cells /\ d.ref[l][g] > 0 THEN d.ref[l][g] - 1 ELSE d.ref[l][g]]]
  IN  [obstacles |-> [d.obstacles EXCEPT ![id] = Absent],
       ref |-> ref,
       grid |-> [l \in Layers |-> IF l = o.layer THEN d.grid[l] \ {g \in o.cells : ref[l][g] = 0} ELSE d.grid[l]],
       merged |-> d.merged \ {g \in o.cells : \A l \in Layers : ref[l][g] = 0}]

WithoutOldVersion(d, id) == IF d.obstacles[id] # Absent THEN Remove(d, id) ELSE d

Insert(d, id, cells, layer) ==
  LET e == WithoutOldVersion(d, id)
  IN  [obstacles |-> [e.obstacles EXCEPT ![id] = [layer |-> layer, cells |-> cells]],
       ref |-> [l \in Layers |-> [g \in Cells |->
                  IF l = layer /\ g \in cells THEN (e.ref[l][g] + 1) % RefLimit ELSE e.ref[l][g]]],
       grid |-> [e.grid EXCEPT ![layer] = @ \cup cells],
       merged |-> e.merged \cup cells]

ClearLayer(d, layer) ==
  LET grid == [d.grid EXCEPT ![layer] = {}]
  IN  [obstacles |-> [i \in Ids |-> IF d.obstacles[i].layer = layer THEN Absent ELSE d.obstacles[i]],
       ref |-> [d.ref EXCEPT ![layer] = [g \in Cells |-> 0]],
       grid |-> grid,
       merged |-> grid["FIXED"] \cup grid["STATIC"] \cup grid["DYNAMIC"]]

(* Cells that the node looks at: permanent obstacles.                      *)
Occupied(d) == d.grid["FIXED"] \cup d.grid["STATIC"]
IsOccupied(at) == WorldToGrid(at.p, at.k) \in Occupied(map)

(* The obstacles with an occupied cell in the region.                      *)
Touching(d, region) ==
  {i \in Ids : d.obstacles[i] # Absent /\ d.obstacles[i].cells \cap region \cap d.merged # {}}

(* Which cells are near: a square for one query, a disc for the other.     *)
RadiusCells(r) == (r + Res - 1) \div Res
Square(m, r) == {g \in Cells : Abs(g[1] - m[1]) <= RadiusCells(r) /\ Abs(g[2] - m[2]) <= RadiusCells(r)}
Disc(m, r) == {g \in Square(m, r) : Res * Res * Dist2(g, m) <= r * r}

FindObstaclesNear(d, p, r) == IF InBounds(p) THEN Touching(d, Square(WorldToGrid(p, 1), r)) ELSE {}
FindObstaclesInSafetyCircle(d, p, r) == Touching(d, Disc(FloorCell(p), r))

-----------------------------------------------------------------------------
(* Writers.                                                                *)

Change == updates < MaxUpdates /\ updates' = updates + 1

Publish(d) ==
  /\ map' = d
  /\ steady' = {g \in steady : g \in Occupied(d) <=> g \in Occupied(map)}
  /\ UNCHANGED scan

(* applyMapUpdates and updateMapService ("update") and                     *)
(* loadObstaclesFromJson ("load") copy the snapshot, ...                   *)
UpdateSnapshot(what) ==
  /\ writer = "idle" /\ updates < MaxUpdates
  /\ writer' = what /\ draft' = map
  /\ UNCHANGED <<map, updates, scan, steady>>

(* ... apply one update after the other to the copy, ...                   *)
ApplyInsert(i, s) ==
  /\ writer # "idle" /\ Change
  /\ draft' = Insert(draft, i, Rasterized[s], IF writer = "load" THEN "FIXED" ELSE "STATIC")
  /\ UNCHANGED <<map, writer, scan, steady>>

ApplyDelete(i) ==
  /\ writer = "update" /\ Change
  /\ draft' = WithoutOldVersion(draft, i)
  /\ UNCHANGED <<map, writer, scan, steady>>

(* ... and publish it.                                                     *)
StoreSnapshot ==
  /\ writer # "idle" /\ writer' = "idle"
  /\ Publish(draft)
  /\ draft' = EmptyMap /\ UNCHANGED updates

(* The rest of the interface of the map: one change, one snapshot.         *)
InsertObstacle(i, s, l) ==
  /\ writer = "idle" /\ Change
  /\ Publish(Insert(map, i, Rasterized[s], l)) /\ UNCHANGED <<draft, writer>>

RemoveObstacle(i) ==
  /\ writer = "idle" /\ Change
  /\ Publish(WithoutOldVersion(map, i)) /\ UNCHANGED <<draft, writer>>

ClearOneLayer(l) ==
  /\ writer = "idle" /\ Change
  /\ Publish(ClearLayer(map, l)) /\ UNCHANGED <<draft, writer>>

ResetBackend ==
  /\ writer = "idle" /\ Change
  /\ Publish(EmptyMap) /\ UNCHANGED <<draft, writer>>

-----------------------------------------------------------------------------
(* Scans.  A scanned obstacle has a type, a position, vertices, a radius   *)
(* and is or is not the known position of another robot.                   *)

WithinRadius(p) == Dist2(p, Robot) <= Radius * Radius

InSafetyCircle(o) ==
  CASE o.type = "LINE" -> NearSegment(Robot, o.vertices[1], o.vertices[2], Radius)
    [] o.type = "CIRCLE" -> Dist2(o.position, Robot) <= (Radius + o.radius) * (Radius + o.radius)
    [] o.type = "POLYGON" -> \/ \E v \in DOMAIN o.vertices : WithinRadius(o.vertices[v])
                             \/ Len(o.vertices) >= 3 /\ InPolygon(Robot, o.vertices)
    [] OTHER -> WithinRadius(o.position)

(* The points where checkCorrespondence looks: [p, k] is the point p / k.  *)
At(p) == [p |-> p, k |-> 1]
Between(a, b, n, k) == [p |-> <<k * a[1] + n * (b[1] - a[1]), k * a[2] + n * (b[2] - a[2])>>, k |-> k]

Lookups(o) ==
  LET vs == o.vertices
      inner == EdgeSamples - 1
  IN  CASE o.type = "LINE" -> [n \in 1..Samples + 1 |-> Between(vs[1], vs[2], n - 1, Samples)]
        [] o.type = "CIRCLE" ->
             [n \in DOMAIN Rim |-> At(<<o.position[1] + o.radius * Rim[n][1],
                                        o.position[2] + o.radius * Rim[n][2]>>)]
        [] o.type = "POLYGON" ->
             [n \in DOMAIN vs |-> At(vs[n])]
               \o [n \in 1..Len(vs) * inner |->
                     LET e == (n - 1) \div inner
                     IN  Between(vs[e + 1], vs[((e + 1) % Len(vs)) + 1], n - e * inner, EdgeSamples)]
        [] OTHER -> << At(o.position) >>

NoScan == [msg |-> <<>>, phase |-> "idle", i |-> 1, n |-> 0,
           alert |-> FALSE, unmatched |-> {}, matched |-> {}]

MatchScan(msg) ==
  /\ scan.phase \in {"idle", "done"}
  /\ scan' = [NoScan EXCEPT !.msg = msg, !.phase = "check"]
  /\ steady' = Cells
  /\ UNCHANGED <<map, draft, writer, updates>>

Next1(phase) == [scan EXCEPT !.phase = phase, !.i = 1, !.n = 0]
Advance(sc) == [sc EXCEPT !.i = @ + 1, !.n = 0]

(* A known robot is passed over; what is outside the safety circle is not  *)
(* looked up and counts as unmatched; else the samples decide.             *)
CheckCorrespondence ==
  /\ scan.phase = "check"
  /\ IF scan.i > Len(scan.msg) THEN scan' = Next1("build")
     ELSE LET o == scan.msg[scan.i] IN
       scan' = CASE o.robot -> Advance(scan)
                 [] ~o.robot /\ ~InSafetyCircle(o) -> [Advance(scan) EXCEPT !.alert = TRUE]
                 [] ~o.robot /\ InSafetyCircle(o) ->
                      IF scan.n = Len(Lookups(o)) THEN [Advance(scan) EXCEPT !.alert = TRUE]
                      ELSE IF IsOccupied(Lookups(o)[scan.n + 1]) THEN Advance(scan)
                      ELSE [scan EXCEPT !.n = @ + 1]
  /\ UNCHANGED <<map, draft, writer, updates, steady>>

(* Faulty variant: one vertex on the map makes the obstacle a known one.   *)
UnmatchedOnlyIfNoneMatches(sc) == [sc EXCEPT !.unmatched = @ \ sc.matched]

(* An obstacle with an unmatched vertex is unmatched, whatever its others. *)
Classified(sc) == [sc EXCEPT !.matched = @ \ sc.unmatched]

BuildMatchResult ==
  /\ scan.phase = "build"
  /\ IF scan.i > Len(scan.msg) THEN scan' = Classified(Next1("done"))
     ELSE LET o == scan.msg[scan.i] IN
       scan' = IF o.robot \/ scan.n >= Len(o.vertices) THEN Advance(scan)
               ELSE LET v == o.vertices[scan.n + 1]
                        more == [scan EXCEPT !.n = @ + 1]
                    IN  IF ~WithinRadius(v) THEN more
                        ELSE IF IsOccupied(At(v)) THEN [more EXCEPT !.matched = @ \cup {scan.i}]
                        ELSE [more EXCEPT !.unmatched = @ \cup {scan.i}]
  /\ UNCHANGED <<map, draft, writer, updates, steady>>

-----------------------------------------------------------------------------
(* validatePathService: a segment with an end outside the grid is free.    *)

SegmentCells ==
  [s \in Segments |->
     IF InBounds(s[1]) /\ InBounds(s[2]) THEN Bresenham(WorldToGrid(s[1], 1), WorldToGrid(s[2], 1)) ELSE {}]

(* For a segment that visits these cells.                                  *)
IsPathBlocked(cells) == cells \cap Occupied(map) # {}

-----------------------------------------------------------------------------
Init ==
  /\ map = EmptyMap /\ draft = EmptyMap /\ writer = "idle" /\ updates = 0
  /\ scan = NoScan /\ steady = Cells

Next ==
  \/ (\E what \in {"update", "load"} : UpdateSnapshot(what)) \/ StoreSnapshot
  \/ (\E i \in Ids, s \in Shapes : ApplyInsert(i, s))
  \/ (\E i \in Ids : ApplyDelete(i) \/ RemoveObstacle(i))
  \/ (\E i \in Ids, s \in Shapes, l \in ApiLayers : InsertObstacle(i, s, l))
  \/ (\E l \in Layers : ClearOneLayer(l)) \/ ResetBackend
  \/ (\E msg \in Messages : MatchScan(msg)) \/ CheckCorrespondence \/ BuildMatchResult

Spec == Init /\ [][Next]_vars

-----------------------------------------------------------------------------
(* Properties.                                                             *)

(* worldToGrid takes what is less than a cell outside for the first cell.  *)
RobotOnGrid == Robot \in Nat \X Nat /\ InBounds(Robot)

Owners(d, l, g) == {i \in Ids : d.obstacles[i].layer = l /\ g \in d.obstacles[i].cells}

Exact(d) ==
  /\ \A l \in Layers, g \in Cells :
       /\ d.ref[l][g] = Cardinality(Owners(d, l, g))
       /\ g \in d.grid[l] <=> Owners(d, l, g) # {}
  /\ d.merged = UNION {d.grid[l] : l \in Layers}

(* However obstacles overlap, change their layer, are replaced, removed or *)
(* cleared with their layer, a cell is occupied in a layer exactly when an *)
(* obstacle of the layer covers it, and in the merged grid exactly when    *)
(* some obstacle does; so the search around the robot finds exactly the    *)
(* obstacles with a cell in its circle (gridmap_policies.cpp, clearLayer,  *)
(* findObstaclesInSafetyCircle).                                           *)
GridMatchesObstacles ==
  /\ Exact(map) /\ Exact(draft)
  /\ LET found == FindObstaclesInSafetyCircle(map, Robot, Radius)
         disc == Disc(FloorCell(Robot), Radius)
     IN  /\ found = {i \in Ids : map.obstacles[i].cells \cap disc # {}}
         /\ RobotOnGrid => found \subseteq FindObstaclesNear(map, Robot, Radius)

(* A scan that overlaps map updates still reports right on cells that did  *)
(* not change meanwhile: an obstacle with a vertex on a free cell of the   *)
(* safety circle is reported unmatched, one whose vertices there are all   *)
(* on occupied cells is not, and one all of whose samples are on free      *)
(* cells raises the alert (matchScan).                                     *)
SteadyCellsReported ==
  scan.phase = "done" =>
    \A k \in DOMAIN scan.msg :
      LET o == scan.msg[k]
          near == {v \in DOMAIN o.vertices : WithinRadius(o.vertices[v])}
          cell(v) == WorldToGrid(o.vertices[v], 1)
          seen == {WorldToGrid(Lookups(o)[n].p, Lookups(o)[n].k) : n \in DOMAIN Lookups(o)}
          free(g) == g \in steady /\ g \notin Occupied(map)
          taken(g) == g \in steady /\ g \in Occupied(map)
      IN  ~o.robot =>
            /\ (\E v \in near : free(cell(v))) => k \in scan.unmatched
            /\ (\A v \in near : taken(cell(v))) => k \notin scan.unmatched
            /\ (\A g \in seen : free(g)) => scan.alert

(* Does the segment from p to q meet the inside of the box of half width   *)
(* hw and half height hh around c?                                         *)
Meets(p, q, c, hw, hh) ==
  LET side(a, b) == (q[1] - p[1]) * (b - p[2]) - (q[2] - p[2]) * (a - p[1])
      sides == {side(a, b) : a \in {c[1] - hw, c[1] + hw}, b \in {c[2] - hh, c[2] + hh}}
  IN  /\ hw > 0 /\ hh > 0
      /\ \E e \in {p, q} : e[1] > c[1] - hw
      /\ \E e \in {p, q} : e[1] < c[1] + hw
      /\ \E e \in {p, q} : e[2] > c[2] - hh
      /\ \E e \in {p, q} : e[2] < c[2] + hh
      /\ (\E v \in sides : v > 0) /\ (\E v \in sides : v < 0)

(* What segments visit that go deeper than 3/4 Res - Inflation into an     *)
(* axis-parallel rectangle whose centre is in the grid, both ends of the   *)
(* segment in the grid.  In quarters of a unit.                            *)
DeepCuts ==
  [s \in Shapes |->
     {SegmentCells[p] : p \in {p \in Segments :
        /\ s.type = "RECTANGLE" /\ ~s.turned /\ InBounds(s.position)
        /\ \A e \in {p[1], p[2]} : e \in Nat \X Nat /\ InBounds(e)
        /\ Meets(Twice(Twice(p[1])), Twice(Twice(p[2])), Twice(Twice(s.position)),
                 2 * s.width - 3 * Res + 4 * Inflation, 2 * s.height - 3 * Res + 4 * Inflation)}}]

(* A path may cut a corner of a rectangle and be reported free: the line   *)
(* algorithm goes from cell centre to cell centre and passes cells at      *)
(* their corners.  It never gets deeper than 3/4 of a cell less the        *)
(* inflation: a segment whose ends are in the grid and that goes deeper    *)
(* into an axis-parallel rectangle of a permanent layer is blocked, in     *)
(* every state of the map.  With an inflation of 3/4 of a cell a free path *)
(* keeps out of the rectangles; with the default, 0, it does not           *)
(* (isPathBlocked, rasterizeRectangle).                                    *)
DeepCutIsBlocked ==
  \A i \in Ids, s \in Shapes :
    map.obstacles[i].layer \in {"FIXED", "STATIC"} /\ map.obstacles[i].cells = Rasterized[s]
      => \A cells \in DeepCuts[s] : IsPathBlocked(cells)

-----------------------------------------------------------------------------
(* What the documentation says and the code does not do: TLC refutes it.   *)

(* Only obstacles in the safety circle raise the alert                     *)
(* (checkCorrespondence: "Outside safety circle - not a concern").         *)
AlertMeansNear ==
  scan.alert => \E k \in DOMAIN scan.msg : ~scan.msg[k].robot /\ InSafetyCircle(scan.msg[k])
=============================================================================
