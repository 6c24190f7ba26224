---------------------------- MODULE SpatialIndex ----------------------------
(***************************************************************************)
(* NanoflannAdapter: the index of the map's obstacles and areas.           *)
(*                                                                         *)
(* The index keeps one point per box, its centre, and the largest diagonal *)
(* it stores.  A query searches a circle around the centre of the query    *)
(* box whose radius is half the query box's diagonal plus half that        *)
(* largest diagonal.                                                       *)
(*                                                                         *)
(* Coordinates are integers.  Centres are kept doubled and diagonals as    *)
(* squares, so every comparison below is exact; the code computes in float *)
(* and may differ when the two sides are equal up to rounding.             *)
(***************************************************************************)
EXTENDS Integers, Sequences

(* A box is [x0, y0, x1, y1]; a degenerate one is a line or a point.       *)
Diag2(b) == (b.x1 - b.x0) * (b.x1 - b.x0) + (b.y1 - b.y0) * (b.y1 - b.y0)

(* One element of the point cloud.                                         *)
Entry(id, b) == [id |-> id, cx |-> b.x0 + b.x1, cy |-> b.y0 + b.y1, diag2 |-> Diag2(b)]

EmptyIndex == [points |-> <<>>, index |-> [i \in {} |-> 0], maxDiag2 |-> 0]

(* id_to_index_[id] = value: the key is added when it is not there yet.    *)
Put(f, id, value) == [j \in DOMAIN f \cup {id} |-> IF j = id THEN value ELSE f[j]]

Insert(ix, id, b) ==
  [points   |-> Append(ix.points, Entry(id, b)),
   index    |-> Put(ix.index, id, Len(ix.points) + 1),
   maxDiag2 |-> IF Diag2(b) > ix.maxDiag2 THEN Diag2(b) ELSE ix.maxDiag2]

(* max_element of the diagonals, 0 for no points.                          *)
MaxDiag2(points) ==
  IF points = <<>> THEN 0
  ELSE LET D == {points[i].diag2 : i \in DOMAIN points}
       IN  CHOOSE d \in D : \A e \in D : e <= d

(* The last point moves into the place of the removed one.                 *)
DropPoint(points, i) ==
  [k \in 1..(Len(points) - 1) |-> IF k = i THEN points[Len(points)] ELSE points[k]]

(* remove: swap with the last point and pop; the cached maximum is         *)
(* recomputed only when a largest box goes.                                *)
Remove(ix, id) ==
  IF id \notin DOMAIN ix.index THEN ix
  ELSE LET i      == ix.index[id]
           last   == Len(ix.points)
           points == DropPoint(ix.points, i)
           moved  == IF i # last THEN Put(ix.index, ix.points[last].id, i) ELSE ix.index
       IN [points   |-> points,
           index    |-> [j \in DOMAIN moved \ {id} |-> moved[j]],
           maxDiag2 |-> IF ix.points[i].diag2 >= ix.maxDiag2 THEN MaxDiag2(points)
                                                            ELSE ix.maxDiag2]

(* Faulty variant: only the points and the ids are copied.                 *)
CloneForgetsMax(ix) == [points |-> ix.points, index |-> ix.index, maxDiag2 |-> 0]

(* clone, then ensureBuilt by updateSnapshot: the points, the ids and the  *)
(* maximum are copied member by member.                                    *)
Clone(ix) == [points |-> ix.points, index |-> ix.index, maxDiag2 |-> ix.maxDiag2]

(* nanoflann's radiusSearch returns the points at a distance strictly less *)
(* than the radius.  sqrt(dist2) < sqrt(a) + sqrt(b), without roots.       *)
WithinRadius(dist2, a, b) ==
  LET k == dist2 - a - b IN k < 0 \/ k * k < 4 * a * b

(* Faulty variant: the circle around the query box alone.                  *)
QueryNotInflated(ix, box) ==
  LET q == Entry(0, box)
      Dist2(p) == (p.cx - q.cx) * (p.cx - q.cx) + (p.cy - q.cy) * (p.cy - q.cy)
  IN  {ix.points[i].id : i \in {j \in DOMAIN ix.points :
                                  WithinRadius(Dist2(ix.points[j]), q.diag2, 0)}}

(* query: the ids of the points within the inflated circle.                *)
Query(ix, box) ==
  LET q == Entry(0, box)
      Dist2(p) == (p.cx - q.cx) * (p.cx - q.cx) + (p.cy - q.cy) * (p.cy - q.cy)
  IN  {ix.points[i].id : i \in {j \in DOMAIN ix.points :
                                  WithinRadius(Dist2(ix.points[j]), q.diag2, ix.maxDiag2)}}
=============================================================================
