---------------------------- MODULE GeofenceMap ----------------------------
(***************************************************************************)
(* GeofenceMap: what a snapshot contains and what the operations make of   *)
(* it.  Module SnapshotStore shows that updateSnapshot replaces the        *)
(* published snapshot atomically, so here it is one variable, snap, and an *)
(* operation on a single obstacle or area is one action.  A batch works on *)
(* a private clone, draft, under the writers' mutex and publishes it at    *)
(* its end.                                                                *)
(*                                                                         *)
(* An obstacle is its bounding box (a rectangle, an axis-parallel line or  *)
(* a point).  The operations reject a negative id, a non-finite coordinate *)
(* and a box with min > max before they touch anything: no such value is   *)
(* among the inputs below.                                                 *)
(***************************************************************************)
EXTENDS SpatialIndex

CONSTANTS
  ObstacleIds,   \* ids of obstacles
  AreaIds,       \* ids of areas
  MaxX, MaxY,    \* bound: coordinates
  MaxPoints,     \* bound: points of the area index, from which nothing is removed
  MaxEntries,    \* bound: points of both indices together
  MaxBatch,      \* bound: elements of a batch; 0 for no batches
  NoContours,    \* no contours were set
  NoDraft        \* no batch is under way

ASSUME MapAssumption ==
  /\ ObstacleIds \subseteq Nat /\ AreaIds \subseteq Nat
  /\ MaxX \in Nat /\ MaxY \in Nat /\ MaxPoints \in Nat /\ MaxBatch \in Nat
  /\ MaxEntries \in Nat

Boxes ==
  {b \in [x0 : 0..MaxX, y0 : 0..MaxY, x1 : 0..MaxX, y1 : 0..MaxY] :
     b.x0 <= b.x1 /\ b.y0 <= b.y1}

Points == [x : 0..MaxX, y : 0..MaxY]

(* The outer contour of a layout, a box here.                              *)
Layouts == {[x0 |-> 0, y0 |-> 0, x1 |-> MaxX, y1 |-> MaxY]}

VARIABLES
  snap,     \* the published snapshot
  draft,    \* the snapshot a batch operation is filling, or NoDraft
  batch     \* which batch operation that is, and its elements so far

vars == <<snap, draft, batch>>

EmptySnapshot ==
  [obstacles |-> [i \in {} |-> 0], obstacleTree |-> EmptyIndex,
   areas |-> [i \in {} |-> 0], areaTree |-> EmptyIndex,
   locked |-> {}, contours |-> NoContours]

NoBatch == [kind |-> "none", size |-> 0]

Init ==
  /\ snap = EmptySnapshot
  /\ draft = NoDraft
  /\ batch = NoBatch

-----------------------------------------------------------------------------
(* Modifiers: what the operations do to the snapshot they are given.       *)

Without(f, id) == [j \in DOMAIN f \ {id} |-> f[j]]

(* Faulty variant: an existing id is not taken out of the index first.     *)
PutObstacleNoReplace(s, id, b) ==
  [s EXCEPT !.obstacleTree = Insert(@, id, b),
            !.obstacles    = Put(@, id, b)]

(* An obstacle with the same id is taken out of index and table first.     *)
PutObstacle(s, id, b) ==
  [s EXCEPT !.obstacleTree = Insert(IF id \in DOMAIN s.obstacles THEN Remove(@, id) ELSE @, id, b),
            !.obstacles    = Put(@, id, b)]

DropObstacle(s, id) ==
  IF id \notin DOMAIN s.obstacles THEN s
  ELSE [s EXCEPT !.obstacleTree = Remove(@, id),
                 !.obstacles    = Without(@, id)]

(* A known area is given its new rectangle and a second point.             *)
PutArea(s, id, b) ==
  [s EXCEPT !.areaTree = Insert(@, id, b),
            !.areas    = Put(@, id, b)]

(* updateSnapshot: both indices are cloned, the other members copied.      *)
Copy(s) == [s EXCEPT !.obstacleTree = Clone(@), !.areaTree = Clone(@)]

(* One updateSnapshot call whose modifier makes s of the copy.             *)
Publish(s) ==
  /\ draft = NoDraft
  /\ snap' = s
  /\ UNCHANGED <<draft, batch>>

-----------------------------------------------------------------------------
(* Operations.                                                             *)

(* Bound: an obstacle may be inserted if it replaces one or there is room, *)
(* an area if there is room.                                               *)
HasRoom(s) == Len(s.obstacleTree.points) + Len(s.areaTree.points) < MaxEntries

InsertObstacle(id, b) ==
  /\ id \in DOMAIN snap.obstacles \/ HasRoom(snap)
  /\ Publish(PutObstacle(Copy(snap), id, b))

RemoveObstacle(id) == Publish(DropObstacle(Copy(snap), id))

RegisterArea(id, b) ==
  /\ Len(snap.areaTree.points) < MaxPoints /\ HasRoom(snap)
  /\ Publish(PutArea(Copy(snap), id, b))

LockArea(id) == Publish([Copy(snap) EXCEPT !.locked = @ \cup {id}])

UnlockArea(id) == Publish([Copy(snap) EXCEPT !.locked = @ \ {id}])

SetMapContours(c) == Publish([Copy(snap) EXCEPT !.contours = c])

(* insertBatch, removeBatch and registerAreasBatch.                        *)
BeginBatch(kind) ==
  /\ draft = NoDraft
  /\ MaxBatch > 0
  /\ draft' = Copy(snap)
  /\ batch' = [kind |-> kind, size |-> 0]
  /\ UNCHANGED snap

Extend(kind, s) ==
  /\ batch.kind = kind
  /\ batch.size < MaxBatch
  /\ draft' = s
  /\ batch' = [batch EXCEPT !.size = @ + 1]
  /\ UNCHANGED snap

InsertBatch(id, b) ==
  /\ batch.kind = "insert"
  /\ id \in DOMAIN draft.obstacles \/ HasRoom(draft)
  /\ Extend("insert", PutObstacle(draft, id, b))

RemoveBatch(id) == Extend("remove", DropObstacle(draft, id))

RegisterAreasBatch(id, b) ==
  /\ batch.kind = "register"
  /\ Len(draft.areaTree.points) < MaxPoints /\ HasRoom(draft)
  /\ Extend("register", PutArea(draft, id, b))

(* The batch is stored, or its modifier met an invalid area and threw: the *)
(* draft is dropped.                                                       *)
EndBatch ==
  /\ \/ batch.size > 0 /\ snap' = draft
     \/ batch.kind = "register" /\ UNCHANGED snap
  /\ draft' = NoDraft
  /\ batch' = NoBatch

Next ==
  \/ \E id \in ObstacleIds, b \in Boxes : InsertObstacle(id, b) \/ InsertBatch(id, b)
  \/ \E id \in ObstacleIds : RemoveObstacle(id) \/ RemoveBatch(id)
  \/ \E id \in AreaIds, b \in Boxes : RegisterArea(id, b) \/ RegisterAreasBatch(id, b)
  \/ \E id \in AreaIds : LockArea(id) \/ UnlockArea(id)
  \/ \E c \in Layouts : SetMapContours(c)
  \/ \E kind \in {"insert", "remove", "register"} : BeginBatch(kind)
  \/ EndBatch

Spec == Init /\ [][Next]_vars

-----------------------------------------------------------------------------
(* Properties.                                                             *)

(* The snapshots readers may ever see, and the one being filled.           *)
Snapshots == {snap} \cup (IF draft = NoDraft THEN {} ELSE {draft})

Entries(ids) ==
  [id : ids, cx : 0..(2 * MaxX), cy : 0..(2 * MaxY), diag2 : 0..(MaxX * MaxX + MaxY * MaxY)]

IndexOK(ix, ids) ==
  /\ ix.points \in Seq(Entries(ids))
  /\ DOMAIN ix.index \subseteq ids
  /\ \A id \in DOMAIN ix.index : ix.index[id] \in DOMAIN ix.points
  /\ ix.maxDiag2 \in 0..(MaxX * MaxX + MaxY * MaxY)

(* Every snapshot keeps its shape, and every position the index's table    *)
(* holds is one of its point cloud.                                        *)
TypeOK ==
  /\ \A s \in Snapshots :
       /\ DOMAIN s.obstacles \subseteq ObstacleIds
       /\ \A id \in DOMAIN s.obstacles : s.obstacles[id] \in Boxes
       /\ IndexOK(s.obstacleTree, ObstacleIds)
       /\ DOMAIN s.areas \subseteq AreaIds
       /\ \A id \in DOMAIN s.areas : s.areas[id] \in Boxes
       /\ IndexOK(s.areaTree, AreaIds)
       /\ s.locked \subseteq AreaIds
       /\ s.contours \in Layouts \cup {NoContours}
  /\ batch \in [kind : {"none", "insert", "remove", "register"}, size : 0..MaxBatch]
  /\ batch.kind = "none" => draft = NoDraft

(* The indices and the tables say the same after every sequence of         *)
(* inserts, replacements, swap-and-pop removals and batches, abandoned     *)
(* ones included.  There is one point per obstacle, at the position the id *)
(* table gives, for the box the obstacle table holds; every area has a     *)
(* point for its present rectangle, and every point is of an area that     *)
(* really was registered.                                                  *)
Coherent(ix, boxes) ==
  /\ DOMAIN ix.index = DOMAIN boxes
  /\ \A id \in DOMAIN boxes : ix.index[id] \in DOMAIN ix.points
                              /\ ix.points[ix.index[id]] = Entry(id, boxes[id])
  /\ \A i \in DOMAIN ix.points : ix.points[i].id \in DOMAIN boxes
                                 /\ ix.index[ix.points[i].id] = i
AreasIndexed(s) ==
  /\ \A id \in DOMAIN s.areas :
       \E i \in DOMAIN s.areaTree.points : s.areaTree.points[i] = Entry(id, s.areas[id])
  /\ \A i \in DOMAIN s.areaTree.points : s.areaTree.points[i].id \in DOMAIN s.areas
IndicesCoherent ==
  \A s \in Snapshots : Coherent(s.obstacleTree, s.obstacles) /\ AreasIndexed(s)

(* No box stored is larger than the cached maximum by which queries are    *)
(* inflated, and no larger box is remembered than one that is stored.      *)
MaxExact(ix) == ix.maxDiag2 = MaxDiag2(ix.points)
MaximumExact ==
  \A s \in Snapshots : MaxExact(s.obstacleTree) /\ MaxExact(s.areaTree)

(* Two closed boxes have more than one point in common.                    *)
Overlap(a, b) ==
  LET Lo(p, q) == IF p > q THEN p ELSE q
      Hi(p, q) == IF p < q THEN p ELSE q
      w == Hi(a.x1, b.x1) - Lo(a.x0, b.x0)
      h == Hi(a.y1, b.y1) - Lo(a.y0, b.y0)
  IN  w >= 0 /\ h >= 0 /\ w + h > 0

(* query returns every obstacle and every area whose box overlaps the      *)
(* query box, although it compares centres only: the claim of the comment  *)
(* in query, "it can never be missed".                                     *)
NothingMissed ==
  \A q \in Boxes :
    /\ \A id \in DOMAIN snap.obstacles :
         Overlap(snap.obstacles[id], q) => id \in Query(snap.obstacleTree, q)
    /\ \A id \in DOMAIN snap.areas :
         Overlap(snap.areas[id], q) => id \in Query(snap.areaTree, q)
=============================================================================
