---------------------------- MODULE GridMapProofs ----------------------------
(***************************************************************************)
(* The grids match the obstacles for every grid, number of obstacles and   *)
(* sequence of changes, and what a scan reports is right about the cells   *)
(* that did not change while it ran.                                       *)
(***************************************************************************)
EXTENDS GridMap, FiniteSetTheorems, SequenceTheorems, TLAPS

MapType ==
  [obstacles : [Ids -> [layer : Layers \cup {"none"}, cells : SUBSET Cells]],
   ref : [Layers -> [Cells -> Nat]],
   grid : [Layers -> SUBSET Cells],
   merged : SUBSET Cells]

(* What the grids have to show, cell by cell.                              *)
Counted(d, l, g) ==
  /\ d.ref[l][g] = Cardinality(Owners(d, l, g))
  /\ g \in d.grid[l] <=> Owners(d, l, g) # {}

MapInv(d) ==
  /\ d \in MapType
  /\ \A i \in Ids : d.obstacles[i].layer = "none" => d.obstacles[i] = Absent
  /\ \A l \in Layers, g \in Cells : Counted(d, l, g)
  /\ \A g \in Cells : g \in d.merged <=> \E l \in Layers : g \in d.grid[l]

-----------------------------------------------------------------------------
(* The operations on a snapshot.                                           *)

LEMMA OwnersFinite ==
  ASSUME NEW d, NEW l, NEW g
  PROVE  /\ IsFiniteSet(Owners(d, l, g)) /\ Owners(d, l, g) \subseteq Ids
         /\ Cardinality(Owners(d, l, g)) \in Nat
         /\ Cardinality(Owners(d, l, g)) < RefLimit
         /\ Cardinality(Owners(d, l, g)) = 0 <=> Owners(d, l, g) = {}
<1>1. Owners(d, l, g) \subseteq Ids /\ IsFiniteSet(Ids)
  BY GridAssumption DEF Owners
<1> HIDE DEF Owners
<1>2. IsFiniteSet(Owners(d, l, g)) /\ Cardinality(Owners(d, l, g)) <= Cardinality(Ids)
  BY <1>1, FS_Subset
<1>3. Cardinality(Owners(d, l, g)) \in Nat /\ Cardinality(Ids) \in Nat
  BY <1>1, <1>2, FS_CardinalityType
<1> QED BY <1>1, <1>2, <1>3, FS_EmptySet, GridAssumption

LEMMA MapInvExact ==
  ASSUME NEW d, MapInv(d)
  PROVE  Exact(d)
<1>1. \A l \in Layers, g \in Cells : Counted(d, l, g)
  BY DEF MapInv
<1>2. d.merged = UNION {d.grid[l] : l \in Layers}
  <2>1. d.merged \subseteq Cells /\ \A l \in Layers : d.grid[l] \subseteq Cells
    BY DEF MapInv, MapType
  <2> QED BY <2>1 DEF MapInv
<1> QED BY <1>1, <1>2 DEF Exact, Counted

LEMMA EmptyMapInv == MapInv(EmptyMap)
<1>1. EmptyMap \in MapType /\ \A i \in Ids : EmptyMap.obstacles[i] = Absent
  BY DEF EmptyMap, MapType, Absent
<1>2. ASSUME NEW l \in Layers, NEW g \in Cells
      PROVE  Counted(EmptyMap, l, g)
  <2>1. Owners(EmptyMap, l, g) = {}
    BY <1>1 DEF Owners, Absent
  <2> QED BY <2>1, FS_EmptySet DEF Counted, EmptyMap
<1>3. \A g \in Cells : g \in EmptyMap.merged <=> \E l \in Layers : g \in EmptyMap.grid[l]
  BY DEF EmptyMap
<1> QED BY <1>1, <1>2, <1>3 DEF MapInv

(* The counts of the cells of a removed obstacle drop by one.              *)
LEMMA RemoveInv ==
  ASSUME NEW d, MapInv(d), NEW id \in Ids, d.obstacles[id] # Absent
  PROVE  MapInv(Remove(d, id)) /\ Remove(d, id).obstacles[id] = Absent
<1> DEFINE o == d.obstacles[id]
           e == Remove(d, id)
           n(l, g) == IF l = o.layer /\ g \in o.cells /\ d.ref[l][g] > 0
                        THEN d.ref[l][g] - 1 ELSE d.ref[l][g]
           obstacles == [d.obstacles EXCEPT ![id] = Absent]
           ref == [l \in Layers |-> [g \in Cells |-> n(l, g)]]
           grid == [l \in Layers |-> IF l = o.layer THEN d.grid[l] \ {g \in o.cells : ref[l][g] = 0}
                                                    ELSE d.grid[l]]
           merged == d.merged \ {g \in o.cells : \A l \in Layers : ref[l][g] = 0}
<1>1. /\ o.layer \in Layers /\ o.cells \subseteq Cells /\ d \in MapType
      /\ \A l \in Layers, g \in Cells : d.ref[l][g] \in Nat
  BY DEF MapInv, MapType
<1>2. /\ e = [obstacles |-> e.obstacles, ref |-> e.ref, grid |-> e.grid, merged |-> e.merged]
      /\ e.obstacles = obstacles
      /\ \A l \in Layers, g \in Cells : e.ref[l][g] = n(l, g)
      /\ DOMAIN e.ref = Layers /\ \A l \in Layers : e.ref[l] = [g \in Cells |-> e.ref[l][g]]
      /\ e.ref = [l \in Layers |-> e.ref[l]]
      /\ \A l \in Layers : e.grid[l] = IF l = o.layer THEN d.grid[l] \ {g \in o.cells : e.ref[l][g] = 0}
                                                      ELSE d.grid[l]
      /\ e.grid = [l \in Layers |-> e.grid[l]]
      /\ e.merged = d.merged \ {g \in o.cells : \A l \in Layers : e.ref[l][g] = 0}
  <2>1. e = [obstacles |-> obstacles, ref |-> ref, grid |-> grid, merged |-> merged]
    BY DEF Remove
  <2> HIDE DEF obstacles, merged, grid, ref, n
  <2>2. e.obstacles = obstacles /\ e.ref = ref /\ e.grid = grid /\ e.merged = merged
    BY <2>1
  <2> HIDE DEF e
  <2>3. /\ \A l \in Layers, g \in Cells : ref[l][g] = n(l, g)
        /\ DOMAIN ref = Layers /\ \A l \in Layers : ref[l] = [g \in Cells |-> ref[l][g]]
        /\ ref = [l \in Layers |-> ref[l]]
    BY DEF ref
  <2>4. /\ \A l \in Layers : grid[l] = IF l = o.layer THEN d.grid[l] \ {g \in o.cells : ref[l][g] = 0}
                                                     ELSE d.grid[l]
        /\ grid = [l \in Layers |-> grid[l]]
    BY DEF grid
  <2>5. merged = d.merged \ {g \in o.cells : \A l \in Layers : ref[l][g] = 0}
    BY DEF merged
  <2> QED BY <2>1, <2>2, <2>3, <2>4, <2>5
<1> HIDE DEF e
<1>refs. \A l \in Layers, g \in Cells : e.ref[l][g] = n(l, g)
  BY <1>2
<1>grids. /\ \A l \in Layers : e.grid[l] = IF l = o.layer THEN d.grid[l] \ {g \in o.cells : e.ref[l][g] = 0}
                                                       ELSE d.grid[l]
          /\ e.grid = [l \in Layers |-> e.grid[l]]
  BY <1>2
<1>merged. e.merged = d.merged \ {g \in o.cells : \A l \in Layers : e.ref[l][g] = 0}
  BY <1>2
<1>3. /\ e.obstacles \in [Ids -> [layer : Layers \cup {"none"}, cells : SUBSET Cells]]
      /\ e.obstacles[id] = Absent
      /\ \A i \in Ids : i # id => e.obstacles[i] = d.obstacles[i]
  <2>1. Absent \in [layer : Layers \cup {"none"}, cells : SUBSET Cells]
    BY DEF Absent
  <2>2. d.obstacles \in [Ids -> [layer : Layers \cup {"none"}, cells : SUBSET Cells]]
    BY <1>1 DEF MapType
  <2>3. e.obstacles = obstacles
    BY <1>2
  <2> QED BY <2>1, <2>2, <2>3
<1>4. e.ref \in [Layers -> [Cells -> Nat]]
  <2>1. \A l \in Layers, g \in Cells : n(l, g) \in Nat
    BY <1>1
  <2> HIDE DEF n
  <2>2. \A l \in Layers, g \in Cells : e.ref[l][g] \in Nat
    BY <1>refs, <2>1
  <2>3. ASSUME NEW l \in Layers PROVE e.ref[l] \in [Cells -> Nat]
    <3>1. e.ref[l] = [g \in Cells |-> e.ref[l][g]]
      BY <1>2
    <3> QED BY <2>2, <3>1
  <2>4. e.ref = [l \in Layers |-> e.ref[l]]
    BY <1>2
  <2> QED BY <2>3, <2>4
<1>5. e.grid \in [Layers -> SUBSET Cells] /\ e.merged \in SUBSET Cells
  <2>1. d.grid \in [Layers -> SUBSET Cells] /\ d.merged \in SUBSET Cells
    BY <1>1 DEF MapType
  <2>2. \A l \in Layers : e.grid[l] \subseteq Cells
    BY <1>grids, <2>1
  <2> QED BY <1>grids, <1>merged, <2>1, <2>2
<1>6. e \in MapType
  BY <1>2, <1>3, <1>4, <1>5 DEF MapType
<1>7. \A i \in Ids : e.obstacles[i].layer = "none" => e.obstacles[i] = Absent
  BY <1>3 DEF MapInv
<1>8. ASSUME NEW l \in Layers, NEW g \in Cells
      PROVE  /\ e.ref[l][g] = Cardinality(Owners(e, l, g))
             /\ g \in e.grid[l] <=> Owners(e, l, g) # {}
  <2>1. Owners(e, l, g) = Owners(d, l, g) \ {id}
    BY <1>3 DEF Owners, Absent, Layers
  <2>2. Counted(d, l, g)
    BY DEF MapInv
  <2>3. CASE l = o.layer /\ g \in o.cells
    <3>1. id \in Owners(d, l, g)
      <4> HIDE DEF n
      <4> QED BY <2>3 DEF Owners
    <3>2. Cardinality(Owners(e, l, g)) = Cardinality(Owners(d, l, g)) - 1
      <4>1. IsFiniteSet(Owners(d, l, g))
        BY OwnersFinite
      <4>2. Cardinality(Owners(d, l, g) \ {id}) = Cardinality(Owners(d, l, g)) - 1
        BY <3>1, <4>1, FS_RemoveElement
      <4> QED BY <2>1, <4>2
    <3>3. e.ref[l][g] = d.ref[l][g] - 1 /\ d.ref[l][g] > 0
      <4>1. d.ref[l][g] > 0
        BY <2>2, <3>1, OwnersFinite DEF Counted
      <4>2. e.ref[l][g] = n(l, g)
        BY <1>refs
      <4> QED BY <2>3, <4>1, <4>2
    <3>4. e.ref[l][g] = Cardinality(Owners(e, l, g))
      BY <2>2, <3>2, <3>3 DEF Counted
    <3>5. g \in e.grid[l] <=> g \in d.grid[l] /\ e.ref[l][g] # 0
      <4>1. e.grid[l] = d.grid[l] \ {h \in o.cells : e.ref[l][h] = 0}
        BY <1>grids, <2>3
      <4> QED BY <2>3, <4>1
    <3> QED BY <2>2, <3>1, <3>4, <3>5, OwnersFinite DEF Counted
  <2>4. CASE ~(l = o.layer /\ g \in o.cells)
    <3>1. Owners(e, l, g) = Owners(d, l, g)
      BY <2>1, <2>4 DEF Owners
    <3>2. e.ref[l][g] = d.ref[l][g]
      <4>1. e.ref[l][g] = n(l, g)
        BY <1>refs
      <4> QED BY <2>4, <4>1
    <3>3. g \in e.grid[l] <=> g \in d.grid[l]
      <4>1. e.grid[l] = IF l = o.layer THEN d.grid[l] \ {h \in o.cells : e.ref[l][h] = 0} ELSE d.grid[l]
        BY <1>grids
      <4> QED BY <2>4, <4>1
    <3> QED BY <2>2, <3>1, <3>2, <3>3 DEF Counted
  <2> QED BY <2>3, <2>4
<1>9. ASSUME NEW g \in Cells
      PROVE  g \in e.merged <=> \E l \in Layers : g \in e.grid[l]
  <2>1. \A l \in Layers : g \in e.grid[l] <=> e.ref[l][g] # 0
    BY <1>8, OwnersFinite
  <2>2. g \in d.merged <=> \E l \in Layers : g \in d.grid[l]
    BY DEF MapInv
  <2>3. CASE g \in o.cells
    <3>1. g \in d.grid[o.layer]
      BY <1>1, <2>3 DEF MapInv, Counted, Owners
    <3>2. g \in e.merged <=> g \in d.merged /\ \E l \in Layers : e.ref[l][g] # 0
      BY <1>merged, <2>3
    <3> QED BY <1>1, <2>1, <2>2, <3>1, <3>2
  <2>4. CASE g \notin o.cells
    <3>1. \A l \in Layers : g \in e.grid[l] <=> g \in d.grid[l]
      <4>1. SUFFICES ASSUME NEW l \in Layers PROVE g \in e.grid[l] <=> g \in d.grid[l]
        OBVIOUS
      <4>2. e.grid[l] = IF l = o.layer THEN d.grid[l] \ {h \in o.cells : e.ref[l][h] = 0} ELSE d.grid[l]
        BY <1>grids
      <4> QED BY <2>4, <4>2
    <3>2. g \in e.merged <=> g \in d.merged
      BY <1>merged, <2>4
    <3> QED BY <2>2, <3>1, <3>2
  <2> QED BY <2>3, <2>4
<1> QED BY <1>3, <1>6, <1>7, <1>8, <1>9 DEF MapInv, Counted, e

LEMMA WithoutOldVersionInv ==
  ASSUME NEW d, MapInv(d), NEW id \in Ids
  PROVE  MapInv(WithoutOldVersion(d, id)) /\ WithoutOldVersion(d, id).obstacles[id] = Absent
BY RemoveInv DEF WithoutOldVersion

LEMMA InsertInv ==
  ASSUME NEW d, MapInv(d), NEW id \in Ids, NEW cells \in SUBSET Cells, NEW layer \in Layers
  PROVE  MapInv(Insert(d, id, cells, layer))
<1> DEFINE e == WithoutOldVersion(d, id)
           f == Insert(d, id, cells, layer)
           o == [layer |-> layer, cells |-> cells]
<1>1. MapInv(e) /\ e.obstacles[id] = Absent
  BY WithoutOldVersionInv
<1>2. /\ f.obstacles = [e.obstacles EXCEPT ![id] = o]
      /\ f.ref = [l \in Layers |-> [g \in Cells |->
                    IF l = layer /\ g \in cells THEN (e.ref[l][g] + 1) % RefLimit ELSE e.ref[l][g]]]
      /\ f.grid = [e.grid EXCEPT ![layer] = @ \cup cells]
      /\ f.merged = e.merged \cup cells
      /\ f = [obstacles |-> f.obstacles, ref |-> f.ref, grid |-> f.grid, merged |-> f.merged]
  BY DEF Insert
<1> HIDE DEF e, f
<1>3. e \in MapType /\ \A l \in Layers, g \in Cells : Counted(e, l, g)
  BY <1>1 DEF MapInv
<1>4. /\ f.obstacles \in [Ids -> [layer : Layers \cup {"none"}, cells : SUBSET Cells]]
      /\ f.obstacles[id] = o
      /\ \A i \in Ids : i # id => f.obstacles[i] = e.obstacles[i]
  <2>1. o \in [layer : Layers \cup {"none"}, cells : SUBSET Cells]
    OBVIOUS
  <2> HIDE DEF o
  <2> QED BY <1>2, <1>3, <2>1 DEF MapType
<1>5. f.grid \in [Layers -> SUBSET Cells] /\ f.merged \in SUBSET Cells
  BY <1>2, <1>3 DEF MapType
<1>6. \A i \in Ids : f.obstacles[i].layer = "none" => f.obstacles[i] = Absent
  BY <1>1, <1>4 DEF MapInv, Layers
<1>7. ASSUME NEW l \in Layers, NEW g \in Cells
      PROVE  /\ f.ref[l][g] = Cardinality(Owners(f, l, g)) /\ f.ref[l][g] \in Nat
             /\ g \in f.grid[l] <=> Owners(f, l, g) # {}
  <2>1. id \notin Owners(e, l, g)
    BY <1>1 DEF Owners, Absent, Layers
  <2>2. Counted(e, l, g)
    BY <1>3
  <2>3. CASE l = layer /\ g \in cells
    <3>1. Owners(f, l, g) = Owners(e, l, g) \cup {id}
      BY <1>4, <2>3 DEF Owners
    <3>2. Cardinality(Owners(f, l, g)) = Cardinality(Owners(e, l, g)) + 1
      BY <2>1, <3>1, OwnersFinite, FS_AddElement
    <3>3. f.ref[l][g] = (e.ref[l][g] + 1) % RefLimit
      BY <1>2, <2>3
    <3>4. Cardinality(Owners(f, l, g)) < RefLimit /\ Cardinality(Owners(f, l, g)) \in Nat
      BY OwnersFinite
    <3>5. f.ref[l][g] = Cardinality(Owners(f, l, g))
      BY <2>2, <3>2, <3>3, <3>4, GridAssumption DEF Counted
    <3>6. g \in f.grid[l]
      BY <1>2, <1>3, <2>3 DEF MapType
    <3> QED BY <3>1, <3>4, <3>5, <3>6
  <2>4. CASE ~(l = layer /\ g \in cells)
    <3>1. Owners(f, l, g) = Owners(e, l, g)
      BY <1>4, <2>1, <2>4 DEF Owners
    <3>2. f.ref[l][g] = e.ref[l][g] /\ (g \in f.grid[l] <=> g \in e.grid[l])
      BY <1>2, <1>3, <2>4 DEF MapType
    <3> QED BY <2>2, <3>1, <3>2, OwnersFinite DEF Counted
  <2> QED BY <2>3, <2>4
<1>8. f.ref \in [Layers -> [Cells -> Nat]]
  BY <1>2, <1>7
<1>9. f \in MapType
  BY <1>2, <1>4, <1>5, <1>8 DEF MapType
<1>10. \A g \in Cells : g \in f.merged <=> \E l \in Layers : g \in f.grid[l]
  BY <1>1, <1>2, <1>3 DEF MapInv, MapType
<1> QED BY <1>6, <1>7, <1>9, <1>10 DEF MapInv, Counted, f

LEMMA ClearLayerInv ==
  ASSUME NEW d, MapInv(d), NEW layer \in Layers
  PROVE  MapInv(ClearLayer(d, layer))
<1> DEFINE e == ClearLayer(d, layer)
<1>1. /\ e.obstacles = [i \in Ids |-> IF d.obstacles[i].layer = layer THEN Absent ELSE d.obstacles[i]]
      /\ e.ref = [d.ref EXCEPT ![layer] = [g \in Cells |-> 0]]
      /\ e.grid = [d.grid EXCEPT ![layer] = {}]
      /\ e.merged = e.grid["FIXED"] \cup e.grid["STATIC"] \cup e.grid["DYNAMIC"]
      /\ e = [obstacles |-> e.obstacles, ref |-> e.ref, grid |-> e.grid, merged |-> e.merged]
  BY DEF ClearLayer
<1> HIDE DEF e
<1>2. d \in MapType /\ \A l \in Layers, g \in Cells : Counted(d, l, g)
  BY DEF MapInv
<1>3. e.obstacles \in [Ids -> [layer : Layers \cup {"none"}, cells : SUBSET Cells]]
  <2>1. Absent \in [layer : Layers \cup {"none"}, cells : SUBSET Cells]
    BY DEF Absent
  <2> QED BY <1>1, <1>2, <2>1 DEF MapType
<1>4. /\ e.ref \in [Layers -> [Cells -> Nat]] /\ e.grid \in [Layers -> SUBSET Cells]
      /\ e.merged \in SUBSET Cells
  BY <1>1, <1>2 DEF MapType, Layers
<1>5. e \in MapType
  BY <1>1, <1>3, <1>4 DEF MapType
<1>6. \A i \in Ids : e.obstacles[i].layer = "none" => e.obstacles[i] = Absent
  BY <1>1 DEF MapInv
<1>7. ASSUME NEW l \in Layers, NEW g \in Cells
      PROVE  Counted(e, l, g)
  <2>1. CASE l = layer
    <3>1. Owners(e, l, g) = {}
      BY <1>1, <2>1 DEF Owners, Absent, Layers
    <3>2. e.ref[l][g] = 0 /\ g \notin e.grid[l]
      BY <1>1, <1>2, <2>1 DEF MapType
    <3> QED BY <3>1, <3>2, FS_EmptySet DEF Counted
  <2>2. CASE l # layer
    <3>1. Owners(e, l, g) = Owners(d, l, g)
      BY <1>1, <2>2 DEF Owners, Absent, Layers
    <3>2. e.ref[l][g] = d.ref[l][g] /\ e.grid[l] = d.grid[l]
      BY <1>1, <1>2, <2>2 DEF MapType
    <3> QED BY <1>2, <3>1, <3>2 DEF Counted
  <2> QED BY <2>1, <2>2
<1>8. \A g \in Cells : g \in e.merged <=> \E l \in Layers : g \in e.grid[l]
  BY <1>1 DEF Layers
<1> QED BY <1>5, <1>6, <1>7, <1>8 DEF MapInv, e

(* No shape occupies a cell outside the grid.                              *)
LEMMA RasterizedInGrid == \A s \in Shapes : Rasterized[s] \subseteq Cells
<1>1. \A c, r : RasterizeCircle(c, r) \subseteq Cells
  BY DEF RasterizeCircle
<1>2. \A vs, r : RasterizePolygon(vs, r) \subseteq Cells
  BY DEF RasterizePolygon
<1>3. \A p : RasterizePoint(p) \subseteq Cells
  BY <1>1 DEF RasterizePoint, InBounds
<1>4. \A a, b : RasterizeLine(a, b) \subseteq Cells
  BY <1>3 DEF RasterizeLine
<1>5. \A c, w, h, t : RasterizeRectangle(c, w, h, t) \subseteq Cells
  BY <1>2 DEF RasterizeRectangle
<1>6. \A s : Rasterize(s) \subseteq Cells
  BY <1>1, <1>2, <1>3, <1>4, <1>5 DEF Rasterize
<1> QED BY <1>6 DEF Rasterized

-----------------------------------------------------------------------------
(* The map.                                                                *)

GridInv == MapInv(map) /\ MapInv(draft)

LEMMA GridInitInv == Init => GridInv
BY EmptyMapInv DEF Init, GridInv

LEMMA GridStep == GridInv /\ [Next]_vars => GridInv'
<1> SUFFICES ASSUME GridInv, [Next]_vars PROVE GridInv'
  OBVIOUS
<1> USE DEF GridInv
<1>1. CASE UNCHANGED <<map, draft>>
  BY <1>1
<1>2. ASSUME NEW what \in {"update", "load"}, UpdateSnapshot(what)
      PROVE  GridInv'
  BY <1>2 DEF UpdateSnapshot
<1>3. CASE StoreSnapshot
  BY <1>3, EmptyMapInv DEF StoreSnapshot, Publish
<1>4. ASSUME NEW i \in Ids, NEW s \in Shapes, ApplyInsert(i, s)
      PROVE  GridInv'
  <2> DEFINE l == IF writer = "load" THEN "FIXED" ELSE "STATIC"
  <2>1. map' = map /\ draft' = Insert(draft, i, Rasterized[s], l)
    BY <1>4 DEF ApplyInsert
  <2>2. l \in Layers
    BY DEF Layers
  <2> HIDE DEF l
  <2> QED BY <2>1, <2>2, InsertInv, RasterizedInGrid
<1>5. ASSUME NEW i \in Ids, ApplyDelete(i) \/ RemoveObstacle(i)
      PROVE  GridInv'
  BY <1>5, WithoutOldVersionInv DEF ApplyDelete, RemoveObstacle, Publish
<1>6. ASSUME NEW i \in Ids, NEW s \in Shapes, NEW l \in ApiLayers, InsertObstacle(i, s, l)
      PROVE  GridInv'
  <2>1. draft' = draft /\ map' = Insert(map, i, Rasterized[s], l)
    BY <1>6 DEF InsertObstacle, Publish
  <2> QED BY <2>1, InsertInv, RasterizedInGrid, ApiAssumption
<1>7. ASSUME NEW l \in Layers, ClearOneLayer(l)
      PROVE  GridInv'
  BY <1>7, ClearLayerInv DEF ClearOneLayer, Publish
<1>8. CASE ResetBackend
  BY <1>8, EmptyMapInv DEF ResetBackend, Publish
<1>9. CASE (\E msg \in Messages : MatchScan(msg)) \/ CheckCorrespondence \/ BuildMatchResult
  <2>1. UNCHANGED <<map, draft>>
    BY <1>9 DEF MatchScan, CheckCorrespondence, BuildMatchResult
  <2> QED BY <2>1, <1>1
<1>10. CASE UNCHANGED vars
  BY <1>10, <1>1 DEF vars
<1> QED BY <1>2, <1>3, <1>4, <1>5, <1>6, <1>7, <1>8, <1>9, <1>10 DEF Next

(* In every snapshot, and in the writers' copy, a cell counts the obstacles *)
(* of each layer on it and is occupied when there are any.                 *)
THEOREM GridInvariant == Spec => []GridInv
BY GridInitInv, GridStep, PTL DEF Spec

(* The search around the robot finds the obstacles of the disc, and the    *)
(* coarser search all of these.                                            *)
LEMMA SearchFacts ==
  ASSUME MapInv(map)
  PROVE  LET found == FindObstaclesInSafetyCircle(map, Robot, Radius)
             disc == Disc(FloorCell(Robot), Radius)
         IN  /\ found = {i \in Ids : map.obstacles[i].cells \cap disc # {}}
             /\ RobotOnGrid => found \subseteq FindObstaclesNear(map, Robot, Radius)
<1> DEFINE disc == Disc(FloorCell(Robot), Radius)
           found == FindObstaclesInSafetyCircle(map, Robot, Radius)
<1>1. found = Touching(map, disc)
  BY DEF FindObstaclesInSafetyCircle
<1>2. ASSUME NEW i \in Ids, NEW g \in map.obstacles[i].cells
      PROVE  map.obstacles[i] # Absent /\ g \in map.merged
  <2>1. g \in Cells /\ map.obstacles[i].layer \in Layers \cup {"none"}
    BY DEF MapInv, MapType
  <2>2. map.obstacles[i] # Absent
    BY DEF Absent
  <2>3. map.obstacles[i].layer \in Layers
    BY <2>1, <2>2 DEF MapInv
  <2>4. g \in map.grid[map.obstacles[i].layer]
    BY <2>1, <2>3 DEF MapInv, Counted, Owners
  <2> QED BY <2>1, <2>2, <2>3, <2>4 DEF MapInv
<1>3. found = {i \in Ids : map.obstacles[i].cells \cap disc # {}}
  <2> HIDE DEF disc, found
  <2> QED BY <1>1, <1>2 DEF Touching
<1>4. ASSUME RobotOnGrid
      PROVE  found \subseteq FindObstaclesNear(map, Robot, Radius)
  <2>1. WorldToGrid(Robot, 1) = FloorCell(Robot)
    BY <1>4, GridAssumption DEF RobotOnGrid, WorldToGrid, FloorCell, Trunc
  <2>2. disc \subseteq Square(WorldToGrid(Robot, 1), Radius)
    BY <2>1 DEF Disc
  <2>3. FindObstaclesNear(map, Robot, Radius) = Touching(map, Square(WorldToGrid(Robot, 1), Radius))
    BY <1>4 DEF RobotOnGrid, FindObstaclesNear
  <2> HIDE DEF disc, found
  <2> QED BY <1>1, <2>2, <2>3 DEF Touching
<1> QED BY <1>3, <1>4

(* The grids match the obstacles (gridmap_policies.cpp, clearLayer): the   *)
(* count of a cell is the number of obstacles of the layer that cover it.  *)
THEOREM GridMatches == Spec => []GridMatchesObstacles
<1>1. GridInv => GridMatchesObstacles
  BY MapInvExact, SearchFacts DEF GridInv, GridMatchesObstacles
<1> QED BY GridInvariant, <1>1, PTL

-----------------------------------------------------------------------------
(* Scans.  What is free, or occupied, now and has not changed since the    *)
(* scan began was so whenever the scan looked.                             *)

Free == steady \ Occupied(map)
Taken == steady \cap Occupied(map)

Near(o) == {v \in DOMAIN o.vertices : WithinRadius(o.vertices[v])}
Cell(o, v) == WorldToGrid(o.vertices[v], 1)
Seen(o) == {WorldToGrid(Lookups(o)[n].p, Lookups(o)[n].k) : n \in DOMAIN Lookups(o)}

ScanType ==
  [msg : Messages \cup {<<>>}, phase : {"idle", "check", "build", "done"}, i : Nat \ {0}, n : Nat,
   alert : BOOLEAN, unmatched : SUBSET Nat, matched : SUBSET Nat]

(* Alerted(k): the k-th obstacle has raised the alert if it had to.        *)
Alerted(k) == ~scan.msg[k].robot /\ Seen(scan.msg[k]) \subseteq Free => scan.alert

CheckInv ==
  /\ scan.phase = "check" =>
       /\ scan.unmatched = {}
       /\ \A k \in DOMAIN scan.msg : k < scan.i => Alerted(k)
       /\ scan.i \in DOMAIN scan.msg => scan.n <= Len(Lookups(scan.msg[scan.i]))
  /\ scan.phase \in {"build", "done"} => \A k \in DOMAIN scan.msg : Alerted(k)

(* The vertices looked at so far are reported.                             *)
LookedAt(k) ==
  {v \in DOMAIN scan.msg[k].vertices :
     scan.phase = "done" \/ k < scan.i \/ (k = scan.i /\ v <= scan.n)}

BuildInv ==
  scan.phase \in {"build", "done"} =>
    \A k \in DOMAIN scan.msg :
      LET o == scan.msg[k]
      IN  /\ ~o.robot => \A v \in Near(o) \cap LookedAt(k) : Cell(o, v) \in Free => k \in scan.unmatched
          /\ k \in scan.unmatched => \E v \in Near(o) : Cell(o, v) \notin Taken

ScanInv == scan \in ScanType /\ CheckInv /\ BuildInv

-----------------------------------------------------------------------------
LEMMA TupleFacts ==
  ASSUME NEW s, IsSeq(s)
  PROVE  Len(s) \in Nat /\ DOMAIN s = 1..Len(s)
BY DEF IsSeq

LEMMA MessageFacts ==
  ASSUME scan \in ScanType
  PROVE  /\ Len(scan.msg) \in Nat /\ DOMAIN scan.msg = 1..Len(scan.msg)
         /\ \A k \in DOMAIN scan.msg :
              /\ IsSeq(scan.msg[k].vertices) /\ scan.msg[k].robot \in BOOLEAN
              /\ Len(scan.msg[k].vertices) \in Nat
              /\ DOMAIN scan.msg[k].vertices = 1..Len(scan.msg[k].vertices)
<1>1. CASE scan.msg = <<>>
  BY <1>1
<1>2. CASE scan.msg \in Messages
  BY <1>2, ScanAssumption, TupleFacts
<1> QED BY <1>1, <1>2 DEF ScanType

(* The look-ups of an obstacle are numbered from one.                      *)
LEMMA LookupsFacts ==
  ASSUME NEW o, IsSeq(o.vertices)
  PROVE  Len(Lookups(o)) \in Nat /\ DOMAIN Lookups(o) = 1..Len(Lookups(o))
<1> DEFINE vs == o.vertices
           inner == EdgeSamples - 1
<1>1. CASE o.type = "LINE"
  <2>1. Lookups(o) = [n \in 1..Samples + 1 |-> Between(vs[1], vs[2], n - 1, Samples)]
    BY <1>1 DEF Lookups
  <2> QED BY <2>1, GridAssumption
<1>2. CASE o.type = "CIRCLE"
  <2>1. Lookups(o) = [n \in DOMAIN Rim |-> At(<<o.position[1] + o.radius * Rim[n][1],
                                                o.position[2] + o.radius * Rim[n][2]>>)]
    BY <1>2 DEF Lookups
  <2>2. Len(Rim) \in Nat /\ DOMAIN Rim = 1..Len(Rim)
    BY ScanAssumption, TupleFacts
  <2> QED BY <2>1, <2>2
<1>3. CASE o.type = "POLYGON"
  <2> DEFINE ends == [n \in DOMAIN vs |-> At(vs[n])]
             edges == [n \in 1..Len(vs) * inner |->
                         LET e == (n - 1) \div inner
                         IN  Between(vs[e + 1], vs[((e + 1) % Len(vs)) + 1], n - e * inner, EdgeSamples)]
             S == {ends[n] : n \in DOMAIN ends} \cup {edges[n] : n \in DOMAIN edges}
  <2>1. Lookups(o) = ends \o edges
    BY <1>3 DEF Lookups
  <2>2. Len(vs) \in Nat /\ DOMAIN vs = 1..Len(vs) /\ inner \in Nat /\ Len(vs) * inner \in Nat
    <3>1. Len(vs) \in Nat /\ DOMAIN vs = 1..Len(vs)
      BY TupleFacts
    <3>2. inner \in Nat
      BY GridAssumption
    <3>3. \A a, b \in Nat : a * b \in Nat
      OBVIOUS
    <3> HIDE DEF inner
    <3> QED BY <3>1, <3>2, <3>3
  <2>3. ends \in [1..Len(vs) -> S] /\ edges \in [1..Len(vs) * inner -> S]
    BY <2>2
  <2> HIDE DEF ends, edges, S
  <2>4. ends \in Seq(S) /\ edges \in Seq(S)
    BY <2>2, <2>3, SeqDef
  <2>5. ends \o edges \in Seq(S)
    BY <2>4, ConcatProperties
  <2> QED BY <2>1, <2>5, LenProperties
<1>4. CASE o.type \notin {"LINE", "CIRCLE", "POLYGON"}
  <2>1. Lookups(o) = << At(o.position) >>
    BY <1>4 DEF Lookups
  <2> QED BY <2>1
<1> QED BY <1>1, <1>2, <1>3, <1>4

LEMMA ScanInitInv == Init => ScanInv
BY DEF Init, NoScan, ScanInv, ScanType, CheckInv, BuildInv

(* A change of the map leaves fewer cells free, or taken, and steady.      *)
LEMMA FewerSteady ==
  ASSUME ScanInv, scan' = scan, Free' \subseteq Free, Taken' \subseteq Taken
  PROVE  ScanInv'
<1>1. \A k : LookedAt(k)' = LookedAt(k)
  BY DEF LookedAt
<1>2. \A o : /\ Seen(o)' = Seen(o) /\ Near(o)' = Near(o)
             /\ \A v : Cell(o, v)' = Cell(o, v)
  BY DEF Seen, Near, Cell
<1>3. \A k : Alerted(k) => Alerted(k)'
  BY <1>2 DEF Alerted, Seen
<1>4. CheckInv'
  BY <1>3 DEF ScanInv, CheckInv
<1>5. BuildInv'
  BY <1>1 DEF ScanInv, BuildInv, Near, Cell
<1> QED BY <1>4, <1>5 DEF ScanInv

LEMMA PublishKeeps ==
  ASSUME ScanInv, NEW d, Publish(d)
  PROVE  ScanInv'
<1>1. Free' \subseteq Free /\ Taken' \subseteq Taken
  BY DEF Publish, Free, Taken, Occupied
<1> QED BY <1>1, FewerSteady DEF Publish

(* What the steps make of the scan.                                        *)
LEMMA AdvanceFacts ==
  ASSUME NEW s \in ScanType
  PROVE  /\ Advance(s) \in ScanType /\ [Advance(s) EXCEPT !.alert = TRUE] \in ScanType
         /\ Advance(s).msg = s.msg /\ Advance(s).phase = s.phase /\ Advance(s).alert = s.alert
         /\ Advance(s).unmatched = s.unmatched /\ Advance(s).i = s.i + 1 /\ Advance(s).n = 0
<1>1. /\ Advance(s) = [s EXCEPT !.i = s.i + 1, !.n = 0]
      /\ s.i + 1 \in Nat \ {0} /\ 0 \in Nat /\ TRUE \in BOOLEAN
  BY DEF Advance, ScanType
<1>2. /\ Advance(s).msg = s.msg /\ Advance(s).phase = s.phase /\ Advance(s).alert = s.alert
      /\ Advance(s).unmatched = s.unmatched /\ Advance(s).i = s.i + 1 /\ Advance(s).n = 0
  BY <1>1 DEF ScanType
<1>3. Advance(s) \in ScanType
  BY <1>1 DEF ScanType
<1> HIDE DEF Advance
<1>4. [Advance(s) EXCEPT !.alert = TRUE] \in ScanType
  BY <1>1, <1>3 DEF ScanType
<1> QED BY <1>2, <1>3, <1>4

LEMMA AlertFacts ==
  ASSUME NEW s \in ScanType
  PROVE  LET t == [s EXCEPT !.alert = TRUE]
         IN  /\ t.msg = s.msg /\ t.phase = s.phase /\ t.alert = TRUE
             /\ t.unmatched = s.unmatched /\ t.i = s.i /\ t.n = s.n
BY DEF ScanType

LEMMA PhaseFacts ==
  ASSUME NEW p \in {"build", "done"}, scan \in ScanType
  PROVE  /\ Next1(p) \in ScanType
         /\ Next1(p).msg = scan.msg /\ Next1(p).phase = p /\ Next1(p).alert = scan.alert
         /\ Next1(p).unmatched = scan.unmatched /\ Next1(p).matched = scan.matched
         /\ Next1(p).i = 1 /\ Next1(p).n = 0
<1>1. 1 \in Nat \ {0} /\ 0 \in Nat /\ p \in {"idle", "check", "build", "done"}
  OBVIOUS
<1>2. Next1(p) \in ScanType
  BY <1>1 DEF Next1, ScanType
<1> QED BY <1>2 DEF Next1, ScanType

LEMMA MatchScanKeeps ==
  ASSUME NEW msg \in Messages, MatchScan(msg)
  PROVE  ScanInv'
<1>1. scan' = [NoScan EXCEPT !.msg = msg, !.phase = "check"]
  BY DEF MatchScan
<1>2. /\ scan'.msg = msg /\ scan'.phase = "check" /\ scan'.i = 1 /\ scan'.n = 0
      /\ scan'.unmatched = {} /\ scan' \in ScanType
  <2>1. scan' = [msg |-> msg, phase |-> "check", i |-> 1, n |-> 0,
                 alert |-> FALSE, unmatched |-> {}, matched |-> {}]
    BY <1>1 DEF NoScan
  <2>2. scan' \in ScanType
    BY <2>1 DEF ScanType
  <2> QED BY <2>1, <2>2
<1>3. BuildInv'
  BY <1>2 DEF BuildInv
<1>4. CheckInv'
  <2>1. DOMAIN msg = 1..Len(msg) /\ Len(msg) \in Nat
    BY ScanAssumption, TupleFacts
  <2>2. \A k \in DOMAIN msg : ~(k < 1) /\ 0 <= Len(Lookups(msg[k]))
    BY <2>1, ScanAssumption, LookupsFacts
  <2> QED BY <1>2, <2>2 DEF CheckInv
<1> QED BY <1>2, <1>3, <1>4 DEF ScanInv

(* One obstacle after the other is decided.                                *)
LEMMA CheckCorrespondenceKeeps ==
  ASSUME ScanInv, CheckCorrespondence
  PROVE  ScanInv'
<1> DEFINE o == scan.msg[scan.i]
<1>1. /\ scan \in ScanType /\ scan.phase = "check" /\ scan.unmatched = {}
      /\ \A k \in DOMAIN scan.msg : k < scan.i => Alerted(k)
      /\ scan.i \in DOMAIN scan.msg => scan.n <= Len(Lookups(o))
      /\ Free' = Free /\ map' = map /\ steady' = steady
  BY DEF ScanInv, CheckInv, CheckCorrespondence, Free, Occupied
<1>2. /\ Len(scan.msg) \in Nat /\ DOMAIN scan.msg = 1..Len(scan.msg)
      /\ \A k \in DOMAIN scan.msg : IsSeq(scan.msg[k].vertices) /\ scan.msg[k].robot \in BOOLEAN
  BY <1>1, MessageFacts
<1>3. scan.i \in Nat \ {0} /\ scan.n \in Nat
  BY <1>1 DEF ScanType
<1>4. ASSUME scan'.msg = scan.msg, scan.alert => scan'.alert, NEW k, Alerted(k)
      PROVE  Alerted(k)'
  BY <1>1, <1>4 DEF Alerted, Seen
<1>5. CASE scan.i > Len(scan.msg)
  <2>1. scan' = Next1("build")
    BY <1>5 DEF CheckCorrespondence
  <2>2. /\ scan'.phase = "build" /\ scan'.unmatched = {} /\ scan'.n = 0 /\ scan'.i = 1
        /\ scan'.msg = scan.msg /\ scan'.alert = scan.alert /\ scan' \in ScanType
    BY <1>1, <2>1, PhaseFacts
  <2>3. CheckInv'
    BY <1>1, <1>2, <1>3, <1>4, <1>5, <2>2 DEF CheckInv
  <2>4. ASSUME NEW k \in DOMAIN scan'.msg
        PROVE  LookedAt(k)' = {}
    BY <1>1, <1>2, <2>2, MessageFacts DEF LookedAt
  <2>5. BuildInv'
    BY <2>2, <2>4 DEF BuildInv
  <2> QED BY <2>2, <2>3, <2>5 DEF ScanInv
<1>6. CASE scan.i <= Len(scan.msg)
  <2>1. scan.i \in DOMAIN scan.msg /\ o.robot \in BOOLEAN /\ IsSeq(o.vertices)
    BY <1>2, <1>3, <1>6
  <2>2. Len(Lookups(o)) \in Nat /\ DOMAIN Lookups(o) = 1..Len(Lookups(o))
    BY <2>1, LookupsFacts
  <2>3. scan' = CASE o.robot -> Advance(scan)
                  [] ~o.robot /\ ~InSafetyCircle(o) -> [Advance(scan) EXCEPT !.alert = TRUE]
                  [] ~o.robot /\ InSafetyCircle(o) ->
                       IF scan.n = Len(Lookups(o)) THEN [Advance(scan) EXCEPT !.alert = TRUE]
                       ELSE IF IsOccupied(Lookups(o)[scan.n + 1]) THEN Advance(scan)
                       ELSE [scan EXCEPT !.n = @ + 1]
    BY <1>2, <1>3, <1>6 DEF CheckCorrespondence
  <2>4. \/ scan' = Advance(scan) /\ (o.robot \/ (scan.n # Len(Lookups(o)) /\ IsOccupied(Lookups(o)[scan.n + 1])))
        \/ scan' = [Advance(scan) EXCEPT !.alert = TRUE]
        \/ scan' = [scan EXCEPT !.n = @ + 1] /\ scan.n # Len(Lookups(o))
    BY <2>1, <2>3
  <2>5. CASE scan' = [scan EXCEPT !.n = @ + 1] /\ scan.n # Len(Lookups(o))
    <3>1. /\ scan'.phase = "check" /\ scan'.unmatched = {} /\ scan'.n = scan.n + 1 /\ scan'.i = scan.i
          /\ scan'.msg = scan.msg /\ scan'.alert = scan.alert /\ scan' \in ScanType
      BY <1>1, <1>3, <2>5 DEF ScanType
    <3>2. CheckInv'
      BY <1>1, <1>3, <1>4, <2>1, <2>2, <2>5, <3>1 DEF CheckInv
    <3> QED BY <3>1, <3>2 DEF ScanInv, BuildInv
  <2>6. ASSUME scan' = Advance(scan) \/ scan' = [Advance(scan) EXCEPT !.alert = TRUE],
               \A k : k = scan.i => Alerted(k)'
        PROVE  ScanInv'
    <3>1. /\ scan'.phase = "check" /\ scan'.unmatched = {} /\ scan'.n = 0 /\ scan'.i = scan.i + 1
          /\ scan'.msg = scan.msg /\ (scan.alert => scan'.alert) /\ scan' \in ScanType
      <4>1. scan \in ScanType /\ Advance(scan) \in ScanType
        BY <1>1, AdvanceFacts
      <4>2. CASE scan' = Advance(scan)
        BY <1>1, <4>1, <4>2, AdvanceFacts
      <4>3. CASE scan' = [Advance(scan) EXCEPT !.alert = TRUE]
        BY <1>1, <4>1, <4>3, AdvanceFacts, AlertFacts
      <4> QED BY <2>6, <4>2, <4>3
    <3>2. ASSUME NEW k \in DOMAIN scan'.msg, k < scan'.i
          PROVE  Alerted(k)'
      <4>1. k \in DOMAIN scan.msg /\ (k < scan.i \/ k = scan.i)
        BY <1>2, <1>3, <3>1, <3>2
      <4>2. CASE k < scan.i
        <5>1. Alerted(k)
          BY <1>1, <4>1, <4>2
        <5> QED BY <1>4, <3>1, <5>1
      <4>3. CASE k = scan.i
        BY <2>6, <4>3
      <4> QED BY <4>1, <4>2, <4>3
    <3>3. scan'.i \in DOMAIN scan'.msg => 0 <= Len(Lookups(scan'.msg[scan'.i]))
      BY <1>2, <3>1, LookupsFacts
    <3>4. CheckInv'
      BY <3>1, <3>2, <3>3 DEF CheckInv
    <3> QED BY <3>1, <3>4 DEF ScanInv, BuildInv
  <2>7. CASE scan' = [Advance(scan) EXCEPT !.alert = TRUE]
    <3>1. scan'.alert
      BY <1>1, <2>7, AdvanceFacts, AlertFacts
    <3> QED BY <2>6, <2>7, <3>1 DEF Alerted
  <2>8. CASE /\ scan' = Advance(scan)
             /\ o.robot \/ (scan.n # Len(Lookups(o)) /\ IsOccupied(Lookups(o)[scan.n + 1]))
    <3>1. scan'.msg = scan.msg
      BY <1>1, <2>8, AdvanceFacts
    <3>2. CASE o.robot
      BY <2>6, <2>8, <3>1, <3>2 DEF Alerted
    <3>3. CASE scan.n # Len(Lookups(o)) /\ IsOccupied(Lookups(o)[scan.n + 1])
      <4>1. scan.n + 1 \in DOMAIN Lookups(o)
        BY <1>1, <1>3, <2>1, <2>2, <3>3
      <4>2. WorldToGrid(Lookups(o)[scan.n + 1].p, Lookups(o)[scan.n + 1].k) \in Seen(o) \ Free
        BY <3>3, <4>1 DEF Seen, Free, IsOccupied
      <4>3. ~(Seen(o) \subseteq Free)
        BY <4>2
      <4>4. \A k : k = scan.i => Alerted(k)'
        BY <1>1, <3>1, <4>3 DEF Alerted, Seen
      <4> QED BY <2>6, <2>8, <4>4
    <3> QED BY <2>8, <3>2, <3>3
  <2> QED BY <2>4, <2>5, <2>7, <2>8
<1> QED BY <1>2, <1>3, <1>5, <1>6

(* One vertex after the other is reported.  A step that goes on looks at   *)
(* one more, or at nothing that counts.                                    *)
LEMMA BuildStep ==
  ASSUME ScanInv, scan.phase = "build", scan'.phase \in {"build", "done"}, scan' \in ScanType,
         scan'.msg = scan.msg, scan'.alert = scan.alert,
         map' = map, steady' = steady,
         scan.unmatched \subseteq scan'.unmatched,
         \A k \in DOMAIN scan.msg :
           /\ k \in scan'.unmatched \ scan.unmatched => \E v \in Near(scan.msg[k]) : Cell(scan.msg[k], v) \notin Taken
           /\ ~scan.msg[k].robot =>
                \A v \in (Near(scan.msg[k]) \cap LookedAt(k)') \ LookedAt(k) :
                  Cell(scan.msg[k], v) \in Free => k \in scan'.unmatched
  PROVE  ScanInv'
<1>1. \A o, v : Cell(o, v)' = Cell(o, v) /\ Near(o)' = Near(o)
  BY DEF Cell, Near
<1>2. Free' = Free /\ Taken' = Taken
  BY DEF Free, Taken, Occupied
<1>3. CheckInv'
  <2>1. \A k \in DOMAIN scan.msg : Alerted(k)
    BY DEF ScanInv, CheckInv
  <2>2. \A k : Alerted(k) => Alerted(k)'
    BY <1>2 DEF Alerted, Seen
  <2> QED BY <2>1, <2>2 DEF CheckInv
<1>4. BuildInv'
  <2> SUFFICES ASSUME NEW k \in DOMAIN scan.msg
               PROVE  LET o == scan.msg[k]
                      IN  /\ ~o.robot => \A v \in Near(o) \cap LookedAt(k)' : Cell(o, v) \in Free => k \in scan'.unmatched
                          /\ k \in scan'.unmatched => \E v \in Near(o) : Cell(o, v) \notin Taken
    BY <1>1, <1>2 DEF BuildInv
  <2>1. LET o == scan.msg[k]
        IN  /\ ~o.robot => \A v \in Near(o) \cap LookedAt(k) : Cell(o, v) \in Free => k \in scan.unmatched
            /\ k \in scan.unmatched => \E v \in Near(o) : Cell(o, v) \notin Taken
    BY DEF ScanInv, BuildInv
  <2> QED BY <2>1
<1> QED BY <1>3, <1>4 DEF ScanInv

LEMMA BuildMatchResultKeeps ==
  ASSUME ScanInv, BuildMatchResult
  PROVE  ScanInv'
<1> DEFINE o == scan.msg[scan.i]
           v == o.vertices[scan.n + 1]
           more == [scan EXCEPT !.n = @ + 1]
<1>1. scan \in ScanType /\ scan.phase = "build" /\ map' = map /\ steady' = steady
  BY DEF ScanInv, BuildMatchResult
<1>2. /\ Len(scan.msg) \in Nat /\ DOMAIN scan.msg = 1..Len(scan.msg)
      /\ \A k \in DOMAIN scan.msg :
           /\ scan.msg[k].robot \in BOOLEAN /\ Len(scan.msg[k].vertices) \in Nat
           /\ DOMAIN scan.msg[k].vertices = 1..Len(scan.msg[k].vertices)
  BY <1>1, MessageFacts
<1>3. scan.i \in Nat \ {0} /\ scan.n \in Nat
  BY <1>1 DEF ScanType
<1>4. CASE scan.i > Len(scan.msg)
  <2>1. /\ Next1("done") \in ScanType /\ Next1("done").msg = scan.msg /\ Next1("done").phase = "done"
        /\ Next1("done").alert = scan.alert /\ Next1("done").unmatched = scan.unmatched
    BY <1>1, PhaseFacts
  <2>2. scan' = [Next1("done") EXCEPT !.matched = Next1("done").matched \ Next1("done").unmatched]
    BY <1>4 DEF BuildMatchResult, Classified
  <2>3. /\ scan' \in ScanType /\ scan'.msg = scan.msg /\ scan'.phase = "done"
        /\ scan'.alert = scan.alert /\ scan'.unmatched = scan.unmatched
    <3> HIDE DEF Next1
    <3> QED BY <2>1, <2>2 DEF ScanType
  <2>4. \A k \in DOMAIN scan.msg : LookedAt(k)' = LookedAt(k)
    BY <1>2, <1>3, <1>4, <2>3 DEF LookedAt
  <2> QED BY <1>1, <2>3, <2>4, BuildStep
<1>5. CASE scan.i <= Len(scan.msg) /\ (o.robot \/ scan.n >= Len(o.vertices))
  <2>1. scan' = Advance(scan)
    BY <1>2, <1>3, <1>5 DEF BuildMatchResult
  <2>2. /\ scan' \in ScanType /\ scan'.msg = scan.msg /\ scan'.phase = "build" /\ scan'.i = scan.i + 1
        /\ scan'.alert = scan.alert /\ scan'.unmatched = scan.unmatched /\ scan'.n = 0
    BY <1>1, <2>1, AdvanceFacts
  <2>3. ASSUME NEW k \in DOMAIN scan.msg, ~scan.msg[k].robot
        PROVE  LookedAt(k)' \subseteq LookedAt(k)
    <3> SUFFICES ASSUME NEW w \in LookedAt(k)' PROVE w \in LookedAt(k)
      OBVIOUS
    <3>1. w \in 1..Len(scan.msg[k].vertices) /\ (k < scan.i + 1 \/ (k = scan.i + 1 /\ w <= 0))
      BY <1>2, <2>2 DEF LookedAt
    <3>2. k < scan.i \/ k = scan.i
      BY <1>2, <1>3, <3>1
    <3>3. CASE k = scan.i
      <4>1. w \in DOMAIN scan.msg[k].vertices
        BY <3>1, <1>2
      <4>2. ~o.robot
        BY <2>3, <3>3
      <4>3. scan.n >= Len(scan.msg[k].vertices) /\ w <= Len(scan.msg[k].vertices)
        BY <1>5, <3>1, <3>3, <4>2
      <4>4. w <= scan.n
        <5>1. w \in Nat /\ scan.n \in Nat /\ Len(scan.msg[k].vertices) \in Nat
          BY <1>1, <1>2, <3>1 DEF ScanType
        <5> QED BY <4>3, <5>1
      <4> QED BY <3>3, <4>1, <4>4 DEF LookedAt
    <3>4. CASE k < scan.i
      <4>1. w \in DOMAIN scan.msg[k].vertices
        BY <3>1, <1>2
      <4> QED BY <3>4, <4>1 DEF LookedAt
    <3> QED BY <3>2, <3>3, <3>4
  <2> QED BY <1>1, <2>2, <2>3, BuildStep
<1>6. CASE scan.i <= Len(scan.msg) /\ ~(o.robot \/ scan.n >= Len(o.vertices))
  <2>1. scan.i \in DOMAIN scan.msg /\ scan.n + 1 \in DOMAIN o.vertices
    BY <1>2, <1>3, <1>6
  <2>2. scan' = IF ~WithinRadius(v) THEN more
                ELSE IF IsOccupied(At(v)) THEN [more EXCEPT !.matched = @ \cup {scan.i}]
                ELSE [more EXCEPT !.unmatched = @ \cup {scan.i}]
    BY <1>2, <1>3, <1>6 DEF BuildMatchResult
  <2>3. /\ more \in ScanType /\ more.msg = scan.msg /\ more.phase = "build" /\ more.i = scan.i
        /\ more.alert = scan.alert /\ more.unmatched = scan.unmatched /\ more.n = scan.n + 1
    <3>1. scan.n + 1 \in Nat
      BY <1>3
    <3> QED BY <1>1, <3>1 DEF ScanType
  <2> HIDE DEF more
  <2>4. IsOccupied(At(v)) <=> Cell(o, scan.n + 1) \in Occupied(map)
    BY DEF IsOccupied, At, Cell
  <2>5. ASSUME scan' \in ScanType, scan'.msg = scan.msg, scan'.phase = "build", scan'.i = scan.i,
               scan'.n = scan.n + 1, NEW k \in DOMAIN scan.msg,
               NEW w \in LookedAt(k)' \ LookedAt(k)
        PROVE  k = scan.i /\ w = scan.n + 1
    BY <1>2, <1>3, <2>5 DEF LookedAt
  <2>6. CASE ~WithinRadius(v)
    <3>1. scan' = more
      BY <2>2, <2>6
    <3>2. scan.n + 1 \notin Near(o)
      BY <2>6 DEF Near
    <3> QED BY <1>1, <2>3, <2>5, <3>1, <3>2, BuildStep
  <2>7. CASE WithinRadius(v) /\ IsOccupied(At(v))
    <3>1. scan' = [more EXCEPT !.matched = @ \cup {scan.i}]
      BY <2>2, <2>7
    <3>2. /\ scan' \in ScanType /\ scan'.msg = scan.msg /\ scan'.phase = "build" /\ scan'.i = scan.i
          /\ scan'.alert = scan.alert /\ scan'.unmatched = scan.unmatched /\ scan'.n = scan.n + 1
      <4>1. more.matched \cup {scan.i} \in SUBSET Nat
        BY <1>3, <2>3 DEF ScanType
      <4> QED BY <2>3, <3>1, <4>1 DEF ScanType
    <3>3. Cell(o, scan.n + 1) \notin Free
      BY <2>4, <2>7 DEF Free
    <3> QED BY <1>1, <2>5, <3>2, <3>3, BuildStep
  <2>8. CASE WithinRadius(v) /\ ~IsOccupied(At(v))
    <3>1. scan' = [more EXCEPT !.unmatched = @ \cup {scan.i}]
      BY <2>2, <2>8
    <3>2. /\ scan' \in ScanType /\ scan'.msg = scan.msg /\ scan'.phase = "build" /\ scan'.i = scan.i
          /\ scan'.alert = scan.alert /\ scan'.n = scan.n + 1
          /\ scan'.unmatched = scan.unmatched \cup {scan.i}
      <4>1. more.unmatched \cup {scan.i} \in SUBSET Nat
        BY <1>3, <2>3 DEF ScanType
      <4> QED BY <2>3, <3>1, <4>1 DEF ScanType
    <3>3. scan.n + 1 \in Near(o) /\ Cell(o, scan.n + 1) \notin Taken
      BY <2>1, <2>4, <2>8 DEF Near, Taken
    <3> QED BY <1>1, <2>5, <3>2, <3>3, BuildStep
  <2> QED BY <2>6, <2>7, <2>8
<1> QED BY <1>2, <1>3, <1>4, <1>5, <1>6

LEMMA ScanStep == ScanInv /\ [Next]_vars => ScanInv'
<1> SUFFICES ASSUME ScanInv, [Next]_vars PROVE ScanInv'
  OBVIOUS
<1>1. ASSUME UNCHANGED <<map, scan, steady>>
      PROVE  ScanInv'
  BY <1>1, FewerSteady DEF Free, Taken, Occupied
<1>2. ASSUME NEW d, Publish(d)
      PROVE  ScanInv'
  BY <1>2, PublishKeeps
<1>3. CASE \/ \E what \in {"update", "load"} : UpdateSnapshot(what)
           \/ \E i \in Ids, s \in Shapes : ApplyInsert(i, s)
           \/ \E i \in Ids : ApplyDelete(i)
           \/ UNCHANGED vars
  BY <1>1, <1>3 DEF UpdateSnapshot, ApplyInsert, ApplyDelete, vars
<1>4. CASE \/ StoreSnapshot \/ ResetBackend
           \/ \E i \in Ids : RemoveObstacle(i)
           \/ \E i \in Ids, s \in Shapes, l \in ApiLayers : InsertObstacle(i, s, l)
           \/ \E l \in Layers : ClearOneLayer(l)
  BY <1>2, <1>4 DEF StoreSnapshot, ResetBackend, RemoveObstacle, InsertObstacle, ClearOneLayer
<1>5. CASE (\E msg \in Messages : MatchScan(msg)) \/ CheckCorrespondence \/ BuildMatchResult
  BY <1>5, MatchScanKeeps, CheckCorrespondenceKeeps, BuildMatchResultKeeps
<1> QED BY <1>3, <1>4, <1>5 DEF Next

(* What a scan has reported so far is right on the cells that have not     *)
(* changed since it began.                                                 *)
THEOREM ScanInvariant == Spec => []ScanInv
BY ScanInitInv, ScanStep, PTL DEF Spec

(* A scan reports right on the cells that do not change while it runs,     *)
(* however many snapshots are published meanwhile (matchScan).             *)
THEOREM SteadyReported == Spec => []SteadyCellsReported
<1>1. ASSUME ScanInv PROVE SteadyCellsReported
  <2> SUFFICES ASSUME scan.phase = "done", NEW k \in DOMAIN scan.msg, ~scan.msg[k].robot
               PROVE  LET o == scan.msg[k]
                      IN  /\ (\E v \in Near(o) : Cell(o, v) \in Free) => k \in scan.unmatched
                          /\ (\A v \in Near(o) : Cell(o, v) \in Taken) => k \notin scan.unmatched
                          /\ Seen(o) \subseteq Free => scan.alert
    BY DEF SteadyCellsReported, Near, Cell, Seen, Free, Taken
  <2>1. LookedAt(k) = DOMAIN scan.msg[k].vertices
    BY DEF LookedAt
  <2>2. Near(scan.msg[k]) \subseteq LookedAt(k)
    BY <2>1 DEF Near
  <2> QED BY <1>1, <2>2 DEF ScanInv, BuildInv, CheckInv, Alerted
<1> QED BY ScanInvariant, <1>1, PTL
=============================================================================
