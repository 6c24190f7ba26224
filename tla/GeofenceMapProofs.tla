-------------------------- MODULE GeofenceMapProofs --------------------------
(***************************************************************************)
(* The snapshots of the map keep their parts in step and their queries     *)
(* miss nothing; so what validate_path accepts is clear of obstacles and   *)
(* of locked areas (second half), on a grid of any size and after any      *)
(* sequence of operations on the map.                                      *)
(***************************************************************************)
EXTENDS PathSafety, TLAPS, WellFoundedInduction

-----------------------------------------------------------------------------
(* Arithmetic.                                                             *)

(* A bounded non-empty set of natural numbers has a largest element: the   *)
(* recomputation of max_half_diag_ has a value.                            *)
LEMMA LargestExists ==
  ASSUME NEW N \in Nat, NEW S \in SUBSET (0..N), S # {}
  PROVE  \E m \in S : \A e \in S : e <= m
<1> DEFINE T == {N - s : s \in S}
<1>0. PICK s0 \in S : TRUE
  OBVIOUS
<1>1. T \subseteq Nat /\ T # {}
  <2>1. \A s \in S : N - s \in Nat
    OBVIOUS
  <2>2. N - s0 \in T
    BY <1>0
  <2> QED BY <2>1, <2>2
<1>2. PICK x \in T : \A y \in T : ~(<<y, x>> \in OpToRel(<, Nat))
  BY <1>1, NatLessThanWellFounded, WFMin
<1>3. \A y \in T : ~(y < x)
  BY <1>1, <1>2 DEF OpToRel
<1>4. PICK m \in S : x = N - m
  OBVIOUS
<1>5. \A e \in S : e <= m
  <2> SUFFICES ASSUME NEW e \in S PROVE e <= m
    OBVIOUS
  <2>1. N - e \in T
    OBVIOUS
  <2>2. ~(N - e < N - m)
    BY <1>3, <1>4, <2>1
  <2> QED BY <2>2
<1> QED BY <1>5

(* Squares grow with their roots.                                          *)
LEMMA SquareMonotone ==
  ASSUME NEW a \in Nat, NEW b \in Nat, a <= b
  PROVE  a * a \in Nat /\ b * b \in Nat /\ a * a <= b * b
OBVIOUS

(* The diagonal of a box of the grid.                                      *)
LEMMA DiagBound ==
  ASSUME NEW b \in Boxes
  PROVE  Diag2(b) \in Nat /\ Diag2(b) <= MaxX * MaxX + MaxY * MaxY
<1> DEFINE w == b.x1 - b.x0  h == b.y1 - b.y0
<1>1. w \in Nat /\ h \in Nat /\ w <= MaxX /\ h <= MaxY
  BY MapAssumption DEF Boxes
<1>2. w * w \in Nat /\ MaxX * MaxX \in Nat /\ w * w <= MaxX * MaxX
  BY <1>1, SquareMonotone, MapAssumption
<1>3. h * h \in Nat /\ MaxY * MaxY \in Nat /\ h * h <= MaxY * MaxY
  BY <1>1, SquareMonotone, MapAssumption
<1>4. Diag2(b) = w * w + h * h
  BY DEF Diag2
<1> HIDE DEF w, h
<1> QED BY <1>2, <1>3, <1>4

-----------------------------------------------------------------------------
(* The index.  What every operation on it needs and keeps.                 *)

Position == Nat
Tables(ids, values) == UNION {[D -> values] : D \in SUBSET ids}
Indexes(ids) ==
  [points : Seq(Entries(ids)), index : Tables(ids, Position), maxDiag2 : Nat]

(* Every entry of the id table is a position, and no point is larger than  *)
(* the cached maximum.                                                     *)
Sound(ix, ids) ==
  /\ ix \in Indexes(ids)
  /\ \A id \in DOMAIN ix.index : ix.index[id] \in DOMAIN ix.points
  /\ MaxExact(ix)

(* The point insert stores for a box of the grid.                          *)
LEMMA BoxEntry ==
  ASSUME NEW ids, NEW id \in ids, NEW b \in Boxes
  PROVE  Entry(id, b) \in Entries(ids)
<1>1. Diag2(b) \in 0..(MaxX * MaxX + MaxY * MaxY)
  <2>1. MaxX * MaxX \in Nat /\ MaxY * MaxY \in Nat
    BY MapAssumption, SquareMonotone
  <2> QED BY <2>1, DiagBound
<1>2. b.x0 + b.x1 \in 0..(2 * MaxX) /\ b.y0 + b.y1 \in 0..(2 * MaxY)
  BY MapAssumption DEF Boxes
<1> QED BY <1>1, <1>2 DEF Entry, Entries

(* MaxDiag2 is the largest diagonal.                                       *)
LEMMA MaxDiagOfPoints ==
  ASSUME NEW ids, NEW points \in Seq(Entries(ids)), points # <<>>
  PROVE  /\ \E i \in DOMAIN points : MaxDiag2(points) = points[i].diag2
         /\ \A i \in DOMAIN points : points[i].diag2 <= MaxDiag2(points)
         /\ MaxDiag2(points) \in Nat
<1> DEFINE D == {points[i].diag2 : i \in DOMAIN points}
<1>0. MaxX * MaxX + MaxY * MaxY \in Nat
  BY MapAssumption, SquareMonotone
<1>1. \A i \in DOMAIN points : points[i] \in Entries(ids)
  OBVIOUS
<1>2. D \in SUBSET (0..(MaxX * MaxX + MaxY * MaxY))
  BY <1>1 DEF Entries
<1>3. 1 \in DOMAIN points
  OBVIOUS
<1>4. D # {}
  BY <1>3
<1>5. \E m \in D : \A e \in D : e <= m
  <2> HIDE DEF D
  <2> QED BY <1>0, <1>2, <1>4, LargestExists
<1>6. MaxDiag2(points) = CHOOSE d \in D : \A e \in D : e <= d
  BY DEF MaxDiag2
<1>7. MaxDiag2(points) \in D /\ \A e \in D : e <= MaxDiag2(points)
  <2> HIDE DEF D
  <2> QED BY <1>5, <1>6
<1> QED BY <1>2, <1>7

(* ... and nothing else is.                                                *)
LEMMA MaxDiagIs ==
  ASSUME NEW ids, NEW points \in Seq(Entries(ids)),
         NEW m \in Nat,
         \/ points = <<>> /\ m = 0
         \/ \E i \in DOMAIN points : m = points[i].diag2,
         \A i \in DOMAIN points : points[i].diag2 <= m
  PROVE  MaxDiag2(points) = m
<1>1. CASE points = <<>>
  <2>1. DOMAIN points = {}
    BY <1>1
  <2> QED BY <1>1, <2>1 DEF MaxDiag2
<1>2. CASE points # <<>>
  <2>1. PICK i \in DOMAIN points : m = points[i].diag2
    BY <1>2
  <2>2. PICK j \in DOMAIN points : MaxDiag2(points) = points[j].diag2
    BY <1>2, MaxDiagOfPoints
  <2>3. points[i].diag2 <= MaxDiag2(points) /\ MaxDiag2(points) \in Nat
    BY <1>2, MaxDiagOfPoints
  <2> QED BY <2>1, <2>2, <2>3
<1> QED BY <1>1, <1>2

(* id_to_index_[id] = value and the tables of the snapshot: adding a key   *)
(* keeps a table a table.                                                  *)
LEMMA PutTable ==
  ASSUME NEW ids, NEW values, NEW f \in Tables(ids, values), NEW id \in ids, NEW v \in values
  PROVE  Put(f, id, v) \in Tables(ids, values)
<1>1. PICK D \in SUBSET ids : f \in [D -> values]
  BY DEF Tables
<1>2. Put(f, id, v) \in [D \cup {id} -> values]
  BY <1>1 DEF Put
<1>3. D \cup {id} \in SUBSET ids
  OBVIOUS
<1> QED BY <1>2, <1>3 DEF Tables

(* ... and so does erasing one.                                            *)
LEMMA WithoutTable ==
  ASSUME NEW ids, NEW values, NEW f \in Tables(ids, values), NEW id
  PROVE  Without(f, id) \in Tables(ids, values)
<1>1. PICK D \in SUBSET ids : f \in [D -> values]
  BY DEF Tables
<1>2. Without(f, id) \in [D \ {id} -> values]
  BY <1>1 DEF Without
<1>3. D \ {id} \in SUBSET ids
  OBVIOUS
<1> QED BY <1>2, <1>3 DEF Tables

(* insert keeps an index sound, and adds one point at the end.             *)
LEMMA InsertSound ==
  ASSUME NEW ids, NEW ix, Sound(ix, ids), NEW id \in ids, NEW b \in Boxes
  PROVE  /\ Sound(Insert(ix, id, b), ids)
         /\ Insert(ix, id, b).points = Append(ix.points, Entry(id, b))
         /\ Insert(ix, id, b).index = Put(ix.index, id, Len(ix.points) + 1)
<1> DEFINE jx == Insert(ix, id, b)
           n == Len(ix.points)
           d == Diag2(b)
<1>1. ix \in Indexes(ids) /\ ix.points \in Seq(Entries(ids)) /\ ix.index \in Tables(ids, Position)
      /\ ix.maxDiag2 \in Nat /\ n \in Nat
  BY DEF Sound, Indexes
<1>2. Entry(id, b) \in Entries(ids) /\ Entry(id, b).diag2 = d /\ d \in Nat
  BY BoxEntry, DiagBound DEF Entry
<1>3. /\ jx.points = Append(ix.points, Entry(id, b))
      /\ jx.index = Put(ix.index, id, n + 1)
      /\ jx.maxDiag2 = IF d > ix.maxDiag2 THEN d ELSE ix.maxDiag2
      /\ jx = [points |-> jx.points, index |-> jx.index, maxDiag2 |-> jx.maxDiag2]
  BY DEF Insert
<1> HIDE DEF jx, d
<1>4. /\ jx.points \in Seq(Entries(ids)) /\ Len(jx.points) = n + 1
      /\ \A i \in 1..n : jx.points[i] = ix.points[i]
      /\ jx.points[n + 1] = Entry(id, b)
  BY <1>1, <1>2, <1>3
<1>5. jx.maxDiag2 \in Nat
  BY <1>1, <1>2, <1>3
<1>6. /\ jx.index \in Tables(ids, Position)
      /\ \A j \in DOMAIN jx.index : jx.index[j] \in DOMAIN jx.points
  <2>1. /\ jx.index \in Tables(ids, Position)
        /\ DOMAIN jx.index = DOMAIN ix.index \cup {id}
        /\ \A j \in DOMAIN jx.index : jx.index[j] = IF j = id THEN n + 1 ELSE ix.index[j]
    <3> DEFINE f == ix.index  v == n + 1
    <3>1. v \in Position /\ f \in Tables(ids, Position) /\ jx.index = Put(f, id, v)
      BY <1>1, <1>3 DEF Position
    <3>2. Put(f, id, v) \in Tables(ids, Position)
      <4> HIDE DEF f, v
      <4> QED BY <3>1, PutTable
    <3> QED BY <3>1, <3>2 DEF Put
  <2>2. \A j \in DOMAIN ix.index : ix.index[j] \in 1..n
    BY <1>1 DEF Sound
  <2> QED BY <1>1, <1>4, <2>1, <2>2
<1>7. MaxExact(jx)
  <2>1. ix.maxDiag2 = MaxDiag2(ix.points)
    BY DEF Sound, MaxExact
  <2>2. \/ ix.points = <<>> /\ ix.maxDiag2 = 0
        \/ ix.points # <<>> /\ \E i \in 1..n : ix.maxDiag2 = ix.points[i].diag2
    <3>1. CASE ix.points = <<>>
      BY <2>1, <3>1 DEF MaxDiag2
    <3>2. CASE ix.points # <<>>
      BY <1>1, <2>1, <3>2, MaxDiagOfPoints
    <3> QED BY <3>1, <3>2
  <2>3. \A i \in 1..n : ix.points[i].diag2 <= ix.maxDiag2
    <3>1. CASE ix.points = <<>>
      BY <1>1, <3>1
    <3>2. CASE ix.points # <<>>
      BY <1>1, <2>1, <3>2, MaxDiagOfPoints
    <3> QED BY <3>1, <3>2
  <2>4. \A i \in 1..(n + 1) : jx.points[i].diag2 <= jx.maxDiag2
    <3> SUFFICES ASSUME NEW i \in 1..(n + 1) PROVE jx.points[i].diag2 <= jx.maxDiag2
      OBVIOUS
    <3>1. CASE i = n + 1
      BY <1>1, <1>2, <1>3, <1>4, <3>1
    <3>2. CASE i \in 1..n
      <4>1. ix.points[i].diag2 \in Nat /\ ix.points[i].diag2 <= ix.maxDiag2
        <5>1. ix.points[i] \in Entries(ids)
          BY <1>1, <3>2
        <5>2. MaxX * MaxX + MaxY * MaxY \in Nat
          BY MapAssumption, SquareMonotone
        <5> QED BY <2>3, <3>2, <5>1, <5>2 DEF Entries
      <4> QED BY <1>1, <1>2, <1>3, <1>4, <3>2, <4>1
    <3> QED BY <1>1, <3>1, <3>2
  <2>5. \E i \in 1..(n + 1) : jx.maxDiag2 = jx.points[i].diag2
    <3>1. CASE jx.maxDiag2 = d
      BY <1>1, <1>2, <1>4, <3>1
    <3>2. CASE jx.maxDiag2 # d
      <4>1. jx.maxDiag2 = ix.maxDiag2 /\ ~(d > ix.maxDiag2) /\ ix.maxDiag2 # d
        BY <1>3, <3>2
      <4>2. ix.maxDiag2 # 0
        BY <1>1, <1>2, <4>1
      <4>3. PICK i \in 1..n : ix.maxDiag2 = ix.points[i].diag2
        BY <2>2, <4>2
      <4> QED BY <1>1, <1>4, <4>1, <4>3
    <3> QED BY <3>1, <3>2
  <2>6. DOMAIN jx.points = 1..(n + 1)
    BY <1>4
  <2> QED BY <1>4, <1>5, <2>4, <2>5, <2>6, MaxDiagIs DEF MaxExact
<1> QED BY <1>3, <1>4, <1>5, <1>6, <1>7 DEF Sound, Indexes, jx

(* A sound index and its cached maximum.                                   *)
LEMMA SoundFacts ==
  ASSUME NEW ids, NEW ix, Sound(ix, ids)
  PROVE  /\ ix.points \in Seq(Entries(ids)) /\ ix.index \in Tables(ids, Position)
         /\ ix.maxDiag2 \in Nat /\ Len(ix.points) \in Nat
         /\ DOMAIN ix.points = 1..Len(ix.points)
         /\ \A i \in 1..Len(ix.points) : /\ ix.points[i].diag2 \in Nat
                                          /\ ix.points[i].diag2 <= ix.maxDiag2
                                          /\ ix.points[i].id \in ids
         /\ ix.maxDiag2 # 0 => \E i \in 1..Len(ix.points) : ix.maxDiag2 = ix.points[i].diag2
<1>1. /\ ix.points \in Seq(Entries(ids)) /\ ix.index \in Tables(ids, Position)
      /\ ix.maxDiag2 \in Nat /\ Len(ix.points) \in Nat
      /\ DOMAIN ix.points = 1..Len(ix.points)
  BY DEF Sound, Indexes
<1>2. MaxX * MaxX + MaxY * MaxY \in Nat
  BY MapAssumption, SquareMonotone
<1>3. ix.maxDiag2 = MaxDiag2(ix.points)
  BY DEF Sound, MaxExact
<1>4. \A i \in 1..Len(ix.points) : ix.points[i].diag2 \in Nat /\ ix.points[i].id \in ids
  <2>1. \A i \in 1..Len(ix.points) : ix.points[i] \in Entries(ids)
    BY <1>1
  <2> QED BY <1>2, <2>1 DEF Entries
<1>5. CASE ix.points = <<>>
  BY <1>1, <1>3, <1>5 DEF MaxDiag2
<1>6. CASE ix.points # <<>>
  BY <1>1, <1>3, <1>4, <1>6, MaxDiagOfPoints
<1> QED BY <1>5, <1>6

(* remove, on an index that says what the table says: it does so again     *)
(* afterwards, and the cached maximum is still that of the points.         *)
LEMMA RemoveSound ==
  ASSUME NEW ids, NEW ix, Sound(ix, ids),
         NEW boxes \in Tables(ids, Boxes), Coherent(ix, boxes),
         NEW id \in ids, id \in DOMAIN boxes
  PROVE  /\ Sound(Remove(ix, id), ids)
         /\ Coherent(Remove(ix, id), Without(boxes, id))
<1> DEFINE jx == Remove(ix, id)
           i == ix.index[id]
           last == Len(ix.points)
           m == ix.points[last].id
<1>1. /\ ix.points \in Seq(Entries(ids)) /\ ix.index \in Tables(ids, Position)
      /\ ix.maxDiag2 \in Nat /\ last \in Nat /\ DOMAIN ix.points = 1..last
      /\ \A k \in 1..last : /\ ix.points[k].diag2 \in Nat
                            /\ ix.points[k].diag2 <= ix.maxDiag2 /\ ix.points[k].id \in ids
      /\ ix.maxDiag2 # 0 => \E k \in 1..last : ix.maxDiag2 = ix.points[k].diag2
  BY SoundFacts
<1>2. /\ DOMAIN ix.index = DOMAIN boxes
      /\ \A j \in DOMAIN boxes : ix.index[j] \in 1..last /\ ix.points[ix.index[j]] = Entry(j, boxes[j])
      /\ \A k \in 1..last : ix.points[k].id \in DOMAIN boxes /\ ix.index[ix.points[k].id] = k
  BY <1>1 DEF Coherent
<1>3. i \in 1..last /\ last \in 1..last /\ m \in DOMAIN boxes /\ ix.index[m] = last /\ m \in ids
  BY <1>1, <1>2
<1>4. jx = [points   |-> DropPoint(ix.points, i),
            index    |-> Without(IF i # last THEN Put(ix.index, m, i) ELSE ix.index, id),
            maxDiag2 |-> IF ix.points[i].diag2 >= ix.maxDiag2
                           THEN MaxDiag2(DropPoint(ix.points, i)) ELSE ix.maxDiag2]
  <2>1. id \in DOMAIN ix.index
    BY <1>2
  <2> QED BY <2>1 DEF Remove, Without
<1> HIDE DEF jx
<1>5. /\ jx.points \in Seq(Entries(ids)) /\ Len(jx.points) = last - 1
      /\ DOMAIN jx.points = 1..(last - 1)
      /\ \A k \in 1..(last - 1) : jx.points[k] = IF k = i THEN ix.points[last] ELSE ix.points[k]
  <2>1. jx.points = [k \in 1..(last - 1) |-> IF k = i THEN ix.points[last] ELSE ix.points[k]]
    BY <1>4 DEF DropPoint
  <2>2. \A k \in 1..last : ix.points[k] \in Entries(ids)
    BY <1>1
  <2> DEFINE n == last - 1
             s == jx.points
  <2>3. n \in Nat /\ 1..n \subseteq 1..last
    BY <1>1, <1>3
  <2>4. s \in [1..n -> Entries(ids)]
    BY <1>3, <2>1, <2>2, <2>3
  <2>5. \A k \in 1..n : s[k] = IF k = i THEN ix.points[last] ELSE ix.points[k]
    BY <2>1
  <2>6. s \in Seq(Entries(ids)) /\ Len(s) = n /\ DOMAIN s = 1..n
    <3> HIDE DEF s, n
    <3> QED BY <2>3, <2>4
  <2> HIDE DEF s
  <2> QED BY <2>5, <2>6 DEF s
<1>6. /\ jx.index \in Tables(ids, Position)
      /\ DOMAIN jx.index = DOMAIN boxes \ {id}
      /\ \A j \in DOMAIN boxes \ {id} :
           jx.index[j] = IF i # last /\ j = m THEN i ELSE ix.index[j]
  <2>1. CASE i = last
    <3> DEFINE f == ix.index
    <3>1. jx.index = Without(f, id) /\ f \in Tables(ids, Position)
      BY <1>1, <1>4, <2>1
    <3>2. Without(f, id) \in Tables(ids, Position)
      <4> HIDE DEF f
      <4> QED BY <3>1, WithoutTable
    <3> QED BY <1>2, <2>1, <3>1, <3>2 DEF Without
  <2>2. CASE i # last
    <3> DEFINE f == ix.index  g == Put(f, m, i)
    <3>1. jx.index = Without(g, id)
      BY <1>4, <2>2
    <3>2. i \in Position /\ m \in ids /\ f \in Tables(ids, Position)
      BY <1>1, <1>3 DEF Position
    <3>3. g \in Tables(ids, Position)
      <4> HIDE DEF f, i, m
      <4> QED BY <3>2, PutTable
    <3>5. DOMAIN g = DOMAIN f \cup {m} /\ \A j \in DOMAIN g : g[j] = IF j = m THEN i ELSE f[j]
      BY DEF Put
    <3> HIDE DEF g
    <3>4. Without(g, id) \in Tables(ids, Position)
      BY <3>3, WithoutTable
    <3> QED BY <1>2, <1>3, <2>2, <3>1, <3>4, <3>5 DEF Without
  <2> QED BY <2>1, <2>2
<1>7. /\ Without(boxes, id) = [j \in DOMAIN boxes \ {id} |-> boxes[j]]
      /\ DOMAIN Without(boxes, id) = DOMAIN boxes \ {id}
  BY DEF Without
<1>8. \A j \in DOMAIN boxes \ {id} :
        /\ jx.index[j] \in 1..(last - 1)
        /\ jx.points[jx.index[j]] = Entry(j, boxes[j])
  <2> SUFFICES ASSUME NEW j \in DOMAIN boxes \ {id}
               PROVE  /\ jx.index[j] \in 1..(last - 1)
                      /\ jx.points[jx.index[j]] = Entry(j, boxes[j])
    OBVIOUS
  <2>0. /\ ix.index[j] \in 1..last /\ ix.points[ix.index[j]] = Entry(j, boxes[j])
        /\ ix.points[i] = Entry(id, boxes[id])
    BY <1>2
  <2>1. ix.points[ix.index[j]].id = j /\ ix.points[i].id = id
    <3>1. Entry(j, boxes[j]).id = j /\ Entry(id, boxes[id]).id = id
      BY DEF Entry
    <3> QED BY <2>0, <3>1
  <2>2. CASE i # last /\ j = m
    <3>1. jx.index[j] = i
      BY <1>6, <2>2
    <3>2. i \in 1..(last - 1)
      BY <1>1, <1>3, <2>2
    <3>3. jx.points[i] = ix.points[last]
      BY <1>5, <3>2
    <3>4. ix.points[last] = Entry(j, boxes[j])
      BY <1>3, <2>0, <2>2
    <3> QED BY <3>1, <3>2, <3>3, <3>4
  <2>3. CASE ~(i # last /\ j = m)
    <3>1. jx.index[j] = ix.index[j] /\ ix.index[j] # i
      BY <1>6, <2>1, <2>3
    <3>2. ix.index[j] # last
      BY <2>1, <2>3, <3>1
    <3>3. ix.index[j] \in 1..(last - 1)
      BY <1>1, <2>0, <3>2
    <3>4. jx.points[ix.index[j]] = ix.points[ix.index[j]]
      BY <1>5, <3>1, <3>3
    <3> QED BY <2>0, <3>1, <3>3, <3>4
  <2> QED BY <2>2, <2>3
<1>9. \A k \in 1..(last - 1) :
        jx.points[k].id \in DOMAIN boxes \ {id} /\ jx.index[jx.points[k].id] = k
  <2> SUFFICES ASSUME NEW k \in 1..(last - 1)
               PROVE  jx.points[k].id \in DOMAIN boxes \ {id} /\ jx.index[jx.points[k].id] = k
    OBVIOUS
  <2>1. k \in 1..last /\ k # last
    BY <1>1
  <2>2. CASE k = i
    <3>1. jx.points[k] = ix.points[last] /\ i # last
      BY <1>5, <2>1, <2>2
    <3>2. m # id
      BY <1>3, <3>1
    <3> QED BY <1>3, <1>6, <2>2, <3>1, <3>2
  <2>3. CASE k # i
    <3>1. jx.points[k] = ix.points[k]
      BY <1>5, <2>3
    <3>2. ix.points[k].id \in DOMAIN boxes /\ ix.index[ix.points[k].id] = k
      BY <1>2, <2>1
    <3>3. ix.points[k].id # id /\ ix.points[k].id # m
      BY <1>3, <2>1, <2>3, <3>2
    <3> QED BY <1>6, <3>1, <3>2, <3>3
  <2> QED BY <2>2, <2>3
<1>10. Coherent(jx, Without(boxes, id))
  <2> DEFINE left == Without(boxes, id)
  <2>1. DOMAIN left = DOMAIN boxes \ {id} /\ \A j \in DOMAIN boxes \ {id} : left[j] = boxes[j]
    BY <1>7
  <2> HIDE DEF left
  <2>2. /\ DOMAIN jx.points = 1..(last - 1) /\ DOMAIN jx.index = DOMAIN left
        /\ \A j \in DOMAIN left : /\ jx.index[j] \in 1..(last - 1)
                                  /\ jx.points[jx.index[j]] = Entry(j, left[j])
    BY <1>5, <1>6, <1>8, <2>1
  <2>3. \A k \in 1..(last - 1) : jx.points[k].id \in DOMAIN left /\ jx.index[jx.points[k].id] = k
    BY <1>9, <2>1
  <2>4. Coherent(jx, left)
    BY <2>2, <2>3 DEF Coherent
  <2> QED BY <2>4 DEF left
<1>11. jx.maxDiag2 \in Nat /\ MaxExact(jx)
  <2>1. CASE ix.points[i].diag2 >= ix.maxDiag2
    <3>1. jx.maxDiag2 = MaxDiag2(jx.points)
      BY <1>4, <2>1
    <3>2. CASE jx.points = <<>>
      BY <3>1, <3>2 DEF MaxDiag2, MaxExact
    <3>3. CASE jx.points # <<>>
      BY <1>5, <3>1, <3>3, MaxDiagOfPoints DEF MaxExact
    <3> QED BY <3>2, <3>3
  <2>2. CASE ~(ix.points[i].diag2 >= ix.maxDiag2)
    <3>1. jx.maxDiag2 = ix.maxDiag2
      BY <1>4, <2>2
    <3>2. ix.maxDiag2 # 0
      BY <1>1, <1>3, <2>2
    <3>3. PICK h \in 1..last : ix.maxDiag2 = ix.points[h].diag2
      BY <1>1, <3>2
    <3>4. h # i
      BY <1>1, <1>3, <2>2, <3>3
    <3>5. \E k \in 1..(last - 1) : jx.maxDiag2 = jx.points[k].diag2
      <4>1. CASE h = last
        <5>1. i \in 1..(last - 1)
          BY <1>1, <1>3, <3>4, <4>1
        <5> QED BY <1>5, <3>1, <3>3, <4>1, <5>1
      <4>2. CASE h # last
        <5>1. h \in 1..(last - 1)
          BY <1>1, <4>2
        <5> QED BY <1>5, <3>1, <3>3, <3>4, <5>1
      <4> QED BY <4>1, <4>2
    <3>6. \A k \in 1..(last - 1) : jx.points[k].diag2 <= jx.maxDiag2
      <4> SUFFICES ASSUME NEW k \in 1..(last - 1) PROVE jx.points[k].diag2 <= jx.maxDiag2
        OBVIOUS
      <4>1. k \in 1..last
        BY <1>1
      <4> QED BY <1>1, <1>3, <1>5, <3>1, <4>1
    <3> QED BY <1>1, <1>5, <3>1, <3>5, <3>6, MaxDiagIs DEF MaxExact
  <2> QED BY <2>1, <2>2
<1>12. jx \in Indexes(ids)
  BY <1>4, <1>5, <1>6, <1>11 DEF Indexes
<1>13. Sound(jx, ids)
  BY <1>5, <1>6, <1>8, <1>11, <1>12 DEF Sound
<1> QED BY <1>10, <1>13 DEF jx

(* insert of an id the table does not hold.                                *)
LEMMA InsertCoherent ==
  ASSUME NEW ids, NEW ix, Sound(ix, ids),
         NEW boxes \in Tables(ids, Boxes), Coherent(ix, boxes),
         NEW id \in ids, id \notin DOMAIN boxes, NEW b \in Boxes
  PROVE  Coherent(Insert(ix, id, b), Put(boxes, id, b))
<1> DEFINE jx == Insert(ix, id, b)
           n == Len(ix.points)
<1>1. ix.points \in Seq(Entries(ids)) /\ n \in Nat /\ DOMAIN ix.points = 1..n
  BY SoundFacts
<1>2. jx.points = Append(ix.points, Entry(id, b)) /\ jx.index = Put(ix.index, id, n + 1)
  BY InsertSound
<1>3. /\ DOMAIN ix.index = DOMAIN boxes
      /\ \A j \in DOMAIN boxes : ix.index[j] \in 1..n /\ ix.points[ix.index[j]] = Entry(j, boxes[j])
      /\ \A k \in 1..n : ix.points[k].id \in DOMAIN boxes /\ ix.index[ix.points[k].id] = k
  BY <1>1 DEF Coherent
<1>4. Entry(id, b) \in Entries(ids) /\ Entry(id, b).id = id
  BY BoxEntry DEF Entry
<1> HIDE DEF jx
<1>5. /\ DOMAIN jx.points = 1..(n + 1) /\ jx.points[n + 1] = Entry(id, b)
      /\ \A k \in 1..n : jx.points[k] = ix.points[k]
  BY <1>1, <1>2, <1>4
<1>6. /\ DOMAIN jx.index = DOMAIN boxes \cup {id}
      /\ jx.index[id] = n + 1
      /\ \A j \in DOMAIN boxes : jx.index[j] = ix.index[j]
  BY <1>2, <1>3 DEF Put
<1>7. /\ DOMAIN Put(boxes, id, b) = DOMAIN boxes \cup {id}
      /\ Put(boxes, id, b)[id] = b
      /\ \A j \in DOMAIN boxes : Put(boxes, id, b)[j] = boxes[j]
  BY DEF Put
<1>8. \A j \in DOMAIN boxes \cup {id} :
        jx.index[j] \in 1..(n + 1) /\ jx.points[jx.index[j]] = Entry(j, Put(boxes, id, b)[j])
  <2>1. jx.index[id] \in 1..(n + 1) /\ jx.points[jx.index[id]] = Entry(id, Put(boxes, id, b)[id])
    BY <1>1, <1>5, <1>6, <1>7
  <2>2. ASSUME NEW j \in DOMAIN boxes
        PROVE  jx.index[j] \in 1..(n + 1) /\ jx.points[jx.index[j]] = Entry(j, Put(boxes, id, b)[j])
    <3>1. jx.index[j] = ix.index[j] /\ ix.index[j] \in 1..n /\ Put(boxes, id, b)[j] = boxes[j]
          /\ ix.points[ix.index[j]] = Entry(j, boxes[j])
      BY <1>3, <1>6, <1>7
    <3>2. jx.points[jx.index[j]] = ix.points[ix.index[j]]
      BY <1>5, <3>1
    <3> QED BY <1>1, <3>1, <3>2
  <2> QED BY <2>1, <2>2
<1>9. \A k \in 1..(n + 1) :
        jx.points[k].id \in DOMAIN boxes \cup {id} /\ jx.index[jx.points[k].id] = k
  <2> SUFFICES ASSUME NEW k \in 1..(n + 1)
               PROVE  jx.points[k].id \in DOMAIN boxes \cup {id} /\ jx.index[jx.points[k].id] = k
    OBVIOUS
  <2>1. CASE k = n + 1
    BY <1>4, <1>5, <1>6, <2>1
  <2>2. CASE k # n + 1
    <3>1. k \in 1..n
      BY <1>1, <2>2
    <3>2. ix.points[k].id \in DOMAIN boxes /\ ix.index[ix.points[k].id] = k
      BY <1>3, <3>1
    <3> QED BY <1>5, <1>6, <3>1, <3>2
  <2> QED BY <2>1, <2>2
<1>10. Coherent(jx, Put(boxes, id, b))
  BY <1>5, <1>6, <1>7, <1>8, <1>9 DEF Coherent
<1> QED BY <1>10 DEF jx

-----------------------------------------------------------------------------
(* Snapshots.                                                              *)

SnapshotSet ==
  [obstacles : Tables(ObstacleIds, Boxes), obstacleTree : Indexes(ObstacleIds),
   areas : Tables(AreaIds, Boxes), areaTree : Indexes(AreaIds),
   locked : SUBSET AreaIds, contours : Layouts \cup {NoContours}]

(* What updateSnapshot finds in a snapshot and leaves in the next.         *)
Good(s) ==
  /\ s \in SnapshotSet
  /\ Sound(s.obstacleTree, ObstacleIds)
  /\ Coherent(s.obstacleTree, s.obstacles)
  /\ Sound(s.areaTree, AreaIds)
  /\ AreasIndexed(s)

(* The clones updateSnapshot works on are as good as the originals.        *)
LEMMA GoodCopy ==
  ASSUME NEW s, Good(s)
  PROVE  Good(Copy(s))
<1>1. s \in SnapshotSet /\ s.obstacleTree \in Indexes(ObstacleIds) /\ s.areaTree \in Indexes(AreaIds)
  BY DEF Good, SnapshotSet
<1>2. Clone(s.obstacleTree) = s.obstacleTree /\ Clone(s.areaTree) = s.areaTree
  BY <1>1 DEF Clone, Indexes
<1>3. Copy(s) = s
  BY <1>1, <1>2 DEF Copy, SnapshotSet
<1> QED BY <1>3

(* removeObstacle, on an id that is there and on one that is not.          *)
LEMMA GoodDropObstacle ==
  ASSUME NEW s, Good(s), NEW id \in ObstacleIds
  PROVE  Good(DropObstacle(s, id))
<1> DEFINE t == DropObstacle(s, id)
<1>1. CASE id \notin DOMAIN s.obstacles
  BY <1>1 DEF DropObstacle
<1>2. CASE id \in DOMAIN s.obstacles
  <2> DEFINE f == s.obstacles  ix == s.obstacleTree
  <2>1. /\ s \in SnapshotSet /\ f \in Tables(ObstacleIds, Boxes) /\ Sound(ix, ObstacleIds)
        /\ Coherent(ix, f) /\ id \in DOMAIN f
    BY <1>2 DEF Good, SnapshotSet
  <2>2. /\ t = [s EXCEPT !.obstacleTree = Remove(ix, id), !.obstacles = Without(f, id)]
        /\ t.obstacleTree = Remove(ix, id) /\ t.obstacles = Without(f, id)
        /\ t.areas = s.areas /\ t.areaTree = s.areaTree /\ t.locked = s.locked
        /\ t.contours = s.contours
    BY <1>2, <2>1 DEF DropObstacle, SnapshotSet
  <2>3. Without(f, id) \in Tables(ObstacleIds, Boxes)
    <3> HIDE DEF f
    <3> QED BY <2>1, WithoutTable
  <2>4. Sound(Remove(ix, id), ObstacleIds) /\ Coherent(Remove(ix, id), Without(f, id))
    <3> HIDE DEF f, ix
    <3> QED BY <2>1, RemoveSound
  <2>5. Remove(ix, id) \in Indexes(ObstacleIds)
    BY <2>4 DEF Sound
  <2>6. t \in SnapshotSet
    BY <2>1, <2>2, <2>3, <2>5 DEF SnapshotSet
  <2> HIDE DEF t
  <2> QED BY <2>2, <2>4, <2>6 DEF Good, AreasIndexed, t
<1> QED BY <1>1, <1>2

(* insertObstacle, on a new id and on one that is there.                   *)
LEMMA GoodPutObstacle ==
  ASSUME NEW s, Good(s), NEW id \in ObstacleIds, NEW b \in Boxes
  PROVE  Good(PutObstacle(s, id, b))
<1> DEFINE t == PutObstacle(s, id, b)
           f == s.obstacles
           ix == s.obstacleTree
           g == Without(f, id)
           jx == IF id \in DOMAIN f THEN Remove(ix, id) ELSE ix
<1>1. /\ s \in SnapshotSet /\ f \in Tables(ObstacleIds, Boxes) /\ Sound(ix, ObstacleIds)
      /\ Coherent(ix, f)
  BY DEF Good, SnapshotSet
<1>2. /\ t = [s EXCEPT !.obstacleTree = Insert(jx, id, b), !.obstacles = Put(f, id, b)]
      /\ t.obstacleTree = Insert(jx, id, b) /\ t.obstacles = Put(f, id, b)
      /\ t.areas = s.areas /\ t.areaTree = s.areaTree /\ t.locked = s.locked
      /\ t.contours = s.contours
  BY <1>1 DEF PutObstacle, SnapshotSet
<1>3. g \in Tables(ObstacleIds, Boxes)
  <2> HIDE DEF f
  <2> QED BY <1>1, WithoutTable
<1>4. id \notin DOMAIN g /\ Put(g, id, b) = Put(f, id, b)
  BY DEF Put, Without
<1>5. Sound(jx, ObstacleIds) /\ Coherent(jx, g)
  <2>1. CASE id \in DOMAIN f
    <3>1. Sound(Remove(ix, id), ObstacleIds) /\ Coherent(Remove(ix, id), Without(f, id))
      <4> HIDE DEF f, ix
      <4> QED BY <1>1, <2>1, RemoveSound
    <3> QED BY <2>1, <3>1
  <2>2. CASE id \notin DOMAIN f
    <3>1. g = f
      <4>1. f = [j \in DOMAIN f |-> f[j]]
        BY <1>1 DEF Tables
      <4>2. DOMAIN f \ {id} = DOMAIN f
        BY <2>2
      <4> HIDE DEF f
      <4> QED BY <4>1, <4>2 DEF Without
    <3> QED BY <1>1, <2>2, <3>1
  <2> QED BY <2>1, <2>2
<1>6. Put(f, id, b) \in Tables(ObstacleIds, Boxes)
  <2> HIDE DEF f
  <2> QED BY <1>1, PutTable
<1>7. Sound(Insert(jx, id, b), ObstacleIds)
  <2> HIDE DEF jx
  <2> QED BY <1>5, InsertSound
<1>8. Coherent(Insert(jx, id, b), Put(g, id, b))
  <2> HIDE DEF jx, g
  <2> QED BY <1>3, <1>4, <1>5, InsertCoherent
<1>9. Insert(jx, id, b) \in Indexes(ObstacleIds)
  BY <1>7 DEF Sound
<1> HIDE DEF jx, g, f, ix
<1>10. t \in SnapshotSet
  BY <1>1, <1>2, <1>6, <1>9 DEF SnapshotSet
<1> HIDE DEF t
<1> QED BY <1>2, <1>4, <1>7, <1>8, <1>10 DEF Good, AreasIndexed, t

(* registerArea: a known area keeps its old point and gets a second.       *)
LEMMA GoodPutArea ==
  ASSUME NEW s, Good(s), NEW id \in AreaIds, NEW b \in Boxes
  PROVE  Good(PutArea(s, id, b))
<1> DEFINE t == PutArea(s, id, b)
           f == s.areas
           ix == s.areaTree
           n == Len(ix.points)
<1>1. /\ s \in SnapshotSet /\ f \in Tables(AreaIds, Boxes) /\ Sound(ix, AreaIds)
  BY DEF Good, SnapshotSet
<1>2. /\ t = [s EXCEPT !.areaTree = Insert(ix, id, b), !.areas = Put(f, id, b)]
      /\ t.areaTree = Insert(ix, id, b) /\ t.areas = Put(f, id, b)
      /\ t.obstacles = s.obstacles /\ t.obstacleTree = s.obstacleTree /\ t.locked = s.locked
      /\ t.contours = s.contours
  BY <1>1 DEF PutArea, SnapshotSet
<1>3. Put(f, id, b) \in Tables(AreaIds, Boxes)
  <2> HIDE DEF f
  <2> QED BY <1>1, PutTable
<1>4. /\ Sound(Insert(ix, id, b), AreaIds)
      /\ Insert(ix, id, b).points = Append(ix.points, Entry(id, b))
  <2> HIDE DEF ix
  <2> QED BY <1>1, InsertSound
<1>5. Insert(ix, id, b) \in Indexes(AreaIds)
  BY <1>4 DEF Sound
<1>6. t \in SnapshotSet
  <2> HIDE DEF f, ix
  <2> QED BY <1>1, <1>2, <1>3, <1>5 DEF SnapshotSet
<1>7. AreasIndexed(t)
  <2>1. ix.points \in Seq(Entries(AreaIds)) /\ n \in Nat /\ DOMAIN ix.points = 1..n
    <3> HIDE DEF ix
    <3> QED BY <1>1, SoundFacts DEF n
  <2>2. Entry(id, b) \in Entries(AreaIds)
    BY BoxEntry
  <2>3. /\ DOMAIN t.areaTree.points = 1..(n + 1)
        /\ t.areaTree.points[n + 1] = Entry(id, b)
        /\ \A k \in 1..n : t.areaTree.points[k] = ix.points[k]
    <3> HIDE DEF t, ix
    <3> QED BY <1>2, <1>4, <2>1, <2>2 DEF n
  <2>4. /\ DOMAIN t.areas = DOMAIN f \cup {id}
        /\ t.areas[id] = b
        /\ \A j \in DOMAIN f \ {id} : t.areas[j] = f[j]
    <3> HIDE DEF t, f
    <3> QED BY <1>2 DEF Put
  <2>5. /\ \A j \in DOMAIN f : \E k \in 1..n : ix.points[k] = Entry(j, f[j])
        /\ \A k \in 1..n : ix.points[k].id \in DOMAIN f
    BY <2>1 DEF Good, AreasIndexed
  <2> HIDE DEF t, f, ix, n
  <2>8. Entry(id, b).id = id
    BY DEF Entry
  <2>9. \A k \in 1..(n + 1) : k \in 1..n \/ k = n + 1
    BY <2>1
  <2>10. \A k \in 1..(n + 1) : t.areaTree.points[k].id \in DOMAIN t.areas
    BY <2>3, <2>4, <2>5, <2>8, <2>9
  <2> SUFFICES ASSUME NEW j \in DOMAIN t.areas
               PROVE  \E k \in 1..(n + 1) : t.areaTree.points[k] = Entry(j, t.areas[j])
    BY <2>3, <2>10 DEF AreasIndexed
  <2>6. CASE j = id
    BY <2>1, <2>3, <2>4, <2>6
  <2>7. CASE j # id
    <3>1. j \in DOMAIN f /\ t.areas[j] = f[j]
      BY <2>4, <2>7
    <3>2. PICK k \in 1..n : ix.points[k] = Entry(j, f[j])
      BY <2>5, <3>1
    <3>3. k \in 1..(n + 1)
      BY <2>1
    <3> QED BY <2>3, <3>1, <3>2, <3>3
  <2> QED BY <2>6, <2>7
<1> HIDE DEF t
<1> QED BY <1>2, <1>4, <1>6, <1>7 DEF Good, t

-----------------------------------------------------------------------------
(* The invariant: the published snapshot and the draft of a batch are good.*)

BatchOK ==
  /\ batch \in [kind : {"none", "insert", "remove", "register"}, size : 0..MaxBatch]
  /\ batch.kind = "none" => draft = NoDraft
  /\ batch.size > 0 => batch.kind # "none"

IInv ==
  /\ Good(snap)
  /\ batch.kind # "none" => Good(draft)
  /\ BatchOK

(* The constructor publishes a good snapshot.                              *)
LEMMA InitGood == Init => IInv
<1> SUFFICES ASSUME Init PROVE IInv
  OBVIOUS
<1>1. BatchOK /\ batch.kind = "none"
  BY MapAssumption DEF Init, NoBatch, BatchOK
<1>2. \A ids, values : [i \in {} |-> 0] \in Tables(ids, values)
  <2> SUFFICES ASSUME NEW ids, NEW values PROVE [i \in {} |-> 0] \in Tables(ids, values)
    OBVIOUS
  <2>1. [i \in {} |-> 0] \in [{} -> values] /\ {} \in SUBSET ids
    OBVIOUS
  <2> QED BY <2>1 DEF Tables
<1>3. \A ids : EmptyIndex \in Indexes(ids)
  BY <1>2 DEF EmptyIndex, Indexes
<1>4. \A ids : Sound(EmptyIndex, ids)
  BY <1>3 DEF Sound, EmptyIndex, MaxExact, MaxDiag2
<1>5. snap = EmptySnapshot /\ snap \in SnapshotSet
  BY <1>2, <1>3 DEF Init, EmptySnapshot, SnapshotSet
<1>6. Coherent(snap.obstacleTree, snap.obstacles) /\ AreasIndexed(snap)
  BY <1>5 DEF EmptySnapshot, EmptyIndex, Coherent, AreasIndexed
<1>7. snap.obstacleTree = EmptyIndex /\ snap.areaTree = EmptyIndex
  BY <1>5 DEF EmptySnapshot
<1> QED BY <1>1, <1>4, <1>5, <1>6, <1>7 DEF IInv, Good

(* One updateSnapshot call with a good result.                             *)
LEMMA PublishKeeps ==
  ASSUME IInv, NEW s, Good(s), Publish(s)
  PROVE  IInv'
BY DEF IInv, Publish, Good, BatchOK, Sound, Coherent, AreasIndexed, MaxExact

(* One more element of a batch.                                            *)
LEMMA ExtendKeeps ==
  ASSUME IInv, NEW kind \in {"insert", "remove", "register"}, NEW s, Good(s), Extend(kind, s)
  PROVE  IInv'
<1>1. batch' = [batch EXCEPT !.size = @ + 1] /\ draft' = s /\ snap' = snap
      /\ batch.kind = kind /\ batch.size < MaxBatch
  BY DEF Extend
<1>2. batch \in [kind : {"none", "insert", "remove", "register"}, size : 0..MaxBatch]
  BY DEF IInv, BatchOK
<1>3. batch'.kind = kind /\ batch'.size \in 0..MaxBatch
      /\ batch' \in [kind : {"none", "insert", "remove", "register"}, size : 0..MaxBatch]
  BY <1>1, <1>2, MapAssumption
<1>4. BatchOK'
  BY <1>3 DEF BatchOK
<1> QED BY <1>1, <1>4 DEF IInv

(* Every operation, every step of a batch and its end keep the invariant.  *)
LEMMA NextKeeps == IInv /\ [Next]_vars => IInv'
<1> SUFFICES ASSUME IInv, [Next]_vars PROVE IInv'
  OBVIOUS
<1> USE DEF IInv
<1>0. Good(Copy(snap))
  BY GoodCopy
<1>1. ASSUME NEW id \in ObstacleIds, NEW b \in Boxes, InsertObstacle(id, b)
      PROVE  IInv'
  BY <1>0, <1>1, GoodPutObstacle, PublishKeeps DEF InsertObstacle
<1>2. ASSUME NEW id \in ObstacleIds, NEW b \in Boxes, InsertBatch(id, b)
      PROVE  IInv'
  <2>1. Good(draft)
    BY <1>2 DEF InsertBatch, Extend
  <2> QED BY <1>2, <2>1, GoodPutObstacle, ExtendKeeps DEF InsertBatch
<1>3. ASSUME NEW id \in ObstacleIds, RemoveObstacle(id)
      PROVE  IInv'
  BY <1>0, <1>3, GoodDropObstacle, PublishKeeps DEF RemoveObstacle
<1>4. ASSUME NEW id \in ObstacleIds, RemoveBatch(id)
      PROVE  IInv'
  <2>1. Good(draft)
    BY <1>4 DEF RemoveBatch, Extend
  <2> QED BY <1>4, <2>1, GoodDropObstacle, ExtendKeeps DEF RemoveBatch
<1>5. ASSUME NEW id \in AreaIds, NEW b \in Boxes, RegisterArea(id, b)
      PROVE  IInv'
  BY <1>0, <1>5, GoodPutArea, PublishKeeps DEF RegisterArea
<1>6. ASSUME NEW id \in AreaIds, NEW b \in Boxes, RegisterAreasBatch(id, b)
      PROVE  IInv'
  <2>1. Good(draft)
    BY <1>6 DEF RegisterAreasBatch
  <2> QED BY <1>6, <2>1, GoodPutArea, ExtendKeeps DEF RegisterAreasBatch
<1>7. ASSUME NEW s, s \in SnapshotSet, NEW t \in SnapshotSet, Good(s),
             t.obstacles = s.obstacles, t.obstacleTree = s.obstacleTree,
             t.areas = s.areas, t.areaTree = s.areaTree
      PROVE  Good(t)
  BY <1>7 DEF Good, AreasIndexed
<1>8. ASSUME NEW id \in AreaIds, LockArea(id)
      PROVE  IInv'
  <2> DEFINE c == Copy(snap)
             t == [c EXCEPT !.locked = @ \cup {id}]
  <2>1. c \in SnapshotSet
    BY <1>0 DEF Good
  <2> HIDE DEF c
  <2>2. /\ t \in SnapshotSet /\ t.obstacles = c.obstacles /\ t.obstacleTree = c.obstacleTree
        /\ t.areas = c.areas /\ t.areaTree = c.areaTree
    BY <2>1 DEF SnapshotSet
  <2>3. Good(t)
    <3> HIDE DEF t
    <3> QED BY <1>0, <1>7, <2>1, <2>2 DEF c
  <2>4. Publish(t)
    BY <1>8 DEF LockArea, c
  <2> HIDE DEF t
  <2> QED BY <2>3, <2>4, PublishKeeps
<1>9. ASSUME NEW id \in AreaIds, UnlockArea(id)
      PROVE  IInv'
  <2> DEFINE c == Copy(snap)
             t == [c EXCEPT !.locked = @ \ {id}]
  <2>1. c \in SnapshotSet
    BY <1>0 DEF Good
  <2> HIDE DEF c
  <2>2. /\ t \in SnapshotSet /\ t.obstacles = c.obstacles /\ t.obstacleTree = c.obstacleTree
        /\ t.areas = c.areas /\ t.areaTree = c.areaTree
    BY <2>1 DEF SnapshotSet
  <2>3. Good(t)
    <3> HIDE DEF t
    <3> QED BY <1>0, <1>7, <2>1, <2>2 DEF c
  <2>4. Publish(t)
    BY <1>9 DEF UnlockArea, c
  <2> HIDE DEF t
  <2> QED BY <2>3, <2>4, PublishKeeps
<1>10. ASSUME NEW k \in Layouts, SetMapContours(k)
       PROVE  IInv'
  <2> DEFINE c == Copy(snap)
             t == [c EXCEPT !.contours = k]
  <2>1. c \in SnapshotSet
    BY <1>0 DEF Good
  <2> HIDE DEF c
  <2>2. /\ t \in SnapshotSet /\ t.obstacles = c.obstacles /\ t.obstacleTree = c.obstacleTree
        /\ t.areas = c.areas /\ t.areaTree = c.areaTree
    BY <2>1 DEF SnapshotSet
  <2>3. Good(t)
    <3> HIDE DEF t
    <3> QED BY <1>0, <1>7, <2>1, <2>2 DEF c
  <2>4. Publish(t)
    BY <1>10 DEF SetMapContours, c
  <2> HIDE DEF t
  <2> QED BY <2>3, <2>4, PublishKeeps
<1>11. ASSUME NEW kind \in {"insert", "remove", "register"}, BeginBatch(kind)
       PROVE  IInv'
  <2>1. snap' = snap /\ draft' = Copy(snap) /\ batch' = [kind |-> kind, size |-> 0]
    BY <1>11 DEF BeginBatch
  <2>2. BatchOK'
    BY <2>1, MapAssumption DEF BatchOK
  <2> QED BY <1>0, <2>1, <2>2
<1>12. CASE EndBatch
  <2>1. draft' = NoDraft /\ batch' = NoBatch
    BY <1>12 DEF EndBatch
  <2>2. BatchOK' /\ batch'.kind = "none"
    BY <2>1, MapAssumption DEF BatchOK, NoBatch
  <2>3. Good(snap')
    BY <1>12 DEF EndBatch, BatchOK
  <2> QED BY <2>2, <2>3
<1>13. CASE UNCHANGED vars
  BY <1>13 DEF vars, BatchOK
<1> QED BY <1>1, <1>2, <1>3, <1>4, <1>5, <1>6, <1>8, <1>9, <1>10, <1>11, <1>12, <1>13 DEF Next

(* The invariant holds in every reachable state.                           *)
LEMMA Invariance == Spec => []IInv
BY InitGood, NextKeeps, PTL DEF Spec

-----------------------------------------------------------------------------
(* Geometry: the inflated circle of query reaches every overlapping box.   *)

(* Squares are natural numbers.                                            *)
LEMMA SquareNotNegative ==
  ASSUME NEW a \in Int
  PROVE  a * a \in Nat
OBVIOUS

(* The inequality of Cauchy and Schwarz, for the sides of two boxes.       *)
LEMMA SidesProduct ==
  ASSUME NEW w1 \in Nat, NEW h1 \in Nat, NEW w2 \in Nat, NEW h2 \in Nat
  PROVE  (w1 * w2 + h1 * h2) * (w1 * w2 + h1 * h2)
           <= (w1 * w1 + h1 * h1) * (w2 * w2 + h2 * h2)
<1> DEFINE e == w1 * h2 - w2 * h1
<1>1. e \in Int
  OBVIOUS
<1>2. e * e \in Nat
  <2> HIDE DEF e
  <2> QED BY <1>1, SquareNotNegative
<1>3. (w1 * w1 + h1 * h1) * (w2 * w2 + h2 * h2)
        = (w1 * w2 + h1 * h2) * (w1 * w2 + h1 * h2) + e * e
  OBVIOUS
<1>4. (w1 * w2 + h1 * h2) * (w1 * w2 + h1 * h2) \in Int
  OBVIOUS
<1> QED BY <1>2, <1>3, <1>4

(* |a| <= b, and the squares.                                              *)
LEMMA SquareOfBounded ==
  ASSUME NEW a \in Int, NEW b \in Nat, a <= b, -a <= b
  PROVE  a * a <= b * b
<1>1. CASE a >= 0
  <2>1. a \in Nat
    BY <1>1
  <2> QED BY <2>1, SquareMonotone
<1>2. CASE a < 0
  <2>1. -a \in Nat /\ a * a = (-a) * (-a)
    BY <1>2
  <2> QED BY <2>1, SquareMonotone
<1> QED BY <1>1, <1>2

(* A distance below the sum of the half diagonals is within the radius,    *)
(* also when the radius is taken from a larger diagonal.                   *)
LEMMA CircleReaches ==
  ASSUME NEW w1 \in Nat, NEW h1 \in Nat, NEW w2 \in Nat, NEW h2 \in Nat,
         NEW d2 \in Int, NEW m \in Nat,
         d2 < (w1 + w2) * (w1 + w2) + (h1 + h2) * (h1 + h2),
         w1 * w1 + h1 * h1 <= m
  PROVE  WithinRadius(d2, w2 * w2 + h2 * h2, m)
<1> DEFINE a == w1 * w1 + h1 * h1
           q == w2 * w2 + h2 * h2
           s == w1 * w2 + h1 * h2
           k == d2 - q - m
<1>1. a \in Nat /\ q \in Nat /\ s \in Nat /\ k \in Int
  <2>1. w1 * w1 \in Nat /\ h1 * h1 \in Nat /\ w2 * w2 \in Nat /\ h2 * h2 \in Nat
        /\ w1 * w2 \in Nat /\ h1 * h2 \in Nat
    OBVIOUS
  <2> QED BY <2>1
<1>2. (w1 + w2) * (w1 + w2) + (h1 + h2) * (h1 + h2) = a + q + 2 * s
  OBVIOUS
<1>3. k < 2 * s
  <2> HIDE DEF s, q
  <2>1. d2 < a + q + 2 * s /\ a <= m
    BY <1>2
  <2> HIDE DEF a
  <2> QED BY <1>1, <2>1
<1>4. s * s <= a * q
  BY SidesProduct
<1>5. a * q <= m * q
  <2>1. a <= m
    OBVIOUS
  <2> HIDE DEF a, q
  <2>2. m - a \in Nat
    BY <1>1, <2>1
  <2>3. (m - a) * q \in Nat
    BY <1>1, <2>2
  <2>4. (m - a) * q = m * q - a * q
    BY <1>1
  <2>5. m * q \in Int /\ a * q \in Int
    BY <1>1
  <2> QED BY <2>3, <2>4, <2>5
<1>6. k < 0 \/ k * k < 4 * q * m
  <2> HIDE DEF a, q, s, k
  <2> SUFFICES ASSUME k >= 0 PROVE k * k < 4 * q * m
    BY <1>1
  <2>1. k \in Nat /\ k + 1 \in Nat /\ k + 1 <= 2 * s /\ 2 * s \in Nat
    BY <1>1, <1>3
  <2>2. (k + 1) * (k + 1) <= (2 * s) * (2 * s)
    BY <2>1, SquareMonotone
  <2>3. k * k < (k + 1) * (k + 1)
    <3>1. (k + 1) * (k + 1) = k * k + 2 * k + 1 /\ k * k \in Int
      BY <2>1
    <3> QED BY <2>1, <3>1
  <2>4. (2 * s) * (2 * s) = 4 * (s * s)
    BY <1>1
  <2>5. 4 * q * m = 4 * (m * q)
    BY <1>1
  <2>6. s * s \in Int /\ a * q \in Int /\ m * q \in Int /\ k * k \in Int /\ (k + 1) * (k + 1) \in Int
    BY <1>1, <2>1
  <2> QED BY <1>4, <1>5, <2>2, <2>3, <2>4, <2>5, <2>6
<1> QED BY <1>6 DEF WithinRadius

(* Twice the distance of the centres of two overlapping boxes is less than *)
(* the sum of their diagonals, seen along the axes.                        *)
LEMMA OverlapIsNear ==
  ASSUME NEW a \in Boxes, NEW q \in Boxes, Overlap(a, q),
         NEW w1, w1 = a.x1 - a.x0, NEW h1, h1 = a.y1 - a.y0,
         NEW w2, w2 = q.x1 - q.x0, NEW h2, h2 = q.y1 - q.y0,
         NEW dx, dx = (a.x0 + a.x1) - (q.x0 + q.x1),
         NEW dy, dy = (a.y0 + a.y1) - (q.y0 + q.y1)
  PROVE  dx * dx + dy * dy < (w1 + w2) * (w1 + w2) + (h1 + h2) * (h1 + h2)
<1>1. /\ a.x0 \in Nat /\ a.x1 \in Nat /\ a.y0 \in Nat /\ a.y1 \in Nat
      /\ q.x0 \in Nat /\ q.x1 \in Nat /\ q.y0 \in Nat /\ q.y1 \in Nat
      /\ a.x0 <= a.x1 /\ a.y0 <= a.y1 /\ q.x0 <= q.x1 /\ q.y0 <= q.y1
  BY MapAssumption DEF Boxes
<1>2. /\ w1 \in Nat /\ h1 \in Nat /\ w2 \in Nat /\ h2 \in Nat /\ dx \in Int /\ dy \in Int
      /\ w1 + w2 \in Nat /\ h1 + h2 \in Nat
  BY <1>1
<1>3. dx <= w1 + w2 /\ -dx <= w1 + w2 /\ dy <= h1 + h2 /\ -dy <= h1 + h2
  BY <1>1 DEF Overlap
<1>4. \/ w1 + w2 - 1 \in Nat /\ dx <= w1 + w2 - 1 /\ -dx <= w1 + w2 - 1
      \/ h1 + h2 - 1 \in Nat /\ dy <= h1 + h2 - 1 /\ -dy <= h1 + h2 - 1
  <2>1. \/ a.x0 < a.x1 /\ a.x0 < q.x1 /\ q.x0 < a.x1 /\ q.x0 < q.x1
        \/ a.y0 < a.y1 /\ a.y0 < q.y1 /\ q.y0 < a.y1 /\ q.y0 < q.y1
    <3> DEFINE x0 == IF a.x0 > q.x0 THEN a.x0 ELSE q.x0
               x1 == IF a.x1 < q.x1 THEN a.x1 ELSE q.x1
               y0 == IF a.y0 > q.y0 THEN a.y0 ELSE q.y0
               y1 == IF a.y1 < q.y1 THEN a.y1 ELSE q.y1
    <3>1. x0 \in Nat /\ x1 \in Nat /\ y0 \in Nat /\ y1 \in Nat
      BY <1>1
    <3>2. x1 - x0 >= 0 /\ y1 - y0 >= 0 /\ (x1 - x0) + (y1 - y0) > 0
      BY DEF Overlap
    <3>3. x0 < x1 \/ y0 < y1
      <4> HIDE DEF x0, x1, y0, y1
      <4> QED BY <3>1, <3>2
    <3> QED BY <1>1, <3>3
  <2> QED BY <1>1, <2>1
<1> DEFINE w == w1 + w2  h == h1 + h2
<1>5. w \in Nat /\ h \in Nat /\ dx <= w /\ -dx <= w /\ dy <= h /\ -dy <= h
  BY <1>2, <1>3
<1>6. \/ w - 1 \in Nat /\ dx <= w - 1 /\ -dx <= w - 1
      \/ h - 1 \in Nat /\ dy <= h - 1 /\ -dy <= h - 1
  BY <1>4
<1> HIDE DEF w, h
<1>7. dx * dx <= w * w /\ dy * dy <= h * h
  BY <1>2, <1>5, SquareOfBounded
<1>8. dx * dx \in Int /\ dy * dy \in Int /\ w * w \in Int /\ h * h \in Int
  BY <1>2, <1>5
<1>9. ASSUME NEW c \in Int, NEW n \in Nat, n - 1 \in Nat, c <= n - 1, -c <= n - 1
      PROVE  c * c < n * n
  <2> DEFINE r == n - 1
  <2>1. r \in Nat /\ c <= r /\ -c <= r /\ n = r + 1
    BY <1>9
  <2> HIDE DEF r
  <2>2. c * c <= r * r
    BY <2>1, SquareOfBounded
  <2>3. (r + 1) * (r + 1) = r * r + 2 * r + 1
    BY <2>1
  <2>4. c * c \in Int /\ r * r \in Int
    BY <2>1
  <2> QED BY <2>1, <2>2, <2>3, <2>4
<1>10. dx * dx < w * w \/ dy * dy < h * h
  BY <1>2, <1>5, <1>6, <1>9
<1>11. dx * dx + dy * dy < w * w + h * h
  BY <1>7, <1>8, <1>10
<1> QED BY <1>11 DEF w, h

(* query finds the id of every point whose box comes near enough to the    *)
(* query box, which need not lie in the grid.                              *)
LEMMA QueryReaches ==
  ASSUME NEW ids, NEW ix, Sound(ix, ids), NEW id, NEW a \in Boxes,
         NEW q \in [x0 : Int, y0 : Int, x1 : Int, y1 : Int], q.x0 <= q.x1, q.y0 <= q.y1,
         NEW i \in DOMAIN ix.points, ix.points[i] = Entry(id, a),
         NEW w1, w1 = a.x1 - a.x0, NEW h1, h1 = a.y1 - a.y0,
         NEW w2, w2 = q.x1 - q.x0, NEW h2, h2 = q.y1 - q.y0,
         NEW dx, dx = (a.x0 + a.x1) - (q.x0 + q.x1),
         NEW dy, dy = (a.y0 + a.y1) - (q.y0 + q.y1),
         dx * dx + dy * dy < (w1 + w2) * (w1 + w2) + (h1 + h2) * (h1 + h2)
  PROVE  id \in Query(ix, q)
<1> DEFINE m == ix.maxDiag2
           e == ix.points[i]
           f == Entry(0, q)
<1>1. w1 \in Nat /\ h1 \in Nat /\ w2 \in Nat /\ h2 \in Nat /\ dx \in Int /\ dy \in Int
  BY MapAssumption DEF Boxes
<1>2. e.id = id /\ e.cx = a.x0 + a.x1 /\ e.cy = a.y0 + a.y1 /\ e.diag2 = w1 * w1 + h1 * h1
  BY DEF Entry, Diag2
<1>3. f.cx = q.x0 + q.x1 /\ f.cy = q.y0 + q.y1 /\ f.diag2 = w2 * w2 + h2 * h2
  BY DEF Entry, Diag2
<1>4. m \in Nat /\ e.diag2 <= m
  BY SoundFacts
<1>5. (e.cx - f.cx) * (e.cx - f.cx) + (e.cy - f.cy) * (e.cy - f.cy) = dx * dx + dy * dy
  BY <1>2, <1>3
<1>6. WithinRadius(dx * dx + dy * dy, w2 * w2 + h2 * h2, m)
  <2> DEFINE d2 == dx * dx + dy * dy
  <2>1. d2 \in Int
    BY <1>1
  <2>2. w1 * w1 + h1 * h1 <= m
    BY <1>2, <1>4
  <2> HIDE DEF m
  <2>3. d2 < (w1 + w2) * (w1 + w2) + (h1 + h2) * (h1 + h2)
    OBVIOUS
  <2> HIDE DEF d2
  <2>4. WithinRadius(d2, w2 * w2 + h2 * h2, m)
    BY <1>1, <1>4, <2>1, <2>2, <2>3, CircleReaches
  <2> QED BY <2>4 DEF d2
<1>7. WithinRadius((e.cx - f.cx) * (e.cx - f.cx) + (e.cy - f.cy) * (e.cy - f.cy), f.diag2, m)
  BY <1>3, <1>5, <1>6
<1> QED BY <1>2, <1>7 DEF Query

(* query finds the id of every point whose box overlaps the query box.     *)
LEMMA QueryFinds ==
  ASSUME NEW ids, NEW ix, Sound(ix, ids), NEW id, NEW a \in Boxes, NEW q \in Boxes,
         NEW i \in DOMAIN ix.points, ix.points[i] = Entry(id, a), Overlap(a, q)
  PROVE  id \in Query(ix, q)
<1> DEFINE w1 == a.x1 - a.x0  h1 == a.y1 - a.y0
           w2 == q.x1 - q.x0  h2 == q.y1 - q.y0
           dx == (a.x0 + a.x1) - (q.x0 + q.x1)
           dy == (a.y0 + a.y1) - (q.y0 + q.y1)
<1>1. /\ w1 = a.x1 - a.x0 /\ h1 = a.y1 - a.y0 /\ w2 = q.x1 - q.x0 /\ h2 = q.y1 - q.y0
      /\ dx = (a.x0 + a.x1) - (q.x0 + q.x1) /\ dy = (a.y0 + a.y1) - (q.y0 + q.y1)
  OBVIOUS
<1>2. q \in [x0 : Int, y0 : Int, x1 : Int, y1 : Int] /\ q.x0 <= q.x1 /\ q.y0 <= q.y1
  BY MapAssumption DEF Boxes
<1> HIDE DEF w1, h1, w2, h2, dx, dy
<1>3. dx * dx + dy * dy < (w1 + w2) * (w1 + w2) + (h1 + h2) * (h1 + h2)
  BY <1>1, OverlapIsNear
<1> QED BY <1>1, <1>2, <1>3, QueryReaches

-----------------------------------------------------------------------------
(* Theorems.                                                               *)

(* What membership in Tables says.                                         *)
LEMMA TableFacts ==
  ASSUME NEW ids, NEW values, NEW f \in Tables(ids, values)
  PROVE  DOMAIN f \subseteq ids /\ \A id \in DOMAIN f : f[id] \in values
<1>1. PICK D \in SUBSET ids : f \in [D -> values]
  BY DEF Tables
<1> QED BY <1>1

(* A sound index satisfies the index's part of the type invariant.         *)
LEMMA SoundIndexOK ==
  ASSUME NEW ids, NEW ix, Sound(ix, ids)
  PROVE  IndexOK(ix, ids)
<1> DEFINE f == ix.index
           B == MaxX * MaxX + MaxY * MaxY
<1>1. /\ ix.points \in Seq(Entries(ids)) /\ f \in Tables(ids, Position)
      /\ \A id \in DOMAIN f : f[id] \in DOMAIN ix.points
  BY DEF Sound, Indexes
<1>2. DOMAIN f \subseteq ids
  <2> HIDE DEF f
  <2> QED BY <1>1, TableFacts
<1>3. B \in Nat
  BY MapAssumption, SquareMonotone
<1>4. ix.maxDiag2 \in Nat
      /\ (ix.maxDiag2 # 0 => \E i \in 1..Len(ix.points) : ix.maxDiag2 = ix.points[i].diag2)
  BY SoundFacts
<1>5. \A i \in 1..Len(ix.points) : ix.points[i].diag2 \in 0..B
  <2>1. \A i \in 1..Len(ix.points) : ix.points[i] \in Entries(ids)
    BY <1>1
  <2> QED BY <2>1 DEF Entries
<1>6. ix.maxDiag2 \in 0..B
  <2> HIDE DEF B
  <2> QED BY <1>3, <1>4, <1>5
<1> QED BY <1>1, <1>2, <1>6 DEF IndexOK

(* Every snapshot a reader may load and every draft keeps its shape; in    *)
(* particular no entry of an index's id table points outside its points.   *)
THEOREM TypeCorrect == Spec => []TypeOK
<1>1. ASSUME NEW s, Good(s)
      PROVE  /\ DOMAIN s.obstacles \subseteq ObstacleIds
             /\ \A id \in DOMAIN s.obstacles : s.obstacles[id] \in Boxes
             /\ IndexOK(s.obstacleTree, ObstacleIds)
             /\ DOMAIN s.areas \subseteq AreaIds
             /\ \A id \in DOMAIN s.areas : s.areas[id] \in Boxes
             /\ IndexOK(s.areaTree, AreaIds)
             /\ s.locked \subseteq AreaIds
             /\ s.contours \in Layouts \cup {NoContours}
  <2> DEFINE f == s.obstacles  g == s.areas
  <2>1. /\ f \in Tables(ObstacleIds, Boxes) /\ g \in Tables(AreaIds, Boxes)
        /\ s.locked \subseteq AreaIds /\ s.contours \in Layouts \cup {NoContours}
    BY <1>1 DEF Good, SnapshotSet
  <2>2. IndexOK(s.obstacleTree, ObstacleIds) /\ IndexOK(s.areaTree, AreaIds)
    BY <1>1, SoundIndexOK DEF Good
  <2>3. DOMAIN f \subseteq ObstacleIds /\ \A id \in DOMAIN f : f[id] \in Boxes
    <3> HIDE DEF f
    <3> QED BY <2>1, TableFacts
  <2>4. DOMAIN g \subseteq AreaIds /\ \A id \in DOMAIN g : g[id] \in Boxes
    <3> HIDE DEF g
    <3> QED BY <2>1, TableFacts
  <2> QED BY <2>1, <2>2, <2>3, <2>4
<1>2. IInv => TypeOK
  <2> SUFFICES ASSUME IInv PROVE TypeOK
    OBVIOUS
  <2>1. \A s \in Snapshots : Good(s)
    BY DEF IInv, BatchOK, Snapshots
  <2> QED BY <1>1, <2>1 DEF TypeOK, IInv, BatchOK
<1> QED BY <1>2, Invariance, PTL

(* The indices say what the tables say, after any number of inserts,       *)
(* replacements, removals, registrations and batches of them.              *)
THEOREM IndexMatchesTable == Spec => []IndicesCoherent
<1>1. IInv => IndicesCoherent
  BY DEF IInv, BatchOK, Snapshots, Good, IndicesCoherent
<1> QED BY <1>1, Invariance, PTL

(* The cached maximum is the largest diagonal stored, although remove      *)
(* recomputes it only when the box it drops is as large.                   *)
THEOREM CachedMaximumCorrect == Spec => []MaximumExact
<1>1. IInv => MaximumExact
  BY DEF IInv, BatchOK, Snapshots, Good, Sound, MaximumExact
<1> QED BY <1>1, Invariance, PTL

(* A query misses no obstacle and no area that overlaps the query box, on  *)
(* a grid of any size.                                                     *)
THEOREM QueriesMissNothing == Spec => []NothingMissed
<1>1. IInv => NothingMissed
  <2> SUFFICES ASSUME IInv, NEW q \in Boxes
               PROVE  /\ \A id \in DOMAIN snap.obstacles :
                           Overlap(snap.obstacles[id], q) => id \in Query(snap.obstacleTree, q)
                      /\ \A id \in DOMAIN snap.areas :
                           Overlap(snap.areas[id], q) => id \in Query(snap.areaTree, q)
    BY DEF NothingMissed
  <2> DEFINE f == snap.obstacles  g == snap.areas
             ox == snap.obstacleTree  ax == snap.areaTree
  <2>1. /\ f \in Tables(ObstacleIds, Boxes) /\ g \in Tables(AreaIds, Boxes)
        /\ Sound(ox, ObstacleIds) /\ Sound(ax, AreaIds)
    BY DEF IInv, Good, SnapshotSet
  <2>2. \A id \in DOMAIN f : \E i \in DOMAIN ox.points : ox.points[i] = Entry(id, f[id])
    BY DEF IInv, Good, Coherent
  <2>3. \A id \in DOMAIN g : \E i \in DOMAIN ax.points : ax.points[i] = Entry(id, g[id])
    BY DEF IInv, Good, AreasIndexed
  <2> HIDE DEF f, g, ox, ax
  <2>4. \A id \in DOMAIN f : f[id] \in Boxes
    BY <2>1, TableFacts
  <2>5. \A id \in DOMAIN g : g[id] \in Boxes
    BY <2>1, TableFacts
  <2>6. ASSUME NEW id \in DOMAIN f, Overlap(f[id], q)
        PROVE  id \in Query(ox, q)
    <3>1. PICK i \in DOMAIN ox.points : ox.points[i] = Entry(id, f[id])
      BY <2>2
    <3> QED BY <2>1, <2>4, <2>6, <3>1, QueryFinds
  <2>7. ASSUME NEW id \in DOMAIN g, Overlap(g[id], q)
        PROVE  id \in Query(ax, q)
    <3>1. PICK i \in DOMAIN ax.points : ax.points[i] = Entry(id, g[id])
      BY <2>3
    <3> QED BY <2>1, <2>5, <2>7, <3>1, QueryFinds
  <2> QED BY <2>6, <2>7 DEF f, g, ox, ax
<1> QED BY <1>1, Invariance, PTL

-----------------------------------------------------------------------------
(* Paths.  Arithmetic.                                                     *)

(* |c| < n, and the squares.                                               *)
LEMMA SquareBelow ==
  ASSUME NEW c \in Int, NEW n \in Nat, c < n, -c < n
  PROVE  c * c < n * n
<1> DEFINE r == n - 1
<1>1. r \in Nat /\ c <= r /\ -c <= r /\ n = r + 1
  OBVIOUS
<1> HIDE DEF r
<1>2. c * c <= r * r
  BY <1>1, SquareOfBounded
<1>3. (r + 1) * (r + 1) = r * r + 2 * r + 1
  BY <1>1
<1>4. c * c \in Int /\ r * r \in Int
  BY <1>1
<1> QED BY <1>1, <1>2, <1>3, <1>4

(* The signs of a product.                                                 *)
LEMMA ProductSign ==
  ASSUME NEW a \in Int, NEW b \in Int
  PROVE  /\ a * b \in Int
         /\ a >= 0 /\ b >= 0 => a * b >= 0
         /\ a <= 0 /\ b <= 0 => a * b >= 0
         /\ a >= 0 /\ b <= 0 => a * b <= 0
         /\ a <= 0 /\ b >= 0 => a * b <= 0
         /\ a * b = 0 => a = 0 \/ b = 0
OBVIOUS

-----------------------------------------------------------------------------
(* Boxes and segments.                                                     *)

(* The coordinates of the grid.                                            *)
LEMMA GridFacts ==
  ASSUME NEW p \in Points, NEW q \in Points, NEW b \in Boxes
  PROVE  /\ p.x \in Int /\ p.y \in Int /\ q.x \in Int /\ q.y \in Int
         /\ b.x0 \in Int /\ b.x1 \in Int /\ b.y0 \in Int /\ b.y1 \in Int
         /\ b.x0 <= b.x1 /\ b.y0 <= b.y1
BY MapAssumption DEF Points, Boxes

(* The point of a box a segment crosses is within the circle with which    *)
(* the box of the segment is queried.                                      *)
LEMMA CrossedIsFound ==
  ASSUME NEW p \in Points, NEW q \in Points, NEW b \in Boxes, Crosses(p, q, b),
         NEW ids, NEW ix, Sound(ix, ids), NEW id,
         NEW i \in DOMAIN ix.points, ix.points[i] = Entry(id, b)
  PROVE  id \in Query(ix, SegmentBox(p, q))
<1> DEFINE s == SegmentBox(p, q)
           w1 == b.x1 - b.x0  h1 == b.y1 - b.y0
           w2 == s.x1 - s.x0  h2 == s.y1 - s.y0
           dx == (b.x0 + b.x1) - (s.x0 + s.x1)
           dy == (b.y0 + b.y1) - (s.y0 + s.y1)
<1>1. s \in [x0 : Int, y0 : Int, x1 : Int, y1 : Int] /\ s.x0 <= s.x1 /\ s.y0 <= s.y1
  BY GridFacts DEF SegmentBox, Lesser, Greater
<1>2. s.x0 < b.x1 /\ b.x0 < s.x1 /\ s.y0 < b.y1 /\ b.y0 < s.y1
  BY DEF Crosses, SegmentBox
<1> HIDE DEF s
<1>3. /\ w1 + w2 \in Nat /\ h1 + h2 \in Nat /\ dx \in Int /\ dy \in Int
      /\ dx < w1 + w2 /\ -dx < w1 + w2 /\ dy < h1 + h2 /\ -dy < h1 + h2
  BY <1>1, <1>2, GridFacts
<1>4. /\ w1 = b.x1 - b.x0 /\ h1 = b.y1 - b.y0 /\ w2 = s.x1 - s.x0 /\ h2 = s.y1 - s.y0
      /\ dx = (b.x0 + b.x1) - (s.x0 + s.x1) /\ dy = (b.y0 + b.y1) - (s.y0 + s.y1)
  OBVIOUS
<1> HIDE DEF w1, h1, w2, h2, dx, dy
<1>5. dx * dx + dy * dy < (w1 + w2) * (w1 + w2) + (h1 + h2) * (h1 + h2)
  <2> DEFINE w == w1 + w2  h == h1 + h2
  <2>1. w \in Nat /\ h \in Nat /\ dx < w /\ -dx < w /\ dy < h /\ -dy < h
    BY <1>3
  <2> HIDE DEF w, h
  <2>2. dx * dx < w * w /\ dy * dy < h * h
    BY <1>3, <2>1, SquareBelow
  <2>3. dx * dx \in Int /\ dy * dy \in Int /\ w * w \in Int /\ h * h \in Int
    BY <1>3, <2>1
  <2>4. dx * dx + dy * dy < w * w + h * h
    BY <2>2, <2>3
  <2> QED BY <2>4 DEF w, h
<1> QED BY <1>1, <1>4, <1>5, QueryReaches DEF s

(* The sides of the corners are integers, all 0 for a single point.        *)
LEMMA CornerSides ==
  ASSUME NEW p \in Points, NEW q \in Points, NEW b \in Boxes, NEW c \in Corners(b)
  PROVE  Side(p, q, c) \in Int /\ (p = q => Side(p, q, c) = 0)
<1>1. c.x \in Int /\ c.y \in Int
  BY GridFacts DEF Corners
<1>2. (q.x - p.x) * (c.y - p.y) \in Int /\ (q.y - p.y) * (c.x - p.x) \in Int
  BY <1>1, GridFacts
<1>3. p = q => (q.x - p.x) = 0 /\ (q.y - p.y) = 0
  BY GridFacts
<1>4. ASSUME p = q PROVE (q.x - p.x) * (c.y - p.y) = 0 /\ (q.y - p.y) * (c.x - p.x) = 0
  <2> DEFINE m == q.x - p.x  n == q.y - p.y  e == c.y - p.y  f == c.x - p.x
  <2>1. m = 0 /\ n = 0 /\ e \in Int /\ f \in Int
    BY <1>1, <1>3, <1>4, GridFacts
  <2> HIDE DEF m, n, e, f
  <2>2. m * e = 0 /\ n * f = 0
    BY <2>1
  <2> QED BY <2>2 DEF m, n, e, f
<1> QED BY <1>2, <1>4 DEF Side

(* A segment through the interior of a box meets the box.                  *)
LEMMA CrossedIsMet ==
  ASSUME NEW p \in Points, NEW q \in Points, NEW b \in Boxes, Crosses(p, q, b)
  PROVE  Intersects(p, q, b)
<1>1. /\ Lesser(p.x, q.x) <= b.x1 /\ b.x0 <= Greater(p.x, q.x)
      /\ Lesser(p.y, q.y) <= b.y1 /\ b.y0 <= Greater(p.y, q.y)
  BY GridFacts DEF Crosses, Lesser, Greater
<1>2. \E c \in Corners(b) : Side(p, q, c) >= 0
  <2>1. CASE p = q
    <3>1. [x |-> b.x0, y |-> b.y0] \in Corners(b)
      BY DEF Corners
    <3> QED BY <2>1, <3>1, CornerSides
  <2>2. CASE p # q
    BY <2>2, CornerSides DEF Crosses
  <2> QED BY <2>1, <2>2
<1>3. \E c \in Corners(b) : Side(p, q, c) <= 0
  <2>1. CASE p = q
    <3>1. [x |-> b.x0, y |-> b.y0] \in Corners(b)
      BY DEF Corners
    <3> QED BY <2>1, <3>1, CornerSides
  <2>2. CASE p # q
    BY <2>2, CornerSides DEF Crosses
  <2> QED BY <2>1, <2>2
<1> QED BY <1>1, <1>2, <1>3 DEF Intersects

-----------------------------------------------------------------------------
(* The geometry of areas: a segment through the interior of an area starts *)
(* in it, ends in it, or meets one of its edges.                           *)

(* A segment meets the edge from a to b if a and b are on different sides  *)
(* of it and its own ends on different sides of the edge.                  *)
LEMMA EdgeMet ==
  ASSUME NEW p \in [x : Int, y : Int], NEW q \in [x : Int, y : Int],
         NEW a \in [x : Int, y : Int], NEW b \in [x : Int, y : Int],
         Side(p, q, b) <= 0, 0 <= Side(p, q, a), Side(p, q, b) < Side(p, q, a),
         Side(a, b, p) <= 0, 0 <= Side(a, b, q)
  PROVE  SegmentsIntersect(p, q, a, b)
<1> DEFINE denom == (p.x - q.x) * (a.y - b.y) - (p.y - q.y) * (a.x - b.x)
           t == (p.x - a.x) * (a.y - b.y) - (p.y - a.y) * (a.x - b.x)
           u == -((p.x - q.x) * (p.y - a.y) - (p.y - q.y) * (p.x - a.x))
<1>1. /\ p.x \in Int /\ p.y \in Int /\ q.x \in Int /\ q.y \in Int
      /\ a.x \in Int /\ a.y \in Int /\ b.x \in Int /\ b.y \in Int
  OBVIOUS
<1>2. Side(p, q, a) = -u /\ u \in Int
  BY <1>1 DEF Side
<1>3. Side(p, q, b) = denom - u /\ denom \in Int
  BY <1>1 DEF Side
<1>4. Side(a, b, p) = t /\ t \in Int
  BY <1>1 DEF Side
<1>5. Side(a, b, q) = t - denom
  BY <1>1 DEF Side
<1> HIDE DEF denom, t, u
<1>6. denom < 0 /\ denom <= t /\ t <= 0 /\ denom <= u /\ u <= 0
  BY <1>2, <1>3, <1>4, <1>5
<1>7. denom # 0 /\ ~(denom > 0)
  BY <1>3, <1>6
<1> QED BY <1>6, <1>7 DEF SegmentsIntersect, denom, t, u

(* The corners of a box, and which side of an edge a point lies on.        *)
LEMMA EdgeSides ==
  ASSUME NEW b \in Boxes, NEW p \in Points,
         NEW bl, bl = [x |-> b.x0, y |-> b.y0], NEW br, br = [x |-> b.x1, y |-> b.y0],
         NEW tl, tl = [x |-> b.x0, y |-> b.y1], NEW tr, tr = [x |-> b.x1, y |-> b.y1]
  PROVE  /\ p.y <= b.y0 => Side(bl, br, p) <= 0
         /\ p.y >= b.y0 => Side(bl, br, p) >= 0
         /\ p.x >= b.x1 => Side(br, tr, p) <= 0
         /\ p.x <= b.x1 => Side(br, tr, p) >= 0
         /\ p.y >= b.y1 => Side(tr, tl, p) <= 0
         /\ p.y <= b.y1 => Side(tr, tl, p) >= 0
         /\ p.x <= b.x0 => Side(tl, bl, p) <= 0
         /\ p.x >= b.x0 => Side(tl, bl, p) >= 0
<1> DEFINE w == b.x1 - b.x0  h == b.y1 - b.y0
<1>0. /\ p.x \in Int /\ p.y \in Int /\ w \in Int /\ h \in Int /\ w >= 0 /\ h >= 0
      /\ b.x0 \in Int /\ b.x1 \in Int /\ b.y0 \in Int /\ b.y1 \in Int
  BY GridFacts
<1>1. Side(bl, br, p) = w * (p.y - b.y0)
  BY <1>0 DEF Side
<1>2. Side(br, tr, p) = h * (b.x1 - p.x)
  BY <1>0 DEF Side
<1>3. Side(tr, tl, p) = w * (b.y1 - p.y)
  BY <1>0 DEF Side
<1>4. Side(tl, bl, p) = h * (p.x - b.x0)
  BY <1>0 DEF Side
<1> HIDE DEF w, h
<1>5. /\ p.y - b.y0 \in Int /\ b.x1 - p.x \in Int /\ b.y1 - p.y \in Int /\ p.x - b.x0 \in Int
      /\ p.y <= b.y0 => p.y - b.y0 <= 0
      /\ p.y >= b.y0 => p.y - b.y0 >= 0
      /\ p.x >= b.x1 => b.x1 - p.x <= 0
      /\ p.x <= b.x1 => b.x1 - p.x >= 0
      /\ p.y >= b.y1 => b.y1 - p.y <= 0
      /\ p.y <= b.y1 => b.y1 - p.y >= 0
      /\ p.x <= b.x0 => p.x - b.x0 <= 0
      /\ p.x >= b.x0 => p.x - b.x0 >= 0
  BY <1>0
<1> QED BY <1>0, <1>1, <1>2, <1>3, <1>4, <1>5, ProductSign

(* Which side of the segment the corners lie on: moving along an edge      *)
(* changes the side by the product of the edge and the segment.            *)
LEMMA CornerRelations ==
  ASSUME NEW b \in Boxes, NEW p \in Points, NEW q \in Points,
         NEW dx, dx = q.x - p.x, NEW dy, dy = q.y - p.y,
         NEW bl, bl = [x |-> b.x0, y |-> b.y0], NEW br, br = [x |-> b.x1, y |-> b.y0],
         NEW tl, tl = [x |-> b.x0, y |-> b.y1], NEW tr, tr = [x |-> b.x1, y |-> b.y1]
  PROVE  /\ Side(p, q, bl) \in Int /\ Side(p, q, br) \in Int
         /\ Side(p, q, tl) \in Int /\ Side(p, q, tr) \in Int
         /\ dy >= 0 => Side(p, q, br) <= Side(p, q, bl) /\ Side(p, q, tr) <= Side(p, q, tl)
         /\ dy <= 0 => Side(p, q, br) >= Side(p, q, bl) /\ Side(p, q, tr) >= Side(p, q, tl)
         /\ dx >= 0 => Side(p, q, tl) >= Side(p, q, bl) /\ Side(p, q, tr) >= Side(p, q, br)
         /\ dx <= 0 => Side(p, q, tl) <= Side(p, q, bl) /\ Side(p, q, tr) <= Side(p, q, br)
<1> DEFINE w == b.x1 - b.x0  h == b.y1 - b.y0
           m == dx * (b.y0 - p.y)  n == dy * (b.x0 - p.x)
<1>0. /\ dx \in Int /\ dy \in Int /\ w \in Int /\ h \in Int /\ w >= 0 /\ h >= 0
      /\ p.x \in Int /\ p.y \in Int
      /\ b.x0 \in Int /\ b.x1 \in Int /\ b.y0 \in Int /\ b.y1 \in Int
      /\ m \in Int /\ n \in Int
  BY GridFacts
<1>1. Side(p, q, bl) = m - n
  BY DEF Side
<1>2. Side(p, q, br) = m - (n + dy * w)
  <2>1. dy * (b.x1 - p.x) = n + dy * w
    BY <1>0
  <2>2. Side(p, q, br) = m - dy * (b.x1 - p.x)
    BY DEF Side
  <2> QED BY <2>1, <2>2
<1>3. Side(p, q, tl) = (m + dx * h) - n
  <2>1. dx * (b.y1 - p.y) = m + dx * h
    BY <1>0
  <2>2. Side(p, q, tl) = dx * (b.y1 - p.y) - n
    BY DEF Side
  <2> QED BY <2>1, <2>2
<1>4. Side(p, q, tr) = (m + dx * h) - (n + dy * w)
  <2>1. dx * (b.y1 - p.y) = m + dx * h /\ dy * (b.x1 - p.x) = n + dy * w
    BY <1>0
  <2>2. Side(p, q, tr) = dx * (b.y1 - p.y) - dy * (b.x1 - p.x)
    BY DEF Side
  <2> QED BY <2>1, <2>2
<1> HIDE DEF m, n, w, h
<1>5. /\ dx * h \in Int /\ dy * w \in Int
      /\ dx >= 0 => dx * h >= 0
      /\ dx <= 0 => dx * h <= 0
      /\ dy >= 0 => dy * w >= 0
      /\ dy <= 0 => dy * w <= 0
  BY <1>0, ProductSign
<1> DEFINE a == dx * h  c == dy * w
<1>6. /\ a \in Int /\ c \in Int
      /\ (dx >= 0 => a >= 0) /\ (dx <= 0 => a <= 0) /\ (dy >= 0 => c >= 0) /\ (dy <= 0 => c <= 0)
      /\ Side(p, q, bl) = m - n /\ Side(p, q, br) = m - (n + c)
      /\ Side(p, q, tl) = (m + a) - n /\ Side(p, q, tr) = (m + a) - (n + c)
  BY <1>1, <1>2, <1>3, <1>4, <1>5
<1> HIDE DEF a, c
<1> QED BY <1>0, <1>6

(* Two products that do not vanish together and have different signs.      *)
LEMMA StrictSide ==
  ASSUME NEW dx \in Int, NEW dy \in Int, dx # 0 \/ dy # 0,
         NEW e \in Int, NEW f \in Int, e # 0, f # 0
  PROVE  /\ dx * e <= 0 /\ dy * f >= 0 => dx * e - dy * f < 0
         /\ dx * e >= 0 /\ dy * f <= 0 => dx * e - dy * f > 0
<1> DEFINE a == dx * e  c == dy * f
<1>1. a \in Int /\ c \in Int /\ (a # 0 \/ c # 0)
  BY ProductSign
<1> HIDE DEF a, c
<1>2. (a <= 0 /\ c >= 0 => a - c < 0) /\ (a >= 0 /\ c <= 0 => a - c > 0)
  BY <1>1
<1> QED BY <1>2 DEF a, c

(* Unless it starts inside, the segment starts beyond one of the two edges *)
(* it runs towards, and the corner between the two tells through which of  *)
(* them it enters: one case per direction of the segment.                  *)
LEMMA AreaEntered ==
  ASSUME NEW p \in Points, NEW q \in Points, NEW b \in Boxes, Crosses(p, q, b)
  PROVE  EntersArea(p, q, b)
<1> SUFFICES ASSUME ~Inside(p, b) PROVE EntersArea(p, q, b)
  BY DEF EntersArea
<1> DEFINE dx == q.x - p.x  dy == q.y - p.y
           bl == [x |-> b.x0, y |-> b.y0]  br == [x |-> b.x1, y |-> b.y0]
           tl == [x |-> b.x0, y |-> b.y1]  tr == [x |-> b.x1, y |-> b.y1]
<1>1. /\ p.x \in Int /\ p.y \in Int /\ q.x \in Int /\ q.y \in Int
      /\ b.x0 \in Int /\ b.x1 \in Int /\ b.y0 \in Int /\ b.y1 \in Int
      /\ b.x0 <= b.x1 /\ b.y0 <= b.y1 /\ dx \in Int /\ dy \in Int
  BY GridFacts
<1>2. /\ Lesser(p.x, q.x) < b.x1 /\ b.x0 < Greater(p.x, q.x)
      /\ Lesser(p.y, q.y) < b.y1 /\ b.y0 < Greater(p.y, q.y)
  BY DEF Crosses
<1>3. p.x < b.x0 \/ p.x > b.x1 \/ p.y < b.y0 \/ p.y > b.y1
  BY <1>1 DEF Inside
<1>4. p # q
  BY <1>1, <1>2, <1>3 DEF Lesser, Greater
<1>5. dx # 0 \/ dy # 0
  BY <1>1, <1>4 DEF Points
<1>6. /\ Side(p, q, bl) > 0 \/ Side(p, q, br) > 0 \/ Side(p, q, tl) > 0 \/ Side(p, q, tr) > 0
      /\ Side(p, q, bl) < 0 \/ Side(p, q, br) < 0 \/ Side(p, q, tl) < 0 \/ Side(p, q, tr) < 0
  BY <1>4 DEF Crosses, Corners
<1>7. /\ bl \in [x : Int, y : Int] /\ br \in [x : Int, y : Int]
      /\ tl \in [x : Int, y : Int] /\ tr \in [x : Int, y : Int]
      /\ p \in [x : Int, y : Int] /\ q \in [x : Int, y : Int]
  BY <1>1 DEF Points
<1>8. /\ Side(p, q, bl) = dx * (b.y0 - p.y) - dy * (b.x0 - p.x)
      /\ Side(p, q, br) = dx * (b.y0 - p.y) - dy * (b.x1 - p.x)
      /\ Side(p, q, tl) = dx * (b.y1 - p.y) - dy * (b.x0 - p.x)
      /\ Side(p, q, tr) = dx * (b.y1 - p.y) - dy * (b.x1 - p.x)
  BY DEF Side
<1>9. /\ Side(p, q, bl) \in Int /\ Side(p, q, br) \in Int
      /\ Side(p, q, tl) \in Int /\ Side(p, q, tr) \in Int
      /\ dy >= 0 => Side(p, q, br) <= Side(p, q, bl) /\ Side(p, q, tr) <= Side(p, q, tl)
      /\ dy <= 0 => Side(p, q, br) >= Side(p, q, bl) /\ Side(p, q, tr) >= Side(p, q, tl)
      /\ dx >= 0 => Side(p, q, tl) >= Side(p, q, bl) /\ Side(p, q, tr) >= Side(p, q, br)
      /\ dx <= 0 => Side(p, q, tl) <= Side(p, q, bl) /\ Side(p, q, tr) <= Side(p, q, br)
  <2> DEFINE ex == dx  ey == dy
  <2>1. ex = q.x - p.x /\ ey = q.y - p.y
    OBVIOUS
  <2> HIDE DEF ex, ey
  <2> DEFINE cbl == bl  cbr == br  ctl == tl  ctr == tr
  <2>2. /\ cbl = [x |-> b.x0, y |-> b.y0] /\ cbr = [x |-> b.x1, y |-> b.y0]
        /\ ctl = [x |-> b.x0, y |-> b.y1] /\ ctr = [x |-> b.x1, y |-> b.y1]
    OBVIOUS
  <2> HIDE DEF cbl, cbr, ctl, ctr
  <2>3. /\ Side(p, q, cbl) \in Int /\ Side(p, q, cbr) \in Int
        /\ Side(p, q, ctl) \in Int /\ Side(p, q, ctr) \in Int
        /\ ey >= 0 => Side(p, q, cbr) <= Side(p, q, cbl) /\ Side(p, q, ctr) <= Side(p, q, ctl)
        /\ ey <= 0 => Side(p, q, cbr) >= Side(p, q, cbl) /\ Side(p, q, ctr) >= Side(p, q, ctl)
        /\ ex >= 0 => Side(p, q, ctl) >= Side(p, q, cbl) /\ Side(p, q, ctr) >= Side(p, q, cbr)
        /\ ex <= 0 => Side(p, q, ctl) <= Side(p, q, cbl) /\ Side(p, q, ctr) <= Side(p, q, cbr)
    BY <2>1, <2>2, CornerRelations
  <2> QED BY <2>3 DEF ex, ey, cbl, cbr, ctl, ctr
<1>10. \A r \in {p, q} :
         /\ r.y <= b.y0 => Side(bl, br, r) <= 0
         /\ r.y >= b.y0 => Side(bl, br, r) >= 0
         /\ r.x >= b.x1 => Side(br, tr, r) <= 0
         /\ r.x <= b.x1 => Side(br, tr, r) >= 0
         /\ r.y >= b.y1 => Side(tr, tl, r) <= 0
         /\ r.y <= b.y1 => Side(tr, tl, r) >= 0
         /\ r.x <= b.x0 => Side(tl, bl, r) <= 0
         /\ r.x >= b.x0 => Side(tl, bl, r) >= 0
  BY EdgeSides
<1>11. /\ SegmentsIntersect(p, q, bl, br) => EntersArea(p, q, b)
       /\ SegmentsIntersect(p, q, br, tr) => EntersArea(p, q, b)
       /\ SegmentsIntersect(p, q, tr, tl) => EntersArea(p, q, b)
       /\ SegmentsIntersect(p, q, tl, bl) => EntersArea(p, q, b)
  BY DEF EntersArea
<1> DEFINE sbl == Side(p, q, bl)  sbr == Side(p, q, br)
           stl == Side(p, q, tl)  str == Side(p, q, tr)
<1> HIDE DEF bl, br, tl, tr, dx, dy
<1>12. CASE dx >= 0 /\ dy >= 0
  <2>1. stl > 0 /\ sbr < 0
    BY <1>6, <1>9, <1>12
  <2>2. /\ p.x < b.x1 /\ q.x > b.x0
        /\ p.y < b.y1 /\ q.y > b.y0
    BY <1>1, <1>2, <1>12 DEF Lesser, Greater, dx, dy
  <2>3. p.x < b.x0 \/ p.y < b.y0
    BY <1>1, <1>3, <2>2
  <2> DEFINE e == b.y0 - p.y  f == b.x0 - p.x
  <2>4. /\ e \in Int /\ f \in Int
        /\ p.x > b.x0 => f < 0
        /\ p.x < b.x0 => f > 0
        /\ p.y > b.y0 => e < 0
        /\ p.y < b.y0 => e > 0
    BY <1>1
  <2>5. sbl = dx * e - dy * f
    BY <1>8 DEF bl, br, tl, tr, dx, dy
  <2> HIDE DEF e, f
  <2>6. CASE sbl >= 0
    <3>1. p.y <= b.y0
      <4> SUFFICES ASSUME ~(p.y <= b.y0) PROVE FALSE
        OBVIOUS
      <4>1. e < 0 /\ f > 0
        BY <1>1, <2>3, <2>4
      <4>2. dx * e <= 0 /\ dy * f >= 0
        BY <1>1, <1>12, <2>4, <4>1, ProductSign
      <4>3. sbl < 0
        BY <1>1, <1>5, <2>4, <2>5, <4>1, <4>2, StrictSide
      <4> QED BY <1>9, <2>6, <4>3
    <3>2. SegmentsIntersect(p, q, bl, br)
      <4>1. Side(bl, br, p) <= 0 /\ 0 <= Side(bl, br, q)
        BY <1>1, <1>10, <2>2, <3>1
      <4> QED BY <1>7, <1>9, <2>1, <2>6, <4>1, EdgeMet
    <3> QED BY <1>11, <3>2
  <2>7. CASE sbl < 0
    <3>1. p.x <= b.x0
      <4> SUFFICES ASSUME ~(p.x <= b.x0) PROVE FALSE
        OBVIOUS
      <4>1. e > 0 /\ f < 0
        BY <1>1, <2>3, <2>4
      <4>2. dx * e >= 0 /\ dy * f <= 0
        BY <1>1, <1>12, <2>4, <4>1, ProductSign
      <4>3. sbl > 0
        BY <1>1, <1>5, <2>4, <2>5, <4>1, <4>2, StrictSide
      <4> QED BY <1>9, <2>7, <4>3
    <3>2. SegmentsIntersect(p, q, tl, bl)
      <4>1. Side(tl, bl, p) <= 0 /\ 0 <= Side(tl, bl, q)
        BY <1>1, <1>10, <2>2, <3>1
      <4> QED BY <1>7, <1>9, <2>1, <2>7, <4>1, EdgeMet
    <3> QED BY <1>11, <3>2
  <2> QED BY <1>9, <2>6, <2>7
<1>13. CASE dx >= 0 /\ dy <= 0
  <2>1. str > 0 /\ sbl < 0
    BY <1>6, <1>9, <1>13
  <2>2. /\ p.x < b.x1 /\ q.x > b.x0
        /\ p.y > b.y0 /\ q.y < b.y1
    BY <1>1, <1>2, <1>13 DEF Lesser, Greater, dx, dy
  <2>3. p.x < b.x0 \/ p.y > b.y1
    BY <1>1, <1>3, <2>2
  <2> DEFINE e == b.y1 - p.y  f == b.x0 - p.x
  <2>4. /\ e \in Int /\ f \in Int
        /\ p.x > b.x0 => f < 0
        /\ p.x < b.x0 => f > 0
        /\ p.y < b.y1 => e > 0
        /\ p.y > b.y1 => e < 0
    BY <1>1
  <2>5. stl = dx * e - dy * f
    BY <1>8 DEF bl, br, tl, tr, dx, dy
  <2> HIDE DEF e, f
  <2>6. CASE stl <= 0
    <3>1. p.y >= b.y1
      <4> SUFFICES ASSUME ~(p.y >= b.y1) PROVE FALSE
        OBVIOUS
      <4>1. e > 0 /\ f > 0
        BY <1>1, <2>3, <2>4
      <4>2. dx * e >= 0 /\ dy * f <= 0
        BY <1>1, <1>13, <2>4, <4>1, ProductSign
      <4>3. stl > 0
        BY <1>1, <1>5, <2>4, <2>5, <4>1, <4>2, StrictSide
      <4> QED BY <1>9, <2>6, <4>3
    <3>2. SegmentsIntersect(p, q, tr, tl)
      <4>1. Side(tr, tl, p) <= 0 /\ 0 <= Side(tr, tl, q)
        BY <1>1, <1>10, <2>2, <3>1
      <4> QED BY <1>7, <1>9, <2>1, <2>6, <4>1, EdgeMet
    <3> QED BY <1>11, <3>2
  <2>7. CASE stl > 0
    <3>1. p.x <= b.x0
      <4> SUFFICES ASSUME ~(p.x <= b.x0) PROVE FALSE
        OBVIOUS
      <4>1. e < 0 /\ f < 0
        BY <1>1, <2>3, <2>4
      <4>2. dx * e <= 0 /\ dy * f >= 0
        BY <1>1, <1>13, <2>4, <4>1, ProductSign
      <4>3. stl < 0
        BY <1>1, <1>5, <2>4, <2>5, <4>1, <4>2, StrictSide
      <4> QED BY <1>9, <2>7, <4>3
    <3>2. SegmentsIntersect(p, q, tl, bl)
      <4>1. Side(tl, bl, p) <= 0 /\ 0 <= Side(tl, bl, q)
        BY <1>1, <1>10, <2>2, <3>1
      <4> QED BY <1>7, <1>9, <2>1, <2>7, <4>1, EdgeMet
    <3> QED BY <1>11, <3>2
  <2> QED BY <1>9, <2>6, <2>7
<1>14. CASE dx <= 0 /\ dy >= 0
  <2>1. sbl > 0 /\ str < 0
    BY <1>6, <1>9, <1>14
  <2>2. /\ p.x > b.x0 /\ q.x < b.x1
        /\ p.y < b.y1 /\ q.y > b.y0
    BY <1>1, <1>2, <1>14 DEF Lesser, Greater, dx, dy
  <2>3. p.x > b.x1 \/ p.y < b.y0
    BY <1>1, <1>3, <2>2
  <2> DEFINE e == b.y0 - p.y  f == b.x1 - p.x
  <2>4. /\ e \in Int /\ f \in Int
        /\ p.x < b.x1 => f > 0
        /\ p.x > b.x1 => f < 0
        /\ p.y > b.y0 => e < 0
        /\ p.y < b.y0 => e > 0
    BY <1>1
  <2>5. sbr = dx * e - dy * f
    BY <1>8 DEF bl, br, tl, tr, dx, dy
  <2> HIDE DEF e, f
  <2>6. CASE sbr <= 0
    <3>1. p.y <= b.y0
      <4> SUFFICES ASSUME ~(p.y <= b.y0) PROVE FALSE
        OBVIOUS
      <4>1. e < 0 /\ f < 0
        BY <1>1, <2>3, <2>4
      <4>2. dx * e >= 0 /\ dy * f <= 0
        BY <1>1, <1>14, <2>4, <4>1, ProductSign
      <4>3. sbr > 0
        BY <1>1, <1>5, <2>4, <2>5, <4>1, <4>2, StrictSide
      <4> QED BY <1>9, <2>6, <4>3
    <3>2. SegmentsIntersect(p, q, bl, br)
      <4>1. Side(bl, br, p) <= 0 /\ 0 <= Side(bl, br, q)
        BY <1>1, <1>10, <2>2, <3>1
      <4> QED BY <1>7, <1>9, <2>1, <2>6, <4>1, EdgeMet
    <3> QED BY <1>11, <3>2
  <2>7. CASE sbr > 0
    <3>1. p.x >= b.x1
      <4> SUFFICES ASSUME ~(p.x >= b.x1) PROVE FALSE
        OBVIOUS
      <4>1. e > 0 /\ f > 0
        BY <1>1, <2>3, <2>4
      <4>2. dx * e <= 0 /\ dy * f >= 0
        BY <1>1, <1>14, <2>4, <4>1, ProductSign
      <4>3. sbr < 0
        BY <1>1, <1>5, <2>4, <2>5, <4>1, <4>2, StrictSide
      <4> QED BY <1>9, <2>7, <4>3
    <3>2. SegmentsIntersect(p, q, br, tr)
      <4>1. Side(br, tr, p) <= 0 /\ 0 <= Side(br, tr, q)
        BY <1>1, <1>10, <2>2, <3>1
      <4> QED BY <1>7, <1>9, <2>1, <2>7, <4>1, EdgeMet
    <3> QED BY <1>11, <3>2
  <2> QED BY <1>9, <2>6, <2>7
<1>15. CASE dx <= 0 /\ dy <= 0
  <2>1. sbr > 0 /\ stl < 0
    BY <1>6, <1>9, <1>15
  <2>2. /\ p.x > b.x0 /\ q.x < b.x1
        /\ p.y > b.y0 /\ q.y < b.y1
    BY <1>1, <1>2, <1>15 DEF Lesser, Greater, dx, dy
  <2>3. p.x > b.x1 \/ p.y > b.y1
    BY <1>1, <1>3, <2>2
  <2> DEFINE e == b.y1 - p.y  f == b.x1 - p.x
  <2>4. /\ e \in Int /\ f \in Int
        /\ p.x < b.x1 => f > 0
        /\ p.x > b.x1 => f < 0
        /\ p.y < b.y1 => e > 0
        /\ p.y > b.y1 => e < 0
    BY <1>1
  <2>5. str = dx * e - dy * f
    BY <1>8 DEF bl, br, tl, tr, dx, dy
  <2> HIDE DEF e, f
  <2>6. CASE str >= 0
    <3>1. p.y >= b.y1
      <4> SUFFICES ASSUME ~(p.y >= b.y1) PROVE FALSE
        OBVIOUS
      <4>1. e > 0 /\ f < 0
        BY <1>1, <2>3, <2>4
      <4>2. dx * e <= 0 /\ dy * f >= 0
        BY <1>1, <1>15, <2>4, <4>1, ProductSign
      <4>3. str < 0
        BY <1>1, <1>5, <2>4, <2>5, <4>1, <4>2, StrictSide
      <4> QED BY <1>9, <2>6, <4>3
    <3>2. SegmentsIntersect(p, q, tr, tl)
      <4>1. Side(tr, tl, p) <= 0 /\ 0 <= Side(tr, tl, q)
        BY <1>1, <1>10, <2>2, <3>1
      <4> QED BY <1>7, <1>9, <2>1, <2>6, <4>1, EdgeMet
    <3> QED BY <1>11, <3>2
  <2>7. CASE str < 0
    <3>1. p.x >= b.x1
      <4> SUFFICES ASSUME ~(p.x >= b.x1) PROVE FALSE
        OBVIOUS
      <4>1. e < 0 /\ f > 0
        BY <1>1, <2>3, <2>4
      <4>2. dx * e >= 0 /\ dy * f <= 0
        BY <1>1, <1>15, <2>4, <4>1, ProductSign
      <4>3. str > 0
        BY <1>1, <1>5, <2>4, <2>5, <4>1, <4>2, StrictSide
      <4> QED BY <1>9, <2>7, <4>3
    <3>2. SegmentsIntersect(p, q, br, tr)
      <4>1. Side(br, tr, p) <= 0 /\ 0 <= Side(br, tr, q)
        BY <1>1, <1>10, <2>2, <3>1
      <4> QED BY <1>7, <1>9, <2>1, <2>7, <4>1, EdgeMet
    <3> QED BY <1>11, <3>2
  <2> QED BY <1>9, <2>6, <2>7
<1> QED BY <1>1, <1>12, <1>13, <1>14, <1>15 DEF dx, dy

-----------------------------------------------------------------------------
(* The expanding search for the nearest obstacle.                          *)

(* A non-empty set of natural numbers has a least element.                 *)
LEMMA LeastOf ==
  ASSUME NEW S \in SUBSET Nat, S # {}
  PROVE  Least(S) \in S /\ \A n \in S : Least(S) <= n
<1>1. PICK x \in S : \A y \in S : ~(<<y, x>> \in OpToRel(<, Nat))
  BY NatLessThanWellFounded, WFMin
<1>2. \A y \in S : ~(y < x)
  BY <1>1 DEF OpToRel
<1>3. \A y \in S : x <= y
  BY <1>2
<1> QED BY <1>3 DEF Least

(* The triangle inequality: a box at a distance below sqrt(q)/2 is within  *)
(* the circle around a query box of squared diagonal q.                    *)
LEMMA CircleCovers ==
  ASSUME NEW w1 \in Nat, NEW h1 \in Nat, NEW w2 \in Nat, NEW h2 \in Nat,
         NEW d2 \in Int, NEW m \in Nat, NEW q \in Nat,
         d2 <= (w1 + w2) * (w1 + w2) + (h1 + h2) * (h1 + h2),
         w1 * w1 + h1 * h1 <= m, w2 * w2 + h2 * h2 < q
  PROVE  WithinRadius(d2, q, m)
<1> DEFINE a == w1 * w1 + h1 * h1
           c == w2 * w2 + h2 * h2
           s == w1 * w2 + h1 * h2
           k == d2 - q - m
<1>1. a \in Nat /\ c \in Nat /\ s \in Nat /\ k \in Int
  <2>1. w1 * w1 \in Nat /\ h1 * h1 \in Nat /\ w2 * w2 \in Nat /\ h2 * h2 \in Nat
        /\ w1 * w2 \in Nat /\ h1 * h2 \in Nat
    OBVIOUS
  <2> QED BY <2>1
<1>2. (w1 + w2) * (w1 + w2) + (h1 + h2) * (h1 + h2) = a + c + 2 * s
  OBVIOUS
<1>3. k < 2 * s
  <2> HIDE DEF s, c
  <2>1. d2 <= a + c + 2 * s /\ a <= m /\ c < q
    BY <1>2 DEF c
  <2> HIDE DEF a
  <2> QED BY <1>1, <2>1
<1>4. s * s <= a * c
  BY SidesProduct
<1>5. a * c <= m * q
  <2>1. a <= m /\ c <= q
    BY <1>1
  <2> HIDE DEF a, c
  <2>2. (m - a) * q \in Nat /\ (q - c) * a \in Nat
    BY <1>1, <2>1
  <2>3. (m - a) * q = m * q - a * q /\ (q - c) * a = a * q - a * c
    BY <1>1
  <2>4. m * q \in Int /\ a * q \in Int /\ a * c \in Int
    BY <1>1
  <2> QED BY <2>2, <2>3, <2>4
<1>6. k < 0 \/ k * k < 4 * q * m
  <2> HIDE DEF a, c, s, k
  <2> SUFFICES ASSUME k >= 0 PROVE k * k < 4 * q * m
    BY <1>1
  <2>1. k \in Nat /\ 2 * s \in Nat /\ k < 2 * s /\ -k < 2 * s
    BY <1>1, <1>3
  <2>2. k * k < (2 * s) * (2 * s)
    BY <2>1, SquareBelow
  <2>3. (2 * s) * (2 * s) = 4 * (s * s) /\ 4 * q * m = 4 * (m * q)
    BY <1>1
  <2>4. s * s \in Int /\ a * c \in Int /\ m * q \in Int /\ k * k \in Int
    BY <1>1, <2>1
  <2> QED BY <1>4, <1>5, <2>2, <2>3, <2>4
<1> QED BY <1>6 DEF WithinRadius

(* How far a point is from a box along one axis.                           *)
Gap(lo, hi, c) == Greater(Greater(lo - c, c - hi), 0)

LEMMA GapReaches ==
  ASSUME NEW lo \in Int, NEW hi \in Int, lo <= hi, NEW c \in Int,
         NEW d, d = (lo + hi) - 2 * c, NEW w, w = (hi - lo) + 2 * Gap(lo, hi, c)
  PROVE  Gap(lo, hi, c) \in Nat /\ d <= w /\ -d <= w
BY DEF Gap, Greater

(* An obstacle nearer than StartRadius * sqrt(2) is a candidate of the     *)
(* first, smallest query of the search.                                    *)
LEMMA NearIsFound ==
  ASSUME NEW p \in Points, NEW b \in Boxes, NEW r \in Nat,
         Distance2(p, b) < 2 * (r * r),
         NEW ids, NEW ix, Sound(ix, ids), NEW id,
         NEW i \in DOMAIN ix.points, ix.points[i] = Entry(id, b)
  PROVE  id \in Query(ix, Around(p, r))
<1> DEFINE e == ix.points[i]
           f == Entry(0, Around(p, r))
           m == ix.maxDiag2
           w1 == b.x1 - b.x0  h1 == b.y1 - b.y0
           gx == Gap(b.x0, b.x1, p.x)  gy == Gap(b.y0, b.y1, p.y)
           dx == (b.x0 + b.x1) - 2 * p.x  dy == (b.y0 + b.y1) - 2 * p.y
<1>1. /\ p.x \in Int /\ p.y \in Int /\ b.x0 \in Int /\ b.x1 \in Int /\ b.y0 \in Int
      /\ b.y1 \in Int /\ b.x0 <= b.x1 /\ b.y0 <= b.y1
  BY GridFacts
<1>2. e.id = id /\ e.cx = b.x0 + b.x1 /\ e.cy = b.y0 + b.y1 /\ e.diag2 = w1 * w1 + h1 * h1
  BY DEF Entry, Diag2
<1>3. f.cx = 2 * p.x /\ f.cy = 2 * p.y /\ f.diag2 = 8 * (r * r)
  <2>1. f.cx = (p.x - r) + (p.x + r) /\ f.cy = (p.y - r) + (p.y + r)
        /\ f.diag2 = ((p.x + r) - (p.x - r)) * ((p.x + r) - (p.x - r))
                       + ((p.y + r) - (p.y - r)) * ((p.y + r) - (p.y - r))
    BY DEF Entry, Diag2, Around
  <2>2. (p.x + r) - (p.x - r) = 2 * r /\ (p.y + r) - (p.y - r) = 2 * r
    BY <1>1
  <2>3. (2 * r) * (2 * r) + (2 * r) * (2 * r) = 8 * (r * r)
    OBVIOUS
  <2> QED BY <1>1, <2>1, <2>2, <2>3
<1>4. m \in Nat /\ w1 * w1 + h1 * h1 <= m
  BY <1>2, SoundFacts
<1>5. /\ gx \in Nat /\ dx <= w1 + 2 * gx /\ -dx <= w1 + 2 * gx
      /\ gy \in Nat /\ dy <= h1 + 2 * gy /\ -dy <= h1 + 2 * gy
  BY <1>1, GapReaches
<1>6. gx * gx + gy * gy < 2 * (r * r)
  BY DEF Distance2, Square, Gap
<1>7. w1 \in Nat /\ h1 \in Nat /\ dx \in Int /\ dy \in Int
  BY <1>1
<1>8. (e.cx - f.cx) * (e.cx - f.cx) + (e.cy - f.cy) * (e.cy - f.cy) = dx * dx + dy * dy
  BY <1>2, <1>3
<1> HIDE DEF gx, gy, w1, h1, dx, dy, e, f, m
<1>9. WithinRadius(dx * dx + dy * dy, 8 * (r * r), m)
  <2> DEFINE w2 == 2 * gx  h2 == 2 * gy  q == 8 * (r * r)  d2 == dx * dx + dy * dy
  <2>1. w2 \in Nat /\ h2 \in Nat /\ q \in Nat /\ d2 \in Int
    BY <1>5, <1>7, SquareNotNegative
  <2>2. w2 * w2 + h2 * h2 < q
    <3>1. w2 * w2 = 4 * (gx * gx) /\ h2 * h2 = 4 * (gy * gy)
      BY <1>5
    <3>2. gx * gx \in Int /\ gy * gy \in Int /\ r * r \in Int
      BY <1>5
    <3> QED BY <1>6, <3>1, <3>2
  <2>3. d2 <= (w1 + w2) * (w1 + w2) + (h1 + h2) * (h1 + h2)
    <3> DEFINE w == w1 + w2  h == h1 + h2
    <3>1. w \in Nat /\ h \in Nat /\ dx <= w /\ -dx <= w /\ dy <= h /\ -dy <= h
      BY <1>5, <1>7
    <3> HIDE DEF w, h
    <3>2. dx * dx <= w * w /\ dy * dy <= h * h
      BY <1>7, <3>1, SquareOfBounded
    <3>3. dx * dx \in Int /\ dy * dy \in Int /\ w * w \in Int /\ h * h \in Int
      BY <1>7, <3>1
    <3>4. d2 <= w * w + h * h
      BY <3>2, <3>3
    <3> QED BY <3>4 DEF w, h
  <2> HIDE DEF w2, h2, q, d2
  <2>4. WithinRadius(d2, q, m)
    BY <1>4, <1>7, <2>1, <2>2, <2>3, CircleCovers
  <2> QED BY <2>4 DEF d2, q
<1>10. WithinRadius((e.cx - f.cx) * (e.cx - f.cx) + (e.cy - f.cy) * (e.cy - f.cy), f.diag2, m)
  BY <1>3, <1>8, <1>9
<1> QED BY <1>2, <1>10 DEF Query, e, f, m

-----------------------------------------------------------------------------
(* Theorems.                                                               *)

(* What the invariant says of an obstacle and of an area in the tables.    *)
LEMMA ObstaclePoint ==
  ASSUME IInv, NEW id \in DOMAIN snap.obstacles
  PROVE  /\ snap.obstacles[id] \in Boxes
         /\ Sound(snap.obstacleTree, ObstacleIds)
         /\ \E i \in DOMAIN snap.obstacleTree.points :
              snap.obstacleTree.points[i] = Entry(id, snap.obstacles[id])
<1> DEFINE f == snap.obstacles
<1>1. f \in Tables(ObstacleIds, Boxes) /\ id \in DOMAIN f
  BY DEF IInv, Good, SnapshotSet
<1>2. f[id] \in Boxes
  <2> HIDE DEF f
  <2> QED BY <1>1, TableFacts
<1> QED BY <1>2 DEF IInv, Good, Coherent

LEMMA AreaPoint ==
  ASSUME IInv, NEW id \in DOMAIN snap.areas
  PROVE  /\ snap.areas[id] \in Boxes
         /\ Sound(snap.areaTree, AreaIds)
         /\ \E i \in DOMAIN snap.areaTree.points :
              snap.areaTree.points[i] = Entry(id, snap.areas[id])
<1> DEFINE f == snap.areas
<1>1. f \in Tables(AreaIds, Boxes) /\ id \in DOMAIN f
  BY DEF IInv, Good, SnapshotSet
<1>2. f[id] \in Boxes
  <2> HIDE DEF f
  <2> QED BY <1>1, TableFacts
<1> QED BY <1>2 DEF IInv, Good, AreasIndexed

(* validate_path accepts no segment through an obstacle: the index keeps   *)
(* the obstacle's present box, the query with the segment's box finds it   *)
(* and the collision test sees it.                                         *)
THEOREM ObstaclesAvoided == Spec => []SafeSegmentAvoidsObstacles
<1>1. IInv => SafeSegmentAvoidsObstacles
  <2> SUFFICES ASSUME IInv, NEW id \in DOMAIN snap.obstacles, NEW p \in Points, NEW q \in Points,
                      Crosses(p, q, snap.obstacles[id])
               PROVE  ~IsSegmentSafe(p, q)
    BY DEF SafeSegmentAvoidsObstacles
  <2>1. snap.obstacles[id] \in Boxes /\ Sound(snap.obstacleTree, ObstacleIds)
    BY ObstaclePoint
  <2>2. PICK i \in DOMAIN snap.obstacleTree.points :
               snap.obstacleTree.points[i] = Entry(id, snap.obstacles[id])
    BY ObstaclePoint
  <2>3. id \in Query(snap.obstacleTree, SegmentBox(p, q))
    BY <2>1, <2>2, CrossedIsFound
  <2>4. Intersects(p, q, snap.obstacles[id])
    BY <2>1, CrossedIsMet
  <2> QED BY <2>3, <2>4 DEF IsSegmentSafe, DoesSegmentIntersectObstacle
<1> QED BY <1>1, Invariance, PTL

(* ... and none through a locked area: of the points of an area that was   *)
(* registered again, the last one is for its present rectangle, and the    *)
(* tests of the ends and of the four edges miss no crossing.               *)
THEOREM LockedAreasAvoided == Spec => []SafeSegmentAvoidsLockedAreas
<1>1. IInv => SafeSegmentAvoidsLockedAreas
  <2> SUFFICES ASSUME IInv, NEW id \in DOMAIN snap.areas \cap snap.locked,
                      NEW p \in Points, NEW q \in Points, Crosses(p, q, snap.areas[id])
               PROVE  ~IsSegmentSafe(p, q)
    BY DEF SafeSegmentAvoidsLockedAreas
  <2>1. snap.areas[id] \in Boxes /\ Sound(snap.areaTree, AreaIds)
    BY AreaPoint
  <2>2. PICK i \in DOMAIN snap.areaTree.points :
               snap.areaTree.points[i] = Entry(id, snap.areas[id])
    BY AreaPoint
  <2>3. id \in Query(snap.areaTree, SegmentBox(p, q))
    BY <2>1, <2>2, CrossedIsFound
  <2>4. EntersArea(p, q, snap.areas[id])
    BY <2>1, AreaEntered
  <2> QED BY <2>3, <2>4 DEF IsSegmentSafe, DoesSegmentIntersectLockedArea
<1> QED BY <1>1, Invariance, PTL

(* The least distance over the candidates of the first radius is found     *)
(* when an obstacle is that near.                                          *)
LEMMA NearIsSeen ==
  ASSUME IInv, StartRadius <= MaxRadius, Margin2 <= 2 * (StartRadius * StartRadius),
         NEW id \in DOMAIN snap.obstacles, NEW p \in Points,
         Distance2(p, snap.obstacles[id]) < Margin2
  PROVE  ~(DistanceToNearestObstacle(p) >= Margin2)
<1> DEFINE r == StartRadius
           hits == {k \in Radii : Candidates(p, k) # {}}
           D == {Distance2(p, snap.obstacles[j]) : j \in Candidates(p, r)}
           m == 2 * (r * r)
<1>0. r \in Nat /\ r >= 1 /\ MaxRadius \in Nat /\ Margin2 \in Nat /\ r * 1 = r /\ m \in Nat
  BY PathAssumption, SquareNotNegative
<1>1. snap.obstacles[id] \in Boxes /\ Sound(snap.obstacleTree, ObstacleIds)
  BY ObstaclePoint
<1>2. PICK i \in DOMAIN snap.obstacleTree.points :
             snap.obstacleTree.points[i] = Entry(id, snap.obstacles[id])
  BY ObstaclePoint
<1>3. \A j \in DOMAIN snap.obstacles : Distance2(p, snap.obstacles[j]) \in Nat
  <2> SUFFICES ASSUME NEW j \in DOMAIN snap.obstacles
               PROVE  Distance2(p, snap.obstacles[j]) \in Nat
    OBVIOUS
  <2> DEFINE b == snap.obstacles[j]
             gx == Gap(b.x0, b.x1, p.x)  gy == Gap(b.y0, b.y1, p.y)
  <2>1. b \in Boxes
    BY ObstaclePoint
  <2>2. gx \in Nat /\ gy \in Nat
    BY <2>1, GridFacts DEF Gap, Greater
  <2>3. Distance2(p, b) = gx * gx + gy * gy
    BY DEF Distance2, Square, Gap
  <2> HIDE DEF b, gx, gy
  <2>4. gx * gx \in Nat /\ gy * gy \in Nat
    BY <2>2, SquareNotNegative
  <2>5. Distance2(p, b) \in Nat
    BY <2>3, <2>4
  <2> QED BY <2>5 DEF b
<1>4. id \in Candidates(p, r)
  <2>1. Distance2(p, snap.obstacles[id]) < m
    <3> DEFINE d == Distance2(p, snap.obstacles[id])
    <3>1. d \in Nat /\ d < Margin2 /\ Margin2 <= m
      BY <1>3
    <3> HIDE DEF d, m
    <3>2. d < m
      BY <1>0, <3>1
    <3> QED BY <3>2 DEF d
  <2>2. id \in Query(snap.obstacleTree, Around(p, r))
    BY <1>0, <1>1, <1>2, <2>1, NearIsFound
  <2> QED BY <2>2 DEF Candidates
<1>5. r \in Radii /\ \A k \in Radii : k \in Nat /\ r <= k
  <2>1. PowerOfTwo(1) /\ 1 \in 1..MaxRadius /\ r \in 1..MaxRadius
    BY <1>0 DEF PowerOfTwo
  <2>2. r \in Radii
    BY <1>0, <2>1 DEF Radii
  <2>3. \A k \in Radii : \E n \in 1..MaxRadius : k = r * n /\ k \in 1..MaxRadius
    BY DEF Radii
  <2>4. \A n \in 1..MaxRadius : r <= r * n
    <3> SUFFICES ASSUME NEW n \in 1..MaxRadius PROVE r <= r * n
      OBVIOUS
    <3>1. n - 1 \in Nat /\ n \in Nat
      BY <1>0
    <3>2. r * (n - 1) \in Nat /\ r * (n - 1) = r * n - r /\ r * n \in Nat
      BY <1>0, <3>1
    <3> QED BY <1>0, <3>2
  <2> QED BY <1>0, <2>2, <2>3, <2>4
<1>6. Least(hits) = r
  <2>1. hits \in SUBSET Nat /\ r \in hits /\ \A k \in hits : r <= k
    BY <1>4, <1>5
  <2> HIDE DEF hits, r
  <2>2. Least(hits) \in Nat /\ Least(hits) <= r /\ r <= Least(hits)
    BY <2>1, LeastOf
  <2> QED BY <1>0, <2>2
<1>7. DistanceToNearestObstacle(p) = Least(D)
  <2>1. hits # {}
    BY <1>4, <1>5
  <2> QED BY <1>6, <2>1 DEF DistanceToNearestObstacle
<1>8. Least(D) \in Nat /\ Least(D) <= Distance2(p, snap.obstacles[id])
  <2>1. D \in SUBSET Nat
    BY <1>3 DEF Candidates
  <2>2. Distance2(p, snap.obstacles[id]) \in D
    BY <1>4
  <2> HIDE DEF D
  <2> QED BY <2>1, <2>2, LeastOf
<1> DEFINE d == Distance2(p, snap.obstacles[id])  n == Least(D)
<1>9. d \in Nat /\ d < Margin2 /\ n \in Nat /\ n <= d
  BY <1>3, <1>8
<1> HIDE DEF d, n
<1>10. ~(n >= Margin2)
  BY <1>0, <1>9
<1> QED BY <1>7, <1>10 DEF n

(* No end of an accepted segment is nearer to an obstacle than the safety  *)
(* margin, if the margin is at most the first radius of the search times   *)
(* the root of 2: an obstacle that near is among the first candidates.     *)
THEOREM ClearanceKept ==
  ASSUME StartRadius <= MaxRadius, Margin2 <= 2 * (StartRadius * StartRadius)
  PROVE  Spec => []SafeSegmentHasClearance
<1>1. IInv => SafeSegmentHasClearance
  <2> SUFFICES ASSUME IInv, NEW id \in DOMAIN snap.obstacles, NEW p \in Points, NEW q \in Points,
                      Lesser(Distance2(p, snap.obstacles[id]), Distance2(q, snap.obstacles[id]))
                        < Margin2
               PROVE  ~IsSegmentSafe(p, q)
    BY DEF SafeSegmentHasClearance
  <2>1. Distance2(p, snap.obstacles[id]) < Margin2 \/ Distance2(q, snap.obstacles[id]) < Margin2
    BY DEF Lesser
  <2> QED BY <2>1, NearIsSeen DEF IsSegmentSafe
<1> QED BY <1>1, Invariance, PTL
=============================================================================
