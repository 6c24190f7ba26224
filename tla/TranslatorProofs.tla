-------------------------- MODULE TranslatorProofs --------------------------
(***************************************************************************)
(* However deliveries fail, time out and are repeated, no geofence ever    *)
(* takes an older geometry for a newer one: for any number of AGVs,        *)
(* obstacles, messages and faults, and any size of the chunks.             *)
(***************************************************************************)
EXTENDS Translator, TLAPS, FiniteSetTheorems, SequenceTheorems, NaturalsInduction, WellFoundedInduction

(* Only a translator that waits for its geofences without collecting the   *)
(* updates may have both a flush and a direct publication under way.       *)
HeldUpdatesAreFlushed ==
  \A c \in Configs : "wait" \in c => "buffering" \in c \/ "service" \in c

-----------------------------------------------------------------------------
(* The inductive invariant.                                                *)

Geometries == [ver : Nat, here : BOOLEAN]
Requests == [us : Seq(Updates), awaited : BOOLEAN]

TypeOK ==
  /\ cfg \in Configs
  /\ received \in [updates : Nat, scans : Nat, orders : Nat]
  /\ buffer \in Seq(Updates) /\ batch \in Seq(Updates)
  /\ chunks \in Seq(Seq(Updates))
  /\ inbox \in [Agvs -> Seq(Requests)]
  /\ fences \in [Agvs -> [Ids -> Geometries]]

(* No update in us is newer than one of the same obstacle in ws.           *)
NotAfter(us, ws) ==
  \A k \in 1..Len(us), l \in 1..Len(ws) : us[k].id = ws[l].id => us[k].ver <= ws[l].ver

(* The updates in us are among those in ws.                                *)
Among(us, ws) ==
  \A k \in 1..Len(us) : \E l \in 1..Len(ws) : us[k].id = ws[l].id /\ us[k].ver = ws[l].ver

UpTo(us, n) == \A k \in 1..Len(us) : us[k].ver <= n

(* A map has no newer geometry than the updates.                           *)
MapBefore(map, us) == \A k \in 1..Len(us) : map[us[k].id].ver <= us[k].ver

(* Nor have the requests on their way to it.                               *)
Before(map, queue, us) ==
  MapBefore(map, us) /\ \A m \in 1..Len(queue) : NotAfter(queue[m].us, us)

(* The requests come in the order of the updates in them.                  *)
Ordered(map, queue) ==
  /\ \A m \in 1..Len(queue) : MapBefore(map, queue[m].us)
  /\ \A n \in 1..Len(queue) : \A m \in 1..n : NotAfter(queue[m].us, queue[n].us)

(* A geofence knows of no update that was not received.                    *)
Known(map, queue, n) ==
  (\A i \in Ids : map[i].ver <= n) /\ \A m \in 1..Len(queue) : UpTo(queue[m].us, n)

InboxInv == \A a \in Agvs : Ordered(fences[a], inbox[a])

ReceivedInv ==
  /\ UpTo(buffer, received.updates) /\ UpTo(batch, received.updates)
  /\ \A a \in Agvs : Known(fences[a], inbox[a], received.updates)

(* What is buffered can be sent to every geofence.                         *)
BufferInv == \A a \in Agvs : Before(fences[a], inbox[a], buffer)

Delivering == flusher \in {"deliver", "await"}

(* So can the batch in delivery, again and again, and then what has been   *)
(* buffered since.                                                         *)
BatchInv ==
  Delivering =>
    /\ \A a \in Agvs : Before(fences[a], inbox[a], batch)
    /\ NotAfter(batch, batch) /\ NotAfter(batch, buffer)
    /\ \A c \in 1..Len(chunks) : Among(chunks[c], batch)
    /\ flusher = "await" => chunks # <<>>

(* A translator that publishes directly holds and flushes nothing.         *)
DirectInv ==
  ~Opt("buffering") /\ ~Opt("service") => buffer = <<>> /\ ~Delivering

IInv == TypeOK /\ InboxInv /\ ReceivedInv /\ BufferInv /\ BatchInv /\ DirectInv

-----------------------------------------------------------------------------
(* The operators of the model.                                             *)

(* A non-empty set of positions has a last one.                            *)
LEMMA LastPosition ==
  ASSUME NEW n \in Nat, NEW S \in SUBSET (1..n), S # {}
  PROVE  Max(S) \in S
<1> DEFINE T == {n - s : s \in S}
<1>0. PICK s0 \in S : TRUE
  OBVIOUS
<1>1. T \subseteq Nat /\ T # {}
  <2>1. \A s \in S : n - s \in Nat
    OBVIOUS
  <2>2. n - s0 \in T
    BY <1>0
  <2> QED BY <2>1, <2>2
<1>2. PICK x \in T : \A y \in T : ~(<<y, x>> \in OpToRel(<, Nat))
  BY <1>1, NatLessThanWellFounded, WFMin
<1>3. \A y \in T : ~(y < x)
  BY <1>1, <1>2 DEF OpToRel
<1>4. PICK m \in S : x = n - m
  OBVIOUS
<1>5. \A e \in S : m >= e
  <2> SUFFICES ASSUME NEW e \in S PROVE m >= e
    OBVIOUS
  <2>1. n - e \in T
    OBVIOUS
  <2>2. ~(n - e < n - m)
    BY <1>3, <1>4, <2>1
  <2> QED BY <2>2
<1> QED BY <1>5 DEF Max

(* A finite set can be listed.                                             *)
LEMMA Listing ==
  ASSUME NEW S, IsFiniteSet(S)
  PROVE  /\ SetToSeq(S) \in Seq(S)
         /\ \A j, k \in 1..Len(SetToSeq(S)) : SetToSeq(S)[j] = SetToSeq(S)[k] => j = k
<1>1. PICK n \in Nat : ExistsBijection(1..n, S)
  BY FS_NatBijection
<1>2. n = Cardinality(S)
  BY <1>1, FS_CountingElements
<1>3. \E f \in [1..n -> S] : IsInjective(f)
  BY <1>1 DEF ExistsBijection, Bijection, Injection
<1>4. SetToSeq(S) \in [1..n -> S] /\ IsInjective(SetToSeq(S))
  BY <1>2, <1>3 DEF SetToSeq
<1>5. SetToSeq(S) \in Seq(S) /\ Len(SetToSeq(S)) = n
  BY <1>4
<1> QED BY <1>4, <1>5 DEF IsInjective

(* After updates, an obstacle has the geometry of one of them or keeps the *)
(* one it had.                                                             *)
LEMMA Applied ==
  ASSUME NEW map \in [Ids -> Geometries], NEW us \in Seq(Updates)
  PROVE  /\ Apply(map, us) \in [Ids -> Geometries]
         /\ \A i \in Ids :
              \/ Apply(map, us)[i] = map[i]
              \/ \E k \in 1..Len(us) : us[k].id = i /\ Apply(map, us)[i].ver = us[k].ver
<1> SUFFICES ASSUME NEW i \in Ids
             PROVE  /\ Apply(map, us)[i] \in Geometries
                    /\ \/ Apply(map, us)[i] = map[i]
                       \/ \E k \in 1..Len(us) : us[k].id = i /\ Apply(map, us)[i].ver = us[k].ver
  BY DEF Apply
<1> DEFINE of == {k \in 1..Len(us) : us[k].id = i}
<1>1. Apply(map, us)[i] =
        IF of = {} THEN map[i] ELSE [ver |-> us[Max(of)].ver, here |-> us[Max(of)].here]
  BY DEF Apply
<1>2. CASE of = {}
  BY <1>1, <1>2
<1>3. CASE of # {}
  <2>1. Max(of) \in of
    <3>1. of \in SUBSET (1..Len(us)) /\ Len(us) \in Nat
      OBVIOUS
    <3> HIDE DEF of
    <3> QED BY <3>1, <1>3, LastPosition
  <2>2. PICK k \in 1..Len(us) : k = Max(of) /\ us[k].id = i
    BY <2>1
  <2>3. us[k] \in Updates
    BY <2>2
  <2>4. Apply(map, us)[i] = [ver |-> us[k].ver, here |-> us[k].here]
    BY <1>1, <1>3, <2>2
  <2>5. us[k].ver \in Nat /\ us[k].here \in BOOLEAN
    BY <2>3 DEF Updates
  <2> HIDE DEF of
  <2> QED BY <2>2, <2>4, <2>5 DEF Geometries
<1> QED BY <1>2, <1>3

(* A flush sends each obstacle once, with a geometry from the buffer.      *)
LEMMA Collapsed ==
  ASSUME NEW us \in Seq(Updates)
  PROVE  /\ Collapse(us) \in Seq(Updates)
         /\ NotAfter(Collapse(us), Collapse(us))
         /\ Among(Collapse(us), us)
<1> DEFINE none == [i \in Ids |-> Absent]
           final == Apply(none, us)
           kept == {j \in Ids : final[j].here}
           S == {[id |-> i, ver |-> final[i].ver, here |-> TRUE] : i \in kept}
<1>1. none \in [Ids -> Geometries]
  BY DEF Absent, Geometries
<1>2. /\ final \in [Ids -> Geometries]
      /\ \A i \in Ids : \/ final[i] = none[i]
                        \/ \E k \in 1..Len(us) : us[k].id = i /\ final[i].ver = us[k].ver
  <2> HIDE DEF none
  <2> QED BY <1>1, Applied
<1>3. Collapse(us) = SetToSeq(S)
  BY DEF Collapse
<1>4. \A i \in kept : i \in Ids /\ final[i].ver \in Nat /\ final[i].here
  <2> HIDE DEF final
  <2> QED BY <1>2 DEF Geometries
<1>5. \A i \in kept : \E k \in 1..Len(us) : us[k].id = i /\ final[i].ver = us[k].ver
  <2> SUFFICES ASSUME NEW i \in kept
               PROVE  \E k \in 1..Len(us) : us[k].id = i /\ final[i].ver = us[k].ver
    OBVIOUS
  <2>1. final[i] # none[i]
    BY <1>4 DEF Absent
  <2> QED BY <1>2, <1>4, <2>1
<1>6. S \subseteq Updates
  <2>1. ASSUME NEW i \in kept
        PROVE  [id |-> i, ver |-> final[i].ver, here |-> TRUE] \in Updates
    <3> HIDE DEF final, kept
    <3> QED BY <1>4 DEF Updates
  <2> HIDE DEF final, kept
  <2> QED BY <2>1
<1>7. IsFiniteSet(S)
  <2>1. IsFiniteSet(kept)
    <3>1. kept \subseteq Ids
      OBVIOUS
    <3> HIDE DEF kept
    <3> QED BY <3>1, TranslatorAssumption, FS_Subset
  <2> HIDE DEF kept, final
  <2> DEFINE f == [i \in kept |-> [id |-> i, ver |-> final[i].ver, here |-> TRUE]]
  <2>2. f \in [kept -> S] /\ \A s \in S : \E i \in kept : f[i] = s
    OBVIOUS
  <2> HIDE DEF f, S
  <2>3. f \in Surjection(kept, S)
    BY <2>2 DEF Surjection
  <2> QED BY <2>1, <2>3, FS_Surjection
<1>8. Collapse(us) \in Seq(S)
  <2> HIDE DEF S
  <2> QED BY <1>3, <1>7, Listing
<1>9. \A k \in 1..Len(Collapse(us)) : \E i \in kept :
        Collapse(us)[k] = [id |-> i, ver |-> final[i].ver, here |-> TRUE]
  <2>1. \A k \in 1..Len(Collapse(us)) : Collapse(us)[k] \in S
    <3> HIDE DEF S
    <3> QED BY <1>8
  <2> HIDE DEF kept, final
  <2> QED BY <2>1
<1>10. Collapse(us) \in Seq(Updates)
  <2> HIDE DEF S
  <2> QED BY <1>6, <1>8
<1> HIDE DEF kept, final, S
<1>11. \A k \in 1..Len(Collapse(us)) :
         /\ Collapse(us)[k].id \in kept
         /\ Collapse(us)[k].ver = final[Collapse(us)[k].id].ver
  <2> SUFFICES ASSUME NEW k \in 1..Len(Collapse(us))
               PROVE  /\ Collapse(us)[k].id \in kept
                      /\ Collapse(us)[k].ver = final[Collapse(us)[k].id].ver
    OBVIOUS
  <2>1. PICK i \in kept : Collapse(us)[k] = [id |-> i, ver |-> final[i].ver, here |-> TRUE]
    BY <1>9
  <2>2. Collapse(us)[k].id = i /\ Collapse(us)[k].ver = final[i].ver
    BY <2>1
  <2> QED BY <2>2
<1>12. NotAfter(Collapse(us), Collapse(us))
  <2>1. \A i \in kept : final[i].ver <= final[i].ver
    BY <1>4
  <2> QED BY <1>11, <2>1 DEF NotAfter
<1>13. Among(Collapse(us), us)
  <2> SUFFICES ASSUME NEW k \in 1..Len(Collapse(us))
               PROVE  \E l \in 1..Len(us) :
                        Collapse(us)[k].id = us[l].id /\ Collapse(us)[k].ver = us[l].ver
    BY DEF Among
  <2>1. Collapse(us)[k].id \in kept /\ Collapse(us)[k].ver = final[Collapse(us)[k].id].ver
    BY <1>11
  <2> QED BY <1>5, <2>1
<1> QED BY <1>10, <1>12, <1>13

LEMMA Product ==
  ASSUME NEW a \in Nat, NEW b \in Nat
  PROVE  a * b \in Nat
OBVIOUS

LEMMA Quotient ==
  ASSUME NEW a \in Nat, NEW b \in Nat \ {0}
  PROVE  a \div b \in Nat
OBVIOUS

(* Chunks consist of the updates that were to be sent.                     *)
LEMMA ChunksOf ==
  ASSUME NEW us \in Seq(Updates)
  PROVE  /\ Chunked(us) \in Seq(Seq(Updates))
         /\ \A c \in 1..Len(Chunked(us)) : Among(Chunked(us)[c], us)
<1> SUFFICES /\ Chunked(us) \in Seq(Seq(Updates))
             /\ \A c \in 1..Len(Chunked(us)) : \A k \in 1..Len(Chunked(us)[c]) :
                  \E l \in 1..Len(us) : Chunked(us)[c][k] = us[l]
  BY DEF Among
<1>1. CASE ~Opt("service") \/ ChunkSize = 0 \/ Len(us) <= ChunkSize
  <2>1. Chunked(us) = <<us>>
    BY <1>1 DEF Chunked
  <2> QED BY <2>1
<1>2. CASE ~(~Opt("service") \/ ChunkSize = 0 \/ Len(us) <= ChunkSize)
  <2> DEFINE n == (Len(us) + ChunkSize - 1) \div ChunkSize
             first(k) == (k - 1) * ChunkSize + 1
             last(k) == IF k * ChunkSize < Len(us) THEN k * ChunkSize ELSE Len(us)
             piece(k) == SubSeq(us, first(k), last(k))
  <2>1. Chunked(us) = [k \in 1..n |-> piece(k)]
    BY <1>2 DEF Chunked
  <2>2. ChunkSize \in Nat \ {0} /\ Len(us) \in Nat
    BY <1>2, TranslatorAssumption
  <2>3. n \in Nat
    <3> DEFINE m == Len(us) + ChunkSize - 1
    <3>1. m \in Nat
      BY <2>2
    <3> HIDE DEF m
    <3>2. m \div ChunkSize \in Nat
      BY <2>2, <3>1, Quotient
    <3> QED BY <3>2 DEF m
  <2>4. \A k \in 1..n : /\ piece(k) \in Seq(Updates)
                        /\ \A j \in 1..Len(piece(k)) : \E l \in 1..Len(us) : piece(k)[j] = us[l]
    <3> SUFFICES ASSUME NEW k \in 1..n
                 PROVE  /\ piece(k) \in Seq(Updates)
                        /\ \A j \in 1..Len(piece(k)) : \E l \in 1..Len(us) : piece(k)[j] = us[l]
      OBVIOUS
    <3>1. k \in Nat /\ k - 1 \in Nat
      BY <2>3
    <3>2. (k - 1) * ChunkSize \in Nat /\ k * ChunkSize \in Nat
      BY <2>2, <3>1, Product
    <3>3. first(k) \in Int /\ first(k) >= 1 /\ last(k) \in Int /\ last(k) <= Len(us)
      BY <2>2, <3>2
    <3> HIDE DEF first, last, n
    <3>4. \A i \in first(k)..last(k) : i \in 1..Len(us) /\ us[i] \in Updates
      BY <2>2, <3>3
    <3>5. /\ piece(k) \in Seq(Updates)
          /\ Len(piece(k)) = IF first(k) <= last(k) THEN last(k) - first(k) + 1 ELSE 0
          /\ \A i \in 1..(last(k) - first(k) + 1) : piece(k)[i] = us[first(k) + i - 1]
      BY <3>3, <3>4, SubSeqProperties
    <3> HIDE DEF piece
    <3>6. ASSUME NEW j \in 1..Len(piece(k))
          PROVE  \E l \in 1..Len(us) : piece(k)[j] = us[l]
      <4>1. j \in 1..(last(k) - first(k) + 1) /\ first(k) + j - 1 \in first(k)..last(k)
        BY <3>3, <3>5
      <4> QED BY <3>4, <3>5, <4>1
    <3> QED BY <3>5, <3>6
  <2> HIDE DEF piece, n
  <2>5. \A k \in 1..n : Chunked(us)[k] = piece(k)
    BY <2>1
  <2>6. Chunked(us) \in [1..n -> Seq(Updates)]
    BY <2>1, <2>4
  <2>7. Chunked(us) \in Seq(Seq(Updates)) /\ Len(Chunked(us)) = n
    BY <2>3, <2>6
  <2>8. ASSUME NEW c \in 1..Len(Chunked(us)), NEW k \in 1..Len(Chunked(us)[c])
        PROVE  \E l \in 1..Len(us) : Chunked(us)[c][k] = us[l]
    <3>1. c \in 1..n
      BY <2>7
    <3>2. Chunked(us)[c] = piece(c)
      BY <2>5, <3>1
    <3> QED BY <2>4, <3>1, <3>2
  <2> QED BY <2>7, <2>8
<1> QED BY <1>1, <1>2

(* The updates of a message bear its number.                               *)
LEMMA Parsed ==
  ASSUME NEW msg \in Messages, NEW ver \in Nat
  PROVE  /\ ParseObstacleUpdates(msg, ver) \in Seq(Updates)
         /\ \A k \in 1..Len(ParseObstacleUpdates(msg, ver)) :
              ParseObstacleUpdates(msg, ver)[k].ver = ver
<1>1. msg \in Seq(Items)
  <2>1. <<>> \in Seq(Items) /\ \A i \in Items : <<i>> \in Seq(Items)
    OBVIOUS
  <2>2. Bulk \in Seq(Items)
    <3> DEFINE S == [op : {"INSERT"}, id : Ids]
    <3>1. S \subseteq Items
      BY DEF Items
    <3>2. IsFiniteSet(S)
      <4> DEFINE f == [i \in Ids |-> [op |-> "INSERT", id |-> i]]
      <4>1. f \in [Ids -> S] /\ \A s \in S : \E i \in Ids : f[i] = s
        <5>1. \A i \in Ids : [op |-> "INSERT", id |-> i] \in S
          OBVIOUS
        <5>2. \A s \in S : s.id \in Ids /\ s = [op |-> "INSERT", id |-> s.id]
          OBVIOUS
        <5> HIDE DEF S
        <5> QED BY <5>1, <5>2
      <4> HIDE DEF f, S
      <4>2. f \in Surjection(Ids, S)
        BY <4>1 DEF Surjection
      <4> QED BY <4>2, TranslatorAssumption, FS_Surjection
    <3>3. Bulk = SetToSeq(S)
      BY DEF Bulk
    <3> HIDE DEF S
    <3>4. Bulk \in Seq(S)
      BY <3>2, <3>3, Listing
    <3> QED BY <3>1, <3>4
  <2> QED BY <2>1, <2>2 DEF Messages
<1>2. \A k \in 1..Len(msg) : [id |-> msg[k].id, ver |-> ver, here |-> msg[k].op = "INSERT"] \in Updates
  <2>1. \A k \in 1..Len(msg) : msg[k] \in Items
    BY <1>1
  <2>2. \A i \in Items : i.id \in Ids
    BY DEF Items
  <2> QED BY <2>1, <2>2 DEF Updates
<1> DEFINE us == ParseObstacleUpdates(msg, ver)
<1>3. us \in [1..Len(msg) -> Updates] /\ \A k \in 1..Len(msg) : us[k].ver = ver
  BY <1>2 DEF ParseObstacleUpdates
<1>4. Len(msg) \in Nat
  BY <1>1
<1> HIDE DEF us
<1>5. us \in Seq(Updates) /\ Len(us) = Len(msg)
  BY <1>3, <1>4
<1> QED BY <1>3, <1>5 DEF us

-----------------------------------------------------------------------------
(* The order of updates.                                                   *)

LEMMA UpdateFacts ==
  ASSUME NEW us \in Seq(Updates)
  PROVE  /\ Len(us) \in Nat
         /\ \A k \in 1..Len(us) : us[k].id \in Ids /\ us[k].ver \in Nat
<1>1. Len(us) \in Nat /\ \A k \in 1..Len(us) : us[k] \in Updates
  OBVIOUS
<1>2. \A u \in Updates : u.id \in Ids /\ u.ver \in Nat
  BY DEF Updates
<1> QED BY <1>1, <1>2

LEMMA RequestFacts ==
  ASSUME NEW queue \in Seq(Requests)
  PROVE  /\ Len(queue) \in Nat
         /\ \A m \in 1..Len(queue) : queue[m].us \in Seq(Updates) /\ queue[m].awaited \in BOOLEAN
<1>1. Len(queue) \in Nat /\ \A m \in 1..Len(queue) : queue[m] \in Requests
  OBVIOUS
<1>2. \A r \in Requests : r.us \in Seq(Updates) /\ r.awaited \in BOOLEAN
  BY DEF Requests
<1> QED BY <1>1, <1>2

(* What holds of updates holds of those among them.                        *)
LEMMA AmongThem ==
  ASSUME NEW map \in [Ids -> Geometries], NEW queue \in Seq(Requests),
         NEW us \in Seq(Updates), NEW ws \in Seq(Updates), Among(us, ws)
  PROVE  /\ Before(map, queue, ws) => Before(map, queue, us)
         /\ \A n \in Nat : UpTo(ws, n) => UpTo(us, n)
         /\ \A vs \in Seq(Updates) : NotAfter(vs, ws) => NotAfter(vs, us)
         /\ \A vs \in Seq(Updates) : NotAfter(ws, vs) => NotAfter(us, vs)
<1>1. ASSUME Before(map, queue, ws)
      PROVE  Before(map, queue, us)
  <2>1. MapBefore(map, us)
    BY <1>1 DEF Before, MapBefore, Among
  <2>2. ASSUME NEW m \in 1..Len(queue)
        PROVE  NotAfter(queue[m].us, us)
    BY <1>1 DEF Before, NotAfter, Among
  <2> QED BY <2>1, <2>2 DEF Before
<1>2. \A n \in Nat : UpTo(ws, n) => UpTo(us, n)
  BY DEF UpTo, Among
<1>3. \A vs \in Seq(Updates) : NotAfter(vs, ws) => NotAfter(vs, us)
  BY DEF NotAfter, Among
<1>4. \A vs \in Seq(Updates) : NotAfter(ws, vs) => NotAfter(us, vs)
  BY DEF NotAfter, Among
<1> QED BY <1>1, <1>2, <1>3, <1>4

(* Updates one after the other.                                            *)
LEMMA Joining ==
  ASSUME NEW us \in Seq(Updates), NEW ws \in Seq(Updates)
  PROVE  /\ us \o ws \in Seq(Updates)
         /\ \A map, queue : Before(map, queue, us) /\ Before(map, queue, ws) => Before(map, queue, us \o ws)
         /\ \A n : UpTo(us, n) /\ UpTo(ws, n) => UpTo(us \o ws, n)
         /\ \A vs : NotAfter(vs, us) /\ NotAfter(vs, ws) => NotAfter(vs, us \o ws)
<1> DEFINE all == us \o ws
<1>1. all \in Seq(Updates)
  BY ConcatProperties
<1>2. \A l \in 1..Len(all) :
        (\E k \in 1..Len(us) : all[l] = us[k]) \/ (\E k \in 1..Len(ws) : all[l] = ws[k])
  <2> SUFFICES ASSUME NEW l \in 1..Len(all)
               PROVE  (\E k \in 1..Len(us) : all[l] = us[k]) \/ (\E k \in 1..Len(ws) : all[l] = ws[k])
    OBVIOUS
  <2>1. /\ Len(us) \in Nat /\ Len(ws) \in Nat /\ Len(all) = Len(us) + Len(ws)
        /\ all[l] = IF l <= Len(us) THEN us[l] ELSE ws[l - Len(us)]
    BY ConcatProperties
  <2>2. CASE l <= Len(us)
    BY <2>1, <2>2
  <2>3. CASE l > Len(us)
    <3>1. l - Len(us) \in 1..Len(ws) /\ all[l] = ws[l - Len(us)]
      BY <2>1, <2>3
    <3> QED BY <3>1
  <2> QED BY <2>1, <2>2, <2>3
<1> HIDE DEF all
<1>3. \A vs : NotAfter(vs, us) /\ NotAfter(vs, ws) => NotAfter(vs, all)
  BY <1>2 DEF NotAfter
<1>4. \A n : UpTo(us, n) /\ UpTo(ws, n) => UpTo(all, n)
  BY <1>2 DEF UpTo
<1>5. \A map, queue : Before(map, queue, us) /\ Before(map, queue, ws) => Before(map, queue, all)
  <2>1. \A map : MapBefore(map, us) /\ MapBefore(map, ws) => MapBefore(map, all)
    BY <1>2 DEF MapBefore
  <2> QED BY <1>3, <2>1 DEF Before
<1> QED BY <1>1, <1>3, <1>4, <1>5 DEF all

(* A message is newer than all that came before.                           *)
LEMMA Newest ==
  ASSUME NEW n \in Nat, NEW us \in Seq(Updates), \A k \in 1..Len(us) : us[k].ver = n + 1
  PROVE  /\ UpTo(us, n + 1) /\ NotAfter(us, us)
         /\ \A vs \in Seq(Updates) : UpTo(vs, n) => NotAfter(vs, us) /\ UpTo(vs, n + 1)
         /\ \A map \in [Ids -> Geometries], queue \in Seq(Requests) :
              Known(map, queue, n) => Before(map, queue, us) /\ Known(map, queue, n + 1)
<1>1. UpTo(us, n + 1) /\ NotAfter(us, us)
  BY DEF UpTo, NotAfter
<1>2. \A vs \in Seq(Updates) : UpTo(vs, n) => NotAfter(vs, us) /\ UpTo(vs, n + 1)
  <2> SUFFICES ASSUME NEW vs \in Seq(Updates), UpTo(vs, n)
               PROVE  NotAfter(vs, us) /\ UpTo(vs, n + 1)
    OBVIOUS
  <2>1. \A k \in 1..Len(vs) : vs[k].ver <= n + 1
    BY UpdateFacts DEF UpTo
  <2> QED BY <2>1 DEF NotAfter, UpTo
<1>3. ASSUME NEW map \in [Ids -> Geometries], NEW queue \in Seq(Requests), Known(map, queue, n)
      PROVE  Before(map, queue, us) /\ Known(map, queue, n + 1)
  <2>1. \A i \in Ids : map[i].ver <= n + 1
    BY <1>3 DEF Known, Geometries
  <2>2. MapBefore(map, us)
    BY <2>1, UpdateFacts DEF MapBefore
  <2>3. \A m \in 1..Len(queue) : NotAfter(queue[m].us, us) /\ UpTo(queue[m].us, n + 1)
    BY <1>2, <1>3, RequestFacts DEF Known
  <2> QED BY <2>1, <2>2, <2>3 DEF Before, Known
<1> QED BY <1>1, <1>2, <1>3

(* A request is sent.                                                      *)
LEMMA Sending ==
  ASSUME NEW map \in [Ids -> Geometries], NEW queue \in Seq(Requests),
         NEW us \in Seq(Updates), NEW awaited \in BOOLEAN,
         Ordered(map, queue), Before(map, queue, us), NotAfter(us, us)
  PROVE  LET sent == Append(queue, [us |-> us, awaited |-> awaited])
         IN  /\ sent \in Seq(Requests)
             /\ Ordered(map, sent)
             /\ \A n : Known(map, queue, n) /\ UpTo(us, n) => Known(map, sent, n)
             /\ \A ws : Before(map, queue, ws) /\ NotAfter(us, ws) => Before(map, sent, ws)
<1> DEFINE r == [us |-> us, awaited |-> awaited]
           sent == Append(queue, r)
<1>1. r \in Requests /\ r.us = us
  BY DEF Requests
<1> HIDE DEF r
<1>2. /\ sent \in Seq(Requests) /\ Len(queue) \in Nat /\ Len(sent) = Len(queue) + 1
      /\ sent[Len(queue) + 1].us = us
      /\ \A m \in 1..Len(queue) : sent[m].us = queue[m].us
  BY <1>1, AppendProperties
<1> HIDE DEF sent
<1>3. \A m \in 1..Len(sent) : m \in 1..Len(queue) \/ m = Len(queue) + 1
  BY <1>2
<1>4. Ordered(map, sent)
  <2>1. ASSUME NEW m \in 1..Len(sent)
        PROVE  MapBefore(map, sent[m].us)
    BY <1>2, <1>3 DEF Ordered, Before
  <2>2. ASSUME NEW n \in 1..Len(sent), NEW m \in 1..n
        PROVE  NotAfter(sent[m].us, sent[n].us)
    <3>1. CASE n \in 1..Len(queue)
      <4>1. m \in 1..Len(queue)
        BY <1>2, <3>1
      <4> QED BY <1>2, <3>1, <4>1 DEF Ordered
    <3>2. CASE n = Len(queue) + 1
      <4>1. m \in 1..Len(queue) \/ m = Len(queue) + 1
        BY <1>2, <3>2
      <4> QED BY <1>2, <3>2, <4>1 DEF Before
    <3> QED BY <1>3, <3>1, <3>2
  <2> QED BY <2>1, <2>2 DEF Ordered
<1>5. \A n : Known(map, queue, n) /\ UpTo(us, n) => Known(map, sent, n)
  BY <1>2, <1>3 DEF Known
<1>6. \A ws : Before(map, queue, ws) /\ NotAfter(us, ws) => Before(map, sent, ws)
  BY <1>2, <1>3 DEF Before
<1> QED BY <1>2, <1>4, <1>5, <1>6 DEF sent, r

(* A request is served or rejected.                                        *)
LEMMA Serving ==
  ASSUME NEW map \in [Ids -> Geometries], NEW queue \in Seq(Requests), queue # <<>>,
         Ordered(map, queue),
         NEW served, served = map \/ served = Apply(map, Head(queue).us)
  PROVE  /\ served \in [Ids -> Geometries] /\ Tail(queue) \in Seq(Requests)
         /\ Ordered(served, Tail(queue))
         /\ \A i \in Ids : served[i].ver >= map[i].ver
         /\ \A n \in Nat : Known(map, queue, n) => Known(served, Tail(queue), n)
         /\ \A ws \in Seq(Updates) : Before(map, queue, ws) => Before(served, Tail(queue), ws)
<1> DEFINE us == Head(queue).us
           rest == Tail(queue)
<1>1. /\ rest \in Seq(Requests) /\ Len(queue) \in Nat \ {0} /\ Len(rest) = Len(queue) - 1
      /\ Head(queue) = queue[1] /\ 1 \in 1..Len(queue)
      /\ \A m \in 1..Len(rest) : m + 1 \in 1..Len(queue) /\ rest[m] = queue[m + 1]
  BY HeadTailProperties
<1>2. us \in Seq(Updates) /\ us = queue[1].us
  BY <1>1, RequestFacts
<1> HIDE DEF us, rest
<1>3. /\ served \in [Ids -> Geometries]
      /\ \A i \in Ids : \/ served[i] = map[i]
                        \/ \E k \in 1..Len(us) : us[k].id = i /\ served[i].ver = us[k].ver
  <2>1. CASE served = map
    BY <2>1
  <2>2. CASE served = Apply(map, us)
    BY <1>2, <2>2, Applied
  <2> QED BY <2>1, <2>2 DEF us
<1>4. MapBefore(map, us)
  BY <1>1, <1>2 DEF Ordered
<1>5. \A i \in Ids : served[i].ver \in Nat /\ map[i].ver \in Nat
  BY <1>3 DEF Geometries
<1>6. \A i \in Ids : served[i].ver >= map[i].ver
  <2> SUFFICES ASSUME NEW i \in Ids PROVE served[i].ver >= map[i].ver
    OBVIOUS
  <2>1. CASE served[i] = map[i]
    BY <1>5, <2>1
  <2>2. CASE \E k \in 1..Len(us) : us[k].id = i /\ served[i].ver = us[k].ver
    <3>1. PICK k \in 1..Len(us) : us[k].id = i /\ served[i].ver = us[k].ver
      BY <2>2
    <3>2. map[i].ver <= served[i].ver
      BY <1>4, <3>1 DEF MapBefore
    <3> QED BY <1>5, <3>2
  <2> QED BY <1>3, <2>1, <2>2
<1>7. ASSUME NEW ws \in Seq(Updates), MapBefore(map, ws), NotAfter(us, ws)
      PROVE  MapBefore(served, ws)
  <2> SUFFICES ASSUME NEW l \in 1..Len(ws)
               PROVE  served[ws[l].id].ver <= ws[l].ver
    BY DEF MapBefore
  <2>1. ws[l].id \in Ids
    BY UpdateFacts
  <2>2. CASE served[ws[l].id] = map[ws[l].id]
    BY <1>7, <2>2 DEF MapBefore
  <2>3. CASE \E k \in 1..Len(us) : us[k].id = ws[l].id /\ served[ws[l].id].ver = us[k].ver
    BY <1>7, <2>3 DEF NotAfter
  <2> QED BY <1>3, <2>1, <2>2, <2>3
<1>8. Ordered(served, rest)
  <2>1. ASSUME NEW m \in 1..Len(rest)
        PROVE  MapBefore(served, rest[m].us)
    <3>1. m + 1 \in 1..Len(queue) /\ 1 \in 1..(m + 1) /\ rest[m].us = queue[m + 1].us
      BY <1>1
    <3>2. rest[m].us \in Seq(Updates)
      BY <1>1, RequestFacts
    <3>3. MapBefore(map, rest[m].us) /\ NotAfter(us, rest[m].us)
      BY <1>2, <3>1 DEF Ordered
    <3> QED BY <1>7, <3>2, <3>3
  <2>2. ASSUME NEW n \in 1..Len(rest), NEW m \in 1..n
        PROVE  NotAfter(rest[m].us, rest[n].us)
    <3>1. /\ n + 1 \in 1..Len(queue) /\ m + 1 \in 1..(n + 1) /\ m \in 1..Len(rest)
          /\ rest[n] = queue[n + 1] /\ rest[m] = queue[m + 1]
      BY <1>1
    <3> QED BY <3>1 DEF Ordered
  <2> QED BY <2>1, <2>2 DEF Ordered
<1>9. ASSUME NEW n \in Nat, Known(map, queue, n)
      PROVE  Known(served, rest, n)
  <2>1. UpTo(us, n)
    BY <1>1, <1>2, <1>9 DEF Known
  <2>2. \A i \in Ids : served[i].ver <= n
    BY <1>3, <1>9, <2>1 DEF Known, UpTo
  <2>3. \A m \in 1..Len(rest) : UpTo(rest[m].us, n)
    BY <1>1, <1>9 DEF Known
  <2> QED BY <2>2, <2>3 DEF Known
<1>10. ASSUME NEW ws \in Seq(Updates), Before(map, queue, ws)
       PROVE  Before(served, rest, ws)
  <2>1. NotAfter(us, ws) /\ MapBefore(map, ws)
    BY <1>1, <1>2, <1>10 DEF Before
  <2>2. MapBefore(served, ws)
    BY <1>7, <2>1
  <2>3. \A m \in 1..Len(rest) : NotAfter(rest[m].us, ws)
    BY <1>1, <1>10 DEF Before
  <2> QED BY <2>2, <2>3 DEF Before
<1> QED BY <1>1, <1>3, <1>6, <1>8, <1>9, <1>10 DEF rest

(* The flush thread stops waiting for the answers.                         *)
LEMMA Forgotten ==
  ASSUME NEW queue \in Seq(Requests)
  PROVE  /\ Forget(queue) \in Seq(Requests) /\ Len(Forget(queue)) = Len(queue)
         /\ \A map : Ordered(map, queue) => Ordered(map, Forget(queue))
         /\ \A map, n : Known(map, queue, n) => Known(map, Forget(queue), n)
         /\ \A map, ws : Before(map, queue, ws) => Before(map, Forget(queue), ws)
<1>1. \A m \in 1..Len(queue) :
        [queue[m] EXCEPT !.awaited = FALSE] \in Requests /\ [queue[m] EXCEPT !.awaited = FALSE].us = queue[m].us
  <2>1. \A r \in Requests : [r EXCEPT !.awaited = FALSE] \in Requests /\ [r EXCEPT !.awaited = FALSE].us = r.us
    BY DEF Requests
  <2>2. \A m \in 1..Len(queue) : queue[m] \in Requests
    OBVIOUS
  <2> QED BY <2>1, <2>2
<1>2. /\ Forget(queue) \in [1..Len(queue) -> Requests]
      /\ \A m \in 1..Len(queue) : Forget(queue)[m].us = queue[m].us
  BY <1>1 DEF Forget
<1>3. Forget(queue) \in Seq(Requests) /\ Len(Forget(queue)) = Len(queue) /\ Len(queue) \in Nat
  BY <1>2
<1>4. \A map : Ordered(map, queue) => Ordered(map, Forget(queue))
  <2> SUFFICES ASSUME NEW map, Ordered(map, queue)
               PROVE  Ordered(map, Forget(queue))
    OBVIOUS
  <2>1. \A n \in 1..Len(queue) : \A m \in 1..n : m \in 1..Len(queue)
    BY <1>3
  <2> QED BY <1>2, <1>3, <2>1 DEF Ordered
<1>5. \A map, n : Known(map, queue, n) => Known(map, Forget(queue), n)
  BY <1>2, <1>3 DEF Known
<1>6. \A map, ws : Before(map, queue, ws) => Before(map, Forget(queue), ws)
  BY <1>2, <1>3 DEF Before
<1> QED BY <1>3, <1>4, <1>5, <1>6

-----------------------------------------------------------------------------
(* The steps.                                                              *)

LEMMA InitHolds == Init => IInv
<1> SUFFICES ASSUME Init PROVE IInv
  OBVIOUS
<1>1. TypeOK
  <2>1. [i \in Ids |-> Absent] \in [Ids -> Geometries]
    BY DEF Absent, Geometries
  <2> QED BY <2>1 DEF Init, TypeOK
<1>2. InboxInv /\ BufferInv
  BY DEF Init, InboxInv, BufferInv, Ordered, Before, MapBefore
<1>3. ReceivedInv
  BY DEF Init, ReceivedInv, UpTo, Known, Absent
<1>4. BatchInv /\ DirectInv
  BY DEF Init, BatchInv, DirectInv, Delivering
<1> QED BY <1>1, <1>2, <1>3, <1>4 DEF IInv

(* Steps that leave updates alone.                                         *)
LEMMA QuietStep ==
  ASSUME IInv,
         cfg' = cfg, buffer' = buffer, batch' = batch, chunks' = chunks,
         inbox' = inbox, fences' = fences,
         received' \in [updates : Nat, scans : Nat, orders : Nat],
         received'.updates = received.updates,
         flusher' \in {"deliver", "await"} => flusher' = flusher
  PROVE  IInv'
<1>1. TypeOK'
  BY DEF IInv, TypeOK
<1>2. InboxInv' /\ BufferInv'
  BY DEF IInv, InboxInv, BufferInv
<1>3. ReceivedInv'
  BY DEF IInv, ReceivedInv
<1>4. BatchInv'
  BY DEF IInv, BatchInv, Delivering
<1>5. DirectInv'
  BY DEF IInv, DirectInv, Delivering, Opt
<1> QED BY <1>1, <1>2, <1>3, <1>4, <1>5 DEF IInv

(* What a step may count on.                                               *)
LEMMA Facts ==
  ASSUME IInv
  PROVE  /\ received.updates \in Nat
         /\ buffer \in Seq(Updates) /\ batch \in Seq(Updates)
         /\ \A a \in Agvs : /\ fences[a] \in [Ids -> Geometries] /\ inbox[a] \in Seq(Requests)
                            /\ Ordered(fences[a], inbox[a])
                            /\ Before(fences[a], inbox[a], buffer)
                            /\ Known(fences[a], inbox[a], received.updates)
         /\ UpTo(buffer, received.updates) /\ UpTo(batch, received.updates)
BY DEF IInv, TypeOK, InboxInv, BufferInv, ReceivedInv

LEMMA ObstacleUpdatesStep ==
  ASSUME HeldUpdatesAreFlushed, IInv, NEW msg \in Messages, ObstacleUpdatesCallback(msg)
  PROVE  IInv'
<1> DEFINE n == received.updates
           us == ParseObstacleUpdates(msg, n + 1)
           hold == Opt("buffering") \/ (Opt("wait") /\ ~allReady)
<1>1. us \in Seq(Updates) /\ \A k \in 1..Len(us) : us[k].ver = n + 1
  BY Facts, Parsed
<1>2. n \in Nat /\ received' \in [updates : Nat, scans : Nat, orders : Nat] /\ received'.updates = n + 1
  <2>1. received \in [updates : Nat, scans : Nat, orders : Nat]
    BY DEF IInv, TypeOK
  <2>2. received' = [received EXCEPT !.updates = @ + 1]
    BY DEF ObstacleUpdatesCallback
  <2> QED BY <2>1, <2>2
<1>3. /\ UpTo(us, n + 1) /\ NotAfter(us, us)
      /\ \A vs \in Seq(Updates) : UpTo(vs, n) => NotAfter(vs, us) /\ UpTo(vs, n + 1)
      /\ \A map \in [Ids -> Geometries], queue \in Seq(Requests) :
           Known(map, queue, n) => Before(map, queue, us) /\ Known(map, queue, n + 1)
  <2> HIDE DEF us, n
  <2> QED BY <1>1, <1>2, Newest
<1>4. cfg' = cfg /\ batch' = batch /\ chunks' = chunks /\ flusher' = flusher /\ fences' = fences
  BY DEF ObstacleUpdatesCallback, flushVars
<1>5. \/ us = <<>> /\ buffer' = buffer /\ inbox' = inbox
      \/ us # <<>> /\ (hold \/ ~PublishesDirectly) /\ buffer' = buffer \o us /\ inbox' = inbox
      \/ /\ us # <<>> /\ ~hold /\ PublishesDirectly /\ buffer' = buffer
         /\ inbox' = [a \in Agvs |-> Append(inbox[a], [us |-> us, awaited |-> FALSE])]
  BY DEF ObstacleUpdatesCallback
<1> HIDE DEF us, n
<1>6. /\ UpTo(batch, n + 1) /\ NotAfter(batch, us) /\ UpTo(buffer, n + 1)
      /\ \A a \in Agvs : Before(fences[a], inbox[a], us) /\ Known(fences[a], inbox[a], n + 1)
  BY <1>3, Facts DEF n
<1>7. CASE us = <<>> /\ buffer' = buffer /\ inbox' = inbox
  <2>1. TypeOK'
    BY <1>2, <1>4, <1>7 DEF IInv, TypeOK
  <2>2. InboxInv' /\ BufferInv'
    BY <1>4, <1>7 DEF IInv, InboxInv, BufferInv
  <2>3. ReceivedInv'
    BY <1>2, <1>4, <1>6, <1>7 DEF ReceivedInv
  <2>4. BatchInv' /\ DirectInv'
    BY <1>4, <1>7 DEF IInv, BatchInv, DirectInv, Delivering, Opt
  <2> QED BY <2>1, <2>2, <2>3, <2>4 DEF IInv
<1>8. CASE us # <<>> /\ (hold \/ ~PublishesDirectly) /\ buffer' = buffer \o us /\ inbox' = inbox
  <2>1. /\ buffer' \in Seq(Updates) /\ UpTo(buffer', n + 1)
        /\ \A a \in Agvs : Before(fences[a], inbox[a], buffer')
        /\ NotAfter(batch, buffer) => NotAfter(batch, buffer')
    BY <1>1, <1>3, <1>6, <1>8, Facts, Joining
  <2>2. TypeOK'
    BY <1>2, <1>4, <1>8, <2>1 DEF IInv, TypeOK
  <2>3. InboxInv' /\ BufferInv'
    BY <1>4, <1>8, <2>1 DEF IInv, InboxInv, BufferInv
  <2>4. ReceivedInv'
    BY <1>2, <1>4, <1>6, <1>8, <2>1 DEF ReceivedInv
  <2>5. BatchInv'
    BY <1>4, <1>8, <2>1 DEF IInv, BatchInv, Delivering
  <2>6. Opt("buffering") \/ Opt("service")
    BY <1>8 DEF IInv, TypeOK, HeldUpdatesAreFlushed, Opt, PublishesDirectly
  <2>7. DirectInv'
    BY <1>4, <2>6 DEF DirectInv, Opt
  <2> QED BY <2>2, <2>3, <2>4, <2>5, <2>7 DEF IInv
<1>9. CASE /\ us # <<>> /\ ~hold /\ PublishesDirectly /\ buffer' = buffer
           /\ inbox' = [a \in Agvs |-> Append(inbox[a], [us |-> us, awaited |-> FALSE])]
  <2>1. buffer = <<>> /\ ~Delivering
    BY <1>9 DEF IInv, DirectInv, PublishesDirectly
  <2>2. \A a \in Agvs : /\ inbox'[a] \in Seq(Requests)
                        /\ Ordered(fences[a], inbox'[a])
                        /\ Known(fences[a], inbox'[a], n + 1)
                        /\ Before(fences[a], inbox'[a], buffer)
    <3> SUFFICES ASSUME NEW a \in Agvs
                 PROVE  /\ inbox'[a] \in Seq(Requests)
                        /\ Ordered(fences[a], inbox'[a])
                        /\ Known(fences[a], inbox'[a], n + 1)
                        /\ Before(fences[a], inbox'[a], buffer)
      OBVIOUS
    <3>1. NotAfter(us, buffer)
      BY <2>1 DEF NotAfter
    <3>2. inbox'[a] = Append(inbox[a], [us |-> us, awaited |-> FALSE])
      BY <1>9
    <3> QED BY <1>1, <1>3, <1>6, <3>1, <3>2, Facts, Sending
  <2>3. inbox' \in [Agvs -> Seq(Requests)]
    BY <1>9, <2>2
  <2>4. TypeOK'
    BY <1>2, <1>4, <1>9, <2>3 DEF IInv, TypeOK
  <2>5. InboxInv' /\ BufferInv'
    BY <1>4, <1>9, <2>2 DEF InboxInv, BufferInv
  <2>6. ReceivedInv'
    BY <1>2, <1>4, <1>6, <1>9, <2>2 DEF ReceivedInv
  <2>7. BatchInv' /\ DirectInv'
    BY <1>4, <1>9, <2>1 DEF BatchInv, DirectInv, Delivering
  <2> QED BY <2>4, <2>5, <2>6, <2>7 DEF IInv
<1> QED BY <1>5, <1>7, <1>8, <1>9

LEMMA FlushBufferStep ==
  ASSUME IInv, FlushBuffer
  PROVE  IInv'
<1>1. CASE buffer = <<>>
  <2>1. /\ cfg' = cfg /\ buffer' = buffer /\ batch' = batch /\ chunks' = chunks /\ inbox' = inbox
        /\ fences' = fences /\ received' = received /\ flusher' = "check"
    BY <1>1 DEF FlushBuffer, agvVars
  <2> QED BY <2>1, QuietStep DEF IInv, TypeOK
<1>2. CASE buffer # <<>>
  <2> DEFINE sent == Collapse(buffer)
  <2>1. /\ cfg' = cfg /\ inbox' = inbox /\ fences' = fences /\ received' = received
        /\ flusher' = "deliver" /\ batch' = sent /\ chunks' = Chunked(sent) /\ buffer' = <<>>
    BY <1>2 DEF FlushBuffer, agvVars
  <2>2. sent \in Seq(Updates) /\ NotAfter(sent, sent) /\ Among(sent, buffer)
    BY Facts, Collapsed
  <2> HIDE DEF sent
  <2>3. /\ chunks' \in Seq(Seq(Updates))
        /\ \A c \in 1..Len(chunks') : Among(chunks'[c], sent)
    BY <2>1, <2>2, ChunksOf
  <2>4. UpTo(sent, received.updates) /\ \A a \in Agvs : Before(fences[a], inbox[a], sent)
    <3>1. UpTo(sent, received.updates)
      <4>1. \A map \in [Ids -> Geometries], queue \in Seq(Requests) :
              \A n \in Nat : UpTo(buffer, n) => UpTo(sent, n)
        BY <2>2, Facts, AmongThem
      <4> QED BY <2>2, Facts DEF UpTo, Among
    <3>2. ASSUME NEW a \in Agvs
          PROVE  Before(fences[a], inbox[a], sent)
      BY <2>2, Facts, AmongThem
    <3> QED BY <3>1, <3>2
  <2>5. TypeOK'
    BY <2>1, <2>2, <2>3 DEF IInv, TypeOK
  <2>6. InboxInv' /\ BufferInv'
    <3>1. \A a \in Agvs : Before(fences[a], inbox[a], <<>>)
      BY DEF Before, MapBefore, NotAfter
    <3> QED BY <2>1, <3>1 DEF IInv, InboxInv, BufferInv
  <2>7. ReceivedInv'
    <3>1. UpTo(<<>>, received.updates)
      BY DEF UpTo
    <3> QED BY <2>1, <2>4, <3>1 DEF IInv, ReceivedInv
  <2>8. BatchInv'
    <3>1. NotAfter(sent, <<>>)
      BY DEF NotAfter
    <3> QED BY <2>1, <2>2, <2>3, <2>4, <3>1 DEF BatchInv
  <2>9. DirectInv'
    BY <1>2, <2>1 DEF IInv, DirectInv, Opt
  <2> QED BY <2>5, <2>6, <2>7, <2>8, <2>9 DEF IInv
<1> QED BY <1>1, <1>2

(* A chunk done with.                                                      *)
LEMMA NextChunk ==
  ASSUME IInv, chunks # <<>>
  PROVE  /\ Tail(chunks) \in Seq(Seq(Updates))
         /\ Head(chunks) \in Seq(Updates)
         /\ Delivering => /\ Among(Head(chunks), batch)
                          /\ \A c \in 1..Len(Tail(chunks)) : Among(Tail(chunks)[c], batch)
<1>1. chunks \in Seq(Seq(Updates))
  BY DEF IInv, TypeOK
<1>2. /\ Tail(chunks) \in Seq(Seq(Updates)) /\ Head(chunks) \in Seq(Updates)
      /\ Head(chunks) = chunks[1] /\ 1 \in 1..Len(chunks)
      /\ \A c \in 1..Len(Tail(chunks)) : c + 1 \in 1..Len(chunks) /\ Tail(chunks)[c] = chunks[c + 1]
  BY <1>1, HeadTailProperties
<1> QED BY <1>2 DEF IInv, BatchInv

LEMMA DeliverChunkStep ==
  ASSUME IInv, DeliverChunk
  PROVE  IInv'
<1> DEFINE us == Head(chunks)
<1>1. Delivering /\ chunks # <<>>
  BY DEF DeliverChunk, Delivering
<1>2. us \in Seq(Updates) /\ Among(us, batch)
  BY <1>1, NextChunk
<1>3. /\ cfg' = cfg /\ received' = received /\ buffer' = buffer /\ batch' = batch /\ fences' = fences
      /\ flusher' \in {"deliver", "await"}
  BY DEF DeliverChunk, mapVars
<1>4. \/ chunks' = chunks
      \/ chunks' = Tail(chunks) /\ flusher' = "deliver"
  BY DEF DeliverChunk
<1>5. PICK there \in SUBSET Agvs :
        inbox' = [a \in Agvs |-> IF a \in there
                    THEN Append(inbox[a], [us |-> us, awaited |-> Opt("service") /\ there = Agvs])
                    ELSE inbox[a]]
  BY DEF DeliverChunk
<1> HIDE DEF us
<1>6. NotAfter(batch, batch) /\ NotAfter(batch, buffer) /\ \A a \in Agvs : Before(fences[a], inbox[a], batch)
  BY <1>1 DEF IInv, BatchInv
<1>7. /\ NotAfter(us, us) /\ NotAfter(us, batch) /\ NotAfter(us, buffer)
      /\ UpTo(us, received.updates)
  <2>1. NotAfter(us, batch) /\ NotAfter(us, buffer)
    BY <1>2, <1>6, Facts DEF NotAfter, Among
  <2>2. NotAfter(us, us)
    BY <1>2, <2>1, Facts DEF NotAfter, Among
  <2>3. UpTo(us, received.updates)
    BY <1>2, Facts DEF UpTo, Among
  <2> QED BY <2>1, <2>2, <2>3
<1>8. \A a \in Agvs : /\ inbox'[a] \in Seq(Requests)
                      /\ Ordered(fences[a], inbox'[a])
                      /\ Known(fences[a], inbox'[a], received.updates)
                      /\ Before(fences[a], inbox'[a], buffer)
                      /\ Before(fences[a], inbox'[a], batch)
  <2> SUFFICES ASSUME NEW a \in Agvs
               PROVE  /\ inbox'[a] \in Seq(Requests)
                      /\ Ordered(fences[a], inbox'[a])
                      /\ Known(fences[a], inbox'[a], received.updates)
                      /\ Before(fences[a], inbox'[a], buffer)
                      /\ Before(fences[a], inbox'[a], batch)
    OBVIOUS
  <2>1. CASE a \in there
    <3> DEFINE awaited == Opt("service") /\ there = Agvs
    <3>1. inbox'[a] = Append(inbox[a], [us |-> us, awaited |-> awaited])
      BY <1>5, <2>1
    <3>2. awaited \in BOOLEAN
      OBVIOUS
    <3>3. Before(fences[a], inbox[a], us)
      BY <1>2, <1>6, Facts, AmongThem
    <3> HIDE DEF awaited
    <3>4. /\ fences[a] \in [Ids -> Geometries] /\ inbox[a] \in Seq(Requests)
          /\ Ordered(fences[a], inbox[a])
      BY Facts
    <3>5. /\ inbox'[a] \in Seq(Requests) /\ Ordered(fences[a], inbox'[a])
          /\ \A n : Known(fences[a], inbox[a], n) /\ UpTo(us, n) => Known(fences[a], inbox'[a], n)
          /\ \A ws : Before(fences[a], inbox[a], ws) /\ NotAfter(us, ws)
                       => Before(fences[a], inbox'[a], ws)
      BY <1>2, <1>7, <3>1, <3>2, <3>3, <3>4, Sending
    <3>6. Known(fences[a], inbox'[a], received.updates)
      BY <1>7, <3>5, Facts
    <3>7. Before(fences[a], inbox'[a], buffer) /\ Before(fences[a], inbox'[a], batch)
      BY <1>6, <1>7, <3>5, Facts
    <3> QED BY <3>5, <3>6, <3>7
  <2>2. CASE a \notin there
    <3>1. inbox'[a] = inbox[a]
      BY <1>5, <2>2
    <3> QED BY <1>6, <3>1, Facts
  <2> QED BY <2>1, <2>2
<1>9. chunks' \in Seq(Seq(Updates)) /\ \A c \in 1..Len(chunks') : Among(chunks'[c], batch)
  BY <1>1, <1>4, NextChunk DEF IInv, TypeOK, BatchInv
<1>10. TypeOK'
  <2>1. inbox' \in [Agvs -> Seq(Requests)]
    BY <1>5, <1>8
  <2> QED BY <1>3, <1>9, <2>1 DEF IInv, TypeOK
<1>11. InboxInv' /\ BufferInv'
  BY <1>3, <1>8 DEF InboxInv, BufferInv
<1>12. ReceivedInv'
  BY <1>3, <1>8, Facts DEF ReceivedInv
<1>13. BatchInv'
  BY <1>1, <1>3, <1>4, <1>6, <1>8, <1>9 DEF BatchInv
<1>14. DirectInv'
  BY <1>1, <1>3 DEF IInv, DirectInv, Opt
<1> QED BY <1>10, <1>11, <1>12, <1>13, <1>14 DEF IInv

LEMMA ChunkEndsStep ==
  ASSUME IInv, ChunkEnds
  PROVE  IInv'
<1>1. Delivering /\ chunks # <<>>
  BY DEF ChunkEnds, Delivering, IInv, BatchInv
<1>2. /\ cfg' = cfg /\ received' = received /\ buffer' = buffer /\ batch' = batch /\ fences' = fences
      /\ flusher' = "deliver" /\ chunks' = Tail(chunks)
      /\ inbox' = [a \in Agvs |-> Forget(inbox[a])]
  BY DEF ChunkEnds, mapVars
<1>3. \A a \in Agvs : Before(fences[a], inbox[a], batch)
  BY <1>1 DEF IInv, BatchInv
<1>4. \A a \in Agvs : /\ inbox'[a] \in Seq(Requests)
                      /\ Ordered(fences[a], inbox'[a])
                      /\ Known(fences[a], inbox'[a], received.updates)
                      /\ Before(fences[a], inbox'[a], buffer)
                      /\ Before(fences[a], inbox'[a], batch)
  <2> SUFFICES ASSUME NEW a \in Agvs
               PROVE  /\ inbox'[a] \in Seq(Requests)
                      /\ Ordered(fences[a], inbox'[a])
                      /\ Known(fences[a], inbox'[a], received.updates)
                      /\ Before(fences[a], inbox'[a], buffer)
                      /\ Before(fences[a], inbox'[a], batch)
    OBVIOUS
  <2>1. inbox'[a] = Forget(inbox[a])
    BY <1>2
  <2> QED BY <1>3, <2>1, Facts, Forgotten
<1>5. TypeOK'
  <2>1. inbox' \in [Agvs -> Seq(Requests)]
    BY <1>2, <1>4
  <2> QED BY <1>1, <1>2, <2>1, NextChunk DEF IInv, TypeOK
<1>6. InboxInv' /\ BufferInv'
  BY <1>2, <1>4 DEF InboxInv, BufferInv
<1>7. ReceivedInv'
  BY <1>2, <1>4, Facts DEF ReceivedInv
<1>8. BatchInv'
  <2>1. NotAfter(batch, batch) /\ NotAfter(batch, buffer)
    BY <1>1 DEF IInv, BatchInv
  <2>2. \A c \in 1..Len(chunks') : Among(chunks'[c], batch)
    BY <1>1, <1>2, NextChunk
  <2> QED BY <1>2, <1>4, <2>1, <2>2 DEF BatchInv
<1>9. DirectInv'
  BY <1>1, <1>2 DEF IInv, DirectInv, Opt
<1> QED BY <1>5, <1>6, <1>7, <1>8, <1>9 DEF IInv

LEMMA DeliveryEndsStep ==
  ASSUME IInv, DeliveryEnds
  PROVE  IInv'
<1>1. Delivering
  BY DEF DeliveryEnds, Delivering
<1>2. /\ cfg' = cfg /\ received' = received /\ batch' = batch /\ chunks' = chunks
      /\ fences' = fences /\ inbox' = inbox /\ flusher' = "complete"
      /\ buffer' = buffer \/ buffer' = batch \o buffer
  BY DEF DeliveryEnds, agvVars, PutBack
<1>3. \A a \in Agvs : Before(fences[a], inbox[a], batch)
  BY <1>1 DEF IInv, BatchInv
<1>4. /\ buffer' \in Seq(Updates) /\ UpTo(buffer', received.updates)
      /\ \A a \in Agvs : Before(fences[a], inbox[a], buffer')
  BY <1>2, <1>3, Facts, Joining
<1>5. TypeOK'
  BY <1>2, <1>4 DEF IInv, TypeOK
<1>6. InboxInv' /\ BufferInv'
  BY <1>2, <1>4 DEF IInv, InboxInv, BufferInv
<1>7. ReceivedInv'
  BY <1>2, <1>4 DEF IInv, ReceivedInv
<1>8. BatchInv' /\ DirectInv'
  BY <1>1, <1>2 DEF IInv, BatchInv, DirectInv, Delivering, Opt
<1> QED BY <1>5, <1>6, <1>7, <1>8 DEF IInv

(* Serve: the geofence has nothing older than before.                      *)
LEMMA ServeFacts ==
  ASSUME IInv, NEW a \in Agvs, Serve(a)
  PROVE  /\ cfg' = cfg /\ received' = received /\ buffer' = buffer /\ batch' = batch
         /\ chunks' = chunks /\ flusher' = flusher
         /\ inbox' = [inbox EXCEPT ![a] = Tail(@)] /\ inbox[a] # <<>>
         /\ fences' \in [Agvs -> [Ids -> Geometries]]
         /\ fences'[a] = fences[a] \/ fences'[a] = Apply(fences[a], Head(inbox[a]).us)
         /\ \A b \in Agvs \ {a} : fences'[b] = fences[b]
         /\ \A i \in Ids : fences'[a][i].ver >= fences[a][i].ver
<1>1. /\ cfg' = cfg /\ received' = received /\ buffer' = buffer /\ batch' = batch
      /\ chunks' = chunks /\ flusher' = flusher
      /\ inbox' = [inbox EXCEPT ![a] = Tail(@)] /\ inbox[a] # <<>>
  BY DEF Serve, mapVars, flushVars
<1>2. fences \in [Agvs -> [Ids -> Geometries]]
  BY DEF IInv, TypeOK
<1>3. fences' = fences \/ fences' = [fences EXCEPT ![a] = Apply(@, Head(inbox[a]).us)]
  BY DEF Serve
<1>4. fences'[a] = fences[a] \/ fences'[a] = Apply(fences[a], Head(inbox[a]).us)
  BY <1>2, <1>3
<1>5. fences'[a] \in [Ids -> Geometries] /\ \A i \in Ids : fences'[a][i].ver >= fences[a][i].ver
  BY <1>1, <1>4, Facts, Serving
<1>6. \A b \in Agvs \ {a} : fences'[b] = fences[b]
  BY <1>2, <1>3
<1>7. fences' \in [Agvs -> [Ids -> Geometries]]
  <2>1. DOMAIN fences' = Agvs /\ fences' = [b \in Agvs |-> fences'[b]]
    BY <1>2, <1>3
  <2> QED BY <1>2, <1>5, <1>6, <2>1
<1> QED BY <1>1, <1>4, <1>5, <1>6, <1>7

LEMMA ServeStep ==
  ASSUME IInv, NEW a \in Agvs, Serve(a)
  PROVE  IInv'
<1>1. /\ cfg' = cfg /\ received' = received /\ buffer' = buffer /\ batch' = batch
      /\ chunks' = chunks /\ flusher' = flusher /\ inbox' = [inbox EXCEPT ![a] = Tail(@)]
      /\ fences' \in [Agvs -> [Ids -> Geometries]]
  BY ServeFacts
<1>2. \A b \in Agvs : /\ inbox'[b] \in Seq(Requests)
                      /\ Ordered(fences'[b], inbox'[b])
                      /\ Known(fences'[b], inbox'[b], received.updates)
                      /\ Before(fences'[b], inbox'[b], buffer)
                      /\ Before(fences[b], inbox[b], batch) => Before(fences'[b], inbox'[b], batch)
  <2> SUFFICES ASSUME NEW b \in Agvs
               PROVE  /\ inbox'[b] \in Seq(Requests)
                      /\ Ordered(fences'[b], inbox'[b])
                      /\ Known(fences'[b], inbox'[b], received.updates)
                      /\ Before(fences'[b], inbox'[b], buffer)
                      /\ Before(fences[b], inbox[b], batch) => Before(fences'[b], inbox'[b], batch)
    OBVIOUS
  <2>1. CASE b = a
    <3>1. inbox[a] # <<>> /\ inbox'[a] = Tail(inbox[a])
      BY <1>1, ServeFacts DEF IInv, TypeOK
    <3>2. fences'[a] = fences[a] \/ fences'[a] = Apply(fences[a], Head(inbox[a]).us)
      BY ServeFacts
    <3> QED BY <2>1, <3>1, <3>2, Facts, Serving
  <2>2. CASE b # a
    <3>1. inbox'[b] = inbox[b] /\ fences'[b] = fences[b]
      BY <1>1, <2>2, ServeFacts DEF IInv, TypeOK
    <3> QED BY <3>1, Facts
  <2> QED BY <2>1, <2>2
<1>3. TypeOK'
  <2>1. inbox' \in [Agvs -> Seq(Requests)]
    <3>1. DOMAIN inbox' = Agvs /\ inbox' = [b \in Agvs |-> inbox'[b]]
      BY <1>1 DEF IInv, TypeOK
    <3> QED BY <1>2, <3>1
  <2> QED BY <1>1, <2>1 DEF IInv, TypeOK
<1>4. InboxInv' /\ BufferInv'
  BY <1>1, <1>2 DEF InboxInv, BufferInv
<1>5. ReceivedInv'
  BY <1>1, <1>2, Facts DEF ReceivedInv
<1>6. BatchInv'
  BY <1>1, <1>2 DEF IInv, BatchInv, Delivering
<1>7. DirectInv'
  BY <1>1 DEF IInv, DirectInv, Delivering, Opt
<1> QED BY <1>3, <1>4, <1>5, <1>6, <1>7 DEF IInv

(* The other steps.                                                        *)
Others ==
  \/ Silence \/ BufferTimer \/ FlusherChecks \/ FlusherBlocks \/ FlusherWakes \/ FlushEnds
  \/ (\E a \in Agvs : GeofenceReadyCallback(a)) \/ GeofenceReadyTimeoutCallback
  \/ AgvOrderRelayCallback \/ OrderRelayTimerCallback
  \/ LaserScanCallback \/ BufferLaserScan \/ ReplayTimerCallback \/ Destroy \/ Joined

LEMMA OthersFacts ==
  ASSUME Others
  PROVE  /\ cfg' = cfg /\ buffer' = buffer /\ batch' = batch /\ chunks' = chunks
         /\ inbox' = inbox /\ fences' = fences
         /\ \/ received' = received
            \/ received' = [received EXCEPT !.orders = @ + 1]
            \/ received' = [received EXCEPT !.scans = @ + 1]
         /\ flusher' \in {"deliver", "await"} => flusher' = flusher
<1>1. CASE Silence
  BY <1>1 DEF Silence, flushVars, agvVars
<1>2. CASE BufferTimer
  BY <1>2 DEF BufferTimer, BufferTimerBegins, BufferTimerEnds, mapVars, flushVars, agvVars
<1>3. CASE FlusherChecks
  BY <1>3 DEF FlusherChecks, agvVars
<1>4. CASE FlusherBlocks
  BY <1>4 DEF FlusherBlocks, mapVars, agvVars
<1>5. CASE FlusherWakes
  BY <1>5 DEF FlusherWakes, mapVars, agvVars
<1>6. CASE FlushEnds
  BY <1>6 DEF FlushEnds, mapVars, agvVars
<1>7. CASE \E a \in Agvs : GeofenceReadyCallback(a)
  BY <1>7 DEF GeofenceReadyCallback, flushVars, agvVars
<1>8. CASE GeofenceReadyTimeoutCallback
  BY <1>8 DEF GeofenceReadyTimeoutCallback, flushVars, agvVars
<1>9. CASE AgvOrderRelayCallback
  BY <1>9 DEF AgvOrderRelayCallback, mapVars, flushVars, agvVars
<1>10. CASE OrderRelayTimerCallback
  BY <1>10 DEF OrderRelayTimerCallback, mapVars, flushVars, agvVars
<1>11. CASE LaserScanCallback
  BY <1>11 DEF LaserScanCallback, mapVars, flushVars, agvVars
<1>12. CASE BufferLaserScan
  BY <1>12 DEF BufferLaserScan, mapVars, flushVars, agvVars
<1>13. CASE ReplayTimerCallback
  BY <1>13 DEF ReplayTimerCallback, mapVars, flushVars, agvVars
<1>14. CASE Destroy
  BY <1>14 DEF Destroy, mapVars, agvVars
<1>15. CASE Joined
  BY <1>15 DEF Joined, mapVars, flushVars, agvVars
<1> QED BY <1>1, <1>2, <1>3, <1>4, <1>5, <1>6, <1>7, <1>8, <1>9, <1>10, <1>11, <1>12, <1>13,
           <1>14, <1>15 DEF Others

LEMMA OthersStep ==
  ASSUME IInv, Others
  PROVE  IInv'
<1>1. /\ received' \in [updates : Nat, scans : Nat, orders : Nat]
      /\ received'.updates = received.updates
  <2>1. received \in [updates : Nat, scans : Nat, orders : Nat]
    BY DEF IInv, TypeOK
  <2>2. CASE received' = received
    BY <2>1, <2>2
  <2>3. CASE received' = [received EXCEPT !.orders = @ + 1]
    BY <2>1, <2>3
  <2>4. CASE received' = [received EXCEPT !.scans = @ + 1]
    BY <2>1, <2>4
  <2> QED BY <2>2, <2>3, <2>4, OthersFacts
<1> QED BY <1>1, OthersFacts, QuietStep

LEMMA NextSteps ==
  ASSUME Next
  PROVE  \/ \E msg \in Messages : ObstacleUpdatesCallback(msg)
         \/ FlushBuffer \/ DeliverChunk \/ ChunkEnds \/ DeliveryEnds
         \/ \E a \in Agvs : Serve(a)
         \/ Others
BY DEF Next, Flusher, Others

LEMMA StepHolds ==
  ASSUME HeldUpdatesAreFlushed, IInv, [Next]_vars
  PROVE  IInv'
<1>1. CASE UNCHANGED vars
  <2>1. /\ cfg' = cfg /\ buffer' = buffer /\ batch' = batch /\ chunks' = chunks /\ inbox' = inbox
        /\ fences' = fences /\ received' = received /\ flusher' = flusher
    BY <1>1 DEF vars, mapVars, flushVars, agvVars
  <2> QED BY <2>1, QuietStep DEF IInv, TypeOK
<1>2. CASE Next
  BY <1>2, NextSteps, ObstacleUpdatesStep, FlushBufferStep, DeliverChunkStep, ChunkEndsStep,
     DeliveryEndsStep, ServeStep, OthersStep
<1> QED BY <1>1, <1>2

LEMMA NeverOlderStep ==
  ASSUME IInv, Next
  PROVE  \A a \in Agvs, i \in Ids : fences'[a][i].ver >= fences[a][i].ver
<1>1. \A a \in Agvs, i \in Ids : fences[a][i].ver \in Nat
  <2>1. \A a \in Agvs, i \in Ids : fences[a][i] \in Geometries
    BY Facts
  <2> QED BY <2>1 DEF Geometries
<1>2. CASE \E b \in Agvs : Serve(b)
  <2>1. PICK b \in Agvs : Serve(b)
    BY <1>2
  <2>2. \A i \in Ids : fences'[b][i].ver >= fences[b][i].ver
    BY <2>1, ServeFacts
  <2>3. \A a \in Agvs \ {b} : fences'[a] = fences[a]
    BY <2>1, ServeFacts
  <2> QED BY <1>1, <2>2, <2>3
<1>3. CASE fences' = fences
  BY <1>1, <1>3
<1>4. (\E msg \in Messages : ObstacleUpdatesCallback(msg)) => fences' = fences
  BY DEF ObstacleUpdatesCallback
<1>5. FlushBuffer \/ DeliverChunk \/ ChunkEnds \/ DeliveryEnds => fences' = fences
  BY DEF FlushBuffer, DeliverChunk, ChunkEnds, DeliveryEnds, agvVars
<1> QED BY <1>2, <1>3, <1>4, <1>5, NextSteps, OthersFacts

-----------------------------------------------------------------------------
(* What is sent to a geofence, buffered and in delivery comes in the order *)
(* in which the updates of an obstacle were received (flushBuffer).        *)
THEOREM TranslatorInvariant ==
  ASSUME HeldUpdatesAreFlushed
  PROVE  Spec => []IInv
<1>1. Init => IInv
  BY InitHolds
<1>2. IInv /\ [Next]_vars => IInv'
  BY StepHolds
<1> QED BY <1>1, <1>2, PTL DEF Spec

(* A geofence never replaces the geometry of an obstacle by an older one,  *)
(* although a failed delivery is sent again after newer updates came in,   *)
(* and requests the translator gave up on are served late (flushBuffer).   *)
THEOREM NeverOlderHolds ==
  ASSUME HeldUpdatesAreFlushed
  PROVE  Spec => NeverOlder
<1>1. IInv /\ [Next]_vars => [\A a \in Agvs, i \in Ids : fences'[a][i].ver >= fences[a][i].ver]_vars
  BY NeverOlderStep
<1> QED BY <1>1, TranslatorInvariant, PTL DEF Spec, NeverOlder
=============================================================================
