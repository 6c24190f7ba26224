------------------------- MODULE GeofenceNodeProofs -------------------------
(***************************************************************************)
(* The geofence node and what becomes of what it sends.                    *)
(*                                                                         *)
(* The lifecycle, for any scans, files, update messages and areas: what a  *)
(* callback may dereference exists until an operator cleans the node up,   *)
(* and the ready signal means what it says.                                *)
(*                                                                         *)
(* The ids in its reports, for any scans and tolerances (Reports); the     *)
(* numbers the fleet makes of them, for any AGVs (Fleet); the geometry     *)
(* that reaches the broker, for any faults, restarts and events.           *)
(* They share no variable with the node.                                   *)
(***************************************************************************)
EXTENDS GeofenceNode, NodeReports, FleetReports, FiwareBridge, Integers,
        SequenceTheorems, FiniteSetTheorems, TLAPS

Maps == [obs : SUBSET Ids, areas : SUBSET Areas, locked : SUBSET Areas, contours : BOOLEAN]

Jobs == {Idle} \cup [kind : {"updates"}, rest : Seq(Ops)] \cup [kind : {"lock"}, area : Areas]

States == {"unconfigured", "inactive", "active", "finalized"}

TypeOK ==
  /\ lc \in States
  /\ wired \in BOOLEAN /\ cleaned \in BOOLEAN
  /\ fault \in {"none", "exception", "null map", "freed builder"}
  /\ map \in Maps \cup {None}
  /\ job \in Jobs /\ (job.kind = "updates" => job.rest # <<>>)
  /\ scan \in [Scans -> [pc : {"idle", "match", "alert", "report"}, seen : SUBSET Ids]]
  /\ scene \in SUBSET Ids

(* A job of the default group goes on with the map it began with, and what *)
(* has gone has gone by on_cleanup.                                        *)
PointersInv ==
  /\ job # Idle => map # None
  /\ ~cleaned => map # None
  /\ \A s \in Scans : scan[s].pc = "report" => wired \/ cleaned
  /\ fault \in {"null map", "freed builder"} => cleaned

IInv == TypeOK /\ PointersInv

-----------------------------------------------------------------------------
(* What the configured files add to a map.                                 *)
LEMMA LoadedFacts ==
  ASSUME NEW ok \in Files, map \in Maps \cup {None}
  PROVE  /\ Loaded(ok) \in Maps \cup {None}
         /\ map # None => Loaded(ok) # None
         /\ ObstaclesLoad(ok) /\ FileIds # {} => Loaded(ok) # None /\ FileIds \subseteq Loaded(ok).obs
         /\ ContoursLoad(ok) /\ ContoursFile => Loaded(ok) # None /\ Loaded(ok).contours
<1> DEFINE m == LoadedObstacles(ok)
<1>0. None \notin Maps /\ FileIds \subseteq Ids /\ ok.obstacles \in BOOLEAN /\ ok.contours \in BOOLEAN
  BY NodeAssumption DEF Maps, Files
<1>1. /\ m \in Maps \cup {None}
      /\ map # None => m # None
      /\ ObstaclesLoad(ok) /\ FileIds # {} => m \in Maps /\ FileIds \subseteq m.obs
  <2>1. CASE FileIds # {} /\ map # None /\ ok.obstacles
    <3>1. m = [map EXCEPT !.obs = @ \cup FileIds] /\ map \in Maps
      BY <2>1 DEF LoadedObstacles
    <3>2. m \in Maps /\ FileIds \subseteq m.obs
      BY <1>0, <3>1 DEF Maps
    <3> QED BY <1>0, <3>2
  <2>2. CASE ~(FileIds # {} /\ map # None /\ ok.obstacles)
    <3>1. m = map
      BY <2>2 DEF LoadedObstacles
    <3> QED BY <2>2, <3>1 DEF ObstaclesLoad
  <2> QED BY <2>1, <2>2
<1>2. Loaded(ok) = IF ContoursFile /\ m # None /\ ok.contours
                     THEN [m EXCEPT !.contours = TRUE] ELSE m
  BY DEF Loaded
<1>3. ContoursLoad(ok) /\ ContoursFile => map # None /\ ok.contours
  BY DEF ContoursLoad
<1> HIDE DEF m
<1>4. CASE ContoursFile /\ m # None /\ ok.contours
  <2>1. Loaded(ok) = [m EXCEPT !.contours = TRUE] /\ m \in Maps
    BY <1>1, <1>2, <1>4
  <2>2. Loaded(ok) \in Maps /\ Loaded(ok).contours = TRUE /\ Loaded(ok).obs = m.obs
    BY <2>1 DEF Maps
  <2> QED BY <1>0, <1>1, <2>2
<1>5. CASE ~(ContoursFile /\ m # None /\ ok.contours)
  <2>1. Loaded(ok) = m
    BY <1>2, <1>5
  <2> QED BY <1>0, <1>1, <1>3, <1>5, <2>1
<1> QED BY <1>4, <1>5

(* The constructor.                                                        *)
LEMMA InitHolds == Init => IInv
<1> SUFFICES ASSUME Init PROVE IInv
  OBVIOUS
<1>1. EmptyMap \in Maps /\ None \notin Maps
  BY NodeAssumption DEF EmptyMap, Maps
<1>2. job = Idle /\ job.kind = "idle"
  BY DEF Init, Idle
<1>3. TypeOK
  BY <1>1, <1>2 DEF Init, TypeOK, States, Jobs, NoScan
<1>4. PointersInv
  BY <1>1, <1>2 DEF Init, PointersInv, NoScan
<1> QED BY <1>3, <1>4 DEF IInv

(* Transitions: only on_cleanup takes anything away.                       *)
LEMMA TransitionKeeps ==
  ASSUME IInv, Transition
  PROVE  IInv'
<1>1. /\ job = Idle /\ UNCHANGED <<pointsOnly, params, cfg, worldVars, job, scan, alert, fault>>
      /\ \/ OnConfigure \/ (\E ok \in Files : OnActivate(ok)) \/ OnDeactivate \/ OnCleanup \/ OnShutdown
         \/ UNCHANGED <<lc, wired, map, cleaned>>
  BY DEF Transition, Request, AutoTransition
<1>2. ASSUME lc' \in States, wired' \in BOOLEAN, cleaned' \in BOOLEAN, map' \in Maps \cup {None},
             cleaned => cleaned', ~cleaned' => map' # None, wired => wired' \/ cleaned'
      PROVE  IInv'
  BY <1>1, <1>2 DEF IInv, TypeOK, PointersInv, worldVars
<1>3. CASE OnConfigure
  BY <1>2, <1>3 DEF OnConfigure, OnConfigureExtra, IInv, TypeOK, PointersInv, States
<1>4. ASSUME NEW ok \in Files, OnActivate(ok) PROVE IInv'
  <2>1. map' = map \/ map' = Loaded(ok)
    BY <1>4 DEF OnActivate
  <2>2. map' \in Maps \cup {None} /\ (map # None => map' # None)
    BY <2>1, LoadedFacts DEF IInv, TypeOK
  <2>3. lc' \in States /\ wired' = wired /\ cleaned' = cleaned
    BY <1>4 DEF OnActivate, IInv, TypeOK, States
  <2> QED BY <1>2, <2>2, <2>3 DEF IInv, TypeOK, PointersInv
<1>5. CASE OnDeactivate
  BY <1>2, <1>5 DEF OnDeactivate, IInv, TypeOK, PointersInv, States
<1>6. CASE OnCleanup
  BY <1>2, <1>6 DEF OnCleanup, States
<1>7. CASE OnShutdown
  BY <1>2, <1>7 DEF OnShutdown, IInv, TypeOK, PointersInv, States
<1>8. CASE UNCHANGED <<lc, wired, map, cleaned>>
  BY <1>2, <1>8 DEF IInv, TypeOK, PointersInv
<1> QED BY <1>1, <1>3, <1>4, <1>5, <1>6, <1>7, <1>8

(* What is left of a message when its first operation is taken.            *)
LEMMA FirstAndRest ==
  ASSUME NEW S, NEW s \in Seq(S), s # <<>>
  PROVE  /\ Head(s) \in S
         /\ Tail(s) \in Seq(S)
         /\ Len(s) # 1 => Tail(s) # <<>>
<1>1. Head(s) \in S /\ Tail(s) \in Seq(S) /\ Len(Tail(s)) = Len(s) - 1
  BY HeadTailProperties
<1>2. Len(s) # 1 => Len(Tail(s)) # 0
  BY <1>1, LenProperties
<1>3. Len(<<>>) = 0
  OBVIOUS
<1>4. Len(s) # 1 => Tail(s) # <<>>
  BY <1>2, <1>3, Zenon
<1> QED BY <1>1, <1>4

(* Services and update messages: they work on a map that is there.         *)
LEMMA ServiceKeeps ==
  ASSUME IInv, Service
  PROVE  IInv'
<1>0. /\ None \notin Maps /\ map \in Maps \cup {None} /\ job \in Jobs
  BY NodeAssumption DEF IInv, TypeOK, Maps
<1>1. ASSUME UNCHANGED <<lifeVars, worldVars, wired, scan>>,
             fault' \in {"none", "exception", "null map", "freed builder"},
             fault' \in {"null map", "freed builder"} => cleaned,
             job' \in Jobs, job'.kind = "updates" => job'.rest # <<>>,
             map' \in Maps \cup {None}, map # None => map' # None, job' # Idle => map' # None
      PROVE  IInv'
  BY <1>1 DEF IInv, TypeOK, PointersInv, lifeVars, worldVars
<1>2. ASSUME NEW msg \in Messages, map # None, ApplyUpdates(msg),
             UNCHANGED <<lifeVars, worldVars, wired, map, scan, alert, fault>>
      PROVE  IInv'
  <2>1. PICK n \in 1..(MaxUpdates + 1) : msg \in [1..n -> Ops]
    BY <1>2 DEF Messages
  <2>2. msg \in Seq(Ops) /\ msg # <<>>
    <3>1. n \in Nat /\ n >= 1
      BY NodeAssumption
    <3>2. msg \in Seq(Ops) /\ Len(msg) = n
      BY <2>1, <3>1
    <3> QED BY <3>1, <3>2
  <2>3. job' \in Jobs /\ (job'.kind = "updates" => job'.rest # <<>>)
    BY <1>2, <2>2 DEF ApplyUpdates, Jobs, IInv, TypeOK
  <2> QED BY <1>1, <1>2, <2>3 DEF IInv, TypeOK, PointersInv
<1>3. CASE \E msg \in Messages : UpdatesCallback(msg) \/ UpdateMapService(msg)
  BY <1>2, <1>3 DEF UpdatesCallback, UpdateMapService
<1>4. CASE ApplyUpdate
  <2>1. /\ job.kind = "updates" /\ job # Idle
        /\ job' = (IF Len(job.rest) = 1 THEN Idle ELSE [job EXCEPT !.rest = Tail(@)])
        /\ UNCHANGED <<lifeVars, worldVars, wired, scan, alert, fault>>
    BY <1>4 DEF ApplyUpdate, Idle
  <2>2. job \in [kind : {"updates"}, rest : Seq(Ops)] /\ job.rest # <<>> /\ map \in Maps
    BY <1>0, <2>1 DEF Jobs, Idle, IInv, TypeOK, PointersInv
  <2> DEFINE u == Head(job.rest)
  <2>7. job.rest \in Seq(Ops)
    BY <2>2
  <2>3. u \in Ops /\ u.id \in Ids
    <3>1. u \in Ops
      BY <2>7, <2>2, FirstAndRest
    <3> QED BY <3>1 DEF Ops
  <2>4. map' = [map EXCEPT !.obs = IF u.op = "insert" THEN @ \cup {u.id} ELSE @ \ {u.id}]
    BY <1>4 DEF ApplyUpdate
  <2> HIDE DEF u
  <2>5. map' \in Maps
    BY <2>2, <2>3, <2>4 DEF Maps
  <2>6. job' \in Jobs /\ (job'.kind = "updates" => job'.rest # <<>>)
    <3>1. CASE Len(job.rest) = 1
      BY <2>1, <3>1 DEF Jobs, Idle
    <3>2. CASE Len(job.rest) # 1
      <4>1. Tail(job.rest) \in Seq(Ops) /\ Tail(job.rest) # <<>>
        BY <2>7, <2>2, <3>2, FirstAndRest
      <4>2. job' = [job EXCEPT !.rest = Tail(job.rest)]
        BY <2>1, <3>2
      <4> QED BY <2>2, <4>1, <4>2 DEF Jobs
    <3> QED BY <3>1, <3>2
  <2> QED BY <1>0, <1>1, <2>1, <2>5, <2>6 DEF IInv, TypeOK, PointersInv
<1>5. CASE ApplyUpdateThrows
  BY <1>1, <1>5 DEF ApplyUpdateThrows, IInv, TypeOK, PointersInv
<1>6. ASSUME NEW a \in Areas, NEW locks \in BOOLEAN, AreaStateService(a, locks) PROVE IInv'
  <2>1. map \in Maps /\ UNCHANGED <<lifeVars, worldVars, wired, scan, alert, fault>>
    BY <1>0, <1>6 DEF AreaStateService
  <2>2. CASE locks
    <3>1. map' = [map EXCEPT !.areas = @ \cup {a}] /\ job' = [kind |-> "lock", area |-> a]
      BY <1>6, <2>2 DEF AreaStateService
    <3>2. map' \in Maps /\ job' \in Jobs /\ job'.kind # "updates"
      BY <2>1, <3>1 DEF Maps, Jobs
    <3> QED BY <1>0, <1>1, <2>1, <3>2 DEF IInv, TypeOK, PointersInv
  <2>3. CASE ~locks
    <3>1. map' = [map EXCEPT !.locked = @ \ {a}] /\ job' = job
      BY <1>6, <2>3 DEF AreaStateService
    <3>2. map' \in Maps
      BY <2>1, <3>1 DEF Maps
    <3> QED BY <1>0, <1>1, <2>1, <3>1, <3>2 DEF IInv, TypeOK, PointersInv
  <2> QED BY <2>2, <2>3
<1>7. CASE LockRegistered
  <2>1. job.kind = "lock" /\ job # Idle /\ UNCHANGED <<lifeVars, worldVars, wired, scan, alert, fault>>
        /\ job' = Idle /\ map' = [map EXCEPT !.locked = @ \cup {job.area}]
    BY <1>7 DEF LockRegistered, Idle
  <2>2. job.area \in Areas /\ map \in Maps
    BY <1>0, <2>1 DEF Jobs, Idle, IInv, PointersInv
  <2>3. map' \in Maps /\ job' \in Jobs /\ job'.kind # "updates"
    BY <2>1, <2>2 DEF Maps, Jobs, Idle
  <2> QED BY <1>0, <1>1, <2>1, <2>3 DEF IInv, TypeOK, PointersInv
<1>8. ASSUME map # None, SetContours, UNCHANGED <<lifeVars, worldVars, wired, job, scan, alert, fault>>
      PROVE  IInv'
  <2>1. map' \in Maps
    BY <1>0, <1>8 DEF SetContours, Maps
  <2> QED BY <1>0, <1>1, <1>8, <2>1 DEF IInv, TypeOK, PointersInv
<1>9. CASE MapBoundaryCallback
  BY <1>8, <1>9 DEF MapBoundaryCallback
<1>10. CASE \E segments \in 0..1 : UpdateWarehouseLayoutService(segments)
  BY <1>8, <1>10 DEF UpdateWarehouseLayoutService
<1>11. CASE ValidatePathService
  BY <1>1, <1>11 DEF ValidatePathService, IInv, TypeOK, PointersInv
<1>12. CASE AreaStateServiceThrows
  BY <1>1, <1>12 DEF AreaStateServiceThrows, IInv, TypeOK, PointersInv
<1> QED BY <1>3, <1>4, <1>5, <1>6, <1>7, <1>9, <1>10, <1>11, <1>12 DEF Service

(* A scan beside them: it may lose the map or the report builder to a      *)
(* cleanup, and to nothing else.                                           *)
LEMMA ScanKeeps ==
  ASSUME IInv, NEW s \in Scans, ObstaclesCallback(s) \/ Handle(s)
  PROVE  IInv'
<1> DEFINE Scanning == [pc : {"idle", "match", "alert", "report"}, seen : SUBSET Ids]
<1>0. scan \in [Scans -> Scanning] /\ scene \in SUBSET Ids /\ scan[s].seen \in SUBSET Ids
  BY DEF IInv, TypeOK
<1>1. ASSUME NEW r \in Scanning, scan' = [scan EXCEPT ![s] = r], r.pc = "report" => wired \/ cleaned,
             UNCHANGED <<lifeVars, worldVars, wired, map, job>>,
             fault' \in {"none", "exception", "null map", "freed builder"},
             fault' \in {"null map", "freed builder"} => cleaned
      PROVE  IInv'
  <2>1. scan' \in [Scans -> Scanning]
        /\ \A t \in Scans : scan'[t] = IF t = s THEN r ELSE scan[t]
    BY <1>0, <1>1
  <2>2. \A t \in Scans : scan'[t].pc = "report" => wired \/ cleaned
    BY <1>1, <2>1 DEF IInv, PointersInv
  <2> QED BY <1>1, <2>1, <2>2 DEF IInv, TypeOK, PointersInv, lifeVars, worldVars
<1>2. NoScan \in Scanning /\ NoScan.pc = "idle"
  BY DEF NoScan
<1>3. CASE ObstaclesCallback(s)
  <2>1. [pc |-> "match", seen |-> scene] \in Scanning
    BY <1>0
  <2> QED BY <1>1, <1>3, <2>1 DEF ObstaclesCallback, IInv, TypeOK, PointersInv
<1>4. CASE MatchScan(s)
  <2>1. CASE map = None
    <3>1. scan' = [scan EXCEPT ![s] = scan[s]] /\ scan[s] \in Scanning /\ scan[s].pc = "match"
      BY <1>0, <1>4, <2>1 DEF MatchScan
    <3> QED BY <1>1, <1>4, <2>1, <3>1 DEF MatchScan, IInv, TypeOK, PointersInv
  <2>2. CASE map # None
    <3> DEFINE r == [pc |-> "alert", seen |-> Unmatched(scan[s].seen)]
    <3>1. Unmatched(scan[s].seen) \in SUBSET Ids
      BY <1>0 DEF Unmatched, UnmatchedShapes
    <3>2. r \in Scanning /\ r.pc = "alert" /\ scan' = [scan EXCEPT ![s] = r]
      BY <1>4, <2>2, <3>1 DEF MatchScan
    <3> HIDE DEF r
    <3> QED BY <1>1, <1>4, <2>2, <3>2 DEF MatchScan, IInv, TypeOK, PointersInv
  <2> QED BY <2>1, <2>2
<1>5. CASE PublishAlert(s)
  <2> DEFINE r == IF wired /\ pointsOnly THEN [pc |-> "report", seen |-> {}] ELSE NoScan
  <2>1. r \in Scanning /\ (r.pc = "report" => wired) /\ scan' = [scan EXCEPT ![s] = r]
    BY <1>2, <1>5 DEF PublishAlert
  <2> HIDE DEF r
  <2> QED BY <1>1, <1>5, <2>1 DEF PublishAlert, IInv, TypeOK, PointersInv
<1>6. CASE PublishReport(s)
  BY <1>1, <1>2, <1>6 DEF PublishReport, IInv, TypeOK, PointersInv
<1> QED BY <1>3, <1>4, <1>5, <1>6 DEF Handle

LEMMA NextKeeps == IInv /\ [Next]_vars => IInv'
<1> SUFFICES ASSUME IInv, [Next]_vars PROVE IInv'
  OBVIOUS
<1>1. ASSUME UNCHANGED <<lc, cleaned, wired, map, job, scan, fault>>, scene' \in SUBSET Ids
      PROVE  IInv'
  BY <1>1 DEF IInv, TypeOK, PointersInv
<1>2. scene \in SUBSET Ids
  BY DEF IInv, TypeOK
<1>3. CASE SetParameters
  BY <1>1, <1>2, <1>3 DEF SetParameters, worldVars
<1>4. CASE SceneChanges
  BY <1>1, <1>2, <1>4 DEF SceneChanges, lifeVars
<1>5. CASE (\E inside \in SUBSET Ids : RobotPoseCallback(inside)) \/ PoseAges
  BY <1>1, <1>2, <1>5 DEF RobotPoseCallback, PoseAges, lifeVars
<1>6. CASE UNCHANGED vars
  BY <1>1, <1>2, <1>6 DEF vars, lifeVars, worldVars
<1> QED BY <1>3, <1>4, <1>5, <1>6, TransitionKeeps, ServiceKeeps, ScanKeeps DEF Next

LEMMA Invariance == Spec => []IInv
BY InitHolds, NextKeeps, PTL DEF Spec

-----------------------------------------------------------------------------
(* Theorems.                                                               *)

(* Lifecycle, jobs, scans and map keep their shape.                        *)
THEOREM TypeCorrect == Spec => []TypeOK
<1>1. IInv => TypeOK
  BY DEF IInv
<1> QED BY <1>1, Invariance, PTL

(* No callback, service or scan dereferences a map or a report builder     *)
(* that is gone before an operator has cleaned the node up, in whatever    *)
(* order transitions, scans and services interleave.                       *)
THEOREM PointersValid == Spec => []PointersLastUntilCleanup
<1>1. IInv => PointersLastUntilCleanup
  BY DEF IInv, PointersInv, PointersLastUntilCleanup
<1> QED BY <1>1, Invariance, PTL

(* An activation succeeds only with everything the configured files name   *)
(* in the map.                                                             *)
THEOREM ActiveIsLoaded == Spec => ReadyMeansLoaded
<1> DEFINE P == lc # "active" /\ lc' = "active" =>
                  /\ FileIds # {} => map' # None /\ FileIds \subseteq map'.obs
                  /\ ContoursFile => map' # None /\ map'.contours
<1>1. IInv /\ [Next]_vars => [P]_vars
  <2> SUFFICES ASSUME IInv, Next, lc # "active", lc' = "active"
               PROVE  /\ FileIds # {} => map' # None /\ FileIds \subseteq map'.obs
                      /\ ContoursFile => map' # None /\ map'.contours
    OBVIOUS
  <2>1. Transition
    BY DEF Next, Service, SetParameters, ObstaclesCallback, Handle, MatchScan, PublishAlert,
           PublishReport, SceneChanges, RobotPoseCallback, PoseAges, UpdatesCallback,
           UpdateMapService, ApplyUpdate, ApplyUpdateThrows, AreaStateService, AreaStateServiceThrows, LockRegistered,
           MapBoundaryCallback, UpdateWarehouseLayoutService, ValidatePathService, lifeVars
  <2>2. PICK ok \in Files : OnActivate(ok)
    BY <2>1 DEF Transition, Request, AutoTransition, OnConfigure, OnDeactivate, OnCleanup,
           OnShutdown
  <2>3. ObstaclesLoad(ok) /\ ContoursLoad(ok) /\ map' = Loaded(ok)
    BY <2>2 DEF OnActivate
  <2>4. map \in Maps \cup {None}
    BY DEF IInv, TypeOK
  <2> QED BY <2>3, <2>4, LoadedFacts
<1> QED BY <1>1, Invariance, PTL DEF Spec, ReadyMeansLoaded

-----------------------------------------------------------------------------
(* The ids in the reports.                                                 *)

(* The brackets begin ... end of the scans follow each other, as they do   *)
(* with one laser scanner.                                                 *)
OneScanner == \A s, t \in Scanners : s = t

(* Ids that have been given out.                                           *)
Given == 1..(nextId - 1)

IdsInv ==
  /\ pc \in [Scanners -> {"idle", "build", "ids", "end"}]
  /\ report = [unmatched |-> report.unmatched, ids |-> report.ids]
  /\ report.ids \in Seq(Nat)
  /\ nextId \in Nat \ {0}
  /\ claimed \subseteq Given
  /\ \A e \in previous \cup current : e.id \in Given
  /\ \A s \in Scanners : pc[s] \in {"ids", "end"} =>
       /\ \A i \in 1..Len(report.ids) : report.ids[i] \in claimed
       /\ \A i, j \in 1..Len(report.ids) : report.ids[i] = report.ids[j] => i = j

-----------------------------------------------------------------------------
(* The next line gets the id id, with the origin from: a fresh one or that *)
(* of the best candidate.                                                  *)
Takes(s, id, from) ==
  LET line == report.unmatched[at[s]]
  IN  /\ claimed' = claimed \cup {id}
      /\ current' = current \cup {Reports!Entry(line, id, from)}
      /\ report' = [report EXCEPT !.ids = Append(@, id)]
      /\ at' = [at EXCEPT ![s] = @ + 1]
      /\ UNCHANGED <<pc, taken, previous, lone>>
      /\ \/ /\ Reports!Best(line) = {}
            /\ id = nextId /\ from = Reports!Centre2(line)
            /\ nextId' = nextId + 1 /\ origin' = Append(origin, from)
         \/ \E e \in Reports!Best(line) :
              id = e.id /\ from = e.origin /\ nextId' = nextId /\ origin' = origin

LEMMA IdTaken ==
  ASSUME NEW s \in Scanners, Reports!GetOrAssignId(s)
  PROVE  /\ pc[s] = "ids" /\ at[s] <= Len(report.unmatched)
         /\ \E id, from : Takes(s, id, from)
<1> DEFINE line == report.unmatched[at[s]]
<1>1. CASE Reports!Best(line) = {}
  <2>1. Takes(s, nextId, Reports!Centre2(line))
    BY <1>1 DEF Reports!GetOrAssignId, Takes
  <2> QED BY <2>1 DEF Reports!GetOrAssignId
<1>2. CASE Reports!Best(line) # {}
  <2>1. PICK e \in Reports!Best(line) : Takes(s, e.id, e.origin)
    BY <1>2 DEF Reports!GetOrAssignId, Takes
  <2> QED BY <2>1 DEF Reports!GetOrAssignId
<1> QED BY <1>1, <1>2

LEMMA BestIsCandidate ==
  ASSUME NEW line, NEW e \in Reports!Best(line)
  PROVE  e \in previous /\ e.id \notin claimed /\ ~Reports!Drifted(e, line)
BY DEF Reports!Best, Reports!Candidates

(* One id more.                                                            *)
LEMMA LongerReport ==
  ASSUME IdsInv, NEW id \in Nat, report' = [report EXCEPT !.ids = Append(@, id)]
  PROVE  /\ report' = [unmatched |-> report'.unmatched, ids |-> report'.ids]
         /\ report'.unmatched = report.unmatched
         /\ report'.ids \in Seq(Nat)
         /\ Len(report.ids) \in Nat /\ Len(report'.ids) = Len(report.ids) + 1
         /\ report'.ids[Len(report.ids) + 1] = id
         /\ \A i \in 1..Len(report.ids) : report'.ids[i] = report.ids[i] /\ report.ids[i] \in Nat
<1>1. report = [unmatched |-> report.unmatched, ids |-> report.ids] /\ report.ids \in Seq(Nat)
  BY DEF IdsInv
<1>2. /\ report' = [unmatched |-> report'.unmatched, ids |-> report'.ids]
      /\ report'.unmatched = report.unmatched /\ report'.ids = Append(report.ids, id)
  BY <1>1
<1> QED BY <1>1, <1>2, AppendProperties, ElementOfSeq, LenProperties

LEMMA IdsInit == Reports!Init => IdsInv
BY DEF Reports!Init, IdsInv, Given, Reports!EmptyReport

LEMMA GetOrAssignIdKeepsIds ==
  ASSUME IdsInv, OneScanner, NEW s \in Scanners, Reports!GetOrAssignId(s)
  PROVE  IdsInv'
<1> PICK id, from : Takes(s, id, from)
  BY IdTaken
<1> DEFINE line == report.unmatched[at[s]]
<1>1. /\ nextId' \in Nat \ {0} /\ Given \subseteq Given'
      /\ id \in Given' /\ id \notin claimed
  <2>1. nextId \in Nat \ {0} /\ claimed \subseteq Given /\ \A e \in previous : e.id \in Given
    BY DEF IdsInv
  <2>2. CASE nextId' = nextId + 1 /\ id = nextId
    BY <2>1, <2>2 DEF Given
  <2>3. ASSUME NEW e \in Reports!Best(line), id = e.id, nextId' = nextId
        PROVE  nextId' \in Nat \ {0} /\ Given \subseteq Given' /\ id \in Given' /\ id \notin claimed
    BY <2>1, <2>3, BestIsCandidate DEF Given
  <2> QED BY <2>2, <2>3 DEF Takes
<1>2. id \in Nat
  BY <1>1 DEF Given
<1>3. /\ report' = [unmatched |-> report'.unmatched, ids |-> report'.ids]
      /\ report'.ids \in Seq(Nat)
      /\ Len(report.ids) \in Nat /\ Len(report'.ids) = Len(report.ids) + 1
      /\ report'.ids[Len(report.ids) + 1] = id
      /\ \A i \in 1..Len(report.ids) : report'.ids[i] = report.ids[i]
  BY <1>2, LongerReport DEF Takes
<1>4. pc' = pc /\ claimed' = claimed \cup {id} /\ claimed' \subseteq Given'
  BY <1>1 DEF IdsInv, Takes
<1>5. \A e \in previous' \cup current' : e.id \in Given'
  <2>1. Reports!Entry(line, id, from).id = id
    BY DEF Reports!Entry
  <2>2. previous' = previous /\ current' = current \cup {Reports!Entry(line, id, from)}
    BY DEF Takes
  <2> QED BY <1>1, <2>1, <2>2 DEF IdsInv
<1>6. /\ \A i \in 1..Len(report'.ids) : report'.ids[i] \in claimed'
      /\ \A i, j \in 1..Len(report'.ids) : report'.ids[i] = report'.ids[j] => i = j
  <2>1. /\ \A i \in 1..Len(report.ids) : report.ids[i] \in claimed
        /\ \A i, j \in 1..Len(report.ids) : report.ids[i] = report.ids[j] => i = j
    BY IdTaken DEF IdsInv
  <2>2. \A i \in 1..Len(report'.ids) : i \in 1..Len(report.ids) \/ i = Len(report.ids) + 1
    BY <1>3
  <2> QED BY <1>1, <1>3, <1>4, <2>1, <2>2
<1> QED BY <1>1, <1>3, <1>4, <1>5, <1>6 DEF IdsInv

LEMMA IdsStep ==
  ASSUME IdsInv, OneScanner, [Reports!Next]_(Reports!vars)
  PROVE  IdsInv'
<1>1. CASE UNCHANGED Reports!vars
  BY <1>1 DEF Reports!vars, IdsInv, Given
<1>2. ASSUME NEW s \in Scanners, NEW input \in Reports!ScanInputs, Reports!BeginScanCycle(s, input)
      PROVE  IdsInv'
  <2>1. pc' = [pc EXCEPT ![s] = "build"] /\ pc'[s] = "build"
    BY <1>2 DEF Reports!BeginScanCycle, IdsInv
  <2>2. \A t \in Scanners : pc'[t] = "build"
    BY <2>1 DEF OneScanner
  <2> QED BY <1>2, <2>1, <2>2 DEF Reports!BeginScanCycle, IdsInv, Given
<1>3. ASSUME NEW s \in Scanners, Reports!Build(s)
      PROVE  IdsInv'
  <2>1. report' = [unmatched |-> report'.unmatched, ids |-> report'.ids] /\ report'.ids = <<>>
    BY <1>3 DEF Reports!Build, Reports!BuildReport
  <2>2. report'.ids \in Seq(Nat) /\ Len(report'.ids) = 0
    BY <2>1
  <2> QED BY <1>3, <2>1, <2>2 DEF Reports!Build, IdsInv, Given, Reports!tracker
<1>4. ASSUME NEW s \in Scanners, Reports!GetOrAssignId(s)
      PROVE  IdsInv'
  BY <1>4, GetOrAssignIdKeepsIds
<1>5. ASSUME NEW s \in Scanners, Reports!PublishReport(s)
      PROVE  IdsInv'
  <2>1. pc[s] = "ids" /\ pc' = [pc EXCEPT ![s] = "end"]
    BY <1>5 DEF Reports!PublishReport
  <2> QED BY <1>5, <2>1 DEF Reports!PublishReport, IdsInv, Given, Reports!tracker, OneScanner
<1>6. ASSUME NEW s \in Scanners, Reports!EndScanCycle(s)
      PROVE  IdsInv'
  <2>1. pc' = [pc EXCEPT ![s] = "idle"] /\ pc'[s] = "idle"
    BY <1>6 DEF Reports!EndScanCycle, IdsInv
  <2>2. \A t \in Scanners : pc'[t] = "idle"
    BY <2>1 DEF OneScanner
  <2> QED BY <1>6, <2>1, <2>2 DEF Reports!EndScanCycle, IdsInv, Given
<1> QED BY <1>1, <1>2, <1>3, <1>4, <1>5, <1>6 DEF Reports!Next

(* No two lines of a report get the same id, whatever the search windows   *)
(* overlap: ErrorSegmentTracker::getOrAssignId passes over what this cycle *)
(* has claimed, and a fresh id is larger than all.                         *)
THEOREM IdsAreUnique ==
  ASSUME OneScanner
  PROVE  ReportsSpec => []IdsUniqueInReport
<1>1. Reports!Init => IdsInv
  BY IdsInit
<1>2. IdsInv /\ [Reports!Next]_(Reports!vars) => IdsInv'
  BY IdsStep
<1>3. IdsInv => IdsUniqueInReport
  BY DEF IdsInv, IdsUniqueInReport, Reports!IdsUniqueInReport
<1> QED BY <1>1, <1>2, <1>3, PTL DEF ReportsSpec, Reports!Spec

-----------------------------------------------------------------------------
(* Where an id was first given out.                                        *)

Points == [x : Int, y : Int]
Lines == [from : Points, to : Points]

(* What the fit makes of the vertices of a scan are lines.                 *)
LinesFitted ==
  \A input \in Reports!ScanInputs : Reports!BuildReport(input).unmatched \in Seq(Lines)

Near(line, place) ==
  MaxDrift2 > 0 => Reports!Dist2(Reports!Centre2(line), place) <= 4 * MaxDrift2

OriginInv ==
  /\ \A s \in Scanners : pc[s] = "build" => taken[s] \in Reports!ScanInputs
  /\ at \in [Scanners -> Nat]
  /\ taken = [s \in Scanners |-> taken[s]]
  /\ report.unmatched \in Seq(Lines)
  /\ origin \in Seq(Points) /\ nextId = Len(origin) + 1
  /\ \A e \in previous \cup current : e.origin = origin[e.id]
  /\ Len(report.ids) <= Len(report.unmatched)
  /\ \A s \in Scanners : pc[s] = "ids" => at[s] = Len(report.ids) + 1
  /\ \A i \in 1..Len(report.ids) :
       report.ids[i] \in Given /\ Near(report.unmatched[i], origin[report.ids[i]])

LEMMA DistanceFacts ==
  /\ \A p, q \in Points : Reports!Dist2(p, q) \in Int
  /\ \A p \in Points : Reports!Dist2(p, p) = 0
  /\ \A line \in Lines : Reports!Centre2(line) \in Points
<1>1. \A n \in Int : Reports!Sq(n) \in Int
  BY DEF Reports!Sq
<1>2. Reports!Sq(0) = 0
  BY DEF Reports!Sq
<1>3. ASSUME NEW p \in Points, NEW q \in Points
      PROVE  Reports!Dist2(p, q) \in Int
  <2>1. p.x - q.x \in Int /\ p.y - q.y \in Int
    BY DEF Points
  <2> QED BY <1>1, <2>1 DEF Reports!Dist2
<1>4. ASSUME NEW p \in Points
      PROVE  Reports!Dist2(p, p) = 0
  <2>1. p.x - p.x = 0 /\ p.y - p.y = 0
    BY DEF Points
  <2> QED BY <1>2, <2>1 DEF Reports!Dist2
<1>5. \A line \in Lines : Reports!Centre2(line) \in Points
  BY DEF Reports!Centre2, Lines, Points
<1> QED BY <1>3, <1>4, <1>5

LEMMA OriginInit == Reports!Init => OriginInv
<1> SUFFICES ASSUME Reports!Init PROVE OriginInv
  OBVIOUS
<1>1. report.unmatched = <<>> /\ report.ids = <<>> /\ origin = <<>> /\ nextId = 1
  BY DEF Reports!Init, Reports!EmptyReport
<1> QED BY <1>1 DEF Reports!Init, OriginInv

(* The id taken denotes a line near its origin: of a fresh id it is the    *)
(* place itself, and a candidate has not drifted.                          *)
LEMMA TakenNear ==
  ASSUME IdsInv, OriginInv, MaxDrift2 \in Nat,
         NEW s \in Scanners, pc[s] = "ids", at[s] <= Len(report.unmatched),
         NEW id, NEW from, Takes(s, id, from)
  PROVE  LET line == report.unmatched[at[s]]
         IN  /\ line \in Lines /\ at[s] = Len(report.ids) + 1 /\ at[s] \in 1..Len(report.unmatched)
             /\ id \in Given' /\ Given \subseteq Given'
             /\ origin' \in Seq(Points) /\ nextId' = Len(origin') + 1
             /\ \A k \in Given : origin'[k] = origin[k]
             /\ origin'[id] = from
             /\ Near(line, from)
<1> DEFINE line == report.unmatched[at[s]]
<1>1. /\ at[s] = Len(report.ids) + 1 /\ at[s] \in 1..Len(report.unmatched)
      /\ Len(report.ids) \in Nat
  BY LenProperties DEF IdsInv, OriginInv
<1>2. line \in Lines
  BY <1>1, ElementOfSeq DEF OriginInv
<1>3. /\ origin \in Seq(Points) /\ nextId = Len(origin) + 1 /\ Len(origin) \in Nat
      /\ Given = 1..Len(origin)
  BY LenProperties DEF OriginInv, Given
<1>4. report'.unmatched = report.unmatched
  BY DEF Takes, IdsInv
<1>5. CASE /\ id = nextId /\ from = Reports!Centre2(line)
           /\ nextId' = nextId + 1 /\ origin' = Append(origin, from)
  <2>1. from \in Points /\ Reports!Dist2(from, from) = 0
    BY <1>2, <1>5, DistanceFacts
  <2>2. /\ origin' \in Seq(Points) /\ Len(origin') = Len(origin) + 1 /\ origin'[Len(origin) + 1] = from
        /\ \A k \in 1..Len(origin) : origin'[k] = origin[k]
    BY <1>3, <1>5, <2>1, AppendProperties
  <2>3. origin'[id] = from /\ id \in Given' /\ Given \subseteq Given' /\ nextId' = Len(origin') + 1
    BY <1>3, <1>5, <2>2 DEF Given
  <2>4. Near(line, from)
    BY <1>5, <2>1 DEF Near
  <2> QED BY <1>1, <1>2, <1>3, <1>4, <1>5, <2>2, <2>3, <2>4
<1>6. ASSUME NEW e \in Reports!Best(line), id = e.id, from = e.origin, nextId' = nextId, origin' = origin
      PROVE  /\ id \in Given /\ Given' = Given /\ origin[id] = from /\ Near(line, from)
  <2>1. e \in previous /\ ~Reports!Drifted(e, line)
    BY BestIsCandidate
  <2>2. id \in Given /\ origin[id] = from
    BY <1>6, <2>1 DEF IdsInv, OriginInv
  <2>3. from \in Points
    BY <1>3, <2>2, ElementOfSeq
  <2>4. Reports!Dist2(Reports!Centre2(line), from) \in Int
    BY <1>2, <2>3, DistanceFacts
  <2>5. ~(MaxDrift2 > 0 /\ Reports!Dist2(Reports!Centre2(line), from) > 4 * MaxDrift2)
    BY <1>6, <2>1 DEF Reports!Drifted
  <2> QED BY <1>6, <2>2, <2>4, <2>5 DEF Near, Given
<1> QED
  <2>1. CASE \E e \in Reports!Best(line) :
               id = e.id /\ from = e.origin /\ nextId' = nextId /\ origin' = origin
    <3>1. id \in Given /\ Given' = Given /\ origin[id] = from /\ Near(line, from)
      BY <1>6, <2>1
    <3>2. nextId' = nextId /\ origin' = origin
      BY <2>1
    <3> QED BY <1>1, <1>2, <1>3, <3>1, <3>2
  <2> QED BY <1>5, <2>1 DEF Takes

LEMMA GetOrAssignIdKeepsOrigins ==
  ASSUME IdsInv, OriginInv, MaxDrift2 \in Nat, OneScanner,
         NEW s \in Scanners, Reports!GetOrAssignId(s)
  PROVE  OriginInv'
<1> PICK id, from : Takes(s, id, from)
  BY IdTaken
<1> DEFINE line == report.unmatched[at[s]]
<1>1. pc[s] = "ids" /\ at[s] <= Len(report.unmatched)
  BY IdTaken
<1>2. /\ line \in Lines /\ at[s] = Len(report.ids) + 1 /\ at[s] \in 1..Len(report.unmatched)
      /\ id \in Given' /\ Given \subseteq Given'
      /\ origin' \in Seq(Points) /\ nextId' = Len(origin') + 1
      /\ \A k \in Given : origin'[k] = origin[k]
      /\ origin'[id] = from
      /\ Near(line, from)
  BY <1>1, TakenNear
<1>3. id \in Nat
  BY <1>2 DEF Given
<1>4. /\ report'.unmatched = report.unmatched
      /\ Len(report.ids) \in Nat /\ Len(report'.ids) = Len(report.ids) + 1
      /\ report'.ids[Len(report.ids) + 1] = id
      /\ \A i \in 1..Len(report.ids) : report'.ids[i] = report.ids[i]
  BY <1>3, LongerReport DEF Takes
<1>5. pc' = pc /\ taken' = taken /\ at' = [at EXCEPT ![s] = @ + 1] /\ previous' = previous
  BY DEF Takes
<1>6. \A e \in previous' \cup current' : e.origin = origin'[e.id]
  <2>1. Reports!Entry(line, id, from).id = id /\ Reports!Entry(line, id, from).origin = from
    BY DEF Reports!Entry
  <2>2. \A e \in previous \cup current : e.origin = origin'[e.id]
    BY <1>2 DEF IdsInv, OriginInv
  <2>3. previous' = previous /\ current' = current \cup {Reports!Entry(line, id, from)}
    BY DEF Takes
  <2> QED BY <1>2, <2>1, <2>2, <2>3
<1>7. /\ at' \in [Scanners -> Nat]
      /\ \A t \in Scanners : pc'[t] = "ids" => at'[t] = Len(report'.ids) + 1
      /\ Len(report'.ids) <= Len(report'.unmatched)
  <2>1. at[s] \in Nat /\ at \in [Scanners -> Nat]
    BY DEF OriginInv
  <2>2. at' \in [Scanners -> Nat] /\ at'[s] = at[s] + 1
    BY <1>5, <2>1
  <2>3. \A t \in Scanners : t = s
    BY DEF OneScanner
  <2> QED BY <1>2, <1>4, <2>1, <2>2, <2>3
<1>8. ASSUME NEW i \in 1..Len(report'.ids)
      PROVE  report'.ids[i] \in Given' /\ Near(report'.unmatched[i], origin'[report'.ids[i]])
  <2>1. CASE i = Len(report.ids) + 1
    BY <1>2, <1>4, <2>1
  <2>2. CASE i # Len(report.ids) + 1
    <3>1. i \in 1..Len(report.ids)
      BY <1>4, <2>2
    <3>2. report.ids[i] \in Given /\ Near(report.unmatched[i], origin[report.ids[i]])
      BY <3>1 DEF OriginInv
    <3> QED BY <1>2, <1>4, <3>1, <3>2
  <2> QED BY <2>1, <2>2
<1>9. /\ \A t \in Scanners : pc'[t] = "build" => taken'[t] \in Reports!ScanInputs
      /\ taken' = [t \in Scanners |-> taken'[t]]
      /\ report'.unmatched \in Seq(Lines)
  BY <1>4, <1>5 DEF OriginInv
<1> QED BY <1>2, <1>6, <1>7, <1>8, <1>9 DEF OriginInv, Near

LEMMA OriginStep ==
  ASSUME IdsInv, OriginInv, MaxDrift2 \in Nat, OneScanner, LinesFitted,
         [Reports!Next]_(Reports!vars)
  PROVE  OriginInv'
<1>1. CASE UNCHANGED Reports!vars
  BY <1>1 DEF Reports!vars, OriginInv, Given, Near
<1>2. ASSUME NEW s \in Scanners, NEW input \in Reports!ScanInputs, Reports!BeginScanCycle(s, input)
      PROVE  OriginInv'
  <2>1. /\ pc' = [pc EXCEPT ![s] = "build"] /\ taken' = [taken EXCEPT ![s] = input]
        /\ current' = {} /\ UNCHANGED <<report, at, previous, nextId, origin>>
    BY <1>2 DEF Reports!BeginScanCycle
  <2>2. pc'[s] = "build" /\ taken'[s] = input /\ \A t \in Scanners : t = s
    BY <2>1 DEF OneScanner, IdsInv, OriginInv
  <2> QED BY <2>1, <2>2 DEF OriginInv, Given, Near
<1>3. ASSUME NEW s \in Scanners, Reports!Build(s)
      PROVE  OriginInv'
  <2>1. /\ pc[s] = "build" /\ report' = Reports!BuildReport(taken[s])
        /\ at' = [at EXCEPT ![s] = 1] /\ taken' = [taken EXCEPT ![s] = <<>>]
        /\ pc' = [pc EXCEPT ![s] = "ids"]
        /\ UNCHANGED <<previous, current, nextId, origin>>
    BY <1>3 DEF Reports!Build, Reports!tracker
  <2>2. report'.unmatched \in Seq(Lines) /\ report'.ids = <<>> /\ Len(report'.ids) = 0
    BY <2>1 DEF OriginInv, LinesFitted, Reports!BuildReport
  <2>3. /\ pc'[s] = "ids" /\ at'[s] = 1 /\ at' \in [Scanners -> Nat] /\ \A t \in Scanners : t = s
        /\ taken' = [t \in Scanners |-> taken'[t]]
    BY <2>1 DEF OneScanner, IdsInv, OriginInv
  <2>4. Len(report'.ids) <= Len(report'.unmatched)
    BY <2>2, LenProperties
  <2> QED BY <2>1, <2>2, <2>3, <2>4 DEF OriginInv, Given, Near
<1>4. ASSUME NEW s \in Scanners, Reports!GetOrAssignId(s)
      PROVE  OriginInv'
  BY <1>4, GetOrAssignIdKeepsOrigins
<1>5. ASSUME NEW s \in Scanners, Reports!PublishReport(s)
      PROVE  OriginInv'
  <2>1. /\ pc' = [pc EXCEPT ![s] = "end"]
        /\ UNCHANGED <<taken, report, at, previous, current, nextId, origin>>
    BY <1>5 DEF Reports!PublishReport, Reports!tracker
  <2>2. \A t \in Scanners : pc'[t] = "end"
    BY <2>1 DEF OneScanner, IdsInv
  <2> QED BY <2>1, <2>2 DEF OriginInv, Given, Near
<1>6. ASSUME NEW s \in Scanners, Reports!EndScanCycle(s)
      PROVE  OriginInv'
  <2>1. /\ pc' = [pc EXCEPT ![s] = "idle"] /\ previous' = current /\ current' = {}
        /\ UNCHANGED <<taken, report, at, nextId, origin>>
    BY <1>6 DEF Reports!EndScanCycle
  <2>2. \A t \in Scanners : pc'[t] = "idle"
    BY <2>1 DEF OneScanner, IdsInv
  <2> QED BY <2>1, <2>2 DEF OriginInv, Given, Near
<1> QED BY <1>1, <1>2, <1>3, <1>4, <1>5, <1>6 DEF Reports!Next

(* However often an id is handed on, it never denotes a line farther than  *)
(* max_drift from where it was first given: an entry carries its origin    *)
(* on, and getOrAssignId passes over a candidate that has drifted.         *)
THEOREM IdsStayNear ==
  ASSUME OneScanner, LinesFitted
  PROVE  ReportsSpec => []IdStaysNearOrigin
<1>0. MaxDrift2 \in Nat
  BY ReportsAssumption DEF Reports!ReportAssumption
<1>1. Reports!Init => IdsInv /\ OriginInv
  BY IdsInit, OriginInit
<1>2. IdsInv /\ OriginInv /\ [Reports!Next]_(Reports!vars) => IdsInv' /\ OriginInv'
  BY <1>0, IdsStep, OriginStep
<1>3. OriginInv => IdStaysNearOrigin
  BY DEF OriginInv, IdStaysNearOrigin, Reports!IdStaysNearOrigin, Near
<1> QED BY <1>1, <1>2, <1>3, PTL DEF ReportsSpec, Reports!Spec

-----------------------------------------------------------------------------
(* A feature that stays where it is.                                       *)

EntryOf(r) == Reports!Entry(r.unmatched[1], r.ids[1], origin[r.ids[1]])

SingleLine(r) ==
  /\ r.unmatched \in Seq(Lines) /\ Len(r.unmatched) = 1
  /\ r.ids \in Seq(Nat) /\ Len(r.ids) = 1
  /\ r.ids[1] \in Given /\ Near(r.unmatched[1], origin[r.ids[1]])

(* The tracker remembers the last report as long as a scan may refer to it *)
(* and, when that report named one line, nothing else.                     *)
LoneInv ==
  /\ lone = Reports!EmptyReport \/ SingleLine(lone)
  /\ \A s \in Scanners :
       /\ pc[s] = "build" => current = {} /\ claimed = {}
       /\ pc[s] = "ids" /\ Len(report.ids) = 0 => current = {} /\ claimed = {}
       /\ pc[s] \in {"ids", "end"} /\ Len(report.ids) = 1 => current = {EntryOf(report)}
       /\ pc[s] # "end" /\ lone # Reports!EmptyReport => previous = {EntryOf(lone)}
       /\ pc[s] = "ids" /\ lone # Reports!EmptyReport
          /\ report.unmatched = lone.unmatched /\ Len(report.ids) = 1 => report.ids = lone.ids
       /\ pc[s] = "end" /\ lone # Reports!EmptyReport => lone = report

LEMMA LineFacts ==
  ASSUME NEW line \in Lines
  PROVE  /\ Reports!Centre2(line).x \in Int /\ Reports!Centre2(line).y \in Int
         /\ Reports!Box(line).x0 \in Int /\ Reports!Box(line).x1 \in Int
         /\ Reports!Box(line).y0 \in Int /\ Reports!Box(line).y1 \in Int
<1>1. line.from.x \in Int /\ line.from.y \in Int /\ line.to.x \in Int /\ line.to.y \in Int
  BY DEF Lines, Points
<1> QED BY <1>1 DEF Reports!Centre2, Reports!Box, Reports!MinOf, Reports!MaxOf

LEMMA ProductInt == \A m, n \in Int : m * n \in Int
OBVIOUS

(* An entry made of the line itself is found, and no other is better.      *)
LEMMA OnlyCandidate ==
  ASSUME Cell \in Nat \ {0}, NEW line \in Lines, NEW id \in Nat, NEW from,
         MaxDrift2 \in Nat, from \in Points, Near(line, from),
         previous = {Reports!Entry(line, id, from)}, claimed = {}
  PROVE  Reports!Best(line) = previous
<1> DEFINE e == Reports!Entry(line, id, from)
           c == Reports!Centre2(line)
           b == Reports!Box(line)
<1>1. /\ e.centre = c /\ e.box = b /\ e.origin = from
  BY DEF Reports!Entry
<1>2. /\ c.x \in Int /\ c.y \in Int
      /\ b.x0 \in Int /\ b.x1 \in Int /\ b.y0 \in Int /\ b.y1 \in Int
  BY LineFacts
<1> HIDE DEF e, c, b
<1>3. \A v \in Int : Reports!ToGrid(v) \in Int
  BY DEF Reports!ToGrid
<1>4. ~Reports!Drifted(e, line)
  <2>1. Reports!Dist2(Reports!Centre2(line), from) \in Int
    BY DistanceFacts
  <2> QED BY <1>1, <2>1 DEF Reports!Drifted, Near
<1>5. Reports!InWindow(e, line)
  <2>1. \A u, w \in Int : u >= Reports!MinOf(u, w) - 1 /\ u <= Reports!MaxOf(u, w) + 1
    BY DEF Reports!MinOf, Reports!MaxOf
  <2>2. /\ Reports!ToGrid(c.x) \in Int /\ Reports!ToGrid(c.y) \in Int
        /\ Reports!ToGrid(2 * b.x0) \in Int /\ Reports!ToGrid(2 * b.x1) \in Int
        /\ Reports!ToGrid(2 * b.y0) \in Int /\ Reports!ToGrid(2 * b.y1) \in Int
    BY <1>2, <1>3
  <2> QED BY <1>1, <2>1, <2>2 DEF Reports!InWindow, c, b
<1>6. Reports!Candidates(line) = {e}
  BY <1>4, <1>5 DEF Reports!Candidates, e
<1>7. Reports!AtLeast(Reports!Score(e, line), Reports!Score(e, line))
  <2>1. \A n \in Int : Reports!Sq(n) \in Int
    BY ProductInt DEF Reports!Sq
  <2>2. Reports!Dist2(e.centre, Reports!Centre2(line)) \in Int
    <3>1. c.x - c.x \in Int /\ c.y - c.y \in Int
      BY <1>2
    <3>2. e.centre = c /\ Reports!Centre2(line) = c
      BY <1>1 DEF c
    <3> QED BY <2>1, <3>1, <3>2 DEF Reports!Dist2
  <2>3. Reports!Proximity(e, line) \in Int \X Int
    <3>1. 9 * Reports!Sq(Cell) \in Int
      BY <2>1
    <3> QED BY <2>2, <3>1 DEF Reports!Proximity
  <2>4. Reports!Overlap(e, line) \in Int \X Int
    <3>1. \A m, n \in Int : Reports!MinOf(m, n) \in Int /\ Reports!MaxOf(m, n) \in Int
      BY DEF Reports!MinOf, Reports!MaxOf
    <3>2. Reports!Area(b) \in Int
      <4>1. b.x1 - b.x0 \in Int /\ b.y1 - b.y0 \in Int
        BY <1>2
      <4> QED BY <4>1, ProductInt DEF Reports!Area
    <3>3. Reports!Box(line) = b /\ e.box = b
      BY <1>1 DEF b
    <3> DEFINE w == Reports!MinOf(b.x1, b.x1) - Reports!MaxOf(b.x0, b.x0)
               h == Reports!MinOf(b.y1, b.y1) - Reports!MaxOf(b.y0, b.y0)
               a == Reports!MinOf(Reports!Area(b), Reports!Area(b))
    <3>4. w \in Int /\ h \in Int /\ a \in Int
      <4>1. /\ Reports!MinOf(b.x1, b.x1) \in Int /\ Reports!MaxOf(b.x0, b.x0) \in Int
            /\ Reports!MinOf(b.y1, b.y1) \in Int /\ Reports!MaxOf(b.y0, b.y0) \in Int
        BY <1>2, <3>1
      <4>2. a \in Int
        BY <3>1, <3>2
      <4> QED BY <4>1, <4>2
    <3>5. Reports!Overlap(e, line) = IF w > 0 /\ h > 0 THEN <<a + w * h, 2 * a>> ELSE <<0, 1>>
      BY <3>3 DEF Reports!Overlap
    <3> HIDE DEF w, h, a
    <3>6. a + w * h \in Int /\ 2 * a \in Int
      BY <3>4, ProductInt
    <3> QED BY <3>5, <3>6
  <2>5. Reports!Score(e, line) \in Int \X Int
    BY <2>3, <2>4 DEF Reports!Score
  <2>6. \A s \in Int \X Int : Reports!AtLeast(s, s)
    <3>1. ASSUME NEW s \in Int \X Int
          PROVE  Reports!AtLeast(s, s)
      <4>1. s[1] * s[2] \in Int
        BY ProductInt
      <4> QED BY <4>1 DEF Reports!AtLeast
    <3> QED BY <3>1
  <2> QED BY <2>5, <2>6
<1>8. Reports!ToGrid(e.centre.x) \in Int /\ Reports!ToGrid(e.centre.y) \in Int
  BY <1>1, <1>2, <1>3
<1>9. Reports!Best(line) = {e}
  BY <1>6, <1>7, <1>8 DEF Reports!Best
<1> QED BY <1>9 DEF e

LEMMA LoneInit == Reports!Init => LoneInv
<1> SUFFICES ASSUME Reports!Init PROVE LoneInv
  OBVIOUS
<1>1. \A s \in Scanners : pc[s] = "idle"
  BY DEF Reports!Init
<1> QED BY <1>1 DEF Reports!Init, LoneInv

(* Nothing that SingleLine speaks about is ever changed.                   *)
LEMMA SingleLineLasts ==
  ASSUME NEW r, SingleLine(r), Given \subseteq Given',
         \A k \in Given : origin'[k] = origin[k]
  PROVE  /\ r.unmatched \in Seq(Lines) /\ Len(r.unmatched) = 1
         /\ r.ids \in Seq(Nat) /\ Len(r.ids) = 1
         /\ r.ids[1] \in Given' /\ Near(r.unmatched[1], origin'[r.ids[1]])
         /\ origin'[r.ids[1]] = origin[r.ids[1]]
BY DEF SingleLine

LEMMA GetOrAssignIdKeepsLone ==
  ASSUME IdsInv, OriginInv, LoneInv, OneScanner, MaxDrift2 \in Nat, Cell \in Nat \ {0},
         NEW s \in Scanners, Reports!GetOrAssignId(s)
  PROVE  LoneInv'
<1>0. pc[s] = "ids" /\ at[s] <= Len(report.unmatched)
  BY IdTaken
<1> PICK id, from : Takes(s, id, from)
  BY IdTaken
<1> DEFINE line == report.unmatched[at[s]]
<1>1. /\ line \in Lines /\ at[s] = Len(report.ids) + 1 /\ at[s] \in 1..Len(report.unmatched)
      /\ id \in Given' /\ Given \subseteq Given'
      /\ \A k \in Given : origin'[k] = origin[k]
      /\ origin' \in Seq(Points) /\ nextId' = Len(origin') + 1
      /\ origin'[id] = from
  BY <1>0, TakenNear
<1>2. id \in Nat
  BY <1>1, LenProperties DEF Given
<1>3. /\ report'.unmatched = report.unmatched
      /\ report'.ids \in Seq(Nat)
      /\ Len(report.ids) \in Nat /\ Len(report'.ids) = Len(report.ids) + 1
      /\ report'.ids[Len(report.ids) + 1] = id
  BY <1>2, LongerReport DEF Takes
<1>4. /\ pc' = pc /\ lone' = lone /\ previous' = previous
      /\ current' = current \cup {Reports!Entry(line, id, from)}
  BY DEF Takes
<1>5. lone = Reports!EmptyReport \/ SingleLine(lone)
  BY DEF LoneInv
<1>6. lone' = Reports!EmptyReport \/ SingleLine(lone)'
  BY <1>1, <1>4, <1>5, SingleLineLasts DEF SingleLine, Near
<1>7. \A t \in Scanners : t = s /\ pc'[t] = "ids"
  BY <1>0, <1>4 DEF OneScanner
<1>8. Len(report'.ids) # 0
  BY <1>3
<1>9. ASSUME Len(report'.ids) = 1
      PROVE  current' = {Reports!Entry(report'.unmatched[1], report'.ids[1], origin'[report'.ids[1]])}
  <2>1. Len(report.ids) = 0 /\ at[s] = 1
    BY <1>1, <1>3, <1>9
  <2>2. current = {}
    BY <1>0, <2>1 DEF LoneInv
  <2>3. report'.ids[1] = id /\ report'.unmatched[1] = line
    BY <1>3, <2>1
  <2> QED BY <1>1, <1>4, <2>2, <2>3
<1>10. ASSUME lone' # Reports!EmptyReport
       PROVE  previous' = {Reports!Entry(lone'.unmatched[1], lone'.ids[1], origin'[lone'.ids[1]])}
  <2>1. previous = {EntryOf(lone)} /\ SingleLine(lone)
    BY <1>0, <1>4, <1>5, <1>10 DEF LoneInv
  <2>2. origin'[lone.ids[1]] = origin[lone.ids[1]]
    BY <1>1, <2>1 DEF SingleLine
  <2> QED BY <1>4, <2>1, <2>2 DEF EntryOf
<1>11. ASSUME lone' # Reports!EmptyReport, report'.unmatched = lone'.unmatched, Len(report'.ids) = 1
       PROVE  report'.ids = lone'.ids
  <2>1. Len(report.ids) = 0 /\ at[s] = 1
    BY <1>1, <1>3, <1>11
  <2>2. SingleLine(lone) /\ previous = {EntryOf(lone)} /\ claimed = {}
    BY <1>0, <1>4, <1>5, <1>11, <2>1 DEF LoneInv
  <2>3. line = lone.unmatched[1]
    BY <1>3, <1>4, <1>11, <2>1
  <2>4. lone.ids[1] \in Nat
    BY <2>2, ElementOfSeq DEF SingleLine
  <2>5. Reports!Best(line) = {EntryOf(lone)}
    <3>1. origin[lone.ids[1]] \in Points
      BY <2>2, LenProperties, ElementOfSeq DEF SingleLine, Given, OriginInv
    <3> QED BY <1>1, <2>2, <2>3, <2>4, <3>1, OnlyCandidate DEF EntryOf, SingleLine
  <2>6. EntryOf(lone).id = lone.ids[1]
    BY DEF EntryOf, Reports!Entry
  <2>7. id = lone.ids[1]
    BY <2>5, <2>6 DEF Takes
  <2>8. report'.ids[1] = lone.ids[1] /\ Len(report'.ids) = 1 /\ Len(lone.ids) = 1
    BY <1>3, <1>11, <2>1, <2>2, <2>7 DEF SingleLine
  <2>9. report'.ids \in Seq(Nat) /\ lone.ids \in Seq(Nat)
    BY <1>3, <2>2 DEF SingleLine
  <2>10. \A i \in 1..Len(report'.ids) : report'.ids[i] = lone.ids[i]
    BY <2>8
  <2> QED BY <1>4, <2>8, <2>9, <2>10, SeqEqual
<1>12. pc'[s] = "ids"
  BY <1>0, <1>4
<1> QED BY <1>6, <1>7, <1>8, <1>9, <1>10, <1>11 DEF LoneInv, EntryOf

LEMMA LoneStep ==
  ASSUME IdsInv, OriginInv, LoneInv, MaxDrift2 \in Nat, Cell \in Nat \ {0}, OneScanner,
         LinesFitted, [Reports!Next]_(Reports!vars)
  PROVE  LoneInv'
<1>1. CASE UNCHANGED Reports!vars
  BY <1>1 DEF Reports!vars, LoneInv, SingleLine, EntryOf, Given, Near
<1>2. ASSUME NEW s \in Scanners, NEW input \in Reports!ScanInputs, Reports!BeginScanCycle(s, input)
      PROVE  LoneInv'
  <2>1. /\ pc[s] = "idle" /\ pc' = [pc EXCEPT ![s] = "build"] /\ current' = {} /\ claimed' = {}
        /\ UNCHANGED <<report, previous, nextId, origin, lone>>
    BY <1>2 DEF Reports!BeginScanCycle
  <2>2. \A t \in Scanners : t = s /\ pc'[t] = "build"
    BY <2>1 DEF OneScanner, IdsInv
  <2> QED BY <2>1, <2>2 DEF LoneInv, SingleLine, EntryOf, Given, Near
<1>3. ASSUME NEW s \in Scanners, Reports!Build(s)
      PROVE  LoneInv'
  <2>1. /\ pc[s] = "build" /\ pc' = [pc EXCEPT ![s] = "ids"]
        /\ report'.ids = <<>>
        /\ UNCHANGED <<previous, current, claimed, nextId, origin, lone>>
    BY <1>3 DEF Reports!Build, Reports!BuildReport, Reports!tracker
  <2>2. Len(report'.ids) = 0 /\ \A t \in Scanners : t = s /\ pc'[t] = "ids"
    BY <2>1 DEF OneScanner, IdsInv
  <2> QED BY <2>1, <2>2 DEF LoneInv, SingleLine, EntryOf, Given, Near
<1>4. ASSUME NEW s \in Scanners, Reports!GetOrAssignId(s)
      PROVE  LoneInv'
  BY <1>4, GetOrAssignIdKeepsLone
<1>5. ASSUME NEW s \in Scanners, Reports!PublishReport(s)
      PROVE  LoneInv'
  <2>1. /\ pc[s] = "ids" /\ at[s] > Len(report.unmatched) /\ pc' = [pc EXCEPT ![s] = "end"]
        /\ lone' = IF Len(report.unmatched) = 1 THEN report ELSE Reports!EmptyReport
        /\ UNCHANGED <<report, previous, current, claimed, nextId, origin>>
    BY <1>5 DEF Reports!PublishReport, Reports!tracker
  <2>2. \A t \in Scanners : t = s /\ pc'[t] = "end"
    BY <2>1 DEF OneScanner, IdsInv
  <2>3. Len(report.unmatched) \in Nat /\ Len(report.ids) = Len(report.unmatched)
    <3>1. at[s] = Len(report.ids) + 1 /\ Len(report.ids) <= Len(report.unmatched)
      BY <2>1 DEF OriginInv
    <3>2. Len(report.ids) \in Nat /\ Len(report.unmatched) \in Nat
      BY LenProperties DEF IdsInv, OriginInv
    <3> QED BY <2>1, <3>1, <3>2
  <2>4. CASE Len(report.unmatched) = 1
    <3>1. SingleLine(report)
      BY <2>3, <2>4 DEF IdsInv, OriginInv, SingleLine
    <3>2. current = {EntryOf(report)}
      BY <2>1, <2>3, <2>4 DEF LoneInv
    <3>3. lone' = report
      BY <2>1, <2>4
    <3> QED BY <2>1, <2>2, <2>3, <2>4, <3>1, <3>2, <3>3 DEF LoneInv, SingleLine, EntryOf, Given, Near
  <2>5. CASE Len(report.unmatched) # 1
    <3>1. lone' = Reports!EmptyReport /\ Len(report'.ids) # 1
      BY <2>1, <2>3, <2>5
    <3> QED BY <2>1, <2>2, <3>1 DEF LoneInv
  <2> QED BY <2>4, <2>5
<1>6. ASSUME NEW s \in Scanners, Reports!EndScanCycle(s)
      PROVE  LoneInv'
  <2>1. /\ pc[s] = "end" /\ pc' = [pc EXCEPT ![s] = "idle"] /\ previous' = current
        /\ UNCHANGED <<report, nextId, origin, lone>>
    BY <1>6 DEF Reports!EndScanCycle
  <2>2. \A t \in Scanners : t = s /\ pc'[t] = "idle"
    BY <2>1 DEF OneScanner, IdsInv
  <2>3. ASSUME lone # Reports!EmptyReport
        PROVE  SingleLine(lone) /\ current = {EntryOf(lone)}
    BY <2>1, <2>3 DEF LoneInv, SingleLine
  <2> QED BY <2>1, <2>2, <2>3 DEF LoneInv, SingleLine, EntryOf, Given, Near
<1> QED BY <1>1, <1>2, <1>3, <1>4, <1>5, <1>6 DEF Reports!Next

(* Only publishReport sets lone, and the scan it ends has looked its line  *)
(* up.                                                                     *)
LEMMA PublishedSame ==
  ASSUME IdsInv, OriginInv, LoneInv, [Reports!Next]_(Reports!vars),
         lone'.unmatched = lone.unmatched
  PROVE  lone'.ids = lone.ids
<1>1. CASE lone' = lone
  BY <1>1
<1>2. CASE lone' # lone
  <2>1. PICK s \in Scanners : Reports!PublishReport(s)
    BY <1>2 DEF Reports!Next, Reports!vars, Reports!BeginScanCycle, Reports!Build,
                Reports!GetOrAssignId, Reports!EndScanCycle
  <2>2. /\ pc[s] = "ids" /\ at[s] > Len(report.unmatched)
        /\ lone' = IF Len(report.unmatched) = 1 THEN report ELSE Reports!EmptyReport
    BY <2>1 DEF Reports!PublishReport
  <2>3. Len(report.unmatched) \in Nat /\ Len(report.ids) = Len(report.unmatched)
    <3>1. at[s] = Len(report.ids) + 1 /\ Len(report.ids) <= Len(report.unmatched)
      BY <2>2 DEF OriginInv
    <3>2. Len(report.ids) \in Nat /\ Len(report.unmatched) \in Nat
      BY LenProperties DEF IdsInv, OriginInv
    <3> QED BY <2>2, <3>1, <3>2
  <2>4. Reports!EmptyReport.unmatched = <<>>
    BY DEF Reports!EmptyReport
  <2>5. CASE Len(report.unmatched) = 1
    <3>1. lone' = report /\ lone # Reports!EmptyReport
      <4>1. lone' = report
        BY <2>2, <2>5
      <4>2. Len(lone.unmatched) = 1 /\ Len(Reports!EmptyReport.unmatched) = 0
        BY <2>4, <2>5, <4>1
      <4> QED BY <4>1, <4>2
    <3> QED BY <2>2, <2>3, <2>5, <3>1 DEF LoneInv
  <2>6. CASE Len(report.unmatched) # 1
    <3>1. lone' = Reports!EmptyReport /\ lone.unmatched = <<>>
      BY <2>2, <2>4, <2>6
    <3>2. ~SingleLine(lone)
      BY <3>1 DEF SingleLine
    <3> QED BY <3>1, <3>2 DEF LoneInv
  <2> QED BY <2>5, <2>6
<1> QED BY <1>1, <1>2

(* When two consecutive reports each name one line and it is the same,     *)
(* they name it by the same id: endScanCycle keeps the entry, and          *)
(* getOrAssignId finds it in its own cell.                                 *)
THEOREM StationaryFeatureKeepsId ==
  ASSUME OneScanner, LinesFitted
  PROVE  ReportsSpec => StationaryKeepsId
<1> DEFINE Inv == IdsInv /\ OriginInv /\ LoneInv
<1>0. MaxDrift2 \in Nat /\ Cell \in Nat \ {0}
  BY ReportsAssumption DEF Reports!ReportAssumption
<1>1. Reports!Init => Inv
  BY IdsInit, OriginInit, LoneInit
<1>2. Inv /\ [Reports!Next]_(Reports!vars) => Inv'
  BY <1>0, IdsStep, OriginStep, LoneStep
<1>3. Inv /\ [Reports!Next]_(Reports!vars)
        => [lone'.unmatched = lone.unmatched => lone'.ids = lone.ids]_(Reports!vars)
  BY <1>0, PublishedSame
<1> QED BY <1>1, <1>2, <1>3, PTL DEF ReportsSpec, Reports!Spec, StationaryKeepsId, Reports!StationaryKeepsId

-----------------------------------------------------------------------------
(* The fleet's numbers.                                                    *)

(* An index once given stays what the namespace makes it; every entry of   *)
(* the published report carries the number its AGV and its own id make.    *)
FleetInv ==
  /\ DOMAIN latest \subseteq Agvs
  /\ \A a \in DOMAIN latest, kind \in Fleet!Kinds : latest[a][kind] \subseteq LocalIds
  /\ \A a \in DOMAIN indexes : indexes[a] = Fleet!OwnIndex(a)
  /\ \A e \in combined :
       /\ e.from \in Agvs /\ e.local \in LocalIds
       /\ e.id = e.local + Fleet!OwnIndex(e.from) * IdSpacePerAgv

(* Numbers below the width of a range do not reach into another range.     *)
LEMMA RangesDisjoint ==
  ASSUME NEW width \in Nat, NEW i \in 0..(width - 1), NEW j \in 0..(width - 1),
         NEW k \in Nat, NEW l \in Nat, i + k * width = j + l * width
  PROVE  i = j /\ k = l
<1>1. ASSUME NEW m \in Nat, NEW n \in Nat, m < n
      PROVE  (m + 1) * width <= n * width
  <2>1. (n - (m + 1)) \in Nat
    BY <1>1
  <2>2. (n - (m + 1)) * width \in Nat
    BY <2>1, SMT
  <2>3. n * width = (m + 1) * width + (n - (m + 1)) * width
    BY SMT
  <2>4. (m + 1) * width \in Int
    BY SMT
  <2> QED BY <2>2, <2>3, <2>4
<1>2. \A n \in Nat : n * width \in Int /\ (n + 1) * width = n * width + width
  BY SMT
<1>3. ~(k < l)
  <2> SUFFICES ASSUME k < l PROVE FALSE
    OBVIOUS
  <2>1. k * width + width <= l * width
    BY <1>1, <1>2
  <2> QED BY <1>2, <2>1
<1>4. ~(l < k)
  <2> SUFFICES ASSUME l < k PROVE FALSE
    OBVIOUS
  <2>1. l * width + width <= k * width
    BY <1>1, <1>2
  <2> QED BY <1>2, <2>1
<1>5. k = l
  BY <1>3, <1>4
<1> QED BY <1>2, <1>5

LEMMA OwnIndexNat ==
  ASSUME Fleet!AggregatorAssumption, NEW a \in Agvs
  PROVE  Fleet!OwnIndex(a) \in Nat
<1>1. Digits[a] \in Nat \cup {-1} /\ Hash[a] \in Nat /\ MaxAgvIndex \in Nat \ {0}
  BY DEF Fleet!AggregatorAssumption, Fleet!NoDigits
<1>2. Hash[a] % MaxAgvIndex \in Nat
  BY <1>1
<1> QED BY <1>1, <1>2 DEF Fleet!OwnIndex

(* agvIndexFor answers what the namespace says, cached or not.             *)
LEMMA IndexIsOwn ==
  ASSUME Fleet!AggregatorAssumption, FleetInv, NEW a \in Agvs
  PROVE  Fleet!AgvIndexFor(a) = Fleet!OwnIndex(a)
<1>1. Digits[a] \in Nat \cup {-1} /\ MaxAgvIndex \in Nat \ {0}
  BY DEF Fleet!AggregatorAssumption, Fleet!NoDigits
<1>2. CASE a \in DOMAIN indexes
  BY <1>2 DEF FleetInv, Fleet!AgvIndexFor
<1>3. CASE a \notin DOMAIN indexes
  BY <1>1, <1>3 DEF Fleet!AgvIndexFor, Fleet!OwnIndex, Fleet!ParseTrailingIndex,
                    Fleet!HashFallbackIndex, Fleet!NoDigits
<1> QED BY <1>2, <1>3

LEMMA ShiftedFacts ==
  ASSUME Fleet!AggregatorAssumption, FleetInv, Fleet!PublishCombined, NEW e \in combined'
  PROVE  /\ e.from \in Agvs /\ e.local \in LocalIds
         /\ e.id = e.local + Fleet!OwnIndex(e.from) * IdSpacePerAgv
<1>1. PICK a \in DOMAIN latest, kind \in Fleet!Kinds :
        e \in {Fleet!Shifted(a, kind, id) : id \in latest[a][kind]}
  BY DEF Fleet!PublishCombined
<1>2. PICK id \in latest[a][kind] : e = Fleet!Shifted(a, kind, id)
  BY <1>1
<1>3. a \in Agvs /\ id \in LocalIds
  BY DEF FleetInv
<1>4. e.from = a /\ e.local = id /\ e.id = id + Fleet!AgvIndexFor(a) * IdSpacePerAgv
  BY <1>2 DEF Fleet!Shifted
<1> QED BY <1>3, <1>4, IndexIsOwn

LEMMA FleetInit == Fleet!Init => FleetInv
BY DEF Fleet!Init, FleetInv

LEMMA FleetStep ==
  ASSUME Fleet!AggregatorAssumption, FleetInv, [Fleet!Next]_(Fleet!vars)
  PROVE  FleetInv'
<1>1. CASE UNCHANGED Fleet!vars
  BY <1>1 DEF Fleet!vars, FleetInv
<1>2. ASSUME NEW a \in Agvs, Fleet!ReportCallback(a)
      PROVE  FleetInv'
  <2>1. PICK r \in Fleet!Reports :
          latest' = [b \in DOMAIN latest \cup {a} |-> IF b = a THEN r ELSE latest[b]]
    BY <1>2 DEF Fleet!ReportCallback
  <2>2. \A kind \in Fleet!Kinds : r[kind] \subseteq LocalIds
    BY DEF Fleet!Reports
  <2>3. indexes' = indexes /\ combined' = combined
    BY <1>2 DEF Fleet!ReportCallback
  <2>4. DOMAIN latest' = DOMAIN latest \cup {a}
    BY <2>1
  <2>5. DOMAIN latest' \subseteq Agvs
    BY <2>4 DEF FleetInv
  <2>6. \A b \in DOMAIN latest', kind \in Fleet!Kinds : latest'[b][kind] \subseteq LocalIds
    BY <2>1, <2>2, <2>4 DEF FleetInv
  <2> QED BY <2>3, <2>5, <2>6 DEF FleetInv
<1>3. ASSUME Fleet!PublishCombined
      PROVE  FleetInv'
  <2>1. /\ latest' = latest
        /\ indexes' = [a \in DOMAIN indexes \cup DOMAIN latest |-> Fleet!AgvIndexFor(a)]
    BY <1>3 DEF Fleet!PublishCombined
  <2>2. \A a \in DOMAIN indexes' : indexes'[a] = Fleet!OwnIndex(a)
    <3> TAKE a \in DOMAIN indexes'
    <3>1. a \in DOMAIN indexes \cup DOMAIN latest /\ indexes'[a] = Fleet!AgvIndexFor(a)
      BY <2>1
    <3>2. CASE a \in DOMAIN indexes
      BY <3>1, <3>2 DEF FleetInv, Fleet!AgvIndexFor
    <3>3. CASE a \in DOMAIN latest
      BY <3>1, <3>3, IndexIsOwn DEF FleetInv
    <3> QED BY <3>1, <3>2, <3>3
  <2> QED BY <1>3, <2>1, <2>2, ShiftedFacts DEF FleetInv
<1> QED BY <1>1, <1>2, <1>3 DEF Fleet!Next

(* Two entries, of one report or of consecutive ones.                      *)
LEMMA SameNumber ==
  ASSUME Fleet!AggregatorAssumption,
         NEW e, e.from \in Agvs, e.local \in LocalIds,
         e.id = e.local + Fleet!OwnIndex(e.from) * IdSpacePerAgv,
         NEW f, f.from \in Agvs, f.local \in LocalIds,
         f.id = f.local + Fleet!OwnIndex(f.from) * IdSpacePerAgv,
         e.from = f.from \/ Fleet!OwnIndex(e.from) # Fleet!OwnIndex(f.from)
  PROVE  e.id = f.id <=> e.from = f.from /\ e.local = f.local
<1>1. /\ IdSpacePerAgv \in Nat
      /\ e.local \in 0..(IdSpacePerAgv - 1) /\ f.local \in 0..(IdSpacePerAgv - 1)
  BY DEF Fleet!AggregatorAssumption
<1>2. Fleet!OwnIndex(e.from) \in Nat /\ Fleet!OwnIndex(f.from) \in Nat
  BY OwnIndexNat
<1>3. ASSUME e.id = f.id
      PROVE  e.local = f.local /\ Fleet!OwnIndex(e.from) = Fleet!OwnIndex(f.from)
  <2>1. \A i, j \in 0..(IdSpacePerAgv - 1), k, l \in Nat :
          i + k * IdSpacePerAgv = j + l * IdSpacePerAgv => i = j /\ k = l
    BY <1>1, RangesDisjoint
  <2> QED BY <1>1, <1>2, <1>3, <2>1
<1> QED BY <1>3

(* Two entries of one or of two consecutive reports of the fleet have the  *)
(* same id just when they are the same obstacle of the same AGV, unless    *)
(* two AGVs have the same index: publishCombined shifts matched and        *)
(* unmatched ids alike, and agvIndexFor answers from its cache what it     *)
(* answered first.                                                         *)
THEOREM SameIdIsSameObstacle == Fleet!Spec => SameIdSameObstacle
<1>0. Fleet!AggregatorAssumption
  BY FleetAssumption
<1>1. Fleet!Init => FleetInv
  BY FleetInit
<1>2. FleetInv /\ [Fleet!Next]_(Fleet!vars) => FleetInv'
  BY <1>0, FleetStep
<1>3. FleetInv /\ FleetInv' /\ [Fleet!Next]_(Fleet!vars)
      => [combined' # combined => \A e \in combined \cup combined', f \in combined' :
            e.from = f.from \/ Fleet!OwnIndex(e.from) # Fleet!OwnIndex(f.from)
              => (e.id = f.id <=> e.from = f.from /\ e.local = f.local)]_(Fleet!vars)
  BY <1>0, SameNumber DEF FleetInv
<1> QED BY <1>1, <1>2, <1>3, PTL DEF Fleet!Spec, SameIdSameObstacle, Fleet!SameIdSameObstacle

-----------------------------------------------------------------------------
(* The geometry on its way to the broker.                                  *)

IsSeq(s) == s \in Seq({s[k] : k \in DOMAIN s})

LEMMA SeqIs ==
  ASSUME NEW S, NEW s \in Seq(S)
  PROVE  IsSeq(s)
<1>1. Len(s) \in Nat /\ s \in [1..Len(s) -> S] /\ DOMAIN s = 1..Len(s)
  BY LenProperties
<1>2. s \in [1..Len(s) -> {s[k] : k \in DOMAIN s}]
  BY <1>1
<1> QED BY <1>1, <1>2, SeqDef DEF IsSeq

(* A finite set in some order.                                             *)
LEMMA Enumerated ==
  ASSUME NEW S, IsFiniteSet(S)
  PROVE  SetToSeq(S) \in Seq(S)
<1>1. Cardinality(S) \in Nat /\ ExistsBijection(1..Cardinality(S), S)
  BY FS_CardinalityType
<1>2. PICK f \in [1..Cardinality(S) -> S] : IsInjective(f)
  <2>1. PICK h \in Bijection(1..Cardinality(S), S) : TRUE
    BY <1>1 DEF ExistsBijection
  <2>2. h \in [1..Cardinality(S) -> S] /\ \A a, b \in 1..Cardinality(S) : h[a] = h[b] => a = b
    BY DEF Bijection, Injection, IsInjective
  <2> QED BY <2>2 DEF IsInjective
<1>3. SetToSeq(S) \in [1..Cardinality(S) -> S]
  BY <1>2 DEF SetToSeq
<1> QED BY <1>1, <1>3, SeqDef

(* What an upsert that waits may say: g is the geometry the bridge keeps.  *)
Fits(u, g) ==
  /\ u.attr \in {"alert", "geometry", "stream", "chunk"}
  /\ u.attr = "geometry" => u.value = g
  /\ u.attr = "chunk" => u.value \subseteq Pallets

Pending(work, g) == IsSeq(work) /\ \A i \in DOMAIN work : Fits(work[i], g)

(* What the bridge would send: what it has, or else what it read back.     *)
Kept(o, r) == IF o.geometry = 0 THEN r.geometry ELSE o.geometry

FwOK(f) ==
  /\ f = [pallets |-> f.pallets, dirty |-> f.dirty, alert |-> f.alert,
          ready |-> f.ready, waiting |-> f.waiting]
  /\ f.pallets \subseteq Pallets

ObOK(o, last) ==
  /\ o = [pallets |-> o.pallets, dirty |-> o.dirty, alert |-> o.alert, geometry |-> o.geometry,
          streaming |-> o.streaming, created |-> o.created, trigger |-> o.trigger]
  /\ o.pallets \subseteq Pallets
  /\ o.geometry \in 0..last

OrionOK(r, last) ==
  /\ r = [exists |-> r.exists, alert |-> r.alert, geometry |-> r.geometry, chunks |-> r.chunks]
  /\ r.geometry \in 0..last
  /\ ~r.exists => r.geometry = 0
  /\ \A c \in DOMAIN r.chunks : r.chunks[c] \subseteq Pallets

MapsOK(q) == IsSeq(q) /\ \A i \in DOMAIN q : q[i] \subseteq Pallets

StoresInv ==
  /\ events \in Nat
  /\ FwOK(fw) /\ MapsOK(toOrion)
  /\ ObOK(ob, events) /\ OrionOK(orion, events)
  /\ ob.geometry = 0 \/ orion.geometry <= ob.geometry

ReqOK(r, busy) ==
  /\ r = [kind |-> r.kind, tries |-> r.tries]
  /\ busy => r.kind \in {"create", "patch", "post"}

WorkInv ==
  /\ jobs = [t \in Threads |-> jobs[t]]
  /\ req = [t \in Threads |-> req[t]]
  /\ \A t \in Threads :
       Pending(jobs[t], Kept(ob, orion)) /\ ReqOK(req[t], jobs[t] # <<>>)
  /\ jobs["http"] # <<>> => lock = "http"

BridgeInv == StoresInv /\ WorkInv

-----------------------------------------------------------------------------
(* Jobs.                                                                   *)

LEMMA EmptyPending ==
  ASSUME NEW g
  PROVE  Pending(<<>>, g)
<1>1. <<>> \in Seq({}) /\ DOMAIN <<>> = {}
  OBVIOUS
<1> QED BY <1>1, SeqIs DEF Pending

LEMMA OnePending ==
  ASSUME NEW g, NEW u, Fits(u, g)
  PROVE  Pending(<<u>>, g)
<1>1. <<u>> \in Seq({u}) /\ DOMAIN <<u>> = 1..1 /\ <<u>>[1] = u
  OBVIOUS
<1>2. \A i \in DOMAIN <<u>> : Fits(<<u>>[i], g)
  <2>1. \A i \in 1..1 : i = 1
    OBVIOUS
  <2> QED BY <1>1, <2>1
<1> HIDE DEF Fits
<1>3. IsSeq(<<u>>)
  BY <1>1, SeqIs
<1> QED BY <1>2, <1>3 DEF Pending

LEMMA TailPending ==
  ASSUME NEW g, NEW work, Pending(work, g), work # <<>>
  PROVE  Fits(Head(work), g) /\ Pending(Tail(work), g)
<1> DEFINE S == {work[k] : k \in DOMAIN work}
<1>1. work \in Seq(S) /\ \A u \in S : Fits(u, g)
  BY DEF Pending, IsSeq
<1> HIDE DEF S
<1>2. Head(work) \in S /\ Tail(work) \in Seq(S)
  BY <1>1, HeadTailProperties
<1>3. \A i \in DOMAIN Tail(work) : Tail(work)[i] \in S
  BY <1>2, LenProperties
<1> QED BY <1>1, <1>2, <1>3, SeqIs DEF Pending

LEMMA ConcatPending ==
  ASSUME NEW g, NEW j, NEW k, Pending(j, g), Pending(k, g)
  PROVE  Pending(j \o k, g)
<1> DEFINE S == {j[i] : i \in DOMAIN j} \cup {k[i] : i \in DOMAIN k}
<1>1. j \in Seq(S) /\ k \in Seq(S)
  BY SeqMonotonic DEF Pending, IsSeq
<1>2. \A u \in S : Fits(u, g)
  BY DEF Pending
<1> HIDE DEF S
<1>3. j \o k \in Seq(S)
  BY <1>1, ConcatProperties
<1>4. \A i \in DOMAIN (j \o k) : (j \o k)[i] \in S
  BY <1>3, LenProperties
<1> QED BY <1>2, <1>3, <1>4, SeqIs DEF Pending

(* The chunks of a map hold pallets.                                       *)
LEMMA ChunksPending ==
  ASSUME NEW g, IsFiniteSet(Pallets), ChunkSize \in Nat \ {0}, NEW S, S \subseteq Pallets
  PROVE  Pending(ChunkJob(S), g)
<1> DEFINE s == SetToSeq(S)
           n == (Len(s) + ChunkSize - 1) \div ChunkSize
           last(k) == IF k * ChunkSize < Len(s) THEN k * ChunkSize ELSE Len(s)
           part(k) == SubSeq(s, (k - 1) * ChunkSize + 1, last(k))
           chunk(k) == [attr |-> "chunk", at |-> k - 1, value |-> ToSet(part(k))]
           work == [k \in 1..n |-> chunk(k)]
<1>1. IsFiniteSet(S)
  BY FS_Subset
<1>2. s \in Seq(S) /\ Len(s) \in Nat /\ \A i \in 1..Len(s) : s[i] \in S
  BY <1>1, Enumerated, LenProperties
<1>3. ChunkJob(S) = work
  BY DEF ChunkJob
<1> HIDE DEF s
<1>4. n \in Nat
  BY <1>2
<1>5. ASSUME NEW k \in 1..n
      PROVE  ToSet(part(k)) \subseteq Pallets
  <2>1. (k - 1) * ChunkSize \in Nat /\ k * ChunkSize \in Nat
    <3>1. k - 1 \in Nat /\ k \in Nat
      BY <1>4, <1>5
    <3> QED BY <3>1, SMT
  <2>2. (k - 1) * ChunkSize + 1 \in Int /\ last(k) \in Int
        /\ \A i \in ((k - 1) * ChunkSize + 1)..last(k) : i \in 1..Len(s)
    BY <1>2, <2>1
  <2>3. part(k) \in Seq(S)
    <3> DEFINE first == (k - 1) * ChunkSize + 1
               end == last(k)
    <3>1. first \in Int /\ end \in Int /\ \A i \in first..end : s[i] \in S
      BY <1>2, <2>2
    <3>2. part(k) = SubSeq(s, first, end)
      OBVIOUS
    <3> HIDE DEF first, end
    <3> QED BY <3>1, <3>2, SubSeqProperties
  <2> HIDE DEF part
  <2>4. \A i \in DOMAIN part(k) : part(k)[i] \in S
    BY <2>3, LenProperties
  <2> QED BY <2>4 DEF ToSet
<1> HIDE DEF n, part
<1>6. work \in Seq({work[k] : k \in DOMAIN work})
  <2>1. work \in [1..n -> {work[k] : k \in DOMAIN work}]
    OBVIOUS
  <2> QED BY <1>4, <2>1, SeqDef
<1>7. \A k \in DOMAIN work : Fits(work[k], g)
  BY <1>5 DEF Fits
<1> QED BY <1>3, <1>6, <1>7 DEF Pending, IsSeq

(* Taking up a work.                                                        *)
LEMMA StartWork ==
  ASSUME NEW t \in Threads, NEW work, NEW g, Start(t, work), WorkInv, Pending(work, g),
         \A x \in Threads \ {t} : Pending(jobs[x], g)
  PROVE  /\ jobs' = [x \in Threads |-> jobs'[x]]
         /\ req' = [x \in Threads |-> req'[x]]
         /\ \A x \in Threads : Pending(jobs'[x], g) /\ ReqOK(req'[x], jobs'[x] # <<>>)
         /\ jobs'[t] = work
         /\ \A x \in Threads \ {t} : jobs'[x] = jobs[x]
<1>1. /\ jobs' = [jobs EXCEPT ![t] = work]
      /\ req' = [req EXCEPT ![t] = FirstRequest(work, ob'.created)]
  BY DEF Start
<1>2. /\ jobs' = [x \in Threads |-> jobs'[x]]
      /\ jobs'[t] = work /\ \A x \in Threads \ {t} : jobs'[x] = jobs[x]
  BY <1>1 DEF WorkInv
<1>3. /\ req' = [x \in Threads |-> req'[x]]
      /\ req'[t] = FirstRequest(work, ob'.created)
      /\ \A x \in Threads \ {t} : req'[x] = req[x]
  BY <1>1 DEF WorkInv
<1>4. ReqOK(req'[t], work # <<>>)
  BY <1>3 DEF ReqOK, FirstRequest, NoReq
<1>5. \A x \in Threads \ {t} : ReqOK(req'[x], jobs'[x] # <<>>)
  BY <1>2, <1>3 DEF WorkInv
<1> QED BY <1>2, <1>3, <1>4, <1>5

(* What the broker does with a request.                                    *)
LEMMA WriteKeeps ==
  ASSUME StoresInv, NEW u, Fits(u, Kept(ob, orion)), orion.exists
  PROVE  /\ OrionOK(Write(u), events)
         /\ Write(u).geometry \in {orion.geometry, Kept(ob, orion)}
<1> DEFINE r == Write(u)
<1>1. /\ orion = [exists |-> orion.exists, alert |-> orion.alert,
                  geometry |-> orion.geometry, chunks |-> orion.chunks]
      /\ orion.geometry \in 0..events
      /\ \A c \in DOMAIN orion.chunks : orion.chunks[c] \subseteq Pallets
      /\ Kept(ob, orion) \in 0..events
  BY DEF StoresInv, OrionOK, ObOK, Kept
<1>2. CASE u.attr = "alert"
  <2>1. r = [orion EXCEPT !.alert = u.value]
    BY <1>2 DEF Write
  <2> QED BY <1>1, <2>1 DEF OrionOK
<1>3. CASE u.attr = "geometry"
  <2>1. r = [orion EXCEPT !.geometry = u.value] /\ u.value = Kept(ob, orion)
    BY <1>3 DEF Write, Fits
  <2> QED BY <1>1, <2>1 DEF OrionOK
<1>4. CASE u.attr = "stream"
  <2>1. r = orion
    BY <1>4 DEF Write
  <2> QED BY <2>1 DEF StoresInv
<1>5. CASE u.attr \notin {"alert", "geometry", "stream"}
  <2> DEFINE chunks == [c \in DOMAIN orion.chunks \cup {u.at} |->
                          IF c = u.at THEN u.value ELSE orion.chunks[c]]
  <2>1. r = [orion EXCEPT !.chunks = chunks]
    BY <1>5 DEF Write
  <2>2. CASE u.value \subseteq Pallets
    <3>1. \A c \in DOMAIN chunks : chunks[c] \subseteq Pallets
      BY <1>1, <2>2
    <3> HIDE DEF chunks
    <3> QED BY <1>1, <2>1, <3>1 DEF OrionOK
  <2> QED BY <2>2, <1>5 DEF Fits
<1> QED BY <1>2, <1>3, <1>4, <1>5

LEMMA EffectKeeps ==
  ASSUME StoresInv, NEW kind \in {"create", "patch", "post"}, NEW u, Fits(u, Kept(ob, orion)),
         NEW r \in {orion, Effect(kind, u)}
  PROVE  /\ OrionOK(r, events)
         /\ r.geometry >= orion.geometry
         /\ ob.geometry = 0 \/ r.geometry <= ob.geometry
         /\ Kept(ob, r) = Kept(ob, orion)
<1>1. /\ OrionOK(orion, events) /\ events \in Nat
      /\ ob.geometry \in 0..events /\ orion.geometry \in 0..events
      /\ ob.geometry = 0 \/ orion.geometry <= ob.geometry
  BY DEF StoresInv, ObOK, OrionOK
<1>2. CASE r = orion
  BY <1>1, <1>2
<1>3. CASE ~orion.exists /\ r = NewEntity
  <2>1. r = [exists |-> TRUE, alert |-> FALSE, geometry |-> 0, chunks |-> [c \in {} |-> {}]]
    BY <1>3 DEF NewEntity
  <2>2. orion.geometry = 0
    BY <1>1, <1>3 DEF OrionOK
  <2>3. OrionOK(r, events)
    BY <1>1, <2>1 DEF OrionOK
  <2> QED BY <1>1, <2>1, <2>2, <2>3 DEF Kept
<1>4. CASE orion.exists /\ r = Write(u)
  <2>1. OrionOK(r, events) /\ r.geometry \in {orion.geometry, Kept(ob, orion)}
    BY <1>4, WriteKeeps
  <2> QED BY <1>1, <2>1 DEF Kept
<1>5. r = orion \/ (~orion.exists /\ r = NewEntity) \/ (orion.exists /\ r = Write(u))
  BY DEF Effect, HasAttr
<1> QED BY <1>2, <1>3, <1>4, <1>5

(* A request is done with, whatever follows it.                            *)
LEMMA AdvanceWork ==
  ASSUME WorkInv, NEW t \in Threads, jobs[t] # <<>>,
         NEW kind \in {"create", "patch", "post"}, NEW found, Advance(t, kind, found)
  PROVE  /\ jobs' = [x \in Threads |-> jobs'[x]]
         /\ req' = [x \in Threads |-> req'[x]]
         /\ \A x \in Threads :
              Pending(jobs'[x], Kept(ob, orion)) /\ ReqOK(req'[x], jobs'[x] # <<>>)
         /\ \A x \in Threads \ {t} : jobs'[x] = jobs[x]
<1>1. /\ jobs = [x \in Threads |-> jobs[x]] /\ req = [x \in Threads |-> req[x]]
      /\ \A x \in Threads : Pending(jobs[x], Kept(ob, orion)) /\ ReqOK(req[x], jobs[x] # <<>>)
  BY DEF WorkInv
<1>2. CASE /\ jobs' = jobs
           /\ \E k \in {"patch", "post"} : req' = [req EXCEPT ![t] = [kind |-> k, tries |-> 0]]
  <2>1. PICK k \in {"patch", "post"} : req' = [req EXCEPT ![t] = [kind |-> k, tries |-> 0]]
    BY <1>2
  <2>2. /\ req' = [x \in Threads |-> req'[x]]
        /\ req'[t] = [kind |-> k, tries |-> 0]
        /\ \A x \in Threads \ {t} : req'[x] = req[x]
    BY <1>1, <2>1
  <2>3. ReqOK(req'[t], TRUE)
    BY <2>2 DEF ReqOK
  <2> QED BY <1>1, <1>2, <2>2, <2>3
<1>3. CASE /\ jobs' = [jobs EXCEPT ![t] = Tail(@)]
           /\ req' = [req EXCEPT ![t] = FirstRequest(Tail(jobs[t]), ob'.created)]
  <2>1. /\ jobs' = [x \in Threads |-> jobs'[x]] /\ jobs'[t] = Tail(jobs[t])
        /\ \A x \in Threads \ {t} : jobs'[x] = jobs[x]
    BY <1>1, <1>3
  <2>2. /\ req' = [x \in Threads |-> req'[x]]
        /\ req'[t] = FirstRequest(Tail(jobs[t]), ob'.created)
        /\ \A x \in Threads \ {t} : req'[x] = req[x]
    BY <1>1, <1>3
  <2>3. Pending(Tail(jobs[t]), Kept(ob, orion))
    BY <1>1, TailPending
  <2>4. ReqOK(req'[t], Tail(jobs[t]) # <<>>)
    BY <2>2 DEF ReqOK, FirstRequest, NoReq
  <2> QED BY <1>1, <2>1, <2>2, <2>3, <2>4
<1> QED BY <1>2, <1>3 DEF Advance

-----------------------------------------------------------------------------
(* Steps.                                                                  *)

LEMMA BridgeInit == FiwareInit => BridgeInv
<1> SUFFICES ASSUME FiwareInit PROVE BridgeInv
  OBVIOUS
<1>1. events = 0 /\ FwOK(fw)
  BY FiwareAssumption DEF FiwareInit, FwOK
<1>2. MapsOK(toOrion)
  <2>1. \A S : <<S>> \in Seq({S}) /\ DOMAIN <<S>> = 1..1 /\ <<S>>[1] = S
    OBVIOUS
  <2>2. <<>> \in Seq({}) /\ DOMAIN <<>> = {}
    OBVIOUS
  <2>3. \A i \in 1..1 : i = 1
    OBVIOUS
  <2>4. \/ toOrion = <<>>
        \/ toOrion = <<FilePallets>> /\ FilePallets \subseteq Pallets
    BY FiwareAssumption DEF FiwareInit, LoadPalletsFromJson
  <2>5. CASE toOrion = <<>>
    BY <2>2, <2>5, SeqIs DEF MapsOK
  <2>6. CASE toOrion = <<FilePallets>> /\ FilePallets \subseteq Pallets
    <3>1. IsSeq(toOrion)
      BY <2>1, <2>6, SeqIs
    <3>2. \A i \in DOMAIN toOrion : toOrion[i] = FilePallets
      BY <2>1, <2>3, <2>6
    <3> QED BY <2>6, <3>1, <3>2 DEF MapsOK
  <2> QED BY <2>4, <2>5, <2>6
<1>3. ObOK(ob, 0) /\ ob.geometry = 0
  BY DEF FiwareInit, NewBridge, ObOK
<1>4. OrionOK(orion, 0)
  <2>1. orion = [exists |-> FALSE, alert |-> FALSE, geometry |-> 0, chunks |-> [c \in {} |-> {}]]
    BY DEF FiwareInit, NewEntity
  <2>2. DOMAIN orion.chunks = {}
    BY <2>1
  <2> QED BY <2>1, <2>2 DEF OrionOK
<1>5. WorkInv
  <2>1. /\ jobs = [t \in Threads |-> <<>>] /\ req = [t \in Threads |-> NoReq]
    BY DEF FiwareInit
  <2>2. ReqOK(NoReq, FALSE)
    BY DEF ReqOK, NoReq
  <2>3. "http" \in Threads
    BY DEF Threads
  <2> QED BY <2>1, <2>2, <2>3, EmptyPending DEF WorkInv
<1> QED BY <1>1, <1>2, <1>3, <1>4, <1>5 DEF BridgeInv, StoresInv

(* What the stores may do under a handler that asks the broker nothing:    *)
(* whatever is pending still fits.                                         *)
LEMMA StoresStep ==
  ASSUME BridgeInv, events' \in Nat, events <= events', orion' = orion, FwOK(fw'), MapsOK(toOrion'),
         ObOK(ob', events'), ob'.geometry = ob.geometry
  PROVE  StoresInv' /\ Kept(ob', orion') = Kept(ob, orion)
<1>1. OrionOK(orion, events')
  BY DEF BridgeInv, StoresInv, OrionOK
<1> QED BY <1>1 DEF BridgeInv, StoresInv, Kept

(* The executor begins a work.                                              *)
LEMMA ExecBegins ==
  ASSUME WorkInv, NEW work, NEW g, Start("exec", work), lock' = lock,
         Pending(work, g), g = Kept(ob', orion'),
         jobs["http"] = <<>> \/ g = Kept(ob, orion)
  PROVE  WorkInv'
<1>1. Threads = {"exec", "http"}
  BY DEF Threads
<1>2. Pending(jobs["http"], g)
  BY <1>1, EmptyPending DEF WorkInv
<1>3. /\ jobs' = [x \in Threads |-> jobs'[x]]
      /\ req' = [x \in Threads |-> req'[x]]
      /\ \A x \in Threads : Pending(jobs'[x], g) /\ ReqOK(req'[x], jobs'[x] # <<>>)
      /\ jobs'["http"] = jobs["http"]
  BY <1>1, <1>2, StartWork
<1> QED BY <1>3 DEF WorkInv

LEMMA RelayKeeps ==
  ASSUME BridgeInv, NEW s, NEW fwTakes, NEW obTakes, Relay(s, fwTakes, obTakes), FwOK(fw')
  PROVE  BridgeInv'
<1> DEFINE work == IF obTakes THEN Stream ELSE <<>>
<1>1. /\ events' = events + 1 /\ ob' = ob /\ orion' = orion /\ toOrion' = toOrion /\ lock' = lock
      /\ Start("exec", work)
  BY DEF Relay, Event, orionVars
<1>2. StoresInv' /\ Kept(ob', orion') = Kept(ob, orion)
  <2>1. events \in Nat /\ MapsOK(toOrion) /\ ObOK(ob, events)
    BY DEF BridgeInv, StoresInv
  <2>2. ObOK(ob, events + 1)
    BY <2>1 DEF ObOK
  <2> QED BY <1>1, <2>1, <2>2, StoresStep
<1>3. Pending(work, Kept(ob, orion))
  BY EmptyPending, OnePending DEF Stream, Upsert, Fits
<1> HIDE DEF work
<1> QED BY <1>1, <1>2, <1>3, ExecBegins DEF BridgeInv

LEMMA FwEdited ==
  ASSUME NEW f, FwOK(f), NEW x
  PROVE  /\ FwOK([f EXCEPT !.ready = x]) /\ FwOK([f EXCEPT !.alert = x])
         /\ FwOK([f EXCEPT !.waiting = x]) /\ FwOK([f EXCEPT !.dirty = x])
<1>1. FwOK([f EXCEPT !.ready = x])
  BY DEF FwOK
<1>2. FwOK([f EXCEPT !.alert = x])
  BY DEF FwOK
<1>3. FwOK([f EXCEPT !.waiting = x])
  BY DEF FwOK
<1>4. FwOK([f EXCEPT !.dirty = x])
  BY DEF FwOK
<1> QED BY <1>1, <1>2, <1>3, <1>4

LEMMA StreamStep ==
  ASSUME BridgeInv,
         \/ ReportCallback \/ OdomCallback \/ TfPositionCallback
         \/ DiagCallback \/ HeatmapCallback \/ ValidationResultCallback
         \/ \E b \in BOOLEAN : ReadyCallback(b)
  PROVE  BridgeInv'
<1>1. FwOK(fw)
  BY DEF BridgeInv, StoresInv
<1>2. CASE \E b \in BOOLEAN : ReadyCallback(b)
  <2>1. PICK b \in BOOLEAN : ReadyCallback(b)
    BY <1>2
  <2>2. FwOK(fw')
    BY <1>1, <2>1, FwEdited DEF ReadyCallback
  <2> QED BY <2>1, <2>2, RelayKeeps DEF ReadyCallback
<1>3. CASE fw' = fw /\ \E s, a, b : Relay(s, a, b)
  BY <1>1, <1>3, RelayKeeps
<1>4. \/ \E b \in BOOLEAN : ReadyCallback(b)
      \/ fw' = fw /\ \E s, a, b : Relay(s, a, b)
  BY DEF ReportCallback, OdomCallback, TfPositionCallback,
         DiagCallback, HeatmapCallback, ValidationResultCallback
<1> QED BY <1>2, <1>3, <1>4

LEMMA AlertStep ==
  ASSUME BridgeInv, NEW b \in BOOLEAN, AlertCallback(b)
  PROVE  BridgeInv'
<1> DEFINE work == IF ob'.alert = ob.alert THEN <<>> ELSE <<Upsert("alert", b)>>
<1>1. /\ events' = events + 1 /\ orion' = orion /\ toOrion' = toOrion /\ lock' = lock
      /\ fw' = [fw EXCEPT !.alert = IF b THEN "true" ELSE "false"]
      /\ ob' = [ob EXCEPT !.alert = IF b THEN "true" ELSE "false"]
      /\ Start("exec", work)
  BY DEF AlertCallback, Event, orionVars
<1>2. StoresInv' /\ Kept(ob', orion') = Kept(ob, orion)
  <2>1. events \in Nat /\ FwOK(fw) /\ MapsOK(toOrion) /\ ObOK(ob, events)
    BY DEF BridgeInv, StoresInv
  <2>2. ObOK(ob', events + 1) /\ ob'.geometry = ob.geometry
    BY <1>1, <2>1 DEF ObOK
  <2>3. FwOK(fw')
    BY <1>1, <2>1, FwEdited
  <2> QED BY <1>1, <2>1, <2>2, <2>3, StoresStep
<1>3. Pending(work, Kept(ob, orion))
  BY EmptyPending, OnePending DEF Upsert, Fits
<1> HIDE DEF work
<1> QED BY <1>1, <1>2, <1>3, ExecBegins DEF BridgeInv

(* New contours are newer than anything kept or stored, and nothing is on  *)
(* its way when they come: the HTTP thread would hold the lock.            *)
LEMMA ContoursStep ==
  ASSUME BridgeInv, ContoursCallback
  PROVE  BridgeInv'
<1> DEFINE work == IF ob.streaming THEN <<Upsert("geometry", events')>> ELSE <<>>
<1>1. /\ events' = events + 1 /\ orion' = orion /\ toOrion' = toOrion /\ fw' = fw
      /\ lock = "free" /\ lock' = lock
      /\ ob' = [ob EXCEPT !.geometry = events']
      /\ Start("exec", work)
  BY DEF ContoursCallback, Event, orionVars
<1>2. events \in Nat /\ FwOK(fw) /\ MapsOK(toOrion) /\ ObOK(ob, events) /\ OrionOK(orion, events)
  BY DEF BridgeInv, StoresInv
<1>3. ObOK(ob', events') /\ ob'.geometry = events' /\ Kept(ob', orion') = events'
  BY <1>1, <1>2 DEF ObOK, Kept
<1>4. OrionOK(orion', events') /\ orion'.geometry <= ob'.geometry
  BY <1>1, <1>2, <1>3 DEF OrionOK
<1>5. StoresInv'
  BY <1>1, <1>2, <1>3, <1>4 DEF StoresInv
<1>6. jobs["http"] = <<>>
  BY <1>1 DEF BridgeInv, WorkInv
<1>7. Pending(work, events')
  BY EmptyPending, OnePending DEF Upsert, Fits
<1> HIDE DEF work
<1> QED BY <1>1, <1>3, <1>5, <1>6, <1>7, ExecBegins DEF BridgeInv

LEMMA SyncStep ==
  ASSUME BridgeInv, HandleSyncRequest
  PROVE  BridgeInv'
<1> DEFINE work == IF ob.geometry = 0 THEN <<>> ELSE <<Upsert("geometry", ob.geometry)>>
<1>1. /\ events' = events /\ orion' = orion /\ toOrion' = toOrion /\ fw' = fw
      /\ ob' = [ob EXCEPT !.streaming = TRUE]
      /\ lock' = IF ob.geometry = 0 THEN "free" ELSE "http"
      /\ Start("http", work)
  BY DEF HandleSyncRequest, orionVars, fwVars
<1>2. StoresInv' /\ Kept(ob', orion') = Kept(ob, orion)
  <2>1. events \in Nat /\ FwOK(fw) /\ MapsOK(toOrion) /\ ObOK(ob, events)
    BY DEF BridgeInv, StoresInv
  <2>2. ObOK(ob', events) /\ ob'.geometry = ob.geometry
    BY <1>1, <2>1 DEF ObOK
  <2> QED BY <1>1, <2>1, <2>2, StoresStep
<1>3. Pending(work, Kept(ob, orion))
  BY EmptyPending, OnePending DEF Upsert, Fits, Kept
<1>4. Threads = {"exec", "http"}
  BY DEF Threads
<1>5. WorkInv /\ Pending(jobs["exec"], Kept(ob, orion))
  BY <1>4 DEF BridgeInv, WorkInv
<1>6. work # <<>> => ob.geometry # 0
  OBVIOUS
<1> HIDE DEF work
<1>7. /\ jobs' = [x \in Threads |-> jobs'[x]]
      /\ req' = [x \in Threads |-> req'[x]]
      /\ \A x \in Threads :
           Pending(jobs'[x], Kept(ob, orion)) /\ ReqOK(req'[x], jobs'[x] # <<>>)
      /\ jobs'["http"] = work
  BY <1>1, <1>3, <1>4, <1>5, StartWork
<1> QED BY <1>1, <1>2, <1>6, <1>7 DEF BridgeInv, WorkInv

LEMMA PushedMaps ==
  ASSUME MapsOK(toOrion), NEW f, FwOK(f)
  PROVE  MapsOK(Pushed(f))
<1> DEFINE S == {toOrion[k] : k \in DOMAIN toOrion} \cup {f.pallets}
<1>1. CASE f.dirty
  <2>1. toOrion \in Seq(S)
    BY SeqMonotonic DEF MapsOK, IsSeq
  <2>2. \A P \in S : P \subseteq Pallets
    BY DEF MapsOK, FwOK
  <2> HIDE DEF S
  <2>3. f.pallets \in S
    BY DEF S
  <2>4. Pushed(f) = Append(toOrion, f.pallets)
    BY <1>1 DEF Pushed
  <2>5. Pushed(f) \in Seq(S)
    BY <2>1, <2>3, <2>4, AppendProperties
  <2>6. \A i \in DOMAIN Pushed(f) : Pushed(f)[i] \in S
    BY <2>5, LenProperties
  <2> QED BY <2>2, <2>5, <2>6, SeqIs DEF MapsOK
<1>2. CASE ~f.dirty
  BY <1>2 DEF Pushed
<1> QED BY <1>1, <1>2

(* Handlers of the C++ node, none of which reaches the Orion bridge but by *)
(* a map or a trigger.                                                     *)
LEMMA FwStep ==
  ASSUME BridgeInv,
         \/ DdsTriggerCallback \/ RepublishGeometryCallback
         \/ GetWarehouseContoursService \/ WaitEnds
  PROVE  BridgeInv'
<1>1. /\ events \in Nat /\ FwOK(fw) /\ MapsOK(toOrion) /\ ObOK(ob, events)
      /\ StoresInv /\ WorkInv
  BY DEF BridgeInv, StoresInv
<1>2. /\ orion' = orion /\ jobs' = jobs /\ req' = req /\ lock' = lock
      /\ events' \in {events, events + 1}
  BY DEF DdsTriggerCallback, RepublishGeometryCallback, Event,
         GetWarehouseContoursService, WaitEnds, orionVars, obVars
<1>3. FwOK(fw') /\ MapsOK(toOrion') /\ ob'.geometry = ob.geometry /\ ObOK(ob', events)
  <2>1. CASE DdsTriggerCallback
    <3>1. ob' = [ob EXCEPT !.trigger = "taken"]
      BY <2>1 DEF DdsTriggerCallback
    <3>2. ObOK(ob', events) /\ ob'.geometry = ob.geometry
      BY <1>1, <3>1 DEF ObOK
    <3> DEFINE dirty == [fw EXCEPT !.dirty = TRUE]
    <3>3. FwOK(dirty) /\ FwOK(PushPalletMap(dirty))
      BY <1>1, FwEdited DEF PushPalletMap
    <3>4. /\ toOrion' = Pushed(dirty)
          /\ \E x : fw' = [PushPalletMap(dirty) EXCEPT !.waiting = x]
      BY <2>1 DEF DdsTriggerCallback
    <3> HIDE DEF dirty
    <3>5. FwOK(fw')
      <4>1. PICK x : fw' = [PushPalletMap(dirty) EXCEPT !.waiting = x]
        BY <3>4
      <4> QED BY <3>3, <4>1, FwEdited
    <3>6. MapsOK(toOrion')
      BY <1>1, <3>3, <3>4, PushedMaps
    <3> QED BY <3>2, <3>5, <3>6
  <2>2. CASE RepublishGeometryCallback
    <3>1. /\ toOrion' = toOrion /\ ob' = ob
          /\ \E x : fw' = [fw EXCEPT !.waiting = x]
      BY <2>2 DEF RepublishGeometryCallback, obVars
    <3>2. PICK x : fw' = [fw EXCEPT !.waiting = x]
      BY <3>1
    <3>3. FwOK(fw')
      BY <1>1, <3>2, FwEdited
    <3> QED BY <1>1, <3>1, <3>3
  <2>3. CASE GetWarehouseContoursService \/ WaitEnds
    <3>1. /\ toOrion' = toOrion /\ ob' = ob
          /\ \E x : fw' = [fw EXCEPT !.waiting = x]
      BY <2>3 DEF GetWarehouseContoursService, WaitEnds, obVars
    <3>2. PICK x : fw' = [fw EXCEPT !.waiting = x]
      BY <3>1
    <3>3. FwOK(fw')
      BY <1>1, <3>2, FwEdited
    <3> QED BY <1>1, <3>1, <3>3
  <2> QED BY <2>1, <2>2, <2>3
<1>4. ObOK(ob', events') /\ events' \in Nat /\ events <= events'
  BY <1>1, <1>2, <1>3 DEF ObOK
<1>5. StoresInv' /\ Kept(ob', orion') = Kept(ob, orion)
  BY <1>2, <1>3, <1>4, StoresStep
<1> QED BY <1>1, <1>2, <1>5 DEF BridgeInv, WorkInv

LEMMA FwMapEdited ==
  ASSUME NEW f, FwOK(f), NEW S, S \subseteq Pallets, NEW x
  PROVE  FwOK([f EXCEPT !.pallets = S, !.dirty = x])
<1> DEFINE e == [f EXCEPT !.pallets = S, !.dirty = x]
<1>1. e = [[f EXCEPT !.pallets = S] EXCEPT !.dirty = x]
  OBVIOUS
<1> HIDE DEF e
<1> DEFINE d == [f EXCEPT !.pallets = S]
<1>2. FwOK(d)
  BY DEF FwOK
<1> HIDE DEF d
<1>3. FwOK([d EXCEPT !.dirty = x])
  BY <1>2, FwEdited
<1>4. FwOK(e)
  BY <1>1, <1>3 DEF d
<1> QED BY <1>4 DEF e

LEMMA ObCleaned ==
  ASSUME NEW o, NEW last, ObOK(o, last), NEW x
  PROVE  LET e == [o EXCEPT !.dirty = x]
         IN  ObOK(e, last) /\ e.geometry = o.geometry
<1> DEFINE e == [o EXCEPT !.dirty = x]
<1>1. e = [pallets |-> o.pallets, dirty |-> x, alert |-> o.alert, geometry |-> o.geometry,
           streaming |-> o.streaming, created |-> o.created, trigger |-> o.trigger]
  BY DEF ObOK
<1> HIDE DEF e
<1>3. ObOK(e, last) /\ e.geometry = o.geometry
  BY <1>1 DEF ObOK
<1> QED BY <1>3 DEF e

LEMMA ObMapEdited ==
  ASSUME NEW o, events \in Nat, ObOK(o, events), NEW S, S \subseteq Pallets, NEW x
  PROVE  LET e == [o EXCEPT !.pallets = S, !.dirty = x]
         IN  ObOK(e, events + 1) /\ e.geometry = o.geometry
<1> DEFINE e == [o EXCEPT !.pallets = S, !.dirty = x]
           d == [o EXCEPT !.pallets = S]
<1>1. e = [[o EXCEPT !.pallets = S] EXCEPT !.dirty = x]
  OBVIOUS
<1> HIDE DEF e
<1>2. o.geometry \in 0..(events + 1)
  BY DEF ObOK
<1>3. ObOK(d, events + 1) /\ d.geometry = o.geometry
  BY <1>2 DEF ObOK
<1> HIDE DEF d
<1>4. ObOK([d EXCEPT !.dirty = x], events + 1) /\ [d EXCEPT !.dirty = x].geometry = d.geometry
  BY <1>3, ObCleaned
<1>5. ObOK(e, events + 1) /\ e.geometry = o.geometry
  BY <1>1, <1>3, <1>4 DEF d
<1> QED BY <1>5 DEF e

LEMMA MapUpdatesStep ==
  ASSUME IsFiniteSet(Pallets), BridgeInv,
         NEW op, NEW id \in Pallets, MapUpdatesCallback(op, id)
  PROVE  BridgeInv'
<1> DEFINE f == [fw EXCEPT !.pallets = Updated(@, op, id), !.dirty = TRUE]
           o == [ob EXCEPT !.pallets = Updated(@, op, id), !.dirty = TRUE]
<1>1. PICK fwDue \in BOOLEAN, obDue \in BOOLEAN :
        /\ fw' = IF fwDue THEN PushPalletMap(f) ELSE f
        /\ toOrion' = IF fwDue THEN Pushed(f) ELSE toOrion
        /\ ob' = IF obDue THEN [o EXCEPT !.dirty = FALSE] ELSE o
        /\ Start("exec", IF obDue THEN PushJob(o) ELSE <<>>)
  BY DEF MapUpdatesCallback
<1>2. events' = events + 1 /\ orion' = orion /\ lock' = lock
  BY DEF MapUpdatesCallback, Event, orionVars
<1>3. events \in Nat /\ FwOK(fw) /\ MapsOK(toOrion) /\ ObOK(ob, events)
  BY DEF BridgeInv, StoresInv
<1>4. \A S : S \subseteq Pallets => Updated(S, op, id) \subseteq Pallets
  BY DEF Updated
<1>5. FwOK(f)
  <2>1. fw.pallets \subseteq Pallets
    BY <1>3 DEF FwOK
  <2> QED BY <1>3, <1>4, <2>1, FwMapEdited
<1>6. ObOK(o, events + 1) /\ o.geometry = ob.geometry
  <2>1. ob.pallets \subseteq Pallets
    BY <1>3 DEF ObOK
  <2> QED BY <1>3, <1>4, <2>1, ObMapEdited
<1> HIDE DEF f, o
<1>7. FwOK(fw') /\ MapsOK(toOrion')
  BY <1>1, <1>3, <1>5, FwEdited, PushedMaps DEF PushPalletMap
<1>8. ObOK(ob', events') /\ ob'.geometry = ob.geometry
  <2>1. ObOK([o EXCEPT !.dirty = FALSE], events + 1) /\ [o EXCEPT !.dirty = FALSE].geometry = ob.geometry
    BY <1>3, <1>6, ObCleaned
  <2> QED BY <1>1, <1>2, <1>6, <2>1
<1>9. StoresInv' /\ Kept(ob', orion') = Kept(ob, orion)
  BY <1>2, <1>3, <1>7, <1>8, StoresStep
<1> DEFINE work == IF obDue THEN PushJob(o) ELSE <<>>
<1>10. Pending(work, Kept(ob, orion))
  BY FiwareAssumption, <1>6, ChunksPending, EmptyPending DEF ObOK, PushJob
<1>11. Start("exec", work)
  BY <1>1
<1> HIDE DEF work
<1> QED BY <1>2, <1>9, <1>10, <1>11, ExecBegins DEF BridgeInv

LEMMA FullMapStep ==
  ASSUME IsFiniteSet(Pallets), BridgeInv,
         FiwareMapObstaclesCallback
  PROVE  BridgeInv'
<1> DEFINE work == ChunkJob(Head(toOrion))
<1>1. /\ toOrion # <<>> /\ toOrion' = Tail(toOrion)
      /\ events' = events /\ fw' = fw /\ ob' = ob /\ orion' = orion /\ lock' = lock
      /\ Start("exec", work)
  BY DEF FiwareMapObstaclesCallback, orionVars
<1> HIDE DEF work
<1>2. events \in Nat /\ FwOK(fw) /\ MapsOK(toOrion) /\ ObOK(ob, events)
  BY DEF BridgeInv, StoresInv
<1>3. Head(toOrion) \subseteq Pallets /\ MapsOK(Tail(toOrion))
  <2> DEFINE S == {toOrion[k] : k \in DOMAIN toOrion}
  <2>1. toOrion \in Seq(S) /\ \A P \in S : P \subseteq Pallets
    BY <1>2 DEF MapsOK, IsSeq
  <2> HIDE DEF S
  <2>2. Head(toOrion) \in S /\ Tail(toOrion) \in Seq(S)
    BY <1>1, <2>1, HeadTailProperties
  <2>3. \A i \in DOMAIN Tail(toOrion) : Tail(toOrion)[i] \in S
    BY <2>2, LenProperties
  <2> QED BY <2>1, <2>2, <2>3, SeqIs DEF MapsOK
<1>4. StoresInv' /\ Kept(ob', orion') = Kept(ob, orion)
  BY <1>1, <1>2, <1>3, StoresStep
<1>5. Pending(work, Kept(ob, orion))
  BY FiwareAssumption, <1>3, ChunksPending DEF work
<1> QED BY <1>1, <1>4, <1>5, ExecBegins DEF BridgeInv

(* The lock of the HTTP thread ends with its work.                          *)
LEMMA RequestLock ==
  ASSUME WorkInv, NEW t \in Threads, lock' = Unlocked(t), jobs[t] # <<>>,
         \A x \in Threads \ {t} : jobs'[x] = jobs[x]
  PROVE  jobs'["http"] # <<>> => lock' = "http"
<1>1. "http" \in Threads
  BY DEF Threads
<1> QED BY <1>1 DEF WorkInv, Unlocked

(* A request, answered or failed, makes the stored geometry the kept one   *)
(* or leaves it.                                                           *)
LEMMA AnsweredStep ==
  ASSUME BridgeInv, NEW t \in Threads, RequestAnswered(t)
  PROVE  BridgeInv' /\ orion'.geometry >= orion.geometry
<1> DEFINE kind == req[t].kind
           u == Head(jobs[t])
<1>1. /\ jobs[t] # <<>>
      /\ orion' = Effect(kind, u)
      /\ ob' = [ob EXCEPT !.created = @ \/ kind = "create"]
      /\ Advance(t, kind, HasAttr(u))
      /\ lock' = Unlocked(t)
      /\ events' = events /\ fw' = fw /\ toOrion' = toOrion
  BY DEF RequestAnswered, Busy, fwVars
<1>2. kind \in {"create", "patch", "post"} /\ Fits(u, Kept(ob, orion))
  BY <1>1, TailPending DEF BridgeInv, WorkInv, ReqOK
<1> HIDE DEF kind, u
<1>3. StoresInv /\ WorkInv
  BY DEF BridgeInv
<1>4. /\ OrionOK(orion', events) /\ orion'.geometry >= orion.geometry
      /\ ob.geometry = 0 \/ orion'.geometry <= ob.geometry
      /\ Kept(ob, orion') = Kept(ob, orion)
  BY <1>1, <1>2, <1>3, EffectKeeps
<1>5. ObOK(ob', events) /\ ob'.geometry = ob.geometry
  BY <1>1, <1>3 DEF StoresInv, ObOK
<1>6. StoresInv' /\ Kept(ob', orion') = Kept(ob, orion)
  BY <1>1, <1>3, <1>4, <1>5 DEF StoresInv, Kept
<1>7. WorkInv'
  <2>1. /\ jobs' = [x \in Threads |-> jobs'[x]] /\ req' = [x \in Threads |-> req'[x]]
        /\ \A x \in Threads :
             Pending(jobs'[x], Kept(ob, orion)) /\ ReqOK(req'[x], jobs'[x] # <<>>)
        /\ \A x \in Threads \ {t} : jobs'[x] = jobs[x]
    BY <1>1, <1>2, <1>3, AdvanceWork
  <2>2. jobs'["http"] # <<>> => lock' = "http"
    BY <1>1, <1>3, <2>1, RequestLock
  <2> QED BY <1>6, <2>1, <2>2 DEF WorkInv
<1> QED BY <1>4, <1>6, <1>7 DEF BridgeInv

LEMMA FailsStep ==
  ASSUME BridgeInv, NEW t \in Threads, RequestFails(t)
  PROVE  BridgeInv' /\ orion'.geometry >= orion.geometry
<1> DEFINE kind == req[t].kind
           u == Head(jobs[t])
           again == [req EXCEPT ![t].tries = @ + 1]
<1>1. /\ jobs[t] # <<>>
      /\ orion' \in {orion, Effect(kind, u)}
      /\ ob' = ob
      /\ \/ req' = again /\ jobs' = jobs
         \/ Advance(t, kind, TRUE)
      /\ lock' = Unlocked(t)
      /\ events' = events /\ fw' = fw /\ toOrion' = toOrion
  BY DEF RequestFails, Busy, fwVars
<1>2. kind \in {"create", "patch", "post"} /\ Fits(u, Kept(ob, orion))
  BY <1>1, TailPending DEF BridgeInv, WorkInv, ReqOK
<1>3. StoresInv /\ WorkInv
  BY DEF BridgeInv
<1> HIDE DEF kind, u
<1>4. /\ OrionOK(orion', events) /\ orion'.geometry >= orion.geometry
      /\ ob.geometry = 0 \/ orion'.geometry <= ob.geometry
      /\ Kept(ob, orion') = Kept(ob, orion)
  BY <1>1, <1>2, <1>3, EffectKeeps
<1>5. StoresInv' /\ Kept(ob', orion') = Kept(ob, orion)
  BY <1>1, <1>3, <1>4 DEF StoresInv
<1>6. CASE req' = again /\ jobs' = jobs
  <2>1. /\ again = [x \in Threads |-> again[x]]
        /\ again[t] = [req[t] EXCEPT !.tries = @ + 1]
        /\ \A x \in Threads \ {t} : again[x] = req[x]
    BY <1>3 DEF WorkInv
  <2>2. ReqOK(req[t], TRUE)
    BY <1>1, <1>3 DEF WorkInv, ReqOK
  <2>3. ReqOK(again[t], TRUE)
    BY <2>1, <2>2 DEF ReqOK
  <2> HIDE DEF again
  <2>4. \A x \in Threads : ReqOK(req'[x], jobs'[x] # <<>>)
    BY <1>3, <1>6, <2>1, <2>3 DEF WorkInv, ReqOK
  <2>5. req' = [x \in Threads |-> req'[x]]
    BY <1>6, <2>1
  <2>6. WorkInv'
    BY <1>1, <1>3, <1>5, <1>6, <2>4, <2>5, RequestLock DEF WorkInv
  <2> QED BY <1>4, <1>5, <2>6 DEF BridgeInv
<1>7. CASE Advance(t, kind, TRUE)
  <2>1. WorkInv'
    <3>1. /\ jobs' = [x \in Threads |-> jobs'[x]] /\ req' = [x \in Threads |-> req'[x]]
          /\ \A x \in Threads :
               Pending(jobs'[x], Kept(ob, orion)) /\ ReqOK(req'[x], jobs'[x] # <<>>)
          /\ \A x \in Threads \ {t} : jobs'[x] = jobs[x]
      BY <1>1, <1>2, <1>3, <1>7, AdvanceWork
    <3>2. jobs'["http"] # <<>> => lock' = "http"
      BY <1>1, <1>3, <3>1, RequestLock
    <3> QED BY <1>5, <3>1, <3>2 DEF WorkInv
  <2> QED BY <1>4, <1>5, <2>1 DEF BridgeInv
<1> QED BY <1>1, <1>6, <1>7

LEMMA RestartStep ==
  ASSUME IsFiniteSet(Pallets), BridgeInv, Restart
  PROVE  BridgeInv'
<1>0. PICK read \in {orion.exists, FALSE} :
        /\ ob' = [NewBridge EXCEPT !.created = read]
        /\ jobs' = [t \in Threads |-> IF t = "exec" THEN InitialSync(read) ELSE <<>>]
        /\ req' = [t \in Threads |->
                     IF t = "exec" THEN FirstRequest(InitialSync(read), read) ELSE NoReq]
  BY DEF Restart
<1> DEFINE work == InitialSync(read)
<1>1. /\ ob' = [NewBridge EXCEPT !.created = read]
      /\ jobs' = [t \in Threads |-> IF t = "exec" THEN work ELSE <<>>]
      /\ req' = [t \in Threads |-> IF t = "exec" THEN FirstRequest(work, read) ELSE NoReq]
      /\ toOrion' = IF toOrion = <<>> THEN <<>> ELSE <<Last(toOrion)>>
      /\ events' = events /\ fw' = fw /\ orion' = orion
  BY <1>0 DEF Restart, orionVars
<1>2. events \in Nat /\ FwOK(fw) /\ MapsOK(toOrion) /\ OrionOK(orion, events)
  BY DEF BridgeInv, StoresInv
<1>3. /\ ObOK(ob', events) /\ ob'.geometry = 0
  <2>1. ob' = [pallets |-> {}, dirty |-> FALSE, alert |-> "none", geometry |-> 0,
               streaming |-> ~BufferMap, created |-> read, trigger |-> "no"]
    BY <1>1 DEF NewBridge
  <2> QED BY <1>2, <2>1 DEF ObOK
<1>4. MapsOK(toOrion')
  <2> DEFINE S == {toOrion[k] : k \in DOMAIN toOrion}
  <2>1. toOrion \in Seq(S) /\ \A P \in S : P \subseteq Pallets
    BY <1>2 DEF MapsOK, IsSeq
  <2> HIDE DEF S
  <2>2. CASE toOrion = <<>>
    BY <1>1, <1>2, <2>2
  <2>3. CASE toOrion # <<>>
    <3> DEFINE P == Last(toOrion)
    <3>1. P \in S
      <4>1. Len(toOrion) \in 1..Len(toOrion)
        BY <2>1, <2>3, EmptySeq
      <4> QED BY <2>1, <4>1, ElementOfSeq DEF Last
    <3>2. toOrion' = <<P>>
      BY <1>1, <2>3
    <3> HIDE DEF P
    <3>3. toOrion' \in Seq({P}) /\ DOMAIN toOrion' = 1..1 /\ toOrion'[1] = P
      BY <3>2
    <3>4. \A i \in 1..1 : i = 1
      OBVIOUS
    <3>5. IsSeq(toOrion')
      BY <3>3, SeqIs
    <3> QED BY <2>1, <3>1, <3>3, <3>4, <3>5 DEF MapsOK
  <2> QED BY <2>2, <2>3
<1>5. Kept(ob', orion') = orion.geometry
  BY <1>1, <1>3 DEF Kept
<1>6. StoresInv'
  BY <1>1, <1>2, <1>3, <1>4 DEF StoresInv
<1>7. Pending(work, orion.geometry)
  <2> DEFINE g == orion.geometry
             geometry == IF orion.geometry = 0 THEN <<>> ELSE <<Upsert("geometry", orion.geometry)>>
             warning == <<Upsert("alert", orion.alert)>>
             chunks == ChunkJob(UNION Range(orion.chunks))
  <2>1. Pending(geometry, g) /\ Pending(warning, g) /\ Pending(Stream, g)
    BY EmptyPending, OnePending DEF Upsert, Stream, Fits
  <2>2. UNION Range(orion.chunks) \subseteq Pallets
    BY <1>2 DEF OrionOK, Range
  <2>3. Pending(chunks, g)
    BY FiwareAssumption, <2>2, ChunksPending
  <2>4. work = IF ~read THEN <<>> ELSE geometry \o warning \o Stream \o chunks
    BY DEF InitialSync
  <2> HIDE DEF work, geometry, warning, chunks
  <2>5. Pending(geometry \o warning, g)
    BY <2>1, ConcatPending
  <2>6. Pending(geometry \o warning \o Stream, g)
    BY <2>1, <2>5, ConcatPending
  <2>7. Pending(geometry \o warning \o Stream \o chunks, g)
    BY <2>3, <2>6, ConcatPending
  <2> QED BY <2>4, <2>7, EmptyPending
<1> HIDE DEF work
<1>8. "http" # "exec" /\ "http" \in Threads
  BY DEF Threads
<1>9. \A t \in Threads : ReqOK(req'[t], jobs'[t] # <<>>)
  <2>1. ReqOK(FirstRequest(work, read), work # <<>>) /\ ReqOK(NoReq, FALSE)
    BY DEF ReqOK, FirstRequest, NoReq
  <2> QED BY <1>1, <2>1
<1>10. \A t \in Threads : Pending(jobs'[t], Kept(ob', orion'))
  BY <1>1, <1>5, <1>7, EmptyPending
<1>11. WorkInv'
  BY <1>1, <1>8, <1>9, <1>10 DEF WorkInv
<1> QED BY <1>6, <1>11 DEF BridgeInv

LEMMA BridgeStep ==
  ASSUME IsFiniteSet(Pallets), BridgeInv, [FiwareNext]_fiwareVars
  PROVE  BridgeInv' /\ orion'.geometry >= orion.geometry
<1>0. orion.geometry \in Nat
  BY DEF BridgeInv, StoresInv, OrionOK
<1>1. CASE UNCHANGED fiwareVars
  BY <1>0, <1>1 DEF fiwareVars, fwVars, obVars, orionVars,
                    BridgeInv, StoresInv, WorkInv
<1>2. CASE orion' = orion /\ BridgeInv'
  BY <1>0, <1>2
<1>3. CASE \/ ReportCallback \/ OdomCallback \/ TfPositionCallback
           \/ DiagCallback \/ HeatmapCallback \/ ValidationResultCallback
           \/ \E b \in BOOLEAN : ReadyCallback(b)
  <2>1. orion' = orion
    BY <1>3 DEF ReportCallback, OdomCallback, TfPositionCallback,
                DiagCallback, HeatmapCallback, ValidationResultCallback,
                ReadyCallback, Relay, orionVars
  <2> QED BY <1>2, <1>3, <2>1, StreamStep
<1>4. ASSUME NEW b \in BOOLEAN, AlertCallback(b)
      PROVE  BridgeInv' /\ orion'.geometry >= orion.geometry
  BY <1>2, <1>4, AlertStep DEF AlertCallback, orionVars
<1>5. CASE ContoursCallback
  BY <1>2, <1>5, ContoursStep DEF ContoursCallback, orionVars
<1>6. ASSUME NEW op \in {"INSERT", "DELETE"}, NEW id \in Pallets, MapUpdatesCallback(op, id)
      PROVE  BridgeInv' /\ orion'.geometry >= orion.geometry
  BY <1>2, <1>6, MapUpdatesStep DEF MapUpdatesCallback, orionVars
<1>7. CASE \/ DdsTriggerCallback \/ RepublishGeometryCallback
           \/ GetWarehouseContoursService \/ WaitEnds
  <2>1. orion' = orion
    BY <1>7 DEF DdsTriggerCallback, RepublishGeometryCallback,
                GetWarehouseContoursService, WaitEnds, orionVars
  <2> QED BY <1>2, <1>7, <2>1, FwStep
<1>8. CASE HandleSyncRequest
  BY <1>2, <1>8, SyncStep DEF HandleSyncRequest, orionVars
<1>9. CASE SendFiwareTrigger
  <2>1. /\ ob' = [ob EXCEPT !.trigger = "sent"]
        /\ UNCHANGED <<events, fw, toOrion, orion, jobs, req, lock>>
    BY <1>9 DEF SendFiwareTrigger, fwVars, orionVars
  <2>2. events \in Nat /\ FwOK(fw) /\ MapsOK(toOrion) /\ ObOK(ob, events)
    BY DEF BridgeInv, StoresInv
  <2>3. ObOK(ob', events) /\ ob'.geometry = ob.geometry
    BY <2>1, <2>2 DEF ObOK
  <2>4. StoresInv' /\ Kept(ob', orion') = Kept(ob, orion)
    BY <2>1, <2>2, <2>3, StoresStep
  <2> QED BY <1>2, <2>1, <2>4 DEF BridgeInv, WorkInv
<1>10. CASE FiwareMapObstaclesCallback
  BY <1>2, <1>10, FullMapStep DEF FiwareMapObstaclesCallback, orionVars
<1>11. ASSUME NEW t \in Threads, RequestAnswered(t) \/ RequestFails(t)
       PROVE  BridgeInv' /\ orion'.geometry >= orion.geometry
  BY <1>11, AnsweredStep, FailsStep
<1>12. CASE Restart
  BY <1>2, <1>12, RestartStep DEF Restart, orionVars
<1>13. CASE DoPOST
  <2>1. UNCHANGED <<events, fw, toOrion, ob, orion, jobs, req, lock>>
    BY <1>13 DEF DoPOST, fwVars, obVars
  <2> QED BY <1>0, <2>1 DEF BridgeInv, StoresInv, WorkInv
<1> QED BY <1>1, <1>3, <1>4, <1>5, <1>6, <1>7, <1>8, <1>9, <1>10, <1>11, <1>12, <1>13
        DEF FiwareNext

(* The geometry in Orion-LD never gets older, however the executor and the *)
(* HTTP server interleave, requests fail and are repeated and the bridge   *)
(* is restarted: _handle_sync_request pushes under the lock that           *)
(* _contours_callback needs.                                               *)
THEOREM GeometryOnlyAdvances ==
  ASSUME IsFiniteSet(Pallets)
  PROVE  FiwareSpec => GeometryNeverOlder
<1>1. FiwareInit => BridgeInv
  BY BridgeInit
<1>2. BridgeInv /\ [FiwareNext]_fiwareVars => BridgeInv'
  BY BridgeStep
<1>3. BridgeInv /\ [FiwareNext]_fiwareVars
      => [orion'.geometry >= orion.geometry]_fiwareVars
  BY BridgeStep
<1> QED BY <1>1, <1>2, <1>3, PTL DEF FiwareSpec, GeometryNeverOlder
=============================================================================
