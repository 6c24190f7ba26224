---------------------------- MODULE GeofenceNode ----------------------------
(***************************************************************************)
(* The spatial geofence node: the lifecycle skeleton and the callbacks of  *)
(* lifecycle_geofence_node_base.cpp, the hooks and services of             *)
(* geofencing_node.cpp and the update messages of map_update_handler.cpp.  *)
(*                                                                         *)
(* The node runs in a multi-threaded container.  Transitions, the timer    *)
(* that drives them, map updates and services share the default, mutually  *)
(* exclusive callback group: what they do in several steps is in job.      *)
(* Scans are handled in a reentrant group, several at a time and beside    *)
(* whatever the default group is doing.                                    *)
(*                                                                         *)
(* The map is what a scan and a service can see of it.  Its operations are *)
(* in GeofenceMap; each of them is one atomic replacement (SnapshotStore). *)
(***************************************************************************)
EXTENDS Naturals, Sequences, FiniteSets

CONSTANTS
  Scans,         \* threads that may run obstaclesCallback at the same time
  Ids,           \* ids of obstacles
  Areas,         \* ids of areas
  FileIds,       \* obstacles in obstacles_json_file, {} when none is configured
  ContoursFile,  \* TRUE when contours_json_file is configured
  MaxUpdates,    \* kMaxUpdatesPerMessage
  AutoActivate,  \* the parameter auto_activate
  None           \* no map, no message

ASSUME NodeAssumption ==
  /\ FileIds \subseteq Ids
  /\ ContoursFile \in BOOLEAN /\ AutoActivate \in BOOLEAN
  /\ MaxUpdates \in Nat
  /\ None \notin [obs : SUBSET Ids, areas : SUBSET Areas, locked : SUBSET Areas, contours : BOOLEAN]

VARIABLES
  lc,         \* the lifecycle state
  lastState,  \* last_transition_state_
  timer,      \* TRUE while auto_transition_timer_ runs
  pointsOnly, \* process_points_only; FALSE when whole shapes are matched
  params,     \* TRUE when the parameters on the node's parameter server are valid
  cfg,        \* TRUE when the copy cfg_ read by the constructor is valid
  publishing, \* TRUE while the publishers are activated
  wired,      \* TRUE while subscriptions, services, publishers and report builder exist
  map,        \* *geofence_map_
  job,        \* what the default callback group is in the middle of
  scan,       \* the scans being handled
  scene,      \* the obstacles that are really there
  pose,       \* TRUE when the position of the robot is known to TF
  robots,     \* the obstacles inside the footprint of a robot whose pose is fresh
  alert,      \* last message on obstacle_alert
  cleaned,    \* TRUE once on_cleanup has run
  fault       \* "none", or why the process is gone

lifeVars  == <<lc, lastState, timer, pointsOnly, params, cfg, publishing, cleaned>>
worldVars == <<scene, pose, robots>>
vars == <<lifeVars, worldVars, wired, map, job, scan, alert, fault>>

Idle == [kind |-> "idle"]

(* An update message: a non-empty array of single operations.              *)
Ops == [op : {"insert", "delete"}, id : Ids]
Messages == UNION {[1..n -> Ops] : n \in 1..(MaxUpdates + 1)}

EmptyMap == [obs |-> {}, areas |-> {}, locked |-> {}, contours |-> FALSE]

NoScan == [pc |-> "idle", seen |-> {}]

Up == fault = "none"

Init ==
  /\ lc = "unconfigured"
  /\ lastState = "none"
  /\ timer = AutoActivate
  /\ pointsOnly \in BOOLEAN
  /\ params \in BOOLEAN
  /\ cfg = params
  /\ publishing = FALSE
  /\ wired = FALSE
  /\ map = EmptyMap
  /\ job = Idle
  /\ scan = [s \in Scans |-> NoScan]
  /\ scene = {}
  /\ pose = TRUE
  /\ robots = {}
  /\ alert = FALSE
  /\ cleaned = FALSE
  /\ fault = "none"

-----------------------------------------------------------------------------
(* Transitions.                                                            *)

(* loadObstaclesFromJson, then loadContoursFromJson: what is loaded before *)
(* a failure stays.  ok says whether the files can be read.                *)
LoadedObstacles(ok) ==
  IF FileIds # {} /\ map # None /\ ok.obstacles
    THEN [map EXCEPT !.obs = @ \cup FileIds] ELSE map

Loaded(ok) ==
  IF ContoursFile /\ LoadedObstacles(ok) # None /\ ok.contours
    THEN [LoadedObstacles(ok) EXCEPT !.contours = TRUE] ELSE LoadedObstacles(ok)

ObstaclesLoad(ok) == FileIds # {} => map # None /\ ok.obstacles
ContoursLoad(ok) == ContoursFile => map # None /\ ok.contours

(* The spatial node adds its report builder and its query services.        *)
OnConfigureExtra == wired' = TRUE

OnConfigure ==
  /\ IF cfg THEN lc' = "inactive" /\ OnConfigureExtra
            ELSE UNCHANGED <<lc, wired>>
  /\ UNCHANGED <<publishing, map, cleaned>>

(* Faulty variant: contours that cannot be read are only logged.           *)
OnActivateNoContours(ok) ==
  /\ cfg /\ ObstaclesLoad(ok)
  /\ map' = Loaded(ok)
  /\ lc' = "active" /\ publishing' = TRUE
  /\ UNCHANGED <<wired, cleaned>>

(* An invalid transform matrix fails here and other invalid parameters in  *)
(* configure; cfg stands for both.  The last step of a successful          *)
(* activation is publishReadySignal.                                       *)
OnActivate(ok) ==
  /\ \/ /\ ~cfg \/ ~ObstaclesLoad(ok)
        /\ UNCHANGED <<lc, publishing, map>>
     \/ /\ cfg /\ ObstaclesLoad(ok)
        /\ map' = Loaded(ok)
        /\ IF ContoursLoad(ok) THEN lc' = "active" /\ publishing' = TRUE
                               ELSE UNCHANGED <<lc, publishing>>
  /\ UNCHANGED <<wired, cleaned>>

(* Faulty variant: the backend is dropped on deactivation.                 *)
OnDeactivateResets ==
  /\ lc' = "inactive" /\ publishing' = FALSE
  /\ map' = None
  /\ UNCHANGED <<wired, cleaned>>

OnDeactivate ==
  /\ lc' = "inactive" /\ publishing' = FALSE
  /\ UNCHANGED <<wired, map, cleaned>>

(* resetBackend drops the map; only the constructor makes one.             *)
OnCleanup ==
  /\ lc' = "unconfigured" /\ publishing' = FALSE
  /\ wired' = FALSE
  /\ map' = None
  /\ cleaned' = TRUE

(* on_shutdown is the default: nothing is torn down, and what is there     *)
(* goes on handling scans and requests.                                    *)
OnShutdown ==
  /\ lc' = "finalized"
  /\ UNCHANGED <<publishing, wired, map, cleaned>>

Files == [obstacles : BOOLEAN, contours : BOOLEAN]

(* A transition the state machine allows, requested by an operator.        *)
Request ==
  /\ \/ lc = "unconfigured" /\ OnConfigure
     \/ lc = "inactive" /\ \E ok \in Files : OnActivate(ok)
     \/ lc = "active" /\ OnDeactivate
     \/ lc = "inactive" /\ OnCleanup
     \/ lc # "finalized" /\ OnShutdown
  /\ UNCHANGED <<lastState, timer>>

(* auto_transition: each state is acted on once.                           *)
AutoTransition ==
  /\ timer
  /\ lc # lastState
  /\ lastState' = lc
  /\ \/ lc = "unconfigured" /\ OnConfigure /\ timer' = timer
     \/ lc = "inactive" /\ (\E ok \in Files : OnActivate(ok)) /\ timer' = timer
     \/ /\ lc \in {"active", "finalized"} /\ timer' = (lc = "finalized")
        /\ UNCHANGED <<lc, publishing, wired, map, cleaned>>

Transition ==
  /\ Up /\ job = Idle
  /\ Request \/ AutoTransition
  /\ UNCHANGED <<pointsOnly, params, cfg, worldVars, job, scan, alert, fault>>

(* An operator corrects the parameters.  The constructor's copy stays.     *)
SetParameters ==
  /\ ~params
  /\ params' = TRUE
  /\ UNCHANGED <<lc, lastState, timer, pointsOnly, cfg, publishing, cleaned, worldVars,
                 wired, map, job, scan, alert, fault>>

-----------------------------------------------------------------------------
(* Map updates and services, one at a time.                                *)

CanServe == Up /\ wired /\ job = Idle

(* applyUpdates refuses a message that is too long as a whole.             *)
ApplyUpdates(msg) ==
  job' = IF Len(msg) <= MaxUpdates THEN [kind |-> "updates", rest |-> msg] ELSE job

(* Without a map the message is ignored.                                   *)
UpdatesCallback(msg) ==
  /\ CanServe /\ map # None
  /\ ApplyUpdates(msg)
  /\ UNCHANGED <<lifeVars, worldVars, wired, map, scan, alert, fault>>

(* Without a map the request is refused.                                   *)
UpdateMapService(msg) ==
  /\ CanServe /\ map # None
  /\ ApplyUpdates(msg)
  /\ UNCHANGED <<lifeVars, worldVars, wired, map, scan, alert, fault>>

(* One turn of the loop of applyUpdates.  insertObstacle and               *)
(* removeObstacle publish a snapshot each.                                 *)
ApplyUpdate ==
  /\ Up /\ job.kind = "updates"
  /\ LET u == Head(job.rest) IN
       map' = [map EXCEPT !.obs = IF u.op = "insert" THEN @ \cup {u.id} ELSE @ \ {u.id}]
  /\ job' = IF Len(job.rest) = 1 THEN Idle ELSE [job EXCEPT !.rest = Tail(@)]
  /\ UNCHANGED <<lifeVars, worldVars, wired, scan, alert, fault>>

(* insertObstacle throws for an invalid obstacle and removeObstacle for a  *)
(* negative id; nothing catches it, so the container ends with the rest of *)
(* the message not applied.                                                *)
ApplyUpdateThrows ==
  /\ Up /\ job.kind = "updates"
  /\ fault' = "exception"
  /\ UNCHANGED <<lifeVars, worldVars, wired, map, job, scan, alert>>

(* areaStateService: to lock is to register and then to lock.              *)
AreaStateService(a, lock) ==
  /\ CanServe /\ map # None
  /\ IF lock
       THEN /\ map' = [map EXCEPT !.areas = @ \cup {a}]
            /\ job' = [kind |-> "lock", area |-> a]
       ELSE /\ map' = [map EXCEPT !.locked = @ \ {a}]
            /\ job' = job
  /\ UNCHANGED <<lifeVars, worldVars, wired, scan, alert, fault>>

(* A negative id throws, and so do corners that are not finite or in the   *)
(* wrong order (registerArea, unlockArea); nothing catches it.             *)
AreaStateServiceThrows ==
  /\ CanServe /\ map # None
  /\ fault' = "exception"
  /\ UNCHANGED <<lifeVars, worldVars, wired, map, job, scan, alert>>

LockRegistered ==
  /\ Up /\ job.kind = "lock"
  /\ map' = [map EXCEPT !.locked = @ \cup {job.area}]
  /\ job' = Idle
  /\ UNCHANGED <<lifeVars, worldVars, wired, scan, alert, fault>>

SetContours == map' = [map EXCEPT !.contours = TRUE]

MapBoundaryCallback ==
  /\ CanServe /\ map # None
  /\ SetContours
  /\ UNCHANGED <<lifeVars, worldVars, wired, job, scan, alert, fault>>

(* A layout without segments is refused like one without a map.            *)
UpdateWarehouseLayoutService(segments) ==
  /\ CanServe /\ map # None /\ segments > 0
  /\ SetContours
  /\ UNCHANGED <<lifeVars, worldVars, wired, job, scan, alert, fault>>

(* validatePathService passes *geofence_map_ on without a test of the      *)
(* pointer; with a map the answer is PathSafety's and nothing changes.     *)
ValidatePathService ==
  /\ CanServe
  /\ fault' = IF map = None THEN "null map" ELSE fault
  /\ UNCHANGED <<lifeVars, worldVars, wired, map, job, scan, alert>>

(* getAreaStateService looks the id up among the ids of obstacles.         *)
GetAreaState(a) ==
  IF map # None /\ a \in map.obs
    THEN [found |-> TRUE, locked |-> a \in map.locked]
    ELSE [found |-> FALSE, locked |-> FALSE]

-----------------------------------------------------------------------------
(* Scans.                                                                  *)

(* getRobotPosition: the transform at the scan's time, or the latest one.  *)
GetRobotPosition == pose

(* obstaclesCallback up to its call of matchScan.                          *)
ObstaclesCallback(s) ==
  /\ Up /\ wired
  /\ scan[s].pc = "idle"
  /\ map # None
  /\ GetRobotPosition
  /\ scan' = [scan EXCEPT ![s] = [pc |-> "match", seen |-> scene]]
  /\ UNCHANGED <<lifeVars, worldVars, wired, map, job, alert, fault>>

(* getMatchingRobotId: the obstacle is a robot that reported its pose.     *)
IsRobot(o) == o \in robots

(* A whole obstacle is looked up unless it is another robot.               *)
UnmatchedShapes(seen) == {o \in seen : ~IsRobot(o) /\ o \notin map.obs}

(* Of an obstacle whose points are looked up one by one the robots hide    *)
(* nothing.                                                                *)
Unmatched(seen) == IF pointsOnly THEN seen \ map.obs ELSE UnmatchedShapes(seen)

(* matchScan: what the map does not know.                                  *)
MatchScan(s) ==
  /\ Up /\ scan[s].pc = "match"
  /\ IF map = None
       THEN fault' = "null map" /\ UNCHANGED scan
       ELSE /\ scan' = [scan EXCEPT ![s] = [pc |-> "alert", seen |-> Unmatched(@.seen)]]
            /\ UNCHANGED fault
  /\ UNCHANGED <<lifeVars, worldVars, wired, map, job, alert>>

(* Faulty variant: the alert is published only when something is there.    *)
PublishAlertOnlyTrue(s) ==
  /\ Up /\ scan[s].pc = "alert"
  /\ alert' = (alert \/ (scan[s].seen # {} /\ publishing))
  /\ scan' = [scan EXCEPT ![s] = IF wired /\ pointsOnly THEN [pc |-> "report", seen |-> {}] ELSE NoScan]
  /\ UNCHANGED <<lifeVars, worldVars, wired, map, job, fault>>

(* The alert, true or false, once per scan; an inactive publisher drops    *)
(* it.  Then the report builder is looked for; shapes have no report.      *)
PublishAlert(s) ==
  /\ Up /\ scan[s].pc = "alert"
  /\ alert' = IF publishing THEN scan[s].seen # {} ELSE alert
  /\ scan' = [scan EXCEPT ![s] = IF wired /\ pointsOnly THEN [pc |-> "report", seen |-> {}] ELSE NoScan]
  /\ UNCHANGED <<lifeVars, worldVars, wired, map, job, fault>>

(* The report, on the builder found before (its content: ObstacleReports). *)
PublishReport(s) ==
  /\ Up /\ scan[s].pc = "report"
  /\ fault' = IF wired THEN fault ELSE "freed builder"
  /\ scan' = [scan EXCEPT ![s] = NoScan]
  /\ UNCHANGED <<lifeVars, worldVars, wired, map, job, alert>>

(* The world: obstacles come and go, TF loses and finds the robot.         *)
SceneChanges ==
  /\ Up
  /\ \/ scene' \in SUBSET Ids /\ scene' # scene /\ UNCHANGED pose
     \/ pose' = ~pose /\ UNCHANGED scene
  /\ UNCHANGED <<robots, lifeVars, wired, map, job, scan, alert, fault>>

(* A registered robot reports its pose.  Only the matching of shapes asks  *)
(* for it.                                                                 *)
RobotPoseCallback(inside) ==
  /\ Up /\ wired /\ ~pointsOnly
  /\ robots' = inside
  /\ UNCHANGED <<scene, pose, lifeVars, wired, map, job, scan, alert, fault>>

(* isPoseValid: max_pose_age_ms have passed since the pose was stamped.    *)
PoseAges ==
  /\ Up /\ robots # {}
  /\ robots' = {}
  /\ UNCHANGED <<scene, pose, lifeVars, wired, map, job, scan, alert, fault>>

Handle(s) == MatchScan(s) \/ PublishAlert(s) \/ PublishReport(s)

Service ==
  \/ \E msg \in Messages : UpdatesCallback(msg) \/ UpdateMapService(msg)
  \/ ApplyUpdate
  \/ ApplyUpdateThrows
  \/ \E a \in Areas, lock \in BOOLEAN : AreaStateService(a, lock)
  \/ AreaStateServiceThrows
  \/ LockRegistered
  \/ MapBoundaryCallback
  \/ \E segments \in 0..1 : UpdateWarehouseLayoutService(segments)
  \/ ValidatePathService

Next ==
  \/ Transition
  \/ SetParameters
  \/ Service
  \/ \E s \in Scans : ObstaclesCallback(s) \/ Handle(s)
  \/ SceneChanges
  \/ \E inside \in SUBSET Ids : RobotPoseCallback(inside)
  \/ PoseAges

(* The sensor keeps sending scans and the executor keeps running           *)
(* callbacks.  The timer competes with services for the default group; the *)
(* executor looks for ready timers first, so it is not passed over for     *)
(* ever.                                                                   *)
Fairness ==
  /\ \A s \in Scans : WF_vars(ObstaclesCallback(s)) /\ WF_vars(Handle(s))
  /\ SF_vars(Transition /\ AutoTransition)
  /\ WF_vars(ApplyUpdate \/ LockRegistered)

Spec == Init /\ [][Next]_vars /\ Fairness

-----------------------------------------------------------------------------
(* A node becomes active, and sends its ready signal, only with everything *)
(* the configured files name in its map, through failed activations,       *)
(* retries and cleanups.                                                   *)
ReadyMeansLoaded ==
  [][lc # "active" /\ lc' = "active" =>
       /\ FileIds # {} => map' # None /\ FileIds \subseteq map'.obs
       /\ ContoursFile => map' # None /\ map'.contours]_vars

(* No callback, service or scan uses a map or a report builder that does   *)
(* not exist unless an operator has cleaned the node up: failed            *)
(* transitions and deactivation leave every pointer usable.                *)
PointersLastUntilCleanup ==
  fault \in {"null map", "freed builder"} => cleaned

(* An alert does not latch: when from some time on the node stays active,  *)
(* the robot's position is known, and the scene no longer changes and is   *)
(* known to the map, the alert is eventually false for good, whatever      *)
(* scans were in flight and in whatever order they publish.                *)
AlertClears ==
  \A S \in SUBSET Ids :
    <>[](Up /\ lc = "active" /\ pose /\ scene = S /\ S \subseteq map.obs) => <>[](~alert)

-----------------------------------------------------------------------------
(* What the documentation says and the code does not do: TLC refutes it.   *)

(* The query service reports a locked area as locked.                      *)
AreaStateReported ==
  map # None => \A a \in map.locked : GetAreaState(a).locked
=============================================================================
