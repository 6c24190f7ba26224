---------------------------- MODULE ReportViewers ----------------------------
(***************************************************************************)
(* What becomes of the geofence's obstacle reports: intruders walk through *)
(* the map, the geofence (external) reports those it sees, and four nodes  *)
(* receive the reports: the heatmap predictor, the validation node, the    *)
(* leg filter and the fleet's aggregator.  They share no state, so a       *)
(* behaviour follows one of them, the others being idle.                   *)
(*                                                                         *)
(* Reports reach the predictor by best effort and may be lost; the         *)
(* announcements of the simulator are delivered at any later time.         *)
(***************************************************************************)
EXTENDS HeatmapPredictor, ValidationNode, FleetReports
LOCAL INSTANCE FiniteSetsExt
LOCAL INSTANCE SequencesExt

CONSTANTS
  Intruders,   \* a set of ids
  Places,      \* where they appear, and where the robot may be
  Paces,       \* how far one may move in a tick, seen by the predictor
  Drifts,      \* the same, seen by the validation node
  Clutter,     \* the place of an unmapped structure; its id is 0
  MaxTime,     \* bound: ticks, of the predictor's reports
  MaxTrial,    \* bound: ticks, of the validation node's
  LegIds, Bodies, MaxPlace, MinVelocity, LegObservations, StationaryTimeout, LegEviction,
  CameraRadius, CameraStale, LegTime, LegReports \* of the leg filter

ASSUME ViewersAssumption ==
  /\ Intruders \subseteq Nat \ {0} /\ Places \subseteq Int
  /\ Paces \subseteq Int /\ Drifts \subseteq Int
  /\ Clutter \in Int /\ MaxTime \in Nat /\ MaxTrial \in Nat

VARIABLES
  listener,   \* who receives the reports
  now,
  intruder,   \* the intruders that have appeared: place and time, and their motion
  reported,   \* has this tick been reported?
  announced,  \* announcements <<id, topic>> delivered
  fusion, legTracks, humans, published, log \* of the leg filter

worldVars == <<now, intruder, reported, announced>>
filterVars == <<fusion, legTracks, humans, published, log>>
fleetVars == <<latest, indexes, combined>>
vars == <<listener, worldVars, tracks, validationVars, filterVars, fleetVars>>

Legs == INSTANCE LegFilter WITH
  tracks <- legTracks, Ids <- LegIds, MinObservations <- LegObservations,
  EvictionTimeout <- LegEviction, MaxTime <- LegTime, MaxReports <- LegReports

ASSUME LegsAssumption == Legs!LegAssumption

(* The predictor treats its tracks apart: it is shown one intruder.        *)
(* pace: the last move; since: how many ticks it has been the same.        *)
Appears(id, x) ==
  /\ listener \in {"heatmap", "validation"} /\ id \notin DOMAIN intruder
  /\ (listener = "heatmap" => now = 0 /\ intruder = <<>>)
  /\ intruder' = [i \in DOMAIN intruder \cup {id} |->
                    IF i = id THEN [born |-> now, from |-> x, x |-> x, pace |-> 0, since |-> 0]
                    ELSE intruder[i]]
  /\ UNCHANGED <<listener, now, reported, announced, tracks, validationVars, filterVars, fleetVars>>

Moved(i, pace) ==
  [i EXCEPT !.x = @ + pace, !.pace = pace,
            !.since = IF pace # i.pace THEN 1 ELSE IF @ > Window THEN @ ELSE @ + 1]

Walk ==
  /\ listener = "heatmap" /\ now < MaxTime
  /\ \E pace \in Paces : intruder' = [i \in DOMAIN intruder |-> Moved(intruder[i], pace)]
  /\ now' = now + 1 /\ reported' = FALSE
  /\ UNCHANGED <<listener, announced, tracks, validationVars, filterVars, fleetVars>>

Drift ==
  /\ listener = "validation" /\ now < MaxTrial
  /\ \E d \in Drifts : intruder' = [i \in DOMAIN intruder |-> [intruder[i] EXCEPT !.x = @ + d]]
  /\ now' = now + 1 /\ reported' = FALSE
  /\ UNCHANGED <<listener, announced, tracks, validationVars, filterVars, fleetVars>>

(* One report a tick, of some of the intruders and perhaps the clutter.    *)
ReportToPredictor(ids) ==
  /\ listener = "heatmap" /\ ~reported /\ reported' = TRUE
  /\ ObstacleReportCallback([id \in ids |-> intruder[id].x], now)
  /\ UNCHANGED <<listener, now, intruder, announced, validationVars, filterVars, fleetVars>>

(* The unmatched obstacles in the order of the ids; the clutter is always  *)
(* among them.                                                             *)
Entries(ids) ==
  [i \in 1..Cardinality(ids) |->
     LET id == SetToSortSeq(ids, <)[i]
     IN  [id |-> id, x |-> IF id = 0 THEN Clutter ELSE intruder[id].x]]

ReportToValidation(ids) ==
  /\ listener = "validation" /\ ~reported /\ reported' = TRUE
  /\ ReportCallback(Entries(ids \cup {0}), now)
  /\ UNCHANGED <<listener, now, intruder, announced, tracks, filterVars, fleetVars>>

Announce(id, topic) ==
  /\ listener = "validation" /\ <<id, topic>> \notin announced
  /\ announced' = announced \cup {<<id, topic>>}
  /\ IF topic = "spawn" THEN SpawnCallback(intruder[id].from, intruder[id].born)
     ELSE ValidateCallback(intruder[id].from, intruder[id].born)
  /\ UNCHANGED <<listener, now, intruder, reported, tracks, filterVars, fleetVars>>

RobotAt(x) ==
  /\ listener = "validation" /\ SampleRobotPose(x)
  /\ UNCHANGED <<listener, worldVars, tracks, filterVars, fleetVars>>

FilterLegs ==
  /\ listener = "legs" /\ Legs!Next
  /\ UNCHANGED <<listener, intruder, reported, announced, tracks, validationVars, fleetVars>>

Combine ==
  /\ listener = "fleet" /\ Fleet!Next
  /\ UNCHANGED <<listener, worldVars, tracks, validationVars, filterVars>>

Init ==
  /\ listener \in {"heatmap", "validation", "legs", "fleet"}
  /\ now = 0 /\ intruder = <<>> /\ reported = FALSE /\ announced = {}
  /\ InitHeatmap /\ InitValidation /\ Legs!Init /\ Fleet!Init
  /\ fusion => listener = "legs"

Next ==
  \/ (\E id \in Intruders, x \in Places : Appears(id, x))
  \/ Walk \/ Drift
  \/ (\E ids \in SUBSET DOMAIN intruder : ReportToPredictor(ids))
  \/ (\E ids \in SUBSET DOMAIN intruder : ReportToValidation(ids))
  \/ (\E id \in DOMAIN intruder, topic \in {"spawn", "validate"} : Announce(id, topic))
  \/ (\E x \in Places : RobotAt(x))
  \/ FilterLegs \/ Combine

Spec == Init /\ [][Next]_vars

-----------------------------------------------------------------------------
(* Properties.                                                             *)

Clamped(v) == IF v > MaxSpeed THEN MaxSpeed ELSE IF v < -MaxSpeed THEN -MaxSpeed ELSE v

(* Once an intruder has moved at one pace for a whole window, the velocity *)
(* it is predicted with is that pace, up to the speed limit, whichever     *)
(* reports were lost and however it moved before (updateTrack,             *)
(* estimateVelocity, evictStaleTracks).                                    *)
VelocityIsRight ==
  \A id \in Ready :
    tracks[id].seen = now /\ intruder[id].since >= Window =>
      tracks[id].velocity[1] = Clamped(intruder[id].pace) * tracks[id].velocity[2]

(* A path through the place where the only predicted obstacle was last     *)
(* seen is warned of, however fast it moves and although the grid is       *)
(* normalised (publishHeatmap, isPathOverlappingPrediction).               *)
LastPlaceIsWarned ==
  \A id \in Ready :
    Ready = {id} =>
      LET history == tracks[id].history
      IN  IsPathOverlappingPrediction(PublishHeatmap, history[Len(history)].x)

CountOf(test(_)) == Cardinality({i \in DOMAIN spawned : test(spawned[i])})

(* No report entry detects two spawns, a detection lies in the window of   *)
(* its spawn, a detected spawn is in the denominator of the ratio, and     *)
(* the counters say what the tables say, in whatever order announcements,  *)
(* reports and poses arrive (registerSpawnedObstacle, tryMatchDetection,   *)
(* finalizeLatencyIfReady, reportCallback).                                *)
PairingSound ==
  /\ \A i, j \in DOMAIN spawned :
       i # j /\ spawned[i].detected /\ spawned[j].detected => spawned[i].by # spawned[j].by
  /\ \A i \in DOMAIN spawned :
       spawned[i].detected => spawned[i].eligible /\ spawned[i].by[1] - spawned[i].t \in 0..MatchWindow
  /\ kpi.detected = CountOf(LAMBDA s : s.detected)
  /\ kpi.eligible = CountOf(LAMBDA s : s.eligible)
  /\ kpi.samples = CountOf(LAMBDA s : s.detected /\ s.entered)
  /\ kpi.staticMiss = MapThenSumSet(LAMBDA id : seen[id],
                                    {id \in DOMAIN seen : seen[id] >= PersistentReports})

(* The leg filter publishes who walks, and nobody else but humans a camera *)
(* has seen (see LegFilter).                                               *)
WalkersPublished == Legs!WalkersPublished
=============================================================================
