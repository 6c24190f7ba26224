----------------------------- MODULE LegFilter -----------------------------
(***************************************************************************)
(* The leg filter: leg_filter_node.cpp.                                    *)
(*                                                                         *)
(* Unmatched obstacles of the geofence's reports are tracked by their ids; *)
(* a timer publishes those that are as wide as a pair of legs and have     *)
(* moved fast enough, or that a camera has confirmed.  The node is spun by *)
(* one thread: callbacks exclude each other.                               *)
(*                                                                         *)
(* Time is counted in ticks, places on a line in cells wider than 0.1 m,   *)
(* velocities in cells per tick.  The cameras' humans are all at place 0,  *)
(* as the code puts them.                                                  *)
(***************************************************************************)
EXTENDS Integers, Sequences, FiniteSets, FiniteSetsExt

CONSTANTS
  Ids,               \* ids of obstacles
  Bodies,            \* ids of humans a camera has seen
  MaxPlace,          \* bound: the last place
  MinVelocity,       \* min_velocity
  MinObservations,   \* min_observations
  StationaryTimeout, \* stationary_timeout_sec
  EvictionTimeout,   \* eviction_timeout_sec
  CameraRadius,      \* camera_match_radius
  CameraStale,       \* camera_stale_sec
  MaxTime,           \* bound: the clock
  MaxReports         \* bound: reports

(* With two observations there is no displacement yet: the filter needs    *)
(* three.                                                                  *)
LegAssumption ==
  /\ {MaxPlace, StationaryTimeout, EvictionTimeout, CameraRadius, CameraStale} \subseteq Nat
  /\ {MaxTime, MaxReports} \subseteq Nat
  /\ MinVelocity \in Nat \ {0} /\ MinObservations \in Nat /\ MinObservations >= 3

VARIABLES
  now,
  fusion,    \* enable_camera_fusion
  tracks,    \* tracks_
  humans,    \* confirmed_humans_: when each was last seen
  published, \* what the last run of the timer published: ids and places
  log        \* history: the reports taken so far

vars == <<now, fusion, tracks, humans, published, log>>

Positions == 0..MaxPlace
Distance(x, y) == IF x > y THEN x - y ELSE y - x

(* What a report says of an obstacle: where it is, if it has the width of  *)
(* a pair of legs.                                                         *)
OtherWidth == -1

NewTrack ==
  [count |-> 0, first |-> 0, seen |-> 0, span |-> 0, moved |-> 0,
   last |-> 0, prev |-> 0, hasPrev |-> FALSE, candidate |-> FALSE, camera |-> FALSE]

(* Faulty variant: a place before the first one.                           *)
ObserveFromOrigin(t, x, stamp) ==
  [t EXCEPT !.first = IF t.count = 0 THEN stamp ELSE @, !.moved = @ + Distance(x, t.prev),
            !.prev = t.last, !.hasPrev = TRUE, !.last = x, !.seen = stamp,
            !.span = stamp - (IF t.count = 0 THEN stamp ELSE t.first), !.count = @ + 1]

(* The displacement is the one from the place before the last: prev is set *)
(* to last before last is set to x.                                        *)
Observe(t, x, stamp) ==
  LET first == IF t.count = 0 THEN stamp ELSE t.first
  IN  [t EXCEPT !.first = first, !.moved = IF t.hasPrev THEN @ + Distance(x, t.prev) ELSE @,
                !.prev = t.last, !.hasPrev = t.count > 0, !.last = x, !.seen = stamp,
                !.span = stamp - first, !.count = @ + 1]

(* An obstacle too wide or too narrow keeps its track, but not its place.  *)
TakeIn(t, x, stamp) ==
  IF x = OtherWidth THEN [t EXCEPT !.candidate = FALSE, !.seen = stamp] ELSE Observe(t, x, stamp)

Keep(f, S) == [k \in S |-> f[k]]

EvictStaleTracks(all, stamp) ==
  Keep(all, {id \in DOMAIN all : stamp - all[id].seen <= EvictionTimeout})

EvictStaleHumans(stamp) ==
  Keep(humans, {h \in DOMAIN humans : stamp - humans[h] <= 2 * CameraStale})

(* Reports come in the order of their stamps, some time after them.        *)
Stamps == {s \in 1..now : \A k \in 1..Len(log) : log[k].stamp < s}
Sightings == UNION {[seen -> Positions \cup {OtherWidth}] : seen \in SUBSET Ids}

ObstacleCallback ==
  /\ Len(log) < MaxReports
  /\ \E stamp \in Stamps, obs \in Sightings :
       LET known(id) == IF id \in DOMAIN tracks THEN tracks[id] ELSE NewTrack
           all == [id \in DOMAIN tracks \cup DOMAIN obs |->
                     IF id \in DOMAIN obs THEN TakeIn(known(id), obs[id], stamp) ELSE tracks[id]]
       IN  /\ tracks' = EvictStaleTracks(all, stamp)
           /\ humans' = EvictStaleHumans(stamp)
           /\ log' = Append(log, [stamp |-> stamp, obs |-> obs])
  /\ UNCHANGED <<now, fusion, published>>

HumansTrackedCallback ==
  /\ \E ids \in SUBSET Bodies \ {{}} :
       humans' = [h \in DOMAIN humans \cup ids |-> IF h \in ids THEN now ELSE humans[h]]
  /\ UNCHANGED <<now, fusion, tracks, published, log>>

MatchesCameraHuman(x) ==
  fusion /\ \E h \in DOMAIN humans : now - humans[h] <= CameraStale /\ Distance(x, 0) < CameraRadius

PassesLegFilter(t) ==
  /\ t.count >= MinObservations
  /\ \/ t.span > 0 /\ t.moved >= MinVelocity * t.span
     \/ t.camera /\ ~(t.moved = 0 /\ now - t.first > StationaryTimeout)

PublishCandidates ==
  /\ tracks' = [id \in DOMAIN tracks |->
                  LET t == [tracks[id] EXCEPT !.camera = MatchesCameraHuman(tracks[id].last)]
                  IN  [t EXCEPT !.candidate = PassesLegFilter(t)]]
  /\ published' = [id \in {i \in DOMAIN tracks : tracks'[i].candidate} |-> tracks[id].last]
  /\ UNCHANGED <<now, fusion, humans, log>>

Tick ==
  /\ now < MaxTime /\ now' = now + 1
  /\ UNCHANGED <<fusion, tracks, humans, published, log>>

Init ==
  /\ now = 0 /\ fusion \in BOOLEAN
  /\ tracks = <<>> /\ humans = <<>> /\ published = <<>> /\ log = <<>>

Next == ObstacleCallback \/ HumansTrackedCallback \/ PublishCandidates \/ Tick

Spec == Init /\ [][Next]_vars

-----------------------------------------------------------------------------
(* What the reports say, without regard to tracks.                         *)

Reported(id, k) == id \in DOMAIN log[k].obs

(* At report k the obstacle had been away for too long.                    *)
Lost(id, k) ==
  \A j \in 1..k : Reported(id, j) => log[k].stamp - log[j].stamp > EvictionTimeout

(* The reports of the obstacle with the width of legs, since it was away.  *)
Since(id) ==
  {k \in 1..Len(log) :
     /\ Reported(id, k) /\ log[k].obs[id] # OtherWidth
     /\ \A j \in k..Len(log) : ~Lost(id, j)}

Later(S) == S \ {Min(S)}
Previous(S, k) == Max({j \in S : j < k})
Step(id, S, k) == log[k].obs[id] - log[Previous(S, k)].obs[id]
Pause(S, k) == log[k].stamp - log[Previous(S, k)].stamp

Walked(id, S) == MapThenSumSet(LAMBDA k : Distance(Step(id, S, k), 0), Later(S))
FirstSeen(S) == log[Min(S)].stamp
Span(S) == log[Max(S)].stamp - FirstSeen(S)

(* It went on in one direction, never slower than MinVelocity.             *)
Walks(id, S) ==
  \/ \A k \in Later(S) : Step(id, S, k) >= MinVelocity * Pause(S, k)
  \/ \A k \in Later(S) : -Step(id, S, k) >= MinVelocity * Pause(S, k)

-----------------------------------------------------------------------------
(* Properties.                                                             *)

(* What is published is where it was last reported, was reported often     *)
(* enough since it was away, and has covered at least half the distance    *)
(* the minimal velocity asks for, unless a camera saw a human near it and  *)
(* it has not stood there for long.  Somebody who walks on, at least at    *)
(* the minimal velocity, is published as soon as they were reported often  *)
(* enough, whatever width they were reported with before and however many  *)
(* reports missed them (obstacleCallback, passesLegFilter,                 *)
(* evictStaleTracks).                                                      *)
WalkersPublished ==
  [][PublishCandidates => \A id \in Ids :
       LET S == Since(id)
           walked == Walked(id, S)
       IN  IF id \in DOMAIN published'
           THEN /\ Cardinality(S) >= MinObservations
                /\ published'[id] = log[Max(S)].obs[id]
                /\ \/ walked > 0 /\ 2 * walked >= MinVelocity * Span(S)
                   \/ /\ fusion /\ published'[id] < CameraRadius
                      /\ \E h \in DOMAIN humans : now - humans[h] <= CameraStale
                      /\ walked > 0 \/ now - FirstSeen(S) <= StationaryTimeout
           ELSE ~(Cardinality(S) >= MinObservations /\ Walks(id, S))]_vars
=============================================================================
