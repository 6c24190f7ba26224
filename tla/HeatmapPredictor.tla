--------------------------- MODULE HeatmapPredictor ---------------------------
(***************************************************************************)
(* The obstacle heatmap predictor (heatmap_predictor_node.cpp) and the     *)
(* check the safety node makes of a path against its grid                  *)
(* (Safety::isPathOverlappingPrediction).                                  *)
(*                                                                         *)
(* Space is a line: the two coordinates are treated alike and apart, but   *)
(* for the speed limit.  Positions are integers, CellSize of them to a     *)
(* cell; a velocity is a fraction <<numerator, denominator>>; weights are  *)
(* percentages.                                                            *)
(***************************************************************************)
EXTENDS Integers, Sequences, FiniteSets
LOCAL INSTANCE FiniteSetsExt
LOCAL INSTANCE SequencesExt

CONSTANTS
  Window,           \* observation_window_sec
  MinObservations,  \* min_observations
  EvictionTimeout,  \* eviction_timeout_sec
  MaxSpeed,         \* max_speed
  Steps, StepTime,  \* prediction steps and the time from one to the next
  CellSize,         \* grid_resolution
  Threshold         \* heatmap_overlap_threshold of the safety node

ASSUME HeatmapAssumption ==
  /\ Window \in Nat /\ MinObservations \in Nat \ {0} /\ EvictionTimeout \in Nat
  /\ MaxSpeed \in Nat /\ Steps \in Nat \ {0} /\ StepTime \in Nat \ {0}
  /\ CellSize \in Nat \ {0} /\ Threshold \in 0..100

VARIABLE tracks  \* tracked_obstacles_: a function of the ids tracked

NewTrack == [history |-> <<>>, velocity |-> <<0, 1>>, seen |-> 0]

Sum(f(_), s) == FoldSeq(LAMBDA o, sum : f(o) + sum, 0, s)

(* Least squares over the history, clamped to the speed limit.             *)
EstimateVelocity(h) ==
  LET dt(o) == o.t - h[1].t
      dt2(o) == dt(o) * dt(o)
      x(o) == o.x
      dtx(o) == dt(o) * o.x
      den == Len(h) * Sum(dt2, h) - Sum(dt, h) * Sum(dt, h)
      num == Len(h) * Sum(dtx, h) - Sum(dt, h) * Sum(x, h)
  IN  CASE den = 0 -> <<0, 1>>
        [] den # 0 /\ num > MaxSpeed * den -> <<MaxSpeed, 1>>
        [] den # 0 /\ num < -MaxSpeed * den -> <<-MaxSpeed, 1>>
        [] OTHER -> <<num, den>>

(* The velocity is estimated anew only from enough observations.           *)
WithHistory(track, h, t) ==
  [history |-> h, seen |-> t,
   velocity |-> IF Len(h) >= MinObservations THEN EstimateVelocity(h) ELSE track.velocity]

(* Faulty variant: the window is not applied.                              *)
UpdateTrackKeepsAll(track, x, t) ==
  WithHistory(track, Append(track.history, [x |-> x, t |-> t]), t)

(* Observations that have left the window are trimmed (the stamps of one   *)
(* publisher's reports increase).                                          *)
UpdateTrack(track, x, t) ==
  LET inWindow(o) == o.t >= t - Window
  IN  WithHistory(track, SelectSeq(Append(track.history, [x |-> x, t |-> t]), inWindow), t)

EvictStaleTracks(all, t) ==
  LET kept == {id \in DOMAIN all : t - all[id].seen <= EvictionTimeout}
  IN  [id \in kept |-> all[id]]

(* A report with stamp t of unmatched obstacles, position by id.  Eviction *)
(* happens here only: without reports no track expires.                    *)
ObstacleReportCallback(obstacles, t) ==
  LET track(id) == IF id \in DOMAIN tracks THEN tracks[id] ELSE NewTrack
      updated == [id \in DOMAIN tracks \cup DOMAIN obstacles |->
                    IF id \in DOMAIN obstacles THEN UpdateTrack(track(id), obstacles[id], t)
                    ELSE tracks[id]]
  IN  tracks' = EvictStaleTracks(updated, t)

InitHeatmap == tracks = <<>>

-----------------------------------------------------------------------------
(* The grid publishHeatmap sends of the tracks it finds.                   *)

Ready == {id \in DOMAIN tracks : Len(tracks[id].history) >= MinObservations}

(* Faulty variant: the weight grows with the distance in time.             *)
ConfidenceGrows(k) == IF k = 0 THEN 5 ELSE (100 * k) \div Steps

Confidence(k) == LET c == 100 - (100 * k) \div Steps IN IF c < 5 THEN 5 ELSE c

Predicted(track, k) ==
  LET latest == track.history[Len(track.history)]
  IN  latest.x + (track.velocity[1] * k * StepTime) \div track.velocity[2]

(* exp(-d^2 / 32) in percent: sigma is 4, and the kernel ends at 3 sigma.  *)
Gaussian == <<100, 97, 88, 75, 61, 46, 32, 22, 14, 8, 4, 2, 1>>

Distance(a, b) == IF a < b THEN b - a ELSE a - b

(* What a stamp at x adds to a cell.                                       *)
StampGaussian(cell, x, weight) ==
  LET d == Distance(cell * CellSize, x)
  IN  IF d < Len(Gaussian) THEN weight * Gaussian[d + 1] ELSE 0

Heat(cell) ==
  LET stamp(id, k) == StampGaussian(cell, Predicted(tracks[id], k), Confidence(k))
  IN  MapThenSumSet(LAMBDA s : stamp(s[1], s[2]), Ready \X (0..Steps))

(* The cells a stamp may reach; the others are 0.                          *)
Reached ==
  LET places == {Predicted(tracks[id], k) : id \in Ready, k \in 0..Steps}
  IN  ((Min(places) - 12) \div CellSize) .. ((Max(places) + 12) \div CellSize)

(* The published value: normalised by the largest one.                     *)
PublishHeatmap ==
  LET heat == [c \in Reached |-> Heat(c)]
      largest == Max(Range(heat))
  IN  [c \in Reached |-> (100 * heat[c]) \div largest]

(* The safety node warns of a path with a waypoint at x; it looks at the   *)
(* cell x lies in.                                                         *)
IsPathOverlappingPrediction(grid, x) ==
  LET cell == x \div CellSize IN cell \in DOMAIN grid /\ grid[cell] >= Threshold
=============================================================================
