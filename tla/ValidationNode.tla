---------------------------- MODULE ValidationNode ----------------------------
(***************************************************************************)
(* The validation node (validation_node.cpp): it pairs the obstacles a     *)
(* simulator announces with the unmatched obstacles the geofence reports,  *)
(* whichever message comes first, and keeps the figures of merit.          *)
(*                                                                         *)
(* Space is a line.  Latencies are not added up: only which spawn has one  *)
(* and how many were taken.  Field "by" of a spawn is history: the report  *)
(* entry <<stamp, id>> it was detected by.                                 *)
(***************************************************************************)
EXTENDS Integers, Sequences, FiniteSets
LOCAL INSTANCE FiniteSetsExt
LOCAL INSTANCE SequencesExt

CONSTANTS
  Tolerance,         \* match_tolerance
  MatchWindow,       \* match_window
  PendingMaxAge,     \* pending_max_age
  Eligibility,       \* eligibility_radius
  PersistentReports, \* persistent_min_reports
  IdSeenSoftCap      \* kIdSeenSoftCap

ASSUME ValidationAssumption ==
  /\ Tolerance \in Nat /\ MatchWindow \in Nat /\ PendingMaxAge \in Nat
  /\ Eligibility \in Nat /\ PersistentReports \in Nat \ {0} /\ IdSeenSoftCap \in Nat

VARIABLES
  spawned,  \* spawned_obstacles_
  waiting,  \* pending_detections_
  seen,     \* unmatched_id_seen_: a function of the ids
  kpi       \* the counters

validationVars == <<spawned, waiting, seen, kpi>>

Gap(a, b) == IF a < b THEN b - a ELSE a - b
Unseen == <<>>

InitValidation ==
  /\ spawned = <<>> /\ waiting = <<>> /\ seen = <<>>
  /\ kpi = [total |-> 0, eligible |-> 0, detected |-> 0, samples |-> 0,
            intruder |-> 0, unclaimed |-> 0, staticMiss |-> 0]

(* The index of the candidate with the smallest latency, the first of      *)
(* several, or 0.                                                          *)
Nearest(candidates, latency) ==
  IF candidates = {} THEN 0
  ELSE CHOOSE i \in candidates :
         \A j \in candidates : latency[i] < latency[j] \/ (latency[i] = latency[j] /\ i <= j)

InWindow(latency) == latency \in 0..MatchWindow

(* markEligible, and the sample finalizeLatencyIfReady takes as soon as a  *)
(* spawn has been both detected and entered.                               *)
Account(k, old, new) ==
  [k EXCEPT !.eligible = @ + (IF ~old.eligible /\ new.eligible THEN 1 ELSE 0),
            !.detected = @ + (IF ~old.detected /\ new.detected THEN 1 ELSE 0),
            !.samples = @ + (IF ~old.final /\ new.final THEN 1 ELSE 0)]

Finalized(s) == [s EXCEPT !.final = s.final \/ (s.detected /\ s.entered)]

(* A state of the matching: the spawns, the pending detections, the        *)
(* counters.                                                               *)
ReportMatch(m, i, entry) ==
  LET s == Finalized([m.spawned[i] EXCEPT !.eligible = TRUE, !.detected = TRUE, !.by = entry])
  IN  [m EXCEPT !.spawned[i] = s, !.kpi = Account(m.kpi, m.spawned[i], s)]

Matching == [spawned |-> spawned, waiting |-> waiting, kpi |-> kpi]

(* The pending detection a spawn at x with stamp t is matched with, or 0.  *)
BestPending(x, t) ==
  LET latency == [i \in DOMAIN waiting |-> waiting[i].first[1] - t]
      near(d) == Gap(d.sum, x * d.scans) <= Tolerance * d.scans
  IN  Nearest({i \in DOMAIN waiting : near(waiting[i]) /\ InWindow(latency[i])}, latency)

WithSpawn(x, t) ==
  [Matching EXCEPT !.kpi.total = @ + 1,
     !.spawned = Append(@, [x |-> x, t |-> t, detected |-> FALSE, eligible |-> FALSE,
                            entered |-> FALSE, final |-> FALSE, by |-> Unseen])]

(* Faulty variant: the detection that was used stays pending.              *)
RegisterKeepsPending(x, t) ==
  LET m == WithSpawn(x, t)
      best == BestPending(x, t)
  IN  IF best = 0 THEN m ELSE ReportMatch(m, Len(m.spawned), waiting[best].first)

(* A new spawn; a detection that came before its announcement is matched   *)
(* now, with the stamp it was first seen.                                  *)
RegisterSpawnedObstacle(x, t) ==
  LET m == WithSpawn(x, t)
      best == BestPending(x, t)
  IN  IF best = 0 THEN m
      ELSE [ReportMatch(m, Len(m.spawned), waiting[best].first) EXCEPT !.waiting = RemoveAt(@, best)]

SpawnCallback(x, t) ==
  /\ LET m == RegisterSpawnedObstacle(x, t)
     IN  spawned' = m.spawned /\ waiting' = m.waiting /\ kpi' = m.kpi
  /\ UNCHANGED seen

(* The second topic announces the same obstacles: one known at that place  *)
(* is skipped.                                                             *)
ValidateCallback(x, t) ==
  IF \E i \in DOMAIN spawned : spawned[i].x = x THEN UNCHANGED validationVars
  ELSE SpawnCallback(x, t)

-----------------------------------------------------------------------------
(* Reports.                                                                *)

(* Merge with the first pending detection near by, or a new one.           *)
Buffer(queue, x, entry) ==
  LET near == {i \in DOMAIN queue : Gap(queue[i].sum, x * queue[i].scans) <= Tolerance * queue[i].scans}
  IN  IF near = {} THEN Append(queue, [sum |-> x, scans |-> 1, first |-> entry, last |-> entry[1]])
      ELSE [queue EXCEPT ![Min(near)].sum = @ + x, ![Min(near)].scans = @ + 1,
                         ![Min(near)].last = entry[1]]

(* The most recent spawn near by that has not been detected and whose      *)
(* window is open, or the detection waits for a spawn.                     *)
TryMatchDetection(m, x, entry) ==
  LET latency == [i \in DOMAIN m.spawned |-> entry[1] - m.spawned[i].t]
      best == Nearest({i \in DOMAIN m.spawned :
                         /\ ~m.spawned[i].detected /\ Gap(m.spawned[i].x, x) <= Tolerance
                         /\ InWindow(latency[i])}, latency)
  IN  IF best # 0 THEN ReportMatch(m, best, entry)
      ELSE [m EXCEPT !.waiting = Buffer(@, x, entry)]

(* An unmatched segment near the place of a spawn, at any time, is an      *)
(* intruder's; any other id that recurs often enough is a static miss,     *)
(* with its earlier reports.                                               *)
StaticMisses(count) ==
  CASE count = PersistentReports -> PersistentReports
    [] count > PersistentReports -> 1
    [] OTHER -> 0

ClassifyAndTrackUnmatched(state, x, id) ==
  IF \E i \in DOMAIN spawned : Gap(spawned[i].x, x) <= Tolerance
  THEN [state EXCEPT !.kpi.intruder = @ + 1]
  ELSE LET count == 1 + (IF id \in DOMAIN state.seen THEN state.seen[id] ELSE 0)
       IN  [kpi |-> [state.kpi EXCEPT !.unclaimed = @ + 1, !.staticMiss = @ + StaticMisses(count)],
            seen |-> [i \in DOMAIN state.seen \cup {id} |-> IF i = id THEN count ELSE state.seen[i]]]

(* Ids below the threshold are dropped when there are too many.            *)
PruneIdSeen(all) ==
  LET kept == {id \in DOMAIN all : Cardinality(DOMAIN all) <= IdSeenSoftCap
                                     \/ all[id] >= PersistentReports}
  IN  [id \in kept |-> all[id]]

PrunePendingDetections(queue, t) ==
  SelectSeq(queue, LAMBDA p : t - p.last <= PendingMaxAge)

(* A report with stamp t: a sequence of unmatched obstacles [id, x].  One  *)
(* without them changes only the count of matched ones.                    *)
ReportCallback(unmatched, t) ==
  IF unmatched = <<>> THEN UNCHANGED validationVars
  ELSE LET classified == FoldLeft(LAMBDA s, o : ClassifyAndTrackUnmatched(s, o.x, o.id),
                                  [kpi |-> kpi, seen |-> seen], unmatched)
           matched == FoldLeft(LAMBDA m, o : TryMatchDetection(m, o.x, <<t, o.id>>),
                               [Matching EXCEPT !.kpi = classified.kpi], unmatched)
       IN  /\ spawned' = matched.spawned /\ kpi' = matched.kpi
           /\ waiting' = PrunePendingDetections(matched.waiting, t)
           /\ seen' = PruneIdSeen(classified.seen)

(* The robot is at x: it has entered the circle of the spawns near by.     *)
SampleRobotPose(x) ==
  LET enters(s) == ~s.entered /\ Gap(s.x, x) <= Eligibility
      after(s) == IF enters(s) THEN Finalized([s EXCEPT !.eligible = TRUE, !.entered = TRUE]) ELSE s
  IN  /\ spawned' = [i \in DOMAIN spawned |-> after(spawned[i])]
      /\ kpi' = FoldLeft(LAMBDA k, s : Account(k, s, after(s)), kpi, spawned)
      /\ UNCHANGED <<waiting, seen>>
=============================================================================
