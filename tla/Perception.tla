------------------------------ MODULE Perception ------------------------------
(***************************************************************************)
(* Laser scans to obstacles (laserscan_preprocessor_node.cpp) and the      *)
(* safety node that watches the nodes' diagnostics, halts the system and   *)
(* guards the paths (safety.cpp).                                          *)
(*                                                                         *)
(* One tick of the clock is one second.  The diagnostic updaters run once  *)
(* a tick and their messages arrive within it; the safety node checks the  *)
(* health of the nodes every HealthPeriod ticks.  Callbacks of one node    *)
(* exclude each other (default callback group), so each is one action.     *)
(***************************************************************************)
EXTENDS Integers, Sequences

CONSTANTS
  Lasers,        \* configured lasers, LASER_COUNT of them
  Returns,       \* numbers of valid points a scan may have
  MinSegment,    \* parameter min_segment_size
  AutoActivate,  \* parameter auto_activate
  StaleAfter,    \* a scan is stale after 2 s
  NodeTimeout,   \* node_timeout_sec
  HealthPeriod,  \* period of the health check, 5 s
  MaxRequests,   \* bound: lifecycle transitions requested
  MaxFaults      \* bound: crashes of any node

ASSUME PerceptionAssumption ==
  /\ AutoActivate \in BOOLEAN /\ Returns \subseteq Nat /\ MinSegment \in Nat
  /\ StaleAfter \in Nat /\ NodeTimeout \in Nat /\ HealthPeriod \in Nat \ {0}
  /\ MaxRequests \in Nat /\ MaxFaults \in Nat

VARIABLES
  pre,        \* the preprocessor: life cycle, parameters, publishers, timers
  lidar,      \* lasers that deliver scans
  age,        \* ticks since the last scan, or Never
  hidden,     \* how the preprocessor has hidden segments since it was started
  geofence,   \* is the geofence node running?
  due,        \* nodes whose diagnostic timer has expired
  wire,       \* diagnostics on their way to the safety node
  silence,    \* for each node: ticks since the safety node heard of it, or Never
  halted,     \* system_halted_
  countdown,  \* ticks until the next health check
  pending,    \* is the geofence to answer a request to validate a path?
  requests, faults,  \* counters of the bounds
  quiet,      \* ticks since there was a reason to halt
  sinceHalt   \* ticks since the system was halted

preVars == <<pre, lidar, age, hidden>>
safetyVars == <<silence, halted, countdown, pending, quiet, sinceHalt>>
vars == <<preVars, geofence, due, wire, safetyVars, requests, faults>>

Nodes == {"preprocessor", "geofence"}
Never == -1
Older(t, limit) == IF t = Never \/ t >= limit THEN t ELSE t + 1

-----------------------------------------------------------------------------
(* The preprocessor.                                                       *)

(* wrong: the parameter that does not list one value for each laser.       *)
(* pointsOnly: the parameter publish_points_only.                          *)
Constructed(wrong, pointsOnly) ==
  [state |-> "unconfigured", wrong |-> wrong, pointsOnly |-> pointsOnly, declared |-> FALSE, pubs |-> "none",
   subs |-> FALSE, updater |-> FALSE, failures |-> FALSE,
   auto |-> AutoActivate, last |-> "unknown"]

Down == [Constructed("none", TRUE) EXCEPT !.state = "down"]

(* The parameters are declared here, and declaring them twice throws: only *)
(* the first call can succeed.                                             *)
LoadConfiguration(p) == ~p.declared /\ p.wrong # "frames"
SetupLaserSubscribers(p) == p.wrong # "topics"

OnConfigure(p) ==
  IF LoadConfiguration(p) /\ SetupLaserSubscribers(p)
  THEN [p EXCEPT !.declared = TRUE, !.state = "inactive", !.pubs = "inactive",
                 !.subs = TRUE, !.updater = TRUE]
  ELSE [p EXCEPT !.declared = TRUE, !.pubs = IF LoadConfiguration(p) THEN "inactive" ELSE @]

OnActivate(p) == [p EXCEPT !.state = "active", !.pubs = "active"]
OnDeactivate(p) == [p EXCEPT !.state = "inactive", !.pubs = "inactive"]

(* The diagnostic updater stays.                                           *)
OnCleanup(p) == [p EXCEPT !.state = "unconfigured", !.pubs = "none", !.subs = FALSE]

(* From active the subscriptions stay as well.                             *)
OnShutdown(p) ==
  [CASE p.state = "active" -> OnDeactivate(p)
     [] p.state = "inactive" -> OnCleanup(p)
     [] OTHER -> p
   EXCEPT !.state = "finalized"]

Transition(p) ==
  CASE p.state = "unconfigured" -> {OnConfigure(p), OnShutdown(p)}
    [] p.state = "inactive" -> {OnActivate(p), OnCleanup(p), OnShutdown(p)}
    [] p.state = "active" -> {OnDeactivate(p), OnShutdown(p)}
    [] OTHER -> {}

ChangeState ==
  /\ requests < MaxRequests /\ requests' = requests + 1
  /\ pre' \in Transition(pre)
  /\ UNCHANGED <<lidar, age, hidden, geofence, due, wire, safetyVars, faults>>

(* Every state is acted upon once: a configuration that failed is not      *)
(* tried again.                                                            *)
AutoTransition ==
  /\ pre.auto /\ pre.state # pre.last
  /\ LET p == [pre EXCEPT !.last = pre.state]
     IN  pre' = CASE p.state = "unconfigured" -> OnConfigure(p)
                  [] p.state = "inactive" -> OnActivate(p)
                  [] p.state = "active" -> [p EXCEPT !.auto = FALSE]
                  [] OTHER -> p
  /\ UNCHANGED <<lidar, age, hidden, geofence, due, wire, safetyVars, requests, faults>>

(* All valid points of a scan form one segment, and its accumulated angle  *)
(* is passed as 0: the confidences, in tenths, depend on the number of     *)
(* points only.                                                            *)
LineConfidence(n) == IF n < 2 THEN 0 ELSE 8

(* Faulty variant: a long segment is taken for an arc.                     *)
CircleConfidenceHigh(n) == IF n < 5 THEN 0 ELSE 9

CircleConfidence(n) == IF n < 5 THEN 0 ELSE 2

FitLine(n) == IF n < 2 THEN {"none"} ELSE {"line"}

(* A circle is found only if enough points lie on one.                     *)
FitCircle(n) == IF n < 3 THEN {"none"} ELSE {"polygon", "none"}

FitPoint(n) == IF n = 0 THEN {"none"} ELSE {"point"}

SegmentPointCloud(n) == {n}

(* What may be published of a segment of n points.                         *)
Extracted(n) ==
  IF n < MinSegment THEN {"none"}
  ELSE IF LineConfidence(n) > CircleConfidence(n) /\ LineConfidence(n) > 5 THEN FitLine(n)
  ELSE IF CircleConfidence(n) > 5 THEN FitCircle(n)
  ELSE FitPoint(n)

PointObstacles(n) == IF n = 0 THEN {"none"} ELSE {"points"}

ProcessPointCloud(n) ==
  IF pre.pointsOnly THEN PointObstacles(n) ELSE UNION {Extracted(m) : m \in SegmentPointCloud(n)}

(* A scan counts as received whatever becomes of it.                       *)
ScanArrives(l) == pre.subs /\ l \in lidar /\ age' = 0

(* What an active preprocessor withholds of a scan with a segment: the     *)
(* obstacle, in an array that is empty, or the whole array.                *)
Hide(how, n) ==
  hidden' = IF pre.pubs = "active" /\ n >= MinSegment THEN hidden \cup {how} ELSE hidden

Publish(n, shape) == IF shape = "none" THEN Hide("empty", n) ELSE UNCHANGED hidden

(* A scan with n valid points, one obstacle of which is published.         *)
OnLaserScan(l, n) ==
  /\ ScanArrives(l) /\ n > 0
  /\ \E shape \in ProcessPointCloud(n) : Publish(n, shape)
  /\ UNCHANGED <<pre, lidar, geofence, due, wire, safetyVars, requests, faults>>

(* A scan without a valid point is skipped, ...                            *)
SkipScan(l) ==
  /\ ScanArrives(l)
  /\ UNCHANGED <<pre, lidar, hidden, geofence, due, wire, safetyVars, requests, faults>>

(* ... and so is one for which there is no transform: nothing is published *)
(* and nothing is counted.                                                 *)
DropScan(l, n) ==
  /\ ScanArrives(l) /\ n > 0 /\ Hide("unsent", n)
  /\ UNCHANGED <<pre, lidar, geofence, due, wire, safetyVars, requests, faults>>

(* An exception on the way is counted and published as an empty array.     *)
FailScan(l, n) ==
  /\ ScanArrives(l) /\ n > 0
  /\ pre' = [pre EXCEPT !.failures = TRUE]
  /\ Publish(n, "none")
  /\ UNCHANGED <<lidar, geofence, due, wire, safetyVars, requests, faults>>

LaserChanges(l) ==
  /\ faults < MaxFaults /\ faults' = faults + 1
  /\ lidar' = IF l \in lidar THEN lidar \ {l} ELSE lidar \cup {l}
  /\ UNCHANGED <<pre, age, hidden, geofence, due, wire, safetyVars, requests>>

-----------------------------------------------------------------------------
(* Diagnostics.                                                            *)

Level ==
  CASE age = Never -> "WARN"
    [] age > StaleAfter -> "ERROR"
    [] age \in 0..StaleAfter /\ pre.failures -> "WARN"
    [] age \in 0..StaleAfter /\ ~pre.failures -> "OK"

Reporting == (IF pre.updater THEN {"preprocessor"} ELSE {}) \cup (IF geofence THEN {"geofence"} ELSE {})

ProduceDiagnostics(n, level) ==
  /\ n \in due /\ due' = due \ {n}
  /\ n = "preprocessor" => level = Level
  /\ wire' = Append(wire, <<n, level>>)
  /\ UNCHANGED <<preVars, geofence, safetyVars, requests, faults>>

-----------------------------------------------------------------------------
(* The safety node.                                                        *)

HaltSystem == halted' = TRUE /\ quiet' = 0 /\ sinceHalt' = 0

DiagnosticsCallback ==
  /\ wire # <<>> /\ wire' = Tail(wire)
  /\ silence' = [silence EXCEPT ![Head(wire)[1]] = 0]
  /\ IF Head(wire)[2] = "ERROR" THEN HaltSystem ELSE UNCHANGED <<halted, quiet, sinceHalt>>
  /\ UNCHANGED <<preVars, geofence, due, countdown, pending, requests, faults>>

Silent == {n \in Nodes : silence[n] # Never /\ silence[n] > NodeTimeout}

(* Faulty variant: the last node looked at decides.                        *)
HealthCheckLastNodeDecides ==
  /\ countdown = 0 /\ countdown' = HealthPeriod
  /\ \/ Silent # {} /\ HaltSystem
     \/ \E n \in Nodes \ Silent : halted' = FALSE /\ UNCHANGED <<quiet, sinceHalt>>
  /\ UNCHANGED <<preVars, geofence, due, wire, silence, pending, requests, faults>>

(* Faulty variant: a halt is never lifted.                                 *)
HealthCheckNeverResumes ==
  /\ countdown = 0 /\ countdown' = HealthPeriod
  /\ IF Silent # {} THEN HaltSystem ELSE UNCHANGED <<halted, quiet, sinceHalt>>
  /\ UNCHANGED <<preVars, geofence, due, wire, silence, pending, requests, faults>>

ResumeSystem == halted' = FALSE /\ UNCHANGED <<quiet, sinceHalt>>

(* Only the age of the last report counts, not what it said.               *)
HealthCheckCallback ==
  /\ countdown = 0 /\ countdown' = HealthPeriod
  /\ IF Silent # {} THEN HaltSystem ELSE ResumeSystem
  /\ UNCHANGED <<preVars, geofence, due, wire, silence, pending, requests, faults>>

(* A path that arrives while the system is halted is rejected; one that    *)
(* finds no validate_path service halts it.                                *)
PathCallback ==
  /\ ~halted /\ ~pending
  /\ IF geofence THEN pending' = TRUE /\ UNCHANGED <<halted, quiet, sinceHalt>>
     ELSE HaltSystem /\ UNCHANGED pending
  /\ UNCHANGED <<preVars, geofence, due, wire, silence, countdown, requests, faults>>

(* The answer of the geofence is passed on, halted or not.                 *)
PathAnswered ==
  /\ pending /\ geofence /\ pending' = FALSE
  /\ UNCHANGED <<preVars, geofence, due, wire, silence, halted, countdown, quiet, sinceHalt, requests, faults>>

-----------------------------------------------------------------------------
(* Faults and time.                                                        *)

Fault == faults < MaxFaults /\ faults' = faults + 1

PreprocessorCrashes ==
  /\ Fault /\ pre.state # "down" /\ pre' = Down /\ due' = due \ {"preprocessor"}
  /\ age' = Never /\ hidden' = {}
  /\ UNCHANGED <<lidar, geofence, wire, safetyVars, requests>>

PreprocessorStarts ==
  /\ pre.state = "down" /\ (\E wrong \in {"none", "frames", "topics"}, pointsOnly \in BOOLEAN : pre' = Constructed(wrong, pointsOnly))
  /\ UNCHANGED <<lidar, age, hidden, geofence, due, wire, safetyVars, requests, faults>>

(* A request the geofence has not answered is lost with it: the one that   *)
(* is started next knows nothing of it.                                    *)
GeofenceCrashes ==
  /\ Fault /\ geofence /\ geofence' = FALSE /\ due' = due \ {"geofence"} /\ pending' = FALSE
  /\ UNCHANGED <<preVars, wire, silence, halted, countdown, quiet, sinceHalt, requests>>

GeofenceStarts ==
  /\ ~geofence /\ geofence' = TRUE
  /\ UNCHANGED <<preVars, due, wire, safetyVars, requests, faults>>

(* What the safety node knew of the others is gone.                        *)
SafetyRestarts ==
  /\ Fault
  /\ silence' = [n \in Nodes |-> Never] /\ halted' = FALSE /\ countdown' = HealthPeriod
  /\ pending' = FALSE /\ quiet' = 0 /\ sinceHalt' = 0
  /\ UNCHANGED <<preVars, geofence, due, wire, requests>>

Tick ==
  /\ due = {} /\ wire = <<>> /\ countdown > 0
  /\ due' = Reporting
  /\ age' = Older(age, StaleAfter + 2)
  /\ silence' = [n \in Nodes |-> Older(silence[n], NodeTimeout + HealthPeriod + 1)]
  /\ countdown' = countdown - 1
  /\ quiet' = Older(quiet, HealthPeriod + 1)
  /\ sinceHalt' = IF halted THEN 0 ELSE Older(sinceHalt, 2)
  /\ UNCHANGED <<pre, lidar, hidden, geofence, wire, halted, pending, requests, faults>>

Init ==
  /\ (\E wrong \in {"none", "frames", "topics"}, pointsOnly \in BOOLEAN : pre = Constructed(wrong, pointsOnly))
  /\ lidar = Lasers /\ age = Never /\ hidden = {} /\ geofence = TRUE
  /\ due = {} /\ wire = <<>>
  /\ silence = [n \in Nodes |-> Never] /\ halted = FALSE /\ countdown = HealthPeriod
  /\ pending = FALSE /\ requests = 0 /\ faults = 0 /\ quiet = 0 /\ sinceHalt = 0

Next ==
  \/ ChangeState \/ AutoTransition
  \/ (\E l \in Lasers, n \in Returns : OnLaserScan(l, n) \/ DropScan(l, n) \/ FailScan(l, n))
  \/ (\E l \in Lasers : SkipScan(l))
  \/ (\E l \in Lasers : LaserChanges(l))
  \/ (\E n \in Nodes, level \in {"OK", "WARN", "ERROR"} : ProduceDiagnostics(n, level))
  \/ DiagnosticsCallback \/ HealthCheckCallback \/ PathCallback \/ PathAnswered
  \/ PreprocessorCrashes \/ PreprocessorStarts \/ GeofenceCrashes \/ GeofenceStarts
  \/ SafetyRestarts \/ Tick

Spec == Init /\ [][Next]_vars

-----------------------------------------------------------------------------
(* Properties.                                                             *)

(* The system is halted once a node that has reported before is silent for *)
(* longer than the timeout and a period of the health check, whatever the  *)
(* other nodes report; and while a running preprocessor gets no scans it   *)
(* is never released for more than a tick (diagnosticsCallback,            *)
(* healthCheckCallback).                                                   *)
HaltIsTimely ==
  /\ \A n \in Nodes : silence[n] > NodeTimeout + HealthPeriod => halted
  /\ pre.updater /\ age > StaleAfter + 1 => sinceHalt <= 1

(* Once an empty array has gone out for a scan with a segment, which to    *)
(* the other nodes looks like a clear scan, no diagnostic report of the    *)
(* preprocessor says OK until its process ends, whatever scans and life    *)
(* cycle transitions follow.  Of a scan that leaves no array at all it     *)
(* says nothing: see UnsentIsWarned (extractAndPublishObstacles, the       *)
(* exception handler of onLaserScan, produceDiagnostics).                  *)
FalseClearIsWarned == "empty" \in hidden => Level \in {"WARN", "ERROR"}

(* A halt does not outlive its last reason (an ERROR report, a silent      *)
(* node, a missing validate_path service) by more than a period of the     *)
(* health check.                                                           *)
HaltIsLifted == halted => quiet <= HealthPeriod

-----------------------------------------------------------------------------
(* What a comment says and the code does not do: TLC refutes it.           *)

(* A scan with a segment that leaves no array shows in the diagnostics     *)
(* (onLaserScan: "the absence of a message looks identical to a legitimate *)
(* clear scan -- a safety-relevant ghost-clear").  It is dropped for want  *)
(* of a transform, and no failure is counted.                              *)
UnsentIsWarned == "unsent" \in hidden => Level \in {"WARN", "ERROR"}
=============================================================================
