# A TLA+ verification project for RISES

RISES supervises driverless vehicles in a warehouse: laser scans become
obstacles, a geofence node compares them with a map of known obstacles and of
areas that may be locked, paths are validated against that map, and operators
act on it through intents, missions, tasks and skills. The system is a set of
ROS 2 nodes in C++ (`src/src/*`) and a Python bridge to FIWARE (`src/fiware`).

The project models the map that many threads read while others write it, the
nodes built around it, and the chains through which the outside reaches it or
hears of it: missions and skills, the message translator, the laser
preprocessor and the safety node, the viewers and filters of its reports, the
FIWARE bridges. Paths below are relative to the repository (`src/...` is its `src/`
directory).

1. [Inventory](#1-inventory)
2. [Modules](#2-modules)
3. [Runs](#3-runs)
4. [Theorems](#4-theorems)
5. [Where documentation and code differ](#5-where-documentation-and-code-differ)
6. [Not modelled](#6-not-modelled)
7. [Plan](#7-plan)

## 1. Inventory

| Component | State | Operations | What makes it correct | Modelled in |
|---|---|---|---|---|
| Mission controller | `mission_active_`, `mission_mutex_`, the mission thread | intent callback, `executeMission`, `callSkill`, destructor | one mission at a time, a well-formed status stream, no success without effect, no wait without end | `MissionController` |
| RCU snapshot store | pointer to a wrapper of a snapshot, pool, writers' mutex, pending `call_rcu` | `load`, `store`, `acquire`, `updateSnapshot` | no use after free, no lost update, published snapshots never change, no leak | `AtomicSnapshot`, `SnapshotStore` |
| Spatial index | point cloud, id table, cached largest half diagonal | `insert`, `remove`, `query`, `clone` | index agrees with the tables, queries miss nothing | `SpatialIndex` |
| Geofence map and batches | obstacles, areas, locks, contours, two indices | insert, remove, register, lock, unlock, batches | tables and indices coherent; a failed batch has no effect | `GeofenceMap` |
| Path safety and boundary checkers | none | `isSegmentSafe` | an accepted segment meets no obstacle and no locked area and keeps its margin | `PathSafety` |
| Geofence lifecycle node, map update handler | lifecycle state, timer, subscriptions, report builder, map | transitions, scans, update messages, services | what a callback uses exists, ready means loaded, the alert clears | `GeofenceNode` |
| Robot tracking checker | poses and their age | `isPoseValid`, footprint test | only a fresh pose hides an obstacle | `GeofenceNode` (partly) |
| Obstacle report builder, error segment tracker | last report; tables of the last and the present cycle, claimed ids | begin, build, assign an id, end | ids unique and stable, lines close to their points | `ObstacleReports` |
| Gridmap geofence | snapshot with cells, counts per layer, grids | insert, delete, clear, scan, path | grids agree with obstacles, reports right on steady cells, free paths cut no deep corners | `GridMap` |
| Skill bridge, task examples | a handler at a time, pending requests; task thread, active and cancel flags | skills, triggers, cancel, steps | a confirmed setting is in force, every task ends | `SkillBridge` |
| Message translator | update buffer, flush thread, order and sensor buffers | collect, flush, retry, relay, replay, destructor | nothing goes back to an older state, everything arrives | `Translator` |
| Laserscan preprocessor | lifecycle state, subscriptions, updater | transitions, scans, diagnostics | an obstacle in a scan does not come out as a clear array without a warning | `Perception` |
| Safety node | time of each node's last report, halted flag, heatmap | diagnostics, health check, paths | halts in time, resumes in time, warns | `Perception`, `HeatmapPredictor` |
| Heatmap predictor | a track for each id | observe, evict, predict, stamp | right velocity, the last place stays warned about | `HeatmapPredictor`, `ReportViewers` |
| Validation node | announced and pending obstacles, counters | announce, report, pose | pairs are sound, counters agree with them | `ValidationNode`, `ReportViewers` |
| FIWARE bridges (C++ and Python), alert receiver | dirty flags, geometry, alert, `entity_created` | callbacks, upserts with retries, `/sync`, trigger | alerts arrive, stored geometry never gets older | `FiwareBridge` |
| Leg filter | a track for each id with places, counts and times; humans a camera saw | observe, evict, confirm, publish | what is published has moved, who walks is published | `LegFilter` |
| Obstacle aggregator | last report of each AGV, indices | report, combine | one id, one obstacle of one AGV | `ObstacleAggregator` |
| Robot safety profile; message converters; point, collision and match checkers; hierarchical index and node pool; fleet interface; visualizer; geometry backend; orchestration, launch files and configuration | | | | not modelled: section 6 |

How they interact: laser scans go through the preprocessor to the geofence
node, which reports obstacles to the heatmap predictor, the validation node,
the leg filter, the aggregator, the FIWARE bridges and the safety node's
neighbours; map updates come from the
message translator; the mission controller and the tasks call skills, which the
skill bridge turns into services of the geofence node; the safety node asks it
to validate paths and watches everybody's diagnostics.

What is hard here: threads and callback groups that share state without a test
for their orders; answers that arrive after a timeout and requests that are
served after they were given up; memory reclaimed while a reader is overtaken;
a hand-written index and reference counts that must stay consistent through
replacements and abandoned batches; buffers that are put back in front of newer
data; restarts that forget; geometric shortcuts. `PROJECT.json` lists each
hazard at its line.

## 2. Modules

Definitions whose comment begins with "Faulty variant" are not part of any
specification. Each is a plausible error in the code, and the property named
beside it in `PROJECT.json` fails when it replaces the correct definition.

How the modules compose:

- `SnapshotStore` implements `AtomicSnapshot`. This justifies `GeofenceMap`,
  `GeofenceNode` and `GridMap`, where a map operation is one replacement of a
  published value and a look-up reads one such value.
- `GeofenceMap` EXTENDS `SpatialIndex`, `PathSafety` EXTENDS `GeofenceMap`.
- `SkillBridge` composes tasks, bridge and the geofence's settings,
  `Perception` preprocessor, geofence and safety node, `FiwareBridge` both
  bridges, broker and receiver, `ReportViewers` intruders, announcements,
  `HeatmapPredictor`, `ValidationNode`, `LegFilter` and `ObstacleAggregator`.
- `NodeReports` and `FleetReports` are `ObstacleReports` and `ObstacleAggregator`
  under names of their own; `GeofenceNodeProofs` extends them, `GeofenceNode` and
  `FiwareBridge`, and follows what the node reports to the fleet and the broker.
- `MissionController` uses skills as an external party that may do anything a
  skill server may do; `SkillBridge` models the one there is.

### MissionController (`mission_controller_node.cpp`)

`cbPc` is the place of the intent callback, `wPc` that of the mission thread.
The callback is one thread (the subscription is in the node's default, mutually
exclusive group). Its early part, from entry to the load of `mission_active_`
and the mapping of the intent to tasks, is one action; each store, lock and
join after it is one of its own. `executeMission` holds `mission_mutex_`
throughout and is cut at every point where another thread can see it:
`BeginMission`, `NextTask` (loop head, with the cancelled and the normal exit),
`SendGoal`, `GoalResponse`, `SkillResult` (the waits of `callSkill`, each with
its timeout), `TaskFailed`, `EndMission`.

An intent's text is reduced to the keywords that occur in it; that
`"unlock_area"` contains `"lock_area"` is kept, because the code searches with
`find`. `log` is the sequence of messages on `/mission_status`. `run` numbers
the missions and is not visible in the code: the id the code publishes is the
millisecond clock and may repeat.

The skill servers are external: a goal once sent may be executed at any later
time, or never, and a reply is delivered only while the executor runs and only
to the wait for that goal. The waits may time out at any moment.

### SnapshotStore (`rcu.hpp`, `snapshot_memory_pool.hpp`, `updateSnapshot`)

A reader goes through `ReadLock`, `Dereference`, `CopySnapshot`, `ReadUnlock`
and holds its snapshot until `Release`; `Release` may also leave it with the raw
contours pointer of `getMapContours`. A writer goes through `Lock` (mutex and
load), `Acquire` (clone into a pooled or a new object), `Modify`, `EnsureBuilt`,
`Store` and `Unlock`. `Reclaim` is liburcu's `call_rcu` thread (external): a
retired wrapper is deleted when every reader that was in a read-side critical
section at the time of the store has left it.

A snapshot's data is its version, whether its trees are built, and its contours
object. Objects are allocated while a `shared_ptr` refers to them. `UseCount`
counts the local copy `acquire` makes of a slot's pointer, so the test
`use_count() == 1` is never true and the pool never serves a request: that is
what the code does, and `AcquirableFresh` proves it.

### SpatialIndex, GeofenceMap, PathSafety (`nanoflann_adapter.hpp`, `geofence_map.cpp`, `batch_operations_impl.hpp`, `path_safety_checker.cpp`)

Coordinates are integers; centres are doubled and diagonals squared so that
every comparison is exact. The code computes in `float`, so the results hold up
to rounding of values that are equal here. Obstacles are their axis-parallel
bounding boxes. Inputs the operations reject before any change (negative ids,
min > max, non-finite numbers) are not among the inputs.

A batch fills a private clone (`draft`) step by step and publishes it at the
end; `registerAreasBatch` may throw in the middle, in which case the draft is
dropped. Single operations need the writers' mutex and wait for the end of a
batch.

`PathSafety` adds no state. `IsSegmentSafe` is the conjunction of the four
tests of `isSegmentSafe` with the default configuration; a path is safe when
each of its segments is. The collision test and the distance come from the
geometry backend (external) and are given by their definitions. `validate_path`
and all writers share one mutually exclusive callback group, so one validation
sees one snapshot.

### GeofenceNode (`lifecycle_geofence_node_base.cpp`, `geofencing_node.cpp`, `map_update_handler.cpp`, `robot_tracking_checker.cpp`)

The container is multi-threaded, with two callback groups. Transitions, the
timer that drives them, updates and services are in the default group and
exclude each other; what such a callback does in more than one visible step is
kept in `job` (the rest of an update message, applied one operation and one
snapshot at a time; the gap between registering and locking an area). Scans are
in a reentrant group: `scan[s]` takes each of them from its match against one
snapshot to the alert and to the report, beside whatever the default group
does. `lc` is the lifecycle state, `wired` stands for all that `on_configure`
creates and `on_cleanup` destroys (subscriptions, services, publishers, report
builder), `timer` and `lastState` are the automatic transition and its memory,
`cfg` is the copy of the parameters the constructor read, `params` their present
value, `publishing` says whether the publishers are activated: without it an
alert goes nowhere. A shutdown leaves all of this as it is (`on_shutdown` is the
default). `fault` records why the process is gone: an exception that leaves a
callback (an update or an area with a negative id or an impossible box throws,
and nothing catches it), a null map, a report builder that was freed.

The map is reduced to what a scan or a service sees of it: which obstacles,
areas, locks and contours it has. `scene` is what is really there, `robots` the
obstacles in the footprint of a robot whose pose is fresh (`RobotPoseCallback`,
`PoseAges`). Files may or may not load at any attempt.

### ObstacleReports (`obstacle_report_builder.cpp`, `error_segment_tracker.hpp`)

A scan is a row of vertices, each matched, unmatched or outside, and each at one
of a few heights; it is cut into groups at gaps, freed of spikes and fitted with
lines (`Build`), each line asks the tracker for an id (`GetOrAssignId`), the
report is published and the cycle ends. `previous` and `current` are the
tracker's hash tables of the last and the present cycle, `claimed` the ids given
out in it. One builder and one tracker serve all scans without a lock:
`Scanners` says how many scans are handled at a time. `origin` (where an id was
first given to) and `lone` (the last report that named a single line) are
history. `NodeReports` is the module under names of its own, which a module about
several components can extend: the run and the theorems use it.

### GridMap, MCGridMap (`gridmap_data.cpp`, `gridmap_policies.cpp`, `gridmap.cpp`, `geofencing_gridmap_node.cpp`)

A snapshot holds each obstacle with its layer and cells, the reference count of
every layer and cell, a grid per layer and the merged grid. Writers copy it
(`UpdateSnapshot`), apply one update or a message of several and publish
(`StoreSnapshot`). `MatchScan` starts a scan, `CheckCorrespondence` looks up one
point of one obstacle, each in the snapshot published at that moment,
`BuildMatchResult` decides. `steady` (cells that have not changed since the scan
began) is history. Rasterisation is the code's for each
kind of shape: a rectangle is a block of half extents rounded up, a turned one a
polygon, a line the strip along it, circles and polygons are tested at cells or
their centres; a path follows Bresenham's line. `MCGridMap` chooses shapes,
messages and segments that reach each of these.

### SkillBridge (`skill_bridge_node.cpp`, `task_runner.cpp`, `task_examples_node.cpp`)

`thread` is `task_thread_` with the place in `TaskRunner::run`; `LaunchTask` is
a trigger service up to the thread's creation (`handler` is a trigger blocked in
`join()`), `ThreadStarts`, `Runner` the steps of the thread, `HandleCancel` the
cancel service. The bridge's nine action servers are in one group: `busy` is
the goal whose handler runs, `phase` its place in `callService` (discovery,
request, answer), and `GiveUp` its deadline. A request lives in `requests` until
`Serve`, also after it was given up on. `fence` is what the three settings of
the geofence are, and `Crash` and `Restart` lose its pending requests and reset
them. `last` records what the bridge confirmed.

### Translator (`message_translator_node.cpp`, `delivery_strategy.cpp`, `tf_replay_manager.cpp`, `aabb_converter.cpp`)

Callbacks exclude each other; `exec` is what the executor is in the middle of
(a timer callback that has read `is_flushing_`, a delivery without buffering).
The flush thread is `flusher`, cut at each access to shared state: it checks,
blocks, takes the buffer, delivers chunk by chunk to each AGV, decides and puts a
failed batch back. `inbox[a]` holds updates on their way to an AGV's geofence, which
`Serve` applies at any time, after the answer was given up on too. A geometry
is the number of its message, so `fences[a][i].ver` tells which update an
obstacle comes from. `orders` and `scans` are the two relays with their buffers,
timers and replay; `Destroy` and `Joined` are the destructor's two halves.
`Configs` is a set of sets of options: `buffering`, `service` (delivery by
service instead of topic), `wait` (updates are held until every geofence is ready).

### FiwareBridge (`fiware_bridge_node.cpp`, `orion_bridge.py`, `alert_receiver.py`)

`fw` is the C++ bridge, whose executor has one thread: a callback that waits for
an answer (`waiting`) blocks it until `WaitEnds`. `ob` is the Python bridge with
two threads, the executor and the HTTP control server; `jobs[t]` are the upserts
a handler still has to make and `req[t]` the request under way, which may fail
before or after it took effect (`RequestFails`) and is repeated within a budget.
That the broker acts on a request that timed out only later, when the bridge has
gone on to the next, is left out: `GeometryNeverOlder` rests on it. `lock` is
`_geometry_lock`. `orion` is the broker, `notices` its notifications, `log` what
the alert receiver logged last. `Restart` starts the Python bridge anew: it reads back what the broker holds and writes it again, or, if the read
fails or there is no entity, writes nothing and creates the entity later.
The names of its `FiwareSpec` are its own so that a module about several components
can extend it.

### Perception (`laserscan_preprocessor_node.cpp`, `shape_fitter.cpp`, `safety.cpp`)

One tick is one second. `pre` is the preprocessor (lifecycle with its automatic
timer, parameters declared once, publishers, subscriptions, updater), `age` the
time since its last scan. A scan is its number of valid points; `Extracted` follows
the fitter's confidences, thresholds and minimum counts to the shape that is
published. A scan may also be skipped for want of a valid point (`SkipScan`),
dropped for want of a transform (`DropScan`) or fail (`FailScan`); `hidden` is
history and says in which of two ways an active preprocessor has withheld a segment:
in an array that was "empty", or with an array that was "unsent". Diagnostics go from `due`
over `wire` to the safety node, which keeps `silence` (time since each node's
last report), `halted` and the `countdown` to its next health check; `pending`
is a path whose validation was requested of a geofence that is still there.
`quiet` and `sinceHalt` measure how long ago the last reason to halt and the last halt were. Any of the three nodes
may crash and come back.

### HeatmapPredictor, ValidationNode, ReportViewers (`heatmap_predictor_node.cpp`, `validation_node.cpp`, `safety.cpp`)

Space is a line. The predictor keeps a window of observations per id, computes
a velocity as an exact fraction, evicts tracks and stamps the predicted places
with decreasing confidence, after which the grid is normalised; the safety
node's test of a path against it is in the same module. The validation node pairs
reports with announcements of two topics, in whichever order they come, and
counts. `ReportViewers` lets intruders appear, walk and drift, reports any
subset of them at each tick (the predictor's subscription is best effort) and
delivers announcements at any later time. It also instantiates `LegFilter` and
`ObstacleAggregator`, which choose their reports themselves. The four share no
state, so a behaviour follows one of them. `MCReportViewers` names three AGVs.

### LegFilter (`leg_filter_node.cpp`)

`tracks` has the code's fields, places on a line in cells and times in ticks;
`displacement_sum / time_span` is compared as a product. A report says of each
obstacle where it is or that it has another width (`OtherWidth`). The timer's
run is one action: it holds the lock until its candidates are copied. Stamps of
reports are not ahead of the clock and grow. `log` keeps the reports, from which
`Since`, `Walked` and `Span` compute what the tracks should know.

### ObstacleAggregator (`obstacle_aggregator_node.cpp`)

`latest` and `indexes` are the two maps of the node, `combined` what it
published last; `from` and `local` in an entry are history. A namespace is its
trailing number, if it has one, and its hash. `AggregatorAssumption` keeps local
ids below `kIdSpacePerAgv`: the header promises exclusive ranges only then, and
nothing in the code sees to it (section 5). `FleetReports` is the module as a part
of a larger system; `ReportViewers` and the proofs extend it.

## 3. Runs

Every run checks what could really go wrong. Type invariants are proved where
there is a proof module and are not checked again.

| Run | Bounds | Shows |
|---|---|---|
| `mission` | 3 intents, 2 clock values | `FlagMatchesThread`; `StatusStreamWellFormed`; `SuccessMeansApplied`; `MissionTerminates` |
| `store` | 2 readers, 2 writers, pool of 2, 2 updates | `NoUseAfterFree`; `HeldSnapshotStable`; refinement of `AtomicSnapshot`; `RetiredWrappersDeleted` |
| `map_batches` | 3 obstacle ids, 1 area, 2x1 grid, batches of 2, 5 entries | `IndicesCoherent`; `MaximumExact` |
| `path_segments` | 2 obstacles, 1 area, 5x2 grid, area index of 2 points, margin sqrt(2) | `NothingMissed`; `SafeSegmentAvoidsObstacles`; `SafeSegmentHasClearance`; `SafeSegmentAvoidsLockedAreas` |
| `node` | 2 scans at a time, 1 obstacle id, 1 area, messages of up to 3 operations of which 2 are allowed | `PointersLastUntilCleanup`; `ReadyMeansLoaded`; `AlertClears` |
| `reports` | rows of 3 vertices at 2 heights, one scanner, ids up to 2 | `IdsUniqueInReport`; `IdStaysNearOrigin`; `FitWithinTolerance`; `StationaryKeepsId` |
| `skills` | 2 triggers, foreign goals or crashes in all, 3 tasks, 9 skills | `ConfirmedSettingHolds`; `TaskEnds`; `BridgeFreesUp` |
| `translator` | 2 AGVs, 2 obstacle ids, 3 configurations, 2 messages, 1 fault, chunks of 1 | `NeverOlder`; `InsertsArrive`; `OrdersArrive` |
| `fiware` | 2 pallets, 2 messages, 1 fault, 1 repetition, 1 restart, chunks of 1 | `AlertLogged`; `GeometryNeverOlder` |
| `grid` | 4x4 cells of 16 units, inflation 8, 5 shapes, 2 ids, 3 updates, 4 scans, 4356 segments | `GridMatchesObstacles`; `SteadyCellsReported`; `DeepCutIsBlocked` |
| `perception` | 1 laser, scans of 1, 2 or 5 points, 1 transition request, 1 fault, stale after 1, timeout 3, health check every 2 | `FalseClearIsWarned`; `HaltIsTimely`; `HaltIsLifted` |
| `viewers` | 2 intruders, 2 places, 3 paces, window 3, 6 ticks for the predictor, 2 for the validation node, whose window and pending age are 1; for the leg filter 1 obstacle, 1 human, 4 places, 5 reports, 6 ticks, 3 observations; for the aggregator 3 AGVs, ids 0 and 2 of 3, one obstacle a report, indices below 4 | `VelocityIsRight`; `LastPlaceIsWarned`; `PairingSound`; `WalkersPublished`; `SameIdSameObstacle` |

Why the bounds are enough to meet the hard cases:

- `mission`: three intents are one mission that runs, one that is rejected or
  waits to join it and a stop between them; or two missions whose skills time out
  and are answered late. `AreaIds` is empty because the area id influences no
  control. `MaxNow = 1` lets two missions have equal or different ids.
- `store`: two writers compete for the mutex; with two updates a slow reader is
  overtaken twice between dereferencing and copying.
- `map_batches`: three obstacles are the least for which a swap moves a point
  that is removed later while another stays; the grid has points and a line, so
  boxes of different diagonals; a batch of two can replace what it has just
  inserted. `MaxEntries` bounds the obstacles and area points of a snapshot
  together and leaves room for everything but a second point of the area beside
  three obstacles.
- `path_segments`: the 5x2 grid has points, lines and boxes, and segments that
  pass an obstacle with both ends farther from it than the margin; an area can be registered at two places;
  with two entries an obstacle and an area are both in the map.
- `node`: two scans overtake each other in every order, beside an update message
  of two operations; the operator may do any number of transitions. Three
  operations are a message that is refused.
- `reports`: three vertices are the least with a spike, a gap on either side and
  two lines at once; `MaxId` bounds the ids given out, and two are enough for two
  lines at once.
- `skills`: two outside events give a task and another client that compete for one
  setting, or a task and a crash in any of its steps, or a second trigger.
- `translator`: two messages give an insert with its deletion or replacement, or
  two of different ids in different batches; one fault is a failed or late
  delivery, after which the retry meets the newer message. The configurations are
  buffering with services, no buffering with a wait for the geofences, and no
  options at all.
- `fiware`: two events are an alert and its clearing, or two geometries; the
  fault may come before or after the effect of a request. It stays within the
  repetitions (`MaxFaults` is at most `MaxRetries`): an alert whose repetitions
  are used up is dropped by design.
- `grid`: shapes overlap, reach beyond the grid, and are of every kind; three
  updates replace, clear and delete what overlaps; a scan looks up several
  points one by one, so a writer gets between any two. Ids are symmetric. The
  segments of `DeepCutIsBlocked` join corners of cells, where a line is farthest
  from the cells Bresenham's algorithm visits; the rectangle is the largest its
  block of cells allows, one unit off the lattice, and free segments do cut it.
  The bound of 3/4 of a cell less the inflation is tight in the limit of long
  segments on large grids; on this grid half a cell is already refuted.
- `perception`: times are small but in the order of the code's (stale before
  silent); 1, 2 and 5 points are on both sides of each threshold of the fitter.
- `viewers`: six ticks are a change of pace, a window after it and an eviction.
  Five reports to the leg filter are three observations after a loss and an
  eviction, or around a report of another width or one that misses the obstacle.
  The AGVs' indices come from a number, from the hash beside a number that is too
  large, and from the hash alone; the ids are the ends of a range.
  Two ticks of the validation node are one more than its window and its pending
  age, so detections come too early, in time and too late, and pending ones are
  pruned. What these bounds do not reach: no place is beyond the border of the
  heatmap, and runs of the leg filter's timer that change nothing are stutters,
  of which `WalkersPublished` says nothing.
- Elsewhere: `reports` has one scanner (section 5 has two); in `grid` a count never
  comes near its 16 bits.

`CHECK_DEADLOCK FALSE` stands where the system really stops: when the bounded
number of events is used up and everything has been delivered (`fiware`, `skills`,
`translator`, `viewers`), when an exception has ended the process (`node`), when
ids are used up (`reports`) or the destructor has returned (`translator`). In the
others deadlock is checked.

### Fairness

- `MissionController!FairSpec`: weak fairness of the steps of the callback, of
  the mission thread and of the destructor. These are running threads, and every
  wait of the mission thread is a `wait_for` with a timeout, so its next step is
  always enabled eventually. Nothing is assumed of operators, of the clock or of
  skill servers: they may never act.
- `SnapshotStore!FairSpec`: weak fairness of each thread inside `updateSnapshot`
  or `load` (neither waits for anything but the mutex) and of liburcu's
  reclaiming thread. Nothing bounds how long a reader keeps a snapshot or how
  often readers come back.
- `GeofenceNode`: scans keep coming and are handled (weak), a begun job goes on
  (weak), and the transition timer is not passed over for ever: it competes with
  services for its group, and the executor takes ready timers first (strong).
- `SkillBridge`: the task's thread, the bridge's handler and the start of a
  thread (weak). The geofence may never answer: every wait has a deadline.
- `Translator`: timers, the flush thread, the geofences' service of a request
  and the replay (weak). `InsertsArrive` needs the geofences to serve: the code
  does not give up an insert, it cannot deliver it to one that is dead for ever.
- `FiwareBridge`: requests end, the handlers, the receiver and the C++ node's
  wait go on (weak); faults are bounded, as the retry budget of the code is.
- The others state safety only.

## 4. Theorems

All hold for every value of the constants that satisfies the named `ASSUME`:
any number of threads, ids, scans, intents, points, any grid and any period.

- `MissionControllerProofs`: `TypeCorrect`, `FlagCorrect`, `StreamCorrect`,
  `SuccessCorrect`. `FlagMatchesThread` is inductive with the type invariant.
  `StatusStreamWellFormed` needs `StreamInv`: run numbers grow along callback,
  thread and log, and the last message says whether the thread is still in its
  loop. `SuccessMeansApplied` needs `AppliedInv`: the second task counts as
  completed only upon the answer to that very goal.
- `SnapshotStoreProofs`: `TypeCorrect`, `LoadIsSafe`, `SnapshotsAreStable`,
  `UpdatesAreKept`, `StoreRefinesAtomicSnapshot`, all from one inductive
  invariant `IInv`: the mutex covers `updateSnapshot` (`MutexInv`), stores are
  counted (`CountInv`), wrapper n holds version n, built (`PublishedInv`), a
  retired wrapper waits for every reader that dereferenced it (`GraceInv`), and
  the object a writer fills can be reached by nobody else (`PrivateInv`). The
  last rests on `AcquirableFresh`, a fact about `use_count`. The refinement maps
  `value` to the version behind the pointer, `updates` to the number of stores and
  `result` to what a reader dereferenced: two updates of which one is lost are two
  stores with one new version, which no step of `AtomicSnapshot` is; `Store` implements `Update`, `Dereference` implements `Load`, the
  other steps stutter.
- `GeofenceMapProofs`: `TypeCorrect`, `IndexMatchesTable`,
  `CachedMaximumCorrect`, `QueriesMissNothing`. The invariant says that the
  published snapshot and the draft are `Good`: typed, index coherent with its
  table, cached maximum exact, every area indexed under its present
  rectangle and no point of an area that is not registered. The maximum has to be exact and not only an upper bound for
  `Remove`'s shortcut to be right. `QueriesMissNothing` adds geometry: if two
  boxes overlap, the distance of their centres is less than the sum of their half
  diagonals (an integer form of the triangle and Cauchy-Schwarz inequalities),
  and inflating by the cached maximum keeps that true for the largest box.
- `GeofenceMapProofs`, for `PathSafety`: `ObstaclesAvoided`, `LockedAreasAvoided`,
  `ClearanceKept`. The collision test looks only at what `query` returns for the
  segment's box; the lemma `QueryReaches` says that this is enough. A
  locked area may have old points in the index, but always one for its present
  rectangle, which is what the tests use; that the crossing test is blind to
  parallel segments is made up for by the test for a point inside and by the
  other edges. `ClearanceKept` has two hypotheses: the first radius of
  the search is at most the last, and the margin is at most that radius times
  sqrt(2). With the code's 0.5 m this is a bound the configured margin must
  respect: beyond it `distanceToNearestObstacle` may return too much.
- `GeofenceNodeProofs`: `TypeCorrect`, `PointersValid`, `ActiveIsLoaded`.
  `PointersInv` says what a callback of either group relies on between two of its
  steps: a job of the default group keeps its map, a scan that has still to report
  keeps its builder, and whoever lost either did so after an `on_cleanup`.
- `GeofenceNodeProofs`, for `ObstacleReports`: `IdsAreUnique`, `IdsStayNear`,
  `StationaryFeatureKeepsId`. `IdsInv`: every entry of the tracker holds an id
  that has been given out, and during a cycle `claimed` holds the ids of the
  report so far, so neither an old id that passes the test nor a fresh one can
  repeat. `OriginInv`: each entry carries the place where its id was first given
  (of which `origin` is the history), so a match that passes the drift test is
  near that place, not only near its predecessor. `LoneInv`: after a report of
  one line the tracker remembers that line and nothing else, until the next
  report is out; an unmoved line finds it in its own cell, and no better
  candidate. Hypotheses: `OneScanner`, because with two scans under way at once
  one's `beginScanCycle` empties what the other has claimed (the
  callback group is reentrant; with one laser scanner the brackets follow each
  other, with more the ids are not stable, section 5); for the two about places
  `LinesFitted`, that the fit yields lines with integer ends, which is a fact
  about folds and was evaluated by TLC for every row of up to 5 vertices at two
  heights.
- `GeofenceNodeProofs`, for `ObstacleAggregator`: `SameIdIsSameObstacle`.
  `FleetInv` says that every cached index is the one the AGV's name yields and
  that every number in the published report was made with it; that the ranges of
  two indices are disjoint is then division with remainder, for ids below
  `IdSpacePerAgv`.
- `GeofenceNodeProofs`, for `FiwareBridge`: `GeometryOnlyAdvances`. `StoresInv`:
  the geometry in Orion-LD is never newer than the one the bridge keeps, unless
  the bridge has just been started and keeps none. `WorkInv`: every write under
  way, also one that is repeated after a fault, carries exactly the geometry the
  bridge would send now (`Kept`), and while the HTTP server's thread has writes
  to do it holds the lock that `_contours_callback` needs to put a newer one in
  its place. The proof has a lemma for each callback, with the failures, retries
  and restarts between its requests. It assumes finitely many pallets, because a
  map is pushed chunk by chunk. TLC checked the invariant on 8.6 million states
  first.
- `PerceptionProofs`: `HaltComesInTime`, `HaltEndsInTime`, `FalseClearWarned`.
  `ChecksInTime` relates each node's silence and the age of the last reason to
  the countdown of the health check; `StaleIsReported` follows a stale scan from
  the diagnostic timer over the wire to the halt; `FalseClearIsCounted` ties an
  array that was empty for a scan with a segment to the failure counter of the same
  process: neither is ever reset, and no branch of the fitter yields nothing.
  `FalseClearWarned` says nothing of arrays that were not sent at all (section 5).
- `SkillBridgeProofs`: `SkillInvariant`, `ConfirmedHolds`. A service takes its
  requests in the order in which they were sent, and a request that was given up
  on stays in the queue. `AwaitedInv` says that only the youngest request is
  waited for, and that it is the one the handler sent; `AnswerInv` that an answer
  with TRUE is an answer to it, so that nothing older to that service is left to
  be served; `DownInv` that a geofence that died has been told nothing since.
  From these, `ConfirmedInv`: after a confirmation the queue holds nothing for
  that service, and the setting is in force.
- `GridMapProofs`: `GridInvariant`, `GridMatches`, `ScanInvariant`,
  `SteadyReported`. `MapInv` says of the published snapshot and of the writers'
  copy that a count is the cardinality of the obstacles of the layer on the cell,
  that a cell of a layer is occupied when there are any, and that the merged grid
  is the union. Each operation adds or takes one element of these sets; replacing
  needs the removal of the old version first, in whatever layer it was. It assumes
  fewer ids than a count can hold (`RefLimit`, 2^16 in the code). `ScanInv` follows
  a scan point by point: for the obstacles and vertices looked at so far the
  report is right on every cell that has not changed since the scan began; a
  change only makes the set of such cells smaller. What shapes rasterise to plays
  no part, so both hold for every geometry.
- `TranslatorProofs`: `TranslatorInvariant`, `NeverOlderHolds`. Along the way from
  the last message received (`ReceivedInv`) over the buffer (`BufferInv`), the batch
  that is being delivered and its chunks (`BatchInv`) and the requests on their
  way (`InboxInv`) to a geofence, the versions of every obstacle are in order. A
  batch is in order with itself, which is why it can be sent again, also when the
  first attempt is served late, and why putting it back in front of the buffer is
  right. The hypothesis `HeldUpdatesAreFlushed` (a configuration that waits for the
  geofences collects the updates or uses services) is needed: without it a flush
  and a direct publication can overtake each other, and TLC finds the older
  geometry (section 5). It was checked with TLC in six configurations and three
  messages before it was proved.

Only model-checked:

- liveness (`MissionTerminates`, `RetiredWrappersDeleted`,
  `AlertClears`, `TaskEnds`, `BridgeFreesUp`, `InsertsArrive`, `OrdersArrive`,
  `AlertLogged`): fairness is beyond the prover;
- what recursion over data computes: `FitWithinTolerance` (the recursive split of
  a row of vertices), `DeepCutIsBlocked` (Bresenham's line), and, by folds
  over windows and histories, `VelocityIsRight`, `LastPlaceIsWarned`,
  `PairingSound`, `WalkersPublished`: proofs would need induction over them,
  which the prover cannot do;
- `LinesFitted`, for the same reason.

The other 26 of the 40 properties the runs check are theorems.

## 5. Where documentation and code differ

`PROJECT.json` lists each under "findings" with the lines quoted. Those with a
property below are refuted by TLC; the property is at the end of its module and
no configuration names it, so to see the counterexample add it to one. The bounds
of the configuration suffice unless said otherwise.

| Property | Module | What the code does |
|---|---|---|
| `UnlockMissionUnlocks` | `MissionController` (`AreaIds = {1}`) | an unlock intent locks: `find("lock_area")` comes first and matches `"unlock_area"` |
| `StopCancelsMission` | `MissionController` | while a mission is active every intent, STOP_ACTIVITY included, is rejected; the branch that would cancel runs only when nothing is active |
| `ContoursPointerValid` | `SnapshotStore` | `getMapContours` returns a raw pointer without keeping the snapshot |
| `DistanceIsToNearest` | `PathSafety` (`MaxX = 9`, `MaxY = 0`) | the first radius with any candidate decides, although candidates may lie outside its box and a nearer obstacle beyond it |
| `AreaStateReported` | `GeofenceNode` (one scan, `AutoActivate = FALSE`) | the area's id is looked up among the obstacles: a locked area is "not found", `locked = false` |
| `StationaryKeepsId` | `ObstacleReports` (`Scanners = {s1, s2}`, `Columns = 1`) | two scans share one tracker; a second begin drops the last scan's entries, and a thing that has not moved gets a new id. With one scanner it holds and is a property of the run `reports` |
| `CancelTakesEffect` | `SkillBridge` | a cancel between the creation of the task's thread and the store at its start is forgotten |
| `ReadyMeansDelivered` | `Translator` (`Configs = {{"buffering", "service"}}`) | `initialization_ready` can be sent while a batch is being delivered, which may then fail |
| `AnswerIsUsed` | `FiwareBridge` | a callback waits for an answer that only the thread it blocks can deliver, so every republication times out |
| `UnsentIsWarned` | `Perception` | a scan without a transform leaves no array and no failure: the diagnostics go on saying OK |
| `AlertMeansNear` | `GridMap` | samples that are outside the circle decide about an alert another sample admitted |

Without a property, because the statement is about a value or a comment:

- the safety node resumes although a node goes on reporting ERROR, and a path
  request whose geofence dies is never answered (`safety.cpp:98`, `:165`);
- the predictor's grid is normalised after overlapping stamps have been added, so
  the present position of a walker is not at full weight; the validation node
  judges a repeated detection by its first report only and counts an obstacle
  twice that is announced by `validate` first;
- a header speaks of a multi-threaded executor where there is one thread; the age
  of a pose is computed unsigned, so a stamp ahead of the clock is very old; a
  retried activation uses the parameters of the constructor although a comment
  says an operator can correct them;
- the leg filter measures each displacement over two observations, so the velocity
  it compares is up to twice the real one and something that alternates between
  two places stands still (`leg_filter_node.cpp:140`); a track whose last report
  was too wide is still published, because the timer judges it without its width
  (`:268`);
- an id of a million or more reaches into the next vehicle's range
  (`obstacle_aggregator_node.cpp:132`), which the header calls exclusive; two tests
  of `test_combine.cpp` expect the ids of `agv_1` unshifted, which the header and
  the code rule out;
- the empty array published after an exception has no error indication, which
  `test_audit_07_exception_ghost_clear.cpp` demands (the message has no field for
  it); the failure shows in the diagnostics only (`laserscan_preprocessor_node.cpp:504`).

Noticed while modelling, without a document that says otherwise:

- *Mission controller*: `active_mission_id_` is never cleared; two missions within
  a millisecond get the same id; a number beyond 64 bits throws out of the
  callback that takes the intent.
- *Map*: the snapshot pool never serves a request; `lockArea` of an unknown area
  locks it; `registerArea` of a known id leaves the old point in the index
  (harmless for paths: `LockedAreasAvoided`); `updateBatch` inserts a known id
  without removing it first, but nothing calls it.
- *Geofence node*: `on_cleanup` drops the map, which only the constructor creates;
  updates between configuration and the first activation are inserted
  untransformed; an exception in an update ends the container; of a message that
  throws the first half stays applied.
- *Skills*: `get_area_state` answers `locked = false` when the call failed; the
  skill `set_area_state` sends no box; a step that fails or is cancelled leaves
  the corridor locked, the radius narrow or the geofence disabled; a second
  trigger before `active_` is set blocks in `join`; goals that were given up
  are never cancelled.
- *Translator*: with `wait` and without buffering, `NeverOlder` fails when the
  option is used without services (`message_translator_node.cpp:509`); without
  buffering nothing is retried; the destructor's notification can be lost between
  the flush thread's test and its wait, and `join` does not return (`:393`); what
  is buffered after the replay has begun stays; live messages overtake the replay;
  area ids are hashed before the corners are normalised; the state bridge repeats
  the last field violation.
- *FIWARE*: the last map update of a burst within two seconds is not pushed; chunks
  of a map that shrank stay; a partial map overwrites a full one; the last alert is
  remembered before it has been sent; an entity deleted at the broker is not
  created again; the diagnostics of one node overwrite another's.
- *Gridmap*: alert and report of one scan may stem from different snapshots; a
  segment half on the map is unmatched without an alert; a free path may
  cut a rectangle by up to 3/4 of a cell less the inflation, which is 0 by default; a path that ends outside is free;
  coordinates are truncated toward zero; counts have 16 bits; load, copy and
  store are not guarded by a compare-and-swap, only by the callback group.
- *Preprocessor and safety*: a halt for a missing service is lifted by the next
  health check; an answer after the halt is forwarded; a node that has never
  reported is not watched; one dead laser of two is invisible; a restart of the
  safety node forgets the halt; the preprocessor cannot be configured twice;
  cleanup and shutdown leave timers or subscriptions; a whole scan is one segment,
  so nearly always a line; a "circle" comes out as a polygon.
- *Viewers*: the predictor rounds to the next cell where the safety node truncates;
  tracks are evicted only when a report comes; an intruder announced late counts as
  unclaimed until then.
- *Aggregator*: `agv_7` and `agv_007` share a range, as do names whose hashes
  collide; a report is never too old, so that of a vehicle that is gone is
  published with a fresh stamp for ever.

## 6. Not modelled

- *Message converters, fleet interface*: formats, translated message by message;
  nothing is kept between messages that a later one depends on.
- *Point, collision, correspondence and match checkers, geometry backend*:
  stateless floating-point geometry (partly SIMD) over one snapshot or one scan. Their outcome is an input of `GeofenceNode` and `ObstacleReports`, or they
  are used through their definitions (`PathSafety`).
- *Hierarchical index, node pool, dynamic batches*: `updateBatch`,
  `processROSUpdates` and the dynamic layer have no caller outside the tests.
- *The k-d tree* (nanoflann) is vendored and used through its definition; `knn`
  and `withinRadius` serve only callers that are not modelled.
- *Robot safety profile*: selects one of a few constants once.
- *Visualizer*: output only. *Orchestration, launch files, configuration, JSON
  loading*: start-up and formats; that files fail to load is in `GeofenceNode`.
- Left out of modelled components: diagnostics, the radius and enable services and
  the visualizer's calls of the geofence node; polygonal contours; the raw clouds'
  filters and transforms; TLS and formats of the bridges.

## 7. Plan

Done: the store, the map and its queries, the mission controller; the node, the
reports, the gridmap, skills and tasks, the translator, the FIWARE chain, the
safety chain, the viewers, the leg filter and the aggregator; the theorems of
section 4. What is left, in this order:

1. A refinement of the external skill servers assumed by `MissionController` by
   `SkillBridge`, so that a mission's success can be followed to the geofence.
2. The lifecycle shared with the gridmap node as a module of its own, with the
   diagnostics and the radius and enable services.
3. The dynamic layer, should a node come to use it.
