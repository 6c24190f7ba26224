---------------------------- MODULE FiwareBridge ----------------------------
(***************************************************************************)
(* The two FIWARE bridges and what they feed.                              *)
(*                                                                         *)
(* fiware_bridge_node.cpp turns ROS topics into JSON topics (for the DDS   *)
(* Enabler); its executor has one thread.  orion_bridge.py pushes the same *)
(* data to the Orion-LD broker over HTTP from two threads: the executor    *)
(* and an HTTP control server that handles POST /sync.  Orion notifies     *)
(* alert_receiver.py, which logs alerts.                                   *)
(*                                                                         *)
(* A geometry, a report, a grid is the number of the event it came with; a *)
(* pallet is its id; a chunk attribute holds ChunkSize pallets.            *)
(***************************************************************************)
EXTENDS Naturals, Sequences, FiniteSets, SequencesExt, Functions

CONSTANTS
  Pallets,    \* pallet ids
  FilePallets,\* what obstacles_json_file holds
  BufferMap,  \* BUFFER_MAP
  ChunkSize,  \* rectangles that fit _TROE_CHUNK_LIMIT
  MaxRetries, \* _HTTP_MAX_RETRIES
  MaxFaults,  \* bound: requests that meet a transient failure
  MaxEvents,  \* bound: messages that arrive
  MaxRestarts \* bound: restarts of the Orion bridge

ASSUME FiwareAssumption ==
  /\ FilePallets \subseteq Pallets /\ BufferMap \in BOOLEAN
  /\ ChunkSize \in Nat \ {0}
  /\ MaxRetries \in Nat /\ MaxFaults \in Nat /\ MaxEvents \in Nat /\ MaxRestarts \in Nat

VARIABLES
  events,   \* messages so far
  faults, restarts,
  lastAlert,\* the last alert the Orion bridge was sent: its event and value
  \* fiware_bridge_node.cpp
  fw,       \* pallets, dirty, last alert and ready, what waits
  published,\* the fiware/ topic something was last published on
  toOrion,  \* maps on their way over fiware/map_obstacles
  \* orion_bridge.py
  ob,       \* pallets, dirty, last alert, geometry, streaming, entity_created, trigger
  lock,     \* holder of _geometry_lock
  jobs,     \* per thread: the upserts its handler still has to make
  req,      \* per thread: the request under way
  \* Orion-LD and the alert receiver
  orion, notices, log

fwVars == <<fw, published, toOrion>>
obVars == <<ob, lock, jobs, req>>
orionVars == <<orion, notices, log>>
fiwareVars == <<events, faults, restarts, lastAlert, fwVars, obVars, orionVars>>

Threads == {"exec", "http"}
NoReq == [kind |-> "none", tries |-> 0]

Event == events < MaxEvents /\ events' = events + 1
Publish(topic) == published' = topic

(* Walls, hull and inner polygons as one message.                          *)
PublishGeometry == Publish("geometry")

-----------------------------------------------------------------------------
(* fiware_bridge_node.cpp.                                                 *)

FwIdle == fw.waiting = "no"

(* pushPalletMap: nothing is sent unless the map is dirty.                 *)
PushPalletMap(f) == [f EXCEPT !.dirty = FALSE]
Pushed(f) == IF f.dirty THEN Append(toOrion, f.pallets) ELSE toOrion

(* ddsTriggerCallback pushes the map, asks the geofence for the contours   *)
(* and waits for the answer in the callback.                               *)
DdsTriggerCallback ==
  /\ FwIdle /\ ob.trigger = "sent"
  /\ ob' = [ob EXCEPT !.trigger = "taken"]
  /\ LET dirty == [fw EXCEPT !.dirty = TRUE] IN
       /\ toOrion' = Pushed(dirty)
       /\ \E there \in BOOLEAN :
            fw' = [PushPalletMap(dirty) EXCEPT !.waiting = IF there THEN "asked" ELSE "no"]
  /\ UNCHANGED <<events, faults, restarts, lastAlert, published, lock, jobs, req, orionVars>>

RepublishGeometryCallback ==
  /\ FwIdle /\ Event
  /\ \E there \in BOOLEAN : fw' = [fw EXCEPT !.waiting = IF there THEN "asked" ELSE "no"]
  /\ UNCHANGED <<faults, restarts, lastAlert, published, toOrion, obVars, orionVars>>

(* The geofence answers with its contours, with none if it has no map or   *)
(* none were set.  The answer reaches the client's queue; the future is    *)
(* completed by the executor, once it is free.                             *)
GetWarehouseContoursService ==
  /\ fw.waiting = "asked"
  /\ fw' = [fw EXCEPT !.waiting = "queued"]
  /\ UNCHANGED <<events, faults, restarts, lastAlert, published, toOrion, obVars, orionVars>>

FutureReady == fw.waiting = "ready"

(* wait_for returns: with the geometry, or after two seconds.              *)
WaitEnds ==
  /\ fw.waiting \in {"asked", "queued", "ready"}
  /\ fw' = [fw EXCEPT !.waiting = "no"]
  /\ IF FutureReady THEN PublishGeometry ELSE UNCHANGED published
  /\ UNCHANGED <<events, faults, restarts, lastAlert, toOrion, obVars, orionVars>>

-----------------------------------------------------------------------------
(* HTTP requests of orion_bridge.py.                                       *)

Busy(t) == jobs[t] # <<>>

(* Begins the first upsert of a job: the entity is created if need be.     *)
FirstRequest(work, created) ==
  IF work = <<>> THEN NoReq ELSE [kind |-> IF created THEN "patch" ELSE "create", tries |-> 0]

Start(t, work) ==
  /\ ~Busy(t)
  /\ jobs' = [jobs EXCEPT ![t] = work]
  /\ req' = [req EXCEPT ![t] = FirstRequest(work, ob'.created)]

(* The default entity has an alert, a geometry and streams (whose values   *)
(* are left out), but no chunks.                                           *)
NewEntity == [exists |-> TRUE, alert |-> FALSE, geometry |-> 0, chunks |-> [c \in {} |-> {}]]

HasAttr(u) == orion.exists /\ (u.attr = "chunk" => u.at \in DOMAIN orion.chunks)

Write(u) ==
  CASE u.attr = "alert" -> [orion EXCEPT !.alert = u.value]
    [] u.attr = "geometry" -> [orion EXCEPT !.geometry = u.value]
    [] u.attr = "stream" -> orion
    [] OTHER -> [orion EXCEPT !.chunks = [c \in DOMAIN @ \cup {u.at} |-> IF c = u.at THEN u.value ELSE @[c]]]

(* What the broker does with a request.                                    *)
Effect(kind, u) ==
  CASE kind = "create" -> IF orion.exists THEN orion ELSE NewEntity
    [] kind = "patch" -> IF HasAttr(u) THEN Write(u) ELSE orion
    [] kind = "post" -> IF orion.exists THEN Write(u) ELSE orion

Notifies(kind, u) == u.attr = "alert" /\ Effect(kind, u).exists /\ kind # "create"

(* The next request of thread t once its current one is answered.          *)
Advance(t, kind, found) ==
  CASE kind = "create" -> /\ req' = [req EXCEPT ![t] = [kind |-> "patch", tries |-> 0]]
                          /\ UNCHANGED jobs
    [] kind = "patch" /\ ~found -> /\ req' = [req EXCEPT ![t] = [kind |-> "post", tries |-> 0]]
                                   /\ UNCHANGED jobs
    [] OTHER -> /\ jobs' = [jobs EXCEPT ![t] = Tail(@)]
                /\ req' = [req EXCEPT ![t] = FirstRequest(Tail(jobs[t]), ob'.created)]

Unlocked(t) == IF t = "http" /\ jobs'[t] = <<>> /\ lock = "http" THEN "free" ELSE lock

(* A request is answered; creating an entity that exists is no failure.    *)
RequestAnswered(t) ==
  /\ Busy(t)
  /\ LET kind == req[t].kind  u == Head(jobs[t]) IN
       /\ orion' = Effect(kind, u)
       /\ notices' = IF Notifies(kind, u) THEN Append(notices, u.value) ELSE notices
       /\ ob' = [ob EXCEPT !.created = @ \/ kind = "create"]
       /\ Advance(t, kind, HasAttr(u))
  /\ lock' = Unlocked(t)
  /\ UNCHANGED <<events, faults, restarts, lastAlert, fwVars, log>>

(* Faulty variant: the last attempt is never made.                         *)
RetryLeftOffByOne(tries) == tries + 1 < MaxRetries

RetryLeft(tries) == tries < MaxRetries

(* A transient failure, before or after the broker acted on the request    *)
(* (that it acts on it later, when the bridge has gone on, is left out).   *)
(* A request that runs out of attempts is given up; the value is lost, the *)
(* creation is tried again with the next upsert.                           *)
RequestFails(t) ==
  /\ Busy(t) /\ faults < MaxFaults /\ faults' = faults + 1
  /\ LET kind == req[t].kind  u == Head(jobs[t]) IN
       /\ \E acted \in BOOLEAN :
            /\ orion' = IF acted THEN Effect(kind, u) ELSE orion
            /\ notices' = IF acted /\ Notifies(kind, u) THEN Append(notices, u.value) ELSE notices
       /\ IF RetryLeft(req[t].tries)
            THEN req' = [req EXCEPT ![t].tries = @ + 1] /\ UNCHANGED <<jobs, ob>>
            ELSE UNCHANGED ob /\ Advance(t, kind, TRUE)
  /\ lock' = Unlocked(t)
  /\ UNCHANGED <<events, restarts, lastAlert, fwVars, log>>

-----------------------------------------------------------------------------
(* Callbacks of orion_bridge.py.                                           *)

Upsert(a, v) == [attr |-> a, at |-> 0, value |-> v]

(* _make_rect_chunks and the loop over the chunks.                         *)
ChunkJob(pallets) ==
  LET s == SetToSeq(pallets)
      n == (Len(s) + ChunkSize - 1) \div ChunkSize
  IN  [k \in 1..n |->
         [attr |-> "chunk", at |-> k - 1,
          value |-> ToSet(SubSeq(s, (k - 1) * ChunkSize + 1,
                                 IF k * ChunkSize < Len(s) THEN k * ChunkSize ELSE Len(s)))]]

(* Streams.  What arrives reaches both bridges; each takes it or, if it is *)
(* throttled, may find that its interval has not passed.                   *)

Stream == <<Upsert("stream", 0)>>

Relay(s, fwTakes, obTakes) ==
  /\ FwIdle /\ ~Busy("exec") /\ Event
  /\ IF fwTakes THEN Publish(s) ELSE UNCHANGED published
  /\ UNCHANGED ob /\ Start("exec", IF obTakes THEN Stream ELSE <<>>)
  /\ UNCHANGED <<faults, restarts, lastAlert, toOrion, lock, orionVars>>

ReportCallback ==
  \E fwDue, obDue \in BOOLEAN : Relay("report", fwDue, obDue) /\ UNCHANGED fw

(* An array without a usable status is not published by the C++ node.      *)
DiagCallback ==
  \E fwDue, obDue, usable \in BOOLEAN : Relay("diag", fwDue /\ usable, obDue) /\ UNCHANGED fw

(* A grid whose size is not width times height is rejected by the C++      *)
(* node.                                                                   *)
HeatmapCallback ==
  \E fwDue, obDue, usable \in BOOLEAN : Relay("heatmap", fwDue /\ usable, obDue) /\ UNCHANGED fw

OdomCallback == \E fwDue \in BOOLEAN : Relay("odom", fwDue, FALSE) /\ UNCHANGED fw

(* The Orion bridge takes the position from TF, if it changed.             *)
TfPositionCallback == Relay("none", FALSE, TRUE) /\ UNCHANGED fw

(* The C++ node publishes only a change of readiness.                      *)
ReadyCallback(b) ==
  /\ fw' = [fw EXCEPT !.ready = IF b THEN "true" ELSE "false"]
  /\ Relay("ready", fw'.ready # fw.ready, TRUE)

ValidationResultCallback == Relay("validation", TRUE, TRUE) /\ UNCHANGED fw

(* An alert reaches both bridges; each publishes only a change.            *)
AlertCallback(b) ==
  /\ FwIdle /\ ~Busy("exec") /\ Event
  /\ lastAlert' = [event |-> events', value |-> b]
  /\ fw' = [fw EXCEPT !.alert = IF b THEN "true" ELSE "false"]
  /\ IF fw'.alert = fw.alert THEN UNCHANGED published ELSE Publish("alert")
  /\ ob' = [ob EXCEPT !.alert = IF b THEN "true" ELSE "false"]
  /\ Start("exec", IF ob'.alert = ob.alert THEN <<>> ELSE <<Upsert("alert", b)>>)
  /\ UNCHANGED <<faults, restarts, toOrion, lock, orionVars>>

(* New contours: the C++ node publishes them; the Orion bridge keeps them  *)
(* under the lock and pushes them, without it, if it is streaming.         *)
ContoursCallback ==
  /\ FwIdle /\ ~Busy("exec") /\ lock = "free" /\ Event
  /\ PublishGeometry
  /\ ob' = [ob EXCEPT !.geometry = events']
  /\ Start("exec", IF ob.streaming THEN <<Upsert("geometry", events')>> ELSE <<>>)
  /\ UNCHANGED <<faults, restarts, lastAlert, fw, toOrion, lock, orionVars>>

(* Faulty variant: the lock is given up before the push.                   *)
HandleSyncRequestUnlocked ==
  /\ ~Busy("http") /\ lock = "free"
  /\ ob' = [ob EXCEPT !.streaming = TRUE]
  /\ Start("http", IF ob.geometry = 0 THEN <<>> ELSE <<Upsert("geometry", ob.geometry)>>)
  /\ UNCHANGED <<events, faults, restarts, lastAlert, fwVars, lock, orionVars>>

(* POST /sync pushes what is kept, all under the lock; the flag it sets at *)
(* the end is read under the lock only.                                    *)
HandleSyncRequest ==
  /\ ~Busy("http") /\ lock = "free"
  /\ ob' = [ob EXCEPT !.streaming = TRUE]
  /\ Start("http", IF ob.geometry = 0 THEN <<>> ELSE <<Upsert("geometry", ob.geometry)>>)
  /\ lock' = IF ob.geometry = 0 THEN "free" ELSE "http"
  /\ UNCHANGED <<events, faults, restarts, lastAlert, fwVars, orionVars>>

Updated(pallets, op, id) == IF op = "DELETE" THEN pallets \ {id} ELSE pallets \cup {id}

(* _push_pallet_map: an empty map is not pushed.                           *)
PushJob(o) == IF o.dirty THEN ChunkJob(o.pallets) ELSE <<>>

(* A map update reaches both bridges; each pushes its map unless it has    *)
(* done so less than two seconds ago.                                      *)
MapUpdatesCallback(op, id) ==
  /\ FwIdle /\ ~Busy("exec") /\ Event
  /\ LET f == [fw EXCEPT !.pallets = Updated(@, op, id), !.dirty = TRUE]
         o == [ob EXCEPT !.pallets = Updated(@, op, id), !.dirty = TRUE]
     IN  \E fwDue, obDue \in BOOLEAN :
           /\ fw' = IF fwDue THEN PushPalletMap(f) ELSE f
           /\ toOrion' = IF fwDue THEN Pushed(f) ELSE toOrion
           /\ ob' = IF obDue THEN [o EXCEPT !.dirty = FALSE] ELSE o
           /\ Start("exec", IF obDue THEN PushJob(o) ELSE <<>>)
  /\ UNCHANGED <<faults, restarts, lastAlert, published, lock, orionVars>>

SendFiwareTrigger ==
  /\ ~Busy("exec") /\ ob.trigger = "no"
  /\ ob' = [ob EXCEPT !.trigger = "sent"]
  /\ UNCHANGED <<events, faults, restarts, lastAlert, fwVars, lock, jobs, req, orionVars>>

(* A full map from the C++ node; an empty one is ignored.                  *)
FiwareMapObstaclesCallback ==
  /\ ~Busy("exec") /\ toOrion # <<>>
  /\ toOrion' = Tail(toOrion)
  /\ UNCHANGED ob
  /\ Start("exec", ChunkJob(Head(toOrion)))
  /\ UNCHANGED <<events, faults, restarts, lastAlert, fw, published, lock, orionVars>>

(* The bridge starts: before it spins, _initial_sync reads the entity and  *)
(* writes it back, streams included, the pallets in new chunks.  If there  *)
(* is none, or it cannot be read, nothing is written.                      *)
NewBridge == [pallets |-> {}, dirty |-> FALSE, alert |-> "none",
              geometry |-> 0, streaming |-> ~BufferMap, created |-> FALSE, trigger |-> "no"]

InitialSync(read) ==
  IF ~read THEN <<>>
  ELSE (IF orion.geometry = 0 THEN <<>> ELSE <<Upsert("geometry", orion.geometry)>>)
       \o <<Upsert("alert", orion.alert)>> \o Stream
       \o ChunkJob(UNION Range(orion.chunks))

Restart ==
  /\ restarts < MaxRestarts /\ restarts' = restarts + 1
  /\ \E read \in {orion.exists, FALSE} :
       /\ ob' = [NewBridge EXCEPT !.created = read]
       /\ jobs' = [t \in Threads |-> IF t = "exec" THEN InitialSync(read) ELSE <<>>]
       /\ req' = [t \in Threads |-> IF t = "exec" THEN FirstRequest(InitialSync(read), read) ELSE NoReq]
  /\ lock' = "free"
  /\ toOrion' = IF toOrion = <<>> THEN <<>> ELSE <<Last(toOrion)>>
  /\ UNCHANGED <<events, faults, lastAlert, fw, published, orionVars>>

(* alert_receiver.py: a notification is logged.                            *)
DoPOST ==
  /\ notices # <<>> /\ notices' = Tail(notices)
  /\ log' = IF Head(notices) THEN "true" ELSE "false"
  /\ UNCHANGED <<events, faults, restarts, lastAlert, fwVars, obVars, orion>>

-----------------------------------------------------------------------------
(* The constructor of the C++ node pushes the pallets it reads; a file     *)
(* without any pushes nothing.                                             *)
LoadPalletsFromJson == IF FilePallets = {} THEN <<>> ELSE <<FilePallets>>

FiwareInit ==
  /\ events = 0 /\ faults = 0 /\ restarts = 0 /\ lastAlert = [event |-> 0, value |-> FALSE]
  /\ fw = [pallets |-> FilePallets, dirty |-> FALSE, alert |-> "none",
           ready |-> "none", waiting |-> "no"]
  /\ published = "none"
  /\ toOrion = LoadPalletsFromJson
  /\ ob = NewBridge /\ lock = "free"
  /\ jobs = [t \in Threads |-> <<>>] /\ req = [t \in Threads |-> NoReq]
  /\ orion = [NewEntity EXCEPT !.exists = FALSE] /\ notices = <<>> /\ log = "none"

FiwareNext ==
  \/ ReportCallback \/ OdomCallback \/ TfPositionCallback \/ DiagCallback \/ HeatmapCallback
  \/ (\E b \in BOOLEAN : AlertCallback(b) \/ ReadyCallback(b))
  \/ ValidationResultCallback \/ ContoursCallback
  \/ (\E op \in {"INSERT", "DELETE"}, id \in Pallets : MapUpdatesCallback(op, id))
  \/ DdsTriggerCallback \/ RepublishGeometryCallback \/ GetWarehouseContoursService \/ WaitEnds
  \/ HandleSyncRequest \/ SendFiwareTrigger \/ FiwareMapObstaclesCallback
  \/ (\E t \in Threads : RequestAnswered(t) \/ RequestFails(t))
  \/ Restart \/ DoPOST

(* Threads go on, timeouts expire and the broker is reached again after a  *)
(* transient failure.                                                      *)
FiwareFairness ==
  /\ WF_fiwareVars(WaitEnds) /\ WF_fiwareVars(DoPOST) /\ WF_fiwareVars(SendFiwareTrigger)
  /\ WF_fiwareVars(FiwareMapObstaclesCallback) /\ WF_fiwareVars(DdsTriggerCallback)
  /\ \A t \in Threads : WF_fiwareVars(RequestAnswered(t))

FiwareSpec == FiwareInit /\ [][FiwareNext]_fiwareVars /\ FiwareFairness
-----------------------------------------------------------------------------
(* Properties.                                                             *)

(* An alert, raised or cleared, is logged by the alert receiver unless     *)
(* another one follows or the bridge is restarted, although requests fail, *)
(* before or after they took effect, and are repeated up to the retry      *)
(* budget (_urlopen_with_retry).                                           *)
AlertLogged ==
  \A n \in 1..MaxEvents, b \in BOOLEAN :
    lastAlert = [event |-> n, value |-> b]
      ~> (lastAlert.event # n \/ restarts > 0 \/ log = (IF b THEN "true" ELSE "false"))

(* The geometry in Orion-LD is never replaced by an older one, although    *)
(* two threads push it (_handle_sync_request and _contours_callback) and a *)
(* restarted bridge writes back what it read.                              *)
GeometryNeverOlder == [][orion'.geometry >= orion.geometry]_fiwareVars

-----------------------------------------------------------------------------
(* What the documentation says and the code does not do: TLC refutes it.   *)

(* A trigger makes the C++ node publish the geometry if the geofence       *)
(* answers (orion_bridge.py: "Trigger FiwareBridgeNode to republish its    *)
(* full map state (pallet map + geometry)").                               *)
AnswerIsUsed == [][fw.waiting = "queued" /\ fw'.waiting = "no" => published' = "geometry"]_fiwareVars
=============================================================================
