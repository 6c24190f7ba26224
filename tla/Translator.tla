----------------------------- MODULE Translator -----------------------------
(***************************************************************************)
(* The message translator: message_translator_node.cpp,                    *)
(* delivery_strategy.cpp, tf_replay_manager.cpp, aabb_converter.cpp.       *)
(*                                                                         *)
(* JSON updates are collected until the stream falls silent, collapsed to  *)
(* the obstacles that remain and handed to the geofence of every AGV by a  *)
(* flush thread; sensor data waits for the first successful flush and is   *)
(* then replayed; orders wait for the end of the initialisation or a       *)
(* delay.  Callbacks exclude each other (one callback group); the flush    *)
(* thread interleaves with them.                                           *)
(*                                                                         *)
(* Transforms, scans and validations are buffered, replayed and relayed    *)
(* alike and are one stream here.  A geometry is the number of the update  *)
(* it came with.                                                           *)
(***************************************************************************)
EXTENDS Naturals, Sequences, FiniteSets, SequencesExt

CONSTANTS
  Agvs,        \* AGVs, each with a geofence
  Ids,         \* obstacle ids
  Configs,     \* parameter sets, each the options that are on: buffering, service, wait
  ChunkSize,   \* service_chunk_size
  MaxMessages, \* bound: obstacle updates, sensor messages and orders, together
  MaxFaults    \* bound: services missing, silent or rejecting

ASSUME TranslatorAssumption ==
  /\ IsFiniteSet(Ids)
  /\ Configs \subseteq SUBSET {"buffering", "service", "wait"}
  /\ ChunkSize \in Nat /\ MaxMessages \in Nat /\ MaxFaults \in Nat

VARIABLES
  cfg, received, faults,
  exec,        \* what the executor is in the middle of
  buffer,      \* buffered_updates_
  silent,      \* buffer_timeout has passed since last_update_wall_time_
  requested,   \* flush_requested_
  flushing,    \* is_flushing_
  flushed,     \* buffer_flushed_
  initReady,   \* init_ready_published_
  flusher,     \* the flush thread
  batch,       \* updates_to_send
  chunks,      \* what is left of it
  success,     \* all_success of this delivery
  inbox,       \* updates on their way to each geofence
  answers,     \* answers to the chunk in delivery
  fences,      \* the map of each geofence
  wanted,      \* the map all updates received so far amount to
  readyAgvs, allReady,
  orders,      \* buffered, sent, flushed flag and timer of the order relay
  scans,       \* buffered, published and the state of the replay
  closing      \* shutdown_, and whether the destructor has returned

mapVars == <<buffer, silent, requested, flushed, initReady>>
flushVars == <<flushing, flusher, batch, chunks, success>>
agvVars == <<inbox, answers, fences, faults>>
readyVars == <<readyAgvs, allReady>>
vars == <<cfg, received, exec, mapVars, flushVars, agvVars, wanted, readyVars, orders, scans, closing>>

Opt(name) == name \in cfg
More == received.updates + received.scans + received.orders < MaxMessages
Running == closing = "no"

-----------------------------------------------------------------------------
(* Obstacle updates.                                                       *)

Absent == [ver |-> 0, here |-> FALSE]

(* A message is what parseObstacleUpdates finds usable in it, nothing      *)
(* perhaps: an item with an unknown operation, or an INSERT without a box, *)
(* is skipped, the others are kept.                                        *)
Items == [op : {"INSERT", "DELETE"}, id : Ids]
Bulk == SetToSeq([op : {"INSERT"}, id : Ids])
Messages == {<<>>, Bulk} \cup {<<i>> : i \in Items}

Updates == [id : Ids, ver : Nat, here : BOOLEAN]

ParseObstacleUpdates(msg, ver) ==
  [k \in 1..Len(msg) |-> [id |-> msg[k].id, ver |-> ver, here |-> msg[k].op = "INSERT"]]

(* Applying updates in order: the last one of an obstacle counts.          *)
Apply(map, us) ==
  [i \in Ids |->
     LET of == {k \in 1..Len(us) : us[k].id = i}
     IN  IF of = {} THEN map[i] ELSE [ver |-> us[Max(of)].ver, here |-> us[Max(of)].here]]

(* Faulty variant: an update that need not be held never meets the buffer. *)
PublishesDirectlyAlways == TRUE

PublishesDirectly == ~Opt("service")

ObstacleUpdatesCallback(msg) ==
  /\ Running /\ exec = "idle" /\ More
  /\ received' = [received EXCEPT !.updates = @ + 1]
  /\ LET us == ParseObstacleUpdates(msg, received.updates + 1)
         hold == Opt("buffering") \/ (Opt("wait") /\ ~allReady)
     IN  /\ wanted' = Apply(wanted, us)
         /\ IF us # <<>> /\ (hold \/ ~PublishesDirectly)
              THEN buffer' = buffer \o us /\ silent' = FALSE
              ELSE UNCHANGED <<buffer, silent>>
         /\ requested' = (requested \/ (us # <<>> /\ ~hold /\ ~PublishesDirectly))
         /\ inbox' = IF us = <<>> \/ hold \/ ~PublishesDirectly THEN inbox
                     ELSE [a \in Agvs |-> Append(inbox[a], [us |-> us, awaited |-> FALSE])]
  /\ UNCHANGED <<cfg, exec, flushed, initReady, flushVars, answers, fences, faults, readyVars, orders, scans, closing>>

(* buffer_timeout passes without an update.                                *)
Silence ==
  /\ Running /\ ~silent /\ silent' = TRUE
  /\ UNCHANGED <<cfg, received, exec, buffer, requested, flushed, initReady, flushVars, agvVars, wanted, readyVars, orders, scans, closing>>

FlushBufferedOrders(o) ==
  IF o.flushed THEN o
  ELSE [o EXCEPT !.flushed = TRUE, !.sent = @ \o o.buffered, !.buffered = <<>>]

FlushDue == buffer # <<>> /\ silent /\ (Opt("wait") => allReady)
InitComplete == buffer = <<>> /\ flushed /\ ~initReady

(* The timer looks at is_flushing_ first ...  A tick that finds nothing to *)
(* do changes nothing and is left out.                                     *)
BufferTimerBegins ==
  /\ Running /\ exec = "idle" /\ Opt("buffering") /\ ~flushing
  /\ (FlushDue /\ ~requested) \/ (flushed /\ ~initReady)
  /\ exec' = "timer"
  /\ UNCHANGED <<cfg, received, mapVars, flushVars, agvVars, wanted, readyVars, orders, scans, closing>>

(* ... and at the buffer later, when a flush may have begun.               *)
BufferTimerEnds ==
  /\ exec = "timer" /\ exec' = "idle"
  /\ requested' = (requested \/ FlushDue)
  /\ initReady' = (initReady \/ InitComplete)
  /\ orders' = IF InitComplete THEN FlushBufferedOrders(orders) ELSE orders
  /\ UNCHANGED <<cfg, received, buffer, silent, flushed, flushVars, agvVars, wanted, readyVars, scans, closing>>

-----------------------------------------------------------------------------
(* The flush thread.                                                       *)

(* wait() tests its condition under the mutex ...                          *)
FlusherChecks ==
  /\ flusher = "check"
  /\ CASE closing # "no" -> flusher' = "ended" /\ UNCHANGED requested
       [] closing = "no" /\ requested -> flusher' = "called" /\ requested' = FALSE
       [] OTHER -> flusher' = "blocking" /\ UNCHANGED requested
  /\ UNCHANGED <<cfg, received, exec, buffer, silent, flushed, initReady, flushing, batch, chunks, success, agvVars, wanted, readyVars, orders, scans, closing>>

(* ... and then blocks.                                                    *)
FlusherBlocks ==
  /\ flusher = "blocking"
  /\ flusher' = "blocked"
  /\ UNCHANGED <<cfg, received, exec, mapVars, flushing, batch, chunks, success, agvVars, wanted, readyVars, orders, scans, closing>>

FlusherWakes ==
  /\ flusher = "blocked" /\ requested
  /\ flusher' = "check"
  /\ UNCHANGED <<cfg, received, exec, mapVars, flushing, batch, chunks, success, agvVars, wanted, readyVars, orders, scans, closing>>

(* The obstacles that survive the updates, each as one INSERT; what was    *)
(* deleted is left out.                                                    *)
Collapse(us) ==
  LET final == Apply([i \in Ids |-> Absent], us)
  IN  SetToSeq({[id |-> i, ver |-> final[i].ver, here |-> TRUE] : i \in {j \in Ids : final[j].here}})

(* service: chunks of ChunkSize, a single one if that is not positive.     *)
Chunked(us) ==
  IF ~Opt("service") \/ ChunkSize = 0 \/ Len(us) <= ChunkSize THEN <<us>>
  ELSE [k \in 1..((Len(us) + ChunkSize - 1) \div ChunkSize) |->
          SubSeq(us, (k - 1) * ChunkSize + 1,
                 IF k * ChunkSize < Len(us) THEN k * ChunkSize ELSE Len(us))]

FlushBuffer ==
  /\ flusher = "called"
  /\ IF buffer = <<>>
       THEN flusher' = "check" /\ UNCHANGED <<flushing, batch, chunks, success, buffer, silent>>
       ELSE /\ flusher' = "deliver" /\ flushing' = TRUE /\ success' = TRUE
            /\ batch' = Collapse(buffer) /\ chunks' = Chunked(Collapse(buffer))
            /\ buffer' = <<>> /\ silent' = FALSE
  /\ UNCHANGED <<cfg, received, exec, requested, flushed, initReady, agvVars, wanted, readyVars, orders, scans, closing>>

(* The topic strategy publishes to all and has no answer to wait for: it   *)
(* always succeeds.                                                        *)
PublishedToAll(there) == ~Opt("service") /\ there = Agvs

(* deliverChunk asks all AGVs for their service and sends to each that has *)
(* it; one without it fails the chunk, but not what was sent.              *)
DeliverChunk ==
  /\ flusher = "deliver" /\ chunks # <<>>
  /\ \E there \in SUBSET Agvs :
       /\ Opt("service") \/ PublishedToAll(there)
       /\ there # Agvs => faults < MaxFaults
       /\ faults' = IF there = Agvs THEN faults ELSE faults + 1
       /\ inbox' = [a \in Agvs |-> IF a \in there
                      THEN Append(inbox[a], [us |-> Head(chunks), awaited |-> Opt("service") /\ there = Agvs])
                      ELSE inbox[a]]
       /\ IF Opt("service") /\ there = Agvs
            THEN flusher' = "await" /\ UNCHANGED <<chunks, success>>
            ELSE /\ chunks' = Tail(chunks) /\ success' = (success /\ there = Agvs)
                 /\ UNCHANGED flusher
  /\ answers' = [a \in Agvs |-> "none"]
  /\ UNCHANGED <<cfg, received, exec, mapVars, flushing, batch, fences, wanted, readyVars, orders, scans, closing>>

Forget(s) == [k \in 1..Len(s) |-> [s[k] EXCEPT !.awaited = FALSE]]

(* All futures are ready, or service_timeout passes for those that are not.*)
ChunkEnds ==
  /\ flusher = "await"
  /\ LET late == \E a \in Agvs : answers[a] = "none" IN
       /\ late => faults < MaxFaults
       /\ faults' = IF late THEN faults + 1 ELSE faults
  /\ flusher' = "deliver" /\ chunks' = Tail(chunks)
  /\ success' = (success /\ \A a \in Agvs : answers[a] = "ok")
  /\ inbox' = [a \in Agvs |-> Forget(inbox[a])]
  /\ UNCHANGED <<cfg, received, exec, mapVars, flushing, batch, answers, fences, wanted, readyVars, orders, scans, closing>>

(* What could not be delivered goes back in front of what came since.      *)
PutBack(us) == us \o buffer

(* startReplay, if there is anything to replay.                            *)
StartReplay == IF scans.buffered = <<>> THEN scans ELSE [scans EXCEPT !.replaying = TRUE]

(* Faulty variant: the flush counts as done although an AGV missed it.     *)
DeliveryEndsRegardless ==
  /\ flusher = "deliver" /\ chunks = <<>>
  /\ flusher' = "complete" /\ flushed' = TRUE
  /\ UNCHANGED <<cfg, received, exec, buffer, silent, scans, requested, initReady, flushing, batch, chunks, success, agvVars, wanted, readyVars, orders, closing>>

(* A first success also starts the replay of what was buffered.            *)
DeliveryEnds ==
  /\ flusher = "deliver" /\ chunks = <<>>
  /\ flusher' = "complete"
  /\ IF success
       THEN /\ flushed' = TRUE
            /\ scans' = IF flushed THEN scans ELSE StartReplay
            /\ UNCHANGED <<buffer, silent>>
       ELSE /\ buffer' = PutBack(batch) /\ silent' = FALSE
            /\ UNCHANGED <<flushed, scans>>
  /\ UNCHANGED <<cfg, received, exec, requested, initReady, flushing, batch, chunks, success, agvVars, wanted, readyVars, orders, closing>>

(* The completion service has answered or has not (its answer is only      *)
(* logged): is_flushing_ is cleared.                                       *)
FlushEnds ==
  /\ flusher = "complete"
  /\ flusher' = "check" /\ flushing' = FALSE
  /\ UNCHANGED <<cfg, received, exec, mapVars, batch, chunks, success, agvVars, wanted, readyVars, orders, scans, closing>>

-----------------------------------------------------------------------------
(* The geofences take updates in the order they were sent.                 *)

Serve(a) ==
  /\ inbox[a] # <<>>
  /\ \E reject \in BOOLEAN :
       /\ reject => faults < MaxFaults /\ Head(inbox[a]).awaited
       /\ faults' = IF reject THEN faults + 1 ELSE faults
       /\ fences' = IF reject THEN fences ELSE [fences EXCEPT ![a] = Apply(@, Head(inbox[a]).us)]
       /\ answers' = IF Head(inbox[a]).awaited
                       THEN [answers EXCEPT ![a] = IF reject THEN "no" ELSE "ok"] ELSE answers
  /\ inbox' = [inbox EXCEPT ![a] = Tail(@)]
  /\ UNCHANGED <<cfg, received, exec, mapVars, flushVars, wanted, readyVars, orders, scans, closing>>

(* geofenceReadyCallback and checkAllGeofencesReady; the second call for   *)
(* an AGV returns early.                                                   *)
GeofenceReadyCallback(a) ==
  /\ Running /\ exec = "idle" /\ Opt("wait") /\ a \notin readyAgvs
  /\ readyAgvs' = readyAgvs \cup {a}
  /\ LET complete == ~allReady /\ Cardinality(readyAgvs') >= Cardinality(Agvs) IN
       allReady' = (allReady \/ complete) /\ requested' = (requested \/ complete)
  /\ UNCHANGED <<cfg, received, exec, buffer, silent, flushed, initReady, flushVars, agvVars, wanted, orders, scans, closing>>

GeofenceReadyTimeoutCallback ==
  /\ Running /\ exec = "idle" /\ ~allReady
  /\ allReady' = TRUE /\ requested' = TRUE
  /\ UNCHANGED <<cfg, received, exec, buffer, silent, flushed, initReady, flushVars, agvVars, wanted, readyAgvs, orders, scans, closing>>

-----------------------------------------------------------------------------
(* Orders.                                                                 *)

AgvOrderRelayCallback ==
  /\ Running /\ exec = "idle" /\ More
  /\ received' = [received EXCEPT !.orders = @ + 1]
  /\ orders' = IF orders.flushed THEN [orders EXCEPT !.sent = Append(@, received'.orders)]
               ELSE [orders EXCEPT !.buffered = Append(@, received'.orders),
                                   !.timer = IF @ = "off" THEN "on" ELSE @]
  /\ UNCHANGED <<cfg, exec, mapVars, flushVars, agvVars, wanted, readyVars, scans, closing>>

(* Faulty variant: the one-shot timer fires only before initialisation.    *)
OrderRelayTimerWhileNotReady ==
  /\ Running /\ exec = "idle" /\ orders.timer = "on"
  /\ orders' = [FlushBufferedOrders([orders EXCEPT !.flushed = @ \/ flushed]) EXCEPT !.timer = "fired"]
  /\ UNCHANGED <<cfg, received, exec, mapVars, flushVars, agvVars, wanted, readyVars, scans, closing>>

OrderRelayTimerCallback ==
  /\ Running /\ exec = "idle" /\ orders.timer = "on"
  /\ orders' = [FlushBufferedOrders(orders) EXCEPT !.timer = "fired"]
  /\ UNCHANGED <<cfg, received, exec, mapVars, flushVars, agvVars, wanted, readyVars, scans, closing>>

-----------------------------------------------------------------------------
(* Sensor data.  A callback that found buffer_flushed_ false buffers the   *)
(* message in a second step.                                               *)

Held == Opt("buffering") /\ ~flushed

LaserScanCallback ==
  /\ Running /\ exec = "idle" /\ More
  /\ received' = [received EXCEPT !.scans = @ + 1]
  /\ IF Held
       THEN exec' = "scan" /\ UNCHANGED scans
       ELSE scans' = [scans EXCEPT !.published = Append(@, received'.scans)] /\ UNCHANGED exec
  /\ UNCHANGED <<cfg, mapVars, flushVars, agvVars, wanted, readyVars, orders, closing>>

BufferLaserScan ==
  /\ exec = "scan" /\ exec' = "idle"
  /\ scans' = [scans EXCEPT !.buffered = Append(@, received.scans)]
  /\ UNCHANGED <<cfg, received, mapVars, flushVars, agvVars, wanted, readyVars, orders, closing>>

(* publishTransform, publishLaserScan, publishValidation: the next one.    *)
Replayed == [scans EXCEPT !.published = Append(@, Head(scans.buffered)), !.buffered = Tail(@)]

(* The replay publishes in order of the stamps and ends by clearing what   *)
(* it has replayed.                                                        *)
ReplayTimerCallback ==
  /\ Running /\ exec = "idle" /\ scans.replaying
  /\ scans' = IF scans.buffered = <<>> THEN [scans EXCEPT !.replaying = FALSE] ELSE Replayed
  /\ UNCHANGED <<cfg, received, exec, mapVars, flushVars, agvVars, wanted, readyVars, orders, closing>>

-----------------------------------------------------------------------------
(* The destructor sets shutdown_ without the mutex and notifies: a thread  *)
(* that has tested the condition and not yet blocked misses it, one that   *)
(* is blocked does not.                                                    *)
Destroy ==
  /\ Running /\ exec = "idle"
  /\ closing' = "joining"
  /\ flusher' = IF flusher = "blocked" THEN "check" ELSE flusher
  /\ UNCHANGED <<cfg, received, exec, mapVars, flushing, batch, chunks, success, agvVars, wanted, readyVars, orders, scans>>

Joined ==
  /\ closing = "joining" /\ flusher = "ended" /\ closing' = "done"
  /\ UNCHANGED <<cfg, received, exec, mapVars, flushVars, agvVars, wanted, readyVars, orders, scans>>

-----------------------------------------------------------------------------
Init ==
  /\ cfg \in Configs
  /\ received = [updates |-> 0, scans |-> 0, orders |-> 0] /\ faults = 0
  /\ exec = "idle" /\ buffer = <<>> /\ silent = FALSE
  /\ requested = FALSE /\ flushing = FALSE /\ flushed = FALSE /\ initReady = FALSE
  /\ flusher = "check" /\ batch = <<>> /\ chunks = <<>> /\ success = TRUE
  /\ inbox = [a \in Agvs |-> <<>>] /\ answers = [a \in Agvs |-> "none"]
  /\ fences = [a \in Agvs |-> [i \in Ids |-> Absent]] /\ wanted = [i \in Ids |-> Absent]
  /\ readyAgvs = {} /\ allReady = ~Opt("wait")
  /\ orders = [buffered |-> <<>>, sent |-> <<>>, flushed |-> FALSE, timer |-> "off"]
  /\ scans = [buffered |-> <<>>, published |-> <<>>, replaying |-> FALSE]
  /\ closing = "no"

BufferTimer == BufferTimerBegins \/ BufferTimerEnds
Flusher == FlusherChecks \/ FlusherBlocks \/ FlusherWakes \/ FlushBuffer \/ DeliverChunk \/ ChunkEnds \/ DeliveryEnds \/ FlushEnds

Next ==
  \/ (\E msg \in Messages : ObstacleUpdatesCallback(msg))
  \/ Silence \/ BufferTimer \/ Flusher
  \/ (\E a \in Agvs : Serve(a) \/ GeofenceReadyCallback(a))
  \/ GeofenceReadyTimeoutCallback
  \/ AgvOrderRelayCallback \/ OrderRelayTimerCallback
  \/ LaserScanCallback \/ BufferLaserScan \/ ReplayTimerCallback
  \/ Destroy \/ Joined

(* Timers fire and threads run; a geofence that is there takes what it is  *)
(* sent.                                                                   *)
Fairness ==
  /\ WF_vars(Silence) /\ WF_vars(BufferTimerBegins) /\ WF_vars(BufferTimerEnds)
  /\ WF_vars(Flusher) /\ \A a \in Agvs : WF_vars(Serve(a))
  /\ WF_vars(GeofenceReadyTimeoutCallback) /\ WF_vars(OrderRelayTimerCallback)
  /\ WF_vars(BufferLaserScan) /\ WF_vars(ReplayTimerCallback) /\ WF_vars(Joined)

Spec == Init /\ [][Next]_vars /\ Fairness

-----------------------------------------------------------------------------
(* Properties.                                                             *)

(* A geofence never replaces the geometry of an obstacle by an older one,  *)
(* although a failed delivery is sent again after newer updates came in,   *)
(* and requests the translator gave up on are served late (flushBuffer).   *)
NeverOlder ==
  [][\A a \in Agvs, i \in Ids : fences'[a][i].ver >= fences[a][i].ver]_vars

(* With buffering, every obstacle that is inserted reaches every geofence, *)
(* whatever fails on the way, unless it is updated again or the node ends  *)
(* (bufferTimerCallback retries).                                          *)
InsertsArrive ==
  \A i \in Ids, v \in 1..MaxMessages :
    (Opt("buffering") /\ wanted[i] = [ver |-> v, here |-> TRUE])
      ~> (wanted[i].ver # v \/ ~Running \/ \A a \in Agvs : fences[a][i] = wanted[i])

(* The relay always catches up: every order received is relayed, once and  *)
(* in the order of arrival, whether the end of the initialisation or the   *)
(* delay comes first (flushBufferedOrders).                                *)
OrdersArrive ==
  []<>(~Running \/ orders.sent = [k \in 1..received.orders |-> k])

-----------------------------------------------------------------------------
(* What the documentation says and the code does not do: TLC refutes it.   *)

(* initialization_ready is published when every update received has been   *)
(* delivered to every geofence (bufferTimerCallback: "once ALL map data    *)
(* has been flushed").                                                     *)
ReadyMeansDelivered ==
  [][initReady' /\ ~initReady =>
       \A a \in Agvs, i \in Ids : fences[a][i].here = wanted[i].here]_vars
=============================================================================
