---------------------------- MODULE SkillBridge ----------------------------
(***************************************************************************)
(* Skills and tasks: skill_bridge_node.cpp, task_runner.cpp/.hpp and       *)
(* task_examples_node.cpp.                                                 *)
(*                                                                         *)
(* A task is a list of steps; most of them call a skill, an action the     *)
(* bridge serves by calling a service of the geofence node.  Both waits    *)
(* have a deadline and nothing is withdrawn when it passes: the goal stays *)
(* with the bridge, the request with the geofence.  The task runs in a     *)
(* thread of its own; triggers and cancel are services of one mutually     *)
(* exclusive group.                                                        *)
(*                                                                         *)
(* The nine action servers share the bridge's default group, so a cancel   *)
(* request for a goal waits until the goal has ended, and is_canceling()   *)
(* is never true in a handler.                                             *)
(***************************************************************************)
EXTENDS Naturals, Sequences, SequencesExt

CONSTANTS
  MaxEvents,   \* bound: triggers, goals of other clients and crashes, together
  None

ASSUME SkillAssumption == MaxEvents \in Nat

VARIABLES
  thread,     \* task_thread_: "none", "starting", "begun", "next", "calling", "ended"
  task,       \* the task the thread runs
  step,       \* its current step
  outcome,    \* the last final status published
  active,     \* active_
  cancelled,  \* cancel_requested_
  handler,    \* the trigger that waits in join(), None if no one does
  promised,   \* the last cancel answered "Cancel requested" for this task
  goals,      \* goals the bridge has not taken up, oldest first
  busy,       \* the goal whose handler runs
  requests,   \* requests on their way to the geofence, oldest first
  phase,      \* of that handler: "discover", "sent" or "answered"
  reply,      \* the answer to its request
  result,     \* what the thread's goal ended with
  fence,      \* the geofence node as its services show it
  last,       \* the last setting sent to each service and whether it was confirmed
  spent       \* triggers, other goals and crashes so far

taskVars == <<thread, task, step, outcome, active, cancelled, handler, promised>>
bridgeVars == <<goals, busy, requests, phase, reply, last>>
vars == <<taskVars, bridgeVars, result, fence, spent>>

-----------------------------------------------------------------------------
(* Tasks.                                                                  *)

Step(name, skill, arg) == [name |-> name, skill |-> skill, arg |-> arg]
Mock(name) == Step(name, None, None)

BuildSafeNavigationTask ==
  <<Step("get_map_info", "get_map_info", None),
    Step("validate_path", "validate_path", None),
    Mock("navigate")>>

BuildCorridorCrossingTask ==
  <<Step("check_corridor", "get_area_state", None),
    Step("lock_corridor", "set_area_state", TRUE),
    Step("tighten_safety", "set_safety_radius", "narrow"),
    Step("validate_path", "validate_path", None),
    Mock("navigate_corridor"),
    Step("restore_safety", "set_safety_radius", "normal"),
    Step("unlock_corridor", "set_area_state", FALSE)>>

BuildMaintenanceModeTask ==
  <<Step("disable_geofence", "set_geofence_enabled", FALSE),
    Mock("navigate_home"),
    Mock("wait_maintenance"),
    Step("enable_geofence", "set_geofence_enabled", TRUE),
    Step("verify_health", "get_map_info", None)>>

Tasks == {BuildSafeNavigationTask, BuildCorridorCrossingTask, BuildMaintenanceModeTask}

(* What a step makes of the result of its skill; None is a null result.  A *)
(* blocked path and a failed restore or unlock are only logged.            *)
StepOk(s, res) ==
  CASE s.name \in {"restore_safety", "unlock_corridor"} -> TRUE
    [] s.name = "validate_path" -> res # None
    [] s.name = "check_corridor" -> res = FALSE
    [] OTHER -> res = TRUE

-----------------------------------------------------------------------------
(* The runner's thread.                                                    *)

Here == task[step]

(* run(), first statement after the lock.                                  *)
RunStart ==
  /\ thread = "starting"
  /\ thread' = "begun" /\ active' = TRUE
  /\ UNCHANGED <<task, step, outcome, cancelled, handler, promised, bridgeVars, result, fence, spent>>

(* ... and the second one, which drops a cancel that came in between.      *)
RunReset ==
  /\ thread = "begun"
  /\ thread' = "next" /\ cancelled' = FALSE /\ step' = 1
  /\ UNCHANGED <<task, outcome, active, handler, promised, bridgeVars, result, fence, spent>>

Finish(status) ==
  /\ thread' = "ended" /\ outcome' = status /\ active' = FALSE
  /\ UNCHANGED <<task, step, cancelled, handler, promised>>

(* The head of the loop; a step that needs a skill sends its goal.         *)
RunNext ==
  /\ thread = "next"
  /\ IF step > Len(task) THEN Finish("SUCCEEDED") /\ UNCHANGED <<goals, result>>
     ELSE IF cancelled THEN Finish("CANCELLED") /\ UNCHANGED <<goals, result>>
     ELSE IF Here.skill = None
       THEN /\ step' = step + 1
            /\ UNCHANGED <<thread, task, outcome, active, cancelled, handler, promised, goals, result>>
       ELSE /\ thread' = "calling" /\ result' = None
            /\ goals' = Append(goals, [skill |-> Here.skill, arg |-> Here.arg, awaited |-> TRUE])
            /\ UNCHANGED <<task, step, outcome, active, cancelled, handler, promised>>
  /\ UNCHANGED <<busy, requests, phase, reply, last, fence, spent>>

(* Faulty variant: a failed step is tried again.                           *)
StepEndsRetries(res) ==
  /\ thread' = "next" /\ step' = IF StepOk(Here, res) THEN step + 1 ELSE step
  /\ UNCHANGED <<task, outcome, active, cancelled, handler, promised>>

StepEnds(res) ==
  IF StepOk(Here, res)
    THEN /\ thread' = "next" /\ step' = step + 1
         /\ UNCHANGED <<task, outcome, active, cancelled, handler, promised>>
    ELSE Finish("FAILED")

(* callSkillBlocking: the result arrives ...                               *)
CallReturns ==
  /\ thread = "calling" /\ result # None
  /\ StepEnds(result[1])
  /\ result' = None
  /\ UNCHANGED <<bridgeVars, fence, spent>>

Abandoned(g) == IF g = None THEN None ELSE [g EXCEPT !.awaited = FALSE]

(* ... or one of its three waits runs out.  The goal is not cancelled.     *)
CallTimesOut ==
  /\ thread = "calling"
  /\ StepEnds(None)
  /\ result' = None
  /\ goals' = [i \in 1..Len(goals) |-> Abandoned(goals[i])]
  /\ busy' = Abandoned(busy)
  /\ UNCHANGED <<requests, phase, reply, last, fence, spent>>

(* No server within five seconds: nothing was sent.                        *)
CallFindsNoServer ==
  /\ thread = "next" /\ step <= Len(task) /\ ~cancelled /\ Here.skill # None
  /\ StepEnds(None)
  /\ UNCHANGED <<bridgeVars, result, fence, spent>>

-----------------------------------------------------------------------------
(* The trigger services.  launchTask looks at active_, which the thread    *)
(* sets, and so may find it still false after a launch; the join then      *)
(* waits for the task launched before.                                     *)

LaunchTask(t) ==
  /\ handler = None /\ spent < MaxEvents
  /\ spent' = spent + 1
  /\ IF active THEN UNCHANGED handler ELSE handler' = t
  /\ UNCHANGED <<thread, task, step, outcome, active, cancelled, promised, bridgeVars, result, fence>>

(* join() returns and the new thread starts.                               *)
ThreadStarts ==
  /\ handler # None /\ thread \in {"none", "ended"}
  /\ thread' = "starting" /\ task' = handler /\ handler' = None
  /\ step' = 1 /\ promised' = FALSE
  /\ UNCHANGED <<outcome, active, cancelled, bridgeVars, result, fence, spent>>

HandleCancel ==
  /\ handler = None /\ active
  /\ cancelled' = TRUE /\ promised' = TRUE
  /\ UNCHANGED <<thread, task, step, outcome, active, handler, bridgeVars, result, fence, spent>>

-----------------------------------------------------------------------------
(* The bridge.                                                             *)

(* The nine handlers differ in whether the skill makes a setting, and in   *)
(* what they report when the service did not answer: a path counts as      *)
(* blocked, an area as unlocked.                                           *)
Handles(setting, noAnswer) == [setting |-> setting, noAnswer |-> noAnswer]

HandleValidatePath == Handles(FALSE, TRUE)
HandleUpdateMap == Handles(FALSE, FALSE)
HandleSetAreaState == Handles(TRUE, FALSE)
HandleSetSafetyRadius == Handles(TRUE, FALSE)
HandleUpdateWarehouseLayout == Handles(FALSE, FALSE)
HandleGetAreaState == Handles(FALSE, FALSE)
HandleGetSafetyRadius == Handles(FALSE, "unknown")
HandleGetMapInfo == Handles(FALSE, FALSE)
HandleSetGeofenceEnabled == Handles(TRUE, FALSE)

Handler ==
  [validate_path |-> HandleValidatePath, update_map |-> HandleUpdateMap,
   set_area_state |-> HandleSetAreaState, set_safety_radius |-> HandleSetSafetyRadius,
   update_warehouse_layout |-> HandleUpdateWarehouseLayout,
   get_area_state |-> HandleGetAreaState, get_safety_radius |-> HandleGetSafetyRadius,
   get_map_info |-> HandleGetMapInfo, set_geofence_enabled |-> HandleSetGeofenceEnabled]

Skills == DOMAIN Handler
Settings == {k \in Skills : Handler[k].setting}
NoAnswer(skill) == Handler[skill].noAnswer

(* What a client may send.                                                 *)
Args(skill) ==
  IF skill = "set_safety_radius" THEN {"narrow", "normal"}
  ELSE IF skill \in Settings THEN BOOLEAN ELSE {None}

GoalsOf(skill) == [skill : {skill}, arg : Args(skill), awaited : BOOLEAN]

ASSUME NoneAssumption == \A k \in Skills : None \notin GoalsOf(k)

Oldest(s, i, f(_)) == \A j \in 1..(i - 1) : f(s[j]) # f(s[i])

(* An action server takes up its oldest goal; the handlers exclude each    *)
(* other.                                                                  *)
TakeGoal ==
  /\ busy = None
  /\ \E i \in 1..Len(goals) :
       /\ Oldest(goals, i, LAMBDA g : g.skill)
       /\ busy' = goals[i] /\ goals' = RemoveAt(goals, i)
  /\ phase' = "discover"
  /\ UNCHANGED <<taskVars, requests, reply, last, result, fence, spent>>

(* callService: the service is there and the request is sent ...           *)
SendRequest ==
  /\ busy # None /\ phase = "discover" /\ fence.up
  /\ phase' = "sent"
  /\ requests' = Append(requests, [busy EXCEPT !.awaited = TRUE])
  /\ last' = IF busy.skill \in Settings
               THEN [last EXCEPT ![busy.skill] = [arg |-> busy.arg, confirmed |-> FALSE]]
               ELSE last
  /\ UNCHANGED <<taskVars, goals, busy, reply, result, fence, spent>>

(* The handler ends its goal, always as succeeded; a client that stopped   *)
(* waiting never hears of it.                                              *)
GoalEnds(value) ==
  /\ busy' = None /\ reply' = None /\ phase' = "discover"
  /\ result' = IF busy.awaited THEN <<value>> ELSE result
  /\ last' = IF busy.skill \in Settings /\ value = TRUE /\ last[busy.skill].arg # None
               THEN [last EXCEPT ![busy.skill].confirmed = TRUE] ELSE last

(* ... the answer comes in time ...                                        *)
AnswerInTime ==
  /\ busy # None /\ phase = "answered"
  /\ GoalEnds(reply[1])
  /\ UNCHANGED <<taskVars, goals, requests, fence, spent>>

(* Faulty variant: a setting that was sent counts as made.                 *)
GiveUpSaysDone ==
  /\ busy # None
  /\ phase = "discover" => ~fence.up
  /\ GoalEnds(IF busy.skill \in Settings THEN phase # "discover" ELSE NoAnswer(busy.skill))
  /\ requests' = [i \in 1..Len(requests) |-> Abandoned(requests[i])]
  /\ UNCHANGED <<taskVars, goals, fence, spent>>

(* Faulty variant: only the wait for the service has a deadline.           *)
GiveUpOnDiscovery ==
  /\ busy # None /\ phase = "discover" /\ ~fence.up
  /\ GoalEnds(NoAnswer(busy.skill))
  /\ UNCHANGED <<taskVars, goals, requests, fence, spent>>

(* ... or the service or its answer does not come in time.  A request that *)
(* was sent stays sent, and its late answer goes to a future no one reads. *)
GiveUp ==
  /\ busy # None
  /\ phase = "discover" => ~fence.up
  /\ GoalEnds(NoAnswer(busy.skill))
  /\ requests' = [i \in 1..Len(requests) |-> Abandoned(requests[i])]
  /\ UNCHANGED <<taskVars, goals, fence, spent>>

(* Any other client of the bridge.                                         *)
OtherGoal ==
  /\ spent < MaxEvents
  /\ spent' = spent + 1
  /\ \E k \in Skills : \E g \in GoalsOf(k) : ~g.awaited /\ goals' = Append(goals, g)
  /\ UNCHANGED <<taskVars, busy, requests, phase, reply, last, result, fence>>

-----------------------------------------------------------------------------
(* The geofence node, as far as its services show it.  known: an obstacle  *)
(* has the corridor's id, which get_area_state needs to report a lock.     *)

Fresh == [up |-> TRUE, locked |-> FALSE, radius |-> "normal", enabled |-> TRUE,
          contours |-> TRUE, known |-> FALSE]

(* Each service: the states it may leave behind and its answer.            *)
AreaStateService(r) == {<<[fence EXCEPT !.locked = r.arg], TRUE>>}
SetSafetyCircleRadiusService(r) == {<<[fence EXCEPT !.radius = r.arg], TRUE>>}
ChangeState(r) ==
  {<<fence, FALSE>>} \cup
  (IF fence.enabled = r.arg THEN {} ELSE {<<[fence EXCEPT !.enabled = r.arg], TRUE>>})
GetAreaStateService == {<<fence, fence.known /\ fence.locked>>}
GetSafetyRadiusService == {<<fence, fence.radius>>}
GetMapInfoService == {<<fence, fence.contours>>}
ValidatePathService == {<<fence, TRUE>>, <<fence, FALSE>>}
UpdateMapService == {<<[fence EXCEPT !.known = TRUE], TRUE>>, <<fence, FALSE>>}
UpdateWarehouseLayoutService == {<<[fence EXCEPT !.contours = TRUE], TRUE>>, <<fence, FALSE>>}

Answers(r) ==
  CASE r.skill = "set_area_state" -> AreaStateService(r)
    [] r.skill = "set_safety_radius" -> SetSafetyCircleRadiusService(r)
    [] r.skill = "set_geofence_enabled" -> ChangeState(r)
    [] r.skill = "get_area_state" -> GetAreaStateService
    [] r.skill = "get_safety_radius" -> GetSafetyRadiusService
    [] r.skill = "get_map_info" -> GetMapInfoService
    [] r.skill = "validate_path" -> ValidatePathService
    [] r.skill = "update_map" -> UpdateMapService
    [] r.skill = "update_warehouse_layout" -> UpdateWarehouseLayoutService

(* Requests of one service are served in order.                            *)
Serve ==
  /\ fence.up
  /\ \E i \in 1..Len(requests) :
       /\ Oldest(requests, i, LAMBDA r : r.skill)
       /\ \E a \in Answers(requests[i]) :
            /\ fence' = a[1]
            /\ IF requests[i].awaited THEN reply' = <<a[2]>> /\ phase' = "answered"
                                        ELSE UNCHANGED <<reply, phase>>
       /\ requests' = RemoveAt(requests, i)
  /\ UNCHANGED <<taskVars, goals, busy, last, result, spent>>

(* The node dies with the requests it has not served; what it was told is  *)
(* kept nowhere.                                                           *)
Crash ==
  /\ fence.up /\ spent < MaxEvents
  /\ spent' = spent + 1
  /\ fence' = [Fresh EXCEPT !.up = FALSE]
  /\ requests' = <<>>
  /\ last' = [k \in Settings |-> [arg |-> None, confirmed |-> FALSE]]
  /\ UNCHANGED <<taskVars, goals, busy, phase, reply, result>>

Restart ==
  /\ ~fence.up
  /\ fence' = Fresh
  /\ UNCHANGED <<taskVars, bridgeVars, result, spent>>

-----------------------------------------------------------------------------
Init ==
  /\ thread = "none" /\ task = <<>> /\ step = 1 /\ outcome = None
  /\ active = FALSE /\ cancelled = FALSE /\ handler = None /\ promised = FALSE
  /\ goals = <<>> /\ busy = None /\ requests = <<>> /\ phase = "discover" /\ reply = None /\ result = None
  /\ fence = Fresh
  /\ last = [k \in Settings |-> [arg |-> None, confirmed |-> FALSE]]
  /\ spent = 0

Runner == RunStart \/ RunReset \/ RunNext \/ CallReturns \/ CallTimesOut \/ CallFindsNoServer
Bridge == TakeGoal \/ SendRequest \/ AnswerInTime \/ GiveUp

Next == \/ Runner \/ Bridge \/ Serve \/ ThreadStarts \/ HandleCancel
        \/ (\E t \in Tasks : LaunchTask(t))
        \/ OtherGoal \/ Crash \/ Restart

(* The thread and the executor's threads run on; a wait that nothing ends  *)
(* reaches its deadline.  The geofence may leave a request forever.        *)
Fairness == WF_vars(Runner) /\ WF_vars(Bridge) /\ WF_vars(ThreadStarts)

Spec == Init /\ [][Next]_vars /\ Fairness

-----------------------------------------------------------------------------
(* Properties.                                                             *)

(* A setting the geofence confirmed through the bridge is in force until   *)
(* another one is sent to the same service: a request the bridge gave up   *)
(* on (callService's deadline) and that is served late cannot undo a later *)
(* confirmed one.                                                          *)
InForce(k, arg) ==
  CASE k = "set_area_state" -> fence.locked = arg
    [] k = "set_safety_radius" -> fence.radius = arg
    [] k = "set_geofence_enabled" -> fence.enabled = arg

ConfirmedSettingHolds ==
  \A k \in Settings : last[k].confirmed => InForce(k, last[k].arg)

(* Every task that was launched ends, whatever the geofence answers and    *)
(* even if it dies (TaskRunner::run over callSkillBlocking); so a trigger  *)
(* blocked in join() returns as well.                                      *)
TaskEnds == thread \in {"starting", "begun", "next", "calling"} ~> thread = "ended"

(* No goal holds the bridge's nine action servers for ever, even if the    *)
(* geofence dies with the request (callService's deadline).                *)
BridgeFreesUp == busy # None ~> busy = None

-----------------------------------------------------------------------------
(* What the documentation says and the code does not do: TLC refutes it.   *)

(* After ~/cancel was answered "Cancel requested" the task starts no other *)
(* step (TaskRunner::cancel, "Cancel the currently running mission").      *)
CancelTakesEffect ==
  [][promised /\ thread = "next" /\ step <= Len(task)
       => thread' # "calling" /\ step' = step]_vars
=============================================================================
