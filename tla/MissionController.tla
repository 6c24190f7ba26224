------------------------- MODULE MissionController -------------------------
(***************************************************************************)
(* The geofence mission controller, src/rises_mission_controller.          *)
(*                                                                         *)
(* Two threads of one process share an atomic flag (mission_active_), a    *)
(* mutex and the id of the active mission:                                 *)
(*                                                                         *)
(*   - the intent callback, run by the executor, one intent at a time (the *)
(*     subscription is in the node's mutually exclusive default group);    *)
(*   - the mission thread started by the callback, which holds the mutex   *)
(*     from the first to the last line of executeMission and calls one     *)
(*     skill after the other, each wait bounded by a timeout.              *)
(*                                                                         *)
(* The skill servers belong to another process.  A goal the client gave up *)
(* on may still be executed there, at any later time.                      *)
(***************************************************************************)
EXTENDS Naturals, Sequences, FiniteSets

CONSTANTS
  AreaIds,      \* the area ids an intent may name
  MaxIntents,   \* bound: intents delivered to the callback
  MaxNow,       \* bound: ticks of the millisecond clock
  NoDigits,     \* an intent whose text holds no number
  NoId          \* the empty mission id

ASSUME ConstantsAssumption ==
  /\ AreaIds \subseteq Nat
  /\ MaxIntents \in Nat
  /\ MaxNow \in Nat
  /\ NoDigits \notin Nat
  /\ NoId \notin Nat

VARIABLES
  now,            \* the system clock, in milliseconds
  cbPc,           \* where the intent callback is
  cbMission,      \* the mission the callback is about to start
  missionActive,  \* mission_active_
  mutex,          \* TRUE while the mission thread holds mission_mutex_
  activeId,       \* active_mission_id_
  wPc,            \* where the mission thread is
  mission,        \* the arguments of executeMission
  completed,      \* the local variable of that name
  goals,          \* goals sent to the skill servers and not executed yet
  reply,          \* the future the mission thread is waiting on
  applied,        \* runs whose set_area_state goal a server has executed
  proc,           \* life cycle of the process
  received,       \* number of intents delivered (and so the next run number)
  log,            \* messages published on /mission_status
  stopped         \* missions, with their progress, at which a STOP_ACTIVITY was delivered

cbVars     == <<cbPc, cbMission, received, stopped>>
workerVars == <<wPc, mission, completed, reply, log>>
flagVars   == <<missionActive, mutex, activeId>>
skillVars  == <<goals, applied>>
vars == <<now, cbVars, workerVars, flagVars, skillVars, proc>>

(***************************************************************************)
(* Intents.  The code searches the text of the intent for keywords, in a   *)
(* fixed order.  Only the keywords a text contains matter: a text with     *)
(* "unlock_area" in it contains "lock_area" too.                           *)
(***************************************************************************)
Activities == {"lock_area", "unlock_area", "update_map", "other"}

Contains(text, word) ==
  \/ text = word
  \/ text = "unlock_area" /\ word = "lock_area"

Intents ==
  [kind : {"START_ACTIVITY"}, text : Activities, area : AreaIds \cup {NoDigits}]
    \cup [kind : {"STOP_ACTIVITY", "MOVE_TO"}, text : {"other"}, area : {NoDigits}]

(* The area id is the first number after "area_id" or "goal" in the text,  *)
(* 0 when there is none.                                                   *)
ParsedArea(intent) == IF intent.area = NoDigits THEN 0 ELSE intent.area

AreaControlTasks == <<"get_area_state", "set_area_state">>
MapUpdateTasks   == <<"get_map_info", "get_safety_radius">>

(* The mission an intent is mapped to; run identifies the execution, id is *)
(* the text the controller publishes, made of the clock's value.           *)
Mission(intent, run, id) ==
  [run |-> run, id |-> id, text |-> intent.text, area |-> ParsedArea(intent),
   lock |-> Contains(intent.text, "lock_area"),
   tasks |-> IF Contains(intent.text, "lock_area") \/ Contains(intent.text, "unlock_area")
               THEN AreaControlTasks ELSE MapUpdateTasks]

NoMission == [run |-> 0, id |-> NoId, text |-> "other", area |-> 0,
              lock |-> FALSE, tasks |-> MapUpdateTasks]

Missions ==
  [run : 0..MaxIntents, id : (0..MaxNow) \cup {NoId}, text : Activities,
   area : AreaIds \cup {0}, lock : BOOLEAN, tasks : {AreaControlTasks, MapUpdateTasks}]

Handled(intent) ==
  /\ intent.kind = "START_ACTIVITY"
  /\ \E w \in {"lock_area", "unlock_area", "update_map"} : Contains(intent.text, w)

MissionType(m) ==
  IF m.tasks = AreaControlTasks THEN "AREA_ACCESS_CONTROL" ELSE "UPDATE_GEOFENCE_MAP"

(* The lines of executeMission that run under mission_mutex_.              *)
Running == {"check", "call", "accept", "result", "failed", "ending"}

Terminal == {"SUCCEEDED", "FAILED", "CANCELLED"}

(* publishStatus: one message on /mission_status.                          *)
Publish(status) ==
  log' = Append(log, [run |-> mission.run, id |-> mission.id,
                      type |-> MissionType(mission), status |-> status])

Init ==
  /\ now = 0
  /\ cbPc = "idle"
  /\ cbMission = NoMission
  /\ missionActive = FALSE
  /\ mutex = FALSE
  /\ activeId = NoId
  /\ wPc = "none"
  /\ mission = NoMission
  /\ completed = 0
  /\ goals = {}
  /\ reply = "none"
  /\ applied = {}
  /\ proc = "up"
  /\ received = 0
  /\ log = <<>>
  /\ stopped = {}

Tick ==
  /\ now < MaxNow
  /\ now' = now + 1
  /\ UNCHANGED <<cbVars, workerVars, flagVars, skillVars, proc>>

-----------------------------------------------------------------------------
(* The intent callback.                                                    *)

(* From the callback's entry to its first blocking call or atomic store:   *)
(* the load of mission_active_ and the mapping of the intent to tasks.     *)
IntentCallback(intent) ==
  /\ proc = "up"
  /\ cbPc = "idle"
  /\ received < MaxIntents
  /\ received' = received + 1
  /\ \/ /\ missionActive
        /\ cbPc' = "reject"
        /\ UNCHANGED cbMission
     \/ /\ ~missionActive
        /\ Handled(intent)
        /\ cbPc' = "join"
        /\ cbMission' = Mission(intent, received + 1, now)
     \/ /\ ~missionActive
        /\ ~Handled(intent)
        /\ cbPc' = IF intent.kind = "STOP_ACTIVITY" THEN "stop" ELSE "idle"
        /\ UNCHANGED cbMission
  /\ stopped' = IF intent.kind = "STOP_ACTIVITY" /\ missionActive
                  THEN stopped \cup {[run |-> mission.run, completed |-> completed]}
                  ELSE stopped
  /\ UNCHANGED <<now, workerVars, flagVars, skillVars, proc>>

(* The rejecting branch reads active_mission_id_ under the mutex.          *)
RejectIntent ==
  /\ cbPc = "reject"
  /\ ~mutex
  /\ cbPc' = "idle"
  /\ UNCHANGED <<now, cbMission, received, stopped, workerVars, flagVars, skillVars, proc>>

(* The STOP_ACTIVITY branch stores false.                                  *)
StopActivity ==
  /\ cbPc = "stop"
  /\ missionActive' = FALSE
  /\ cbPc' = "idle"
  /\ UNCHANGED <<now, cbMission, received, stopped, workerVars, mutex, activeId, skillVars, proc>>

(* Join the previous mission thread, if there is one, and start the next.  *)
StartMission ==
  /\ cbPc = "join"
  /\ wPc \in {"none", "done"}
  /\ wPc' = "created"
  /\ mission' = cbMission
  /\ cbPc' = "idle"
  /\ UNCHANGED <<now, cbMission, received, stopped, completed, reply, log, flagVars,
                 skillVars, proc>>

-----------------------------------------------------------------------------
(* The mission thread: executeMission.                                     *)

BeginMission ==
  /\ wPc = "created"
  /\ ~mutex
  /\ mutex' = TRUE
  /\ missionActive' = TRUE
  /\ activeId' = mission.id
  /\ completed' = 0
  /\ Publish("ACTIVE")
  /\ wPc' = "check"
  /\ UNCHANGED <<now, cbVars, mission, reply, skillVars, proc>>

(* Faulty variant: the cancelled loop is left by break and not by return.  *)
NextTaskBreaks ==
  /\ wPc = "check"
  /\ \/ /\ completed = Len(mission.tasks)
        /\ Publish("SUCCEEDED")
        /\ wPc' = "ending"
        /\ UNCHANGED completed
     \/ /\ completed < Len(mission.tasks)
        /\ missionActive
        /\ Publish("ACTIVE")
        /\ wPc' = "call"
        /\ UNCHANGED completed
     \/ /\ completed < Len(mission.tasks)
        /\ ~missionActive
        /\ Publish("CANCELLED")
        /\ completed' = Len(mission.tasks)
        /\ UNCHANGED wPc
  /\ UNCHANGED <<now, cbVars, mission, reply, flagVars, skillVars, proc>>

(* The head of the task loop, and the normal exit from it.                 *)
NextTask ==
  /\ wPc = "check"
  /\ \/ /\ completed = Len(mission.tasks)
        /\ Publish("SUCCEEDED")
        /\ wPc' = "ending"
        /\ UNCHANGED mutex
     \/ /\ completed < Len(mission.tasks)
        /\ missionActive
        /\ Publish("ACTIVE")
        /\ wPc' = "call"
        /\ UNCHANGED mutex
     \/ /\ completed < Len(mission.tasks)
        /\ ~missionActive
        /\ Publish("CANCELLED")
        /\ wPc' = "done"
        /\ mutex' = FALSE
  /\ UNCHANGED <<now, cbVars, mission, completed, reply, missionActive, activeId,
                 skillVars, proc>>

TaskFailed ==
  /\ wPc = "failed"
  /\ Publish("FAILED")
  /\ wPc' = "ending"
  /\ UNCHANGED <<now, cbVars, mission, completed, reply, flagVars, skillVars, proc>>

(* Faulty variant: the mission ends without clearing mission_active_.      *)
EndMissionFlagKept ==
  /\ wPc = "ending"
  /\ mutex' = FALSE
  /\ wPc' = "done"
  /\ UNCHANGED <<now, cbVars, mission, completed, reply, log, missionActive, activeId,
                 skillVars, proc>>

EndMission ==
  /\ wPc = "ending"
  /\ missionActive' = FALSE
  /\ mutex' = FALSE
  /\ wPc' = "done"
  /\ UNCHANGED <<now, cbVars, mission, completed, reply, log, activeId, skillVars, proc>>

-----------------------------------------------------------------------------
(* A task: wait for the server, then callSkill.                            *)

Goal == [run |-> mission.run, task |-> mission.tasks[completed + 1]]

(* wait_for_action_server, five seconds, then async_send_goal.             *)
SendGoal ==
  /\ wPc = "call"
  /\ \/ /\ wPc' = "failed"
        /\ UNCHANGED goals
     \/ /\ proc = "up"
        /\ wPc' = "accept"
        /\ goals' = goals \cup {Goal}
  /\ reply' = "none"
  /\ UNCHANGED <<now, cbVars, mission, completed, log, flagVars, applied, proc>>

(* wait_for on the goal handle: accepted, rejected or timed out.  Nobody   *)
(* delivers the server's answer once the executor has stopped.             *)
GoalResponse ==
  /\ wPc = "accept"
  /\ \/ /\ proc = "up"                          \* accepted
        /\ wPc' = "result"
        /\ UNCHANGED goals
     \/ /\ proc = "up" /\ Goal \in goals        \* rejected
        /\ wPc' = "failed"
        /\ goals' = goals \ {Goal}
     \/ /\ wPc' = "failed"                      \* timed out
        /\ UNCHANGED goals
  /\ UNCHANGED <<now, cbVars, mission, completed, reply, log, flagVars, applied, proc>>

(* Faulty variant: an untimed wait for the result.                         *)
SkillResultNoTimeout ==
  /\ wPc = "result"
  /\ proc = "up" /\ reply \in {"ok", "error"}
  /\ completed' = IF reply = "ok" THEN completed + 1 ELSE completed
  /\ wPc' = IF reply = "ok" THEN "check" ELSE "failed"
  /\ UNCHANGED <<now, cbVars, mission, reply, log, flagVars, skillVars, proc>>

(* Faulty variant: a result that never came is taken for a success.        *)
SkillResultTimeoutIgnored ==
  /\ wPc = "result"
  /\ completed' = completed + 1
  /\ wPc' = "check"
  /\ UNCHANGED <<now, cbVars, mission, reply, log, flagVars, skillVars, proc>>

(* wait_for on the result, and what the task makes of it: get_area_state   *)
(* ignores "found"; set_area_state also fails when the payload says        *)
(* success = false, which is an outcome "error" here.                      *)
SkillResult ==
  /\ wPc = "result"
  /\ \/ /\ proc = "up" /\ reply = "ok"
        /\ completed' = completed + 1
        /\ wPc' = "check"
     \/ /\ proc = "up" /\ reply = "error"
        /\ wPc' = "failed"
        /\ UNCHANGED completed
     \/ /\ wPc' = "failed"                      \* timed out
        /\ UNCHANGED completed
  /\ UNCHANGED <<now, cbVars, mission, reply, log, flagVars, skillVars, proc>>

(* The skill server executes a goal, perhaps after the client gave up.     *)
ServeGoal(g) ==
  /\ g \in goals
  /\ goals' = goals \ {g}
  /\ \E outcome \in {"ok", "error"} :
       /\ applied' = IF outcome = "ok" /\ g.task = "set_area_state"
                       THEN applied \cup {g.run} ELSE applied
       /\ reply' = IF wPc \in {"accept", "result"} /\ g = Goal THEN outcome ELSE reply
  /\ UNCHANGED <<now, cbVars, wPc, mission, completed, log, flagVars, proc>>

-----------------------------------------------------------------------------
(* Shutdown: the executor stops, then the destructor runs.                 *)

Shutdown ==
  /\ proc = "up"
  /\ proc' = "stopping"
  /\ UNCHANGED <<now, cbVars, workerVars, flagVars, skillVars>>

(* spin() returns once no callback runs; the destructor stores false ...   *)
Destroy ==
  /\ proc = "stopping"
  /\ cbPc = "idle"
  /\ missionActive' = FALSE
  /\ proc' = "joining"
  /\ UNCHANGED <<now, cbVars, workerVars, mutex, activeId, skillVars>>

(* ... and joins the mission thread.                                       *)
JoinOnDestroy ==
  /\ proc = "joining"
  /\ wPc \in {"none", "done"}
  /\ proc' = "gone"
  /\ UNCHANGED <<now, cbVars, workerVars, flagVars, skillVars>>

(* The process is gone and no server holds a goal of it.                   *)
Terminated == proc = "gone" /\ goals = {} /\ now = MaxNow /\ UNCHANGED vars

CallbackStep == RejectIntent \/ StopActivity \/ StartMission

WorkerStep ==
  BeginMission \/ NextTask \/ TaskFailed \/ EndMission \/ SendGoal \/ GoalResponse \/ SkillResult

Next ==
  \/ Tick
  \/ \E intent \in Intents : IntentCallback(intent)
  \/ CallbackStep
  \/ WorkerStep
  \/ \E g \in goals : ServeGoal(g)
  \/ Shutdown
  \/ Destroy
  \/ JoinOnDestroy
  \/ Terminated

Spec == Init /\ [][Next]_vars

(* The threads run and every wait of the mission thread has a timeout.     *)
(* Nothing is assumed of the clock, the operators or the skill servers.    *)
FairSpec ==
  /\ Spec
  /\ WF_vars(CallbackStep)
  /\ WF_vars(WorkerStep)
  /\ WF_vars(Destroy)
  /\ WF_vars(JoinOnDestroy)

-----------------------------------------------------------------------------
(* Properties.                                                             *)

StatusMsgs ==
  [run : 0..MaxIntents, id : (0..MaxNow) \cup {NoId},
   type : {"AREA_ACCESS_CONTROL", "UPDATE_GEOFENCE_MAP"}, status : Terminal \cup {"ACTIVE"}]

(* Every variable keeps its type through the callback, the mission thread, *)
(* the skill servers and the shutdown.                                     *)
TypeOK ==
  /\ now \in 0..MaxNow
  /\ cbPc \in {"idle", "reject", "stop", "join"}
  /\ cbMission \in Missions
  /\ missionActive \in BOOLEAN
  /\ mutex \in BOOLEAN
  /\ activeId \in (0..MaxNow) \cup {NoId}
  /\ wPc \in {"none", "created", "done"} \cup Running
  /\ mission \in Missions
  /\ completed \in 0..2
  /\ goals \subseteq [run : 0..MaxIntents,
                      task : {AreaControlTasks[1], AreaControlTasks[2],
                              MapUpdateTasks[1], MapUpdateTasks[2]}]
  /\ reply \in {"none", "ok", "error"}
  /\ applied \subseteq 0..MaxIntents
  /\ proc \in {"up", "stopping", "joining", "gone"}
  /\ received \in 0..MaxIntents
  /\ log \in Seq(StatusMsgs)
  /\ stopped \subseteq [run : 0..MaxIntents, completed : 0..2]

(* mission_active_ is never left TRUE by a mission that is over: every     *)
(* exit of executeMission, and every interleaving of a STOP_ACTIVITY or of *)
(* the destructor with it, leaves a flag that admits the next intent.      *)
FlagMatchesThread ==
  /\ missionActive => mutex
  /\ mutex <=> wPc \in Running

(* /mission_status tells one mission after the other: the messages of a    *)
(* mission are contiguous, start with ACTIVE and end with exactly one      *)
(* terminal status before the next mission's first message.                *)
StatusStreamWellFormed ==
  \A i \in 1..Len(log) :
    /\ log[i].status \in Terminal => \A j \in (i+1)..Len(log) : log[j].run > log[i].run
    /\ i > 1 /\ log[i].run # log[i-1].run =>
         log[i-1].status \in Terminal /\ log[i].status = "ACTIVE"

(* A mission reported as SUCCEEDED really had its set_area_state executed  *)
(* by the skill server, whatever timed out or was answered late.           *)
SuccessMeansApplied ==
  \A i \in 1..Len(log) :
    log[i].status = "SUCCEEDED" /\ log[i].type = "AREA_ACCESS_CONTROL" => log[i].run \in applied

(* A mission thread ends even if no skill server ever answers, so that the *)
(* callback that joins it or waits for its mutex returns as well, and so   *)
(* does the destructor's join.                                             *)
MissionTerminates ==
  /\ wPc = "created" ~> wPc = "done"
  /\ proc = "stopping" ~> proc = "gone"

-----------------------------------------------------------------------------
(* What the documentation says and the code does not do: TLC refutes both. *)

(* "unlock_area" intents unlock (docs/INTERACT_FULL_ARISE.md).             *)
UnlockMissionUnlocks == mission.text = "unlock_area" => ~mission.lock

(* "STOP_ACTIVITY received. Cancelling active mission.": once it was       *)
(* delivered, the active mission starts no further task.                   *)
StopCancelsMission ==
  \A s \in stopped : ~(wPc = "call" /\ s.run = mission.run /\ completed > s.completed)
=============================================================================
