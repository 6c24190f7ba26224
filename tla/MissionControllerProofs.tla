---------------------- MODULE MissionControllerProofs ----------------------
(***************************************************************************)
(* Theorems about MissionController, for every set of areas and every      *)
(* bound on the number of intents and on the clock.                        *)
(***************************************************************************)
EXTENDS MissionController, TLAPS

Tasks == {AreaControlTasks, MapUpdateTasks}

(* A mission has two tasks.                                                *)
LEMMA TaskCount == \A t \in Tasks : Len(t) = 2 /\ DOMAIN t = 1..2
BY DEF Tasks, AreaControlTasks, MapUpdateTasks

(* An intent the callback accepts is mapped to a well-formed mission.      *)
LEMMA MissionWellFormed == 
  ASSUME NEW intent \in Intents, NEW run \in 0..MaxIntents, NEW id \in 0..MaxNow
  PROVE  Mission(intent, run, id) \in Missions
BY ConstantsAssumption
   DEF Mission, Missions, Intents, ParsedArea, Contains, Activities

(* Publishing appends a well-formed message.                               *)
LEMMA PublishType ==
  ASSUME TypeOK, NEW s \in Terminal \cup {"ACTIVE"}, Publish(s)
  PROVE  log' \in Seq(StatusMsgs)
<1> DEFINE m == [run |-> mission.run, id |-> mission.id,
                 type |-> MissionType(mission), status |-> s]
<1>1. m \in StatusMsgs
  BY DEF TypeOK, Missions, StatusMsgs, MissionType
<1>2. log \in Seq(StatusMsgs)
  BY DEF TypeOK
<1>3. log' = Append(log, m)
  BY DEF Publish
<1>4. QED
  BY <1>1, <1>2, <1>3

(* A skill is called only while a task is left, so that the goal sent is   *)
(* one of the mission's tasks: without it TypeOK is not inductive.         *)
CallHasTask == wPc \in {"call", "accept", "result"} => completed < 2

(* The goal of the task being executed is well formed.                     *)
LEMMA GoalType ==
  ASSUME TypeOK, completed < 2
  PROVE  Goal \in [run : 0..MaxIntents,
                   task : {AreaControlTasks[1], AreaControlTasks[2],
                           MapUpdateTasks[1], MapUpdateTasks[2]}]
<1>1. mission.tasks \in Tasks /\ mission.run \in 0..MaxIntents
  BY DEF TypeOK, Missions, Tasks
<1>2. completed + 1 \in 1..2 /\ (completed + 1 = 1 \/ completed + 1 = 2)
  BY DEF TypeOK
<1>3. mission.tasks[completed + 1] \in {AreaControlTasks[1], AreaControlTasks[2],
                                        MapUpdateTasks[1], MapUpdateTasks[2]}
  BY <1>1, <1>2 DEF Tasks
<1>4. QED
  BY <1>1, <1>3 DEF Goal

(* Every variable keeps its type, for every bound on intents and clock.    *)
THEOREM TypeCorrect == Spec => [](TypeOK /\ CallHasTask)
<1>1. Init => TypeOK /\ CallHasTask
  <2>1. NoMission \in Missions
    BY ConstantsAssumption DEF NoMission, Missions, Activities
  <2>2. <<>> \in Seq(StatusMsgs)
    OBVIOUS
  <2>3. ASSUME Init
        PROVE  /\ now \in 0..MaxNow /\ received \in 0..MaxIntents /\ completed \in 0..2
               /\ activeId \in (0..MaxNow) \cup {NoId}
    BY <2>3, ConstantsAssumption DEF Init
  <2>4. ASSUME Init
        PROVE  TypeOK /\ CallHasTask
    BY <2>1, <2>2, <2>3, <2>4, Zenon DEF Init, TypeOK, CallHasTask
  <2>5. QED
    BY <2>4
<1>2. TypeOK /\ CallHasTask /\ [Next]_vars => TypeOK' /\ CallHasTask'
  <2> SUFFICES ASSUME TypeOK, CallHasTask, [Next]_vars
               PROVE  TypeOK' /\ CallHasTask'
    OBVIOUS
  <2> USE ConstantsAssumption DEF cbVars, workerVars, flagVars, skillVars
  <2>1. CASE Tick
    BY <2>1 DEF Tick, TypeOK, CallHasTask
  <2>2. ASSUME NEW intent \in Intents, IntentCallback(intent)
        PROVE  TypeOK' /\ CallHasTask'
    <3>1. cbMission' \in Missions
      BY <2>2, MissionWellFormed DEF IntentCallback, TypeOK
    <3>2. stopped' \subseteq [run : 0..MaxIntents, completed : 0..2]
      BY <2>2 DEF IntentCallback, TypeOK, Missions
    <3>3. /\ cbPc' \in {"idle", "reject", "stop", "join"} /\ received' \in 0..MaxIntents
          /\ UNCHANGED <<now, workerVars, flagVars, skillVars, proc>>
      BY <2>2 DEF IntentCallback, TypeOK
    <3>4. QED
      BY <3>1, <3>2, <3>3 DEF TypeOK, CallHasTask
  <2>3. CASE CallbackStep
    <3>1. CASE RejectIntent
      BY <3>1 DEF RejectIntent, TypeOK, CallHasTask
    <3>2. CASE StopActivity
      BY <3>2 DEF StopActivity, TypeOK, CallHasTask
    <3>3. CASE StartMission
      BY <3>3 DEF StartMission, TypeOK, CallHasTask, Running
    <3> QED BY <2>3, <3>1, <3>2, <3>3 DEF CallbackStep
  <2>4. CASE BeginMission
    <3>1. log' \in Seq(StatusMsgs)
      BY <2>4, PublishType DEF BeginMission
    <3>2. QED
      BY <2>4, <3>1 DEF BeginMission, TypeOK, CallHasTask, Missions, Running
  <2>5. CASE NextTask
    <3>1. log' \in Seq(StatusMsgs)
      BY <2>5, PublishType DEF NextTask, Terminal
    <3>2. mission.tasks \in Tasks
      BY DEF TypeOK, Missions, Tasks
    <3>3. Len(mission.tasks) = 2
      BY <3>2, TaskCount
    <3>4. QED
      BY <2>5, <3>1, <3>3 DEF NextTask, TypeOK, CallHasTask, Running
  <2>6. CASE TaskFailed
    <3>1. log' \in Seq(StatusMsgs)
      BY <2>6, PublishType DEF TaskFailed, Terminal
    <3>2. QED
      BY <2>6, <3>1 DEF TaskFailed, TypeOK, CallHasTask, Running
  <2>7. CASE EndMission
    BY <2>7 DEF EndMission, TypeOK, CallHasTask, Running
  <2>8. CASE SendGoal
    BY <2>8, GoalType DEF SendGoal, TypeOK, CallHasTask, Running
  <2>9. CASE GoalResponse
    BY <2>9 DEF GoalResponse, TypeOK, CallHasTask, Running
  <2>10. CASE SkillResult
    BY <2>10 DEF SkillResult, TypeOK, CallHasTask, Running
  <2>11. ASSUME NEW g \in goals, ServeGoal(g)
         PROVE  TypeOK' /\ CallHasTask'
    <3>1. g.run \in 0..MaxIntents
      BY <2>11 DEF TypeOK
    <3>2. applied' \subseteq 0..MaxIntents /\ reply' \in {"none", "ok", "error"}
      BY <2>11, <3>1 DEF ServeGoal, TypeOK
    <3>3. QED
      BY <2>11, <3>2 DEF ServeGoal, TypeOK, CallHasTask
  <2>12. CASE Shutdown \/ Destroy \/ JoinOnDestroy
    BY <2>12 DEF Shutdown, Destroy, JoinOnDestroy, TypeOK, CallHasTask
  <2>13. CASE UNCHANGED vars
    BY <2>13 DEF vars, TypeOK, CallHasTask
  <2>14. QED
    BY <2>1, <2>2, <2>3, <2>4, <2>5, <2>6, <2>7, <2>8, <2>9, <2>10, <2>11, <2>12, <2>13
       DEF Next, WorkerStep, Terminated
<1>3. QED
  BY <1>1, <1>2, PTL DEF Spec

-----------------------------------------------------------------------------
(* The flag and the mutex.                                                 *)

(* mission_active_ is TRUE only between the first and the last line of     *)
(* executeMission, which is when the mission thread holds the mutex.       *)
THEOREM FlagCorrect == Spec => []FlagMatchesThread
<1>1. Init => FlagMatchesThread
  BY DEF Init, FlagMatchesThread, Running
<1>2. TypeOK /\ FlagMatchesThread /\ [Next]_vars => FlagMatchesThread'
  <2> SUFFICES ASSUME TypeOK, FlagMatchesThread, [Next]_vars
               PROVE  FlagMatchesThread'
    OBVIOUS
  <2> USE DEF cbVars, workerVars, flagVars, skillVars, FlagMatchesThread, Running
  <2>1. CASE Tick \/ Shutdown \/ Destroy \/ JoinOnDestroy
    BY <2>1 DEF Tick, Shutdown, Destroy, JoinOnDestroy
  <2>2. ASSUME NEW intent \in Intents, IntentCallback(intent)
        PROVE  FlagMatchesThread'
    BY <2>2 DEF IntentCallback
  <2>3. CASE CallbackStep
    BY <2>3 DEF CallbackStep, RejectIntent, StopActivity, StartMission
  <2>4. CASE BeginMission
    BY <2>4 DEF BeginMission
  <2>5. CASE NextTask
    BY <2>5 DEF NextTask
  <2>6. CASE TaskFailed \/ EndMission
    BY <2>6 DEF TaskFailed, EndMission
  <2>7. CASE SendGoal \/ GoalResponse \/ SkillResult
    BY <2>7 DEF SendGoal, GoalResponse, SkillResult
  <2>8. ASSUME NEW g \in goals, ServeGoal(g)
        PROVE  FlagMatchesThread'
    BY <2>8 DEF ServeGoal
  <2>9. CASE UNCHANGED vars
    BY <2>9 DEF vars
  <2>10. QED
    BY <2>1, <2>2, <2>3, <2>4, <2>5, <2>6, <2>7, <2>8, <2>9
       DEF Next, WorkerStep, Terminated
<1>3. QED
  BY <1>1, <1>2, TypeCorrect, PTL DEF Spec

-----------------------------------------------------------------------------
(* The status stream.                                                      *)

(* What makes StatusStreamWellFormed inductive: run numbers grow with the  *)
(* intents, the last message tells whether the thread is still running.    *)
StreamInv ==
  /\ mission.run <= received
  /\ cbPc = "join" => mission.run < cbMission.run /\ cbMission.run <= received
  /\ \A i \in 1..Len(log) : log[i].run <= mission.run
  /\ wPc = "created" => \A i \in 1..Len(log) : log[i].run < mission.run
  /\ wPc \in Running \ {"ending"} =>
       /\ Len(log) > 0
       /\ log[Len(log)].run = mission.run
       /\ log[Len(log)].status = "ACTIVE"
  /\ wPc \in {"none", "created", "done", "ending"} /\ Len(log) > 0 =>
       log[Len(log)].status \in Terminal

(* A message of the running mission extends the stream correctly.          *)
LEMMA PublishExtends ==
  ASSUME TypeOK, StreamInv, StatusStreamWellFormed,
         NEW s \in Terminal \cup {"ACTIVE"}, Publish(s),
         \/ wPc = "created" /\ s = "ACTIVE"
         \/ wPc \in Running \ {"ending"}
  PROVE  /\ Len(log') = Len(log) + 1
         /\ log'[Len(log')].run = mission.run
         /\ log'[Len(log')].status = s
         /\ \A i \in 1..Len(log') : log'[i].run <= mission.run
         /\ StatusStreamWellFormed'
<1> DEFINE m == [run |-> mission.run, id |-> mission.id,
                 type |-> MissionType(mission), status |-> s]
           n == Len(log)
<1>1. log \in Seq(StatusMsgs) /\ m \in StatusMsgs /\ mission.run \in Nat /\ n \in Nat
  BY ConstantsAssumption DEF TypeOK, Missions, StatusMsgs, MissionType
<1>2. log' = Append(log, m)
  BY DEF Publish
<1>3. Len(log') = n + 1 /\ log'[n + 1] = m /\ \A i \in 1..n : log'[i] = log[i]
  BY <1>1, <1>2
<1>4. \A i \in 1..n : log[i] \in StatusMsgs /\ log[i].run \in Nat
  <2>1. \A i \in 1..n : log[i] \in StatusMsgs
    BY <1>1
  <2>2. \A m0 \in StatusMsgs : m0.run \in Nat
    BY ConstantsAssumption DEF StatusMsgs
  <2>3. QED
    BY <2>1, <2>2
<1>5. \A i \in 1..n : log[i].status \in Terminal => log[i].run < mission.run
  <2>1. CASE wPc = "created"
    BY <2>1, <1>1, <1>4 DEF StreamInv
  <2>2. CASE wPc \in Running \ {"ending"}
    <3> SUFFICES ASSUME NEW i \in 1..n, log[i].status \in Terminal
                 PROVE  log[i].run < mission.run
      OBVIOUS
    <3>1. n > 0 /\ log[n].run = mission.run /\ log[n].status = "ACTIVE"
      BY <2>2 DEF StreamInv
    <3>2. i # n
      BY <3>1 DEF Terminal
    <3>3. n \in (i+1)..n
      BY <3>2, <1>1
    <3>4. log[n].run > log[i].run
      BY <3>3 DEF StatusStreamWellFormed
    <3>5. QED
      BY <3>1, <3>4, <1>4, <1>1
  <2>3. QED
    BY <2>1, <2>2
<1>6. n > 0 /\ mission.run # log[n].run => log[n].status \in Terminal /\ s = "ACTIVE"
  BY <1>1 DEF StreamInv
<1>7. StatusStreamWellFormed'
  <2> SUFFICES ASSUME NEW i \in 1..(n + 1)
               PROVE  /\ log'[i].status \in Terminal =>
                           \A j \in (i+1)..(n + 1) : log'[j].run > log'[i].run
                      /\ i > 1 /\ log'[i].run # log'[i-1].run =>
                           log'[i-1].status \in Terminal /\ log'[i].status = "ACTIVE"
    BY <1>3 DEF StatusStreamWellFormed, Terminal
  <2>1. CASE i = n + 1
    <3>1. \A j \in (i+1)..(n + 1) : FALSE
      BY <2>1, <1>1
    <3>2. i > 1 => log'[i-1] = log[n] /\ n > 0
      BY <2>1, <1>1, <1>3
    <3>3. QED
      BY <2>1, <3>1, <3>2, <1>3, <1>6
  <2>2. CASE i \in 1..n
    <3>1. ASSUME log'[i].status \in Terminal, NEW j \in (i+1)..(n + 1)
          PROVE  log'[j].run > log'[i].run
      <4>1. CASE j = n + 1
        BY <3>1, <4>1, <2>2, <1>1, <1>3, <1>4, <1>5
      <4>2. CASE j \in (i+1)..n
        BY <3>1, <4>2, <2>2, <1>1, <1>3 DEF StatusStreamWellFormed
      <4>3. QED
        BY <4>1, <4>2, <1>1
    <3>2. ASSUME i > 1, log'[i].run # log'[i-1].run
          PROVE  log'[i-1].status \in Terminal /\ log'[i].status = "ACTIVE"
      <4>1. log'[i] = log[i] /\ log'[i-1] = log[i-1]
        BY <3>2, <2>2, <1>1, <1>3
      <4>2. QED
        BY <3>2, <4>1, <2>2 DEF StatusStreamWellFormed
    <3>3. QED
      BY <3>1, <3>2
  <2>3. QED
    BY <2>1, <2>2, <1>1
<1>8. QED
  BY <1>1, <1>3, <1>7 DEF StreamInv

(* /mission_status tells one complete mission after the other.             *)
THEOREM StreamCorrect == Spec => []StatusStreamWellFormed
<1> DEFINE IInv == StreamInv /\ StatusStreamWellFormed
<1>1. Init => IInv
  BY ConstantsAssumption DEF Init, StreamInv, StatusStreamWellFormed, NoMission, Running
<1>2. TypeOK /\ IInv /\ [Next]_vars => IInv'
  <2> SUFFICES ASSUME TypeOK, StreamInv, StatusStreamWellFormed, [Next]_vars
               PROVE  IInv'
    OBVIOUS
  <2> USE DEF cbVars, workerVars, flagVars, skillVars
  <2>0. /\ received \in Nat /\ mission.run \in Nat /\ cbMission.run \in Nat
        /\ Len(log) \in Nat
        /\ \A i \in 1..Len(log) : log[i].run \in Nat
    <3>1. log \in Seq(StatusMsgs) /\ received \in 0..MaxIntents
          /\ mission \in Missions /\ cbMission \in Missions
      BY DEF TypeOK
    <3>2. \A m \in StatusMsgs : m.run \in Nat
      BY ConstantsAssumption DEF StatusMsgs
    <3>3. \A m \in Missions : m.run \in Nat
      BY ConstantsAssumption DEF Missions
    <3>4. \A i \in 1..Len(log) : log[i] \in StatusMsgs
      BY <3>1
    <3>5. QED
      BY <3>1, <3>2, <3>3, <3>4, ConstantsAssumption
  <2>1. CASE Tick \/ Shutdown \/ Destroy \/ JoinOnDestroy
    BY <2>1 DEF Tick, Shutdown, Destroy, JoinOnDestroy, StreamInv, StatusStreamWellFormed
  <2>2. ASSUME NEW intent \in Intents, IntentCallback(intent)
        PROVE  IInv'
    <3>1. cbPc' = "join" => cbMission'.run = received + 1
      BY <2>2 DEF IntentCallback, Mission
    <3>2. StreamInv'
      BY <2>2, <2>0, <3>1 DEF IntentCallback, StreamInv
    <3>3. StatusStreamWellFormed'
      BY <2>2 DEF IntentCallback, StatusStreamWellFormed
    <3>4. QED
      BY <3>2, <3>3
  <2>3. CASE RejectIntent \/ StopActivity
    BY <2>3 DEF RejectIntent, StopActivity, StreamInv, StatusStreamWellFormed
  <2>4. CASE StartMission
    <3>1. StreamInv'
      BY <2>4, <2>0 DEF StartMission, StreamInv, Running
    <3>2. StatusStreamWellFormed'
      BY <2>4 DEF StartMission, StatusStreamWellFormed
    <3>3. QED
      BY <3>1, <3>2
  <2>5. CASE BeginMission
    <3>1. /\ Len(log') = Len(log) + 1
          /\ log'[Len(log')].run = mission.run
          /\ log'[Len(log')].status = "ACTIVE"
          /\ \A i \in 1..Len(log') : log'[i].run <= mission.run
          /\ StatusStreamWellFormed'
      BY <2>5, PublishExtends DEF BeginMission
    <3>2. QED
      BY <2>5, <2>0, <3>1 DEF BeginMission, StreamInv, Running
  <2>6. CASE NextTask
    <3>1. PICK s \in Terminal \cup {"ACTIVE"} :
            /\ Publish(s)
            /\ wPc' = "call" => s = "ACTIVE"
            /\ wPc' \in {"ending", "done"} => s \in Terminal
            /\ wPc' \in {"call", "ending", "done"}
      BY <2>6 DEF NextTask, Terminal
    <3>2. /\ Len(log') = Len(log) + 1
          /\ log'[Len(log')].run = mission.run
          /\ log'[Len(log')].status = s
          /\ \A i \in 1..Len(log') : log'[i].run <= mission.run
          /\ StatusStreamWellFormed'
      BY <2>6, <3>1, PublishExtends DEF NextTask, Running
    <3>3. QED
      BY <2>6, <2>0, <3>1, <3>2 DEF NextTask, StreamInv, Running
  <2>7. CASE TaskFailed
    <3>1. /\ Len(log') = Len(log) + 1
          /\ log'[Len(log')].run = mission.run
          /\ log'[Len(log')].status = "FAILED"
          /\ \A i \in 1..Len(log') : log'[i].run <= mission.run
          /\ StatusStreamWellFormed'
      BY <2>7, PublishExtends DEF TaskFailed, Running, Terminal
    <3>2. QED
      BY <2>7, <2>0, <3>1 DEF TaskFailed, StreamInv, Running, Terminal
  <2>8. CASE EndMission
    BY <2>8 DEF EndMission, StreamInv, StatusStreamWellFormed, Running
  <2>9. CASE SendGoal
    BY <2>9 DEF SendGoal, StreamInv, StatusStreamWellFormed, Running
  <2>10. CASE GoalResponse
    BY <2>10 DEF GoalResponse, StreamInv, StatusStreamWellFormed, Running
  <2>11. CASE SkillResult
    BY <2>11 DEF SkillResult, StreamInv, StatusStreamWellFormed, Running
  <2>12. ASSUME NEW g \in goals, ServeGoal(g)
         PROVE  IInv'
    BY <2>12 DEF ServeGoal, StreamInv, StatusStreamWellFormed
  <2>13. CASE UNCHANGED vars
    BY <2>13 DEF vars, StreamInv, StatusStreamWellFormed
  <2>14. QED
    BY <2>1, <2>2, <2>3, <2>4, <2>5, <2>6, <2>7, <2>8, <2>9, <2>10, <2>11, <2>12, <2>13
       DEF Next, CallbackStep, WorkerStep, Terminated
<1>3. QED
  BY <1>1, <1>2, TypeCorrect, PTL DEF Spec

-----------------------------------------------------------------------------
(* Reported success.                                                       *)

(* What makes SuccessMeansApplied inductive: the second task of an area    *)
(* mission counts as completed only on the server's answer to its goal.    *)
AppliedInv ==
  mission.tasks = AreaControlTasks =>
    /\ wPc \in Running /\ completed = 2 => mission.run \in applied
    /\ wPc \in {"accept", "result"} /\ completed = 1 /\ reply = "ok" => mission.run \in applied

(* A published message keeps the claim if it is not an unearned success.   *)
LEMMA PublishSound ==
  ASSUME TypeOK, SuccessMeansApplied, NEW s \in Terminal \cup {"ACTIVE"}, Publish(s),
         applied' = applied,
         s = "SUCCEEDED" /\ mission.tasks = AreaControlTasks => mission.run \in applied
  PROVE  SuccessMeansApplied'
<1> DEFINE m == [run |-> mission.run, id |-> mission.id,
                 type |-> MissionType(mission), status |-> s]
           n == Len(log)
<1>1. log \in Seq(StatusMsgs) /\ m \in StatusMsgs /\ n \in Nat
  BY DEF TypeOK, Missions, StatusMsgs, MissionType
<1>2. Len(log') = n + 1 /\ log'[n + 1] = m /\ \A i \in 1..n : log'[i] = log[i]
  BY <1>1 DEF Publish
<1>3. m.type = "AREA_ACCESS_CONTROL" => mission.tasks = AreaControlTasks
  BY DEF MissionType
<1>4. \A i \in 1..(n + 1) : i = n + 1 \/ i \in 1..n
  BY <1>1
<1>5. SUFFICES ASSUME NEW i \in 1..(n + 1), log'[i].status = "SUCCEEDED",
                      log'[i].type = "AREA_ACCESS_CONTROL"
               PROVE  log'[i].run \in applied
  BY <1>2 DEF SuccessMeansApplied
<1>6. CASE i = n + 1
  BY <1>6, <1>5, <1>2, <1>3
<1>7. CASE i \in 1..n
  BY <1>7, <1>5, <1>2 DEF SuccessMeansApplied
<1>8. QED
  BY <1>4, <1>6, <1>7

(* SUCCEEDED is published only for missions whose set_area_state goal the  *)
(* skill server executed, whatever timeouts and late answers occur.        *)
THEOREM SuccessCorrect == Spec => []SuccessMeansApplied
<1> DEFINE IInv == AppliedInv /\ SuccessMeansApplied
<1>1. Init => IInv
  BY DEF Init, AppliedInv, SuccessMeansApplied, Running
<1>2. TypeOK /\ CallHasTask /\ IInv /\ [Next]_vars => IInv'
  <2> SUFFICES ASSUME TypeOK, CallHasTask, AppliedInv, SuccessMeansApplied, [Next]_vars
               PROVE  IInv'
    OBVIOUS
  <2> USE DEF cbVars, workerVars, flagVars, skillVars
  <2>1. CASE Tick \/ Shutdown \/ Destroy \/ JoinOnDestroy \/ RejectIntent \/ StopActivity
    BY <2>1 DEF Tick, Shutdown, Destroy, JoinOnDestroy, RejectIntent, StopActivity,
                AppliedInv, SuccessMeansApplied
  <2>2. ASSUME NEW intent \in Intents, IntentCallback(intent)
        PROVE  IInv'
    BY <2>2 DEF IntentCallback, AppliedInv, SuccessMeansApplied
  <2>3. CASE StartMission
    BY <2>3 DEF StartMission, AppliedInv, SuccessMeansApplied, Running
  <2>4. CASE BeginMission
    <3>1. SuccessMeansApplied'
      BY <2>4, PublishSound DEF BeginMission
    <3>2. AppliedInv'
      BY <2>4 DEF BeginMission, AppliedInv
    <3>3. QED
      BY <3>1, <3>2
  <2>5. CASE NextTask
    <3>1. mission.tasks = AreaControlTasks /\ completed = Len(mission.tasks) =>
            mission.run \in applied
      BY <2>5 DEF NextTask, AppliedInv, Running, AreaControlTasks
    <3>2. SuccessMeansApplied'
      <4>1. CASE completed = Len(mission.tasks) /\ Publish("SUCCEEDED")
        BY <2>5, <4>1, <3>1, PublishSound DEF NextTask, Terminal
      <4>2. CASE Publish("ACTIVE") \/ Publish("CANCELLED")
        BY <2>5, <4>2, PublishSound DEF NextTask, Terminal
      <4>3. QED
        BY <2>5, <4>1, <4>2 DEF NextTask
    <3>3. AppliedInv'
      BY <2>5 DEF NextTask, AppliedInv, Running
    <3>4. QED
      BY <3>2, <3>3
  <2>6. CASE TaskFailed
    <3>1. SuccessMeansApplied'
      BY <2>6, PublishSound DEF TaskFailed, Terminal
    <3>2. AppliedInv'
      BY <2>6 DEF TaskFailed, AppliedInv, Running
    <3>3. QED
      BY <3>1, <3>2
  <2>7. CASE EndMission
    BY <2>7 DEF EndMission, AppliedInv, SuccessMeansApplied, Running
  <2>8. CASE SendGoal
    BY <2>8 DEF SendGoal, AppliedInv, SuccessMeansApplied, Running
  <2>9. CASE GoalResponse
    BY <2>9 DEF GoalResponse, AppliedInv, SuccessMeansApplied, Running
  <2>10. CASE SkillResult
    <3>1. completed \in {0, 1}
      BY <2>10 DEF SkillResult, CallHasTask, TypeOK
    <3>2. AppliedInv'
      BY <2>10, <3>1 DEF SkillResult, AppliedInv, Running
    <3>3. SuccessMeansApplied'
      BY <2>10 DEF SkillResult, SuccessMeansApplied
    <3>4. QED
      BY <3>2, <3>3
  <2>11. ASSUME NEW g \in goals, ServeGoal(g)
         PROVE  IInv'
    <3>1. applied \subseteq applied'
      BY <2>11 DEF ServeGoal
    <3>2. SuccessMeansApplied'
      BY <2>11, <3>1 DEF ServeGoal, SuccessMeansApplied
    <3>3. ASSUME wPc \in {"accept", "result"}, completed = 1, g = Goal, reply' = "ok",
                 mission.tasks = AreaControlTasks
          PROVE  mission.run \in applied' \/ reply = "ok"
      <4>1. g.run = mission.run /\ g.task = "set_area_state"
        BY <3>3 DEF Goal, AreaControlTasks
      <4>2. QED
        BY <2>11, <3>3, <4>1 DEF ServeGoal
    <3>4. AppliedInv'
      BY <2>11, <3>1, <3>3 DEF ServeGoal, AppliedInv
    <3>5. QED
      BY <3>2, <3>4
  <2>12. CASE UNCHANGED vars
    BY <2>12 DEF vars, AppliedInv, SuccessMeansApplied
  <2>13. QED
    BY <2>1, <2>2, <2>3, <2>4, <2>5, <2>6, <2>7, <2>8, <2>9, <2>10, <2>11, <2>12
       DEF Next, CallbackStep, WorkerStep, Terminated
<1>3. QED
  BY <1>1, <1>2, TypeCorrect, PTL DEF Spec
=============================================================================
