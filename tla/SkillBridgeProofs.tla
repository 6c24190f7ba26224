-------------------------- MODULE SkillBridgeProofs --------------------------
(***************************************************************************)
(* A setting that was confirmed is in force: for any number of triggers,   *)
(* goals of other clients, crashes and late answers.                       *)
(***************************************************************************)
EXTENDS SkillBridge, SequenceTheorems, TLAPS

Goals == UNION {GoalsOf(k) : k \in Skills}
Sent == {None} \cup UNION {Args(k) : k \in Skills}
Fences == [up : BOOLEAN, locked : BOOLEAN, radius : {"narrow", "normal"}, enabled : BOOLEAN,
           contours : BOOLEAN, known : BOOLEAN]

TypeOK ==
  /\ task \in Tasks \cup {<<>>} /\ handler \in Tasks \cup {None} /\ step \in Nat \ {0}
  /\ goals \in Seq(Goals) /\ busy \in Goals \cup {None} /\ requests \in Seq(Goals)
  /\ fence \in Fences
  /\ last \in [Settings -> [arg : Sent, confirmed : BOOLEAN]]

(* The geofence has served all that was sent to the service of k and is as *)
(* the last setting made it.                                               *)
Settled(k) ==
  /\ \A i \in 1..Len(requests) : requests[i].skill # k
  /\ InForce(k, last[k].arg)

(* At most one request is waited for, the youngest: the one the handler    *)
(* sent.                                                                   *)
AwaitedInv ==
  \A i \in 1..Len(requests) :
    requests[i].awaited =>
      /\ i = Len(requests)
      /\ busy # None /\ phase = "sent"
      /\ requests[i].skill = busy.skill /\ requests[i].arg = busy.arg
      /\ busy.skill \in Settings => last[busy.skill] = [arg |-> busy.arg, confirmed |-> FALSE]

(* An answer that says TRUE comes from the setting sent last, unless the   *)
(* geofence died since.                                                    *)
AnswerInv ==
  /\ busy # None /\ phase = "answered"
  /\ busy.skill \in Settings /\ last[busy.skill].arg # None
  /\ reply[1] = TRUE
  => Settled(busy.skill)

(* A geofence that died has been told nothing since.                       *)
DownInv ==
  ~fence.up => \A k \in Settings : last[k].arg = None /\ ~last[k].confirmed

ConfirmedInv == \A k \in Settings : last[k].confirmed => Settled(k)

IInv == TypeOK /\ AwaitedInv /\ AnswerInv /\ DownInv /\ ConfirmedInv

-----------------------------------------------------------------------------
LEMMA SkillNames ==
  /\ Skills = {"validate_path", "update_map", "set_area_state", "set_safety_radius",
               "update_warehouse_layout", "get_area_state", "get_safety_radius",
               "get_map_info", "set_geofence_enabled"}
  /\ Settings = {"set_area_state", "set_safety_radius", "set_geofence_enabled"}
  /\ \A k \in Settings : NoAnswer(k) = FALSE
<1> DEFINE H == Handler
<1>1. Skills = {"validate_path", "update_map", "set_area_state", "set_safety_radius",
               "update_warehouse_layout", "get_area_state", "get_safety_radius",
               "get_map_info", "set_geofence_enabled"}
  BY DEF Skills, Handler
<1>2. Settings = {"set_area_state", "set_safety_radius", "set_geofence_enabled"}
  BY <1>1 DEF Settings, Handler, Handles, HandleValidatePath, HandleUpdateMap, HandleSetAreaState,
     HandleSetSafetyRadius, HandleUpdateWarehouseLayout, HandleGetAreaState, HandleGetSafetyRadius,
     HandleGetMapInfo, HandleSetGeofenceEnabled
<1>3. \A k \in Settings : NoAnswer(k) = FALSE
  BY <1>2 DEF NoAnswer, Handler, Handles, HandleSetAreaState, HandleSetSafetyRadius, HandleSetGeofenceEnabled
<1> QED BY <1>1, <1>2, <1>3

LEMMA ArgNames ==
  /\ Args("set_area_state") = BOOLEAN /\ Args("set_geofence_enabled") = BOOLEAN
  /\ Args("set_safety_radius") = {"narrow", "normal"}
  /\ \A k \in Skills \ Settings : Args(k) = {None}
BY SkillNames DEF Args

(* Goals are records, not None, and a client may stop waiting for one.     *)
LEMMA GoalFacts ==
  ASSUME NEW g \in Goals
  PROVE  /\ g.skill \in Skills /\ g.arg \in Args(g.skill) /\ g.awaited \in BOOLEAN
         /\ g # None
         /\ \A b \in BOOLEAN :
              /\ [g EXCEPT !.awaited = b] \in Goals
              /\ [g EXCEPT !.awaited = b].skill = g.skill
              /\ [g EXCEPT !.awaited = b].arg = g.arg
              /\ [g EXCEPT !.awaited = b].awaited = b
<1>1. PICK k \in Skills : g \in GoalsOf(k)
  BY DEF Goals
<1>2. /\ g.skill = k /\ g.arg \in Args(g.skill) /\ g.awaited \in BOOLEAN
  BY <1>1 DEF GoalsOf
<1>3. g # None
  BY <1>1, NoneAssumption
<1>4. ASSUME NEW b \in BOOLEAN
      PROVE  /\ [g EXCEPT !.awaited = b] \in GoalsOf(k)
             /\ [g EXCEPT !.awaited = b].skill = g.skill
             /\ [g EXCEPT !.awaited = b].arg = g.arg
             /\ [g EXCEPT !.awaited = b].awaited = b
  BY <1>1 DEF GoalsOf
<1> QED BY <1>1, <1>2, <1>3, <1>4 DEF Goals

LEMMA AbandonedFacts ==
  ASSUME NEW g \in Goals
  PROVE  /\ Abandoned(g) \in Goals /\ Abandoned(g) # None /\ Abandoned(g).awaited = FALSE
         /\ Abandoned(g).skill = g.skill /\ Abandoned(g).arg = g.arg
<1>1. Abandoned(g) = [g EXCEPT !.awaited = FALSE]
  BY GoalFacts DEF Abandoned
<1>2. [g EXCEPT !.awaited = FALSE] \in Goals
  BY GoalFacts
<1>3. [g EXCEPT !.awaited = FALSE] # None
  BY <1>2, GoalFacts
<1> QED BY <1>1, <1>2, <1>3, GoalFacts

LEMMA SettingArg ==
  ASSUME NEW g \in Goals
  PROVE  /\ g.skill = "set_area_state" => g.arg \in BOOLEAN
         /\ g.skill = "set_safety_radius" => g.arg \in {"narrow", "normal"}
         /\ g.skill = "set_geofence_enabled" => g.arg \in BOOLEAN
BY GoalFacts, SkillNames DEF Args

(* The order of what stays is kept.                                        *)
LEMMA RemoveAtFacts ==
  ASSUME NEW S, NEW s \in Seq(S), NEW i \in 1..Len(s)
  PROVE  /\ RemoveAt(s, i) \in Seq(S)
         /\ Len(RemoveAt(s, i)) = Len(s) - 1
         /\ \A j \in 1..(Len(s) - 1) : RemoveAt(s, i)[j] = IF j < i THEN s[j] ELSE s[j + 1]
<1> DEFINE a == SubSeq(s, 1, i - 1)
           b == SubSeq(s, i + 1, Len(s))
<1>1. a \in Seq(S) /\ Len(a) = i - 1 /\ \A j \in 1..(i - 1) : a[j] = s[j]
  OBVIOUS
<1>2. b \in Seq(S) /\ Len(b) = Len(s) - i /\ \A j \in 1..(Len(s) - i) : b[j] = s[i + j]
  OBVIOUS
<1>3. RemoveAt(s, i) = a \o b
  BY DEF RemoveAt
<1> HIDE DEF a, b
<1>4. /\ a \o b \in Seq(S) /\ Len(a \o b) = Len(a) + Len(b)
      /\ \A j \in 1 .. Len(a) + Len(b) : (a \o b)[j] = IF j <= Len(a) THEN a[j] ELSE b[j - Len(a)]
  BY <1>1, <1>2, ConcatProperties
<1>5. Len(a) + Len(b) = Len(s) - 1
  BY <1>1, <1>2
<1>6. ASSUME NEW j \in 1..(Len(s) - 1)
      PROVE  (a \o b)[j] = IF j < i THEN s[j] ELSE s[j + 1]
  <2>1. CASE j < i
    BY <2>1, <1>1, <1>4, <1>5
  <2>2. CASE ~(j < i)
    <3>1. (a \o b)[j] = b[j - (i - 1)] /\ j - (i - 1) \in 1..(Len(s) - i)
      BY <2>2, <1>1, <1>4, <1>5
    <3>2. b[j - (i - 1)] = s[i + (j - (i - 1))] /\ i + (j - (i - 1)) = j + 1
      BY <3>1, <1>2
    <3> QED BY <2>2, <3>1, <3>2
  <2> QED BY <2>1, <2>2
<1> QED BY <1>3, <1>4, <1>5, <1>6

(* What stays after a removal was there before.                            *)
LEMMA RemoveAtKeeps ==
  ASSUME NEW S, NEW s \in Seq(S), NEW i \in 1..Len(s), NEW j \in 1..Len(RemoveAt(s, i))
  PROVE  \E l \in 1..Len(s) : /\ l # i /\ RemoveAt(s, i)[j] = s[l]
                              /\ l = Len(s) => j = Len(RemoveAt(s, i))
<1>1. /\ Len(RemoveAt(s, i)) = Len(s) - 1 /\ Len(s) \in Nat
      /\ RemoveAt(s, i)[j] = IF j < i THEN s[j] ELSE s[j + 1]
  BY RemoveAtFacts
<1>2. CASE j < i
  <2>1. j \in 1..Len(s) /\ j # i /\ RemoveAt(s, i)[j] = s[j] /\ j # Len(s)
    BY <1>1, <1>2
  <2> QED BY <2>1
<1>3. CASE ~(j < i)
  <2>1. /\ j + 1 \in 1..Len(s) /\ j + 1 # i /\ RemoveAt(s, i)[j] = s[j + 1]
        /\ j + 1 = Len(s) => j = Len(RemoveAt(s, i))
    BY <1>1, <1>3
  <2> QED BY <2>1
<1> QED BY <1>2, <1>3

(* The goal a step sends is one.                                           *)
StepOK(s) == s.skill # None => s.skill \in Skills /\ s.arg \in Args(s.skill)

LEMMA StepKinds ==
  /\ \A name : StepOK(Mock(name))
  /\ \A name : \A k \in Skills \ Settings : StepOK(Step(name, k, None))
  /\ \A name : \A b \in BOOLEAN : /\ StepOK(Step(name, "set_area_state", b))
                                 /\ StepOK(Step(name, "set_geofence_enabled", b))
  /\ \A name : \A r \in {"narrow", "normal"} : StepOK(Step(name, "set_safety_radius", r))
<1>1. \A name : StepOK(Mock(name))
  BY DEF StepOK, Mock, Step
<1>2. \A name : \A k \in Skills \ Settings : StepOK(Step(name, k, None))
  BY ArgNames DEF StepOK, Step
<1>3. \A name : \A b \in BOOLEAN : /\ StepOK(Step(name, "set_area_state", b))
                                 /\ StepOK(Step(name, "set_geofence_enabled", b))
  BY ArgNames, SkillNames DEF StepOK, Step
<1>4. \A name : \A r \in {"narrow", "normal"} : StepOK(Step(name, "set_safety_radius", r))
  BY ArgNames, SkillNames DEF StepOK, Step
<1> QED BY <1>1, <1>2, <1>3, <1>4

LEMMA StepGoal ==
  ASSUME NEW t \in Tasks \cup {<<>>}, NEW n \in 1..Len(t)
  PROVE  StepOK(t[n])
<1>1. CASE t = BuildSafeNavigationTask
  <2>1. n \in {1, 2, 3}
    BY <1>1 DEF BuildSafeNavigationTask
  <2>2. /\ t[1] = Step("get_map_info", "get_map_info", None)
        /\ t[2] = Step("validate_path", "validate_path", None)
        /\ t[3] = Mock("navigate")
    BY <1>1 DEF BuildSafeNavigationTask
  <2>3. /\ StepOK(Step("get_map_info", "get_map_info", None))
        /\ StepOK(Step("validate_path", "validate_path", None))
        /\ StepOK(Mock("navigate"))
    BY StepKinds, SkillNames
  <2> QED BY <2>1, <2>2, <2>3
<1>2. CASE t = BuildCorridorCrossingTask
  <2>1. n \in {1, 2, 3, 4, 5, 6, 7}
    BY <1>2 DEF BuildCorridorCrossingTask
  <2>2. /\ t[1] = Step("check_corridor", "get_area_state", None)
        /\ t[2] = Step("lock_corridor", "set_area_state", TRUE)
        /\ t[3] = Step("tighten_safety", "set_safety_radius", "narrow")
        /\ t[4] = Step("validate_path", "validate_path", None)
        /\ t[5] = Mock("navigate_corridor")
        /\ t[6] = Step("restore_safety", "set_safety_radius", "normal")
        /\ t[7] = Step("unlock_corridor", "set_area_state", FALSE)
    BY <1>2 DEF BuildCorridorCrossingTask
  <2>3. /\ StepOK(Step("check_corridor", "get_area_state", None))
        /\ StepOK(Step("lock_corridor", "set_area_state", TRUE))
        /\ StepOK(Step("tighten_safety", "set_safety_radius", "narrow"))
        /\ StepOK(Step("validate_path", "validate_path", None))
        /\ StepOK(Mock("navigate_corridor"))
        /\ StepOK(Step("restore_safety", "set_safety_radius", "normal"))
        /\ StepOK(Step("unlock_corridor", "set_area_state", FALSE))
    BY StepKinds, SkillNames
  <2> QED BY <2>1, <2>2, <2>3
<1>3. CASE t = BuildMaintenanceModeTask
  <2>1. n \in {1, 2, 3, 4, 5}
    BY <1>3 DEF BuildMaintenanceModeTask
  <2>2. /\ t[1] = Step("disable_geofence", "set_geofence_enabled", FALSE)
        /\ t[2] = Mock("navigate_home")
        /\ t[3] = Mock("wait_maintenance")
        /\ t[4] = Step("enable_geofence", "set_geofence_enabled", TRUE)
        /\ t[5] = Step("verify_health", "get_map_info", None)
    BY <1>3 DEF BuildMaintenanceModeTask
  <2>3. /\ StepOK(Step("disable_geofence", "set_geofence_enabled", FALSE))
        /\ StepOK(Mock("navigate_home"))
        /\ StepOK(Mock("wait_maintenance"))
        /\ StepOK(Step("enable_geofence", "set_geofence_enabled", TRUE))
        /\ StepOK(Step("verify_health", "get_map_info", None))
    BY StepKinds, SkillNames
  <2> QED BY <2>1, <2>2, <2>3
<1>4. CASE t = <<>>
  BY <1>4
<1> QED BY <1>1, <1>2, <1>3, <1>4 DEF Tasks

(* A service changes its own setting and no other, and a setting that is   *)
(* answered TRUE is made.                                                  *)
LEMMA ServiceFacts ==
  ASSUME NEW r \in Goals, fence \in Fences, NEW a \in Answers(r)
  PROVE  /\ a[1] \in Fences /\ a[1].up = fence.up
         /\ r.skill # "set_area_state" => a[1].locked = fence.locked
         /\ r.skill # "set_safety_radius" => a[1].radius = fence.radius
         /\ r.skill # "set_geofence_enabled" => a[1].enabled = fence.enabled
         /\ r.skill = "set_area_state" => a[1].locked = r.arg
         /\ r.skill = "set_safety_radius" => a[1].radius = r.arg
         /\ r.skill = "set_geofence_enabled" /\ a[2] = TRUE => a[1].enabled = r.arg
<1>1. r.skill \in Skills
  BY GoalFacts
<1>2. CASE r.skill = "set_area_state"
  <2>1. a = <<[fence EXCEPT !.locked = r.arg], TRUE>> /\ r.arg \in BOOLEAN
    BY <1>2, SettingArg DEF Answers, AreaStateService
  <2> QED BY <1>2, <2>1 DEF Fences
<1>3. CASE r.skill = "set_safety_radius"
  <2>1. a = <<[fence EXCEPT !.radius = r.arg], TRUE>> /\ r.arg \in {"narrow", "normal"}
    BY <1>3, SettingArg DEF Answers, SetSafetyCircleRadiusService
  <2> QED BY <1>3, <2>1 DEF Fences
<1>4. CASE r.skill = "set_geofence_enabled"
  <2>1. r.arg \in BOOLEAN
    BY <1>4, SettingArg
  <2>2. a \in ChangeState(r)
    BY <1>4 DEF Answers
  <2>3. CASE a = <<fence, FALSE>>
    BY <1>4, <2>3
  <2>4. CASE a = <<[fence EXCEPT !.enabled = r.arg], TRUE>>
    <3>1. a[1] = [fence EXCEPT !.enabled = r.arg]
      BY <2>4
    <3> QED BY <1>4, <2>1, <3>1 DEF Fences
  <2> QED BY <2>2, <2>3, <2>4 DEF ChangeState
<1>5. CASE r.skill \notin Settings
  <2>1. CASE r.skill = "get_area_state"
    <3>1. a \in GetAreaStateService
      BY <2>1 DEF Answers
    <3>2. a[1] = fence
      BY <3>1 DEF GetAreaStateService
    <3> QED BY <1>5, <3>2, SkillNames
  <2>2. CASE r.skill = "get_safety_radius"
    <3>1. a \in GetSafetyRadiusService
      BY <2>2 DEF Answers
    <3>2. a[1] = fence
      BY <3>1 DEF GetSafetyRadiusService
    <3> QED BY <1>5, <3>2, SkillNames
  <2>3. CASE r.skill = "get_map_info"
    <3>1. a \in GetMapInfoService
      BY <2>3 DEF Answers
    <3>2. a[1] = fence
      BY <3>1 DEF GetMapInfoService
    <3> QED BY <1>5, <3>2, SkillNames
  <2>4. CASE r.skill = "validate_path"
    <3>1. a \in ValidatePathService
      BY <2>4 DEF Answers
    <3>2. a = <<fence, TRUE>> \/ a = <<fence, FALSE>>
      BY <3>1 DEF ValidatePathService
    <3>3. CASE a = <<fence, TRUE>>
      BY <3>3, <1>5, SkillNames
    <3>4. CASE a = <<fence, FALSE>>
      BY <3>4, <1>5, SkillNames
    <3> QED BY <3>2, <3>3, <3>4
  <2>5. CASE r.skill = "update_map"
    <3>1. a \in UpdateMapService
      BY <2>5 DEF Answers
    <3>2. a = <<fence, FALSE>> \/ a = <<[fence EXCEPT !.known = TRUE], TRUE>>
      BY <3>1 DEF UpdateMapService
    <3>3. CASE a = <<fence, FALSE>>
      BY <3>3, <1>5, SkillNames
    <3>4. CASE a = <<[fence EXCEPT !.known = TRUE], TRUE>>
      <4>1. a[1] = [fence EXCEPT !.known = TRUE]
        BY <3>4
      <4> QED BY <4>1, <1>5, SkillNames DEF Fences
    <3> QED BY <3>2, <3>3, <3>4
  <2>6. CASE r.skill = "update_warehouse_layout"
    <3>1. a \in UpdateWarehouseLayoutService
      BY <2>6 DEF Answers
    <3>2. a = <<fence, FALSE>> \/ a = <<[fence EXCEPT !.contours = TRUE], TRUE>>
      BY <3>1 DEF UpdateWarehouseLayoutService
    <3>3. CASE a = <<fence, FALSE>>
      BY <3>3, <1>5, SkillNames
    <3>4. CASE a = <<[fence EXCEPT !.contours = TRUE], TRUE>>
      <4>1. a[1] = [fence EXCEPT !.contours = TRUE]
        BY <3>4
      <4> QED BY <4>1, <1>5, SkillNames DEF Fences
    <3> QED BY <3>2, <3>3, <3>4
  <2> QED BY <1>1, <1>5, <2>1, <2>2, <2>3, <2>4, <2>5, <2>6, SkillNames
<1> QED BY <1>1, <1>2, <1>3, <1>4, <1>5, SkillNames

-----------------------------------------------------------------------------
(* Init and each step keep the invariant.                                  *)
USE DEF IInv

LEMMA InForceSettings ==
  ASSUME NEW k \in Settings, NEW arg
  PROVE  /\ k = "set_area_state" => (InForce(k, arg) <=> fence.locked = arg)
         /\ k = "set_safety_radius" => (InForce(k, arg) <=> fence.radius = arg)
         /\ k = "set_geofence_enabled" => (InForce(k, arg) <=> fence.enabled = arg)
         /\ k = "set_area_state" => (InForce(k, arg)' <=> fence'.locked = arg')
         /\ k = "set_safety_radius" => (InForce(k, arg)' <=> fence'.radius = arg')
         /\ k = "set_geofence_enabled" => (InForce(k, arg)' <=> fence'.enabled = arg')
BY DEF InForce

LEMMA InitIInv == Init => IInv
<1> SUFFICES ASSUME Init PROVE IInv
  OBVIOUS
<1>1. TypeOK
  <2>1. fence \in Fences
    BY DEF Init, Fresh, Fences
  <2>2. last \in [Settings -> [arg : Sent, confirmed : BOOLEAN]]
    <3>1. None \in Sent
      BY DEF Sent
    <3> QED BY <3>1 DEF Init
  <2> QED BY <2>1, <2>2 DEF Init, TypeOK
<1>2. AwaitedInv /\ AnswerInv
  BY DEF Init, AwaitedInv, AnswerInv
<1>3. DownInv /\ ConfirmedInv
  BY DEF Init, DownInv, ConfirmedInv
<1> QED BY <1>1, <1>2, <1>3

(* What the invariant is about but for the goals and the handler's client. *)
served == <<requests, phase, reply, last, fence>>

(* The runner's steps add a goal or stop waiting for one; the services     *)
(* they call are the bridge's.                                             *)
LEMMA RunnerFrame ==
  ASSUME IInv, served' = served,
         task' \in Tasks \cup {<<>>}, handler' \in Tasks \cup {None}, step' \in Nat \ {0},
         goals' \in Seq(Goals),
         \/ busy' = busy
         \/ busy' = Abandoned(busy)
  PROVE  IInv'
<1>1. /\ busy' \in Goals \cup {None} /\ (busy' = None <=> busy = None)
      /\ busy # None => busy'.skill = busy.skill /\ busy'.arg = busy.arg
  <2>1. CASE busy = None
    BY <2>1 DEF Abandoned
  <2>2. CASE busy \in Goals
    <3>1. /\ Abandoned(busy) \in Goals /\ Abandoned(busy) # None
          /\ Abandoned(busy).skill = busy.skill /\ Abandoned(busy).arg = busy.arg
      BY <2>2, AbandonedFacts
    <3>2. busy # None
      BY <2>2, GoalFacts
    <3> QED BY <2>2, <3>1, <3>2
  <2> QED BY <2>1, <2>2 DEF TypeOK
<1>2. requests' = requests /\ phase' = phase /\ reply' = reply /\ last' = last /\ fence' = fence
  BY DEF served
<1>3. TypeOK'
  <2>1. requests' \in Seq(Goals) /\ fence' \in Fences
    BY <1>2 DEF TypeOK
  <2>2. last' \in [Settings -> [arg : Sent, confirmed : BOOLEAN]]
    BY <1>2 DEF TypeOK
  <2>3. busy' \in Goals \cup {None}
    BY <1>1
  <2> QED BY <2>1, <2>2, <2>3 DEF TypeOK
<1>4. AwaitedInv'
  BY <1>1, <1>2 DEF AwaitedInv
<1>5. AnswerInv' /\ ConfirmedInv'
  BY <1>1, <1>2 DEF AnswerInv, ConfirmedInv, Settled, InForce
<1>6. DownInv'
  BY <1>2 DEF DownInv
<1> QED BY <1>3, <1>4, <1>5, <1>6

LEMMA FinishFrame ==
  ASSUME TypeOK, NEW status, Finish(status)
  PROVE  task' \in Tasks \cup {<<>>} /\ handler' \in Tasks \cup {None} /\ step' \in Nat \ {0}
BY DEF Finish, TypeOK

LEMMA StepEndsFrame ==
  ASSUME TypeOK, NEW res, StepEnds(res)
  PROVE  task' \in Tasks \cup {<<>>} /\ handler' \in Tasks \cup {None} /\ step' \in Nat \ {0}
<1>1. CASE StepOk(Here, res)
  BY <1>1 DEF StepEnds, TypeOK
<1>2. CASE ~StepOk(Here, res)
  BY <1>2, FinishFrame DEF StepEnds
<1> QED BY <1>1, <1>2

LEMMA RunNextKeeps == IInv /\ RunNext => IInv'
<1> SUFFICES ASSUME IInv, RunNext PROVE IInv'
  OBVIOUS
<1>1. served' = served /\ busy' = busy
  BY DEF RunNext, served
<1>2. CASE step > Len(task) \/ cancelled
  <2>1. \E status : Finish(status)
    BY <1>2 DEF RunNext
  <2>2. goals' = goals
    BY <1>2 DEF RunNext
  <2> QED BY <1>1, <2>1, <2>2, FinishFrame, RunnerFrame DEF TypeOK
<1>3. CASE ~(step > Len(task) \/ cancelled) /\ Here.skill = None
  <2>1. step' = step + 1 /\ task' = task /\ handler' = handler /\ goals' = goals
    BY <1>3 DEF RunNext
  <2> QED BY <1>1, <2>1, RunnerFrame DEF TypeOK
<1>4. CASE ~(step > Len(task) \/ cancelled) /\ Here.skill # None
  <2> DEFINE g == [skill |-> Here.skill, arg |-> Here.arg, awaited |-> TRUE]
  <2>1. goals' = Append(goals, g) /\ step' = step /\ task' = task /\ handler' = handler
    BY <1>4 DEF RunNext
  <2>2. step \in 1..Len(task) /\ task \in Tasks \cup {<<>>}
    <3>1. Len(task) \in Nat
      BY DEF TypeOK, Tasks, BuildSafeNavigationTask, BuildCorridorCrossingTask, BuildMaintenanceModeTask
    <3> QED BY <1>4, <3>1 DEF TypeOK
  <2>3. StepOK(task[step])
    BY <2>2, StepGoal
  <2>4. g \in GoalsOf(Here.skill) /\ Here.skill \in Skills
    BY <1>4, <2>3 DEF StepOK, Here, GoalsOf
  <2>5. g \in Goals
    BY <2>4 DEF Goals
  <2>6. goals' \in Seq(Goals)
    BY <2>1, <2>5 DEF TypeOK
  <2> QED BY <1>1, <2>1, <2>6, RunnerFrame DEF TypeOK
<1> QED BY <1>2, <1>3, <1>4

LEMMA RunnerKeeps == IInv /\ Runner => IInv'
<1> SUFFICES ASSUME IInv, Runner PROVE IInv'
  OBVIOUS
<1>1. CASE RunStart
  BY <1>1, RunnerFrame DEF RunStart, served, bridgeVars, TypeOK
<1>2. CASE RunReset
  BY <1>2, RunnerFrame DEF RunReset, served, bridgeVars, TypeOK
<1>3. CASE RunNext
  BY <1>3, RunNextKeeps
<1>4. CASE CallReturns
  <2>1. StepEnds(result[1]) /\ served' = served /\ goals' = goals /\ busy' = busy
    BY <1>4 DEF CallReturns, served, bridgeVars
  <2> QED BY <2>1, StepEndsFrame, RunnerFrame DEF TypeOK
<1>5. CASE CallTimesOut
  <2>1. StepEnds(None) /\ served' = served
    BY <1>5 DEF CallTimesOut, served
  <2>2. busy' = Abandoned(busy)
    BY <1>5 DEF CallTimesOut
  <2>3. goals' \in Seq(Goals)
    <3>1. ASSUME NEW i \in 1..Len(goals)
         PROVE  Abandoned(goals[i]) \in Goals
      <4>1. goals[i] \in Goals
        BY ElementOfSeq DEF TypeOK
      <4> QED BY <4>1, AbandonedFacts
    <3>2. goals' = [i \in 1..Len(goals) |-> Abandoned(goals[i])]
      BY <1>5 DEF CallTimesOut
    <3> QED BY <3>1, <3>2, IsASeq DEF TypeOK
  <2> QED BY <2>1, <2>2, <2>3, StepEndsFrame, RunnerFrame
<1>6. CASE CallFindsNoServer
  <2>1. StepEnds(None) /\ served' = served /\ goals' = goals /\ busy' = busy
    BY <1>6 DEF CallFindsNoServer, served, bridgeVars
  <2> QED BY <2>1, StepEndsFrame, RunnerFrame DEF TypeOK
<1> QED BY <1>1, <1>2, <1>3, <1>4, <1>5, <1>6 DEF Runner

LEMMA TriggersKeep ==
  IInv /\ (ThreadStarts \/ HandleCancel \/ (\E t \in Tasks : LaunchTask(t))) => IInv'
<1> SUFFICES ASSUME IInv, ThreadStarts \/ HandleCancel \/ (\E t \in Tasks : LaunchTask(t))
             PROVE IInv'
  OBVIOUS
<1>1. CASE ThreadStarts
  BY <1>1, RunnerFrame DEF ThreadStarts, served, bridgeVars, TypeOK
<1>2. CASE HandleCancel
  BY <1>2, RunnerFrame DEF HandleCancel, served, bridgeVars, TypeOK
<1>3. ASSUME NEW t \in Tasks, LaunchTask(t)
      PROVE  IInv'
  <2>1. served' = served /\ goals' = goals /\ busy' = busy /\ task' = task /\ step' = step
    BY <1>3 DEF LaunchTask, served, bridgeVars
  <2>2. handler' \in Tasks \cup {None}
    BY <1>3 DEF LaunchTask, TypeOK
  <2> QED BY <2>1, <2>2, RunnerFrame DEF TypeOK
<1> QED BY <1>1, <1>2, <1>3

LEMMA OtherGoalKeeps == IInv /\ OtherGoal => IInv'
<1> SUFFICES ASSUME IInv, OtherGoal PROVE IInv'
  OBVIOUS
<1>1. served' = served /\ busy' = busy /\ task' = task /\ step' = step /\ handler' = handler
  BY DEF OtherGoal, served, taskVars
<1>2. goals' \in Seq(Goals)
  BY DEF OtherGoal, Goals, TypeOK
<1> QED BY <1>1, <1>2, RunnerFrame DEF TypeOK

-----------------------------------------------------------------------------
(* The bridge and the geofence.                                            *)

LEMMA TakeGoalKeeps == IInv /\ TakeGoal => IInv'
<1> SUFFICES ASSUME IInv, TakeGoal PROVE IInv'
  OBVIOUS
<1>1. PICK i \in 1..Len(goals) : busy' = goals[i] /\ goals' = RemoveAt(goals, i)
  BY DEF TakeGoal
<1>2. /\ requests' = requests /\ last' = last /\ fence' = fence /\ phase' = "discover" /\ busy = None
      /\ task' = task /\ handler' = handler /\ step' = step
  BY DEF TakeGoal, taskVars
<1>3. TypeOK'
  BY <1>1, <1>2, RemoveAtFacts DEF TypeOK
<1>4. AwaitedInv' /\ AnswerInv'
  BY <1>2 DEF AwaitedInv, AnswerInv
<1>5. DownInv' /\ ConfirmedInv'
  BY <1>2 DEF DownInv, ConfirmedInv, Settled, InForce
<1> QED BY <1>3, <1>4, <1>5

LEMMA SendRequestKeeps == IInv /\ SendRequest => IInv'
<1> SUFFICES ASSUME IInv, SendRequest PROVE IInv'
  OBVIOUS
<1> DEFINE r == [busy EXCEPT !.awaited = TRUE]
           k == busy.skill
           sent == [arg |-> busy.arg, confirmed |-> FALSE]
<1>1. /\ requests' = Append(requests, r) /\ phase = "discover" /\ phase' = "sent" /\ fence' = fence
      /\ busy' = busy /\ fence.up /\ goals' = goals
      /\ task' = task /\ handler' = handler /\ step' = step
      /\ last' = IF k \in Settings THEN [last EXCEPT ![k] = sent] ELSE last
  BY DEF SendRequest, taskVars
<1>2. /\ r \in Goals /\ r.skill = k /\ r.arg = busy.arg /\ busy # None
      /\ k \in Skills /\ busy.arg \in Args(k)
  BY GoalFacts DEF SendRequest, TypeOK
<1>3. /\ requests' \in Seq(Goals) /\ Len(requests') = Len(requests) + 1 /\ Len(requests) \in Nat
      /\ requests'[Len(requests) + 1] = r
      /\ \A i \in 1..Len(requests) : requests'[i] = requests[i]
  <2> HIDE DEF r
  <2> QED BY <1>1, <1>2 DEF TypeOK
<1>4. /\ k \in Settings => last'[k] = sent
      /\ \A l \in Settings : l # k => last'[l] = last[l]
  BY <1>1 DEF TypeOK
<1>5. TypeOK'
  <2>1. last' \in [Settings -> [arg : Sent, confirmed : BOOLEAN]]
    <3>1. sent \in [arg : Sent, confirmed : BOOLEAN]
      BY <1>2 DEF Sent
    <3> HIDE DEF sent
    <3> QED BY <1>1, <3>1 DEF TypeOK
  <2> QED BY <1>1, <1>3, <2>1 DEF TypeOK
<1>6. AwaitedInv'
  <2> SUFFICES ASSUME NEW i \in 1..Len(requests'), requests'[i].awaited
               PROVE  /\ i = Len(requests')
                      /\ busy' # None /\ phase' = "sent"
                      /\ requests'[i].skill = busy'.skill /\ requests'[i].arg = busy'.arg
                      /\ busy'.skill \in Settings => last'[busy'.skill] = [arg |-> busy'.arg, confirmed |-> FALSE]
    BY DEF AwaitedInv
  <2>1. i \notin 1..Len(requests)
    BY <1>1, <1>3 DEF AwaitedInv
  <2>2. i = Len(requests')
    BY <2>1, <1>3
  <2> QED BY <2>2, <1>1, <1>2, <1>3, <1>4
<1>7. AnswerInv' /\ DownInv'
  BY <1>1 DEF AnswerInv, DownInv
<1>8. ConfirmedInv'
  <2> SUFFICES ASSUME NEW l \in Settings, last'[l].confirmed
               PROVE  Settled(l)'
    BY DEF ConfirmedInv
  <2>1. l # k /\ last'[l] = last[l]
    BY <1>4
  <2>2. Settled(l)
    BY <2>1 DEF ConfirmedInv
  <2>3. \A i \in 1..Len(requests') : requests'[i].skill # l
    <3> SUFFICES ASSUME NEW i \in 1..Len(requests') PROVE requests'[i].skill # l
      OBVIOUS
    <3>1. CASE i \in 1..Len(requests)
      BY <3>1, <2>2, <1>3 DEF Settled
    <3>2. CASE i = Len(requests) + 1
      BY <3>2, <2>1, <1>2, <1>3
    <3> QED BY <3>1, <3>2, <1>3
  <2> QED BY <2>1, <2>2, <2>3, <1>1 DEF Settled, InForce
<1> QED BY <1>5, <1>6, <1>7, <1>8

(* The end of a goal confirms the setting only on an answer that says so.  *)
LEMMA GoalEndsFacts ==
  ASSUME TypeOK, busy # None, NEW value, GoalEnds(value)
  PROVE  /\ last' \in [Settings -> [arg : Sent, confirmed : BOOLEAN]]
         /\ \A l \in Settings :
              /\ last'[l].arg = last[l].arg
              /\ last'[l].confirmed =>
                   \/ last[l].confirmed
                   \/ l = busy.skill /\ value = TRUE /\ last[l].arg # None
<1>1. CASE busy.skill \in Settings /\ value = TRUE /\ last[busy.skill].arg # None
  <2>1. last' = [last EXCEPT ![busy.skill].confirmed = TRUE]
    BY <1>1 DEF GoalEnds
  <2> QED BY <1>1, <2>1 DEF TypeOK
<1>2. CASE ~(busy.skill \in Settings /\ value = TRUE /\ last[busy.skill].arg # None)
  <2>1. last' = last
    BY <1>2 DEF GoalEnds
  <2> QED BY <2>1 DEF TypeOK
<1> QED BY <1>1, <1>2

LEMMA AnswerInTimeKeeps == IInv /\ AnswerInTime => IInv'
<1> SUFFICES ASSUME IInv, AnswerInTime PROVE IInv'
  OBVIOUS
<1>1. /\ busy # None /\ phase = "answered" /\ GoalEnds(reply[1]) /\ goals' = goals
      /\ requests' = requests /\ fence' = fence /\ busy' = None
      /\ task' = task /\ handler' = handler /\ step' = step
  BY DEF AnswerInTime, taskVars, GoalEnds
<1>2. TypeOK'
  BY <1>1, GoalEndsFacts DEF TypeOK
<1>3. AwaitedInv'
  BY <1>1 DEF AwaitedInv
<1>4. AnswerInv'
  BY <1>1 DEF AnswerInv
<1>5. ConfirmedInv'
  <2> SUFFICES ASSUME NEW l \in Settings, last'[l].confirmed
               PROVE  Settled(l)'
    BY DEF ConfirmedInv
  <2>1. /\ last'[l].arg = last[l].arg
        /\ last[l].confirmed \/ (l = busy.skill /\ reply[1] = TRUE /\ last[l].arg # None)
    BY <1>1, GoalEndsFacts
  <2>2. Settled(l)
    BY <2>1, <1>1 DEF ConfirmedInv, AnswerInv
  <2> QED BY <2>1, <2>2, <1>1 DEF Settled, InForce
<1>6. DownInv'
  BY <1>1, GoalEndsFacts DEF DownInv
<1> QED BY <1>2, <1>3, <1>4, <1>5, <1>6

LEMMA GiveUpKeeps == IInv /\ GiveUp => IInv'
<1> SUFFICES ASSUME IInv, GiveUp PROVE IInv'
  OBVIOUS
<1>1. /\ busy # None /\ GoalEnds(NoAnswer(busy.skill)) /\ goals' = goals
      /\ requests' = [i \in 1..Len(requests) |-> Abandoned(requests[i])]
      /\ fence' = fence /\ busy' = None
      /\ task' = task /\ handler' = handler /\ step' = step
  BY DEF GiveUp, taskVars, GoalEnds
<1>2. /\ requests' \in Seq(Goals) /\ Len(requests') = Len(requests)
      /\ \A i \in 1..Len(requests) : /\ requests'[i].awaited = FALSE
                                     /\ requests'[i].skill = requests[i].skill
  <2>1. ASSUME NEW i \in 1..Len(requests)
        PROVE  /\ Abandoned(requests[i]) \in Goals /\ Abandoned(requests[i]).awaited = FALSE
               /\ Abandoned(requests[i]).skill = requests[i].skill
    <3>1. requests[i] \in Goals
      BY ElementOfSeq DEF TypeOK
    <3> QED BY <3>1, AbandonedFacts
  <2>2. requests' \in Seq(Goals) /\ Len(requests') = Len(requests)
    <3>1. Len(requests) \in Nat
      BY DEF TypeOK
    <3>2. requests' \in [1..Len(requests) -> Goals]
      BY <1>1, <2>1
    <3> QED BY <3>1, <3>2
  <2> QED BY <1>1, <2>1, <2>2
<1>3. \A l \in Settings : last'[l].arg = last[l].arg /\ (last'[l].confirmed => last[l].confirmed)
  BY <1>1, GoalEndsFacts, SkillNames
<1>4. TypeOK'
  BY <1>1, <1>2, GoalEndsFacts DEF TypeOK
<1>5. AwaitedInv' /\ AnswerInv'
  BY <1>1, <1>2 DEF AwaitedInv, AnswerInv
<1>6. DownInv'
  BY <1>1, <1>3 DEF DownInv
<1>7. ASSUME NEW k \in Settings, last'[k].confirmed
      PROVE  Settled(k)'
  <2>1. Settled(k) /\ last'[k].arg = last[k].arg
    BY <1>3, <1>7 DEF ConfirmedInv
  <2>2. InForce(k, last[k].arg)'
    <3>1. InForce(k, last[k].arg) /\ fence' = fence
      BY <1>1, <2>1 DEF Settled
    <3> QED BY <2>1, <3>1 DEF InForce
  <2>3. \A i \in 1..Len(requests') : requests'[i].skill # k
    BY <1>2, <2>1 DEF Settled
  <2> QED BY <2>2, <2>3 DEF Settled
<1> QED BY <1>4, <1>5, <1>6, <1>7 DEF ConfirmedInv

LEMMA CrashKeeps == IInv /\ Crash => IInv'
<1> SUFFICES ASSUME IInv, Crash PROVE IInv'
  OBVIOUS
<1>1. /\ fence' = [Fresh EXCEPT !.up = FALSE] /\ requests' = <<>>
      /\ last' = [k \in Settings |-> [arg |-> None, confirmed |-> FALSE]]
      /\ goals' = goals /\ busy' = busy
      /\ task' = task /\ handler' = handler /\ step' = step
  BY DEF Crash, taskVars
<1>2. TypeOK'
  <2>1. None \in Sent
    BY DEF Sent
  <2>2. last' \in [Settings -> [arg : Sent, confirmed : BOOLEAN]]
    BY <1>1, <2>1
  <2>3. fence' \in Fences
    BY <1>1 DEF Fresh, Fences
  <2> QED BY <1>1, <2>2, <2>3 DEF TypeOK
<1>3. AwaitedInv' /\ AnswerInv'
  BY <1>1 DEF AwaitedInv, AnswerInv
<1>4. DownInv' /\ ConfirmedInv'
  BY <1>1 DEF DownInv, ConfirmedInv
<1> QED BY <1>2, <1>3, <1>4

LEMMA RestartKeeps == IInv /\ Restart => IInv'
<1> SUFFICES ASSUME IInv, Restart PROVE IInv'
  OBVIOUS
<1>1. /\ ~fence.up /\ fence' = Fresh /\ requests' = requests /\ last' = last /\ phase' = phase
      /\ reply' = reply /\ goals' = goals /\ busy' = busy
      /\ task' = task /\ handler' = handler /\ step' = step
  BY DEF Restart, taskVars, bridgeVars
<1>2. TypeOK'
  BY <1>1 DEF TypeOK, Fresh, Fences
<1>3. AwaitedInv'
  BY <1>1 DEF AwaitedInv
<1>4. AnswerInv' /\ DownInv' /\ ConfirmedInv'
  BY <1>1 DEF AnswerInv, DownInv, ConfirmedInv, Fresh
<1> QED BY <1>2, <1>3, <1>4

LEMMA ServeKeeps == IInv /\ Serve => IInv'
<1> SUFFICES ASSUME IInv, Serve PROVE IInv'
  OBVIOUS
<1>0. PICK i \in 1..Len(requests) :
        /\ \A j \in 1..(i - 1) : requests[j].skill # requests[i].skill
        /\ \E a \in Answers(requests[i]) :
             /\ fence' = a[1]
             /\ IF requests[i].awaited THEN reply' = <<a[2]>> /\ phase' = "answered"
                                       ELSE UNCHANGED <<reply, phase>>
        /\ requests' = RemoveAt(requests, i)
  BY DEF Serve, Oldest
<1>1. PICK a \in Answers(requests[i]) :
        /\ \A j \in 1..(i - 1) : requests[j].skill # requests[i].skill
        /\ fence' = a[1]
        /\ IF requests[i].awaited THEN reply' = <<a[2]>> /\ phase' = "answered"
                                  ELSE UNCHANGED <<reply, phase>>
        /\ requests' = RemoveAt(requests, i)
  BY <1>0
<1> DEFINE r == requests[i]
<1>2. /\ goals' = goals /\ busy' = busy /\ last' = last /\ fence.up
      /\ task' = task /\ handler' = handler /\ step' = step
  BY DEF Serve, taskVars
<1>3. /\ r \in Goals /\ requests \in Seq(Goals) /\ Len(requests) \in Nat
  BY ElementOfSeq DEF TypeOK
<1>4. /\ requests' \in Seq(Goals) /\ Len(requests') = Len(requests) - 1
      /\ \A j \in 1..Len(requests') :
           \E l \in 1..Len(requests) : /\ l # i /\ requests'[j] = requests[l]
                                       /\ l = Len(requests) => j = Len(requests')
  <2>1. requests' \in Seq(Goals) /\ Len(requests') = Len(requests) - 1
    BY <1>1, <1>3, RemoveAtFacts
  <2>2. ASSUME NEW j \in 1..Len(requests')
        PROVE  \E l \in 1..Len(requests) : /\ l # i /\ requests'[j] = requests[l]
                                           /\ l = Len(requests) => j = Len(requests')
    BY <1>1, <1>3, RemoveAtKeeps
  <2> QED BY <2>1, <2>2
<1>5. /\ a[1] \in Fences /\ a[1].up = fence.up
      /\ r.skill # "set_area_state" => a[1].locked = fence.locked
      /\ r.skill # "set_safety_radius" => a[1].radius = fence.radius
      /\ r.skill # "set_geofence_enabled" => a[1].enabled = fence.enabled
      /\ r.skill = "set_area_state" => a[1].locked = r.arg
      /\ r.skill = "set_safety_radius" => a[1].radius = r.arg
      /\ r.skill = "set_geofence_enabled" /\ a[2] = TRUE => a[1].enabled = r.arg
  BY <1>3, ServiceFacts DEF TypeOK
<1> HIDE DEF r
<1>6. ASSUME NEW k \in Settings, Settled(k)
      PROVE  Settled(k)'
  <2>1. r.skill # k
    BY <1>6 DEF Settled, r
  <2>2. \A j \in 1..Len(requests') : requests'[j].skill # k
    BY <1>4, <1>6 DEF Settled
  <2>3. InForce(k, last[k].arg)'
    BY <1>1, <1>2, <1>5, <1>6, <2>1, SkillNames DEF Settled, InForce
  <2> QED BY <2>2, <2>3 DEF Settled
<1>7. TypeOK'
  BY <1>1, <1>2, <1>4, <1>5 DEF TypeOK
<1>8. DownInv' /\ ConfirmedInv'
  BY <1>1, <1>2, <1>5, <1>6 DEF DownInv, ConfirmedInv
<1>9. AwaitedInv' /\ AnswerInv'
  <2>1. CASE r.awaited
    <3>1. /\ i = Len(requests) /\ busy # None /\ r.skill = busy.skill /\ r.arg = busy.arg
          /\ r.skill \in Settings => last[r.skill].arg = r.arg
      BY <2>1 DEF AwaitedInv, r
    <3>2. /\ phase' = "answered" /\ reply' = <<a[2]>>
      BY <1>1, <2>1 DEF r
    <3>3. \A j \in 1..Len(requests') : ~requests'[j].awaited /\ requests'[j].skill # r.skill
      <4> SUFFICES ASSUME NEW j \in 1..Len(requests')
                   PROVE  ~requests'[j].awaited /\ requests'[j].skill # r.skill
        OBVIOUS
      <4>1. PICK l \in 1..Len(requests) : l # i /\ requests'[j] = requests[l]
        BY <1>4
      <4>2. l \in 1..(i - 1)
        BY <1>3, <3>1, <4>1
      <4> QED BY <1>1, <3>1, <4>1, <4>2 DEF AwaitedInv, r
    <3>4. AwaitedInv'
      BY <3>3 DEF AwaitedInv
    <3>5. ASSUME busy.skill \in Settings, a[2] = TRUE
          PROVE  Settled(busy.skill)'
      <4>1. InForce(busy.skill, last[busy.skill].arg)'
        BY <1>1, <1>2, <1>5, <3>1, <3>5, SkillNames DEF InForce
      <4> QED BY <1>2, <3>1, <3>3, <4>1 DEF Settled
    <3>6. AnswerInv'
      BY <1>2, <3>2, <3>5 DEF AnswerInv
    <3> QED BY <3>4, <3>6
  <2>2. CASE ~r.awaited
    <3>1. reply' = reply /\ phase' = phase
      BY <1>1, <2>2 DEF r
    <3>2. AwaitedInv'
      <4> SUFFICES ASSUME NEW j \in 1..Len(requests'), requests'[j].awaited
                   PROVE  /\ j = Len(requests')
                          /\ busy' # None /\ phase' = "sent"
                          /\ requests'[j].skill = busy'.skill /\ requests'[j].arg = busy'.arg
                          /\ busy'.skill \in Settings => last'[busy'.skill] = [arg |-> busy'.arg, confirmed |-> FALSE]
        BY DEF AwaitedInv
      <4>1. PICK l \in 1..Len(requests) : /\ l # i /\ requests'[j] = requests[l]
                                          /\ l = Len(requests) => j = Len(requests')
        BY <1>4
      <4> QED BY <1>2, <3>1, <4>1 DEF AwaitedInv
    <3>3. AnswerInv'
      BY <1>2, <1>6, <3>1 DEF AnswerInv
    <3> QED BY <3>2, <3>3
  <2> QED BY <2>1, <2>2
<1> QED BY <1>7, <1>8, <1>9

LEMMA StutterKeeps == IInv /\ UNCHANGED vars => IInv'
<1> SUFFICES ASSUME IInv, UNCHANGED vars PROVE IInv'
  OBVIOUS
<1> QED BY RunnerFrame DEF vars, taskVars, bridgeVars, served, TypeOK

LEMMA StepKeeps == IInv /\ [Next]_vars => IInv'
<1> SUFFICES ASSUME IInv, [Next]_vars PROVE IInv'
  OBVIOUS
<1>1. CASE Runner
  BY <1>1, RunnerKeeps
<1>2. CASE Bridge
  BY <1>2, TakeGoalKeeps, SendRequestKeeps, AnswerInTimeKeeps, GiveUpKeeps DEF Bridge
<1>3. CASE Serve
  BY <1>3, ServeKeeps
<1>4. CASE ThreadStarts \/ HandleCancel \/ (\E t \in Tasks : LaunchTask(t))
  BY <1>4, TriggersKeep
<1>5. CASE OtherGoal \/ Crash \/ Restart
  BY <1>5, OtherGoalKeeps, CrashKeeps, RestartKeeps
<1>6. CASE UNCHANGED vars
  BY <1>6, StutterKeeps
<1> QED BY <1>1, <1>2, <1>3, <1>4, <1>5, <1>6 DEF Next

(* The invariant holds in every reachable state.                           *)
THEOREM SkillInvariant == Spec => []IInv
BY InitIInv, StepKeeps, PTL DEF Spec

(* A setting the bridge reported as made is in force until another one is  *)
(* sent to its service (callService, handleSetAreaState and the other      *)
(* setters): whatever was given up before is served before, because a      *)
(* service takes its requests in order, and an answer that is read belongs *)
(* to the request sent last.                                               *)
THEOREM ConfirmedHolds == Spec => []ConfirmedSettingHolds
<1>1. IInv => ConfirmedSettingHolds
  BY DEF ConfirmedInv, Settled, ConfirmedSettingHolds
<1> QED BY SkillInvariant, <1>1, PTL
=============================================================================
