--------------------------- MODULE PerceptionProofs ---------------------------
(***************************************************************************)
(* The safety chain, for any lasers, scans, limits and periods: halts come *)
(* in time and are lifted in time, and a preprocessor that has published a *)
(* false clear no longer reports OK.                                       *)
(***************************************************************************)
EXTENDS Perception, SequenceTheorems, TLAPS

States == {"unconfigured", "inactive", "active", "finalized", "down"}

Preprocessors ==
  [state : States, wrong : {"none", "frames", "topics"}, pointsOnly : BOOLEAN, declared : BOOLEAN,
   pubs : {"none", "inactive", "active"}, subs : BOOLEAN, updater : BOOLEAN, failures : BOOLEAN,
   auto : BOOLEAN, last : States \cup {"unknown"}]

Levels == {"OK", "WARN", "ERROR"}

TypeOK ==
  /\ pre \in Preprocessors
  /\ age \in Nat \cup {Never}
  /\ hidden \subseteq {"empty", "unsent"}
  /\ due \in SUBSET Nodes /\ wire \in Seq(Nodes \X Levels)
  /\ silence \in [Nodes -> Nat \cup {Never}]
  /\ halted \in BOOLEAN /\ countdown \in 0..HealthPeriod
  /\ quiet \in Nat /\ sinceHalt \in Nat

(* The health check comes before the time of a silent node is over, and    *)
(* before a halt without a reason is too old.                              *)
ChecksInTime ==
  /\ \A n \in Nodes : silence[n] > NodeTimeout =>
       halted \/ silence[n] + countdown <= NodeTimeout + HealthPeriod
  /\ halted => quiet + countdown <= HealthPeriod

Reported == \E i \in 1..Len(wire) : wire[i] = <<"preprocessor", "ERROR">>

(* A stale preprocessor is about to report, or its report is on its way,   *)
(* or it has arrived.                                                      *)
StaleIsReported ==
  /\ pre.subs => pre.updater
  /\ age # Never => pre.updater
  /\ pre.state = "down" => ~pre.updater
  /\ age > StaleAfter => "preprocessor" \in due \/ Reported \/ sinceHalt = 0
  /\ age > StaleAfter + 1 => sinceHalt <= 1

(* A false clear belongs to a process that has counted the failure.        *)
FalseClearIsCounted ==
  /\ "empty" \in hidden => pre.failures /\ age # Never
  /\ pre.state = "down" => hidden = {} /\ ~pre.subs

HaltInv == TypeOK /\ ChecksInTime /\ StaleIsReported

-----------------------------------------------------------------------------
(* What a life cycle transition leaves of the preprocessor.                *)
LEMMA TransitionFacts ==
  ASSUME NEW p \in Preprocessors, p.subs => p.updater, NEW q \in Transition(p)
  PROVE  /\ q \in Preprocessors /\ q.failures = p.failures
         /\ p.updater => q.updater
         /\ q.subs => q.updater
         /\ p.state # "down" /\ q.state # "down"
<1> USE DEF Preprocessors, States
<1>1. /\ OnDeactivate(p) \in Preprocessors /\ OnDeactivate(p).failures = p.failures
      /\ OnDeactivate(p).updater = p.updater /\ OnDeactivate(p).subs = p.subs
      /\ OnDeactivate(p).state = "inactive"
  BY DEF OnDeactivate
<1>2. /\ OnCleanup(p) \in Preprocessors /\ OnCleanup(p).failures = p.failures
      /\ OnCleanup(p).updater = p.updater /\ OnCleanup(p).subs = FALSE
      /\ OnCleanup(p).state = "unconfigured"
  BY DEF OnCleanup
<1>3. /\ OnActivate(p) \in Preprocessors /\ OnActivate(p).failures = p.failures
      /\ OnActivate(p).updater = p.updater /\ OnActivate(p).subs = p.subs
      /\ OnActivate(p).state = "active"
  BY DEF OnActivate
<1>4. CASE q = OnShutdown(p)
  <2>1. PICK r \in {OnDeactivate(p), OnCleanup(p), p} : q = [r EXCEPT !.state = "finalized"]
    BY <1>4 DEF OnShutdown
  <2>2. p.state # "down"
    BY DEF Transition
  <2> QED BY <1>1, <1>2, <2>1, <2>2
<1>5. CASE q = OnConfigure(p) /\ p.state = "unconfigured"
  BY <1>5 DEF OnConfigure
<1>6. CASE q \in {OnDeactivate(p), OnCleanup(p), OnActivate(p)}
  <2>1. p.state # "down"
    BY DEF Transition
  <2> QED BY <1>1, <1>2, <1>3, <1>6, <2>1
<1> QED BY <1>4, <1>5, <1>6 DEF Transition

(* A new process, and what is left of one that crashed.                    *)
LEMMA ConstructedFacts ==
  ASSUME NEW wrong \in {"none", "frames", "topics"}, NEW pointsOnly \in BOOLEAN
  PROVE  /\ Constructed(wrong, pointsOnly) \in Preprocessors
         /\ ~Constructed(wrong, pointsOnly).subs /\ Constructed(wrong, pointsOnly).state # "down"
         /\ Down \in Preprocessors /\ ~Down.subs /\ ~Down.updater /\ Down.state = "down"
<1>1. /\ Constructed(wrong, pointsOnly) \in Preprocessors
      /\ ~Constructed(wrong, pointsOnly).subs /\ Constructed(wrong, pointsOnly).state = "unconfigured"
  BY PerceptionAssumption DEF Constructed, Preprocessors, States
<1>2. /\ Constructed("none", TRUE) \in Preprocessors
      /\ ~Constructed("none", TRUE).subs /\ ~Constructed("none", TRUE).updater
  BY PerceptionAssumption DEF Constructed, Preprocessors, States
<1>3. Down \in Preprocessors /\ ~Down.subs /\ ~Down.updater /\ Down.state = "down"
  BY <1>2 DEF Down, Preprocessors, States
<1> QED BY <1>1, <1>3

(* The preprocessor's next state, however it comes about.                  *)
LEMMA PreprocessorMoves ==
  ASSUME TypeOK, StaleIsReported, ChangeState \/ AutoTransition
  PROVE  /\ pre' \in Preprocessors /\ pre'.failures = pre.failures
         /\ pre.updater => pre'.updater
         /\ pre'.subs => pre'.updater
         /\ pre'.state = "down" <=> pre.state = "down"
         /\ pre.state = "down" => pre'.subs = pre.subs /\ pre'.updater = pre.updater
<1> USE DEF Preprocessors, States
<1>0. pre \in Preprocessors /\ (pre.subs => pre.updater)
  BY DEF TypeOK, StaleIsReported
<1>1. CASE ChangeState
  BY <1>0, <1>1, TransitionFacts DEF ChangeState
<1>2. CASE AutoTransition
  <2> DEFINE p == [pre EXCEPT !.last = pre.state]
  <2>1. /\ p \in Preprocessors /\ p.failures = pre.failures /\ p.state = pre.state
        /\ p.updater = pre.updater /\ p.subs = pre.subs
    BY <1>0
  <2>2. \/ p.state = "unconfigured" /\ pre' = OnConfigure(p)
        \/ p.state = "inactive" /\ pre' = OnActivate(p)
        \/ p.state = "active" /\ pre' = [p EXCEPT !.auto = FALSE]
        \/ pre' = p
    BY <1>0, <1>2, <2>1 DEF AutoTransition
  <2> HIDE DEF p
  <2>3. CASE pre' \in Transition(p)
    BY <1>0, <2>1, <2>3, TransitionFacts
  <2>4. CASE p.state = "active" /\ pre' = [p EXCEPT !.auto = FALSE]
    BY <1>0, <2>1, <2>4
  <2>5. CASE pre' = p
    BY <1>0, <2>1, <2>5
  <2> QED BY <2>2, <2>3, <2>4, <2>5 DEF Transition
<1> QED BY <1>1, <1>2

-----------------------------------------------------------------------------
(* Time that passes, up to the bound of its counter.                       *)
LEMMA OlderFacts ==
  ASSUME NEW t \in Nat \cup {Never}, NEW limit \in Nat
  PROVE  /\ Older(t, limit) \in Nat \cup {Never}
         /\ Older(t, limit) = Never <=> t = Never
         /\ t \in Nat => Older(t, limit) \in Nat
         /\ Older(t, limit) <= t + 1
BY DEF Older, Never

LEMMA TypeInit == Init => TypeOK
<1> SUFFICES ASSUME Init PROVE TypeOK
  OBVIOUS
<1>1. pre \in Preprocessors
  BY ConstructedFacts DEF Init
<1>2. HealthPeriod \in Nat
  BY PerceptionAssumption
<1>3. halted \in BOOLEAN
  BY DEF Init
<1>4. quiet \in Nat /\ sinceHalt \in Nat /\ countdown \in 0..HealthPeriod
  BY <1>2 DEF Init
<1>5. /\ age \in Nat \cup {Never} /\ hidden \subseteq {"empty", "unsent"}
      /\ due \in SUBSET Nodes /\ wire \in Seq(Nodes \X Levels)
      /\ silence \in [Nodes -> Nat \cup {Never}]
  BY DEF Init
<1> QED BY <1>1, <1>3, <1>4, <1>5 DEF TypeOK

(* A message that goes on the wire, and one that is taken from it.         *)
LEMMA WireFacts ==
  ASSUME TypeOK
  PROVE  /\ \A m \in Nodes \X Levels : Append(wire, m) \in Seq(Nodes \X Levels)
         /\ wire # <<>> => Head(wire) \in Nodes \X Levels /\ Tail(wire) \in Seq(Nodes \X Levels)
         /\ wire = <<>> => ~Reported
<1>1. wire \in Seq(Nodes \X Levels)
  BY DEF TypeOK
<1>2. ASSUME wire # <<>>
      PROVE  Head(wire) \in Nodes \X Levels /\ Tail(wire) \in Seq(Nodes \X Levels)
  BY <1>1, <1>2, HeadTailProperties
<1>3. \A m \in Nodes \X Levels : Append(wire, m) \in Seq(Nodes \X Levels)
  BY <1>1
<1>4. wire = <<>> => ~Reported
  BY DEF Reported
<1> QED BY <1>2, <1>3, <1>4

(* A halt, and its end.                                                    *)
LEMMA HaltFacts ==
  /\ HaltSystem => halted' = TRUE /\ halted' \in BOOLEAN /\ quiet' = 0 /\ sinceHalt' = 0
  /\ ResumeSystem => halted' = FALSE /\ halted' \in BOOLEAN /\ quiet' = quiet /\ sinceHalt' = sinceHalt
BY DEF HaltSystem, ResumeSystem

LEMMA TypeKeeps ==
  ASSUME TypeOK, StaleIsReported, Next
  PROVE  TypeOK'
<1> USE PerceptionAssumption
<1>1. CASE ChangeState \/ AutoTransition
  <2>1. pre' \in Preprocessors
    BY <1>1, PreprocessorMoves
  <2> QED BY <1>1, <2>1 DEF ChangeState, AutoTransition, safetyVars, TypeOK
<1>2. ASSUME NEW l \in Lasers, NEW n \in Returns, OnLaserScan(l, n) PROVE TypeOK'
  <2>1. hidden' \subseteq {"empty", "unsent"}
    BY <1>2 DEF OnLaserScan, Publish, Hide, TypeOK
  <2> QED BY <1>2, <2>1 DEF OnLaserScan, ScanArrives, safetyVars, TypeOK
<1>3. ASSUME NEW l \in Lasers, NEW n \in Returns, FailScan(l, n) PROVE TypeOK'
  <2>1. pre' \in Preprocessors
    BY <1>3 DEF FailScan, TypeOK, Preprocessors
  <2>2. hidden' \subseteq {"empty", "unsent"}
    BY <1>3 DEF FailScan, Publish, Hide, TypeOK
  <2> QED BY <1>3, <2>1, <2>2 DEF FailScan, ScanArrives, safetyVars, TypeOK
<1>4. ASSUME NEW l \in Lasers, SkipScan(l) \/ LaserChanges(l) \/ (\E n \in Returns : DropScan(l, n)) PROVE TypeOK'
  <2>1. hidden' \subseteq {"empty", "unsent"}
    BY <1>4 DEF SkipScan, DropScan, Hide, LaserChanges, TypeOK
  <2>2. age' \in Nat \cup {Never} /\ UNCHANGED <<pre, due, wire, silence, halted, countdown, quiet, sinceHalt>>
    BY <1>4 DEF SkipScan, DropScan, LaserChanges, ScanArrives, safetyVars, TypeOK
  <2> QED BY <2>1, <2>2 DEF TypeOK
<1>5. ASSUME NEW n \in Nodes, NEW level \in Levels, ProduceDiagnostics(n, level) PROVE TypeOK'
  <2>1. wire' = Append(wire, <<n, level>>) /\ wire' \in Seq(Nodes \X Levels)
    BY <1>5, WireFacts DEF ProduceDiagnostics
  <2> QED BY <1>5, <2>1 DEF ProduceDiagnostics, preVars, safetyVars, TypeOK
<1>6. CASE DiagnosticsCallback
  <2>1. wire' \in Seq(Nodes \X Levels) /\ silence' \in [Nodes -> Nat \cup {Never}]
    BY <1>6, WireFacts DEF DiagnosticsCallback, TypeOK
  <2>2. halted' \in BOOLEAN /\ quiet' \in Nat /\ sinceHalt' \in Nat
    BY <1>6, HaltFacts DEF DiagnosticsCallback, TypeOK
  <2> QED BY <1>6, <2>1, <2>2 DEF DiagnosticsCallback, preVars, TypeOK
<1>7. CASE HealthCheckCallback
  <2>1. halted' \in BOOLEAN /\ quiet' \in Nat /\ sinceHalt' \in Nat
    BY <1>7, HaltFacts DEF HealthCheckCallback, TypeOK
  <2> QED BY <1>7, <2>1 DEF HealthCheckCallback, preVars, TypeOK
<1>8. CASE PathCallback \/ PathAnswered
  <2>1. halted' \in BOOLEAN /\ quiet' \in Nat /\ sinceHalt' \in Nat
    BY <1>8, HaltFacts DEF PathCallback, PathAnswered, TypeOK
  <2> QED BY <1>8, <2>1 DEF PathCallback, PathAnswered, preVars, TypeOK
<1>9. CASE PreprocessorCrashes \/ PreprocessorStarts
  <2>1. pre' \in Preprocessors
    BY <1>9, ConstructedFacts DEF PreprocessorCrashes, PreprocessorStarts
  <2> QED BY <1>9, <2>1 DEF PreprocessorCrashes, PreprocessorStarts, safetyVars, TypeOK
<1>10. CASE GeofenceCrashes \/ GeofenceStarts
  BY <1>10 DEF GeofenceCrashes, GeofenceStarts, preVars, safetyVars, TypeOK
<1>11. CASE SafetyRestarts
  <2>1. halted' \in BOOLEAN /\ quiet' = 0 /\ sinceHalt' = 0
    BY <1>11 DEF SafetyRestarts
  <2>2. silence' \in [Nodes -> Nat \cup {Never}] /\ countdown' \in 0..HealthPeriod
    BY <1>11 DEF SafetyRestarts
  <2> QED BY <1>11, <2>1, <2>2 DEF SafetyRestarts, preVars, TypeOK
<1>12. CASE Tick
  <2>1. age' \in Nat \cup {Never} /\ quiet' \in Nat /\ sinceHalt' \in Nat
    <3>1. age' = Older(age, StaleAfter + 2) /\ quiet' = Older(quiet, HealthPeriod + 1)
          /\ sinceHalt' \in {0, Older(sinceHalt, 2)}
      BY <1>12 DEF Tick
    <3>2. StaleAfter + 2 \in Nat /\ HealthPeriod + 1 \in Nat
      OBVIOUS
    <3>3. age' \in Nat \cup {Never}
      BY <3>1, <3>2, OlderFacts DEF TypeOK
    <3>4. quiet \in Nat /\ sinceHalt \in Nat
      BY DEF TypeOK
    <3>5. Older(quiet, HealthPeriod + 1) \in Nat
      BY <3>2, <3>4, OlderFacts
    <3>6. 2 \in Nat /\ sinceHalt \in Nat \cup {Never}
      BY <3>4
    <3>7. Older(sinceHalt, 2) \in Nat
      BY <3>4, <3>6, OlderFacts
    <3> QED BY <3>1, <3>3, <3>5, <3>7
  <2>4. silence' \in [Nodes -> Nat \cup {Never}]
    <3>1. NodeTimeout + HealthPeriod + 1 \in Nat
      OBVIOUS
    <3>2. \A n \in Nodes : Older(silence[n], NodeTimeout + HealthPeriod + 1) \in Nat \cup {Never}
      BY <3>1, OlderFacts DEF TypeOK
    <3> QED BY <1>12, <3>2 DEF Tick
  <2>2. countdown' \in 0..HealthPeriod
    BY <1>12 DEF Tick, TypeOK
  <2>3. due' \in SUBSET Nodes
    BY <1>12 DEF Tick, Reporting, Nodes
  <2> QED BY <1>12, <2>1, <2>2, <2>3, <2>4 DEF Tick, TypeOK
<1> QED
  BY <1>1, <1>2, <1>3, <1>4, <1>5, <1>6, <1>7, <1>8, <1>9, <1>10, <1>11, <1>12 DEF Next, Levels

-----------------------------------------------------------------------------
LEMMA ChecksKeep ==
  ASSUME HaltInv, Next
  PROVE  ChecksInTime'
<1> USE PerceptionAssumption
<1>0. /\ silence \in [Nodes -> Nat \cup {Never}] /\ countdown \in 0..HealthPeriod
      /\ quiet \in Nat /\ halted \in BOOLEAN
  BY DEF HaltInv, TypeOK
<1>1. CASE UNCHANGED <<silence, halted, countdown, quiet>>
  BY <1>1 DEF HaltInv, ChecksInTime
<1>2. CASE DiagnosticsCallback
  <2>1. PICK m \in Nodes : silence' = [silence EXCEPT ![m] = 0]
    <3>1. Head(wire) \in Nodes \X Levels
      BY <1>2, WireFacts DEF DiagnosticsCallback, HaltInv
    <3> QED BY <1>2, <3>1 DEF DiagnosticsCallback
  <2>2. \A n \in Nodes : silence'[n] = silence[n] \/ silence'[n] = 0
    BY <1>0, <2>1
  <2>3. CASE HaltSystem
    BY <1>0, <1>2, <2>3 DEF DiagnosticsCallback, HaltSystem, ChecksInTime
  <2>4. CASE UNCHANGED <<halted, quiet>>
    BY <1>0, <1>2, <2>2, <2>4 DEF DiagnosticsCallback, ChecksInTime, HaltInv
  <2> QED BY <1>2, <2>3, <2>4 DEF DiagnosticsCallback
<1>3. CASE HealthCheckCallback
  <2>1. CASE HaltSystem
    BY <1>0, <1>3, <2>1 DEF HealthCheckCallback, HaltSystem, ChecksInTime
  <2>2. CASE Silent = {} /\ ResumeSystem
    BY <1>0, <1>3, <2>2 DEF HealthCheckCallback, ResumeSystem, Silent, ChecksInTime, Never
  <2> QED BY <1>3, <2>1, <2>2 DEF HealthCheckCallback
<1>4. CASE PathCallback /\ ~UNCHANGED <<silence, halted, countdown, quiet>>
  <2>1. HaltSystem /\ UNCHANGED countdown
    BY <1>4 DEF PathCallback
  <2> QED BY <1>0, <2>1 DEF HaltSystem, ChecksInTime
<1>5. CASE SafetyRestarts
  <2>1. halted' = FALSE /\ \A n \in Nodes : silence'[n] = Never
    BY <1>5 DEF SafetyRestarts
  <2> QED BY <2>1 DEF ChecksInTime, Never
<1>6. CASE Tick
  <2>1. NodeTimeout + HealthPeriod + 1 \in Nat /\ HealthPeriod + 1 \in Nat
    OBVIOUS
  <2>2. halted' = halted /\ countdown' = countdown - 1 /\ quiet' = Older(quiet, HealthPeriod + 1)
        /\ \A n \in Nodes : silence'[n] = Older(silence[n], NodeTimeout + HealthPeriod + 1)
    BY <1>6 DEF Tick
  <2>3. quiet' \in Nat /\ quiet' <= quiet + 1 /\ countdown' \in 0..HealthPeriod
    <3>1. countdown > 0
      BY <1>6 DEF Tick
    <3> QED BY <1>0, <2>1, <2>2, <3>1, OlderFacts
  <2>4. halted' => quiet' + countdown' <= HealthPeriod
    BY <1>0, <2>2, <2>3 DEF HaltInv, ChecksInTime
  <2>5. ASSUME NEW n \in Nodes, silence'[n] > NodeTimeout, ~halted
        PROVE  silence'[n] + countdown' <= NodeTimeout + HealthPeriod
    <3>1. silence[n] \in Nat \cup {Never} /\ silence'[n] \in Nat \cup {Never} /\ silence'[n] <= silence[n] + 1
      <4>1. silence[n] \in Nat \cup {Never} /\ silence'[n] = Older(silence[n], NodeTimeout + HealthPeriod + 1)
        BY <1>0, <2>2
      <4> QED BY <2>1, <4>1, OlderFacts
    <3>2. silence[n] > NodeTimeout => silence[n] + countdown <= NodeTimeout + HealthPeriod
      BY <2>5 DEF HaltInv, ChecksInTime
    <3> QED BY <1>0, <2>2, <2>3, <2>5, <3>1, <3>2 DEF Never
  <2> QED BY <2>2, <2>4, <2>5 DEF ChecksInTime
<1> QED
  <2>1. \/ UNCHANGED <<silence, halted, countdown, quiet>>
        \/ DiagnosticsCallback \/ HealthCheckCallback \/ PathCallback \/ SafetyRestarts \/ Tick
    BY DEF Next, ChangeState, AutoTransition, OnLaserScan, FailScan, SkipScan, DropScan, LaserChanges,
           ProduceDiagnostics, PathAnswered, PreprocessorCrashes, PreprocessorStarts,
           GeofenceCrashes, GeofenceStarts, safetyVars
  <2> QED BY <2>1, <1>1, <1>2, <1>3, <1>4, <1>5, <1>6

(* A report that goes on the wire, and one that is taken from it.          *)
LEMMA ReportSent ==
  ASSUME TypeOK, NEW m \in Nodes \X Levels, wire' = Append(wire, m)
  PROVE  /\ Reported => Reported'
         /\ m = <<"preprocessor", "ERROR">> => Reported'
<1>0. wire \in Seq(Nodes \X Levels)
  BY DEF TypeOK
<1>1. /\ Len(wire') = Len(wire) + 1 /\ Len(wire) \in Nat /\ wire'[Len(wire) + 1] = m
      /\ \A i \in 1..Len(wire) : wire'[i] = wire[i]
  BY <1>0
<1> QED BY <1>1 DEF Reported

LEMMA ReportTaken ==
  ASSUME TypeOK, wire # <<>>, wire' = Tail(wire), Reported
  PROVE  Reported' \/ Head(wire) = <<"preprocessor", "ERROR">>
<1>0. wire \in Seq(Nodes \X Levels)
  BY DEF TypeOK
<1>1. PICK i \in 1..Len(wire) : wire[i] = <<"preprocessor", "ERROR">>
  BY DEF Reported
<1>2. CASE i = 1
  BY <1>0, <1>1, <1>2
<1>3. CASE i # 1
  <2>1. Len(wire) \in Nat /\ Len(Tail(wire)) = Len(wire) - 1
        /\ \A j \in 1..Len(Tail(wire)) : Tail(wire)[j] = wire[j + 1]
    BY <1>0, HeadTailProperties, LenProperties
  <2>2. i - 1 \in 1..Len(Tail(wire)) /\ Tail(wire)[i - 1] = wire[i]
    BY <1>3, <2>1
  <2> QED BY <1>1, <2>2 DEF Reported
<1> QED BY <1>2, <1>3

LEMMA StaleKeeps ==
  ASSUME HaltInv, Next
  PROVE  StaleIsReported'
<1> USE PerceptionAssumption
<1>0. TypeOK /\ StaleIsReported /\ age \in Nat \cup {Never} /\ sinceHalt \in Nat
  BY DEF HaltInv, TypeOK
<1>1. ASSUME pre'.subs => pre'.updater, pre.updater => pre'.updater,
             pre'.state = "down" => ~pre'.updater, UNCHANGED <<age, due, wire, sinceHalt>>
      PROVE  StaleIsReported'
  BY <1>0, <1>1 DEF StaleIsReported, Reported
<1>2. ASSUME age' \in {0, Never}, pre'.subs => pre'.updater, age' = 0 => pre'.updater,
             pre'.state = "down" => ~pre'.updater
      PROVE  StaleIsReported'
  BY <1>2 DEF StaleIsReported, Never
<1>3. ASSUME UNCHANGED preVars, sinceHalt' = 0 PROVE StaleIsReported'
  BY <1>0, <1>3 DEF StaleIsReported, preVars
<1>4. CASE ChangeState \/ AutoTransition
  <2>1. UNCHANGED <<age, due, wire, sinceHalt>>
    BY <1>4 DEF ChangeState, AutoTransition, safetyVars
  <2>2. /\ pre'.subs => pre'.updater
        /\ pre.updater => pre'.updater
        /\ pre'.state = "down" => ~pre'.updater
    BY <1>0, <1>4, PreprocessorMoves DEF StaleIsReported
  <2> QED BY <1>1, <2>1, <2>2
<1>5. ASSUME NEW l \in Lasers, NEW n \in Returns, OnLaserScan(l, n) \/ FailScan(l, n)
      PROVE  StaleIsReported'
  <2>1. age' = 0 /\ pre.subs /\ pre'.subs = pre.subs /\ pre'.updater = pre.updater /\ pre'.state = pre.state
    BY <1>0, <1>5 DEF OnLaserScan, FailScan, ScanArrives, TypeOK, Preprocessors
  <2> QED BY <1>0, <1>2, <2>1 DEF StaleIsReported
<1>6. ASSUME NEW l \in Lasers, SkipScan(l) \/ (\E n \in Returns : DropScan(l, n)) PROVE StaleIsReported'
  <2>1. age' = 0 /\ pre.subs /\ pre' = pre
    BY <1>6 DEF SkipScan, DropScan, ScanArrives
  <2> QED BY <1>0, <1>2, <2>1 DEF StaleIsReported
<1>7. ASSUME NEW n \in Nodes, NEW level \in Levels, ProduceDiagnostics(n, level) PROVE StaleIsReported'
  <2>1. wire' = Append(wire, <<n, level>>) /\ due' = due \ {n} /\ UNCHANGED <<pre, age, sinceHalt>>
    BY <1>7 DEF ProduceDiagnostics, preVars, safetyVars
  <2>2. Reported => Reported'
    BY <1>0, <2>1, ReportSent
  <2>3. n = "preprocessor" /\ age > StaleAfter => Reported'
    <3>1. n = "preprocessor" /\ age > StaleAfter => level = "ERROR"
      BY <1>0, <1>7 DEF ProduceDiagnostics, Level, Never
    <3> QED BY <1>0, <2>1, <3>1, ReportSent
  <2> QED BY <1>0, <2>1, <2>2, <2>3 DEF StaleIsReported
<1>8. CASE DiagnosticsCallback
  <2>1. wire # <<>> /\ wire' = Tail(wire) /\ UNCHANGED <<pre, age, due>>
    BY <1>8 DEF DiagnosticsCallback, preVars
  <2>2. CASE HaltSystem
    BY <1>3, <1>8, <2>2 DEF DiagnosticsCallback, HaltSystem
  <2>3. CASE ~HaltSystem
    <3>1. Head(wire)[2] # "ERROR" /\ sinceHalt' = sinceHalt
      BY <1>8, <2>3 DEF DiagnosticsCallback
    <3>2. Reported => Reported'
      BY <1>0, <2>1, <3>1, ReportTaken
    <3> QED BY <1>0, <2>1, <3>1, <3>2 DEF StaleIsReported
  <2> QED BY <2>2, <2>3
<1>9. CASE HealthCheckCallback \/ PathCallback
  <2>1. UNCHANGED preVars /\ (sinceHalt' = 0 \/ UNCHANGED <<due, wire, sinceHalt>>)
    BY <1>9 DEF HealthCheckCallback, PathCallback, HaltSystem, ResumeSystem
  <2> QED BY <1>0, <1>1, <1>3, <2>1 DEF preVars, StaleIsReported
<1>10. CASE PathAnswered \/ GeofenceStarts
  BY <1>0, <1>1, <1>10 DEF PathAnswered, GeofenceStarts, preVars, safetyVars, StaleIsReported
<1>11. CASE GeofenceCrashes
  <2>1. UNCHANGED <<pre, age, wire, sinceHalt>> /\ due' = due \ {"geofence"}
    BY <1>11 DEF GeofenceCrashes, preVars, safetyVars
  <2> QED BY <1>0, <2>1 DEF StaleIsReported, Reported
<1>12. CASE PreprocessorCrashes
  <2>1. age' = Never /\ pre' = Down
    BY <1>12 DEF PreprocessorCrashes
  <2> QED BY <1>2, <2>1, ConstructedFacts DEF Never
<1>13. CASE PreprocessorStarts
  <2>1. pre' \in Preprocessors /\ ~pre'.subs /\ pre'.state # "down"
    BY <1>13, ConstructedFacts DEF PreprocessorStarts
  <2>2. age = Never /\ age' = age
    BY <1>0, <1>13 DEF PreprocessorStarts, StaleIsReported
  <2> QED BY <1>2, <2>1, <2>2 DEF Never
<1>14. ASSUME NEW l \in Lasers, LaserChanges(l) PROVE StaleIsReported'
  BY <1>0, <1>1, <1>14 DEF LaserChanges, safetyVars, StaleIsReported
<1>15. CASE SafetyRestarts
  BY <1>3, <1>15 DEF SafetyRestarts
<1>16. CASE Tick
  <2>1. /\ due = {} /\ wire = <<>> /\ pre' = pre /\ due' = Reporting /\ age' = Older(age, StaleAfter + 2)
        /\ sinceHalt' = IF halted THEN 0 ELSE Older(sinceHalt, 2)
    BY <1>16 DEF Tick
  <2>2. age' \in Nat \cup {Never} /\ (age' = Never <=> age = Never) /\ age' <= age + 1
    <3>1. StaleAfter + 2 \in Nat
      OBVIOUS
    <3> QED BY <1>0, <2>1, <3>1, OlderFacts
  <2>3. age > StaleAfter => sinceHalt = 0
    BY <1>0, <2>1, WireFacts DEF StaleIsReported
  <2>4. sinceHalt = 0 => sinceHalt' <= 1
    <3>1. sinceHalt = 0 => Older(sinceHalt, 2) <= 1
      BY OlderFacts
    <3> QED BY <2>1, <3>1
  <2>5. age' # Never => pre'.updater /\ "preprocessor" \in due'
    BY <1>0, <2>1, <2>2 DEF StaleIsReported, Reporting
  <2> QED BY <1>0, <2>1, <2>2, <2>3, <2>4, <2>5 DEF StaleIsReported, Never
<1> QED BY <1>4, <1>5, <1>6, <1>7, <1>8, <1>9, <1>10, <1>11, <1>12, <1>13, <1>14, <1>15, <1>16 DEF Next, Levels

(* A segment of enough points always yields an obstacle.                   *)
LEMMA SegmentYieldsObstacle ==
  ASSUME NEW n \in Nat, n > 0, n >= MinSegment, NEW shape \in ProcessPointCloud(n)
  PROVE  shape # "none"
<1>1. CASE pre.pointsOnly
  BY <1>1 DEF ProcessPointCloud, PointObstacles
<1>2. CASE ~pre.pointsOnly
  <2>1. shape \in Extracted(n)
    BY <1>2 DEF ProcessPointCloud, SegmentPointCloud
  <2> QED BY <2>1, PerceptionAssumption
          DEF Extracted, LineConfidence, CircleConfidence, FitLine, FitCircle, FitPoint
<1> QED BY <1>1, <1>2

LEMMA FalseClearKeeps ==
  ASSUME HaltInv, FalseClearIsCounted, Next
  PROVE  FalseClearIsCounted'
<1> USE PerceptionAssumption
<1>0. TypeOK /\ StaleIsReported /\ pre \in Preprocessors
  BY DEF HaltInv, TypeOK
<1>1. ASSUME pre'.failures = pre.failures, pre'.state = "down" => pre.state = "down",
             pre.state = "down" => pre'.subs = pre.subs, UNCHANGED hidden,
             age # Never => age' # Never
      PROVE  FalseClearIsCounted'
  BY <1>1 DEF FalseClearIsCounted
<1>2. ASSUME hidden' = {}, pre'.state = "down" => ~pre'.subs
      PROVE  FalseClearIsCounted'
  BY <1>2 DEF FalseClearIsCounted
<1>3. CASE ChangeState \/ AutoTransition
  <2>1. UNCHANGED <<hidden, age>>
    BY <1>3 DEF ChangeState, AutoTransition
  <2> QED BY <1>0, <1>1, <1>3, <2>1, PreprocessorMoves
<1>4. ASSUME NEW l \in Lasers, NEW n \in Returns, OnLaserScan(l, n)
      PROVE  FalseClearIsCounted'
  <2>1. PICK shape \in ProcessPointCloud(n) : Publish(n, shape)
    BY <1>4 DEF OnLaserScan
  <2>2. n \in Nat /\ n > 0 /\ pre' = pre /\ pre.subs /\ age' = 0
    BY <1>4 DEF OnLaserScan, ScanArrives
  <2>3. hidden' = hidden
    <3>1. n >= MinSegment => shape # "none"
      BY <2>1, <2>2, SegmentYieldsObstacle
    <3> QED BY <2>1, <3>1 DEF Publish, Hide
  <2>4. age' # Never
    BY <2>2 DEF Never
  <2> QED BY <2>2, <2>3, <2>4 DEF FalseClearIsCounted
<1>5. ASSUME NEW l \in Lasers, NEW n \in Returns, FailScan(l, n)
      PROVE  FalseClearIsCounted'
  <2>1. pre'.failures /\ pre'.state = pre.state /\ age' = 0 /\ pre.subs
    BY <1>0, <1>5 DEF FailScan, ScanArrives, Preprocessors
  <2> QED BY <2>1 DEF FalseClearIsCounted, Never
<1>6. ASSUME NEW l \in Lasers, SkipScan(l) \/ (\E n \in Returns : DropScan(l, n))
      PROVE  FalseClearIsCounted'
  <2>1. pre' = pre /\ age' = 0 /\ pre.subs /\ hidden' \subseteq hidden \cup {"unsent"}
    BY <1>6 DEF SkipScan, DropScan, Hide, ScanArrives
  <2> QED BY <2>1 DEF FalseClearIsCounted, Never
<1>7. CASE UNCHANGED <<pre, age, hidden>>
  BY <1>1, <1>7
<1>8. CASE PreprocessorCrashes
  BY <1>2, <1>8, ConstructedFacts DEF PreprocessorCrashes
<1>9. CASE PreprocessorStarts
  <2>1. pre.state = "down" /\ hidden' = hidden
    BY <1>9 DEF PreprocessorStarts
  <2>2. pre'.state # "down"
    BY <1>9, ConstructedFacts DEF PreprocessorStarts
  <2> QED BY <1>2, <2>1, <2>2 DEF FalseClearIsCounted
<1>10. CASE Tick
  <2>1. hidden' = hidden /\ pre' = pre /\ age' = Older(age, StaleAfter + 2)
    BY <1>10 DEF Tick
  <2>2. age # Never => age' # Never
    <3>1. StaleAfter + 2 \in Nat
      OBVIOUS
    <3> QED BY <1>0, <2>1, <3>1, OlderFacts DEF TypeOK
  <2> QED BY <1>1, <2>1, <2>2
<1> QED
  <2>1. \/ ChangeState \/ AutoTransition
        \/ \E l \in Lasers, n \in Returns : OnLaserScan(l, n) \/ DropScan(l, n) \/ FailScan(l, n)
        \/ \E l \in Lasers : SkipScan(l)
        \/ UNCHANGED <<pre, age, hidden>>
        \/ PreprocessorCrashes \/ PreprocessorStarts \/ Tick
    BY DEF Next, LaserChanges, ProduceDiagnostics, DiagnosticsCallback, HealthCheckCallback, PathCallback,
           PathAnswered, GeofenceCrashes, GeofenceStarts, SafetyRestarts, preVars
  <2> QED BY <2>1, <1>3, <1>4, <1>5, <1>6, <1>7, <1>8, <1>9, <1>10

-----------------------------------------------------------------------------
(* HaltInv is an invariant.                                                *)
LEMMA HaltInvariant == Spec => []HaltInv
<1>1. Init => HaltInv
  <2> SUFFICES ASSUME Init PROVE HaltInv
    OBVIOUS
  <2>1. TypeOK
    BY TypeInit
  <2>2. ~pre.subs /\ pre.state # "down" /\ age = Never /\ halted = FALSE
        /\ \A n \in Nodes : silence[n] = Never
    BY ConstructedFacts DEF Init
  <2>3. ChecksInTime
    BY <2>2, PerceptionAssumption DEF ChecksInTime, Never
  <2>4. StaleIsReported
    BY <2>2, PerceptionAssumption DEF StaleIsReported, Never
  <2> QED BY <2>1, <2>3, <2>4 DEF HaltInv
<1>2. HaltInv /\ [Next]_vars => HaltInv'
  <2> SUFFICES ASSUME HaltInv, [Next]_vars PROVE HaltInv'
    OBVIOUS
  <2>1. CASE Next
    BY <2>1, TypeKeeps, ChecksKeep, StaleKeeps DEF HaltInv
  <2>2. CASE UNCHANGED vars
    BY <2>2 DEF HaltInv, TypeOK, ChecksInTime, StaleIsReported, Reported, vars, preVars, safetyVars
  <2> QED BY <2>1, <2>2
<1> QED BY <1>1, <1>2, PTL DEF Spec

(* Whatever the scans, transitions, crashes and restarts: a node that has  *)
(* reported and falls silent halts the system within the timeout and a     *)
(* period of the health check, and a preprocessor without scans keeps it   *)
(* halted but for a tick (diagnosticsCallback, healthCheckCallback).       *)
THEOREM HaltComesInTime == Spec => []HaltIsTimely
<1>1. HaltInv => HaltIsTimely
  <2> SUFFICES ASSUME HaltInv PROVE HaltIsTimely
    OBVIOUS
  <2>1. ASSUME NEW n \in Nodes, silence[n] > NodeTimeout + HealthPeriod PROVE halted
    <3>1. silence[n] \in Nat \cup {Never} /\ countdown \in 0..HealthPeriod
      BY DEF HaltInv, TypeOK
    <3>2. silence[n] > NodeTimeout
      BY <2>1, <3>1, PerceptionAssumption DEF Never
    <3>3. ~(silence[n] + countdown <= NodeTimeout + HealthPeriod)
      BY <2>1, <3>1, PerceptionAssumption DEF Never
    <3> QED BY <3>2, <3>3 DEF HaltInv, ChecksInTime
  <2>2. pre.updater /\ age > StaleAfter + 1 => sinceHalt <= 1
    BY DEF HaltInv, StaleIsReported
  <2> QED BY <2>1, <2>2 DEF HaltIsTimely
<1> QED BY <1>1, HaltInvariant, PTL

(* A halt ends at the latest one period of the health check after its last *)
(* reason (healthCheckCallback, resumeSystem).                             *)
THEOREM HaltEndsInTime == Spec => []HaltIsLifted
<1>1. HaltInv => HaltIsLifted
  <2> SUFFICES ASSUME HaltInv, halted PROVE quiet <= HealthPeriod
    BY DEF HaltIsLifted
  <2>1. quiet \in Nat /\ countdown \in 0..HealthPeriod /\ quiet + countdown <= HealthPeriod
    BY DEF HaltInv, TypeOK, ChecksInTime
  <2> QED BY <2>1, PerceptionAssumption
<1> QED BY <1>1, HaltInvariant, PTL

(* Once an empty array has gone out for a scan with a segment, the         *)
(* preprocessor does not report OK until its process ends, for scans of    *)
(* any number of points and any minimum of a segment                       *)
(* (extractAndPublishObstacles, onLaserScan, produceDiagnostics).          *)
THEOREM FalseClearWarned == Spec => []FalseClearIsWarned
<1>1. Init => FalseClearIsCounted
  <2> SUFFICES ASSUME Init PROVE FalseClearIsCounted
    OBVIOUS
  <2>1. hidden = {} /\ pre.state # "down"
    BY ConstructedFacts DEF Init
  <2> QED BY <2>1 DEF FalseClearIsCounted
<1>2. HaltInv /\ FalseClearIsCounted /\ [Next]_vars => FalseClearIsCounted'
  <2>1. ASSUME HaltInv, FalseClearIsCounted, Next PROVE FalseClearIsCounted'
    BY <2>1, FalseClearKeeps
  <2>2. ASSUME FalseClearIsCounted, UNCHANGED vars PROVE FalseClearIsCounted'
    BY <2>2 DEF FalseClearIsCounted, vars, preVars
  <2> QED BY <2>1, <2>2
<1>3. HaltInv /\ FalseClearIsCounted => FalseClearIsWarned
  <2> SUFFICES ASSUME HaltInv, FalseClearIsCounted, "empty" \in hidden
               PROVE  Level \in {"WARN", "ERROR"}
    BY DEF FalseClearIsWarned
  <2>1. pre.failures /\ age \in Nat
    BY DEF FalseClearIsCounted, HaltInv, TypeOK
  <2> QED BY <2>1, PerceptionAssumption DEF Level, Never
<1> QED BY <1>1, <1>2, <1>3, HaltInvariant, PTL DEF Spec

=============================================================================
