------------------------- MODULE ObstacleAggregator -------------------------
(***************************************************************************)
(* The fleet's view of the obstacles: obstacle_aggregator_node.cpp.        *)
(*                                                                         *)
(* The last report of every AGV is kept; a timer publishes them together,  *)
(* each AGV's ids shifted to a range of its own.  The node is spun by one  *)
(* thread.  Reports arrive with best effort, in the order in which an AGV  *)
(* sent them: a lost one is one that is never taken in.  A report is the   *)
(* ids in it, matched and unmatched; a matched and an unmatched obstacle   *)
(* of a report have different ids (ObstacleReports).                       *)
(***************************************************************************)
EXTENDS Integers, FiniteSets

CONSTANTS
  Agvs,          \* agv_namespaces
  Digits,        \* the number each namespace ends in, or NoDigits
  Hash,          \* std::hash of each namespace
  IdSpacePerAgv, \* kIdSpacePerAgv
  MaxAgvIndex,   \* kMaxAgvIndex
  LocalIds,      \* ids an AGV gives to obstacles
  MaxObstacles   \* bound: obstacles in a report

NoDigits == -1

(* The ids an AGV gives stay in the range the fleet reserves for it: the   *)
(* code does not enforce it.                                               *)
AggregatorAssumption ==
  /\ Digits \in [Agvs -> Nat \cup {NoDigits}] /\ Hash \in [Agvs -> Nat]
  /\ IdSpacePerAgv \in Nat \ {0} /\ MaxAgvIndex \in Nat \ {0}
  /\ LocalIds \subseteq 0..(IdSpacePerAgv - 1) /\ MaxObstacles \in Nat

VARIABLES
  latest,   \* latest_reports_
  indexes,  \* agv_index_cache_
  combined  \* the last report on /fleet/obstacle_report; from and local are history

vars == <<latest, indexes, combined>>

Kinds == {"matched", "unmatched"}
Reports ==
  {r \in [Kinds -> SUBSET LocalIds] :
     /\ r["matched"] \cap r["unmatched"] = {}
     /\ Cardinality(r["matched"] \cup r["unmatched"]) <= MaxObstacles}

(* A number that is too large counts as none.                              *)
ParseTrailingIndex(a) == IF Digits[a] < MaxAgvIndex THEN Digits[a] ELSE NoDigits
HashFallbackIndex(a) == Hash[a] % MaxAgvIndex

AgvIndexFor(a) ==
  IF a \in DOMAIN indexes THEN indexes[a]
  ELSE IF ParseTrailingIndex(a) = NoDigits THEN HashFallbackIndex(a) ELSE ParseTrailingIndex(a)

ReportCallback(a) ==
  /\ \E r \in Reports :
       latest' = [b \in DOMAIN latest \cup {a} |-> IF b = a THEN r ELSE latest[b]]
  /\ UNCHANGED <<indexes, combined>>

(* Faulty variant: matched obstacles keep the ids of their AGV.            *)
UnmatchedShifted(a, kind, id) ==
  [from |-> a, local |-> id, kind |-> kind,
   id |-> id + (IF kind = "unmatched" THEN AgvIndexFor(a) * IdSpacePerAgv ELSE 0)]

Shifted(a, kind, id) ==
  [from |-> a, local |-> id, kind |-> kind, id |-> id + AgvIndexFor(a) * IdSpacePerAgv]

PublishCombined ==
  /\ DOMAIN latest # {}
  /\ indexes' = [a \in DOMAIN indexes \cup DOMAIN latest |-> AgvIndexFor(a)]
  /\ combined' = UNION {{Shifted(a, kind, id) : id \in latest[a][kind]} :
                          a \in DOMAIN latest, kind \in Kinds}
  /\ UNCHANGED latest

Init == latest = <<>> /\ indexes = <<>> /\ combined = {}

Next == (\E a \in Agvs : ReportCallback(a)) \/ PublishCombined

Spec == Init /\ [][Next]_vars

-----------------------------------------------------------------------------
(* Properties.                                                             *)

(* What the header promises an AGV's index to be, whatever was cached.     *)
OwnIndex(a) == IF Digits[a] \in 0..(MaxAgvIndex - 1) THEN Digits[a] ELSE Hash[a] % MaxAgvIndex

(* From one report of the fleet to the next, two entries have the same id  *)
(* just when they are the same obstacle of the same AGV, matched or not,   *)
(* unless two AGVs have the same index (publishCombined, agvIndexFor).     *)
SameIdSameObstacle ==
  [][combined' # combined => \A e \in combined \cup combined', f \in combined' :
       e.from = f.from \/ OwnIndex(e.from) # OwnIndex(f.from)
         => (e.id = f.id <=> e.from = f.from /\ e.local = f.local)]_vars
=============================================================================
