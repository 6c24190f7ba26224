---------------------------- MODULE FleetReports ----------------------------
(* The aggregator as a part of a larger system: ObstacleAggregator, with   *)
(* its operators under the prefix Fleet.                                   *)
CONSTANTS Agvs, Digits, Hash, IdSpacePerAgv, MaxAgvIndex, LocalIds, MaxObstacles
VARIABLES latest, indexes, combined

Fleet == INSTANCE ObstacleAggregator

ASSUME FleetAssumption == Fleet!AggregatorAssumption

(* An id in the fleet's reports stands for one obstacle of one AGV (see    *)
(* ObstacleAggregator).                                                    *)
SameIdSameObstacle == Fleet!SameIdSameObstacle
=============================================================================
