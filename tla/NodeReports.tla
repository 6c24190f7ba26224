----------------------------- MODULE NodeReports -----------------------------
(* The report builder and the tracker of a geofence node as a part of a     *)
(* larger system: ObstacleReports, with its operators under the prefix      *)
(* Reports.  taken is the scan each scanner has taken from the node.        *)
CONSTANTS
  Scanners, Columns, Spacing, Heights, MinGap2, GapRate, Outlier2, LineTol2, MinPoints,
  Cell, MaxDrift2, MaxId
VARIABLES pc, taken, report, at, previous, current, claimed, nextId, origin, lone

Reports == INSTANCE ObstacleReports WITH scan <- taken

ASSUME ReportsAssumption == Reports!ReportAssumption

ReportsSpec == Reports!Spec

-----------------------------------------------------------------------------
(* Properties; ObstacleReports says what they are about.                    *)

(* No two lines of a published report have the same id (getOrAssignId).     *)
IdsUniqueInReport == Reports!IdsUniqueInReport

(* An id stays near the place where it was first given (getOrAssignId).     *)
IdStaysNearOrigin == Reports!IdStaysNearOrigin

(* The fit loses no vertex but spikes (buildReport).                        *)
FitWithinTolerance == Reports!FitWithinTolerance

(* A lone feature that does not move keeps its id (endScanCycle).           *)
StationaryKeepsId == Reports!StationaryKeepsId
=============================================================================
