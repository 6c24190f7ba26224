-------------------------- MODULE MCReportViewers --------------------------
(* Three AGVs of a fleet: one with a number, one whose number is too large  *)
(* and one without a number.                                               *)
EXTENDS ReportViewers

MCAgvs == {"agv_1", "agv_9", "truck"}
MCDigits == [a \in MCAgvs |-> CASE a = "agv_1" -> 1 [] a = "agv_9" -> 9 [] OTHER -> -1]
MCHash == [a \in MCAgvs |-> CASE a = "agv_1" -> 3 [] a = "agv_9" -> 6 [] OTHER -> 4]
=============================================================================
