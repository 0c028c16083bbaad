--------------------------- MODULE MCStageMetrics ---------------------------
(* The instance of StageMetrics for TLC: two stages and six calls, on heaps*)
(* on either side of the largest int.                                      *)
EXTENDS StageMetrics
=============================================================================
