--------------------------- MODULE MCSharedStats ---------------------------
(* Model-checking instance of SharedStats. *)
EXTENDS SharedStats

MCLatencyBounds == <<1>>
MCTimes == {0, 1, 3}
=============================================================================
