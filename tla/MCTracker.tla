----------------------------- MODULE MCTracker -----------------------------
(* Model-checking instance of Tracker. *)
EXTENDS Tracker, TLC

\* Two scaled bounds stand for the seventeen of the latency_buckets table.
MCLatencyBounds == <<1, 3>>
MCTimes == 0 .. 8

Symmetry == Permutations(Endpoints)
=============================================================================
