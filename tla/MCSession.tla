----------------------------- MODULE MCSession -----------------------------
(* Model-checking instances of Session. *)
EXTENDS Session, TLC

MCLatencyBounds == <<1>>
MCTimes == 0 .. 6

Kind(d, s, m) == [depth |-> d, segmented |-> s, missed |-> m]
\* One request at a time: segmented, and with answers the capture misses.
OneAtATime == {Kind(1, TRUE, 0), Kind(1, FALSE, 2)}
Pipelined == {Kind(2, FALSE, 0)}

Symmetry == Permutations(Clients)
=============================================================================
