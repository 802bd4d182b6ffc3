------------------------------- MODULE Stats -------------------------------
(***************************************************************************)
(* stats.c: the counters kept for one server endpoint and the histogram of *)
(* its request latencies.                                                  *)
(***************************************************************************)
EXTENDS Integers, Sequences, FiniteSets

CONSTANT
  LatencyBounds     \* inclusive upper bounds of all buckets but the last

\* The latency_buckets table is sorted; its last entry has no bound.
ASSUME BoundsAssumption ==
  /\ LatencyBounds \in Seq(Nat)
  /\ \A i, j \in 1..Len(LatencyBounds) :
       i < j => LatencyBounds[i] < LatencyBounds[j]

Buckets == 1 .. (Len(LatencyBounds) + 1)

\* struct query_stats without the address, which is the key it is stored under.
QueryStats ==
  [requests : Nat, request_bytes : Nat, responses : Nat, response_bytes : Nat,
   buckets : [Buckets -> Nat]]

\* calloc(1, sizeof(*stats))
NewStats ==
  [requests |-> 0, request_bytes |-> 0, responses |-> 0, response_bytes |-> 0,
   buckets |-> [i \in Buckets |-> 0]]

stats_incr(stats, is_request, bytes) ==
  IF is_request
  THEN [stats EXCEPT !.requests = @ + 1, !.request_bytes = @ + bytes]
  ELSE [stats EXCEPT !.responses = @ + 1, !.response_bytes = @ + bytes]

Clamped(latency) == IF latency < 0 THEN 0 ELSE latency

\* The scan of the table stops at bucket i: no earlier bound reaches the
\* latency, and bound i does, or i is the last bucket, which has no bound.
LandsIn(i, latency) ==
  /\ i \in Buckets
  /\ \A j \in 1 .. (i - 1) : LatencyBounds[j] < latency
  /\ i <= Len(LatencyBounds) => LatencyBounds[i] >= latency

stats_observer_latency(stats, latency) ==
  [stats EXCEPT !.buckets =
     [i \in Buckets |->
        IF LandsIn(i, Clamped(latency)) THEN stats.buckets[i] + 1
                                        ELSE stats.buckets[i]]]

\* The samples of the histogram, all buckets together.
Samples(stats) ==
  Cardinality(UNION {{i} \X (1 .. stats.buckets[i]) : i \in Buckets})
=============================================================================
