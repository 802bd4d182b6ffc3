--------------------------- MODULE TrackerProofs ---------------------------
(***************************************************************************)
(* Proofs about Stats, Tracker, SharedStats and Session, for every table   *)
(* of bucket bounds, every set of endpoints, every timeout, sweep          *)
(* interval, skew and ceiling, and every number of clients: what a packet  *)
(* does to the tables, what the lock protects, that the two threads        *)
(* implement Tracker, and that the lines tell the truth.                   *)
(***************************************************************************)
EXTENDS SharedStats, Session, WellFoundedInduction, FiniteSetTheorems, TLAPS

-----------------------------------------------------------------------------
(* The histogram *)

\* A non-empty set of numbers has a least one.
LEMMA LeastNat ==
  ASSUME NEW T \in SUBSET Nat, T # {}
  PROVE  \E x \in T : \A y \in T : x <= y
<1> DEFINE R == OpToRel(<, Nat)
<1>1. PICK x \in T : \A y \in T : ~(<<y, x>> \in R)
  <2> HIDE DEF R
  <2>1. IsWellFoundedOn(R, Nat)
    BY NatLessThanWellFounded DEF R
  <2> QED BY <2>1, WFMin
<1>2. ASSUME NEW y \in T PROVE x <= y
  <2>1. ~(<<y, x>> \in OpToRel(<, Nat))
    BY <1>1
  <2>2. x \in Nat /\ y \in Nat
    OBVIOUS
  <2>3. ~(y < x)
    BY <2>1, <2>2 DEF OpToRel
  <2> QED BY <2>2, <2>3
<1> QED BY <1>2

\* The table has one bucket more than it has bounds, so it is not empty.
LEMMA BucketFacts ==
  /\ Len(LatencyBounds) \in Nat
  /\ \A i \in 1 .. Len(LatencyBounds) : LatencyBounds[i] \in Nat
  /\ Buckets \subseteq Nat
  /\ Len(LatencyBounds) + 1 \in Buckets
<1>1. LatencyBounds \in Seq(Nat)
  BY BoundsAssumption
<1>2. Len(LatencyBounds) \in Nat
  BY <1>1
<1> QED BY <1>1, <1>2 DEF Buckets

\* The scan of stats_observer_latency always ends, and at one bucket only: a
\* sample is neither lost nor counted twice, whatever the latency (negative
\* ones included), on a boundary or beyond the last bound.
THEOREM ExactlyOneBucket ==
  ASSUME NEW latency \in Int
  PROVE  \E i \in Buckets :
           \A j \in Buckets : LandsIn(j, Clamped(latency)) <=> j = i
<1> DEFINE l == Clamped(latency)
           N == Len(LatencyBounds)
           T == {i \in Buckets : i <= N => LatencyBounds[i] >= l}
<1>1. l \in Nat
  BY DEF Clamped
<1>2. T \in SUBSET Nat /\ N + 1 \in T /\ N \in Nat
  <2>1. N \in Nat /\ N + 1 \in Buckets /\ Buckets \subseteq Nat
    BY BucketFacts
  <2>2. ~(N + 1 <= N)
    BY <2>1
  <2> QED BY <2>1, <2>2
<1> HIDE DEF l
<1>3. PICK i \in T : \A j \in T : i <= j
  <2> HIDE DEF T
  <2> QED BY <1>2, LeastNat
<1>4. i \in Buckets /\ i \in Nat /\ (i <= N => LatencyBounds[i] >= l)
  BY <1>2, <1>3
<1>5. LandsIn(i, l)
  <2>1. ASSUME NEW j \in 1 .. (i - 1) PROVE LatencyBounds[j] < l
    <3>1. j \in Nat /\ j < i /\ j \in 1 .. N /\ j \in Buckets
      BY <1>2, <1>4 DEF Buckets
    <3>2. j \notin T
      BY <1>2, <1>3, <1>4, <3>1
    <3>3. ~(LatencyBounds[j] >= l)
      BY <1>2, <3>1, <3>2
    <3>4. LatencyBounds[j] \in Nat
      BY <3>1, BucketFacts
    <3> QED BY <1>1, <3>3, <3>4
  <2> QED BY <1>4, <2>1 DEF LandsIn
<1>6. ASSUME NEW j \in Buckets, LandsIn(j, l) PROVE j = i
  <2>1. j \in T /\ j \in Nat
    BY <1>6, BucketFacts DEF LandsIn
  <2>2. i <= j
    BY <1>3, <2>1
  <2>3. ~(i < j)
    <3> SUFFICES ASSUME i < j PROVE FALSE
      OBVIOUS
    <3>1. i \in 1 .. (j - 1) /\ i <= N
      BY <1>2, <1>4, <1>6, <2>1 DEF Buckets
    <3>2. LatencyBounds[i] < l
      BY <1>6, <3>1 DEF LandsIn
    <3>3. LatencyBounds[i] \in Nat
      BY <1>2, <1>4, <3>1, BucketFacts DEF Buckets
    <3> QED BY <1>1, <1>4, <3>1, <3>2, <3>3
  <2> QED BY <1>4, <2>1, <2>2, <2>3
<1> QED BY <1>4, <1>5, <1>6 DEF l

-----------------------------------------------------------------------------
(* What the functions of a packet do *)

\* A step of the capture thread, with the packet it handles.
Step(p) == Arrive(p) /\ process_user_packet(p)

\* Assigning a counter, or the histogram, of a query_stats.
LEMMA FieldUpdate ==
  ASSUME NEW st \in QueryStats
  PROVE  /\ \A v \in Nat : /\ [st EXCEPT !.requests = v] \in QueryStats
                           /\ [st EXCEPT !.request_bytes = v] \in QueryStats
                           /\ [st EXCEPT !.responses = v] \in QueryStats
                           /\ [st EXCEPT !.response_bytes = v] \in QueryStats
         /\ \A f \in [Buckets -> Nat] : [st EXCEPT !.buckets = f] \in QueryStats
<1>1. \A v \in Nat : [st EXCEPT !.requests = v] \in QueryStats
  BY DEF QueryStats
<1>2. \A v \in Nat : [st EXCEPT !.request_bytes = v] \in QueryStats
  BY DEF QueryStats
<1>3. \A v \in Nat : [st EXCEPT !.responses = v] \in QueryStats
  BY DEF QueryStats
<1>4. \A v \in Nat : [st EXCEPT !.response_bytes = v] \in QueryStats
  BY DEF QueryStats
<1>5. \A f \in [Buckets -> Nat] : [st EXCEPT !.buckets = f] \in QueryStats
  BY DEF QueryStats
<1> QED BY <1>1, <1>2, <1>3, <1>4, <1>5

\* stats_incr and stats_observer_latency keep a query_stats a query_stats,
\* whatever the sign of the latency, and calloc starts one.
LEMMA StatsTypes ==
  /\ NewStats \in QueryStats
  /\ \A st \in QueryStats, b \in BOOLEAN, n \in Nat :
       stats_incr(st, b, n) \in QueryStats
  /\ \A st \in QueryStats, d \in Int :
       stats_observer_latency(st, d) \in QueryStats
<1>1. NewStats \in QueryStats
  BY DEF NewStats, QueryStats
<1>2. ASSUME NEW st \in QueryStats, NEW b \in BOOLEAN, NEW n \in Nat
      PROVE  stats_incr(st, b, n) \in QueryStats
  <2>1. /\ st.requests + 1 \in Nat /\ st.request_bytes + n \in Nat
        /\ st.responses + 1 \in Nat /\ st.response_bytes + n \in Nat
    BY DEF QueryStats
  <2>2. CASE b
    <3> DEFINE s1 == [st EXCEPT !.requests = st.requests + 1]
    <3>1. stats_incr(st, b, n) =
            [s1 EXCEPT !.request_bytes = st.request_bytes + n]
      BY <2>2, Zenon DEF stats_incr
    <3>2. s1 \in QueryStats
      BY <2>1, FieldUpdate
    <3> HIDE DEF s1
    <3> QED BY <2>1, <3>1, <3>2, FieldUpdate
  <2>3. CASE ~b
    <3> DEFINE s1 == [st EXCEPT !.responses = st.responses + 1]
    <3>1. stats_incr(st, b, n) =
            [s1 EXCEPT !.response_bytes = st.response_bytes + n]
      BY <2>3, Zenon DEF stats_incr
    <3>2. s1 \in QueryStats
      BY <2>1, FieldUpdate
    <3> HIDE DEF s1
    <3> QED BY <2>1, <3>1, <3>2, FieldUpdate
  <2> QED BY <2>2, <2>3
<1>3. ASSUME NEW st \in QueryStats, NEW d \in Int
      PROVE  stats_observer_latency(st, d) \in QueryStats
  <2> DEFINE new == [i \in Buckets |-> IF LandsIn(i, Clamped(d))
                                       THEN st.buckets[i] + 1
                                       ELSE st.buckets[i]]
  <2>1. stats_observer_latency(st, d) = [st EXCEPT !.buckets = new]
    BY DEF stats_observer_latency
  <2>2. st.buckets \in [Buckets -> Nat]
    BY DEF QueryStats
  <2>3. new \in [Buckets -> Nat]
    BY <2>2
  <2> HIDE DEF new
  <2> QED BY <2>1, <2>3, FieldUpdate
<1> QED BY <1>1, <1>2, <1>3

\* expire_stale_requests leaves a table of pending requests that holds nothing
\* new, and nothing past the timeout when the sweep was due.
LEMMA SweptFacts ==
  ASSUME TypeOK, NEW now \in Times
  PROVE  /\ Swept(now) \in [Conns -> Request \cup {NULL}]
         /\ \A k \in Conns :
              Swept(now)[k] # NULL =>
                /\ Swept(now)[k] = requests[k]
                /\ SweepDue(now) => now - requests[k].tv <= REQUEST_TIMEOUT_US
         /\ \A k \in Conns :
              Swept(now)[k] = NULL /\ requests[k] # NULL =>
                now - requests[k].tv > REQUEST_TIMEOUT_US
<1>1. requests \in [Conns -> Request \cup {NULL}] /\ DOMAIN requests = Conns
  BY DEF TypeOK
<1>2. CASE ~SweepDue(now)
  BY <1>1, <1>2 DEF Swept
<1>3. CASE SweepDue(now)
  <2>1. Swept(now) =
          [k \in Conns |->
             IF /\ requests[k] # NULL
                /\ now - requests[k].tv > REQUEST_TIMEOUT_US
             THEN NULL ELSE requests[k]]
    BY <1>1, <1>3 DEF Swept, requests_expire, hashtable_sweep, Entries,
                      request_expired, tv_delta_us
  <2>2. \A k \in Conns : requests[k] # NULL => requests[k].tv \in Nat
    BY <1>1, TimeAssumption DEF Request
  <2> QED BY <1>1, <2>1, <2>2, TimeAssumption
<1> QED BY <1>2, <1>3

\* process_request_packet adds at most its own request to the pending table.
LEMMA WithRequestFacts ==
  ASSUME NEW tab \in [Conns -> Request \cup {NULL}],
         NEW p \in Packets, NEW ok \in BOOLEAN
  PROVE  /\ WithRequest(tab, p, ok) \in [Conns -> Request \cup {NULL}]
         /\ \A k \in Conns :
              \/ WithRequest(tab, p, ok)[k] = tab[k]
              \/ /\ tab[k] = NULL
                 /\ WithRequest(tab, p, ok)[k] = [tv |-> p.tv]
<1>1. <<p.src, p.dst>> \in Conns /\ [tv |-> p.tv] \in Request
  BY DEF Packets, Conns, Request
<1> QED
  BY <1>1 DEF WithRequest, RequestKey, hashtable_add, hashtable_get

\* What a packet does to the pending table: an entry that is there afterwards
\* survived the sweep or is the packet's own request.
LEMMA PendingStep ==
  ASSUME TypeOK, NEW p \in Packets, process_user_packet(p)
  PROVE  /\ requests' \in [Conns -> Request \cup {NULL}]
         /\ \A k \in Conns :
              requests'[k] # NULL =>
                \/ requests'[k] = Swept(p.tv)[k]
                \/ requests'[k] = [tv |-> p.tv]
<1> DEFINE S == Swept(p.tv)
<1>1. S \in [Conns -> Request \cup {NULL}]
  BY SweptFacts DEF Packets
<1>2. CASE requests' = S
  BY <1>1, <1>2
<1>3. CASE \E ok \in BOOLEAN : process_request_packet(p, ok)
  <2>1. PICK ok \in BOOLEAN : requests' = WithRequest(S, p, ok)
    BY <1>3 DEF process_request_packet
  <2> HIDE DEF S
  <2> QED BY <1>1, <2>1, WithRequestFacts DEF S
<1>4. CASE process_response_packet(p)
  <2>1. \/ requests' = S
        \/ requests' = [S EXCEPT ![<<p.dst, p.src>>] = NULL]
    BY <1>4 DEF process_response_packet, ResponseKey, Answered, hashtable_del
  <2> HIDE DEF S
  <2> QED BY <1>1, <2>1 DEF S
<1> QED
  BY <1>2, <1>3, <1>4
     DEF process_user_packet, RegisterEndpoint, IgnoreEmpty, IgnoreUnknown

\* An entry that was not there after the sweep is the request of this packet,
\* which went to a registered endpoint.
LEMMA OwnRequest ==
  ASSUME TypeOK, NEW p \in Packets, process_user_packet(p),
         NEW k \in Conns, Swept(p.tv)[k] = NULL, requests'[k] # NULL
  PROVE  k = <<p.src, p.dst>> /\ syn_tab[p.dst] # NULL
<1> DEFINE S == Swept(p.tv)
<1>1. S \in [Conns -> Request \cup {NULL}]
  BY SweptFacts DEF Packets
<1>2. requests' # S
  BY Zenon
<1>3. ~process_response_packet(p)
  <2> SUFFICES ASSUME process_response_packet(p) PROVE FALSE
    OBVIOUS
  <2>1. requests' = [S EXCEPT ![<<p.dst, p.src>>] = NULL]
    BY <1>2 DEF process_response_packet, ResponseKey, Answered, hashtable_del
  <2> HIDE DEF S
  <2> QED BY <1>1, <2>1 DEF S
<1>4. PICK ok \in BOOLEAN : process_request_packet(p, ok)
  BY <1>2, <1>3
     DEF process_user_packet, RegisterEndpoint, IgnoreEmpty, IgnoreUnknown
<1>5. syn_tab[p.dst] # NULL
  BY <1>4 DEF process_request_packet, packet_direction, RequestDir, Response,
              Unknown, hashtable_get
<1>6. requests' = S \/ requests' = [S EXCEPT ![<<p.src, p.dst>>] = [tv |-> p.tv]]
  BY <1>4 DEF process_request_packet, WithRequest, RequestKey, hashtable_add
<1>7. k = <<p.src, p.dst>>
  <2> HIDE DEF S
  <2> QED BY <1>1, <1>2, <1>6 DEF S
<1> QED BY <1>5, <1>7

\* The table keeps the first value of a key, so the test before the addition
\* saves an allocation and changes nothing.
LEMMA EndpointAdded ==
  ASSUME NEW t, NEW e, NEW ok
  PROVE  WithEndpoint(t, e, ok) = IF ok THEN hashtable_add(t, e, NewStats) ELSE t
BY Zenon DEF WithEndpoint, hashtable_get, hashtable_add

\* What a packet does to the table of endpoints: it stays one, and a
\* registered endpoint stays registered.
LEMMA SynTabStep ==
  ASSUME TypeOK, NEW p \in Packets, process_user_packet(p)
  PROVE  /\ syn_tab' \in [Endpoints -> QueryStats \cup {NULL}]
         /\ \A e \in Endpoints : syn_tab[e] # NULL => syn_tab'[e] # NULL
<1>1. /\ syn_tab \in [Endpoints -> QueryStats \cup {NULL}]
      /\ p.src \in Endpoints /\ p.dst \in Endpoints
      /\ p.size \in Nat /\ p.tv \in Nat
      /\ p.ack \in BOOLEAN
  BY TimeAssumption, SizeAssumption DEF TypeOK, Packets
<1>2. CASE UNCHANGED syn_tab
  BY <1>1, <1>2
<1>3. CASE \E ok \in BOOLEAN : RegisterEndpoint(p, ok)
  <2>1. ServerEnd(p) \in Endpoints
    BY <1>1 DEF ServerEnd
  <2>2. \/ syn_tab' = syn_tab
        \/ syn_tab' = [syn_tab EXCEPT ![ServerEnd(p)] = NewStats]
    BY <1>3 DEF RegisterEndpoint, WithEndpoint, hashtable_get, hashtable_add
  <2> QED BY <1>1, <2>1, <2>2, StatsTypes, NullAssumption
<1>4. ASSUME NEW e \in Endpoints, syn_tab[e] # NULL, NEW b \in BOOLEAN
      PROVE  /\ Counted(e, b, p) \in [Endpoints -> QueryStats \cup {NULL}]
             /\ Counted(e, b, p)[e] \in QueryStats
             /\ \A x \in Endpoints : syn_tab[x] # NULL =>
                                       Counted(e, b, p)[x] # NULL
  <2>1. syn_tab[e] \in QueryStats
    BY <1>1, <1>4
  <2>2. stats_incr(syn_tab[e], b, p.size) \in QueryStats
    BY <1>1, <2>1, StatsTypes
  <2>3. Counted(e, b, p) =
          [syn_tab EXCEPT ![e] = stats_incr(syn_tab[e], b, p.size)]
    BY DEF Counted
  <2> QED BY <1>1, <2>2, <2>3, NullAssumption
<1>5. CASE \E ok \in BOOLEAN : process_request_packet(p, ok)
  <2>1. syn_tab' = Counted(p.dst, TRUE, p) /\ syn_tab[p.dst] # NULL
    BY <1>5 DEF process_request_packet, packet_direction, RequestDir,
                Response, Unknown, hashtable_get
  <2> QED BY <1>1, <1>4, <2>1
<1>6. CASE process_response_packet(p)
  <2> DEFINE C == Counted(p.src, FALSE, p)
             req == Swept(p.tv)[<<p.dst, p.src>>]
             d == p.tv - req.tv
  <2>1. syn_tab[p.src] # NULL
    BY <1>6 DEF process_response_packet, packet_direction, RequestDir,
                Response, Unknown, hashtable_get
  <2>2. /\ C \in [Endpoints -> QueryStats \cup {NULL}]
        /\ C[p.src] \in QueryStats
        /\ \A x \in Endpoints : syn_tab[x] # NULL => C[x] # NULL
    BY <1>1, <1>4, <2>1
  <2>3. \/ syn_tab' = C
        \/ /\ req # NULL
           /\ syn_tab' = [C EXCEPT ![p.src] =
                            stats_observer_latency(C[p.src], d)]
    BY <1>6 DEF process_response_packet, ResponseKey, hashtable_get, tv_delta_us
  <2>4. req # NULL => d \in Int
    <3>1. <<p.dst, p.src>> \in Conns
      BY <1>1 DEF Conns
    <3>2. req \in Request \cup {NULL}
      BY <3>1, SweptFacts DEF Packets
    <3> HIDE DEF req
    <3>3. req # NULL => req.tv \in Times
      BY <3>2 DEF Request
    <3>4. ASSUME req # NULL PROVE d \in Int
      <4>1. req.tv \in Nat
        BY <3>3, <3>4, TimeAssumption
      <4>2. p.tv \in Nat
        BY <1>1
      <4> QED BY <4>1, <4>2
    <3> QED BY <3>4
  <2> HIDE DEF C, req, d
  <2>5. req # NULL => stats_observer_latency(C[p.src], d) \in QueryStats
    BY <2>2, <2>4, StatsTypes
  <2> QED BY <1>1, <2>2, <2>3, <2>5, NullAssumption
<1> QED
  BY <1>2, <1>3, <1>5, <1>6
     DEF process_user_packet, IgnoreEmpty, IgnoreUnknown

\* The line printed is a latency, or there is none.
LEMMA PrintedStep ==
  ASSUME TypeOK, NEW p \in Packets, process_user_packet(p)
  PROVE  printed' \in Int \cup {NULL}
<1>1. CASE printed' = NULL
  BY <1>1
<1>2. CASE process_response_packet(p)
  <2> DEFINE key == <<p.dst, p.src>>
             req == Swept(p.tv)[key]
             d == p.tv - req.tv
  <2>1. \/ printed' = NULL
        \/ req # NULL /\ printed' = d
    BY <1>2 DEF process_response_packet, ResponseKey, hashtable_get, tv_delta_us, Line
  <2>2. key \in Conns /\ p.tv \in Times
    BY DEF Packets, Conns
  <2>3. req \in Request \cup {NULL}
    BY <2>2, SweptFacts
  <2> HIDE DEF req
  <2>4. req # NULL => req.tv \in Times
    BY <2>3 DEF Request
  <2>5. ASSUME req # NULL PROVE d \in Int
    <3>1. req.tv \in Nat
      BY <2>4, <2>5, TimeAssumption
    <3>2. p.tv \in Nat
      BY <2>2, TimeAssumption
    <3> QED BY <3>1, <3>2
  <2> QED BY <2>1, <2>5
<1> QED
  BY <1>1, <1>2
     DEF process_user_packet, RegisterEndpoint, IgnoreEmpty, IgnoreUnknown,
         process_request_packet

\* The clock and the sweeper of a step: what Arrive and expire_stale_requests
\* say in terms of numbers.
LEMMA ClockStep ==
  ASSUME TypeOK, NEW p \in Packets, Step(p)
  PROVE  /\ p.tv \in Nat /\ p.tv >= newest - MaxSkew
         /\ newest' \in Nat /\ newest' >= newest /\ newest' >= p.tv
         /\ newest' = newest \/ newest' = p.tv
         /\ npackets' \in Nat
         /\ expire_primed' = TRUE
         /\ last_expire' \in Nat
         /\ \/ ~expire_primed /\ last_expire' = p.tv
            \/ /\ SweepDue(p.tv) /\ last_expire' = p.tv
               /\ p.tv - last_expire >= EXPIRE_INTERVAL_US
            \/ /\ expire_primed /\ ~SweepDue(p.tv)
               /\ last_expire' = last_expire
               /\ p.tv - last_expire < EXPIRE_INTERVAL_US
<1>1. /\ newest \in Nat /\ npackets \in Nat /\ last_expire \in Nat
      /\ p.tv \in Nat
  BY TimeAssumption DEF TypeOK, Packets
<1>2. Arrive(p) /\ expire_stale_requests(p.tv)
  BY DEF Step, process_user_packet
<1>3. /\ p.tv >= newest - MaxSkew
      /\ newest' \in Nat /\ newest' >= newest /\ newest' >= p.tv
      /\ newest' = newest \/ newest' = p.tv
      /\ npackets' \in Nat
  BY <1>1, <1>2, TimeAssumption DEF Arrive
<1>4. /\ expire_primed' = TRUE
      /\ \/ ~expire_primed /\ last_expire' = p.tv
         \/ SweepDue(p.tv) /\ last_expire' = p.tv
         \/ expire_primed /\ ~SweepDue(p.tv) /\ last_expire' = last_expire
  BY <1>2 DEF expire_stale_requests, SweepDue
<1>5. SweepDue(p.tv) => p.tv - last_expire >= EXPIRE_INTERVAL_US
  BY DEF SweepDue, tv_delta_us
<1>6. expire_primed /\ ~SweepDue(p.tv) =>
        p.tv - last_expire < EXPIRE_INTERVAL_US
  BY <1>1, TimeAssumption DEF SweepDue, tv_delta_us
<1> QED BY <1>1, <1>3, <1>4, <1>5, <1>6

-----------------------------------------------------------------------------
(* Type correctness *)

LEMMA TypeInit == Init => TypeOK
<1> SUFFICES ASSUME Init PROVE TypeOK
  OBVIOUS
<1>1. /\ syn_tab \in [Endpoints -> QueryStats \cup {NULL}]
      /\ requests \in [Conns -> Request \cup {NULL}]
  BY DEF Init, hashtable_create
<1> QED BY <1>1 DEF Init, TypeOK

LEMMA TypeStep == TypeOK /\ [Next]_vars => TypeOK'
<1> SUFFICES ASSUME TypeOK, [Next]_vars PROVE TypeOK'
  OBVIOUS
<1>1. CASE UNCHANGED vars
  BY <1>1 DEF TypeOK, vars, trackerVars
<1>2. CASE Next
  <2>1. PICK p \in Packets : Step(p)
    BY <1>2 DEF Next, Step
  <2>2. process_user_packet(p)
    BY <2>1 DEF Step
  <2> QED BY <2>1, <2>2, PendingStep, SynTabStep, PrintedStep, ClockStep
          DEF TypeOK
<1> QED BY <1>1, <1>2

\* Every reachable state of the tracker is well typed: whatever the order of
\* packets, a table entry is NULL or a struct, never a counter below zero.
THEOREM TypeCorrect == Spec => []TypeOK
<1> QED BY TypeInit, TypeStep, PTL DEF Spec

-----------------------------------------------------------------------------
(* A pending request belongs to a registered endpoint *)

LEMMA KnownStep ==
  TypeOK /\ PendingToKnown /\ [Next]_vars => PendingToKnown'
<1> SUFFICES ASSUME TypeOK, PendingToKnown, [Next]_vars,
                    NEW k \in Entries(requests)'
             PROVE  syn_tab'[k[2]] # NULL
  BY DEF PendingToKnown, hashtable_get
<1>1. CASE UNCHANGED vars
  BY <1>1 DEF PendingToKnown, hashtable_get, vars, trackerVars, Entries
<1>2. CASE Next
  <2>1. PICK p \in Packets : Step(p) /\ process_user_packet(p)
    BY <1>2 DEF Next, Step
  <2>2. k \in Conns /\ requests'[k] # NULL
    BY <2>1, PendingStep DEF Entries
  <2>3. k[2] \in Endpoints
    BY <2>2 DEF Conns
  <2>4. CASE requests[k] # NULL
    <3>1. k \in Entries(requests)
      BY <2>2, <2>4 DEF Entries, TypeOK
    <3>2. syn_tab[k[2]] # NULL
      BY <3>1 DEF PendingToKnown, hashtable_get
    <3> QED BY <2>1, <2>3, <3>2, SynTabStep
  <2>5. CASE requests[k] = NULL
    <3>1. Swept(p.tv) \in [Conns -> Request \cup {NULL}] /\ Swept(p.tv)[k] = NULL
      BY <2>2, <2>5, SweptFacts DEF Packets
    <3>2. k = <<p.src, p.dst>> /\ syn_tab[p.dst] # NULL
      BY <2>1, <2>2, <3>1, OwnRequest
    <3>3. syn_tab[k[2]] # NULL
      BY <3>2
    <3> QED BY <2>1, <2>3, <3>3, SynTabStep
  <2> QED BY <2>4, <2>5
<1> QED BY <1>1, <1>2

\* No request ever waits for an endpoint whose responses packet_direction
\* would not recognise.
THEOREM PendingToKnownHolds == Spec => []PendingToKnown
<1>1. Init => PendingToKnown
  BY DEF Init, PendingToKnown, hashtable_create, Entries
<1> QED BY <1>1, KnownStep, TypeCorrect, PTL DEF Spec

-----------------------------------------------------------------------------
(* The age of a pending request *)

LEMMA SweepInit == Init => SweepInv
BY TimeAssumption DEF Init, SweepInv, hashtable_create, Entries

LEMMA SweepStep == TypeOK /\ SweepInv /\ [Next]_vars => SweepInv'
<1> SUFFICES ASSUME TypeOK, SweepInv, [Next]_vars PROVE SweepInv'
  OBVIOUS
<1>1. CASE UNCHANGED vars
  BY <1>1 DEF SweepInv, vars, trackerVars, Entries
<1>2. CASE Next
  <2>1. PICK p \in Packets : Step(p) /\ process_user_packet(p)
    BY <1>2 DEF Next, Step
  <2>2. /\ newest \in Nat /\ last_expire \in Nat
        /\ MaxSkew \in Nat /\ MaxSkew <= REQUEST_TIMEOUT_US
        /\ REQUEST_TIMEOUT_US \in Nat /\ EXPIRE_INTERVAL_US \in Nat \ {0}
    BY TimeAssumption DEF TypeOK
  <2>3. /\ p.tv \in Nat /\ p.tv >= newest - MaxSkew
        /\ newest' \in Nat /\ newest' >= newest /\ newest' >= p.tv
        /\ newest' = newest \/ newest' = p.tv
        /\ expire_primed' = TRUE
        /\ last_expire' \in Nat
        /\ \/ ~expire_primed /\ last_expire' = p.tv
           \/ /\ SweepDue(p.tv) /\ last_expire' = p.tv
              /\ p.tv - last_expire >= EXPIRE_INTERVAL_US
           \/ /\ expire_primed /\ ~SweepDue(p.tv)
              /\ last_expire' = last_expire
              /\ p.tv - last_expire < EXPIRE_INTERVAL_US
    BY <2>1, ClockStep
  <2>4. /\ ~expire_primed => Entries(requests) = {}
        /\ last_expire <= newest
        /\ expire_primed => \/ newest - last_expire < EXPIRE_INTERVAL_US
                            \/ newest - last_expire <= MaxSkew
    BY DEF SweepInv
  <2>5. last_expire' <= newest'
    BY <2>2, <2>3, <2>4
  <2>6. \/ newest' - last_expire' < EXPIRE_INTERVAL_US
        \/ newest' - last_expire' <= MaxSkew
    <3>1. CASE last_expire' = p.tv
      BY <2>2, <2>3, <3>1
    <3>2. CASE /\ expire_primed /\ last_expire' = last_expire
               /\ p.tv - last_expire < EXPIRE_INTERVAL_US
      <4>1. CASE newest' = newest
        BY <2>4, <3>2, <4>1
      <4>2. CASE newest' = p.tv
        BY <3>2, <4>2
      <4> QED BY <2>3, <4>1, <4>2
    <3> QED BY <2>3, <3>1, <3>2
  <2>7. ASSUME NEW k \in Entries(requests)'
        PROVE  last_expire' - requests'[k].tv <= REQUEST_TIMEOUT_US
    <3>1. k \in Conns /\ requests'[k] # NULL
      BY <2>1, PendingStep DEF Entries
    <3>2. CASE requests'[k] = [tv |-> p.tv]
      <4>1. last_expire' - p.tv <= REQUEST_TIMEOUT_US
        BY <2>2, <2>3, <2>4
      <4> QED BY <3>2, <4>1
    <3>3. CASE requests'[k] = Swept(p.tv)[k]
      <4>1. /\ requests'[k] = requests[k] /\ requests[k] # NULL
            /\ SweepDue(p.tv) => p.tv - requests[k].tv <= REQUEST_TIMEOUT_US
        BY <3>1, <3>3, SweptFacts DEF Packets
      <4>2. k \in Entries(requests)
        BY <3>1, <4>1 DEF Entries, TypeOK
      <4>3. expire_primed /\ last_expire - requests[k].tv <= REQUEST_TIMEOUT_US
        BY <4>2 DEF SweepInv
      <4>4. CASE SweepDue(p.tv) /\ last_expire' = p.tv
        BY <4>1, <4>4
      <4>5. CASE last_expire' = last_expire
        BY <4>1, <4>3, <4>5
      <4> QED BY <2>3, <4>3, <4>4, <4>5
    <3> QED BY <2>1, <3>1, <3>2, <3>3, PendingStep
  <2> QED BY <2>3, <2>5, <2>6, <2>7 DEF SweepInv
<1> QED BY <1>1, <1>2

\* Whenever a packet has been handled, the last sweep is recent and left only
\* requests within their timeout, although expire_stale_requests returns early
\* for most packets and the clock may step back.
THEOREM SweepInvHolds == Spec => []SweepInv
BY SweepInit, SweepStep, TypeCorrect, PTL DEF Spec

\* No request waits longer than the timeout and the sweep interval, or the clock
\* skew if that is longer, for every value of the three, although requests are swept only
\* when a packet arrives and only once per interval.
THEOREM AgeBounded == Spec => []PendingAgeBounded
<1>1. TypeOK /\ SweepInv => PendingAgeBounded
  <2> SUFFICES ASSUME TypeOK, SweepInv, NEW k \in Entries(requests)
               PROVE  LET overdue == newest - requests[k].tv - REQUEST_TIMEOUT_US
                      IN  overdue < EXPIRE_INTERVAL_US \/ overdue <= MaxSkew
    BY DEF PendingAgeBounded
  <2>1. /\ \/ newest - last_expire < EXPIRE_INTERVAL_US
           \/ newest - last_expire <= MaxSkew
        /\ last_expire - requests[k].tv <= REQUEST_TIMEOUT_US
    BY DEF SweepInv
  <2>2. requests[k] \in Request
    BY DEF TypeOK, Entries
  <2>3. requests[k].tv \in Times
    BY <2>2 DEF Request
  <2>4. requests[k].tv \in Nat
    BY <2>3, TimeAssumption
  <2>5. /\ newest \in Nat /\ last_expire \in Nat /\ MaxSkew \in Nat
        /\ REQUEST_TIMEOUT_US \in Nat /\ EXPIRE_INTERVAL_US \in Nat
    BY TimeAssumption DEF TypeOK
  <2> QED BY <2>1, <2>4, <2>5
<1> QED BY <1>1, SweepInvHolds, TypeCorrect, PTL

-----------------------------------------------------------------------------
(* The ceiling of the pending table *)

\* Fewer entries make a smaller table.
LEMMA SizeMonotone ==
  ASSUME NEW s \in [Conns -> Request \cup {NULL}],
         NEW t \in [Conns -> Request \cup {NULL}],
         Entries(t) \subseteq Entries(s)
  PROVE  Size(t) <= Size(s) /\ Size(s) \in Nat /\ Size(t) \in Nat
<1>1. IsFiniteSet(Conns)
  BY SizeAssumption, FS_Product DEF Conns
<1>2. IsFiniteSet(Entries(s)) /\ IsFiniteSet(Entries(t))
  BY <1>1, FS_Subset DEF Entries
<1> QED BY <1>2, FS_Subset, FS_CardinalityType DEF Size

\* One request more, and only below the ceiling.
LEMMA WithRequestSize ==
  ASSUME NEW tab \in [Conns -> Request \cup {NULL}],
         NEW p \in Packets, NEW ok \in BOOLEAN,
         Size(tab) <= MAX_PENDING_REQUESTS
  PROVE  Size(WithRequest(tab, p, ok)) <= MAX_PENDING_REQUESTS
<1> DEFINE k == <<p.src, p.dst>>
           new == WithRequest(tab, p, ok)
<1>1. CASE new = tab
  BY <1>1
<1>2. CASE /\ Size(tab) < MAX_PENDING_REQUESTS
           /\ new = [tab EXCEPT ![k] = [tv |-> p.tv]]
  <2>1. k \in Conns
    BY DEF Packets, Conns
  <2>2. Entries(new) \subseteq Entries(tab) \cup {k}
    BY <1>2, <2>1 DEF Entries
  <2>3. IsFiniteSet(Entries(tab))
    <3>1. IsFiniteSet(Conns)
      BY SizeAssumption, FS_Product DEF Conns
    <3> QED BY <3>1, FS_Subset DEF Entries
  <2> HIDE DEF k, new
  <2>4. /\ IsFiniteSet(Entries(tab) \cup {k})
        /\ Cardinality(Entries(tab) \cup {k}) <= Cardinality(Entries(tab)) + 1
    <3>1. /\ IsFiniteSet(Entries(tab) \cup {k})
          /\ Cardinality(Entries(tab) \cup {k}) =
               IF k \in Entries(tab) THEN Cardinality(Entries(tab))
                                     ELSE Cardinality(Entries(tab)) + 1
      BY <2>3, FS_AddElement
    <3>2. Cardinality(Entries(tab)) \in Nat
      BY <2>3, FS_CardinalityType
    <3> QED BY <3>1, <3>2
  <2>5. Cardinality(Entries(new)) <= Cardinality(Entries(tab)) + 1
    <3>1. /\ Cardinality(Entries(new)) <= Cardinality(Entries(tab) \cup {k})
          /\ IsFiniteSet(Entries(new))
      BY <2>2, <2>4, FS_Subset
    <3>2. /\ Cardinality(Entries(new)) \in Nat
          /\ Cardinality(Entries(tab)) \in Nat
          /\ Cardinality(Entries(tab) \cup {k}) \in Nat
      BY <2>3, <2>4, <3>1, FS_CardinalityType
    <3> QED BY <2>4, <3>1, <3>2
  <2>6. Cardinality(Entries(new)) \in Nat /\ Cardinality(Entries(tab)) \in Nat
    BY <2>2, <2>3, <2>4, FS_Subset, FS_CardinalityType
  <2> QED BY <1>2, <2>5, <2>6, SizeAssumption DEF Size, new
<1>3. Size(tab) \in Nat
  BY SizeMonotone
<1>4. \/ new = tab
      \/ /\ Size(tab) < MAX_PENDING_REQUESTS
         /\ new = [tab EXCEPT ![k] = [tv |-> p.tv]]
  BY <1>3, SizeAssumption DEF WithRequest, RequestKey, RoomFor, hashtable_add,
         hashtable_get
<1> QED BY <1>1, <1>2, <1>4

LEMMA CeilingStep ==
  TypeOK /\ PendingBelowCeiling /\ [Next]_vars => PendingBelowCeiling'
<1> SUFFICES ASSUME TypeOK, PendingBelowCeiling, [Next]_vars
             PROVE  Size(requests') <= MAX_PENDING_REQUESTS
  BY DEF PendingBelowCeiling, Size, Entries
<1>1. CASE UNCHANGED vars
  BY <1>1 DEF PendingBelowCeiling, vars, trackerVars
<1>2. CASE Next
  <2>1. PICK p \in Packets : process_user_packet(p)
    BY <1>2 DEF Next
  <2> DEFINE S == Swept(p.tv)
  <2>2. /\ requests \in [Conns -> Request \cup {NULL}]
        /\ S \in [Conns -> Request \cup {NULL}]
        /\ requests' \in [Conns -> Request \cup {NULL}]
    BY <2>1, SweptFacts, PendingStep DEF TypeOK, Packets
  <2>3. Entries(S) \subseteq Entries(requests)
    BY <2>2, SweptFacts DEF Entries, Packets
  <2>4. Size(S) <= MAX_PENDING_REQUESTS
    BY <2>2, <2>3, SizeMonotone, SizeAssumption DEF PendingBelowCeiling
  <2>5. CASE \E ok \in BOOLEAN : process_request_packet(p, ok)
    <3>1. PICK ok \in BOOLEAN : requests' = WithRequest(S, p, ok)
      BY <2>5 DEF process_request_packet
    <3> HIDE DEF S
    <3> QED BY <2>2, <2>4, <3>1, WithRequestSize
  <2>6. CASE ~ \E ok \in BOOLEAN : process_request_packet(p, ok)
    <3>1. requests' = S \/ requests' = [S EXCEPT ![<<p.dst, p.src>>] = NULL]
      BY <2>1, <2>6 DEF process_user_packet, RegisterEndpoint, IgnoreEmpty,
           IgnoreUnknown, process_response_packet, ResponseKey, Answered, hashtable_del
    <3> HIDE DEF S
    <3>2. Entries(requests') \subseteq Entries(S)
      BY <2>2, <3>1 DEF Entries
    <3> QED BY <2>2, <2>4, <3>2, SizeMonotone, SizeAssumption
  <2> QED BY <2>5, <2>6
<1> QED BY <1>1, <1>2

\* The pending table never outgrows its limit, however many endpoints there
\* are and however fast requests arrive.
THEOREM CeilingHolds == Spec => []PendingBelowCeiling
<1>1. Init => PendingBelowCeiling
  <2> SUFFICES ASSUME Init PROVE PendingBelowCeiling
    OBVIOUS
  <2>1. Entries(requests) = {}
    BY DEF Init, hashtable_create, Entries
  <2> QED BY <2>1, FS_EmptySet, SizeAssumption DEF PendingBelowCeiling, Size
<1> QED BY <1>1, CeilingStep, TypeCorrect, PTL DEF Spec

-----------------------------------------------------------------------------
(* How a pending request goes *)

\* A latency sample shows in the histogram; counting a packet does not.
LEMMA SampleShows ==
  ASSUME NEW st \in QueryStats
  PROVE  /\ \A d \in Int : stats_observer_latency(st, d).buckets # st.buckets
         /\ \A n \in Nat : stats_incr(st, FALSE, n).buckets = st.buckets
<1>1. st.buckets \in [Buckets -> Nat]
  BY DEF QueryStats
<1>2. ASSUME NEW d \in Int
      PROVE  stats_observer_latency(st, d).buckets # st.buckets
  <2> DEFINE new == [i \in Buckets |-> IF LandsIn(i, Clamped(d))
                                       THEN st.buckets[i] + 1
                                       ELSE st.buckets[i]]
  <2>1. stats_observer_latency(st, d).buckets = new
    BY Zenon DEF stats_observer_latency, QueryStats
  <2>2. PICK i \in Buckets : LandsIn(i, Clamped(d))
    BY ExactlyOneBucket
  <2>3. new[i] = st.buckets[i] + 1 /\ st.buckets[i] \in Nat
    BY <1>1, <2>2
  <2> HIDE DEF new
  <2>4. new # st.buckets
    BY <2>3
  <2> QED BY <2>1, <2>4
<1>3. ASSUME NEW n \in Nat
      PROVE  stats_incr(st, FALSE, n).buckets = st.buckets
  BY Zenon DEF stats_incr, QueryStats
<1> QED BY <1>2, <1>3

\* process_request_packet takes no waiting request out of the table.
LEMMA RequestKeeps ==
  ASSUME TypeOK, NEW p \in Packets,
         \E ok \in BOOLEAN : process_request_packet(p, ok)
  PROVE  \A k \in Conns :
           Swept(p.tv)[k] # NULL => requests'[k] = Swept(p.tv)[k]
<1> DEFINE S == Swept(p.tv)
<1>1. S \in [Conns -> Request \cup {NULL}]
  BY SweptFacts DEF Packets
<1>2. PICK ok \in BOOLEAN : requests' = WithRequest(S, p, ok)
  BY DEF process_request_packet
<1> HIDE DEF S
<1>3. \A k \in Conns :
        \/ WithRequest(S, p, ok)[k] = S[k]
        \/ S[k] = NULL /\ WithRequest(S, p, ok)[k] = [tv |-> p.tv]
  BY <1>1, WithRequestFacts
<1> QED BY <1>2, <1>3 DEF S

LEMMA DropStep ==
  ASSUME TypeOK, NEW p \in Packets, Step(p), NEW k \in Entries(requests),
         requests'[k] # requests[k]
  PROVE  \/ syn_tab'[k[2]].buckets # syn_tab[k[2]].buckets
         \/ newest' - requests[k].tv > REQUEST_TIMEOUT_US
<1> DEFINE S == Swept(p.tv)
           key == <<p.dst, p.src>>
<1>1. k \in Conns /\ requests[k] # NULL /\ requests[k] \in Request
  BY DEF Entries, TypeOK
<1>2. S \in [Conns -> Request \cup {NULL}] /\ (S[k] # NULL => S[k] = requests[k])
  BY <1>1, SweptFacts DEF Packets
<1>3. process_user_packet(p)
  BY DEF Step
<1>4. CASE S[k] = NULL
  <2>1. p.tv - requests[k].tv > REQUEST_TIMEOUT_US
    BY <1>1, <1>4, SweptFacts DEF Packets
  <2>2. requests[k].tv \in Times
    BY <1>1 DEF Request
  <2>3. newest' \in Nat /\ newest' >= p.tv /\ p.tv \in Nat
    BY ClockStep
  <2>4. requests[k].tv \in Nat /\ REQUEST_TIMEOUT_US \in Nat
    BY <2>2, TimeAssumption
  <2> QED BY <2>1, <2>3, <2>4
<1>5. CASE S[k] # NULL
  <2>1. requests' # S /\ S[k] = requests[k]
    BY <1>2, <1>5
  <2>2. ~ \E ok \in BOOLEAN : process_request_packet(p, ok)
    BY <1>1, <1>5, <2>1, RequestKeeps
  <2>3. process_response_packet(p)
    BY <1>3, <2>1, <2>2
       DEF process_user_packet, RegisterEndpoint, IgnoreEmpty, IgnoreUnknown
  <2> DEFINE C == Counted(p.src, FALSE, p)
             req == S[key]
             d == p.tv - req.tv
  <2>4. /\ req # NULL
        /\ requests' = [S EXCEPT ![key] = NULL]
        /\ syn_tab' = [C EXCEPT ![p.src] = stats_observer_latency(C[p.src], d)]
    BY <2>1, <2>3
       DEF process_response_packet, ResponseKey, Answered, hashtable_get, hashtable_del, tv_delta_us
  <2>5. k = key
    <3> HIDE DEF S, key
    <3> QED BY <1>1, <1>2, <2>1, <2>4
  <2>6. k[2] = p.src /\ p.src \in Endpoints /\ p.size \in Nat /\ p.tv \in Nat
    BY <2>5, TimeAssumption, SizeAssumption DEF Packets
  <2>7. syn_tab \in [Endpoints -> QueryStats \cup {NULL}] /\ syn_tab[p.src] # NULL
    BY <2>3 DEF TypeOK, process_response_packet, packet_direction, RequestDir,
                Response, Unknown, hashtable_get
  <2>8. syn_tab[p.src] \in QueryStats
    BY <2>6, <2>7
  <2>9. C = [syn_tab EXCEPT ![p.src] = stats_incr(syn_tab[p.src], FALSE, p.size)]
    BY DEF Counted
  <2>10. d \in Int
    <3>1. req \in Request
      BY <1>1, <2>1, <2>5
    <3> HIDE DEF req
    <3>2. req.tv \in Times
      BY <3>1 DEF Request
    <3>3. req.tv \in Nat
      BY <3>2, TimeAssumption
    <3> QED BY <2>6, <3>3
  <2> HIDE DEF C, d, req, S
  <2>11. C[p.src] = stats_incr(syn_tab[p.src], FALSE, p.size)
    BY <2>6, <2>7, <2>9
  <2>12. C[p.src] \in QueryStats
    BY <2>6, <2>8, <2>11, StatsTypes
  <2>13. C[p.src].buckets = syn_tab[p.src].buckets
    BY <2>6, <2>8, <2>11, SampleShows
  <2>14. syn_tab'[p.src] = stats_observer_latency(C[p.src], d)
    BY <2>4, <2>6, <2>7, <2>9
  <2>15. syn_tab'[p.src].buckets # C[p.src].buckets
    BY <2>10, <2>12, <2>14, SampleShows
  <2> QED BY <2>6, <2>13, <2>15
<1> QED BY <1>4, <1>5

\* A waiting request goes only by becoming a latency sample or by expiring:
\* no packet, in whatever order and with whatever timestamp, loses one.
THEOREM NoSilentDropHolds == Spec => NoSilentDrop
<1>1. TypeOK /\ [Next]_vars =>
        [\A k \in Entries(requests) :
           requests'[k] # requests[k] =>
             \/ syn_tab'[k[2]].buckets # syn_tab[k[2]].buckets
             \/ newest' - requests[k].tv > REQUEST_TIMEOUT_US]_vars
  <2> SUFFICES ASSUME TypeOK, Next, NEW k \in Entries(requests),
                      requests'[k] # requests[k]
               PROVE  \/ syn_tab'[k[2]].buckets # syn_tab[k[2]].buckets
                      \/ newest' - requests[k].tv > REQUEST_TIMEOUT_US
    OBVIOUS
  <2>1. PICK p \in Packets : Step(p)
    BY DEF Next, Step
  <2> QED BY <2>1, DropStep
<1> QED BY <1>1, TypeCorrect, PTL DEF Spec, NoSilentDrop

-----------------------------------------------------------------------------
(* SharedStats: the inductive invariant *)

Tables == [Endpoints -> QueryStats \cup {NULL}]

\* The steps at which the capture thread is inside a critical section.
Critical == {"register", "count", "bytes", "observe"}

\* The lock is held by the thread that is inside a critical section.
LockInv ==
  /\ stats_lock \in {NULL, "capture", "stats"}
  /\ stats_lock = "capture" <=> pc \in Critical
  /\ stats_lock = "stats" <=> statsPc = "walk"

\* During a walk syn_tab stands still, and the object holds what the walk has
\* passed.  Otherwise the last reply is the last cut.
WalkInv ==
  /\ statsPc \in {"poll", "lock", "walk"}
  /\ reply \in Tables
  /\ IF statsPc = "walk"
     THEN /\ cut = syn_tab
          /\ object = [e \in Endpoints |-> IF e \in todo THEN NULL ELSE cut[e]]
     ELSE reply = cut

\* No counter of query_stats a is ahead of b's.
Grows(a, b) ==
  /\ a.requests <= b.requests /\ a.request_bytes <= b.request_bytes
  /\ a.responses <= b.responses /\ a.response_bytes <= b.response_bytes
  /\ \A i \in Buckets : a.buckets[i] <= b.buckets[i]

\* Each entry of table s is one of t, where its counters have only grown.
Leq(s, t) == \A e \in Entries(s) : t[e] # NULL /\ Grows(s[e], t[e])

\* The counters have not fallen behind the last reply.
ReplyBehind == Leq(reply, syn_tab)

\* The packet in hand has arrived and the sweep is over, measured from the
\* state the last handler left.
Begun ==
  /\ upacket \in Packets
  /\ done.npackets < MaxPackets /\ upacket.tv >= done.newest - MaxSkew
  /\ npackets = done.npackets + 1
  /\ newest = IF upacket.tv > done.newest THEN upacket.tv ELSE done.newest
  /\ expire_primed = TRUE
  /\ last_expire = IF done.expire_primed /\ ~Atomic!SweepDue(upacket.tv)
                   THEN done.last_expire ELSE upacket.tv
  /\ requests = Atomic!Swept(upacket.tv)
  /\ printed = NULL

\* Which way the packet goes, and what syn_tab becomes after the first and after
\* the second assignment of stats_incr.
Dir == Atomic!packet_direction(upacket)
Half == IF Dir = RequestDir
        THEN [done.syn_tab EXCEPT ![upacket.dst].requests = @ + 1]
        ELSE [done.syn_tab EXCEPT ![upacket.src].responses = @ + 1]
Full == IF Dir = RequestDir THEN Atomic!Counted(upacket.dst, TRUE, upacket)
                            ELSE Atomic!Counted(upacket.src, FALSE, upacket)
Sampled == [Full EXCEPT ![upacket.src] = stats_observer_latency(@, Delta)]

\* Which packets reach a step, and what syn_tab has become on the way.
Progress ==
  /\ IF pc \in {"syn", "register"}
     THEN upacket.payload_size = 0 /\ upacket.syn
     ELSE upacket.payload_size # 0
  /\ pc \in {"syn", "register", "direction", "count"} => syn_tab = done.syn_tab
  /\ pc = "bytes" => Dir # Unknown /\ syn_tab = Half
  /\ pc = "request" => Dir = RequestDir /\ syn_tab = Full
  /\ pc \in {"response", "observe"} => Dir = Response /\ syn_tab = Full
  /\ pc = "report" => Dir = Response /\ syn_tab = Sampled
  /\ pc \in {"observe", "report"} => Pending # NULL

Steps == {"idle", "syn", "register", "direction", "count", "bytes", "request",
          "response", "observe", "report"}

\* How the state of the running handler follows from that of the last one.
DoneInv ==
  /\ pc \in Steps
  /\ IF pc = Idle THEN done = State ELSE Begun /\ Progress

SharedInv ==
  TypeOK /\ Atomic!TypeOK /\ LockInv /\ WalkInv /\ ReplyBehind /\ DoneInv

-----------------------------------------------------------------------------
(* Counters only grow *)

LEMMA GrowsReflexive == \A st \in QueryStats : Grows(st, st)
BY DEF QueryStats, Grows, Buckets

LEMMA GrowsTransitive ==
  ASSUME NEW a \in QueryStats, NEW b \in QueryStats, NEW c \in QueryStats,
         Grows(a, b), Grows(b, c)
  PROVE  Grows(a, c)
<1>1. /\ a.requests <= c.requests /\ a.request_bytes <= c.request_bytes
      /\ a.responses <= c.responses /\ a.response_bytes <= c.response_bytes
  BY DEF QueryStats, Grows
<1>2. /\ a.buckets \in [Buckets -> Nat] /\ b.buckets \in [Buckets -> Nat]
      /\ c.buckets \in [Buckets -> Nat]
  BY DEF QueryStats
<1>3. ASSUME NEW i \in Buckets PROVE a.buckets[i] <= c.buckets[i]
  <2>1. a.buckets[i] <= b.buckets[i] /\ b.buckets[i] <= c.buckets[i]
    BY DEF Grows
  <2>2. a.buckets[i] \in Nat /\ b.buckets[i] \in Nat /\ c.buckets[i] \in Nat
    BY <1>2
  <2> QED BY <2>1, <2>2
<1> QED BY <1>1, <1>3 DEF Grows

\* Each assignment of the critical sections makes the counters grow.
LEMMA AssignmentsGrow ==
  ASSUME NEW st \in QueryStats
  PROVE  /\ \A v \in Nat : v >= st.requests => Grows(st, [st EXCEPT !.requests = v])
         /\ \A v \in Nat : v >= st.request_bytes =>
                             Grows(st, [st EXCEPT !.request_bytes = v])
         /\ \A v \in Nat : v >= st.responses => Grows(st, [st EXCEPT !.responses = v])
         /\ \A v \in Nat : v >= st.response_bytes =>
                             Grows(st, [st EXCEPT !.response_bytes = v])
         /\ \A d \in Int : Grows(st, stats_observer_latency(st, d))
<1>1. \A i \in Buckets : st.buckets[i] \in Nat
  BY DEF QueryStats
<1>2. \A v \in Nat : v >= st.requests => Grows(st, [st EXCEPT !.requests = v])
  BY <1>1 DEF QueryStats, Grows
<1>3. \A v \in Nat : v >= st.request_bytes =>
                       Grows(st, [st EXCEPT !.request_bytes = v])
  BY <1>1 DEF QueryStats, Grows
<1>4. \A v \in Nat : v >= st.responses => Grows(st, [st EXCEPT !.responses = v])
  BY <1>1 DEF QueryStats, Grows
<1>5. \A v \in Nat : v >= st.response_bytes =>
                       Grows(st, [st EXCEPT !.response_bytes = v])
  BY <1>1 DEF QueryStats, Grows
<1>6. ASSUME NEW d \in Int PROVE Grows(st, stats_observer_latency(st, d))
  <2> DEFINE new == [i \in Buckets |-> IF LandsIn(i, Clamped(d))
                                       THEN st.buckets[i] + 1
                                       ELSE st.buckets[i]]
  <2>1. stats_observer_latency(st, d) = [st EXCEPT !.buckets = new]
    BY DEF stats_observer_latency
  <2>2. \A i \in Buckets : st.buckets[i] <= new[i]
    BY <1>1
  <2> HIDE DEF new
  <2> QED BY <2>1, <2>2 DEF QueryStats, Grows
<1> QED BY <1>2, <1>3, <1>4, <1>5, <1>6

\* A table with one entry assigned.
LEMMA AssignEntry ==
  ASSUME NEW s \in Tables, NEW e \in Endpoints, NEW q \in QueryStats,
         s[e] # NULL => Grows(s[e], q)
  PROVE  /\ [s EXCEPT ![e] = q] \in Tables
         /\ Leq(s, [s EXCEPT ![e] = q])
<1>1. [s EXCEPT ![e] = q] \in Tables
  BY DEF Tables
<1>2. ASSUME NEW x \in Entries(s)
      PROVE  [s EXCEPT ![e] = q][x] # NULL /\ Grows(s[x], [s EXCEPT ![e] = q][x])
  <2>1. x \in Endpoints /\ s[x] # NULL /\ s[x] \in QueryStats
    BY DEF Entries, Tables
  <2>2. CASE x = e
    <3>1. [s EXCEPT ![e] = q][x] = q
      BY <2>2 DEF Tables
    <3> QED BY <2>1, <2>2, <3>1, NullAssumption
  <2>3. CASE x # e
    <3>1. [s EXCEPT ![e] = q][x] = s[x]
      BY <2>1, <2>3 DEF Tables
    <3> QED BY <2>1, <3>1, GrowsReflexive
  <2> QED BY <2>2, <2>3
<1> QED BY <1>1, <1>2 DEF Leq

LEMMA LeqReflexive == \A s \in Tables : Leq(s, s)
BY GrowsReflexive DEF Leq, Entries, Tables

LEMMA LeqTransitive ==
  ASSUME NEW r \in Tables, NEW s \in Tables, NEW t \in Tables, Leq(r, s), Leq(s, t)
  PROVE  Leq(r, t)
<1> SUFFICES ASSUME NEW e \in Entries(r)
             PROVE  t[e] # NULL /\ Grows(r[e], t[e])
  BY DEF Leq
<1>1. e \in Endpoints /\ r[e] # NULL /\ s[e] # NULL /\ Grows(r[e], s[e])
  BY DEF Leq, Entries, Tables
<1>2. t[e] # NULL /\ Grows(s[e], t[e])
  BY <1>1 DEF Leq, Entries, Tables
<1>3. r[e] \in QueryStats /\ s[e] \in QueryStats /\ t[e] \in QueryStats
  BY <1>1, <1>2 DEF Tables
<1> QED BY <1>1, <1>2, <1>3, GrowsTransitive

-----------------------------------------------------------------------------
(* The steps of the capture thread *)

\* What the capture thread's steps have to keep, and that counters only grow.
CaptureInv == TypeOK /\ Atomic!TypeOK /\ DoneInv
CaptureKept == CaptureInv' /\ Leq(syn_tab, syn_tab')

\* The packet in hand.
LEMMA InHand ==
  ASSUME DoneInv, pc # Idle
  PROVE  /\ Begun /\ Progress
         /\ upacket \in Packets
         /\ upacket.src \in Endpoints /\ upacket.dst \in Endpoints
         /\ upacket.size \in Nat /\ upacket.tv \in Nat /\ upacket.tv \in Times
         /\ upacket.ack \in BOOLEAN
BY TimeAssumption, SizeAssumption DEF DoneInv, Begun, Packets

LEMMA DoneTyped ==
  ASSUME Atomic!TypeOK, TypeOK', done' = done \/ done' = State'
  PROVE  Atomic!TypeOK'
BY SMTT(30) DEF Atomic!TypeOK, TypeOK, State, Atomic!Conns, Atomic!Request, Atomic!QueryStats,
       Atomic!Buckets, Conns, Request, QueryStats, Buckets

\* A step inside the handler that changes nothing of Tracker's state but
\* syn_tab, and has its table.
LEMMA GotoTyped ==
  ASSUME TypeOK, Atomic!TypeOK, syn_tab' \in Tables,
         UNCHANGED <<requests, expire_primed, last_expire, printed, newest, npackets>>,
         done' = done \/ done' = State'
  PROVE  TypeOK' /\ Atomic!TypeOK'
<1>1. TypeOK'
  BY DEF TypeOK, Tables
<1> QED BY <1>1, DoneTyped

\* The handler goes on with the same packet.
LEMMA SameHandler ==
  ASSUME DoneInv, pc # Idle, UNCHANGED <<upacket, done>>,
         UNCHANGED <<requests, expire_primed, last_expire, printed, newest, npackets>>
  PROVE  /\ Begun'
         /\ Dir' = Dir /\ Half' = Half /\ Full' = Full /\ Pending' = Pending
         /\ Sampled' = Sampled
<1>1. Begun
  BY InHand
<1>2. Atomic!SweepDue(upacket.tv)' = Atomic!SweepDue(upacket.tv)
  BY DEF Atomic!SweepDue, Atomic!tv_delta_us
<1>3. Atomic!Swept(upacket.tv)' = Atomic!Swept(upacket.tv)
  BY <1>2 DEF Atomic!Swept, Atomic!requests_expire, Atomic!hashtable_sweep,
              Atomic!Entries, Atomic!request_expired, Atomic!tv_delta_us
<1>4. Begun'
  BY <1>1, <1>2, <1>3 DEF Begun
<1>5. Dir' = Dir
  BY DEF Dir, Atomic!packet_direction, Atomic!hashtable_get
<1>6. Half' = Half
  BY <1>5 DEF Half
<1>7. Full' = Full
  BY <1>5 DEF Full, Atomic!Counted, Atomic!stats_incr
<1>8. Pending' = Pending /\ Delta' = Delta
  BY DEF Pending, Delta, hashtable_get, ResponseKey, tv_delta_us
<1>9. Sampled' = Sampled
  BY <1>7, <1>8 DEF Sampled, stats_observer_latency
<1> QED BY <1>4, <1>5, <1>6, <1>7, <1>8, <1>9

LEMMA SynLockKept == CaptureInv /\ SynLock => CaptureKept
<1> SUFFICES ASSUME CaptureInv, SynLock PROVE CaptureKept
  OBVIOUS
<1>1. TypeOK' /\ Atomic!TypeOK'
  BY GotoTyped DEF CaptureInv, SynLock, Goto, vars, trackerVars, TypeOK, Tables
<1>2. Begun' /\ Progress
  BY SameHandler, InHand DEF CaptureInv, SynLock, Goto, vars, trackerVars, Idle
<1>3. DoneInv'
  BY <1>2 DEF DoneInv, SynLock, Goto, Progress, vars, trackerVars, Idle, Steps
<1>4. Leq(syn_tab, syn_tab')
  BY LeqReflexive DEF CaptureInv, TypeOK, Tables, SynLock, vars, trackerVars
<1> QED BY <1>1, <1>3, <1>4 DEF CaptureKept, CaptureInv

LEMMA DirectionLockKept == CaptureInv /\ DirectionLock => CaptureKept
<1> SUFFICES ASSUME CaptureInv, DirectionLock PROVE CaptureKept
  OBVIOUS
<1>1. TypeOK' /\ Atomic!TypeOK'
  BY GotoTyped DEF CaptureInv, DirectionLock, Goto, vars, trackerVars, TypeOK, Tables
<1>2. Begun' /\ Progress
  BY SameHandler, InHand DEF CaptureInv, DirectionLock, Goto, vars, trackerVars, Idle
<1>3. DoneInv'
  BY <1>2 DEF DoneInv, DirectionLock, Goto, Progress, vars, trackerVars, Idle, Steps
<1>4. Leq(syn_tab, syn_tab')
  BY LeqReflexive DEF CaptureInv, TypeOK, Tables, DirectionLock, vars, trackerVars
<1> QED BY <1>1, <1>3, <1>4 DEF CaptureKept, CaptureInv

\* The handler returns.
LEMMA Returned ==
  ASSUME Return
  PROVE  DoneInv'
BY DEF Return, DoneInv, Steps, Idle

\* What the sweep computes from the state the last handler left.
LEMMA SameSweep ==
  ASSUME NEW now, done = State
  PROVE  /\ Atomic!SweepDue(now) = SweepDue(now)
         /\ Atomic!Swept(now) = Swept(now)
<1>1. Atomic!SweepDue(now) = SweepDue(now)
  BY DEF Atomic!SweepDue, SweepDue, Atomic!tv_delta_us, tv_delta_us, State
<1>2. done.requests = requests
  BY DEF State
<1> QED
  BY <1>1, <1>2
     DEF Atomic!Swept, Swept, Atomic!requests_expire, requests_expire,
         Atomic!hashtable_sweep, hashtable_sweep, Atomic!Entries, Entries,
         Atomic!request_expired, request_expired, Atomic!tv_delta_us, tv_delta_us

LEMMA ReceiveKept ==
  ASSUME CaptureInv, NEW p \in Packets, Receive(p)
  PROVE  CaptureKept
<1>1. /\ p.tv \in Times /\ p.tv \in Nat
      /\ p.payload_size \in {0, 1} /\ {p.syn} \subseteq BOOLEAN
  BY TimeAssumption DEF Packets
<1>2. /\ pc = Idle /\ done = State /\ TypeOK
      /\ requests' = Swept(p.tv) /\ printed' = NULL /\ syn_tab' = syn_tab
      /\ npackets' = npackets + 1 /\ npackets < MaxPackets
      /\ p.tv >= newest - MaxSkew
      /\ newest' = IF p.tv > newest THEN p.tv ELSE newest
      /\ expire_primed' = TRUE
      /\ last_expire' = IF expire_primed /\ ~SweepDue(p.tv) THEN last_expire ELSE p.tv
  BY DEF CaptureInv, DoneInv, Receive, Arrive, expire_stale_requests
<1>3. TypeOK'
  <2>1. requests' \in [Conns -> Request \cup {NULL}]
    BY <1>1, <1>2, SweptFacts
  <2> QED BY <1>1, <1>2, <2>1 DEF TypeOK
<1>4. done' = done \/ done' = State'
  BY DEF Receive, Return
<1>5. Atomic!TypeOK'
  BY <1>3, <1>4, DoneTyped DEF CaptureInv
<1>6. DoneInv'
  <2>1. CASE p.payload_size = 0 /\ ~p.syn
    BY <2>1, Returned DEF Receive
  <2>2. CASE ~(p.payload_size = 0 /\ ~p.syn)
    <3>1. /\ upacket' = p /\ done' = done
          /\ pc' = IF p.payload_size = 0 THEN "syn" ELSE "direction"
      BY <2>2 DEF Receive
    <3>2. /\ Atomic!SweepDue(p.tv) = SweepDue(p.tv)
          /\ Atomic!Swept(p.tv) = Swept(p.tv)
      BY <1>2, SameSweep
    <3>3. /\ Atomic!SweepDue(upacket.tv)' = Atomic!SweepDue(p.tv)
          /\ Atomic!Swept(upacket.tv)' = Atomic!Swept(p.tv)
      BY <3>1 DEF Atomic!SweepDue, Atomic!Swept, Atomic!requests_expire,
           Atomic!hashtable_sweep, Atomic!Entries, Atomic!request_expired,
           Atomic!tv_delta_us
    <3>4. /\ done.npackets = npackets /\ done.newest = newest
          /\ done.expire_primed = expire_primed /\ done.last_expire = last_expire
          /\ done.syn_tab = syn_tab
      BY <1>2 DEF State
    <3>5. Begun'
      BY <1>2, <3>1, <3>2, <3>3, <3>4 DEF Begun
    <3>6. Progress'
      BY <1>1, <1>2, <2>2, <3>1, <3>4 DEF Progress
    <3> QED BY <3>1, <3>5, <3>6 DEF DoneInv, Steps, Idle
  <2> QED BY <2>1, <2>2
<1>7. Leq(syn_tab, syn_tab')
  BY <1>2, LeqReflexive DEF TypeOK, Tables
<1> QED BY <1>3, <1>5, <1>6, <1>7 DEF CaptureKept, CaptureInv

LEMMA RegisterKept ==
  ASSUME CaptureInv, NEW ok \in BOOLEAN, Register(ok)
  PROVE  CaptureKept
<1>1. /\ TypeOK /\ Atomic!TypeOK /\ syn_tab \in Tables
      /\ upacket.src \in Endpoints /\ upacket.dst \in Endpoints
      /\ upacket.ack \in BOOLEAN
  BY InHand DEF CaptureInv, Register, Idle, TypeOK, Tables
<1>2. ServerEnd(upacket) \in Endpoints
  BY <1>1 DEF ServerEnd
<1>3. CASE syn_tab' = syn_tab
  BY <1>1, <1>3, LeqReflexive, GotoTyped, Returned
     DEF Register, Return, CaptureKept, CaptureInv
<1>4. CASE /\ syn_tab[ServerEnd(upacket)] = NULL
           /\ syn_tab' = [syn_tab EXCEPT ![ServerEnd(upacket)] = NewStats]
  <2>1. syn_tab' \in Tables /\ Leq(syn_tab, syn_tab')
    BY <1>1, <1>2, <1>4, AssignEntry, StatsTypes
  <2> QED BY <1>1, <2>1, GotoTyped, Returned
          DEF Register, Return, CaptureKept, CaptureInv
<1> QED BY <1>3, <1>4 DEF Register, WithEndpoint, hashtable_get, hashtable_add

LEMMA CountNothingKept == CaptureInv /\ CountNothing => CaptureKept
<1> SUFFICES ASSUME CaptureInv, CountNothing PROVE CaptureKept
  OBVIOUS
<1>1. TypeOK /\ Atomic!TypeOK /\ syn_tab' = syn_tab /\ syn_tab \in Tables
  BY DEF CaptureInv, CountNothing, vars, trackerVars, TypeOK, Tables
<1>2. TypeOK' /\ Atomic!TypeOK'
  BY <1>1, GotoTyped DEF CountNothing, Return, vars, trackerVars
<1> QED BY <1>1, <1>2, LeqReflexive, Returned DEF CountNothing, CaptureKept, CaptureInv

LEMMA NothingPendingKept == CaptureInv /\ NothingPending => CaptureKept
<1> SUFFICES ASSUME CaptureInv, NothingPending PROVE CaptureKept
  OBVIOUS
<1>1. TypeOK /\ Atomic!TypeOK /\ syn_tab' = syn_tab /\ syn_tab \in Tables
  BY DEF CaptureInv, NothingPending, vars, trackerVars, TypeOK, Tables
<1>2. TypeOK' /\ Atomic!TypeOK'
  BY <1>1, GotoTyped DEF NothingPending, Return, vars, trackerVars
<1> QED BY <1>1, <1>2, LeqReflexive, Returned DEF NothingPending, CaptureKept, CaptureInv

LEMMA RecordRequestKept ==
  ASSUME CaptureInv, NEW ok \in BOOLEAN, RecordRequest(ok)
  PROVE  CaptureKept
<1>1. TypeOK /\ Atomic!TypeOK /\ syn_tab' = syn_tab /\ syn_tab \in Tables
  BY DEF CaptureInv, RecordRequest, TypeOK, Tables
<1>2. upacket \in Packets
  BY InHand DEF CaptureInv, RecordRequest, Idle
<1>3. requests' \in [Conns -> Request \cup {NULL}]
  BY <1>1, <1>2, WithRequestFacts DEF RecordRequest, TypeOK
<1>4. TypeOK'
  BY <1>1, <1>3 DEF RecordRequest, TypeOK
<1>5. Atomic!TypeOK'
  BY <1>1, <1>4, DoneTyped DEF RecordRequest, Return
<1> QED BY <1>1, <1>4, <1>5, LeqReflexive, Returned DEF RecordRequest, CaptureKept, CaptureInv

LEMMA ObserveLockKept == CaptureInv /\ ObserveLock => CaptureKept
<1> SUFFICES ASSUME CaptureInv, ObserveLock PROVE CaptureKept
  OBVIOUS
<1>1. TypeOK' /\ Atomic!TypeOK'
  BY GotoTyped DEF CaptureInv, ObserveLock, Goto, vars, trackerVars, TypeOK, Tables
<1>2. Begun' /\ Progress /\ Dir' = Dir /\ Full' = Full /\ Pending' = Pending
  BY SameHandler, InHand DEF CaptureInv, ObserveLock, Goto, vars, trackerVars, Idle
<1>3. DoneInv'
  BY <1>2 DEF DoneInv, ObserveLock, Goto, Progress, vars, trackerVars, Idle, Steps
<1>4. Leq(syn_tab, syn_tab')
  BY LeqReflexive DEF CaptureInv, TypeOK, Tables, ObserveLock, vars, trackerVars
<1> QED BY <1>1, <1>3, <1>4 DEF CaptureKept, CaptureInv

\* The entry a packet is counted for, as a handler that has not counted it yet
\* or has made the first assignment sees it.
LEMMA CountedEntry ==
  ASSUME CaptureInv, pc = "count" \/ pc = "bytes",
         packet_direction(upacket) # Unknown \/ Dir # Unknown
  PROVE  /\ packet_direction(upacket) = Dir
         /\ Dir \in {RequestDir, Response}
         /\ Known = IF Dir = RequestDir THEN upacket.dst ELSE upacket.src
         /\ Known \in Endpoints
         /\ done.syn_tab \in Tables /\ syn_tab \in Tables
         /\ done.syn_tab[Known] \in QueryStats /\ syn_tab[Known] \in QueryStats
<1>1. /\ upacket.src \in Endpoints /\ upacket.dst \in Endpoints /\ Progress
      /\ syn_tab \in Tables /\ done.syn_tab \in Tables
  BY InHand DEF CaptureInv, Idle, TypeOK, Atomic!TypeOK, Tables, QueryStats,
                Atomic!QueryStats, Buckets, Atomic!Buckets
<1>2. Dir = IF done.syn_tab[upacket.src] # NULL THEN Response
            ELSE IF done.syn_tab[upacket.dst] # NULL THEN RequestDir ELSE Unknown
  BY DEF Dir, Atomic!packet_direction, Atomic!hashtable_get, Atomic!Response,
         Atomic!RequestDir, Atomic!Unknown, Response, RequestDir, Unknown
<1>3. packet_direction(upacket) =
        IF syn_tab[upacket.src] # NULL THEN Response
        ELSE IF syn_tab[upacket.dst] # NULL THEN RequestDir ELSE Unknown
  BY DEF packet_direction, hashtable_get
<1>4. \A e \in Endpoints : syn_tab[e] = NULL <=> done.syn_tab[e] = NULL
  <2>1. CASE syn_tab = done.syn_tab
    BY <2>1
  <2>2. CASE Dir # Unknown /\ syn_tab = Half
    <3> DEFINE k == IF Dir = RequestDir THEN upacket.dst ELSE upacket.src
    <3>1. k \in Endpoints /\ done.syn_tab[k] # NULL
      BY <1>1, <1>2, <2>2 DEF Response, RequestDir, Unknown
    <3>2. done.syn_tab[k] \in QueryStats
      BY <1>1, <3>1 DEF Tables
    <3>3. PICK q \in QueryStats : Half = [done.syn_tab EXCEPT ![k] = q]
      <4>1. /\ done.syn_tab[k].requests + 1 \in Nat
            /\ done.syn_tab[k].responses + 1 \in Nat
        BY <3>2 DEF QueryStats
      <4>2. /\ [done.syn_tab[k] EXCEPT !.requests = done.syn_tab[k].requests + 1]
                 \in QueryStats
            /\ [done.syn_tab[k] EXCEPT !.responses = done.syn_tab[k].responses + 1]
                 \in QueryStats
        BY <3>2, <4>1, FieldUpdate
      <4> QED BY <4>2 DEF Half
    <3> HIDE DEF k
    <3> QED BY <1>1, <2>2, <3>1, <3>3, NullAssumption DEF Tables
  <2> QED BY <1>1, <2>1, <2>2 DEF Progress
<1>5. packet_direction(upacket) = Dir
  BY <1>1, <1>2, <1>3, <1>4
<1>6. /\ Dir \in {RequestDir, Response}
      /\ Known = IF Dir = RequestDir THEN upacket.dst ELSE upacket.src
  BY <1>2, <1>5 DEF Known, Response, RequestDir, Unknown
<1>7. Known \in Endpoints /\ done.syn_tab[Known] # NULL
  BY <1>1, <1>2, <1>6 DEF Response, RequestDir, Unknown
<1> QED BY <1>1, <1>4, <1>5, <1>6, <1>7 DEF Tables

LEMMA CountPacketKept == CaptureInv /\ CountPacket => CaptureKept
<1> SUFFICES ASSUME CaptureInv, CountPacket PROVE CaptureKept
  OBVIOUS
<1> DEFINE st == syn_tab[Known]
<1>1. /\ packet_direction(upacket) = Dir /\ Dir \in {RequestDir, Response}
      /\ Known = IF Dir = RequestDir THEN upacket.dst ELSE upacket.src
      /\ Known \in Endpoints /\ syn_tab \in Tables /\ st \in QueryStats
  BY CountedEntry DEF CountPacket
<1>2. Progress /\ pc = "count" /\ syn_tab = done.syn_tab
  BY InHand DEF CaptureInv, CountPacket, Idle, Progress
<1>3. syn_tab' = Half
  BY <1>1, <1>2 DEF CountPacket, IsRequest, Half
<1>4. \E q \in QueryStats : Half = [syn_tab EXCEPT ![Known] = q] /\ Grows(st, q)
  <2>1. /\ st.requests + 1 \in Nat /\ st.requests + 1 >= st.requests
        /\ st.responses + 1 \in Nat /\ st.responses + 1 >= st.responses
    BY <1>1 DEF QueryStats
  <2>2. /\ [st EXCEPT !.requests = st.requests + 1] \in QueryStats
        /\ Grows(st, [st EXCEPT !.requests = st.requests + 1])
        /\ [st EXCEPT !.responses = st.responses + 1] \in QueryStats
        /\ Grows(st, [st EXCEPT !.responses = st.responses + 1])
    BY <1>1, <2>1, FieldUpdate, AssignmentsGrow
  <2>3. CASE Dir = RequestDir
    <3>1. Half = [syn_tab EXCEPT ![Known] = [st EXCEPT !.requests = st.requests + 1]]
      BY <1>1, <1>2, <2>3 DEF Half
    <3> QED BY <2>2, <3>1
  <2>4. CASE Dir # RequestDir
    <3>1. Half = [syn_tab EXCEPT ![Known] = [st EXCEPT !.responses = st.responses + 1]]
      BY <1>1, <1>2, <2>4 DEF Half
    <3> QED BY <2>2, <3>1
  <2> QED BY <2>3, <2>4
<1>5. syn_tab' \in Tables /\ Leq(syn_tab, syn_tab')
  <2>1. PICK q \in QueryStats : Half = [syn_tab EXCEPT ![Known] = q] /\ Grows(st, q)
    BY <1>4
  <2> QED BY <1>1, <1>3, <2>1, AssignEntry
<1>6. TypeOK' /\ Atomic!TypeOK'
  BY <1>5, GotoTyped DEF CaptureInv, CountPacket, Goto
<1>7. Begun' /\ Dir' = Dir /\ Half' = Half
  BY SameHandler DEF CaptureInv, CountPacket, Goto, Idle
<1>8. DoneInv'
  BY <1>1, <1>2, <1>3, <1>7
     DEF DoneInv, CountPacket, Goto, Progress, Idle, Steps, RequestDir, Response, Unknown
<1> QED BY <1>5, <1>6, <1>8 DEF CaptureKept, CaptureInv

\* The two assignments of stats_incr together.
LEMMA HalfThenFull ==
  ASSUME CaptureInv, pc = "bytes"
  PROVE  Full = IF Dir = RequestDir
                THEN [Half EXCEPT ![Known].request_bytes = @ + upacket.size]
                ELSE [Half EXCEPT ![Known].response_bytes = @ + upacket.size]
<1> DEFINE D == done.syn_tab
           st == D[Known]
           n == upacket.size
<1>1. /\ Dir \in {RequestDir, Response}
      /\ Known = IF Dir = RequestDir THEN upacket.dst ELSE upacket.src
      /\ Known \in Endpoints /\ D \in Tables /\ st \in QueryStats
  BY CountedEntry, InHand DEF CaptureInv, Progress, Idle
<1>2. CASE Dir = RequestDir
  <2> DEFINE q == [st EXCEPT !.requests = st.requests + 1]
             r == [q EXCEPT !.request_bytes = st.request_bytes + n]
  <2>1. Half = [D EXCEPT ![Known] = q]
    BY <1>1, <1>2 DEF Half
  <2>2. Full = [D EXCEPT ![Known] = r]
    BY <1>1, <1>2, Zenon DEF Full, Atomic!Counted, Atomic!stats_incr, QueryStats
  <2>3. q.request_bytes = st.request_bytes
    BY <1>1 DEF QueryStats
  <2>4. Half[Known] = q
    BY <1>1, <2>1 DEF Tables
  <2> HIDE DEF q, D
  <2>5. [Half EXCEPT ![Known].request_bytes = @ + n] = [Half EXCEPT ![Known] = r]
    BY <2>3, <2>4
  <2> HIDE DEF r
  <2>6. [Half EXCEPT ![Known] = r] = [D EXCEPT ![Known] = r]
    BY <1>1, <2>1 DEF Tables
  <2> QED BY <1>2, <2>2, <2>5, <2>6
<1>3. CASE Dir # RequestDir
  <2> DEFINE q == [st EXCEPT !.responses = st.responses + 1]
             r == [q EXCEPT !.response_bytes = st.response_bytes + n]
  <2>1. Half = [D EXCEPT ![Known] = q]
    BY <1>1, <1>3 DEF Half
  <2>2. Full = [D EXCEPT ![Known] = r]
    BY <1>1, <1>3, Zenon DEF Full, Atomic!Counted, Atomic!stats_incr, QueryStats
  <2>3. q.response_bytes = st.response_bytes
    BY <1>1 DEF QueryStats
  <2>4. Half[Known] = q
    BY <1>1, <2>1 DEF Tables
  <2> HIDE DEF q, D
  <2>5. [Half EXCEPT ![Known].response_bytes = @ + n] = [Half EXCEPT ![Known] = r]
    BY <2>3, <2>4
  <2> HIDE DEF r
  <2>6. [Half EXCEPT ![Known] = r] = [D EXCEPT ![Known] = r]
    BY <1>1, <2>1 DEF Tables
  <2> QED BY <1>3, <2>2, <2>5, <2>6
<1> QED BY <1>2, <1>3

LEMMA CountBytesKept == CaptureInv /\ CountBytes => CaptureKept
<1> SUFFICES ASSUME CaptureInv, CountBytes PROVE CaptureKept
  OBVIOUS
<1> DEFINE st == syn_tab[Known]
           n == upacket.size
<1>1. pc = "bytes" /\ Progress /\ Dir # Unknown /\ syn_tab = Half /\ n \in Nat
  BY InHand DEF CaptureInv, CountBytes, Idle, Progress
<1>2. /\ packet_direction(upacket) = Dir /\ Dir \in {RequestDir, Response}
      /\ Known \in Endpoints /\ syn_tab \in Tables /\ st \in QueryStats
  BY <1>1, CountedEntry
<1>3. syn_tab' = Full
  BY <1>1, <1>2, HalfThenFull DEF CountBytes, IsRequest
<1>4. \E q \in QueryStats : Full = [syn_tab EXCEPT ![Known] = q] /\ Grows(st, q)
  <2>1. /\ st.request_bytes + n \in Nat /\ st.request_bytes + n >= st.request_bytes
        /\ st.response_bytes + n \in Nat /\ st.response_bytes + n >= st.response_bytes
    BY <1>1, <1>2 DEF QueryStats
  <2>2. /\ [st EXCEPT !.request_bytes = st.request_bytes + n] \in QueryStats
        /\ Grows(st, [st EXCEPT !.request_bytes = st.request_bytes + n])
        /\ [st EXCEPT !.response_bytes = st.response_bytes + n] \in QueryStats
        /\ Grows(st, [st EXCEPT !.response_bytes = st.response_bytes + n])
    BY <1>2, <2>1, FieldUpdate, AssignmentsGrow
  <2>3. CASE Dir = RequestDir
    <3>1. Full = [syn_tab EXCEPT ![Known] =
                    [st EXCEPT !.request_bytes = st.request_bytes + n]]
      BY <1>1, <2>3, HalfThenFull
    <3> QED BY <2>2, <3>1
  <2>4. CASE Dir # RequestDir
    <3>1. Full = [syn_tab EXCEPT ![Known] =
                    [st EXCEPT !.response_bytes = st.response_bytes + n]]
      BY <1>1, <2>4, HalfThenFull
    <3> QED BY <2>2, <3>1
  <2> QED BY <2>3, <2>4
<1>5. syn_tab' \in Tables /\ Leq(syn_tab, syn_tab')
  <2>1. PICK q \in QueryStats : Full = [syn_tab EXCEPT ![Known] = q] /\ Grows(st, q)
    BY <1>4
  <2> QED BY <1>2, <1>3, <2>1, AssignEntry
<1>6. TypeOK' /\ Atomic!TypeOK'
  BY <1>5, GotoTyped DEF CaptureInv, CountBytes, Goto
<1>7. Begun' /\ Dir' = Dir /\ Full' = Full
  BY SameHandler DEF CaptureInv, CountBytes, Goto, Idle
<1>8. pc' = (IF Dir = RequestDir THEN "request" ELSE "response") /\ upacket' = upacket
  BY <1>2 DEF CountBytes, Goto, IsRequest
<1>9. DoneInv'
  BY <1>1, <1>2, <1>3, <1>7, <1>8
     DEF DoneInv, Progress, Idle, Steps, RequestDir, Response, Unknown
<1> QED BY <1>5, <1>6, <1>9 DEF CaptureKept, CaptureInv

\* The latency of an answered request is a number.
LEMMA DeltaInt ==
  ASSUME CaptureInv, pc \in {"observe", "report"}
  PROVE  Delta \in Int
<1>1. /\ upacket.src \in Endpoints /\ upacket.dst \in Endpoints
      /\ upacket.tv \in Nat /\ Pending # NULL
  BY InHand DEF CaptureInv, Progress, Idle
<1>2. <<upacket.dst, upacket.src>> \in Conns
  BY <1>1 DEF Conns
<1>3. Pending \in Request
  BY <1>1, <1>2 DEF Pending, hashtable_get, ResponseKey, CaptureInv, TypeOK
<1>4. Pending.tv \in Nat
  BY <1>3, TimeAssumption DEF Request
<1> QED BY <1>1, <1>4 DEF Delta, tv_delta_us

\* A response comes from an endpoint that is registered when it is counted and
\* still is when its latency is observed.
LEMMA StillThere ==
  ASSUME CaptureInv, pc = "observe"
  PROVE  /\ upacket.src \in Endpoints /\ syn_tab \in Tables
         /\ syn_tab[upacket.src] \in QueryStats
<1>1. /\ upacket.src \in Endpoints /\ upacket.size \in Nat
      /\ Dir = Response /\ syn_tab = Full
  BY InHand DEF CaptureInv, Progress, Idle
<1>2. syn_tab \in Tables /\ done.syn_tab \in Tables
  BY DEF CaptureInv, TypeOK, Atomic!TypeOK, Tables, QueryStats, Atomic!QueryStats,
         Buckets, Atomic!Buckets
<1>3. done.syn_tab[upacket.src] # NULL
  BY <1>1 DEF Dir, Atomic!packet_direction, Atomic!hashtable_get, Atomic!RequestDir,
              Atomic!Response, Atomic!Unknown, Response
<1>4. done.syn_tab[upacket.src] \in QueryStats
  BY <1>1, <1>2, <1>3 DEF Tables
<1>5. syn_tab = [done.syn_tab EXCEPT ![upacket.src] =
                   stats_incr(done.syn_tab[upacket.src], FALSE, upacket.size)]
  BY <1>1 DEF Full, Atomic!Counted, Atomic!stats_incr, stats_incr, Response, RequestDir
<1>6. syn_tab[upacket.src] = stats_incr(done.syn_tab[upacket.src], FALSE, upacket.size)
  BY <1>1, <1>2, <1>5 DEF Tables
<1> QED BY <1>1, <1>2, <1>4, <1>6, StatsTypes

LEMMA ObserveKept == CaptureInv /\ Observe => CaptureKept
<1> SUFFICES ASSUME CaptureInv, Observe PROVE CaptureKept
  OBVIOUS
<1> DEFINE st == syn_tab[upacket.src]
<1>1. pc = "observe" /\ Progress /\ Dir = Response /\ syn_tab = Full
  BY InHand DEF CaptureInv, Observe, Idle, Progress
<1>2. upacket.src \in Endpoints /\ syn_tab \in Tables /\ st \in QueryStats
  BY <1>1, StillThere
<1>3. Delta \in Int
  BY <1>1, DeltaInt
<1>4. syn_tab' = [syn_tab EXCEPT ![upacket.src] = stats_observer_latency(st, Delta)]
  BY <1>2, NullAssumption DEF Observe, hashtable_get
<1>5. syn_tab' \in Tables /\ Leq(syn_tab, syn_tab')
  BY <1>2, <1>3, <1>4, StatsTypes, AssignmentsGrow, AssignEntry
<1>6. TypeOK' /\ Atomic!TypeOK'
  BY <1>5, GotoTyped DEF CaptureInv, Observe, Goto
<1>7. /\ Begun' /\ Dir' = Dir /\ Full' = Full /\ Pending' = Pending
      /\ Sampled' = Sampled
  BY SameHandler DEF CaptureInv, Observe, Goto, Idle
<1>8. syn_tab' = Sampled
  BY <1>1, <1>4 DEF Sampled
<1>9. DoneInv'
  BY <1>1, <1>7, <1>8
     DEF DoneInv, Observe, Goto, Progress, Idle, Steps, RequestDir, Response, Unknown
<1> QED BY <1>5, <1>6, <1>9 DEF CaptureKept, CaptureInv

LEMMA ReportKept == CaptureInv /\ Report => CaptureKept
<1> SUFFICES ASSUME CaptureInv, Report PROVE CaptureKept
  OBVIOUS
<1>1. TypeOK /\ Atomic!TypeOK /\ syn_tab' = syn_tab /\ syn_tab \in Tables
  BY DEF CaptureInv, Report, TypeOK, Tables
<1>2. Delta \in Int
  BY DeltaInt DEF Report
<1>3. printed' \in Int \cup {NULL}
  BY <1>2 DEF Report, Line
<1>4. requests' \in [Conns -> Request \cup {NULL}]
  BY <1>1 DEF Report, Answered, hashtable_del, TypeOK
<1>5. TypeOK'
  BY <1>1, <1>3, <1>4 DEF Report, TypeOK
<1>6. Atomic!TypeOK'
  BY <1>1, <1>5, DoneTyped DEF Report, Return
<1> QED BY <1>1, <1>5, <1>6, LeqReflexive, Returned DEF Report, CaptureKept, CaptureInv

\* A step of the capture thread, the arrival of a packet included.
Capturing == (\E p \in Packets : Receive(p)) \/ CaptureStep

LEMMA CapturingKept == CaptureInv /\ Capturing => CaptureKept
BY ReceiveKept, SynLockKept, RegisterKept, DirectionLockKept, CountNothingKept,
   CountPacketKept, CountBytesKept, RecordRequestKept, NothingPendingKept,
   ObserveLockKept, ObserveKept, ReportKept
   DEF Capturing, CaptureStep

-----------------------------------------------------------------------------
(* The lock *)

\* A step of the stats thread.
Serving == Accept \/ StatsStep

\* The stats thread changes nothing of the capture thread's.
LEMMA ServingFrame ==
  Serving => UNCHANGED <<vars, captureVars>>
BY DEF Serving, Accept, StatsStep, WalkLock, Walk, Publish

\* The capture thread changes nothing of the stats thread's.
LEMMA CapturingFrame == Capturing => UNCHANGED statsVars
BY DEF Capturing, Receive, CaptureStep, SynLock, Register, DirectionLock, CountNothing,
       CountPacket, CountBytes, RecordRequest, NothingPending, ObserveLock, Observe,
       Report

LEMMA UnchangedKept ==
  CaptureInv /\ UNCHANGED <<vars, captureVars>> => CaptureKept
<1> SUFFICES ASSUME CaptureInv, UNCHANGED <<vars, captureVars>> PROVE CaptureKept
  OBVIOUS
<1>1. /\ UNCHANGED <<syn_tab, requests, expire_primed, last_expire, printed, newest,
                     npackets, pc, upacket, done>>
      /\ syn_tab \in Tables
  BY DEF vars, trackerVars, captureVars, CaptureInv, TypeOK, Tables
<1>2. TypeOK' /\ Atomic!TypeOK'
  BY <1>1, GotoTyped DEF CaptureInv
<1>3. DoneInv'
  <2>1. CASE pc = Idle
    BY <1>1, <2>1 DEF CaptureInv, DoneInv, State, Idle
  <2>2. CASE pc # Idle
    <3>1. /\ Begun' /\ Dir' = Dir /\ Half' = Half /\ Full' = Full
          /\ Pending' = Pending /\ Sampled' = Sampled
      BY <1>1, <2>2, SameHandler DEF CaptureInv
    <3>2. Progress
      BY <2>2, InHand DEF CaptureInv
    <3>3. Progress'
      BY <1>1, <3>1, <3>2 DEF Progress
    <3> QED BY <1>1, <2>2, <3>1, <3>3 DEF CaptureInv, DoneInv, Idle
  <2> QED BY <2>1, <2>2
<1> QED BY <1>1, <1>2, <1>3, LeqReflexive DEF CaptureKept, CaptureInv

LEMMA CapturingLock == LockInv /\ Capturing => LockInv'
<1> SUFFICES ASSUME LockInv, Capturing PROVE LockInv'
  OBVIOUS
<1> USE ThreadAssumption DEF LockInv, Critical, statsVars, Goto, Return,
        sniffer_stats_lock, sniffer_stats_unlock
<1>1. CASE \E p \in Packets : Receive(p)
  BY <1>1 DEF Receive, Idle
<1>2. CASE SynLock
  BY <1>2 DEF SynLock
<1>3. CASE \E ok \in BOOLEAN : Register(ok)
  BY <1>3 DEF Register, Idle
<1>4. CASE DirectionLock
  BY <1>4 DEF DirectionLock
<1>5. CASE CountNothing
  BY <1>5 DEF CountNothing, Idle
<1>6. CASE CountPacket
  BY <1>6 DEF CountPacket
<1>7. CASE CountBytes
  BY <1>7 DEF CountBytes
<1>8. CASE \E ok \in BOOLEAN : RecordRequest(ok)
  BY <1>8 DEF RecordRequest, Idle
<1>9. CASE NothingPending
  BY <1>9 DEF NothingPending, Idle
<1>10. CASE ObserveLock
  BY <1>10 DEF ObserveLock
<1>11. CASE Observe
  BY <1>11 DEF Observe
<1>12. CASE Report
  BY <1>12 DEF Report, Idle
<1> QED BY <1>1, <1>2, <1>3, <1>4, <1>5, <1>6, <1>7, <1>8, <1>9, <1>10, <1>11, <1>12
        DEF Capturing, CaptureStep

LEMMA ServingLock == LockInv /\ Serving => LockInv'
BY ThreadAssumption
   DEF LockInv, Critical, Serving, Accept, StatsStep, WalkLock, Walk, Publish,
       captureVars, sniffer_stats_lock, sniffer_stats_unlock

\* The lock is what keeps syn_tab still during a walk.
LEMMA StillDuringWalk ==
  LockInv /\ statsPc = "walk" /\ Capturing => UNCHANGED syn_tab
BY ThreadAssumption
   DEF LockInv, Critical, Capturing, Receive, CaptureStep, SynLock, Register,
       DirectionLock, CountNothing, CountPacket, CountBytes, RecordRequest,
       NothingPending, ObserveLock, Observe, Report, vars, trackerVars

-----------------------------------------------------------------------------
(* The walk *)

LEMMA CapturingWalk ==
  LockInv /\ WalkInv /\ Capturing => WalkInv'
BY StillDuringWalk, CapturingFrame DEF WalkInv, statsVars

LEMMA ServingWalk ==
  TypeOK /\ LockInv /\ WalkInv /\ ReplyBehind /\ Serving
    => WalkInv' /\ Leq(reply, reply') /\ ReplyBehind'
<1> SUFFICES ASSUME TypeOK, LockInv, WalkInv, ReplyBehind, Serving
             PROVE  WalkInv' /\ Leq(reply, reply') /\ ReplyBehind'
  OBVIOUS
<1>1. syn_tab \in Tables /\ reply \in Tables /\ syn_tab' = syn_tab
  BY ServingFrame DEF TypeOK, WalkInv, Tables, vars, trackerVars
<1>2. CASE Accept
  BY <1>1, <1>2, LeqReflexive DEF Accept, WalkInv, ReplyBehind
<1>3. CASE WalkLock
  <2>1. /\ cut' = syn_tab' /\ statsPc' = "walk" /\ reply' = reply
        /\ todo' = Entries(syn_tab) /\ object' = hashtable_create(Endpoints)
    BY <1>1, <1>3 DEF WalkLock
  <2>2. object' = [e \in Endpoints |-> IF e \in todo' THEN NULL ELSE cut'[e]]
    BY <1>1, <2>1 DEF Entries, hashtable_create, Tables
  <2> QED BY <1>1, <2>1, <2>2, LeqReflexive DEF WalkInv, ReplyBehind
<1>4. CASE \E e \in Endpoints : Walk(e)
  <2>1. PICK e \in Endpoints : Walk(e)
    BY <1>4
  <2>2. /\ object = [x \in Endpoints |-> IF x \in todo THEN NULL ELSE cut[x]]
        /\ cut = syn_tab /\ statsPc = "walk" /\ reply' = reply /\ cut' = cut
        /\ statsPc' = statsPc /\ todo' = todo \ {e}
        /\ object' = [object EXCEPT ![e] = syn_tab[e]]
    BY <2>1 DEF Walk, WalkInv
  <2>3. object' = [x \in Endpoints |-> IF x \in todo' THEN NULL ELSE cut'[x]]
    BY <2>2
  <2> QED BY <1>1, <2>2, <2>3, LeqReflexive DEF WalkInv, ReplyBehind
<1>5. CASE Publish
  <2>1. /\ object = [x \in Endpoints |-> IF x \in todo THEN NULL ELSE cut[x]]
        /\ todo = {} /\ cut = syn_tab /\ reply' = object /\ cut' = cut
        /\ statsPc' = "poll"
    BY <1>5 DEF Publish, WalkInv
  <2>2. object = cut
    BY <1>1, <2>1 DEF Tables
  <2> QED BY <1>1, <2>1, <2>2, LeqReflexive DEF WalkInv, ReplyBehind
<1> QED BY <1>2, <1>3, <1>4, <1>5 DEF Serving, StatsStep

-----------------------------------------------------------------------------
(* The invariant holds *)

LEMMA SharedInvInit == SharedInit => SharedInv
<1> SUFFICES ASSUME SharedInit PROVE SharedInv
  OBVIOUS
<1>1. TypeOK
  BY TypeInit DEF SharedInit
<1>2. Atomic!TypeOK
  BY <1>1 DEF SharedInit, State, TypeOK, Atomic!TypeOK, Conns, Atomic!Conns, Request,
              Atomic!Request, QueryStats, Atomic!QueryStats, Buckets, Atomic!Buckets
<1>3. LockInv
  BY ThreadAssumption DEF SharedInit, LockInv, Critical, Idle
<1>4. WalkInv
  BY DEF SharedInit, WalkInv, hashtable_create, Tables
<1>5. ReplyBehind
  BY DEF SharedInit, ReplyBehind, Leq, Entries, hashtable_create
<1>6. DoneInv
  BY DEF SharedInit, DoneInv, Steps, Idle
<1> QED BY <1>1, <1>2, <1>3, <1>4, <1>5, <1>6 DEF SharedInv

LEMMA SharedInvStep ==
  SharedInv /\ [SharedNext]_sharedVars => SharedInv' /\ Leq(reply, reply')
<1> SUFFICES ASSUME SharedInv, [SharedNext]_sharedVars
             PROVE  SharedInv' /\ Leq(reply, reply')
  OBVIOUS
<1>1. CaptureInv /\ TypeOK /\ LockInv /\ WalkInv /\ ReplyBehind /\ reply \in Tables
      /\ syn_tab \in Tables
  BY DEF SharedInv, CaptureInv, WalkInv, TypeOK, Tables
<1>2. CASE Capturing
  <2>1. CaptureKept /\ LockInv' /\ WalkInv' /\ reply' = reply
    BY <1>1, <1>2, CapturingKept, CapturingLock, CapturingWalk, CapturingFrame
       DEF statsVars
  <2>2. syn_tab' \in Tables /\ Leq(syn_tab, syn_tab')
    BY <2>1 DEF CaptureKept, CaptureInv, TypeOK, Tables
  <2>3. ReplyBehind'
    BY <1>1, <2>1, <2>2, LeqTransitive DEF ReplyBehind
  <2> QED BY <1>1, <2>1, <2>3, LeqReflexive DEF SharedInv, CaptureKept, CaptureInv
<1>3. CASE Serving
  <2>1. CaptureKept
    BY <1>1, <1>3, ServingFrame, UnchangedKept
  <2> QED BY <1>1, <1>3, <2>1, ServingLock, ServingWalk
          DEF SharedInv, CaptureKept, CaptureInv
<1>4. CASE UNCHANGED sharedVars
  <2>1. UNCHANGED <<vars, captureVars>> /\ UNCHANGED <<stats_lock, statsVars>>
    BY <1>4 DEF sharedVars
  <2>2. CaptureKept
    BY <1>1, <2>1, UnchangedKept
  <2>3. LockInv' /\ WalkInv' /\ ReplyBehind' /\ reply' = reply
    BY <1>1, <2>1
       DEF LockInv, WalkInv, ReplyBehind, statsVars, captureVars, vars, trackerVars
  <2> QED BY <1>1, <2>2, <2>3, LeqReflexive DEF SharedInv, CaptureKept, CaptureInv
<1> QED BY <1>2, <1>3, <1>4 DEF SharedNext, Capturing, Serving

LEMMA SharedInvariant == SharedSpec => []SharedInv
BY SharedInvInit, SharedInvStep, PTL DEF SharedSpec

\* A reply is syn_tab as it was at one instant, for every set of endpoints and
\* however the packets and the clients come: the lock of server_stats_to_json
\* covers the whole walk, and no counter is assigned without it.
THEOREM ReplyIsACutHolds == SharedSpec => []ReplyIsACut
<1>1. SharedInv => ReplyIsACut
  BY DEF SharedInv, WalkInv, ReplyIsACut
<1> QED BY <1>1, SharedInvariant, PTL

\* A client that asks again is served every endpoint it was served before, and
\* no counter has gone back.
THEOREM RepliesGrowHolds == SharedSpec => RepliesGrow
<1>1. SharedInv /\ [SharedNext]_sharedVars =>
        [\A e \in Entries(reply) :
           /\ reply'[e] # NULL
           /\ reply[e].requests <= reply'[e].requests
           /\ reply[e].request_bytes <= reply'[e].request_bytes
           /\ reply[e].responses <= reply'[e].responses
           /\ reply[e].response_bytes <= reply'[e].response_bytes
           /\ \A i \in Buckets : reply[e].buckets[i] <= reply'[e].buckets[i]
        ]_sharedVars
  BY SharedInvStep DEF Leq, Grows
<1> QED BY <1>1, SharedInvariant, PTL DEF SharedSpec, RepliesGrow

-----------------------------------------------------------------------------
(* The two threads implement Tracker *)

\* A handler that returns makes the step of the clock and of the sweeper.
LEMMA ReturnArrives ==
  ASSUME Begun, Return, UNCHANGED <<newest, npackets, expire_primed, last_expire>>
  PROVE  Atomic!Arrive(upacket) /\ Atomic!expire_stale_requests(upacket.tv)
BY DEF Begun, Return, State, Atomic!Arrive, Atomic!expire_stale_requests

LEMMA ReceiveReturns ==
  ASSUME CaptureInv, NEW p \in Packets, Receive(p), p.payload_size = 0, ~p.syn
  PROVE  Atomic!Arrive(p) /\ Atomic!process_user_packet(p)
<1>1. /\ done = State /\ done' = State'
      /\ Arrive(p) /\ expire_stale_requests(p.tv)
      /\ requests' = Swept(p.tv) /\ printed' = NULL /\ syn_tab' = syn_tab
  BY DEF CaptureInv, DoneInv, Receive, Return
<1>2. /\ Atomic!SweepDue(p.tv) = SweepDue(p.tv)
      /\ Atomic!Swept(p.tv) = Swept(p.tv)
  BY <1>1, SameSweep
<1>3. Atomic!Arrive(p) /\ Atomic!expire_stale_requests(p.tv)
  BY <1>1, <1>2 DEF State, Arrive, expire_stale_requests, Atomic!Arrive,
                    Atomic!expire_stale_requests
<1>4. Atomic!IgnoreEmpty(p)
  BY <1>1, <1>2 DEF State, Atomic!IgnoreEmpty
<1> QED BY <1>3, <1>4 DEF Atomic!process_user_packet

LEMMA RegisterReturns ==
  ASSUME CaptureInv, NEW ok \in BOOLEAN, Register(ok)
  PROVE  Atomic!Arrive(upacket) /\ Atomic!process_user_packet(upacket)
<1>1. /\ Begun /\ upacket.payload_size = 0 /\ upacket.syn /\ syn_tab = done.syn_tab
      /\ requests = Atomic!Swept(upacket.tv) /\ printed = NULL
  BY InHand DEF CaptureInv, Register, Idle, Progress, Begun
<1>2. Atomic!Arrive(upacket) /\ Atomic!expire_stale_requests(upacket.tv)
  BY <1>1, ReturnArrives DEF Register
<1>3. Atomic!RegisterEndpoint(upacket, ok)
  BY <1>1 DEF Register, Return, State, Atomic!RegisterEndpoint, Atomic!WithEndpoint,
              WithEndpoint, Atomic!hashtable_get, hashtable_get, Atomic!hashtable_add,
              hashtable_add, Atomic!ServerEnd, ServerEnd, Atomic!NewStats, NewStats,
              Atomic!Buckets, Buckets
<1> QED BY <1>2, <1>3 DEF Atomic!process_user_packet

LEMMA CountNothingReturns ==
  ASSUME CaptureInv, CountNothing
  PROVE  Atomic!Arrive(upacket) /\ Atomic!process_user_packet(upacket)
<1>1. /\ Begun /\ upacket.payload_size # 0 /\ syn_tab = done.syn_tab
      /\ requests = Atomic!Swept(upacket.tv) /\ printed = NULL
  BY InHand DEF CaptureInv, CountNothing, Idle, Progress, Begun
<1>2. Atomic!Arrive(upacket) /\ Atomic!expire_stale_requests(upacket.tv)
  BY <1>1, ReturnArrives DEF CountNothing, vars, trackerVars
<1>3. Atomic!packet_direction(upacket) = Atomic!Unknown
  BY <1>1 DEF CountNothing, packet_direction, Atomic!packet_direction, hashtable_get,
              Atomic!hashtable_get, Unknown, Atomic!Unknown, Response, Atomic!Response,
              RequestDir, Atomic!RequestDir
<1>4. Atomic!IgnoreUnknown(upacket)
  BY <1>1, <1>3 DEF CountNothing, Return, State, vars, trackerVars, Atomic!IgnoreUnknown
<1> QED BY <1>2, <1>4 DEF Atomic!process_user_packet

LEMMA RecordRequestReturns ==
  ASSUME CaptureInv, NEW ok \in BOOLEAN, RecordRequest(ok)
  PROVE  Atomic!Arrive(upacket) /\ Atomic!process_user_packet(upacket)
<1>1. /\ Begun /\ upacket.payload_size # 0 /\ Dir = RequestDir /\ syn_tab = Full
      /\ requests = Atomic!Swept(upacket.tv) /\ printed = NULL
  BY InHand DEF CaptureInv, RecordRequest, Idle, Progress, Begun
<1>2. Atomic!Arrive(upacket) /\ Atomic!expire_stale_requests(upacket.tv)
  BY <1>1, ReturnArrives DEF RecordRequest
<1>3. done'.syn_tab = Atomic!Counted(upacket.dst, TRUE, upacket)
  BY <1>1 DEF RecordRequest, Return, State, Full
<1>4. done'.requests = Atomic!WithRequest(Atomic!Swept(upacket.tv), upacket, ok)
  <2>1. done'.requests = WithRequest(requests, upacket, ok)
    BY DEF RecordRequest, Return, State
  <2>2. Size(requests) = Atomic!Size(requests)
    BY DEF Size, Atomic!Size, Entries, Atomic!Entries, Cardinality, Atomic!Cardinality
  <2>3. WithRequest(requests, upacket, ok) = Atomic!WithRequest(requests, upacket, ok)
    BY <2>2 DEF WithRequest, Atomic!WithRequest, hashtable_get, Atomic!hashtable_get,
           hashtable_add, Atomic!hashtable_add, RoomFor, Atomic!RoomFor, RequestKey,
           Atomic!RequestKey
  <2> QED BY <1>1, <2>1, <2>3
<1>5. Atomic!process_request_packet(upacket, ok)
  BY <1>1, <1>3, <1>4 DEF RecordRequest, Return, State, Dir, RequestDir,
                          Atomic!RequestDir, Atomic!process_request_packet
<1> QED BY <1>2, <1>5 DEF Atomic!process_user_packet

\* What a response finds pending, in the names of Tracker.
LEMMA SamePending ==
  ASSUME CaptureInv, pc \in {"response", "observe", "report"}
  PROVE  /\ Begun /\ upacket.payload_size # 0
         /\ Atomic!packet_direction(upacket) = Atomic!Response
         /\ Full = Atomic!Counted(upacket.src, FALSE, upacket)
         /\ requests = Atomic!Swept(upacket.tv) /\ printed = NULL
         /\ Pending = Atomic!hashtable_get(Atomic!Swept(upacket.tv),
                                           Atomic!ResponseKey(upacket))
         /\ Delta = Atomic!tv_delta_us(upacket.tv, Pending.tv)
<1>1. /\ Begun /\ upacket.payload_size # 0 /\ Dir = Response
      /\ requests = Atomic!Swept(upacket.tv) /\ printed = NULL
  BY InHand DEF CaptureInv, Idle, Progress, Begun
<1>2. Full = Atomic!Counted(upacket.src, FALSE, upacket)
  BY <1>1 DEF Full, Response, RequestDir
<1> QED BY <1>1, <1>2 DEF Dir, Response, Atomic!Response, Pending, Delta, hashtable_get,
              Atomic!hashtable_get, ResponseKey, Atomic!ResponseKey, tv_delta_us,
              Atomic!tv_delta_us

LEMMA NothingPendingReturns ==
  ASSUME CaptureInv, NothingPending
  PROVE  Atomic!Arrive(upacket) /\ Atomic!process_user_packet(upacket)
<1>1. pc = "response" /\ Pending = NULL /\ syn_tab = Full
  BY InHand DEF CaptureInv, NothingPending, Idle, Progress
<1>2. Atomic!Arrive(upacket) /\ Atomic!expire_stale_requests(upacket.tv)
  BY <1>1, SamePending, ReturnArrives DEF NothingPending, vars, trackerVars
<1>3. done'.syn_tab = Full /\ done'.requests = requests /\ done'.printed = printed
  BY <1>1 DEF NothingPending, Return, State, vars, trackerVars
<1>4. Atomic!process_response_packet(upacket)
  BY <1>1, <1>3, SamePending DEF Atomic!process_response_packet
<1> QED BY <1>2, <1>4 DEF Atomic!process_user_packet

LEMMA ReportReturns ==
  ASSUME CaptureInv, Report
  PROVE  Atomic!Arrive(upacket) /\ Atomic!process_user_packet(upacket)
<1>1. pc = "report" /\ Pending # NULL /\ syn_tab = Sampled
  BY InHand DEF CaptureInv, Report, Idle, Progress
<1>2. Atomic!Arrive(upacket) /\ Atomic!expire_stale_requests(upacket.tv)
  BY <1>1, SamePending, ReturnArrives DEF Report
<1>3. /\ done'.syn_tab = Sampled
      /\ done'.requests = Answered(requests, ResponseKey(upacket), Delta)
      /\ done'.printed = Line(Delta)
  BY <1>1 DEF Report, Return, State
<1>4. Sampled = [Full EXCEPT ![upacket.src] = Atomic!stats_observer_latency(@, Delta)]
  BY DEF Sampled, stats_observer_latency, Atomic!stats_observer_latency, LandsIn,
         Atomic!LandsIn, Clamped, Atomic!Clamped, Buckets, Atomic!Buckets
<1>5. /\ Answered(requests, ResponseKey(upacket), Delta) =
           Atomic!Answered(requests, Atomic!ResponseKey(upacket), Delta)
      /\ Line(Delta) = Atomic!Line(Delta)
  BY DEF Answered, Atomic!Answered, hashtable_del, Atomic!hashtable_del, Line,
         Atomic!Line, ResponseKey, Atomic!ResponseKey
<1>6. Atomic!process_response_packet(upacket)
  BY <1>1, <1>3, <1>4, <1>5, SamePending DEF Atomic!process_response_packet
<1> QED BY <1>2, <1>6 DEF Atomic!process_user_packet

\* Every step of the two threads is a packet of Tracker's or none.
LEMMA AtomicStep ==
  SharedInv /\ [SharedNext]_sharedVars => [Atomic!Next]_(Atomic!vars)
<1> SUFFICES ASSUME SharedInv, [SharedNext]_sharedVars, ~ UNCHANGED done
             PROVE  Atomic!Next
  BY DEF Atomic!vars, Atomic!trackerVars
<1>1. CaptureInv
  BY DEF SharedInv, CaptureInv
<1>2. Capturing
  BY ServingFrame DEF SharedNext, Capturing, Serving, sharedVars, captureVars
<1>3. CASE \E p \in Packets : Receive(p)
  <2>1. PICK p \in Packets : Receive(p)
    BY <1>3
  <2>2. p.payload_size = 0 /\ ~p.syn
    BY <2>1 DEF Receive
  <2>3. p \in Atomic!Packets
    BY DEF Packets, Atomic!Packets
  <2> QED BY <1>1, <2>1, <2>2, <2>3, ReceiveReturns DEF Atomic!Next
<1>4. CASE CaptureStep
  <2>1. \/ \E ok \in BOOLEAN : Register(ok)
        \/ CountNothing
        \/ \E ok \in BOOLEAN : RecordRequest(ok)
        \/ NothingPending
        \/ Report
    BY <1>4 DEF CaptureStep, SynLock, DirectionLock, CountPacket, CountBytes,
                ObserveLock, Observe, Goto
  <2>2. Atomic!Arrive(upacket) /\ Atomic!process_user_packet(upacket)
    BY <1>1, <2>1, RegisterReturns, CountNothingReturns, RecordRequestReturns,
       NothingPendingReturns, ReportReturns
  <2>3. upacket \in Packets
    BY <1>1, <2>1, InHand DEF CaptureInv, Idle, Register, CountNothing, RecordRequest,
                              NothingPending, Report
  <2>4. upacket \in Atomic!Packets
    BY <2>3 DEF Packets, Atomic!Packets
  <2> QED BY <2>2, <2>4 DEF Atomic!Next
<1> QED BY <1>2, <1>3, <1>4 DEF Capturing

\* Split at its lock operations and interleaved with any number of walks, a
\* call of process_user_packet does what it does as one step: at the returns of
\* the handlers the two threads implement Tracker.
THEOREM ImplementsTrackerHolds == SharedSpec => ImplementsTracker
<1>1. SharedInit => Atomic!Init
  BY DEF SharedInit, Init, State, Atomic!Init, hashtable_create, Atomic!hashtable_create,
         Conns, Atomic!Conns
<1> QED BY <1>1, AtomicStep, SharedInvariant, PTL
        DEF SharedSpec, ImplementsTracker, Atomic!Spec

-----------------------------------------------------------------------------
(* Samples, requests and responses *)

\* The samples of a histogram, one by one.
SampleSet(b) == UNION {{i} \X (1 .. b[i]) : i \in Buckets}

LEMMA SampleSetMember ==
  ASSUME NEW b \in [Buckets -> Nat], NEW s
  PROVE  s \in SampleSet(b) <=>
           \E i \in Buckets : \E n \in Nat : s = <<i, n>> /\ 1 <= n /\ n <= b[i]
<1>1. \A i \in Buckets : b[i] \in Nat
  OBVIOUS
<1>2. s \in SampleSet(b) <=> \E i \in Buckets : s \in {i} \X (1 .. b[i])
  BY DEF SampleSet
<1>3. ASSUME NEW i \in Buckets
      PROVE  s \in {i} \X (1 .. b[i]) <=>
               \E n \in Nat : s = <<i, n>> /\ 1 <= n /\ n <= b[i]
  BY <1>1
<1> QED BY <1>2, <1>3

LEMMA SampleSetFinite ==
  ASSUME NEW b \in [Buckets -> Nat]
  PROVE  IsFiniteSet(SampleSet(b))
<1> DEFINE T == {{i} \X (1 .. b[i]) : i \in Buckets}
           f == [i \in Buckets |-> {i} \X (1 .. b[i])]
<1>1. IsFiniteSet(Buckets)
  BY FS_Interval, BucketFacts DEF Buckets
<1>2. f \in Surjection(Buckets, T)
  BY DEF Surjection
<1>3. IsFiniteSet(T)
  <2> HIDE DEF f, T
  <2> QED BY <1>1, <1>2, FS_Surjection
<1>4. ASSUME NEW t \in T PROVE IsFiniteSet(t)
  <2>1. PICK i \in Buckets : t = {i} \X (1 .. b[i])
    OBVIOUS
  <2>2. IsFiniteSet({i})
    BY FS_Singleton
  <2>3. b[i] \in Int /\ 1 \in Int
    OBVIOUS
  <2>4. IsFiniteSet(1 .. b[i])
    BY <2>3, FS_Interval
  <2> QED BY <2>1, <2>2, <2>4, FS_Product
<1>5. IsFiniteSet(UNION T)
  <2> HIDE DEF T
  <2> QED BY <1>3, <1>4, FS_UNION
<1> QED BY <1>5 DEF SampleSet

\* A new query_stats has no samples, stats_incr leaves them alone and
\* stats_observer_latency adds one, whatever the latency.
LEMMA SamplesStep ==
  ASSUME NEW st \in QueryStats
  PROVE  /\ Samples(st) \in Nat
         /\ Samples(NewStats) = 0
         /\ \A b \in BOOLEAN, n \in Nat : Samples(stats_incr(st, b, n)) = Samples(st)
         /\ \A d \in Int : Samples(stats_observer_latency(st, d)) = Samples(st) + 1
<1>1. st.buckets \in [Buckets -> Nat]
  BY DEF QueryStats
<1>2. \A x : Samples(x) = Cardinality(SampleSet(x.buckets))
  BY DEF Samples, SampleSet
<1>3. IsFiniteSet(SampleSet(st.buckets)) /\ Samples(st) \in Nat
  BY <1>1, <1>2, SampleSetFinite, FS_CardinalityType
<1>4. Samples(NewStats) = 0
  <2> DEFINE z == [i \in Buckets |-> 0]
  <2>1. z \in [Buckets -> Nat] /\ NewStats.buckets = z /\ \A i \in Buckets : z[i] = 0
    BY DEF NewStats
  <2> HIDE DEF z
  <2>2. \A s : s \notin SampleSet(z)
    BY <2>1, SampleSetMember
  <2>3. SampleSet(z) = {}
    BY <2>2
  <2> QED BY <1>2, <2>1, <2>3, FS_EmptySet
<1>5. ASSUME NEW b \in BOOLEAN, NEW n \in Nat
      PROVE  Samples(stats_incr(st, b, n)) = Samples(st)
  <2>1. stats_incr(st, b, n).buckets = st.buckets
    BY DEF stats_incr, QueryStats
  <2> QED BY <1>2, <2>1
<1>6. ASSUME NEW d \in Int
      PROVE  Samples(stats_observer_latency(st, d)) = Samples(st) + 1
  <2> DEFINE old == st.buckets
             new == [i \in Buckets |-> IF LandsIn(i, Clamped(d)) THEN old[i] + 1
                                                                ELSE old[i]]
  <2>1. stats_observer_latency(st, d).buckets = new
    BY DEF stats_observer_latency, QueryStats
  <2>2. PICK i \in Buckets : \A j \in Buckets : LandsIn(j, Clamped(d)) <=> j = i
    BY ExactlyOneBucket
  <2>3. /\ new \in [Buckets -> Nat] /\ old \in [Buckets -> Nat]
        /\ \A j \in Buckets : new[j] = IF j = i THEN old[j] + 1 ELSE old[j]
    BY <1>1, <2>2
  <2> HIDE DEF new, old
  <2> DEFINE x == <<i, old[i] + 1>>
  <2>4. old[i] \in Nat /\ \A j \in Buckets : old[j] \in Nat
    BY <2>3
  <2>5. x \notin SampleSet(old)
    <3> SUFFICES ASSUME x \in SampleSet(old) PROVE FALSE
      OBVIOUS
    <3>1. PICK j \in Buckets, n \in Nat : x = <<j, n>> /\ 1 <= n /\ n <= old[j]
      BY <2>3, SampleSetMember
    <3> QED BY <2>4, <3>1
  <2>6. ASSUME NEW s PROVE s \in SampleSet(new) <=> s \in SampleSet(old) \cup {x}
    <3>1. ASSUME s \in SampleSet(new) PROVE s \in SampleSet(old) \cup {x}
      <4>1. PICK j \in Buckets, n \in Nat : s = <<j, n>> /\ 1 <= n /\ n <= new[j]
        BY <2>3, <3>1, SampleSetMember
      <4>2. CASE n <= old[j]
        BY <2>3, <4>1, <4>2, SampleSetMember
      <4>3. CASE ~(n <= old[j])
        <5>1. j = i /\ n = old[i] + 1
          BY <2>3, <2>4, <4>1, <4>3
        <5> QED BY <4>1, <5>1
      <4> QED BY <4>2, <4>3
    <3>2. ASSUME s \in SampleSet(old) PROVE s \in SampleSet(new)
      <4>1. PICK j \in Buckets, n \in Nat : s = <<j, n>> /\ 1 <= n /\ n <= old[j]
        BY <2>3, <3>2, SampleSetMember
      <4>2. n <= new[j]
        BY <2>3, <2>4, <4>1
      <4> QED BY <2>3, <4>1, <4>2, SampleSetMember
    <3>3. x \in SampleSet(new)
      <4>1. old[i] + 1 \in Nat /\ 1 <= old[i] + 1 /\ old[i] + 1 <= new[i]
        BY <2>3, <2>4
      <4> QED BY <2>3, <4>1, SampleSetMember
    <3> QED BY <3>1, <3>2, <3>3
  <2>7. SampleSet(new) = SampleSet(old) \cup {x}
    BY <2>6
  <2>8. Cardinality(SampleSet(old) \cup {x}) = Cardinality(SampleSet(old)) + 1
    <3> HIDE DEF x
    <3> QED BY <1>3, <2>5, FS_AddElement DEF old
  <2> QED BY <1>2, <2>1, <2>7, <2>8 DEF old
<1> QED BY <1>3, <1>4, <1>5, <1>6

-----------------------------------------------------------------------------
(* What a packet may do to the two tables *)

\* The waiting requests a table of endpoints knows the counters of, and how many
\* of the counted requests they leave for the samples.
WaitingFor(r, e) == {k \in Entries(r) : k[2] = e}

Covered(st, waiting) ==
  /\ Samples(st) <= st.responses
  /\ Samples(st) + Cardinality(waiting) <= st.requests

\* Every packet counted in a query_stats has its bytes.
Weighed(st) ==
  Weigh(st.requests, st.request_bytes) /\ Weigh(st.responses, st.response_bytes)

\* A table of endpoints and a pending table, between two packets.
Sound(t, r) ==
  /\ \A k \in Entries(r) : t[k[2]] # NULL
  /\ \A e \in Entries(t) : Weighed(t[e]) /\ Covered(t[e], WaitingFor(r, e))

Pendings == [Conns -> Request \cup {NULL}]

\* What a packet may do to the two tables: nothing but drop requests; register
\* an endpoint; count a request, which may wait; count a response; count a
\* response and take the sample of a request, which goes.
Handles(t, r, p, t2, r2) ==
  \/ t2 = t /\ Entries(r2) \subseteq Entries(r)
  \/ /\ \E e \in Endpoints : t[e] = NULL /\ t2 = [t EXCEPT ![e] = NewStats]
     /\ Entries(r2) \subseteq Entries(r)
  \/ /\ t[p.dst] # NULL
     /\ t2 = [t EXCEPT ![p.dst] = stats_incr(@, TRUE, p.size)]
     /\ Entries(r2) \subseteq Entries(r) \cup {<<p.src, p.dst>>}
  \/ /\ t[p.src] # NULL
     /\ t2 = [t EXCEPT ![p.src] = stats_incr(@, FALSE, p.size)]
     /\ Entries(r2) \subseteq Entries(r)
  \/ /\ t[p.src] # NULL
     /\ <<p.dst, p.src>> \in Entries(r)
     /\ \E d \in Int :
          t2 = [t EXCEPT ![p.src] =
                  stats_observer_latency(stats_incr(@, FALSE, p.size), d)]
     /\ Entries(r2) \subseteq Entries(r) \ {<<p.dst, p.src>>}

LEMMA EntriesFinite ==
  ASSUME NEW r \in Pendings, NEW e
  PROVE  /\ IsFiniteSet(WaitingFor(r, e))
         /\ Cardinality(WaitingFor(r, e)) \in Nat
         /\ Entries(r) \subseteq Conns
<1>1. IsFiniteSet(Conns)
  BY SizeAssumption, FS_Product DEF Conns
<1>2. WaitingFor(r, e) \subseteq Conns /\ Entries(r) \subseteq Conns
  BY DEF WaitingFor, Entries, Pendings
<1>3. IsFiniteSet(WaitingFor(r, e))
  BY <1>1, <1>2, FS_Subset
<1> QED BY <1>2, <1>3, FS_CardinalityType

LEMMA FewerWaiting ==
  ASSUME NEW r \in Pendings, NEW r2 \in Pendings, NEW e,
         WaitingFor(r2, e) \subseteq WaitingFor(r, e)
  PROVE  Cardinality(WaitingFor(r2, e)) <= Cardinality(WaitingFor(r, e))
BY EntriesFinite, FS_Subset

LEMMA OneMoreWaiting ==
  ASSUME NEW r \in Pendings, NEW r2 \in Pendings, NEW e, NEW k,
         WaitingFor(r2, e) \subseteq WaitingFor(r, e) \cup {k}
  PROVE  Cardinality(WaitingFor(r2, e)) <= Cardinality(WaitingFor(r, e)) + 1
<1> DEFINE W == WaitingFor(r, e)
           V == WaitingFor(r2, e)
<1>1. /\ IsFiniteSet(W) /\ Cardinality(W) \in Nat /\ Cardinality(V) \in Nat
  BY EntriesFinite
<1>2. V \subseteq W \cup {k}
  OBVIOUS
<1> HIDE DEF W, V
<1>3. /\ IsFiniteSet(W \cup {k})
      /\ Cardinality(W \cup {k}) = Cardinality(W) \/ Cardinality(W \cup {k}) = Cardinality(W) + 1
  BY <1>1, FS_AddElement
<1>4. Cardinality(V) <= Cardinality(W \cup {k})
  BY <1>2, <1>3, FS_Subset
<1>5. Cardinality(V) <= Cardinality(W) + 1
  BY <1>1, <1>3, <1>4
<1> QED BY <1>5 DEF W, V

LEMMA OneLessWaiting ==
  ASSUME NEW r \in Pendings, NEW r2 \in Pendings, NEW e, NEW k \in WaitingFor(r, e),
         WaitingFor(r2, e) \subseteq WaitingFor(r, e) \ {k}
  PROVE  Cardinality(WaitingFor(r2, e)) + 1 <= Cardinality(WaitingFor(r, e))
<1> DEFINE W == WaitingFor(r, e)
           V == WaitingFor(r2, e)
<1>1. /\ IsFiniteSet(W) /\ Cardinality(W) \in Nat /\ Cardinality(V) \in Nat
  BY EntriesFinite
<1>2. V \subseteq W \ {k} /\ k \in W
  OBVIOUS
<1> HIDE DEF W, V
<1>3. /\ IsFiniteSet(W \ {k})
      /\ Cardinality(W \ {k}) = Cardinality(W) - 1
  BY <1>1, <1>2, FS_RemoveElement
<1>4. Cardinality(V) <= Cardinality(W \ {k})
  BY <1>2, <1>3, FS_Subset
<1>5. Cardinality(V) + 1 <= Cardinality(W)
  BY <1>1, <1>3, <1>4
<1> QED BY <1>5 DEF W, V

\* One frame more.
LEMMA WeighMore ==
  ASSUME NEW n \in Nat, NEW bytes \in Nat, NEW size \in Sizes, Weigh(n, bytes)
  PROVE  Weigh(n + 1, bytes + size)
<1> SUFFICES ASSUME NEW s \in Sizes
             PROVE  /\ (\A o \in Sizes : s <= o) => s * (n + 1) <= bytes + size
                    /\ (\A o \in Sizes : o <= s) => bytes + size <= s * (n + 1)
  BY DEF Weigh
<1>1. s \in Nat /\ size \in Nat
  BY SizeAssumption
<1>2. s * (n + 1) = s * n + s /\ s * n \in Nat
  BY <1>1
<1> DEFINE m == s * n
<1>3. /\ (\A o \in Sizes : s <= o) => m <= bytes
      /\ (\A o \in Sizes : o <= s) => bytes <= m
  BY DEF Weigh
<1>4. m \in Nat /\ s * (n + 1) = m + s
  BY <1>2
<1> HIDE DEF m
<1>5. ASSUME \A o \in Sizes : s <= o PROVE s * (n + 1) <= bytes + size
  <2>1. s <= size /\ m <= bytes
    BY <1>3, <1>5
  <2> QED BY <1>1, <1>4, <2>1
<1>6. ASSUME \A o \in Sizes : o <= s PROVE bytes + size <= s * (n + 1)
  <2>1. size <= s /\ bytes <= m
    BY <1>3, <1>6
  <2> QED BY <1>1, <1>4, <2>1
<1> QED BY <1>5, <1>6

LEMMA StatsWeighed ==
  ASSUME NEW st \in QueryStats, NEW size \in Sizes, Weighed(st)
  PROVE  /\ \A b \in BOOLEAN : Weighed(stats_incr(st, b, size))
         /\ \A d \in Int : Weighed(stats_observer_latency(st, d))
<1>1. /\ st.requests \in Nat /\ st.request_bytes \in Nat
      /\ st.responses \in Nat /\ st.response_bytes \in Nat
  BY DEF QueryStats
<1>2. /\ stats_incr(st, TRUE, size).requests = st.requests + 1
      /\ stats_incr(st, TRUE, size).request_bytes = st.request_bytes + size
      /\ stats_incr(st, TRUE, size).responses = st.responses
      /\ stats_incr(st, TRUE, size).response_bytes = st.response_bytes
  BY DEF stats_incr, QueryStats
<1>3. /\ stats_incr(st, FALSE, size).requests = st.requests
      /\ stats_incr(st, FALSE, size).request_bytes = st.request_bytes
      /\ stats_incr(st, FALSE, size).responses = st.responses + 1
      /\ stats_incr(st, FALSE, size).response_bytes = st.response_bytes + size
  BY DEF stats_incr, QueryStats
<1>4. Weighed(stats_incr(st, TRUE, size))
  BY <1>1, <1>2, WeighMore DEF Weighed
<1>5. Weighed(stats_incr(st, FALSE, size))
  BY <1>1, <1>3, WeighMore DEF Weighed
<1>6. ASSUME NEW d \in Int PROVE Weighed(stats_observer_latency(st, d))
  <2>1. LET o == stats_observer_latency(st, d)
        IN  /\ o.requests = st.requests /\ o.request_bytes = st.request_bytes
            /\ o.responses = st.responses /\ o.response_bytes = st.response_bytes
    BY DEF stats_observer_latency, QueryStats
  <2> QED BY <2>1 DEF Weighed
<1> QED BY <1>4, <1>5, <1>6

LEMMA NewWeighed == Weighed(NewStats)
<1>1. Weigh(0, 0)
  <2>1. \A s \in Sizes : s \in Nat /\ s * 0 = 0
    BY SizeAssumption
  <2> QED BY <2>1 DEF Weigh
<1> QED BY <1>1 DEF Weighed, NewStats

\* The counters a packet changes.
LEMMA IncrFacts ==
  ASSUME NEW st \in QueryStats, NEW n \in Nat
  PROVE  /\ stats_incr(st, TRUE, n) \in QueryStats
         /\ stats_incr(st, TRUE, n).requests = st.requests + 1
         /\ stats_incr(st, TRUE, n).responses = st.responses
         /\ stats_incr(st, FALSE, n) \in QueryStats
         /\ stats_incr(st, FALSE, n).requests = st.requests
         /\ stats_incr(st, FALSE, n).responses = st.responses + 1
         /\ \A d \in Int : /\ stats_observer_latency(st, d) \in QueryStats
                           /\ stats_observer_latency(st, d).requests = st.requests
                           /\ stats_observer_latency(st, d).responses = st.responses
<1>1. /\ stats_incr(st, TRUE, n) \in QueryStats /\ stats_incr(st, FALSE, n) \in QueryStats
      /\ \A d \in Int : stats_observer_latency(st, d) \in QueryStats
  BY StatsTypes
<1>2. /\ stats_incr(st, TRUE, n).requests = st.requests + 1
      /\ stats_incr(st, TRUE, n).responses = st.responses
      /\ stats_incr(st, FALSE, n).requests = st.requests
      /\ stats_incr(st, FALSE, n).responses = st.responses + 1
  BY DEF stats_incr, QueryStats
<1>3. \A d \in Int : /\ stats_observer_latency(st, d).requests = st.requests
                     /\ stats_observer_latency(st, d).responses = st.responses
  BY DEF stats_observer_latency, QueryStats
<1> QED BY <1>1, <1>2, <1>3

\* The entry a packet leaves alone has no more requests waiting.
LEMMA OthersCovered ==
  ASSUME NEW r \in Pendings, NEW r2 \in Pendings, NEW e, NEW st \in QueryStats,
         Covered(st, WaitingFor(r, e)), WaitingFor(r2, e) \subseteq WaitingFor(r, e)
  PROVE  Covered(st, WaitingFor(r2, e))
<1>1. /\ Cardinality(WaitingFor(r2, e)) <= Cardinality(WaitingFor(r, e))
      /\ Cardinality(WaitingFor(r2, e)) \in Nat /\ Cardinality(WaitingFor(r, e)) \in Nat
  BY FewerWaiting, EntriesFinite
<1>2. Samples(st) \in Nat /\ st.requests \in Nat
  BY SamplesStep DEF QueryStats
<1> QED BY <1>1, <1>2 DEF Covered

LEMMA RequestCovered ==
  ASSUME NEW r \in Pendings, NEW r2 \in Pendings, NEW e, NEW st \in QueryStats,
         NEW n \in Nat, NEW k,
         Covered(st, WaitingFor(r, e)), WaitingFor(r2, e) \subseteq WaitingFor(r, e) \cup {k}
  PROVE  Covered(stats_incr(st, TRUE, n), WaitingFor(r2, e))
<1>1. /\ Cardinality(WaitingFor(r2, e)) <= Cardinality(WaitingFor(r, e)) + 1
      /\ Cardinality(WaitingFor(r2, e)) \in Nat /\ Cardinality(WaitingFor(r, e)) \in Nat
  BY OneMoreWaiting, EntriesFinite
<1> DEFINE new == stats_incr(st, TRUE, n)
<1>2. /\ Samples(st) \in Nat /\ Samples(new) = Samples(st)
      /\ st.requests \in Nat /\ st.responses \in Nat
  BY SamplesStep DEF QueryStats
<1>3. new.requests = st.requests + 1 /\ new.responses = st.responses
  BY IncrFacts
<1> HIDE DEF new
<1>4. Covered(new, WaitingFor(r2, e))
  BY <1>1, <1>2, <1>3 DEF Covered
<1> QED BY <1>4 DEF new

LEMMA ResponseCovered ==
  ASSUME NEW r \in Pendings, NEW r2 \in Pendings, NEW e, NEW st \in QueryStats,
         NEW n \in Nat,
         Covered(st, WaitingFor(r, e)), WaitingFor(r2, e) \subseteq WaitingFor(r, e)
  PROVE  Covered(stats_incr(st, FALSE, n), WaitingFor(r2, e))
<1>1. Covered(st, WaitingFor(r2, e))
  BY OthersCovered
<1> DEFINE new == stats_incr(st, FALSE, n)
<1>2. /\ Samples(st) \in Nat /\ Samples(new) = Samples(st)
      /\ st.requests \in Nat /\ st.responses \in Nat
  BY SamplesStep DEF QueryStats
<1>3. new.requests = st.requests /\ new.responses = st.responses + 1
  BY IncrFacts
<1> HIDE DEF new
<1>4. Covered(new, WaitingFor(r2, e))
  BY <1>1, <1>2, <1>3 DEF Covered
<1> QED BY <1>4 DEF new

LEMMA SampleCovered ==
  ASSUME NEW r \in Pendings, NEW r2 \in Pendings, NEW e, NEW st \in QueryStats,
         NEW n \in Nat, NEW d \in Int, NEW k \in WaitingFor(r, e),
         Covered(st, WaitingFor(r, e)), WaitingFor(r2, e) \subseteq WaitingFor(r, e) \ {k}
  PROVE  Covered(stats_observer_latency(stats_incr(st, FALSE, n), d), WaitingFor(r2, e))
<1> DEFINE mid == stats_incr(st, FALSE, n)
           new == stats_observer_latency(mid, d)
<1>1. /\ Cardinality(WaitingFor(r2, e)) + 1 <= Cardinality(WaitingFor(r, e))
      /\ Cardinality(WaitingFor(r2, e)) \in Nat /\ Cardinality(WaitingFor(r, e)) \in Nat
  BY OneLessWaiting, EntriesFinite
<1>2. /\ Samples(st) \in Nat /\ Samples(mid) = Samples(st)
      /\ st.responses \in Nat /\ st.requests \in Nat
  BY SamplesStep DEF QueryStats
<1>3. mid \in QueryStats /\ mid.requests = st.requests /\ mid.responses = st.responses + 1
  BY IncrFacts
<1> HIDE DEF mid
<1>4. new.requests = st.requests /\ new.responses = st.responses + 1
  BY <1>3, IncrFacts
<1>5. Samples(new) = Samples(st) + 1
  BY <1>2, <1>3, SamplesStep
<1> HIDE DEF new
<1>6. Covered(new, WaitingFor(r2, e))
  BY <1>1, <1>2, <1>4, <1>5 DEF Covered
<1> QED BY <1>6 DEF new, mid

\* A table in which one entry was assigned is sound if that entry is, and if
\* nothing waits anew for another one.
LEMMA AssignedSound ==
  ASSUME NEW t \in Tables, NEW r \in Pendings, NEW r2 \in Pendings, Sound(t, r),
         NEW e \in Endpoints, NEW st \in QueryStats,
         Weighed(st), Covered(st, WaitingFor(r2, e)),
         \A k \in Entries(r2) : k \in Entries(r) \/ k[2] = e
  PROVE  Sound([t EXCEPT ![e] = st], r2)
<1> DEFINE t2 == [t EXCEPT ![e] = st]
<1>1. t2 \in Tables /\ t2[e] = st /\ \A x \in Endpoints : x # e => t2[x] = t[x]
  BY DEF Tables
<1> HIDE DEF t2
<1>2. DOMAIN t = Endpoints /\ DOMAIN t2 = Endpoints
  BY <1>1 DEF Tables
<1>3. ASSUME NEW k \in Entries(r2) PROVE t2[k[2]] # NULL
  <2>1. k[2] \in Endpoints
    BY EntriesFinite DEF Conns
  <2>2. CASE k[2] = e
    BY <1>1, <2>2, NullAssumption
  <2>3. CASE k[2] # e
    BY <1>1, <2>1, <2>3 DEF Sound
  <2> QED BY <2>2, <2>3
<1>4. ASSUME NEW x \in Entries(t2)
      PROVE  Weighed(t2[x]) /\ Covered(t2[x], WaitingFor(r2, x))
  <2>1. x \in Endpoints /\ t2[x] # NULL
    BY <1>2 DEF Entries
  <2>2. CASE x = e
    BY <1>1, <2>2
  <2>3. CASE x # e
    <3>1. t2[x] = t[x] /\ x \in Entries(t) /\ t[x] \in QueryStats
      BY <1>1, <1>2, <2>1, <2>3 DEF Entries, Tables
    <3>2. Weighed(t[x]) /\ Covered(t[x], WaitingFor(r, x))
      BY <3>1 DEF Sound
    <3>3. WaitingFor(r2, x) \subseteq WaitingFor(r, x)
      BY <2>3 DEF WaitingFor
    <3> QED BY <3>1, <3>2, <3>3, OthersCovered
  <2> QED BY <2>2, <2>3
<1>5. Sound(t2, r2)
  BY <1>3, <1>4 DEF Sound
<1> QED BY <1>5 DEF t2

LEMMA FewerSound ==
  ASSUME NEW t \in Tables, NEW r \in Pendings, NEW r2 \in Pendings, Sound(t, r),
         Entries(r2) \subseteq Entries(r)
  PROVE  Sound(t, r2)
<1>1. \A k \in Entries(r2) : t[k[2]] # NULL
  BY DEF Sound
<1>2. ASSUME NEW e \in Entries(t) PROVE Weighed(t[e]) /\ Covered(t[e], WaitingFor(r2, e))
  <2>1. t[e] \in QueryStats
    BY DEF Entries, Tables
  <2>2. WaitingFor(r2, e) \subseteq WaitingFor(r, e)
    BY DEF WaitingFor
  <2> QED BY <2>1, <2>2, OthersCovered DEF Sound
<1> QED BY <1>1, <1>2 DEF Sound

LEMMA NothingWaits ==
  ASSUME NEW r \in Pendings, NEW e, \A k \in Entries(r) : k[2] # e
  PROVE  Covered(NewStats, WaitingFor(r, e))
<1>1. WaitingFor(r, e) = {}
  BY DEF WaitingFor
<1>2. Cardinality(WaitingFor(r, e)) = 0
  BY <1>1, FS_EmptySet
<1>3. NewStats \in QueryStats
  BY StatsTypes
<1>4. Samples(NewStats) = 0
  BY <1>3, SamplesStep
<1>5. NewStats.requests = 0 /\ NewStats.responses = 0
  BY DEF NewStats
<1> QED BY <1>2, <1>4, <1>5 DEF Covered

\* Whatever a packet does keeps the tables sound.
LEMMA HandlesKeeps ==
  ASSUME NEW t \in Tables, NEW r \in Pendings, NEW t2, NEW r2 \in Pendings,
         NEW p \in Packets, Sound(t, r), Handles(t, r, p, t2, r2)
  PROVE  Sound(t2, r2)
<1>1. /\ p.src \in Endpoints /\ p.dst \in Endpoints /\ p.size \in Sizes /\ p.size \in Nat
  BY SizeAssumption DEF Packets
<1>2. ASSUME NEW e \in Endpoints, t[e] # NULL
      PROVE  t[e] \in QueryStats /\ Weighed(t[e]) /\ Covered(t[e], WaitingFor(r, e))
  <2>1. e \in Entries(t) /\ t[e] \in QueryStats
    BY <1>2 DEF Entries, Tables
  <2> QED BY <2>1 DEF Sound
<1>3. CASE t2 = t /\ Entries(r2) \subseteq Entries(r)
  BY <1>3, FewerSound
<1>4. CASE /\ \E e \in Endpoints : t[e] = NULL /\ t2 = [t EXCEPT ![e] = NewStats]
           /\ Entries(r2) \subseteq Entries(r)
  <2>1. PICK e \in Endpoints : t[e] = NULL /\ t2 = [t EXCEPT ![e] = NewStats]
    BY <1>4
  <2>2. \A k \in Entries(r2) : k[2] # e
    BY <1>4, <2>1 DEF Sound
  <2>3. NewStats \in QueryStats /\ Weighed(NewStats) /\ Covered(NewStats, WaitingFor(r2, e))
    BY <2>2, NothingWaits, NewWeighed, StatsTypes
  <2> QED BY <1>4, <2>1, <2>3, AssignedSound
<1>5. CASE /\ t[p.dst] # NULL
           /\ t2 = [t EXCEPT ![p.dst] = stats_incr(@, TRUE, p.size)]
           /\ Entries(r2) \subseteq Entries(r) \cup {<<p.src, p.dst>>}
  <2> DEFINE e == p.dst
             st == stats_incr(t[e], TRUE, p.size)
  <2>1. e \in Endpoints /\ t2 = [t EXCEPT ![e] = st]
    BY <1>1, <1>5
  <2>2. st \in QueryStats /\ Weighed(st)
    BY <1>1, <1>2, <1>5, IncrFacts, StatsWeighed
  <2>3. WaitingFor(r2, e) \subseteq WaitingFor(r, e) \cup {<<p.src, p.dst>>}
    BY <1>5 DEF WaitingFor
  <2>4. Covered(st, WaitingFor(r2, e))
    BY <1>1, <1>2, <1>5, <2>3, RequestCovered
  <2>5. \A k \in Entries(r2) : k \in Entries(r) \/ k[2] = e
    BY <1>5
  <2> HIDE DEF e, st
  <2> QED BY <2>1, <2>2, <2>4, <2>5, AssignedSound
<1>6. CASE /\ t[p.src] # NULL
           /\ t2 = [t EXCEPT ![p.src] = stats_incr(@, FALSE, p.size)]
           /\ Entries(r2) \subseteq Entries(r)
  <2> DEFINE e == p.src
             st == stats_incr(t[e], FALSE, p.size)
  <2>1. e \in Endpoints /\ t2 = [t EXCEPT ![e] = st]
    BY <1>1, <1>6
  <2>2. st \in QueryStats /\ Weighed(st)
    BY <1>1, <1>2, <1>6, IncrFacts, StatsWeighed
  <2>3. WaitingFor(r2, e) \subseteq WaitingFor(r, e)
    BY <1>6 DEF WaitingFor
  <2>4. Covered(st, WaitingFor(r2, e))
    BY <1>1, <1>2, <1>6, <2>3, ResponseCovered
  <2>5. \A k \in Entries(r2) : k \in Entries(r) \/ k[2] = e
    BY <1>6
  <2> HIDE DEF e, st
  <2> QED BY <2>1, <2>2, <2>4, <2>5, AssignedSound
<1>7. CASE /\ t[p.src] # NULL
           /\ <<p.dst, p.src>> \in Entries(r)
           /\ \E d \in Int :
                t2 = [t EXCEPT ![p.src] =
                        stats_observer_latency(stats_incr(@, FALSE, p.size), d)]
           /\ Entries(r2) \subseteq Entries(r) \ {<<p.dst, p.src>>}
  <2>0. PICK d \in Int : t2 = [t EXCEPT ![p.src] =
                                 stats_observer_latency(stats_incr(@, FALSE, p.size), d)]
    BY <1>7
  <2> DEFINE e == p.src
             k == <<p.dst, p.src>>
             mid == stats_incr(t[e], FALSE, p.size)
             st == stats_observer_latency(mid, d)
  <2>1. e \in Endpoints /\ t2 = [t EXCEPT ![e] = st]
    BY <1>1, <2>0
  <2>2. mid \in QueryStats /\ Weighed(mid)
    BY <1>1, <1>2, <1>7, IncrFacts, StatsWeighed
  <2>3. st \in QueryStats /\ Weighed(st)
    <3> HIDE DEF mid
    <3> QED BY <1>1, <2>2, IncrFacts, StatsWeighed
  <2>4. k \in WaitingFor(r, e) /\ WaitingFor(r2, e) \subseteq WaitingFor(r, e) \ {k}
    BY <1>7 DEF WaitingFor
  <2>5. Covered(st, WaitingFor(r2, e))
    <3> HIDE DEF k
    <3> QED BY <1>1, <1>2, <1>7, <2>4, SampleCovered
  <2>6. Entries(r2) \subseteq Entries(r)
    BY <1>7
  <2> HIDE DEF e, st
  <2> QED BY <2>1, <2>3, <2>5, <2>6, AssignedSound
<1> QED BY <1>3, <1>4, <1>5, <1>6, <1>7 DEF Handles

-----------------------------------------------------------------------------
(* What the handlers do *)

\* A sweep leaves some of the entries, as they were.
LEMMA SweepShrinks ==
  ASSUME NEW r \in Pendings, NEW X
  PROVE  /\ hashtable_sweep(r, X) \in Pendings
         /\ Entries(hashtable_sweep(r, X)) \subseteq Entries(r)
BY DEF hashtable_sweep, Pendings, Entries

LEMMA AnswerHandles ==
  ASSUME NEW t \in Tables, NEW r \in Pendings, NEW s \in Pendings, NEW p \in Packets,
         Entries(s) \subseteq Entries(r), t[p.src] # NULL,
         NEW t2, NEW r2,
         LET key     == <<p.dst, p.src>>
             counted == [t EXCEPT ![p.src] = stats_incr(@, FALSE, p.size)]
         IN  IF s[key] # NULL
             THEN /\ t2 = [counted EXCEPT ![p.src] =
                             stats_observer_latency(@, p.tv - s[key].tv)]
                  /\ r2 = [s EXCEPT ![key] = NULL]
             ELSE t2 = counted /\ r2 = s
  PROVE  Handles(t, r, p, t2, r2)
<1> DEFINE key == <<p.dst, p.src>>
           counted == [t EXCEPT ![p.src] = stats_incr(@, FALSE, p.size)]
           d == p.tv - s[key].tv
<1>1. key \in Conns /\ p.src \in Endpoints /\ p.tv \in Nat
  BY TimeAssumption DEF Packets, Conns
<1>2. CASE s[key] = NULL
  BY <1>2 DEF Handles
<1>3. CASE s[key] # NULL
  <2>1. s[key].tv \in Nat
    BY <1>1, <1>3, TimeAssumption DEF Pendings, Request
  <2>2. d \in Int
    BY <1>1, <2>1
  <2>3. t2 = [counted EXCEPT ![p.src] = stats_observer_latency(@, d)] /\ r2 = [s EXCEPT ![key] = NULL]
    BY <1>3
  <2> HIDE DEF d
  <2>4. t2 = [t EXCEPT ![p.src] = stats_observer_latency(stats_incr(@, FALSE, p.size), d)]
    BY <1>1, <2>3 DEF Tables
  <2>5. key \in Entries(s) /\ Entries(r2) \subseteq Entries(s) \ {key}
    <3> HIDE DEF key
    <3> QED BY <1>1, <1>3, <2>3 DEF Entries, Pendings
  <2>6. key \in Entries(r) /\ Entries(r2) \subseteq Entries(r) \ {key}
    BY <2>5
  <2> QED BY <2>2, <2>4, <2>6 DEF Handles
<1> QED BY <1>2, <1>3

LEMMA AddHandles ==
  ASSUME NEW t \in Tables, NEW r, NEW r2, NEW p, Entries(r2) \subseteq Entries(r),
         NEW e \in Endpoints, NEW ok,
         NEW t2, t2 = IF ok THEN hashtable_add(t, e, NewStats) ELSE t
  PROVE  Handles(t, r, p, t2, r2)
BY DEF Handles, hashtable_add

LEMMA AskHandles ==
  ASSUME NEW t \in Tables, NEW r \in Pendings, NEW s \in Pendings, NEW p \in Packets,
         Entries(s) \subseteq Entries(r), t[p.dst] # NULL, NEW ok,
         NEW t2, t2 = [t EXCEPT ![p.dst] = stats_incr(@, TRUE, p.size)]
  PROVE  Handles(t, r, p, t2, WithRequest(s, p, ok))
<1> DEFINE k == <<p.src, p.dst>>
           r2 == WithRequest(s, p, ok)
<1>1. r2 = s \/ r2 = [s EXCEPT ![k] = [tv |-> p.tv]]
  BY DEF WithRequest, RequestKey, hashtable_add
<1> HIDE DEF k, r2
<1>2. Entries(r2) \subseteq Entries(s) \cup {k}
  BY <1>1 DEF Entries, Pendings
<1>3. Entries(r2) \subseteq Entries(r) \cup {k}
  BY <1>2
<1> QED BY <1>3 DEF Handles, k, r2

LEMMA StepHandles ==
  ASSUME TypeOK, NEW p \in Packets, process_user_packet(p)
  PROVE  Handles(syn_tab, requests, p, syn_tab', requests')
<1> DEFINE S == Swept(p.tv)
<1>1. syn_tab \in Tables /\ requests \in Pendings
  BY DEF TypeOK, Tables, Pendings
<1>2. S \in Pendings /\ Entries(S) \subseteq Entries(requests)
  <2>1. S = requests \/ \E X : S = hashtable_sweep(requests, X)
    BY DEF Swept, requests_expire
  <2> HIDE DEF S
  <2> QED BY <1>1, <2>1, SweepShrinks
<1>3. CASE \E ok \in BOOLEAN : RegisterEndpoint(p, ok)
  <2>1. PICK ok \in BOOLEAN : RegisterEndpoint(p, ok)
    BY <1>3
  <2>2. ServerEnd(p) \in Endpoints
    BY DEF ServerEnd, Packets
  <2>3. /\ requests' = S
        /\ syn_tab' = IF ok THEN hashtable_add(syn_tab, ServerEnd(p), NewStats) ELSE syn_tab
    BY <2>1, EndpointAdded, Zenon DEF RegisterEndpoint
  <2> HIDE DEF S
  <2> QED BY <1>1, <1>2, <2>2, <2>3, AddHandles
<1>4. CASE IgnoreEmpty(p) \/ IgnoreUnknown(p)
  <2>1. requests' = S /\ syn_tab' = syn_tab
    BY <1>4 DEF IgnoreEmpty, IgnoreUnknown
  <2> HIDE DEF S
  <2> QED BY <1>2, <2>1 DEF Handles
<1>5. CASE \E ok \in BOOLEAN : process_request_packet(p, ok)
  <2>1. PICK ok \in BOOLEAN : process_request_packet(p, ok)
    BY <1>5
  <2>2. syn_tab[p.dst] # NULL
    BY <2>1 DEF process_request_packet, packet_direction, RequestDir, Response,
                Unknown, hashtable_get
  <2>3. /\ requests' = WithRequest(S, p, ok)
        /\ syn_tab' = [syn_tab EXCEPT ![p.dst] = stats_incr(@, TRUE, p.size)]
    BY <2>1 DEF process_request_packet, Counted
  <2> HIDE DEF S
  <2> QED BY <1>1, <1>2, <2>2, <2>3, AskHandles
<1>6. CASE process_response_packet(p)
  <2>1. syn_tab[p.src] # NULL
    BY <1>6 DEF process_response_packet, packet_direction, RequestDir, Response,
                Unknown, hashtable_get
  <2>2. LET key     == <<p.dst, p.src>>
            counted == [syn_tab EXCEPT ![p.src] = stats_incr(@, FALSE, p.size)]
        IN  IF S[key] # NULL
            THEN /\ syn_tab' = [counted EXCEPT ![p.src] =
                                  stats_observer_latency(@, p.tv - S[key].tv)]
                 /\ requests' = [S EXCEPT ![key] = NULL]
            ELSE syn_tab' = counted /\ requests' = S
    BY <1>6, Zenon DEF process_response_packet, ResponseKey, hashtable_get, tv_delta_us,
                Counted, Answered, hashtable_del
  <2> HIDE DEF S
  <2> QED BY <1>1, <1>2, <2>1, <2>2, AnswerHandles
<1> QED BY <1>3, <1>4, <1>5, <1>6 DEF process_user_packet

LEMMA SoundInit ==
  ASSUME NEW t, NEW r, t = hashtable_create(Endpoints), r = hashtable_create(Conns)
  PROVE  Sound(t, r)
BY DEF hashtable_create, Sound, Entries

LEMMA SoundStep ==
  TypeOK /\ Sound(syn_tab, requests) /\ [Next]_vars => Sound(syn_tab, requests)'
<1> SUFFICES ASSUME TypeOK, Sound(syn_tab, requests), [Next]_vars
             PROVE  Sound(syn_tab, requests)'
  OBVIOUS
<1>1. CASE UNCHANGED vars
  <2>1. syn_tab' = syn_tab /\ requests' = requests
    BY <1>1 DEF vars, trackerVars
  <2> QED BY <2>1 DEF Sound, Weighed, Weigh, Covered, WaitingFor, Samples, Entries
<1>2. CASE Next
  <2>1. PICK p \in Packets : process_user_packet(p)
    BY <1>2 DEF Next
  <2>2. syn_tab \in Tables /\ requests \in Pendings /\ requests' \in Pendings
    BY <2>1, PendingStep DEF TypeOK, Tables, Pendings
  <2>3. Handles(syn_tab, requests, p, syn_tab', requests')
    BY <2>1, StepHandles
  <2>4. Sound(syn_tab', requests')
    BY <2>2, <2>3, HandlesKeeps
  <2> QED BY <2>4
<1> QED BY <1>1, <1>2

\* For every histogram, every number of connections and every order of packets:
\* an endpoint has no more samples than responses, and its samples and waiting
\* requests together are no more than its requests.  No request is sampled twice.
THEOREM SamplesCoveredHolds == Spec => []SamplesCovered
<1>1. Init => Sound(syn_tab, requests)
  BY SoundInit DEF Init
<1>2. Sound(syn_tab, requests) => SamplesCovered
  BY DEF Sound, Covered, SamplesCovered, PendingTo, WaitingFor
<1> QED BY <1>1, <1>2, SoundStep, TypeCorrect, PTL DEF Spec

-----------------------------------------------------------------------------
(* Replies are coherent *)

\* The same of the handler as one step of the two threads.
LEMMA AtomicHandles ==
  ASSUME Atomic!TypeOK, NEW p \in Packets, Atomic!process_user_packet(p)
  PROVE  Handles(done.syn_tab, done.requests, p, done'.syn_tab, done'.requests)
<1> DEFINE S == Atomic!Swept(p.tv)
           t == done.syn_tab
           r == done.requests
           t2 == done'.syn_tab
           r2 == done'.requests
<1>1. t \in Tables /\ r \in Pendings
  BY DEF Atomic!TypeOK, Tables, Pendings, Atomic!Conns, Atomic!Request, Atomic!QueryStats,
         Atomic!Buckets, Conns, Request, QueryStats, Buckets
<1>2. S \in Pendings /\ Entries(S) \subseteq Entries(r)
  <2>1. S = r \/ \E X : S = hashtable_sweep(r, X)
    BY DEF Atomic!Swept, Atomic!requests_expire, Atomic!hashtable_sweep, hashtable_sweep
  <2> HIDE DEF S, r
  <2> QED BY <1>1, <2>1, SweepShrinks
<1>3. CASE \E ok \in BOOLEAN : Atomic!RegisterEndpoint(p, ok)
  <2>1. PICK ok \in BOOLEAN : Atomic!RegisterEndpoint(p, ok)
    BY <1>3
  <2>2. ServerEnd(p) \in Endpoints
    BY DEF ServerEnd, Packets
  <2>3. r2 = S /\ t2 = IF ok THEN hashtable_add(t, ServerEnd(p), NewStats) ELSE t
    BY <2>1, Zenon DEF Atomic!RegisterEndpoint, Atomic!WithEndpoint, Atomic!hashtable_get,
                Atomic!hashtable_add, hashtable_add, Atomic!ServerEnd, ServerEnd,
                Atomic!NewStats, NewStats, Atomic!Buckets, Buckets
  <2> HIDE DEF S, t, r, t2, r2
  <2>4. Handles(t, r, p, t2, r2)
    BY <1>1, <1>2, <2>2, <2>3, AddHandles
  <2> QED BY <2>4 DEF t, r, t2, r2
<1>4. CASE Atomic!IgnoreEmpty(p) \/ Atomic!IgnoreUnknown(p)
  <2>1. r2 = S /\ t2 = t
    BY <1>4 DEF Atomic!IgnoreEmpty, Atomic!IgnoreUnknown
  <2> HIDE DEF S, t, r, t2, r2
  <2>2. Handles(t, r, p, t2, r2)
    BY <1>2, <2>1 DEF Handles
  <2> QED BY <2>2 DEF t, r, t2, r2
<1>5. CASE \E ok \in BOOLEAN : Atomic!process_request_packet(p, ok)
  <2>1. PICK ok \in BOOLEAN : Atomic!process_request_packet(p, ok)
    BY <1>5
  <2>2. t[p.dst] # NULL
    BY <2>1 DEF Atomic!process_request_packet, Atomic!packet_direction, Atomic!RequestDir,
                Atomic!Response, Atomic!Unknown, Atomic!hashtable_get
  <2>3. Atomic!WithRequest(S, p, ok) = WithRequest(S, p, ok)
    <3>1. Size(S) = Atomic!Size(S)
      BY DEF Size, Atomic!Size, Entries, Atomic!Entries, Cardinality, Atomic!Cardinality
    <3> QED BY <3>1 DEF Atomic!WithRequest, WithRequest, Atomic!hashtable_get,
              hashtable_get, Atomic!RequestKey, RequestKey, Atomic!RoomFor, RoomFor,
              Atomic!hashtable_add, hashtable_add
  <2>4. r2 = WithRequest(S, p, ok)
    BY <2>1, <2>3 DEF Atomic!process_request_packet
  <2>5. t2 = [t EXCEPT ![p.dst] = stats_incr(@, TRUE, p.size)]
    BY <2>1 DEF Atomic!process_request_packet, Atomic!Counted, Atomic!stats_incr, stats_incr
  <2> HIDE DEF S, t, r, t2, r2
  <2>6. Handles(t, r, p, t2, r2)
    BY <1>1, <1>2, <2>2, <2>4, <2>5, AskHandles
  <2> QED BY <2>6 DEF t, r, t2, r2
<1>6. CASE Atomic!process_response_packet(p)
  <2>1. t[p.src] # NULL
    BY <1>6 DEF Atomic!process_response_packet, Atomic!packet_direction, Atomic!RequestDir,
                Atomic!Response, Atomic!Unknown, Atomic!hashtable_get
  <2>2. LET key     == <<p.dst, p.src>>
            counted == [t EXCEPT ![p.src] = stats_incr(@, FALSE, p.size)]
        IN  IF S[key] # NULL
            THEN /\ t2 = [counted EXCEPT ![p.src] =
                            stats_observer_latency(@, p.tv - S[key].tv)]
                 /\ r2 = [S EXCEPT ![key] = NULL]
            ELSE t2 = counted /\ r2 = S
    BY <1>6, Zenon
       DEF Atomic!process_response_packet, Atomic!ResponseKey, Atomic!hashtable_get,
           Atomic!tv_delta_us, Atomic!Counted, Atomic!Answered, Atomic!hashtable_del,
           Atomic!stats_incr, stats_incr, Atomic!stats_observer_latency,
           stats_observer_latency, Atomic!LandsIn, LandsIn, Atomic!Clamped, Clamped,
           Atomic!Buckets, Buckets
  <2> HIDE DEF S, t, r, t2, r2
  <2>3. Handles(t, r, p, t2, r2)
    BY <1>1, <1>2, <2>1, <2>2, AnswerHandles
  <2> QED BY <2>3 DEF t, r, t2, r2
<1> QED BY <1>3, <1>4, <1>5, <1>6 DEF Atomic!process_user_packet

\* A table that a reply may show.
Coherent(t) ==
  \A e \in Entries(t) :
    Weighed(t[e]) /\ Samples(t[e]) <= t[e].responses /\ Samples(t[e]) <= t[e].requests

LEMMA SoundIsCoherent ==
  ASSUME NEW t \in Tables, NEW r \in Pendings, Sound(t, r)
  PROVE  Coherent(t)
<1> SUFFICES ASSUME NEW e \in Entries(t)
             PROVE  /\ Weighed(t[e]) /\ Samples(t[e]) <= t[e].responses
                    /\ Samples(t[e]) <= t[e].requests
  BY DEF Coherent
<1>1. t[e] \in QueryStats
  BY DEF Entries, Tables
<1>2. Samples(t[e]) \in Nat /\ t[e].requests \in Nat /\ t[e].responses \in Nat
  BY <1>1, SamplesStep DEF QueryStats
<1>3. Cardinality(WaitingFor(r, e)) \in Nat
  BY EntriesFinite
<1>4. /\ Weighed(t[e]) /\ Samples(t[e]) <= t[e].responses
      /\ Samples(t[e]) + Cardinality(WaitingFor(r, e)) <= t[e].requests
  BY DEF Sound, Covered
<1> QED BY <1>2, <1>3, <1>4

\* What makes ReplyCoherent inductive: the tables the last handler left are
\* sound, and the walks saw coherent ones.
ReplyInv ==
  /\ Sound(done.syn_tab, done.requests)
  /\ Coherent(cut)
  /\ Coherent(reply)

\* Outside its critical sections the capture thread leaves a coherent table,
\* half way through a handler too.
LEMMA CoherentUnlocked ==
  ASSUME CaptureInv, Sound(done.syn_tab, done.requests), pc \notin Critical
  PROVE  Coherent(syn_tab)
<1> DEFINE t == done.syn_tab
           r == done.requests
           S == Atomic!Swept(upacket.tv)
<1>1. /\ t \in Tables /\ r \in Pendings /\ syn_tab \in Tables /\ requests \in Pendings
  BY DEF CaptureInv, TypeOK, Atomic!TypeOK, Tables, Pendings, Atomic!Conns, Atomic!Request,
         Atomic!QueryStats, Atomic!Buckets, Conns, Request, QueryStats, Buckets
<1>2. Coherent(t)
  <2> HIDE DEF t, r
  <2> QED BY <1>1, SoundIsCoherent DEF t, r
<1>3. CASE pc = Idle
  BY <1>2, <1>3 DEF CaptureInv, DoneInv, State
<1>4. CASE pc # Idle
  <2>1. Begun /\ Progress /\ upacket \in Packets
    BY <1>4, InHand DEF CaptureInv
  <2>2. pc \in {"syn", "direction", "request", "response", "report"}
    BY <1>4 DEF CaptureInv, DoneInv, Steps, Critical, Idle
  <2>3. requests = S /\ Entries(S) \subseteq Entries(r)
    <3>1. S = r \/ \E X : S = hashtable_sweep(r, X)
      BY DEF Atomic!Swept, Atomic!requests_expire, Atomic!hashtable_sweep, hashtable_sweep
    <3>2. requests = S
      BY <2>1 DEF Begun
    <3> HIDE DEF S, r
    <3> QED BY <1>1, <3>1, <3>2, SweepShrinks
  <2>4. CASE pc \in {"syn", "direction"}
    BY <1>2, <2>1, <2>4 DEF Progress
  <2>5. CASE pc = "request"
    <3>1. t[upacket.dst] # NULL
      BY <2>1, <2>5 DEF Progress, Dir, Atomic!packet_direction, RequestDir,
                  Atomic!RequestDir, Atomic!Response, Atomic!Unknown, Atomic!hashtable_get
    <3>2. syn_tab = [t EXCEPT ![upacket.dst] = stats_incr(@, TRUE, upacket.size)]
      BY <2>1, <2>5 DEF Progress, Full, Atomic!Counted, Atomic!stats_incr, stats_incr
    <3> HIDE DEF t, r, S
    <3>3. Handles(t, r, upacket, syn_tab, requests)
      BY <2>3, <3>1, <3>2 DEF Handles
    <3>4. Sound(syn_tab, requests)
      BY <1>1, <2>1, <3>3, HandlesKeeps DEF t, r
    <3> QED BY <1>1, <3>4, SoundIsCoherent
  <2>6. CASE pc \in {"response", "report"}
    <3> DEFINE counted == [t EXCEPT ![upacket.src] = stats_incr(@, FALSE, upacket.size)]
               key == <<upacket.dst, upacket.src>>
    <3>1. Dir = Response
      BY <2>1, <2>6 DEF Progress
    <3>2. t[upacket.src] # NULL
      BY <3>1 DEF Dir, Atomic!packet_direction, Response,
                  Atomic!RequestDir, Atomic!Response, Atomic!Unknown, Atomic!hashtable_get
    <3>3. Full = counted
      BY <3>1 DEF Full, Atomic!Counted, Atomic!stats_incr, stats_incr, RequestDir, Response
    <3>4. CASE pc = "response"
      <4>1. syn_tab = counted
        BY <2>1, <3>3, <3>4 DEF Progress
      <4> HIDE DEF t, r, S
      <4>2. Handles(t, r, upacket, syn_tab, requests)
        BY <2>3, <3>2, <4>1 DEF Handles
      <4>3. Sound(syn_tab, requests)
        BY <1>1, <2>1, <4>2, HandlesKeeps DEF t, r
      <4> QED BY <1>1, <4>3, SoundIsCoherent
    <3>5. CASE pc = "report"
      <4> DEFINE r2 == [requests EXCEPT ![key] = NULL]
      <4>1. Pending # NULL /\ syn_tab = Sampled
        BY <2>1, <3>5 DEF Progress
      <4>2. requests[key] # NULL
        BY <4>1 DEF Pending, ResponseKey, hashtable_get
      <4>3. syn_tab = [counted EXCEPT ![upacket.src] =
                         stats_observer_latency(@, upacket.tv - requests[key].tv)]
        BY <3>3, <4>1 DEF Sampled, Delta, Pending, ResponseKey, hashtable_get, tv_delta_us
      <4> HIDE DEF t, r, S
      <4>4. Handles(t, r, upacket, syn_tab, r2)
        BY <1>1, <2>1, <2>3, <3>2, <4>2, <4>3, AnswerHandles
      <4>5. r2 \in Pendings
        BY <1>1 DEF Pendings
      <4> HIDE DEF r2
      <4>6. Sound(syn_tab, r2)
        BY <1>1, <2>1, <4>4, <4>5, HandlesKeeps DEF t, r
      <4> QED BY <1>1, <4>5, <4>6, SoundIsCoherent
    <3> QED BY <2>6, <3>4, <3>5
  <2> QED BY <2>2, <2>4, <2>5, <2>6
<1> QED BY <1>3, <1>4

LEMMA ReplyInvInit == SharedInit => ReplyInv
<1> SUFFICES ASSUME SharedInit PROVE ReplyInv
  OBVIOUS
<1>1. done.syn_tab = hashtable_create(Endpoints) /\ done.requests = hashtable_create(Conns)
  BY DEF SharedInit, State, Init
<1>2. Sound(done.syn_tab, done.requests)
  BY <1>1, SoundInit
<1>3. Coherent(cut) /\ Coherent(reply)
  BY DEF SharedInit, Coherent, Entries, hashtable_create
<1> QED BY <1>2, <1>3 DEF ReplyInv

LEMMA ReplyInvStep ==
  SharedInv /\ ReplyInv /\ [SharedNext]_sharedVars => ReplyInv'
<1> SUFFICES ASSUME SharedInv, ReplyInv, [SharedNext]_sharedVars PROVE ReplyInv'
  OBVIOUS
<1>1. SharedInv' /\ [Atomic!Next]_(Atomic!vars)
  BY SharedInvStep, AtomicStep
<1>2. Sound(done.syn_tab, done.requests)'
  <2> DEFINE t == done.syn_tab
             r == done.requests
  <2>1. /\ t \in Tables /\ r \in Pendings /\ r' \in Pendings /\ Sound(t, r)
    BY <1>1 DEF SharedInv, ReplyInv, Atomic!TypeOK, Tables, Pendings, Atomic!Conns,
         Atomic!Request, Atomic!QueryStats, Atomic!Buckets, Conns, Request, QueryStats, Buckets
  <2>2. CASE Atomic!Next
    <3>1. PICK p \in Atomic!Packets : Atomic!process_user_packet(p)
      BY <2>2 DEF Atomic!Next
    <3>2. p \in Packets
      BY DEF Packets, Atomic!Packets
    <3>3. Handles(t, r, p, t', r')
      BY <3>1, <3>2, AtomicHandles DEF SharedInv
    <3> HIDE DEF t, r
    <3>4. Sound(t', r')
      BY <2>1, <3>2, <3>3, HandlesKeeps
    <3> QED BY <3>4 DEF t, r
  <2>3. CASE UNCHANGED Atomic!vars
    <3>1. t' = t /\ r' = r
      BY <2>3 DEF Atomic!vars, Atomic!trackerVars
    <3> HIDE DEF t, r
    <3>2. Sound(t', r')
      BY <2>1, <3>1
    <3> QED BY <3>2 DEF t, r
  <2> QED BY <1>1, <2>2, <2>3
<1>3. Coherent(cut')
  <2>1. CASE cut' = cut
    BY <2>1 DEF ReplyInv
  <2>2. CASE cut' # cut
    <3>1. WalkLock
      BY <2>2, CapturingFrame DEF SharedNext, Capturing, StatsStep, Accept, Walk, Publish,
                                  statsVars, sharedVars
    <3>2. cut' = syn_tab /\ pc \notin Critical
      BY <3>1, ThreadAssumption DEF WalkLock, sniffer_stats_lock, SharedInv, LockInv
    <3>3. CaptureInv /\ Sound(done.syn_tab, done.requests)
      BY DEF SharedInv, CaptureInv, ReplyInv
    <3> QED BY <3>2, <3>3, CoherentUnlocked
  <2> QED BY <2>1, <2>2
<1>4. Coherent(reply')
  <2>1. CASE reply' = reply
    BY <2>1 DEF ReplyInv
  <2>2. CASE reply' # reply
    <3>1. Publish
      BY <2>2, CapturingFrame DEF SharedNext, Capturing, StatsStep, Accept, Walk, WalkLock,
                                  statsVars, sharedVars
    <3>2. statsPc' = "poll"
      BY <3>1 DEF Publish
    <3>3. reply' = cut'
      BY <1>1, <3>2 DEF SharedInv, WalkInv
    <3> QED BY <1>3, <3>3
  <2> QED BY <2>1, <2>2
<1> QED BY <1>2, <1>3, <1>4 DEF ReplyInv

\* No client sees a torn reply, for every set of endpoints and frame lengths and
\* however packets and clients interleave: each counted packet has its bytes,
\* and no endpoint shows more samples than requests or responses.
THEOREM ReplyCoherentHolds == SharedSpec => []ReplyCoherent
<1>1. ReplyInv => ReplyCoherent
  BY DEF ReplyInv, Coherent, Weighed, ReplyCoherent
<1> QED BY <1>1, ReplyInvInit, ReplyInvStep, SharedInvariant, PTL DEF SharedSpec

-----------------------------------------------------------------------------
(* The lines, for clients that wait for each answer *)

\* What the theorems about Session assume of the traffic: no timestamp lags behind
\* an earlier one, every client waits for its answer before it asks again, and the
\* table has room for a request of each.
Patient ==
  /\ MaxSkew = 0
  /\ \A kind \in Traffics : kind.depth = 1
  /\ Cardinality(Clients) <= MAX_PENDING_REQUESTS

Key(c) == <<c, Server>>

\* A client's request in flight and the request the tracker has pending for it.
ClientInv(c) ==
  /\ inflight[c] \in {<<>>} \cup {<<t>> : t \in Times}
  /\ inflight[c] # <<>> => c \in connected /\ inflight[c][1] <= newest
  /\ c \in answering => inflight[c] = <<>> /\ c \in connected
  /\ requests[Key(c)] # NULL => requests[Key(c)].tv <= newest
  /\ traffic.missed = 0 =>
       IF inflight[c] = <<>> THEN requests[Key(c)] = NULL
       ELSE \/ requests[Key(c)] = [tv |-> inflight[c][1]]
            \/ newest - inflight[c][1] > REQUEST_TIMEOUT_US
  /\ ~traffic.segmented =>
       (inflight[c] # <<>> /\ requests[Key(c)] # NULL => requests[Key(c)].tv <= inflight[c][1])

\* Only the server is registered, and only requests of clients to it are pending.
ServerInv ==
  /\ \A c \in Clients : syn_tab[c] = NULL
  /\ connected # {} => syn_tab[Server] # NULL
  /\ \A k \in Conns : requests[k] # NULL => \E c \in Clients : k = Key(c)

SessionInv ==
  /\ TypeOK /\ ServerInv
  /\ traffic \in Traffics /\ missed \in Nat /\ connected \subseteq Clients
  /\ DOMAIN inflight = Clients
  /\ \A c \in Clients : ClientInv(c)
  /\ ReportsTrueLatency /\ NeverTooShort

LEMMA ConnFacts ==
  /\ Server \in Endpoints /\ Clients \subseteq Endpoints /\ Server \notin Clients
  /\ \A c \in Clients : Key(c) \in Conns
  /\ \A c, d \in Clients : Key(c) = Key(d) => c = d
BY SessionAssumption DEF Clients, Key, Conns

\* The four kinds of segments.
SynOf(c, t) == Segment(c, Server, t, TRUE, FALSE, 0)
SynAckOf(c, t) == Segment(Server, c, t, TRUE, TRUE, 0)
RequestOf(c, t) == Segment(c, Server, t, FALSE, FALSE, 1)
ResponseOf(c, t) == Segment(Server, c, t, FALSE, FALSE, 1)

Handshake(p) == p.payload_size = 0 /\ p.syn /\ ServerEnd(p) = Server

LEMMA SynFacts ==
  ASSUME NEW c \in Clients, NEW t \in Times, NEW p, p = SynOf(c, t) \/ p = SynAckOf(c, t)
  PROVE  p \in Packets /\ Handshake(p)
<1>1. PICK n \in Sizes : n = CHOOSE m \in Sizes : TRUE
  BY SessionAssumption
<1>2. c \in Endpoints /\ Server \in Endpoints
  BY ConnFacts
<1>3. CASE p = SynOf(c, t)
  BY <1>1, <1>2, <1>3 DEF SynOf, Segment, Packets, ServerEnd, Handshake
<1>4. CASE p = SynAckOf(c, t)
  BY <1>1, <1>2, <1>4 DEF SynAckOf, Segment, Packets, ServerEnd, Handshake
<1> QED BY <1>3, <1>4

LEMMA SegmentFacts ==
  ASSUME NEW c \in Clients, NEW t \in Times, NEW p
  PROVE  /\ p = RequestOf(c, t) =>
              p \in Packets /\ p.tv = t /\ p.payload_size = 1 /\ p.src = c /\ p.dst = Server
         /\ p = ResponseOf(c, t) =>
              p \in Packets /\ p.tv = t /\ p.payload_size = 1 /\ p.src = Server /\ p.dst = c
<1>1. PICK n \in Sizes : n = CHOOSE m \in Sizes : TRUE
  BY SessionAssumption
<1>2. c \in Endpoints /\ Server \in Endpoints
  BY ConnFacts
<1>3. ASSUME p = RequestOf(c, t)
      PROVE  p \in Packets /\ p.tv = t /\ p.payload_size = 1 /\ p.src = c /\ p.dst = Server
  BY <1>1, <1>2, <1>3 DEF RequestOf, Segment, Packets
<1>4. ASSUME p = ResponseOf(c, t)
      PROVE  p \in Packets /\ p.tv = t /\ p.payload_size = 1 /\ p.src = Server /\ p.dst = c
  BY <1>1, <1>2, <1>4 DEF ResponseOf, Segment, Packets
<1> QED BY <1>3, <1>4

\* A segment is a packet that the tracker handles in order.
LEMMA CaptureClock ==
  ASSUME TypeOK, MaxSkew = 0, NEW p \in Packets, Capture(p)
  PROVE  /\ TypeOK' /\ newest \in Nat /\ p.tv \in Nat /\ newest <= p.tv /\ newest' = p.tv
         /\ p.tv \in Times
<1>1. Step(p)
  BY DEF Capture, Step, process_user_packet
<1>2. TypeOK'
  BY <1>1, TypeStep DEF Next, Step
<1>3. newest \in Nat /\ p.tv \in Times /\ p.tv \in Nat
  BY TimeAssumption DEF TypeOK, Packets
<1>4. newest <= p.tv /\ newest' = p.tv
  BY <1>1, <1>3 DEF Step, Arrive
<1> QED BY <1>2, <1>3, <1>4

\* The registrations after a packet that touches the server's counters only.
ServerOnly == \A c \in Clients : syn_tab'[c] = NULL

\* The handshake registers the server.
LEMMA SynEffect ==
  ASSUME SessionInv, MaxSkew = 0, NEW p \in Packets, Capture(p), Handshake(p)
  PROVE  /\ requests' = Swept(p.tv) /\ printed' = NULL
         /\ syn_tab'[Server] # NULL /\ ServerOnly
<1>1. RegisterEndpoint(p, TRUE)
  BY DEF Capture, IgnoreEmpty, IgnoreUnknown, process_request_packet, process_response_packet,
         Handshake
<1>2. /\ requests' = Swept(p.tv) /\ printed' = NULL
      /\ syn_tab' = hashtable_add(syn_tab, Server, NewStats)
  <2>1. ServerEnd(p) = Server
    BY DEF Handshake
  <2> QED BY <1>1, <2>1, EndpointAdded, Zenon DEF RegisterEndpoint
<1>3. /\ syn_tab \in [Endpoints -> QueryStats \cup {NULL}] /\ \A c \in Clients : syn_tab[c] = NULL
      /\ NewStats # NULL
  BY StatsTypes, NullAssumption DEF SessionInv, TypeOK, ServerInv
<1>4. syn_tab' = syn_tab \/ syn_tab' = [syn_tab EXCEPT ![Server] = NewStats]
  BY <1>2 DEF hashtable_add
<1>5. syn_tab'[Server] # NULL
  BY <1>2, <1>3, ConnFacts DEF hashtable_add
<1> QED BY <1>2, <1>3, <1>4, <1>5, ConnFacts DEF ServerOnly

\* Counting a packet for the server leaves the others alone.
LEMMA CountServer ==
  ASSUME SessionInv, NEW b \in BOOLEAN, NEW p, NEW c \in Clients
  PROVE  /\ Counted(Server, b, p)[c] = NULL
         /\ c \in DOMAIN Counted(Server, b, p) /\ c # Server
<1>1. syn_tab \in [Endpoints -> QueryStats \cup {NULL}] /\ syn_tab[c] = NULL
  BY DEF SessionInv, TypeOK, ServerInv
<1>2. PICK x : Counted(Server, b, p) = [syn_tab EXCEPT ![Server] = x]
  BY DEF Counted
<1>3. PICK D : D = Counted(Server, b, p)
  OBVIOUS
<1>4. D[c] = NULL /\ c \in DOMAIN D /\ c # Server
  BY <1>1, <1>2, <1>3, ConnFacts
<1> QED BY <1>3, <1>4

\* A segment of a request, from a client to the server.
LEMMA AskEffect ==
  ASSUME SessionInv, MaxSkew = 0, NEW p \in Packets, Capture(p),
         NEW c \in connected, p.src = c, p.dst = Server, p.payload_size = 1
  PROVE  /\ requests' = WithRequest(Swept(p.tv), p, TRUE) /\ printed' = NULL
         /\ syn_tab'[Server] # NULL /\ ServerOnly
<1>1. syn_tab[c] = NULL /\ syn_tab[Server] # NULL
  BY DEF SessionInv, ServerInv
<1>2. packet_direction(p) \notin {Response, Unknown} /\ p.payload_size # 0
  BY <1>1 DEF packet_direction, hashtable_get, RequestDir, Unknown, Response
<1>3. process_request_packet(p, TRUE)
  BY <1>2, Zenon DEF Capture, RegisterEndpoint, IgnoreEmpty, IgnoreUnknown, process_response_packet
<1>4. /\ requests' = WithRequest(Swept(p.tv), p, TRUE) /\ printed' = NULL
      /\ syn_tab' = Counted(Server, TRUE, p)
  BY <1>3 DEF process_request_packet
<1>5. ServerOnly
  BY <1>4, CountServer DEF ServerOnly
<1>6. process_user_packet(p)
  BY DEF Capture, process_user_packet
<1>7. syn_tab'[Server] # NULL
  BY <1>1, <1>6, SynTabStep, ConnFacts DEF SessionInv
<1> QED BY <1>4, <1>5, <1>7

\* A segment of a response, from the server to a client.
LEMMA AnswerEffect ==
  ASSUME SessionInv, MaxSkew = 0, NEW p \in Packets, Capture(p),
         NEW c \in connected, p.src = Server, p.dst = c, p.payload_size = 1,
         NEW S, S = Swept(p.tv)
  PROVE  /\ IF S[Key(c)] = NULL THEN requests' = S /\ printed' = NULL
            ELSE /\ requests' = [S EXCEPT ![Key(c)] = NULL]
                 /\ printed' = Line(p.tv - S[Key(c)].tv)
         /\ syn_tab'[Server] # NULL /\ ServerOnly
<1>1. syn_tab[Server] # NULL
  BY DEF SessionInv, ServerInv
<1>2. packet_direction(p) \notin {RequestDir, Unknown} /\ p.payload_size # 0
  BY <1>1 DEF packet_direction, hashtable_get, RequestDir, Unknown, Response
<1>3. process_response_packet(p)
  BY <1>2, Zenon DEF Capture, RegisterEndpoint, IgnoreEmpty, IgnoreUnknown, process_request_packet
<1>4. /\ IF S[Key(c)] = NULL THEN requests' = S /\ printed' = NULL
         ELSE /\ requests' = [S EXCEPT ![Key(c)] = NULL]
              /\ printed' = Line(p.tv - S[Key(c)].tv)
      /\ \/ syn_tab' = Counted(Server, FALSE, p)
         \/ \E st : syn_tab' = [Counted(Server, FALSE, p) EXCEPT ![Server] = st]
  <2>1. ResponseKey(p) = Key(c)
    BY DEF ResponseKey, Key
  <2>2. CASE S[Key(c)] = NULL
    BY <1>3, <2>1, <2>2 DEF process_response_packet, hashtable_get
  <2>3. CASE S[Key(c)] # NULL
    BY <1>3, <2>1, <2>3
       DEF process_response_packet, hashtable_get, hashtable_del, Answered, tv_delta_us
  <2> QED BY <2>2, <2>3
<1>5. ServerOnly
  <2>1. CASE syn_tab' = Counted(Server, FALSE, p)
    BY <2>1, CountServer DEF ServerOnly
  <2>2. CASE \E st : syn_tab' = [Counted(Server, FALSE, p) EXCEPT ![Server] = st]
    <3>1. PICK D : D = Counted(Server, FALSE, p)
      OBVIOUS
    <3>2. \A d \in Clients : D[d] = NULL /\ d \in DOMAIN D /\ d # Server
      BY <3>1, CountServer
    <3>3. PICK st : syn_tab' = [D EXCEPT ![Server] = st]
      BY <2>2, <3>1
    <3> QED BY <3>2, <3>3 DEF ServerOnly
  <2> QED BY <1>4, <2>1, <2>2
<1>6. process_user_packet(p)
  BY DEF Capture, process_user_packet
<1>7. syn_tab'[Server] # NULL
  BY <1>1, <1>6, SynTabStep, ConnFacts DEF SessionInv
<1> QED BY <1>4, <1>5, <1>7

\* The sweep of the pending table, as a client's request sees it.
LEMMA SweptPending ==
  ASSUME SessionInv, NEW t \in Times, NEW S, S = Swept(t)
  PROVE  /\ S \in [Conns -> Request \cup {NULL}]
         /\ \A k \in Conns : S[k] # NULL => S[k] = requests[k] /\ S[k].tv \in Nat
         /\ \A k \in Conns : S[k] = NULL /\ requests[k] # NULL =>
                               t - requests[k].tv > REQUEST_TIMEOUT_US
<1>1. TypeOK
  BY DEF SessionInv
<1>2. /\ S \in [Conns -> Request \cup {NULL}]
      /\ \A k \in Conns : S[k] # NULL => S[k] = requests[k]
      /\ \A k \in Conns : S[k] = NULL /\ requests[k] # NULL =>
                            t - requests[k].tv > REQUEST_TIMEOUT_US
  BY <1>1, SweptFacts
<1>3. \A k \in Conns : S[k] # NULL => S[k].tv \in Nat
  BY <1>2, TimeAssumption DEF Request
<1> QED BY <1>2, <1>3

\* A packet of another connection can only take a client's request away, and
\* only past its timeout.
LEMMA ClientKept ==
  ASSUME SessionInv, MaxSkew = 0, NEW p \in Packets, Capture(p), traffic' = traffic,
         NEW d \in Clients, requests'[Key(d)] = Swept(p.tv)[Key(d)],
         inflight'[d] = inflight[d], connected \subseteq connected',
         d \in answering' => d \in answering
  PROVE  ClientInv(d)'
<1> DEFINE k == Key(d)
<1>0. PICK S : S = Swept(p.tv)
  OBVIOUS
<1>1. /\ p.tv \in Nat /\ newest \in Nat /\ newest <= p.tv /\ newest' = p.tv /\ p.tv \in Times
  BY CaptureClock DEF SessionInv
<1>2. /\ k \in Conns /\ requests'[k] = S[k]
      /\ S[k] # NULL => S[k] = requests[k] /\ S[k].tv \in Nat
      /\ S[k] = NULL /\ requests[k] # NULL => p.tv - requests[k].tv > REQUEST_TIMEOUT_US
  BY <1>0, <1>1, SweptPending, ConnFacts
<1>3. ClientInv(d) /\ REQUEST_TIMEOUT_US \in Nat
  BY TimeAssumption DEF SessionInv
<1>4. inflight[d] # <<>> => inflight[d][1] \in Nat
  BY <1>3, TimeAssumption DEF ClientInv
<1>5. requests'[k] # NULL => requests'[k].tv <= newest'
  BY <1>1, <1>2, <1>3 DEF ClientInv
<1>6. ASSUME traffic.missed = 0, inflight[d] # <<>>
      PROVE  \/ requests'[k] = [tv |-> inflight[d][1]]
             \/ newest' - inflight[d][1] > REQUEST_TIMEOUT_US
  <2>1. CASE newest - inflight[d][1] > REQUEST_TIMEOUT_US
    BY <1>1, <1>3, <1>4, <1>6, <2>1
  <2>2. CASE requests[k] = [tv |-> inflight[d][1]]
    <3>1. requests[k].tv = inflight[d][1] /\ requests[k] # NULL
      BY <1>3, <1>6, <2>2, NullAssumption DEF ClientInv, Request
    <3> QED BY <1>1, <1>2, <2>2, <3>1
  <2> QED BY <1>3, <1>6, <2>1, <2>2 DEF ClientInv
<1>7. traffic.missed = 0 /\ inflight[d] = <<>> => requests'[k] = NULL
  BY <1>2, <1>3 DEF ClientInv
<1>8. ~traffic.segmented /\ inflight[d] # <<>> /\ requests'[k] # NULL =>
        requests'[k].tv <= inflight[d][1]
  BY <1>2, <1>3 DEF ClientInv
<1>9. inflight[d] # <<>> => d \in connected' /\ inflight[d][1] <= newest'
  BY <1>1, <1>3, <1>4 DEF ClientInv
<1> QED BY <1>3, <1>5, <1>6, <1>7, <1>8, <1>9 DEF ClientInv

\* Beyond the client whose packet it is, a packet keeps the invariant.
LEMMA CapturedInv ==
  ASSUME SessionInv, MaxSkew = 0, NEW p \in Packets, Capture(p), NEW c \in Clients,
         UNCHANGED <<traffic, missed>>, connected \subseteq connected',
         connected' \subseteq Clients, DOMAIN inflight' = Clients,
         \A d \in Clients \ {c} : /\ inflight'[d] = inflight[d]
                                  /\ d \in answering' => d \in answering,
         \A k \in Conns \ {Key(c)} : requests'[k] = Swept(p.tv)[k],
         ServerOnly, syn_tab'[Server] # NULL,
         ClientInv(c)', ReportsTrueLatency', NeverTooShort'
  PROVE  SessionInv'
<1>1. TypeOK' /\ p.tv \in Times
  BY CaptureClock DEF SessionInv
<1>2. \A d \in Clients : ClientInv(d)'
  BY ClientKept, ConnFacts
<1>3. \A k \in Conns : requests'[k] # NULL => \E d \in Clients : k = Key(d)
  <2>1. \A k \in Conns \ {Key(c)} : requests'[k] # NULL => requests[k] # NULL
    BY <1>1, SweptPending
  <2> QED BY <2>1 DEF SessionInv, ServerInv
<1>4. ServerInv'
  BY <1>3 DEF ServerInv, ServerOnly
<1> QED BY <1>1, <1>2, <1>4 DEF SessionInv

\* Nothing is printed for a packet that begins no response.
LEMMA NothingPrinted ==
  ASSUME printed' = NULL, truth' = NULL
  PROVE  ReportsTrueLatency' /\ NeverTooShort'
BY DEF ReportsTrueLatency, NeverTooShort

LEMMA ConnectInv ==
  ASSUME SessionInv, MaxSkew = 0, NEW c \in Clients, NEW t \in Times, Connect(c, t),
         UNCHANGED traffic
  PROVE  SessionInv'
<1>1. /\ connected' = connected \cup {c} /\ truth' = NULL
      /\ UNCHANGED <<inflight, answering, missed>>
  BY DEF Connect
<1>2. PICK p \in Packets : Capture(p) /\ Handshake(p)
  <2>1. PICK p : /\ p = SynOf(c, t) \/ p = SynAckOf(c, t)
                 /\ Capture(p)
    BY Zenon DEF Connect, SynOf, SynAckOf
  <2> QED BY <2>1, SynFacts
<1>3. requests' = Swept(p.tv) /\ printed' = NULL /\ syn_tab'[Server] # NULL /\ ServerOnly
  BY <1>2, SynEffect
<1>4. ClientInv(c)'
  BY <1>1, <1>2, <1>3, ClientKept
<1>5. ReportsTrueLatency' /\ NeverTooShort'
  BY <1>1, <1>3, NothingPrinted
<1>6. DOMAIN inflight' = Clients /\ connected' \subseteq Clients
  BY <1>1 DEF SessionInv
<1> QED BY <1>1, <1>2, <1>3, <1>4, <1>5, <1>6, CapturedInv

\* The pending table has room for a client that has nothing pending.
LEMMA AskRoom ==
  ASSUME SessionInv, Patient, NEW c \in Clients, NEW t \in Times, NEW S, S = Swept(t),
         S[Key(c)] = NULL
  PROVE  RoomFor(S)
<1> DEFINE D == Clients \ {c}
           T == {Key(d) : d \in D}
           f == [d \in D |-> Key(d)]
<1>1. IsFiniteSet(Clients)
  BY SizeAssumption, FS_Subset, ConnFacts
<1>2. IsFiniteSet(D) /\ Cardinality(D) = Cardinality(Clients) - 1 /\ Cardinality(Clients) \in Nat
  BY <1>1, FS_RemoveElement, FS_CardinalityType
<1>3. f \in Surjection(D, T)
  BY DEF Surjection
<1>4. IsFiniteSet(T) /\ Cardinality(T) <= Cardinality(D)
  <2> HIDE DEF D, T, f
  <2> QED BY <1>2, <1>3, FS_Surjection
<1>5. Entries(S) \subseteq T
  BY SweptPending DEF Entries, SessionInv, ServerInv
<1>6. Cardinality(Entries(S)) <= Cardinality(T) /\ Cardinality(Entries(S)) \in Nat
      /\ Cardinality(T) \in Nat
  <2> HIDE DEF T
  <2> QED BY <1>4, <1>5, FS_Subset, FS_CardinalityType
<1> HIDE DEF D, T
<1> QED BY <1>2, <1>4, <1>6, SizeAssumption, FS_CardinalityType DEF RoomFor, Size, Patient

\* The pending table after a segment of a request.
LEMMA AskPending ==
  ASSUME SessionInv, MaxSkew = 0, NEW c \in connected, NEW t \in Times, NEW p, NEW S,
         p = RequestOf(c, t), Capture(p), S = Swept(t)
  PROVE  /\ p \in Packets /\ p.tv = t /\ printed' = NULL /\ syn_tab'[Server] # NULL /\ ServerOnly
         /\ \A k \in Conns \ {Key(c)} : requests'[k] = S[k]
         /\ requests'[Key(c)] = IF S[Key(c)] = NULL /\ RoomFor(S) THEN [tv |-> t] ELSE S[Key(c)]
         /\ t \in Nat /\ newest \in Nat /\ newest <= t /\ newest' = t
         /\ Key(c) \in Conns
         /\ S[Key(c)] # NULL => S[Key(c)] = requests[Key(c)] /\ S[Key(c)].tv \in Nat
         /\ S[Key(c)] = NULL /\ requests[Key(c)] # NULL =>
              t - requests[Key(c)].tv > REQUEST_TIMEOUT_US
<1>1. c \in Clients
  BY DEF SessionInv
<1>2. p \in Packets /\ p.tv = t /\ p.payload_size = 1 /\ p.src = c /\ p.dst = Server
  BY <1>1, SegmentFacts
<1>3. /\ requests' = WithRequest(S, p, TRUE) /\ printed' = NULL
      /\ syn_tab'[Server] # NULL /\ ServerOnly
  BY <1>2, AskEffect
<1>4. /\ S \in [Conns -> Request \cup {NULL}] /\ Key(c) \in Conns
      /\ S[Key(c)] # NULL => S[Key(c)] = requests[Key(c)] /\ S[Key(c)].tv \in Nat
      /\ S[Key(c)] = NULL /\ requests[Key(c)] # NULL =>
           t - requests[Key(c)].tv > REQUEST_TIMEOUT_US
  BY <1>1, SweptPending, ConnFacts
<1>5. requests' = IF S[Key(c)] = NULL /\ RoomFor(S) THEN [S EXCEPT ![Key(c)] = [tv |-> t]] ELSE S
  BY <1>2, <1>3 DEF WithRequest, RequestKey, Key, hashtable_get, hashtable_add
<1>6. /\ \A k \in Conns \ {Key(c)} : requests'[k] = S[k]
      /\ requests'[Key(c)] = IF S[Key(c)] = NULL /\ RoomFor(S) THEN [tv |-> t] ELSE S[Key(c)]
  BY <1>4, <1>5
<1>7. t \in Nat /\ newest \in Nat /\ newest <= t /\ newest' = t
  BY <1>2, CaptureClock DEF SessionInv
<1> QED BY <1>2, <1>3, <1>4, <1>6, <1>7

LEMMA AskInv ==
  ASSUME SessionInv, Patient, NEW c \in Clients, NEW t \in Times, Ask(c, t),
         UNCHANGED traffic
  PROVE  SessionInv'
<1> DEFINE k == Key(c)
<1>1. PICK p, S : p = RequestOf(c, t) /\ S = Swept(t)
  OBVIOUS
<1>2. /\ MaxSkew = 0 /\ c \in connected /\ Capture(p) /\ Len(inflight[c]) < 1
      /\ inflight' = [inflight EXCEPT ![c] = Append(inflight[c], t)]
      /\ answering' = IF inflight[c] = <<>> THEN answering \ {c} ELSE answering
      /\ truth' = NULL /\ UNCHANGED <<connected, missed>>
  BY <1>1 DEF Ask, RequestOf, Patient, SessionInv
<1>3. ClientInv(c) /\ DOMAIN inflight = Clients
  BY DEF SessionInv
<1>4. inflight[c] = <<>>
  BY <1>2, <1>3 DEF ClientInv
<1>5. /\ inflight'[c] = <<t>> /\ DOMAIN inflight' = Clients /\ c \notin answering'
      /\ \A d \in Clients \ {c} : inflight'[d] = inflight[d] /\ (d \in answering' => d \in answering)
  BY <1>2, <1>3, <1>4
<1>6. /\ p \in Packets /\ p.tv = t /\ printed' = NULL /\ syn_tab'[Server] # NULL /\ ServerOnly
      /\ \A x \in Conns \ {k} : requests'[x] = S[x]
      /\ requests'[k] = IF S[k] = NULL /\ RoomFor(S) THEN [tv |-> t] ELSE S[k]
      /\ t \in Nat /\ newest \in Nat /\ newest <= t /\ newest' = t
      /\ S[k] # NULL => S[k] = requests[k] /\ S[k].tv \in Nat
  BY <1>1, <1>2, AskPending
<1>7. requests'[k] # NULL => requests'[k].tv <= t
  BY <1>3, <1>6 DEF ClientInv
<1>8. traffic.missed = 0 => requests'[k] = [tv |-> t]
  <2>1. traffic.missed = 0 => S[k] = NULL
    BY <1>3, <1>4, <1>6 DEF ClientInv
  <2>2. S[k] = NULL => RoomFor(S)
    BY <1>1, AskRoom
  <2> QED BY <1>6, <2>1, <2>2
<1>9. ClientInv(c)'
  BY <1>2, <1>5, <1>6, <1>7, <1>8 DEF ClientInv
<1>10. ReportsTrueLatency' /\ NeverTooShort'
  BY <1>2, <1>6, NothingPrinted
<1>11. connected' \subseteq Clients
  BY <1>2 DEF SessionInv
<1> QED BY <1>1, <1>2, <1>5, <1>6, <1>9, <1>10, <1>11, CapturedInv

LEMMA AskMoreInv ==
  ASSUME SessionInv, Patient, NEW c \in Clients, NEW t \in Times, AskMore(c, t),
         UNCHANGED traffic
  PROVE  SessionInv'
<1> DEFINE k == Key(c)
<1>1. PICK p, S : p = RequestOf(c, t) /\ S = Swept(t)
  OBVIOUS
<1>2. /\ MaxSkew = 0 /\ traffic.segmented /\ inflight[c] # <<>> /\ Capture(p)
      /\ truth' = NULL /\ UNCHANGED <<connected, inflight, answering, missed>>
  BY <1>1 DEF AskMore, RequestOf, Patient
<1>3. ClientInv(c) /\ DOMAIN inflight' = Clients /\ connected' \subseteq Clients
  BY <1>2 DEF SessionInv
<1>4. PICK s \in Times : inflight[c] = <<s>>
  BY <1>2, <1>3 DEF ClientInv
<1>5. s \in Nat /\ c \in connected /\ REQUEST_TIMEOUT_US \in Nat /\ s <= newest
  BY <1>2, <1>3, <1>4, TimeAssumption DEF ClientInv
<1>6. /\ p \in Packets /\ p.tv = t /\ printed' = NULL /\ syn_tab'[Server] # NULL /\ ServerOnly
      /\ \A x \in Conns \ {k} : requests'[x] = S[x]
      /\ requests'[k] = IF S[k] = NULL /\ RoomFor(S) THEN [tv |-> t] ELSE S[k]
      /\ t \in Nat /\ newest \in Nat /\ newest <= t /\ newest' = t
      /\ S[k] # NULL => S[k] = requests[k] /\ S[k].tv \in Nat
      /\ S[k] = NULL /\ requests[k] # NULL => t - requests[k].tv > REQUEST_TIMEOUT_US
  BY <1>1, <1>2, <1>5, AskPending
<1>7. requests'[k] # NULL => requests'[k].tv <= t
  BY <1>3, <1>6 DEF ClientInv
<1>8. traffic.missed = 0 => requests'[k] = [tv |-> s] \/ t - s > REQUEST_TIMEOUT_US
  <2>1. ASSUME traffic.missed = 0, ~(t - s > REQUEST_TIMEOUT_US)
        PROVE  requests'[k] = [tv |-> s]
    <3>1. ~(newest - s > REQUEST_TIMEOUT_US)
      BY <1>5, <1>6, <2>1
    <3>2. requests[k] = [tv |-> s] /\ requests[k] # NULL /\ requests[k].tv = s
      BY <1>3, <1>4, <2>1, <3>1, NullAssumption DEF ClientInv, Request
    <3> QED BY <1>6, <2>1, <3>2
  <2> QED BY <2>1
<1>9. ClientInv(c)'
  BY <1>2, <1>3, <1>4, <1>5, <1>6, <1>7, <1>8 DEF ClientInv
<1>10. ReportsTrueLatency' /\ NeverTooShort'
  BY <1>2, <1>6, NothingPrinted
<1> QED BY <1>1, <1>2, <1>3, <1>6, <1>9, <1>10, CapturedInv

\* A client that has nothing in flight any more has nothing pending.
LEMMA AnsweredClient ==
  ASSUME SessionInv, NEW c \in Clients, inflight'[c] = <<>>, requests'[Key(c)] = NULL,
         c \in connected'
  PROVE  ClientInv(c)'
BY DEF ClientInv

\* The pending table and the line after a segment of a response.
LEMMA AnswerPending ==
  ASSUME SessionInv, MaxSkew = 0, NEW c \in connected, NEW t \in Times, NEW p, NEW S,
         p = ResponseOf(c, t), Capture(p), S = Swept(t)
  PROVE  /\ p \in Packets /\ p.tv = t /\ syn_tab'[Server] # NULL /\ ServerOnly
         /\ \A k \in Conns \ {Key(c)} : requests'[k] = S[k]
         /\ requests'[Key(c)] = NULL
         /\ printed' = IF S[Key(c)] = NULL THEN NULL ELSE Line(t - S[Key(c)].tv)
         /\ t \in Nat /\ newest \in Nat /\ newest <= t /\ newest' = t
         /\ S[Key(c)] # NULL => S[Key(c)] = requests[Key(c)] /\ S[Key(c)].tv \in Nat
         /\ S[Key(c)] = NULL /\ requests[Key(c)] # NULL =>
              t - requests[Key(c)].tv > REQUEST_TIMEOUT_US
<1>1. c \in Clients
  BY DEF SessionInv
<1>2. p \in Packets /\ p.tv = t /\ p.payload_size = 1 /\ p.src = Server /\ p.dst = c
  BY <1>1, SegmentFacts
<1>3. /\ IF S[Key(c)] = NULL THEN requests' = S /\ printed' = NULL
         ELSE /\ requests' = [S EXCEPT ![Key(c)] = NULL]
              /\ printed' = Line(t - S[Key(c)].tv)
      /\ syn_tab'[Server] # NULL /\ ServerOnly
  BY <1>2, AnswerEffect
<1>4. /\ S \in [Conns -> Request \cup {NULL}] /\ Key(c) \in Conns
      /\ S[Key(c)] # NULL => S[Key(c)] = requests[Key(c)] /\ S[Key(c)].tv \in Nat
      /\ S[Key(c)] = NULL /\ requests[Key(c)] # NULL =>
           t - requests[Key(c)].tv > REQUEST_TIMEOUT_US
  BY <1>1, SweptPending, ConnFacts
<1>5. /\ \A k \in Conns \ {Key(c)} : requests'[k] = S[k]
      /\ requests'[Key(c)] = NULL
      /\ printed' = IF S[Key(c)] = NULL THEN NULL ELSE Line(t - S[Key(c)].tv)
  BY <1>3, <1>4
<1>6. t \in Nat /\ newest \in Nat /\ newest <= t /\ newest' = t
  BY <1>2, CaptureClock DEF SessionInv
<1> QED BY <1>2, <1>3, <1>4, <1>5, <1>6

LEMMA AnswerInv ==
  ASSUME SessionInv, Patient, NEW c \in Clients, NEW t \in Times, Answer(c, t),
         UNCHANGED traffic
  PROVE  SessionInv'
<1> DEFINE k == Key(c)
<1>1. PICK p, S : p = ResponseOf(c, t) /\ S = Swept(t)
  OBVIOUS
<1>2. /\ MaxSkew = 0 /\ inflight[c] # <<>> /\ Capture(p)
      /\ inflight' = [inflight EXCEPT ![c] = Tail(inflight[c])]
      /\ answering' = answering \cup {c} /\ truth' = t - Head(inflight[c])
      /\ UNCHANGED <<connected, missed>>
  BY <1>1 DEF Answer, ResponseOf, Patient
<1>3. ClientInv(c) /\ DOMAIN inflight = Clients /\ connected' \subseteq Clients
  BY <1>2 DEF SessionInv
<1>4. PICK s \in Times : inflight[c] = <<s>>
  BY <1>2, <1>3 DEF ClientInv
<1>5. /\ s \in Nat /\ c \in connected /\ REQUEST_TIMEOUT_US \in Nat /\ s <= newest
      /\ Threshold \in Int
  BY <1>2, <1>3, <1>4, TimeAssumption, SizeAssumption DEF ClientInv
<1>6. /\ p \in Packets /\ p.tv = t /\ syn_tab'[Server] # NULL /\ ServerOnly
      /\ \A x \in Conns \ {k} : requests'[x] = S[x]
      /\ requests'[k] = NULL
      /\ printed' = IF S[k] = NULL THEN NULL ELSE Line(t - S[k].tv)
      /\ t \in Nat /\ newest \in Nat /\ newest <= t /\ newest' = t
      /\ S[k] # NULL => S[k] = requests[k] /\ S[k].tv \in Nat
      /\ S[k] = NULL /\ requests[k] # NULL => t - requests[k].tv > REQUEST_TIMEOUT_US
  BY <1>1, <1>2, <1>5, AnswerPending
<1>7. /\ inflight'[c] = <<>> /\ DOMAIN inflight' = Clients /\ truth' = t - s
      /\ \A d \in Clients \ {c} : inflight'[d] = inflight[d] /\ (d \in answering' => d \in answering)
  BY <1>2, <1>3, <1>4
<1>8. ClientInv(c)'
  BY <1>2, <1>5, <1>6, <1>7, AnsweredClient
<1>9. truth' \in Int /\ truth' # NULL /\ truth' >= 0
  BY <1>5, <1>6, <1>7, NullAssumption
<1>10. ASSUME traffic.missed = 0, truth' <= REQUEST_TIMEOUT_US
       PROVE  S[k] # NULL /\ S[k].tv = s
  <2>1. ~(newest - s > REQUEST_TIMEOUT_US) /\ ~(t - s > REQUEST_TIMEOUT_US)
    BY <1>5, <1>6, <1>7, <1>10
  <2>2. requests[k] = [tv |-> s] /\ requests[k] # NULL /\ requests[k].tv = s
    BY <1>3, <1>4, <1>10, <2>1, NullAssumption DEF ClientInv, Request
  <2> QED BY <1>6, <2>1, <2>2
<1>11. ReportsTrueLatency'
  <2>1. ASSUME traffic.missed = 0, truth' <= REQUEST_TIMEOUT_US
        PROVE  /\ printed' \in {truth', NULL}
               /\ Threshold = 0 \/ truth' > Threshold => printed' = truth'
               /\ Threshold # 0 /\ truth' < Threshold => printed' = NULL
    <3>1. printed' = Line(truth')
      BY <1>6, <1>7, <1>10, <2>1
    <3> QED BY <1>5, <1>9, <3>1, SizeAssumption DEF Line
  <2> QED BY <1>9, <2>1 DEF ReportsTrueLatency
<1>12. NeverTooShort'
  <2>1. ASSUME printed' # NULL,
               traffic.segmented => traffic.missed = 0 /\ truth' <= REQUEST_TIMEOUT_US
        PROVE  printed' >= truth'
    <3>1. S[k] # NULL /\ printed' = t - S[k].tv /\ S[k] = requests[k] /\ S[k].tv \in Nat
      BY <1>6, <2>1 DEF Line
    <3>2. S[k].tv <= s
      <4>1. CASE traffic.segmented
        BY <1>5, <1>10, <2>1, <4>1
      <4>2. CASE ~traffic.segmented
        BY <1>3, <1>4, <3>1, <4>2 DEF ClientInv
      <4> QED BY <4>1, <4>2
    <3> QED BY <1>5, <1>6, <1>7, <3>1, <3>2
  <2> QED BY <2>1 DEF NeverTooShort
<1> QED BY <1>1, <1>2, <1>3, <1>6, <1>7, <1>8, <1>11, <1>12, CapturedInv

LEMMA AnswerMoreInv ==
  ASSUME SessionInv, Patient, NEW c \in Clients, NEW t \in Times, AnswerMore(c, t),
         UNCHANGED traffic
  PROVE  SessionInv'
<1> DEFINE k == Key(c)
<1>1. PICK p, S : p = ResponseOf(c, t) /\ S = Swept(t)
  OBVIOUS
<1>2. /\ MaxSkew = 0 /\ c \in answering /\ Capture(p) /\ truth' = NULL
      /\ UNCHANGED <<connected, inflight, answering, missed>>
  BY <1>1 DEF AnswerMore, ResponseOf, Patient
<1>3. /\ ClientInv(c) /\ DOMAIN inflight' = Clients /\ connected' \subseteq Clients
      /\ inflight'[c] = <<>> /\ c \in connected
  BY <1>2 DEF SessionInv, ClientInv
<1>4. /\ p \in Packets /\ p.tv = t /\ syn_tab'[Server] # NULL /\ ServerOnly
      /\ \A x \in Conns \ {k} : requests'[x] = S[x]
      /\ requests'[k] = NULL
      /\ printed' = IF S[k] = NULL THEN NULL ELSE Line(t - S[k].tv)
      /\ S[k] # NULL => S[k] = requests[k]
  BY <1>1, <1>2, <1>3, AnswerPending
<1>5. ClientInv(c)'
  BY <1>2, <1>3, <1>4, AnsweredClient
<1>6. traffic.missed = 0 => printed' = NULL
  BY <1>2, <1>3, <1>4 DEF ClientInv
<1>7. ReportsTrueLatency' /\ NeverTooShort'
  BY <1>2, <1>6 DEF ReportsTrueLatency, NeverTooShort
<1> QED BY <1>1, <1>2, <1>3, <1>4, <1>5, <1>7, CapturedInv

\* An answer that never shows leaves the tracker as it is.
LEMMA MissInv ==
  ASSUME SessionInv, NEW c \in Clients, Miss(c), UNCHANGED traffic
  PROVE  SessionInv'
<1>1. /\ inflight[c] # <<>> /\ missed < traffic.missed
      /\ inflight' = [inflight EXCEPT ![c] = Tail(inflight[c])]
      /\ answering' = answering \ {c} /\ missed' = missed + 1 /\ truth' = NULL
      /\ UNCHANGED <<vars, connected>>
  BY DEF Miss
<1>2. UNCHANGED <<syn_tab, requests, expire_primed, last_expire, printed, newest, npackets>>
  BY <1>1 DEF vars, trackerVars
<1>3. ClientInv(c) /\ DOMAIN inflight = Clients /\ missed \in Nat /\ traffic \in Traffics
  BY DEF SessionInv
<1>4. traffic.missed # 0 /\ missed' \in Nat
  BY <1>1, <1>3, SessionAssumption
<1>5. /\ inflight'[c] = <<>> /\ DOMAIN inflight' = Clients
      /\ \A d \in Clients \ {c} : inflight'[d] = inflight[d]
  BY <1>1, <1>3 DEF ClientInv
<1>6. ClientInv(c)'
  BY <1>1, <1>2, <1>3, <1>4, <1>5 DEF ClientInv
<1>7. \A d \in Clients \ {c} : ClientInv(d)'
  BY <1>1, <1>2, <1>5 DEF SessionInv, ClientInv
<1>8. TypeOK' /\ ServerInv'
  BY <1>1, <1>2 DEF SessionInv, TypeOK, ServerInv
<1>9. ReportsTrueLatency' /\ NeverTooShort'
  BY <1>1, <1>4 DEF ReportsTrueLatency, NeverTooShort
<1> QED BY <1>1, <1>3, <1>4, <1>5, <1>6, <1>7, <1>8, <1>9 DEF SessionInv

LEMMA SessionInvInit ==
  ASSUME SessionInit
  PROVE  SessionInv
<1>1. /\ Init /\ traffic \in Traffics /\ connected = {} /\ answering = {} /\ truth = NULL
      /\ inflight = [c \in Clients |-> <<>>] /\ missed = 0
  BY DEF SessionInit
<1>2. /\ TypeOK /\ printed = NULL /\ \A k \in Conns : requests[k] = NULL
      /\ \A e \in Endpoints : syn_tab[e] = NULL
  BY <1>1, TypeInit DEF Init, hashtable_create
<1>3. ServerInv /\ \A c \in Clients : ClientInv(c)
  BY <1>1, <1>2, ConnFacts DEF ServerInv, ClientInv
<1>4. ReportsTrueLatency /\ NeverTooShort
  BY <1>1, <1>2 DEF ReportsTrueLatency, NeverTooShort
<1> QED BY <1>1, <1>2, <1>3, <1>4 DEF SessionInv

LEMMA SessionInvStep ==
  ASSUME Patient, SessionInv, [SessionNext]_sessionVars
  PROVE  SessionInv'
<1>1. CASE SessionNext
  <2>1. UNCHANGED traffic /\ MaxSkew = 0
    BY <1>1 DEF SessionNext, Patient
  <2>2. PICK c \in Clients :
          \/ \E t \in Times : Connect(c, t) \/ Ask(c, t) \/ AskMore(c, t) \/ Answer(c, t)
                              \/ AnswerMore(c, t)
          \/ Miss(c)
    BY <1>1 DEF SessionNext
  <2> QED BY <2>1, <2>2, ConnectInv, AskInv, AskMoreInv, AnswerInv, AnswerMoreInv, MissInv
<1>2. CASE UNCHANGED sessionVars
  BY <1>2 DEF sessionVars, vars, trackerVars, SessionInv, TypeOK, ServerInv, ClientInv,
              ReportsTrueLatency, NeverTooShort
<1> QED BY <1>1, <1>2

LEMMA SessionInvariant ==
  ASSUME Patient
  PROVE  SessionSpec => []SessionInv
<1>1. SessionInit => SessionInv
  BY SessionInvInit
<1>2. SessionInv /\ [SessionNext]_sessionVars => SessionInv'
  BY SessionInvStep
<1> QED BY <1>1, <1>2, PTL DEF SessionSpec

\* However many clients there are and however their segments interleave, a line
\* of process_response_packet shows the latency of the exchange it belongs to, and
\* no exchange within the timeout that is slower than the threshold is left out.
\* Segments come again only while their exchange lasts (AskMore, AnswerMore).
THEOREM ReportsTrueLatencyHolds ==
  ASSUME Patient
  PROVE  SessionSpec => []ReportsTrueLatency
<1>1. SessionInv => ReportsTrueLatency
  BY DEF SessionInv
<1> QED BY <1>1, SessionInvariant, PTL

\* Answers missing from the capture can make a reported latency too long, never too
\* short, for every number of clients and of missed answers.
THEOREM NeverTooShortHolds ==
  ASSUME Patient
  PROVE  SessionSpec => []NeverTooShort
<1>1. SessionInv => NeverTooShort
  BY DEF SessionInv
<1> QED BY <1>1, SessionInvariant, PTL
=============================================================================
