------------------------------ MODULE Tracker ------------------------------
(***************************************************************************)
(* The request tracker of packet.c: what the capture thread does with each *)
(* parsed packet when a protocol was selected and no Lua script runs.      *)
(*                                                                         *)
(* A SYN registers the server endpoint it names.  A packet with payload is *)
(* a response if it comes from a registered endpoint, a request if it goes *)
(* to one.  A request waits in a pending table, one per connection, until  *)
(* a response of the same connection turns it into a latency sample, or    *)
(* until a sweep finds it older than the timeout.                          *)
(*                                                                         *)
(* An action is one whole call of process_user_packet.  Nothing interferes *)
(* with it: the pending table belongs to the capture thread and the stats  *)
(* thread only reads syn_tab.  Module SharedStats splits the call at its   *)
(* lock operations and shows that it implements this one.                  *)
(*                                                                         *)
(* Time is the capture timestamp in microseconds, so tv_delta_us is a      *)
(* difference.  Keys print two decimal numbers per endpoint, separated by  *)
(* ':' and ' ', so distinct endpoints and pairs have distinct keys: the    *)
(* model uses the endpoints themselves.                                    *)
(***************************************************************************)
EXTENDS Table, Stats

CONSTANTS
  Endpoints,               \* address and port pairs
  Times,                   \* capture timestamps
  Sizes,                   \* frame lengths
  REQUEST_TIMEOUT_US,
  EXPIRE_INTERVAL_US,
  MAX_PENDING_REQUESTS,
  Threshold,               \* -t in microseconds, 0 when it was not given
  MaxSkew,                 \* how far a timestamp may lag behind an earlier one
  MaxPackets               \* bound on the packets of one capture

ASSUME TimeAssumption ==
  /\ Times \subseteq Nat
  /\ REQUEST_TIMEOUT_US \in Nat /\ EXPIRE_INTERVAL_US \in Nat \ {0}
  /\ MaxSkew \in Nat /\ MaxSkew <= REQUEST_TIMEOUT_US

ASSUME SizeAssumption ==
  /\ Sizes \subseteq Nat /\ MAX_PENDING_REQUESTS \in Nat
  /\ Threshold \in Int /\ MaxPackets \in Nat
  /\ IsFiniteSet(Endpoints)

\* A connection seen from the client: its requests go from <<c, s>>[1].
Conns == Endpoints \X Endpoints

\* struct request: seq and size are never read, the payload is only printed.
Request == [tv : Times]

\* The null pointer is no struct.
ASSUME NullAssumption ==
  NULL \notin QueryStats /\ NULL \notin Request /\ NULL \notin Int

\* struct user_packet, as far as the tracker looks at it: of the payload only
\* whether there are captured bytes.  A UDP datagram has no flags.  The flags
\* nobody looks at have one value: SYN with payload, ACK without SYN.
Packets ==
  {p \in [src : Endpoints, dst : Endpoints, syn : BOOLEAN, ack : BOOLEAN,
          payload_size : {0, 1}, size : Sizes, tv : Times] :
     (p.syn => p.payload_size = 0) /\ (p.ack => p.syn)}

VARIABLES
  syn_tab,        \* the registered endpoints and their counters
  requests,       \* the pending requests
  expire_primed,  \* has last_expire been set
  last_expire,    \* timestamp of the last sweep
  printed,        \* latency on the line the last packet printed, or NULL
  newest,         \* greatest timestamp so far: the environment's skew bound
  npackets        \* packets so far

trackerVars == <<syn_tab, requests, expire_primed, last_expire, printed>>
vars == <<trackerVars, newest, npackets>>

Init ==
  /\ syn_tab = hashtable_create(Endpoints)
  /\ requests = hashtable_create(Conns)
  /\ expire_primed = FALSE
  /\ last_expire = 0
  /\ printed = NULL
  /\ newest = 0
  /\ npackets = 0

-----------------------------------------------------------------------------
(* The sweep of the pending table *)

\* Mutant: the operands are swapped.
SwappedDelta(later, earlier) == earlier - later

tv_delta_us(later, earlier) == later - earlier

\* Mutant: a request is dropped at its timeout, not after it.
ExpiredAtTimeout(req, now) ==
  tv_delta_us(now, req.tv) >= REQUEST_TIMEOUT_US

request_expired(req, now) ==
  tv_delta_us(now, req.tv) > REQUEST_TIMEOUT_US

requests_expire(tab, now) ==
  hashtable_sweep(tab, {k \in Entries(tab) : request_expired(tab[k], now)})

\* Mutant: the sweep waits for more than the interval.
SweepLate(now) ==
  expire_primed /\ tv_delta_us(now, last_expire) > EXPIRE_INTERVAL_US

SweepDue(now) ==
  expire_primed /\ tv_delta_us(now, last_expire) >= EXPIRE_INTERVAL_US

\* The pending table after expire_stale_requests.
Swept(now) == IF SweepDue(now) THEN requests_expire(requests, now) ELSE requests

\* The sweeper's own state after expire_stale_requests.
expire_stale_requests(now) ==
  /\ expire_primed' = TRUE
  /\ last_expire' = IF expire_primed /\ ~SweepDue(now) THEN last_expire ELSE now

-----------------------------------------------------------------------------
(* Packets without captured payload *)

\* The server end: the sender of a SYN+ACK, the receiver of a plain SYN.
ServerEnd(p) == IF p.ack THEN p.src ELSE p.dst

\* Mutant: every SYN starts the counters afresh.
FreshOnSyn(tab, e, ok) == IF ok THEN [tab EXCEPT ![e] = NewStats] ELSE tab

\* The table of endpoints after a SYN that names e.  A known endpoint keeps its
\* counters; a new one stays unknown when an allocation fails (~ok).
WithEndpoint(tab, e, ok) ==
  IF ok /\ hashtable_get(tab, e) = NULL THEN hashtable_add(tab, e, NewStats)
                                        ELSE tab

RegisterEndpoint(p, ok) ==
  /\ p.payload_size = 0 /\ p.syn
  /\ syn_tab' = WithEndpoint(syn_tab, ServerEnd(p), ok)
  /\ requests' = Swept(p.tv)
  /\ printed' = NULL

IgnoreEmpty(p) ==
  /\ p.payload_size = 0 /\ ~p.syn
  /\ requests' = Swept(p.tv)
  /\ printed' = NULL
  /\ UNCHANGED syn_tab

-----------------------------------------------------------------------------
(* Packets with payload *)

Response == 0
RequestDir == 1
Unknown == -1

\* Which way the packet goes; the counters of the endpoint it belongs to are
\* those of Counted.
packet_direction(p) ==
  IF hashtable_get(syn_tab, p.src) # NULL THEN Response
  ELSE IF hashtable_get(syn_tab, p.dst) # NULL THEN RequestDir
  ELSE Unknown

\* syn_tab with the packet counted for endpoint e.
Counted(e, is_request, p) ==
  [syn_tab EXCEPT ![e] = stats_incr(@, is_request, p.size)]

IgnoreUnknown(p) ==
  /\ p.payload_size # 0 /\ packet_direction(p) = Unknown
  /\ requests' = Swept(p.tv)
  /\ printed' = NULL
  /\ UNCHANGED syn_tab

\* Mutant: the key is built from the endpoints in the order of a response.
ReversedKey(p) == <<p.dst, p.src>>

RequestKey(p) == <<p.src, p.dst>>

\* Mutant: the ceiling is tested with > instead of >=.
RoomAtCeiling(tab) == Size(tab) <= MAX_PENDING_REQUESTS

RoomFor(tab) == Size(tab) < MAX_PENDING_REQUESTS

\* Mutant: a second request of the connection replaces the waiting one.
RestartedRequest(tab, p, ok) ==
  IF ok /\ RoomFor(tab) THEN [tab EXCEPT ![RequestKey(p)] = [tv |-> p.tv]]
                        ELSE tab

\* The pending table `tab' after process_request_packet.  The request already
\* waiting on the connection stays; a full table drops the new one, and so
\* does a failed allocation (~ok).
WithRequest(tab, p, ok) ==
  IF ok /\ hashtable_get(tab, RequestKey(p)) = NULL /\ RoomFor(tab)
  THEN hashtable_add(tab, RequestKey(p), [tv |-> p.tv])
  ELSE tab

process_request_packet(p, ok) ==
  /\ p.payload_size # 0 /\ packet_direction(p) = RequestDir
  /\ syn_tab' = Counted(p.dst, TRUE, p)
  /\ requests' = WithRequest(Swept(p.tv), p, ok)
  /\ printed' = NULL

\* The line printed for a latency: none when -t is given and it is faster.
Line(delta) ==
  IF Threshold # 0 /\ delta < Threshold THEN NULL ELSE delta

ResponseKey(p) == <<p.dst, p.src>>

\* Mutant: the early return for a fast response forgets the hashtable_del.
FastStays(tab, key, delta) ==
  IF Line(delta) = NULL THEN tab ELSE hashtable_del(tab, key)

\* The answered request goes, on the early return and after the line alike.
Answered(tab, key, delta) == hashtable_del(tab, key)

process_response_packet(p) ==
  /\ p.payload_size # 0 /\ packet_direction(p) = Response
  /\ LET key     == ResponseKey(p)
         pending == Swept(p.tv)
         req     == hashtable_get(pending, key)
         delta   == tv_delta_us(p.tv, req.tv)
         counted == Counted(p.src, FALSE, p)
     IN  IF req # NULL
         THEN /\ syn_tab' = [counted EXCEPT ![p.src] =
                               stats_observer_latency(@, delta)]
              /\ requests' = Answered(pending, key, delta)
              /\ printed' = Line(delta)
         ELSE /\ syn_tab' = counted
              /\ requests' = pending
              /\ printed' = NULL

-----------------------------------------------------------------------------
\* The environment: the next packet of the capture, its timestamp at most
\* MaxSkew behind the newest one.
Arrive(p) ==
  /\ npackets < MaxPackets
  /\ p.tv >= newest - MaxSkew
  /\ npackets' = npackets + 1
  /\ newest' = IF p.tv > newest THEN p.tv ELSE newest

process_user_packet(p) ==
  /\ expire_stale_requests(p.tv)
  /\ \/ \E ok \in BOOLEAN : RegisterEndpoint(p, ok)
     \/ IgnoreEmpty(p)
     \/ IgnoreUnknown(p)
     \/ \E ok \in BOOLEAN : process_request_packet(p, ok)
     \/ process_response_packet(p)

Next == \E p \in Packets : Arrive(p) /\ process_user_packet(p)

Spec == Init /\ [][Next]_vars

-----------------------------------------------------------------------------
(* Properties *)

TypeOK ==
  /\ syn_tab \in [Endpoints -> QueryStats \cup {NULL}]
  /\ requests \in [Conns -> Request \cup {NULL}]
  /\ expire_primed \in BOOLEAN
  /\ last_expire \in Nat
  /\ printed \in Int \cup {NULL}
  /\ newest \in Nat
  /\ npackets \in Nat

\* A pending request was sent to a registered endpoint, so the response that
\* answers it is recognised by packet_direction and finds the counters its
\* latency belongs to.
PendingToKnown ==
  \A k \in Entries(requests) : hashtable_get(syn_tab, k[2]) # NULL

\* "Treated as lost rather than kept for ever": no request waits longer than
\* the timeout and the interval between two sweeps, or the skew of the capture
\* clock if that is longer, although a sweep happens only when a packet arrives.
PendingAgeBounded ==
  \A k \in Entries(requests) :
    LET overdue == newest - requests[k].tv - REQUEST_TIMEOUT_US
    IN  overdue < EXPIRE_INTERVAL_US \/ overdue <= MaxSkew

\* "Firm ceiling": the pending table never outgrows its limit.
PendingBelowCeiling == Size(requests) <= MAX_PENDING_REQUESTS

PendingTo(e) == {k \in Entries(requests) : k[2] = e}

\* Every latency sample was taken from a response that was counted and from a
\* request that was counted, was pending once and is not pending any more: no
\* request is sampled twice and none is sampled while it still waits.
SamplesCovered ==
  \A e \in Entries(syn_tab) :
    /\ Samples(syn_tab[e]) <= syn_tab[e].responses
    /\ Samples(syn_tab[e]) + Cardinality(PendingTo(e)) <= syn_tab[e].requests

\* A waiting request is neither dropped nor restarted by a retransmission, a
\* pipelined request, a full table or a timestamp that goes backwards: it
\* goes when a response yields its latency sample or when it has expired.
NoSilentDrop ==
  [][\A k \in Entries(requests) :
       requests'[k] # requests[k] =>
         \/ syn_tab'[k[2]].buckets # syn_tab[k[2]].buckets
         \/ newest' - requests[k].tv > REQUEST_TIMEOUT_US]_vars

\* What makes PendingAgeBounded inductive.  The newest packet came less than an
\* interval, or no more than the skew, after the last sweep, and measured at that
\* sweep every pending request was within its timeout.
SweepInv ==
  /\ ~expire_primed => Entries(requests) = {}
  /\ last_expire <= newest
  /\ expire_primed => \/ newest - last_expire < EXPIRE_INTERVAL_US
                      \/ newest - last_expire <= MaxSkew
  /\ \A k \in Entries(requests) :
       last_expire - requests[k].tv <= REQUEST_TIMEOUT_US
=============================================================================
