---------------------------- MODULE CaptureProofs ----------------------------
(***************************************************************************)
(* Proof that a capture cut behind the headers is as good as a whole one,  *)
(* for every set of frames, every snapshot length and every capture, and   *)
(* that the handler decodes frames as module Decode says.                  *)
(***************************************************************************)
EXTENDS Capture, DecodeProofs

\* The two trackers are in the same state.
Same ==
  /\ syn_tab = w_syn_tab /\ requests = w_requests /\ printed = w_printed
  /\ expire_primed = w_primed /\ last_expire = w_last

IInv ==
  /\ mode \in Modes /\ snaplen \in Lengths /\ snaplen \in Nat
  /\ HeadersFit => Same

-----------------------------------------------------------------------------
(* The operators of the second tracker are those of the first. *)

LEMMA SameSweep ==
  ASSUME Same, NEW now
  PROVE  W!Swept(now) = Swept(now) /\ W!SweepDue(now) = SweepDue(now)
<1>1. W!SweepDue(now) = SweepDue(now)
  BY DEF W!SweepDue, SweepDue, W!tv_delta_us, tv_delta_us, Same
<1>2. W!requests_expire(w_requests, now) = requests_expire(requests, now)
  BY DEF W!requests_expire, requests_expire, W!hashtable_sweep, hashtable_sweep,
         W!Entries, Entries, W!request_expired, request_expired,
         W!tv_delta_us, tv_delta_us, Same
<1> QED BY <1>1, <1>2, Zenon DEF W!Swept, Swept, Same

\* Two packets that differ only in how much of the payload was captured.
Alike(p, q) ==
  /\ q.src = p.src /\ q.dst = p.dst /\ q.tv = p.tv /\ q.size = p.size
  /\ q.syn = p.syn /\ q.ack = p.ack
  /\ q.payload_size = 0 <=> p.payload_size = 0

LEMMA SameCount ==
  ASSUME Same, NEW e, NEW r, NEW p, NEW q, Alike(p, q)
  PROVE  W!Counted(e, r, q) = Counted(e, r, p)
BY Zenon DEF W!Counted, Counted, W!stats_incr, stats_incr, Same, Alike

LEMMA SameObserve ==
  ASSUME NEW st, NEW d
  PROVE  W!stats_observer_latency(st, d) = stats_observer_latency(st, d)
BY Zenon DEF W!stats_observer_latency, stats_observer_latency, W!Buckets, Buckets,
             W!LandsIn, LandsIn, W!Clamped, Clamped

LEMMA SameTable ==
  ASSUME NEW t, NEW k, NEW v
  PROVE  /\ W!hashtable_add(t, k, v) = hashtable_add(t, k, v)
         /\ W!hashtable_del(t, k) = hashtable_del(t, k)
         /\ W!hashtable_get(t, k) = hashtable_get(t, k)
<1>1. W!hashtable_add(t, k, v) = hashtable_add(t, k, v)
  BY Zenon DEF W!hashtable_add, hashtable_add
<1>2. W!hashtable_del(t, k) = hashtable_del(t, k)
  BY Zenon DEF W!hashtable_del, hashtable_del
<1>3. W!hashtable_get(t, k) = hashtable_get(t, k)
  BY Zenon DEF W!hashtable_get, hashtable_get
<1> QED BY <1>1, <1>2, <1>3, Zenon

LEMMA SameRoom ==
  ASSUME NEW t
  PROVE  W!RoomFor(t) = RoomFor(t)
BY Zenon DEF W!RoomFor, RoomFor, W!Size, Size, W!Entries, Entries, W!Cardinality, Cardinality

LEMMA SameNew == W!NewStats = NewStats
BY Zenon DEF W!NewStats, NewStats, W!Buckets, Buckets

LEMMA SameDirection ==
  ASSUME Same, NEW p, NEW q, Alike(p, q)
  PROVE  W!packet_direction(q) = packet_direction(p)
BY Zenon DEF W!packet_direction, packet_direction, W!hashtable_get, hashtable_get,
             W!Response, Response, W!RequestDir, RequestDir, W!Unknown, Unknown,
             Same, Alike

LEMMA SameRequest ==
  ASSUME Same, NEW p, NEW q, Alike(p, q), NEW ok, NEW t
  PROVE  W!WithRequest(t, q, ok) = WithRequest(t, p, ok)
<1>1. W!RequestKey(q) = RequestKey(p)
  BY Zenon DEF W!RequestKey, RequestKey, Alike
<1>2. q.tv = p.tv
  BY DEF Alike
<1> QED BY <1>1, <1>2, SameTable, SameRoom, Zenon DEF W!WithRequest, WithRequest

-----------------------------------------------------------------------------
(* One packet *)

LEMMA SameExpire ==
  ASSUME Same, NEW p, NEW q, Alike(p, q),
         expire_stale_requests(p.tv), W!expire_stale_requests(q.tv)
  PROVE  expire_primed' = w_primed' /\ last_expire' = w_last'
<1>1. q.tv = p.tv
  BY DEF Alike
<1> QED BY <1>1, SameSweep, Zenon
        DEF expire_stale_requests, W!expire_stale_requests, Same

LEMMA SameEmpty ==
  ASSUME Same, NEW p, NEW q, Alike(p, q), NEW ok, p.payload_size = 0,
         \/ RegisterEndpoint(p, ok) \/ IgnoreEmpty(p) \/ IgnoreUnknown(p)
         \/ process_request_packet(p, ok) \/ process_response_packet(p),
         \/ W!RegisterEndpoint(q, ok) \/ W!IgnoreEmpty(q) \/ W!IgnoreUnknown(q)
         \/ W!process_request_packet(q, ok) \/ W!process_response_packet(q)
  PROVE  syn_tab' = w_syn_tab' /\ requests' = w_requests' /\ printed' = w_printed'
<1>1. q.payload_size = 0 /\ q.syn = p.syn /\ q.tv = p.tv
  BY Zenon DEF Alike
<1>2. W!ServerEnd(q) = ServerEnd(p)
  BY Zenon DEF W!ServerEnd, ServerEnd, Alike
<1>3. W!Swept(q.tv) = Swept(p.tv)
  BY <1>1, SameSweep, Zenon
<1>4. CASE p.syn
  <2>1. RegisterEndpoint(p, ok) /\ W!RegisterEndpoint(q, ok)
    BY <1>1, <1>4, Zenon
       DEF IgnoreEmpty, IgnoreUnknown, process_request_packet, process_response_packet,
           W!IgnoreEmpty, W!IgnoreUnknown, W!process_request_packet, W!process_response_packet
  <2>2. W!WithEndpoint(w_syn_tab, W!ServerEnd(q), ok)
          = WithEndpoint(syn_tab, ServerEnd(p), ok)
    BY <1>2, SameTable, SameNew, Zenon DEF Same, WithEndpoint, W!WithEndpoint
  <2> QED BY <1>3, <2>1, <2>2, Zenon DEF RegisterEndpoint, W!RegisterEndpoint, Same
<1>5. CASE ~p.syn
  <2>1. IgnoreEmpty(p) /\ W!IgnoreEmpty(q)
    BY <1>1, <1>5, Zenon
       DEF RegisterEndpoint, IgnoreUnknown, process_request_packet, process_response_packet,
           W!RegisterEndpoint, W!IgnoreUnknown, W!process_request_packet, W!process_response_packet
  <2> QED BY <1>3, <2>1, Zenon DEF IgnoreEmpty, W!IgnoreEmpty, Same
<1> QED BY <1>4, <1>5

LEMMA Directions ==
  /\ Response # RequestDir /\ Response # Unknown /\ RequestDir # Unknown
  /\ W!Response = Response /\ W!RequestDir = RequestDir /\ W!Unknown = Unknown
BY DEF Response, RequestDir, Unknown, W!Response, W!RequestDir, W!Unknown

LEMMA SamePayload ==
  ASSUME Same, NEW p, NEW q, Alike(p, q), NEW ok, p.payload_size # 0,
         \/ RegisterEndpoint(p, ok) \/ IgnoreEmpty(p) \/ IgnoreUnknown(p)
         \/ process_request_packet(p, ok) \/ process_response_packet(p),
         \/ W!RegisterEndpoint(q, ok) \/ W!IgnoreEmpty(q) \/ W!IgnoreUnknown(q)
         \/ W!process_request_packet(q, ok) \/ W!process_response_packet(q)
  PROVE  syn_tab' = w_syn_tab' /\ requests' = w_requests' /\ printed' = w_printed'
<1>1. q.payload_size # 0 /\ q.src = p.src /\ q.dst = p.dst /\ q.tv = p.tv
  BY Zenon DEF Alike
<1>2. W!packet_direction(q) = packet_direction(p)
  BY SameDirection
<1>3. W!Swept(q.tv) = Swept(p.tv)
  BY <1>1, SameSweep, Zenon
<1>4. IgnoreUnknown(p) \/ process_request_packet(p, ok) \/ process_response_packet(p)
  BY Zenon DEF RegisterEndpoint, IgnoreEmpty
<1>5. W!IgnoreUnknown(q) \/ W!process_request_packet(q, ok) \/ W!process_response_packet(q)
  BY <1>1, Zenon DEF W!RegisterEndpoint, W!IgnoreEmpty
<1>6. CASE IgnoreUnknown(p)
  <2>1. W!IgnoreUnknown(q)
    BY <1>2, <1>5, <1>6, Directions, Zenon
       DEF IgnoreUnknown, W!process_request_packet, W!process_response_packet
  <2> QED BY <1>3, <1>6, <2>1, Zenon DEF IgnoreUnknown, W!IgnoreUnknown, Same
<1>7. CASE process_request_packet(p, ok)
  <2>1. W!process_request_packet(q, ok)
    BY <1>2, <1>5, <1>7, Directions, Zenon
       DEF process_request_packet, W!IgnoreUnknown, W!process_response_packet
  <2>2. W!Counted(q.dst, TRUE, q) = Counted(p.dst, TRUE, p)
    BY <1>1, SameCount, Zenon
  <2>3. W!WithRequest(W!Swept(q.tv), q, ok) = WithRequest(Swept(p.tv), p, ok)
    BY <1>3, SameRequest, Zenon
  <2> QED BY <1>7, <2>1, <2>2, <2>3, Zenon
          DEF process_request_packet, W!process_request_packet
<1>8. CASE process_response_packet(p)
  <2>1. W!process_response_packet(q)
    BY <1>2, <1>5, <1>8, Directions, Zenon
       DEF process_response_packet, W!IgnoreUnknown, W!process_request_packet
  <2> DEFINE key == ResponseKey(p)
             pending == Swept(p.tv)
             req == hashtable_get(pending, key)
             delta == tv_delta_us(p.tv, req.tv)
             counted == Counted(p.src, FALSE, p)
  <2>2. IF req # NULL
        THEN /\ syn_tab' = [counted EXCEPT ![p.src] = stats_observer_latency(@, delta)]
             /\ requests' = Answered(pending, key, delta)
             /\ printed' = Line(delta)
        ELSE syn_tab' = counted /\ requests' = pending /\ printed' = NULL
    BY <1>8, Zenon DEF process_response_packet
  <2>3. /\ W!ResponseKey(q) = key
        /\ W!Swept(q.tv) = pending
        /\ W!Counted(q.src, FALSE, q) = counted
    BY <1>1, <1>3, SameCount, Zenon DEF ResponseKey, W!ResponseKey
  <2>4. /\ W!hashtable_get(pending, key) = req
        /\ W!tv_delta_us(q.tv, req.tv) = delta
        /\ W!Answered(pending, key, delta) = Answered(pending, key, delta)
        /\ W!Line(delta) = Line(delta)
    <3>1. W!hashtable_get(pending, key) = req
      BY SameTable, Zenon
    <3>2. W!tv_delta_us(q.tv, req.tv) = delta
      BY <1>1, Zenon DEF W!tv_delta_us, tv_delta_us
    <3>3. W!Answered(pending, key, delta) = Answered(pending, key, delta)
      BY SameTable, Zenon DEF W!Answered, Answered
    <3>4. W!Line(delta) = Line(delta)
      BY Zenon DEF W!Line, Line
    <3> QED BY <3>1, <3>2, <3>3, <3>4, Zenon
  <2>5. LET wreq == W!hashtable_get(W!Swept(q.tv), W!ResponseKey(q))
            wdelta == W!tv_delta_us(q.tv, wreq.tv)
        IN  IF wreq # NULL
            THEN /\ w_syn_tab' = [W!Counted(q.src, FALSE, q) EXCEPT ![q.src] =
                                   W!stats_observer_latency(@, wdelta)]
                 /\ w_requests' = W!Answered(W!Swept(q.tv), W!ResponseKey(q), wdelta)
                 /\ w_printed' = W!Line(wdelta)
            ELSE /\ w_syn_tab' = W!Counted(q.src, FALSE, q)
                 /\ w_requests' = W!Swept(q.tv) /\ w_printed' = NULL
    BY <2>1, Zenon DEF W!process_response_packet
  <2>6. IF req # NULL
        THEN /\ w_syn_tab' = [counted EXCEPT ![p.src] = stats_observer_latency(@, delta)]
             /\ w_requests' = Answered(pending, key, delta)
             /\ w_printed' = Line(delta)
        ELSE w_syn_tab' = counted /\ w_requests' = pending /\ w_printed' = NULL
    <3> HIDE DEF key, pending, req, delta, counted
    <3> QED BY <1>1, <2>3, <2>4, <2>5, SameObserve, Zenon
  <2> HIDE DEF key, pending, req, delta, counted
  <2>7. CASE req # NULL
    BY <2>2, <2>6, <2>7, Zenon
  <2>8. CASE req = NULL
    BY <2>2, <2>6, <2>8, Zenon
  <2> QED BY <2>7, <2>8
<1> QED BY <1>4, <1>6, <1>7, <1>8

LEMMA SamePacket ==
  ASSUME Same, NEW p, NEW q, Alike(p, q), NEW ok, Track(p, ok), TrackWhole(q, ok)
  PROVE  Same'
<1>1. expire_primed' = w_primed' /\ last_expire' = w_last'
  BY SameExpire, Zenon DEF Track, TrackWhole
<1>2. syn_tab' = w_syn_tab' /\ requests' = w_requests' /\ printed' = w_printed'
  <2>1. CASE p.payload_size = 0
    BY <2>1, SameEmpty, Zenon DEF Track, TrackWhole
  <2>2. CASE p.payload_size # 0
    BY <2>2, SamePayload, Zenon DEF Track, TrackWhole
  <2> QED BY <2>1, <2>2
<1> QED BY <1>1, <1>2, Zenon DEF Same

-----------------------------------------------------------------------------
(* One frame *)

\* The parsers agree on a cut and on a whole frame: they accept both or none,
\* and see payload in both or in none.
Agree(u, w) ==
  /\ u.accepted = w.accepted
  /\ u.accepted => (u.payload_size = 0 <=> w.payload_size = 0)

LEMMA ShapeTypes ==
  ASSUME NEW m \in Modes, NEW s \in Shapes[m]
  PROVE  /\ s.len \in Nat /\ s.ip_len \in Nat /\ s.ip_hl \in Words /\ s.l4 \in Nat
         /\ s.ip_hl * WORD \in Nat /\ s.l4 * WORD \in Nat
         /\ s.link # UnknownLink => s.link \in LinkHeaders /\ s.link \in Nat
         /\ s.ip_p = "TCP" => s.l4 \in Words
         /\ SIZEOF_IP \in Nat /\ SIZEOF_TCP \in Nat /\ SIZEOF_UDP \in Nat
<1>1. /\ s.link \in LinkHeaders \cup {UnknownLink} /\ s.len \in Lengths
      /\ s.ip_hl \in Words /\ s.ip_len \in Lengths /\ s.l4 \in Words \cup Lengths
  BY ShapeAssumption
<1>2. s.ip_p = "TCP" => s.l4 \in Words
  BY ShapeAssumption
<1>3. \A a, b \in Nat : a * b \in Nat
  OBVIOUS
<1> QED BY <1>1, <1>2, <1>3, HeaderAssumption

\* The TCP parser, for captures that end behind the headers or with the frame.
LEMMA TcpAgree ==
  ASSUME NEW f, NEW g, NEW h \in Nat, NEW t \in Nat, NEW len \in Nat,
         NEW c \in Int, NEW d \in Int, NEW wire \in Int,
         f.ip_hl * WORD = h, f.l4 * WORD = t, f.ip_len = len,
         g.ip_hl * WORD = h, g.l4 * WORD = t, g.ip_len = len,
         h + t < c, h + t < d
  PROVE  Agree(process_tcp_packet(f, c, wire), process_tcp_packet(g, d, wire))
<1>1. SIZEOF_IP \in Nat /\ SIZEOF_TCP \in Nat
  BY HeaderAssumption
<1>2. process_tcp_packet(f, c, wire) =
        IF h < SIZEOF_IP \/ c < h + SIZEOF_TCP
        THEN Reject(SIZEOF_IP)
        ELSE IF t < SIZEOF_TCP \/ c < h + t \/ len < h + t \/ len > wire
        THEN Reject(h + SIZEOF_TCP)
        ELSE Accept(h + t, len - (h + t), c - (h + t), h + SIZEOF_TCP)
  BY DEF process_tcp_packet, Overlong
<1>3. process_tcp_packet(g, d, wire) =
        IF h < SIZEOF_IP \/ d < h + SIZEOF_TCP
        THEN Reject(SIZEOF_IP)
        ELSE IF t < SIZEOF_TCP \/ d < h + t \/ len < h + t \/ len > wire
        THEN Reject(h + SIZEOF_TCP)
        ELSE Accept(h + t, len - (h + t), d - (h + t), h + SIZEOF_TCP)
  BY DEF process_tcp_packet, Overlong
<1> QED BY <1>1, <1>2, <1>3 DEF Reject, Accept, Agree

LEMMA UdpAgree ==
  ASSUME NEW f, NEW g, NEW h \in Nat, NEW l \in Nat,
         NEW c \in Int, NEW d \in Int, NEW wire \in Int,
         f.ip_hl * WORD = h, f.l4 = l, g.ip_hl * WORD = h, g.l4 = l,
         h + SIZEOF_UDP < c, h + SIZEOF_UDP < d
  PROVE  Agree(process_udp_packet(f, c, wire), process_udp_packet(g, d, wire))
<1>1. SIZEOF_IP \in Nat /\ SIZEOF_UDP \in Nat
  BY HeaderAssumption
<1>2. process_udp_packet(f, c, wire) =
        IF h < SIZEOF_IP \/ c < h + SIZEOF_UDP
        THEN Reject(SIZEOF_IP)
        ELSE IF l < SIZEOF_UDP \/ h + l > wire
        THEN Reject(h + SIZEOF_UDP)
        ELSE Accept(h + SIZEOF_UDP, l - SIZEOF_UDP, c - (h + SIZEOF_UDP), h + SIZEOF_UDP)
  BY DEF process_udp_packet
<1>3. process_udp_packet(g, d, wire) =
        IF h < SIZEOF_IP \/ d < h + SIZEOF_UDP
        THEN Reject(SIZEOF_IP)
        ELSE IF l < SIZEOF_UDP \/ h + l > wire
        THEN Reject(h + SIZEOF_UDP)
        ELSE Accept(h + SIZEOF_UDP, l - SIZEOF_UDP, d - (h + SIZEOF_UDP), h + SIZEOF_UDP)
  BY DEF process_udp_packet
<1> QED BY <1>1, <1>2, <1>3 DEF Reject, Accept, Agree

LEMMA ParseAgree ==
  ASSUME NEW m \in Modes, NEW s \in Shapes[m], snaplen \in Nat, HeadersFit
  PROVE  Agree(Parse(Snapped(s, snaplen)), Parse(Snapped(s, s.len)))
<1> DEFINE f == Snapped(s, snaplen)
           g == Snapped(s, s.len)
<1>1. s.len \in Nat
  BY ShapeTypes
<1>2. CASE s.len <= snaplen
  <2>1. f = g
    BY <1>1, <1>2 DEF Snapped
  <2> HIDE DEF f, g
  <2> QED BY <2>1, Zenon DEF Agree, f, g
<1>3. CASE s.link = UnknownLink
  <2>1. f.link = UnknownLink /\ g.link = UnknownLink
    BY <1>3 DEF Snapped
  <2>2. Parse(f) = Reject(0) /\ Parse(g) = Reject(0)
    <3> HIDE DEF f, g
    <3> QED BY <2>1 DEF Parse
  <2> HIDE DEF f, g
  <2> QED BY <2>2, Zenon DEF Agree, f, g
<1>4. CASE snaplen < s.len /\ s.link # UnknownLink
  <2> DEFINE h == s.ip_hl * WORD
             t == s.l4 * WORD
             link == s.link
             c == snaplen - link
             d == s.len - link
  <2>1. /\ f.link = link /\ f.caplen = snaplen /\ f.len = s.len /\ f.version = s.version
        /\ f.ip_p = s.ip_p /\ f.ip_hl = s.ip_hl /\ f.ip_len = s.ip_len /\ f.l4 = s.l4
        /\ g.link = link /\ g.caplen = s.len /\ g.len = s.len /\ g.version = s.version
        /\ g.ip_p = s.ip_p /\ g.ip_hl = s.ip_hl /\ g.ip_len = s.ip_len /\ g.l4 = s.l4
    BY <1>1, <1>4 DEF Snapped
  <2>2. /\ link \in LinkHeaders /\ link \in Nat /\ h \in Nat /\ t \in Nat
        /\ s.ip_hl \in Words /\ s.ip_len \in Nat /\ s.l4 \in Nat
        /\ SIZEOF_IP \in Nat /\ SIZEOF_TCP \in Nat /\ SIZEOF_UDP \in Nat
    BY <1>4, ShapeTypes
  <2>3. link + h + SIZEOF_UDP < snaplen
    BY <2>2 DEF HeadersFit
  <2>4. s.ip_p = "TCP" => link + h + t < snaplen
    BY <2>2, ShapeTypes DEF HeadersFit
  <2> HIDE DEF f, g
  <2>5. Parse(f) =
          IF c < SIZEOF_IP THEN Reject(0)
          ELSE IF s.version # 4 THEN Reject(SIZEOF_IP)
          ELSE IF s.ip_p = "TCP" THEN process_tcp_packet(f, c, d)
          ELSE IF s.ip_p = "UDP" THEN process_udp_packet(f, c, d)
          ELSE Reject(SIZEOF_IP)
    BY <1>4, <2>1 DEF Parse
  <2>6. Parse(g) =
          IF d < SIZEOF_IP THEN Reject(0)
          ELSE IF s.version # 4 THEN Reject(SIZEOF_IP)
          ELSE IF s.ip_p = "TCP" THEN process_tcp_packet(g, d, d)
          ELSE IF s.ip_p = "UDP" THEN process_udp_packet(g, d, d)
          ELSE Reject(SIZEOF_IP)
    BY <1>4, <2>1 DEF Parse
  <2>7. /\ f.ip_hl * WORD = h /\ g.ip_hl * WORD = h /\ f.l4 * WORD = t /\ g.l4 * WORD = t
    BY <2>1
  <2> HIDE DEF h, t, link
  <2>8. /\ c \in Int /\ d \in Int /\ c < d /\ h + SIZEOF_UDP < c /\ h + SIZEOF_UDP < d
        /\ s.ip_p = "TCP" => h + t < c /\ h + t < d
    BY <1>1, <1>4, <2>2, <2>3, <2>4
  <2> HIDE DEF c, d
  <2>9. /\ ~Reject(0).accepted /\ ~Reject(SIZEOF_IP).accepted
        /\ ~Reject(SIZEOF_IP).accepted = TRUE
    BY DEF Reject
  <2>10. CASE s.ip_p = "TCP"
    <3>1. Agree(process_tcp_packet(f, c, d), process_tcp_packet(g, d, d))
      BY <2>1, <2>2, <2>7, <2>8, <2>10, TcpAgree
    <3>2. CASE h < SIZEOF_IP
      <4>1. /\ process_tcp_packet(f, c, d) = Reject(SIZEOF_IP)
            /\ process_tcp_packet(g, d, d) = Reject(SIZEOF_IP)
        BY <2>7, <3>2 DEF process_tcp_packet
      <4>2. Parse(f).accepted = FALSE /\ Parse(g).accepted = FALSE
        BY <2>5, <2>6, <2>10, <4>1 DEF Reject
      <4> QED BY <4>2, Zenon DEF Agree, f, g
    <3>3. CASE ~(h < SIZEOF_IP)
      <4>1. ~(c < SIZEOF_IP) /\ ~(d < SIZEOF_IP)
        BY <2>2, <2>8, <3>3
      <4>2. CASE s.version = 4
        BY <2>5, <2>6, <2>10, <3>1, <4>1, <4>2, Zenon DEF f, g
      <4>3. CASE s.version # 4
        BY <2>5, <2>6, <4>1, <4>3, Zenon DEF Agree, f, g
      <4> QED BY <4>2, <4>3
    <3> QED BY <3>2, <3>3
  <2>11. CASE s.ip_p = "UDP"
    <3>1. Agree(process_udp_packet(f, c, d), process_udp_packet(g, d, d))
      BY <2>1, <2>2, <2>7, <2>8, UdpAgree
    <3>2. CASE h < SIZEOF_IP
      <4>1. /\ process_udp_packet(f, c, d) = Reject(SIZEOF_IP)
            /\ process_udp_packet(g, d, d) = Reject(SIZEOF_IP)
        BY <2>7, <3>2 DEF process_udp_packet
      <4>2. Parse(f).accepted = FALSE /\ Parse(g).accepted = FALSE
        BY <2>5, <2>6, <2>11, <4>1 DEF Reject
      <4> QED BY <4>2, Zenon DEF Agree, f, g
    <3>3. CASE ~(h < SIZEOF_IP)
      <4>1. ~(c < SIZEOF_IP) /\ ~(d < SIZEOF_IP) /\ "UDP" # "TCP"
        BY <2>2, <2>8, <3>3
      <4>2. CASE s.version = 4
        BY <2>5, <2>6, <2>11, <3>1, <4>1, <4>2, Zenon DEF f, g
      <4>3. CASE s.version # 4
        BY <2>5, <2>6, <4>1, <4>3, Zenon DEF Agree, f, g
      <4> QED BY <4>2, <4>3
    <3> QED BY <3>2, <3>3
  <2>12. CASE s.ip_p # "TCP" /\ s.ip_p # "UDP"
    <3>1. Parse(f).accepted = FALSE /\ Parse(g).accepted = FALSE
      BY <2>5, <2>6, <2>12 DEF Reject
    <3> QED BY <3>1, Zenon DEF Agree, f, g
  <2> QED BY <2>10, <2>11, <2>12
<1> QED BY <1>1, <1>2, <1>3, <1>4

-----------------------------------------------------------------------------
(* The invariant *)

LEMMA InvInit == CaptureInit => IInv
<1> SUFFICES ASSUME CaptureInit PROVE IInv
  OBVIOUS
<1>1. mode \in Modes /\ snaplen \in Lengths /\ snaplen \in Nat
  BY CaptureAssumption, HeaderAssumption DEF CaptureInit
<1>2. Same
  BY Zenon DEF CaptureInit, Init, W!Init, W!hashtable_create, hashtable_create,
               W!Conns, Conns, Same
<1> QED BY <1>1, <1>2 DEF IInv

LEMMA InvStep == IInv /\ [CaptureNext]_captureVars => IInv'
<1> SUFFICES ASSUME IInv, [CaptureNext]_captureVars PROVE IInv'
  OBVIOUS
<1>1. CASE UNCHANGED captureVars
  BY <1>1 DEF captureVars, vars, trackerVars, wholeVars, IInv, HeadersFit, Same
<1>2. CASE CaptureNext
  <2>1. /\ snaplen' = snaplen /\ mode' = mode /\ mode \in Modes
        /\ snaplen \in Lengths /\ snaplen \in Nat
    BY <1>2 DEF CaptureNext, IInv
  <2> SUFFICES ASSUME HeadersFit PROVE Same'
    BY <2>1 DEF IInv, HeadersFit
  <2>2. Same
    BY DEF IInv
  <2>0. CASE print_user_packet
    BY <2>2, <2>0 DEF print_user_packet, vars, trackerVars, wholeVars, Same
  <2> SUFFICES ASSUME HandleFrame PROVE Same'
    BY <1>2, <2>0 DEF CaptureNext
  <2>3. PICK s \in Shapes[mode], ok \in BOOLEAN,
             tcp \in [src : Endpoints, dst : Endpoints, syn : BOOLEAN, ack : BOOLEAN,
                      tv : Times] :
          /\ packet_handler(s, tcp, ok)
          /\ IF mode = "protocol" THEN HandleWhole(s, tcp, ok) ELSE UNCHANGED wholeVars
    BY Zenon DEF HandleFrame
  <2> DEFINE u == Parse(Snapped(s, snaplen))
             w == Parse(Snapped(s, s.len))
  <2>4. Agree(u, w)
    BY <2>1, ParseAgree
  <2>5. \/ Dropped(u)
        \/ u.accepted /\ push_packet_to_lua_state
        \/ /\ u.accepted /\ mode = "protocol"
           /\ Track(user_packet(s, u, tcp), ok)
    BY <2>3, Zenon DEF packet_handler
  <2>6. IF mode = "protocol"
        THEN IF w.accepted THEN TrackWhole(user_packet(s, w, tcp), ok) ELSE UNCHANGED wholeVars
        ELSE UNCHANGED wholeVars
    BY <2>3, Zenon DEF HandleWhole
  <2> HIDE DEF u, w
  <2>7. CASE UNCHANGED trackerVars /\ UNCHANGED wholeVars
    BY <2>2, <2>7 DEF trackerVars, wholeVars, Same
  <2>8. CASE Dropped(u)
    <3>1. ~u.accepted /\ ~w.accepted
      BY <2>4, <2>8, Zenon DEF Dropped, Agree
    <3> QED BY <2>6, <2>7, <2>8, <3>1, Zenon DEF Dropped
  <2>9. CASE push_packet_to_lua_state
    <3>1. mode # "protocol" /\ UNCHANGED trackerVars
      BY <2>9 DEF push_packet_to_lua_state
    <3> QED BY <2>6, <2>7, <3>1
  <2>10. CASE u.accepted /\ mode = "protocol" /\ Track(user_packet(s, u, tcp), ok)
    <3>1. w.accepted /\ (w.payload_size = 0 <=> u.payload_size = 0)
      BY <2>4, <2>10, Zenon DEF Agree
    <3>2. TrackWhole(user_packet(s, w, tcp), ok)
      BY <2>6, <2>10, <3>1, Zenon
    <3>3. Alike(user_packet(s, u, tcp), user_packet(s, w, tcp))
      BY <3>1 DEF Alike, user_packet
    <3> QED BY <2>2, <2>10, <3>2, <3>3, SamePacket, Zenon
  <2> QED BY <2>5, <2>8, <2>9, <2>10
<1> QED BY <1>1, <1>2

\* A snapshot longer than the headers (136 bytes with the longest link header
\* the handler knows, so the 256 of main are enough) changes nothing that the
\* tracker keeps, counts or prints.
THEOREM CutIsUnseenHolds == CaptureSpec => []CutIsUnseen
<1>1. IInv => CutIsUnseen
  BY DEF IInv, Same, CutIsUnseen
<1> QED BY <1>1, InvInit, InvStep, PTL DEF CaptureSpec

-----------------------------------------------------------------------------
(* The decoder *)

LEMMA SnappedFrame ==
  ASSUME NEW m \in Modes, NEW s \in Shapes[m], NEW limit \in Lengths
  PROVE  Snapped(s, limit) \in Frames
BY ShapeAssumption DEF Snapped, Frames

\* packet_handler composed with all it calls still decodes a frame as Decode
\* does: the parsers see what the snapshot left, and the Lua and protocol modes
\* leave the decoded frame alone.
THEOREM ImplementsDecode == CaptureSpec => DecodeSpec
<1>1. CaptureInit => DecodeInit
  BY DEF CaptureInit
<1>2. IInv /\ [CaptureNext]_captureVars => [DecodeNext]_decodeVars
  <2> SUFFICES ASSUME IInv, [CaptureNext]_captureVars PROVE [DecodeNext]_decodeVars
    OBVIOUS
  <2>1. CASE UNCHANGED captureVars
    BY <2>1 DEF captureVars
  <2>2. CASE HandleFrame
    BY <2>2 DEF HandleFrame
  <2>3. CASE print_user_packet
    <3>1. PICK s \in Shapes[mode] : DecodeFrame(Snapped(s, snaplen))
      BY <2>3 DEF print_user_packet
    <3>2. Snapped(s, snaplen) \in Frames
      BY <3>1, SnappedFrame DEF IInv
    <3>3. frame = NULL
      BY <2>3 DEF print_user_packet
    <3> QED BY <3>1, <3>2, <3>3, Zenon DEF DecodeNext
  <2> QED BY <2>1, <2>2, <2>3 DEF CaptureNext
<1> QED BY <1>1, <1>2, InvInit, InvStep, PTL DEF CaptureSpec, DecodeSpec

\* The bounds and the completeness of the parsers, for the frames that the
\* composed handler decodes under its snapshot length.
THEOREM CaptureDecodes ==
  CaptureSpec => [](PayloadInBounds /\ WholeFrameKept /\ SnaplenMonotone)
BY ImplementsDecode, PayloadInBoundsHolds, WholeFrameKeptHolds, SnaplenMonotoneHolds, PTL
=============================================================================
