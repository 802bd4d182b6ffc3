---------------------------- MODULE DecodeProofs ----------------------------
(***************************************************************************)
(* Proofs about Decode, for every header size and every length a frame may *)
(* claim: the model checker's instance scales them down.                   *)
(***************************************************************************)
EXTENDS Decode, TLAPS

\* The lengths of a frame are numbers, and so are the products with WORD.
LEMMA FrameTypes ==
  ASSUME NEW f \in Frames
  PROVE  /\ f.caplen \in Nat /\ f.len \in Nat /\ f.ip_len \in Nat
         /\ f.ip_hl \in Nat /\ f.l4 \in Nat
         /\ f.ip_hl * WORD \in Nat /\ f.l4 * WORD \in Nat
         /\ f.link # UnknownLink => f.link \in Nat
         /\ SIZEOF_IP \in Nat /\ SIZEOF_TCP \in Nat /\ SIZEOF_UDP \in Nat
<1>1. /\ f.caplen \in Nat /\ f.len \in Nat /\ f.ip_len \in Nat
      /\ f.ip_hl \in Nat /\ f.l4 \in Nat
      /\ f.link # UnknownLink => f.link \in Nat
  BY HeaderAssumption DEF Frames
<1>2. \A m, n \in Nat : m * n \in Nat
  OBVIOUS
<1> QED BY <1>1, <1>2, HeaderAssumption

\* The TCP parser, for the lengths from the IP header on.
LEMMA TcpBounded ==
  ASSUME NEW f \in Frames, NEW cap \in Int, NEW wire \in Int, cap >= SIZEOF_IP
  PROVE  LET u == process_tcp_packet(f, cap, wire)
         IN  /\ u.upto <= cap
             /\ u.accepted =>
                  /\ u.payload_size >= 0
                  /\ u.payload_size <= u.wire_payload_size
                  /\ u.offset + u.payload_size <= cap
                  /\ u.offset + u.wire_payload_size <= wire
<1> DEFINE h == f.ip_hl * WORD
           t == f.l4 * WORD
<1>1. /\ h \in Nat /\ t \in Nat /\ f.ip_len \in Nat
      /\ SIZEOF_IP \in Nat /\ SIZEOF_TCP \in Nat
  BY FrameTypes
<1>2. process_tcp_packet(f, cap, wire) =
        IF h < SIZEOF_IP \/ cap < h + SIZEOF_TCP
        THEN Reject(SIZEOF_IP)
        ELSE IF \/ t < SIZEOF_TCP \/ cap < h + t
                \/ f.ip_len < h + t \/ f.ip_len > wire
        THEN Reject(h + SIZEOF_TCP)
        ELSE Accept(h + t, f.ip_len - (h + t), cap - (h + t), h + SIZEOF_TCP)
  BY DEF process_tcp_packet, Overlong
<1> HIDE DEF h, t
<1> QED BY <1>1, <1>2 DEF Reject, Accept

\* The UDP parser.
LEMMA UdpBounded ==
  ASSUME NEW f \in Frames, NEW cap \in Int, NEW wire \in Int, cap >= SIZEOF_IP
  PROVE  LET u == process_udp_packet(f, cap, wire)
         IN  /\ u.upto <= cap
             /\ u.accepted =>
                  /\ u.payload_size >= 0
                  /\ u.payload_size <= u.wire_payload_size
                  /\ u.offset + u.payload_size <= cap
                  /\ u.offset + u.wire_payload_size <= wire
<1> DEFINE h == f.ip_hl * WORD
<1>1. h \in Nat /\ f.l4 \in Nat /\ SIZEOF_IP \in Nat /\ SIZEOF_UDP \in Nat
  BY FrameTypes
<1>2. process_udp_packet(f, cap, wire) =
        IF h < SIZEOF_IP \/ cap < h + SIZEOF_UDP
        THEN Reject(SIZEOF_IP)
        ELSE IF f.l4 < SIZEOF_UDP \/ h + f.l4 > wire
        THEN Reject(h + SIZEOF_UDP)
        ELSE Accept(h + SIZEOF_UDP, f.l4 - SIZEOF_UDP, cap - (h + SIZEOF_UDP),
                    h + SIZEOF_UDP)
  BY DEF process_udp_packet
<1> HIDE DEF h
<1> QED BY <1>1, <1>2 DEF Reject, Accept

LEMMA ParseBounded ==
  ASSUME NEW f \in Frames
  PROVE  Bounded(f, Parse(f))
<1> DEFINE cap == f.caplen - f.link
           wire == f.len - f.link
<1>1. CASE f.link = UnknownLink
  BY <1>1 DEF Parse, Bounded, Reject
<1>2. CASE f.link # UnknownLink
  <2>1. cap \in Int /\ wire \in Int /\ SIZEOF_IP \in Nat
    BY <1>2, FrameTypes
  <2>2. Parse(f) =
          IF cap < SIZEOF_IP THEN Reject(0)
          ELSE IF f.version # 4 THEN Reject(SIZEOF_IP)
          ELSE IF f.ip_p = "TCP" THEN process_tcp_packet(f, cap, wire)
          ELSE IF f.ip_p = "UDP" THEN process_udp_packet(f, cap, wire)
          ELSE Reject(SIZEOF_IP)
    BY <1>2 DEF Parse
  <2> HIDE DEF cap, wire
  <2> SUFFICES ASSUME NEW u, u = Parse(f)
               PROVE  /\ u.upto = 0 \/ u.upto <= cap
                      /\ u.accepted =>
                           /\ u.payload_size >= 0
                           /\ u.payload_size <= u.wire_payload_size
                           /\ u.offset + u.payload_size <= cap
                           /\ u.offset + u.wire_payload_size <= wire
    BY DEF Bounded, cap, wire
  <2>3. CASE cap < SIZEOF_IP
    BY <2>2, <2>3 DEF Reject
  <2>4. CASE cap >= SIZEOF_IP
    <3>1. CASE u = Reject(SIZEOF_IP)
      BY <2>1, <2>4, <3>1 DEF Reject
    <3>2. CASE u = process_tcp_packet(f, cap, wire)
      BY <2>1, <2>4, <3>2, TcpBounded
    <3>3. CASE u = process_udp_packet(f, cap, wire)
      BY <2>1, <2>4, <3>3, UdpBounded
    <3> QED BY <2>1, <2>2, <2>4, <3>1, <3>2, <3>3
  <2> QED BY <2>1, <2>3, <2>4
<1> QED BY <1>1, <1>2

\* Whatever lengths a frame claims, the parsers stay within the capture and the
\* payload they hand on is within the capture and within the frame.
THEOREM PayloadInBoundsHolds == DecodeSpec => []PayloadInBounds
<1>1. DecodeInit => PayloadInBounds
  BY DEF DecodeInit, PayloadInBounds
<1>2. PayloadInBounds /\ [DecodeNext]_decodeVars => PayloadInBounds'
  <2> SUFFICES ASSUME PayloadInBounds, [DecodeNext]_decodeVars
               PROVE  PayloadInBounds'
    OBVIOUS
  <2>1. CASE UNCHANGED decodeVars
    BY <2>1 DEF PayloadInBounds, decodeVars
  <2>2. CASE DecodeNext
    <3>1. PICK f \in Frames : frame' = f /\ upacket' = Parse(f)
      BY <2>2 DEF DecodeNext, DecodeFrame
    <3> QED BY <3>1, ParseBounded DEF PayloadInBounds
  <2> QED BY <2>1, <2>2
<1> QED BY <1>1, <1>2, PTL DEF DecodeSpec

\* What the last handler call left behind.
Handled == frame # NULL => frame \in Frames /\ upacket = Parse(frame)

LEMMA HandledHolds == DecodeSpec => []Handled
<1>1. DecodeInit => Handled
  BY DEF DecodeInit, Handled
<1>2. Handled /\ [DecodeNext]_decodeVars => Handled'
  BY DEF Handled, DecodeNext, DecodeFrame, decodeVars
<1> QED BY <1>1, <1>2, PTL DEF DecodeSpec

\* The parser of a frame of a known link, with its lengths.
LEMMA ParseKnown ==
  ASSUME NEW f \in Frames, f.link # UnknownLink
  PROVE  Parse(f) =
           IF f.caplen - f.link < SIZEOF_IP THEN Reject(0)
           ELSE IF f.version # 4 THEN Reject(SIZEOF_IP)
           ELSE IF f.ip_p = "TCP"
                THEN process_tcp_packet(f, f.caplen - f.link, f.len - f.link)
           ELSE IF f.ip_p = "UDP"
                THEN process_udp_packet(f, f.caplen - f.link, f.len - f.link)
           ELSE Reject(SIZEOF_IP)
BY DEF Parse

LEMMA WholeKept ==
  ASSUME NEW f \in Frames, WellFormed(f), f.caplen = f.len
  PROVE  /\ Parse(f).accepted
         /\ Parse(f).payload_size = Parse(f).wire_payload_size
         /\ Parse(f).payload_size = f.ip_len - Parse(f).offset
<1> DEFINE h == f.ip_hl * WORD
           t == f.l4 * WORD
           cap == f.caplen - f.link
<1>1. f.link # UnknownLink
  BY HeaderAssumption DEF WellFormed
<1>2. /\ h \in Nat /\ t \in Nat /\ f.ip_len \in Nat /\ f.l4 \in Nat /\ cap \in Int
      /\ SIZEOF_IP \in Nat /\ SIZEOF_TCP \in Nat /\ SIZEOF_UDP \in Nat
  BY <1>1, FrameTypes
<1>3. (f.ip_hl + f.l4) * WORD = h + t
  <2>1. \A a, b, w \in Nat : (a + b) * w = a * w + b * w
    OBVIOUS
  <2> QED BY <2>1, FrameTypes, HeaderAssumption
<1>4. h >= SIZEOF_IP /\ f.ip_len <= cap /\ f.version = 4
  BY DEF WellFormed
<1>5. CASE f.ip_p = "TCP"
  <2>1. t >= SIZEOF_TCP /\ f.ip_len >= h + t
    BY <1>3, <1>5 DEF WellFormed
  <2>2. Parse(f) = process_tcp_packet(f, cap, cap)
    <3> HIDE DEF h, t
    <3>1. ~(cap < SIZEOF_IP)
      BY <1>2, <1>4, <2>1
    <3> QED BY <1>1, <1>4, <1>5, <3>1, ParseKnown
  <2>3. process_tcp_packet(f, cap, cap) = Accept(h + t, f.ip_len - (h + t), cap - (h + t), h + SIZEOF_TCP)
    <3> HIDE DEF cap
    <3>1. process_tcp_packet(f, cap, cap) =
            IF h < SIZEOF_IP \/ cap < h + SIZEOF_TCP
            THEN Reject(SIZEOF_IP)
            ELSE IF \/ t < SIZEOF_TCP \/ cap < h + t
                    \/ f.ip_len < h + t \/ f.ip_len > cap
            THEN Reject(h + SIZEOF_TCP)
            ELSE Accept(h + t, f.ip_len - (h + t), cap - (h + t), h + SIZEOF_TCP)
      BY DEF process_tcp_packet, Overlong
    <3> HIDE DEF h, t
    <3> QED BY <1>2, <1>4, <2>1, <3>1
  <2> HIDE DEF h, t, cap
  <2> QED BY <1>2, <1>4, <2>1, <2>2, <2>3 DEF Accept
<1>6. CASE f.ip_p = "UDP"
  <2>1. f.l4 >= SIZEOF_UDP /\ f.ip_len = h + f.l4
    BY <1>6 DEF WellFormed
  <2>2. Parse(f) = process_udp_packet(f, cap, cap)
    <3> HIDE DEF h, t
    <3>1. ~(cap < SIZEOF_IP)
      BY <1>2, <1>4, <2>1
    <3> QED BY <1>1, <1>4, <1>6, <3>1, ParseKnown
  <2>3. process_udp_packet(f, cap, cap) =
          Accept(h + SIZEOF_UDP, f.l4 - SIZEOF_UDP, cap - (h + SIZEOF_UDP), h + SIZEOF_UDP)
    <3> HIDE DEF cap
    <3>1. process_udp_packet(f, cap, cap) =
            IF h < SIZEOF_IP \/ cap < h + SIZEOF_UDP
            THEN Reject(SIZEOF_IP)
            ELSE IF f.l4 < SIZEOF_UDP \/ h + f.l4 > cap
            THEN Reject(h + SIZEOF_UDP)
            ELSE Accept(h + SIZEOF_UDP, f.l4 - SIZEOF_UDP, cap - (h + SIZEOF_UDP),
                        h + SIZEOF_UDP)
      BY DEF process_udp_packet
    <3> HIDE DEF h, t
    <3> QED BY <1>2, <1>4, <2>1, <3>1
  <2> HIDE DEF h, t, cap
  <2> QED BY <1>2, <1>4, <2>1, <2>2, <2>3 DEF Accept
<1> QED BY <1>5, <1>6 DEF WellFormed

\* packet_handler drops no well formed frame that was captured whole, and sees
\* its whole payload without the padding.
THEOREM WholeFrameKeptHolds == DecodeSpec => []WholeFrameKept
<1>1. Handled => WholeFrameKept
  BY WholeKept DEF Handled, WholeFrameKept
<1> QED BY <1>1, HandledHolds, PTL

\* A longer capture of an accepted segment.
LEMMA TcpMonotone ==
  ASSUME NEW f \in Frames, NEW g \in Frames, NEW c \in Int, NEW d \in Int,
         NEW wire \in Int, c <= d,
         g.ip_hl = f.ip_hl, g.l4 = f.l4, g.ip_len = f.ip_len
  PROVE  Extends(process_tcp_packet(f, c, wire), process_tcp_packet(g, d, wire))
<1> DEFINE h == f.ip_hl * WORD
           t == f.l4 * WORD
<1>1. /\ h \in Nat /\ t \in Nat /\ f.ip_len \in Nat
      /\ SIZEOF_IP \in Nat /\ SIZEOF_TCP \in Nat
  BY FrameTypes
<1>2. process_tcp_packet(f, c, wire) =
        IF h < SIZEOF_IP \/ c < h + SIZEOF_TCP
        THEN Reject(SIZEOF_IP)
        ELSE IF \/ t < SIZEOF_TCP \/ c < h + t
                \/ f.ip_len < h + t \/ f.ip_len > wire
        THEN Reject(h + SIZEOF_TCP)
        ELSE Accept(h + t, f.ip_len - (h + t), c - (h + t), h + SIZEOF_TCP)
  BY DEF process_tcp_packet, Overlong
<1>3. process_tcp_packet(g, d, wire) =
        IF h < SIZEOF_IP \/ d < h + SIZEOF_TCP
        THEN Reject(SIZEOF_IP)
        ELSE IF \/ t < SIZEOF_TCP \/ d < h + t
                \/ f.ip_len < h + t \/ f.ip_len > wire
        THEN Reject(h + SIZEOF_TCP)
        ELSE Accept(h + t, f.ip_len - (h + t), d - (h + t), h + SIZEOF_TCP)
  BY DEF process_tcp_packet, Overlong
<1> HIDE DEF h, t
<1> QED BY <1>1, <1>2, <1>3 DEF Reject, Accept, Extends

\* A longer capture of an accepted datagram.
LEMMA UdpMonotone ==
  ASSUME NEW f \in Frames, NEW g \in Frames, NEW c \in Int, NEW d \in Int,
         NEW wire \in Int, c <= d,
         g.ip_hl = f.ip_hl, g.l4 = f.l4
  PROVE  Extends(process_udp_packet(f, c, wire), process_udp_packet(g, d, wire))
<1> DEFINE h == f.ip_hl * WORD
<1>1. h \in Nat /\ f.l4 \in Nat /\ SIZEOF_IP \in Nat /\ SIZEOF_UDP \in Nat
  BY FrameTypes
<1>2. process_udp_packet(f, c, wire) =
        IF h < SIZEOF_IP \/ c < h + SIZEOF_UDP
        THEN Reject(SIZEOF_IP)
        ELSE IF f.l4 < SIZEOF_UDP \/ h + f.l4 > wire
        THEN Reject(h + SIZEOF_UDP)
        ELSE Accept(h + SIZEOF_UDP, f.l4 - SIZEOF_UDP, c - (h + SIZEOF_UDP),
                    h + SIZEOF_UDP)
  BY DEF process_udp_packet
<1>3. process_udp_packet(g, d, wire) =
        IF h < SIZEOF_IP \/ d < h + SIZEOF_UDP
        THEN Reject(SIZEOF_IP)
        ELSE IF f.l4 < SIZEOF_UDP \/ h + f.l4 > wire
        THEN Reject(h + SIZEOF_UDP)
        ELSE Accept(h + SIZEOF_UDP, f.l4 - SIZEOF_UDP, d - (h + SIZEOF_UDP),
                    h + SIZEOF_UDP)
  BY DEF process_udp_packet
<1> HIDE DEF h
<1> QED BY <1>1, <1>2, <1>3 DEF Reject, Accept, Extends

LEMMA ParseMonotone ==
  ASSUME NEW f \in Frames, NEW c \in Lengths, c >= f.caplen
  PROVE  Extends(Parse(f), Parse([f EXCEPT !.caplen = c]))
<1> DEFINE g == [f EXCEPT !.caplen = c]
<1>1. /\ g \in Frames /\ g.caplen = c
      /\ g.link = f.link /\ g.len = f.len /\ g.version = f.version /\ g.ip_p = f.ip_p
      /\ g.ip_hl = f.ip_hl /\ g.l4 = f.l4 /\ g.ip_len = f.ip_len
  BY DEF Frames
<1> HIDE DEF g
<1>2. CASE f.link = UnknownLink
  BY <1>2 DEF Parse, Reject, Extends
<1>3. CASE f.link # UnknownLink
  <2>1. /\ f.caplen - f.link \in Int /\ c - f.link \in Int /\ f.len - f.link \in Int
        /\ f.caplen - f.link <= c - f.link /\ SIZEOF_IP \in Nat
    BY <1>3, FrameTypes, HeaderAssumption
  <2>2. CASE Parse(f) = process_tcp_packet(f, f.caplen - f.link, f.len - f.link)
             /\ Parse(g) = process_tcp_packet(g, c - f.link, f.len - f.link)
    BY <1>1, <2>1, <2>2, TcpMonotone DEF g
  <2>3. CASE Parse(f) = process_udp_packet(f, f.caplen - f.link, f.len - f.link)
             /\ Parse(g) = process_udp_packet(g, c - f.link, f.len - f.link)
    BY <1>1, <2>1, <2>3, UdpMonotone DEF g
  <2>4. CASE ~Parse(f).accepted
    BY <2>4 DEF Extends
  <2>5. \/ ~Parse(f).accepted
        \/ /\ Parse(f) = process_tcp_packet(f, f.caplen - f.link, f.len - f.link)
           /\ Parse(g) = process_tcp_packet(g, c - f.link, f.len - f.link)
        \/ /\ Parse(f) = process_udp_packet(f, f.caplen - f.link, f.len - f.link)
           /\ Parse(g) = process_udp_packet(g, c - f.link, f.len - f.link)
    <3>1. /\ ~Reject(0).accepted /\ ~Reject(SIZEOF_IP).accepted
      BY DEF Reject
    <3>2. CASE f.caplen - f.link < SIZEOF_IP
      BY <1>3, <3>1, <3>2, ParseKnown
    <3>3. CASE ~(f.caplen - f.link < SIZEOF_IP)
      <4>1. ~(c - f.link < SIZEOF_IP)
        BY <2>1, <3>3
      <4> QED BY <1>1, <1>3, <3>1, <3>3, <4>1, ParseKnown
    <3> QED BY <3>2, <3>3
  <2> QED BY <2>2, <2>3, <2>4, <2>5 DEF g
<1> QED BY <1>2, <1>3

\* A longer snapshot never loses a packet that a shorter one gave, nor a byte of
\* its payload, and never changes the payload it reports for the wire.
THEOREM SnaplenMonotoneHolds == DecodeSpec => []SnaplenMonotone
<1>1. Handled => SnaplenMonotone
  BY ParseMonotone DEF Handled, SnaplenMonotone
<1> QED BY <1>1, HandledHolds, PTL
=============================================================================
