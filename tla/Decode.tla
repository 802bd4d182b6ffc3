------------------------------- MODULE Decode -------------------------------
(***************************************************************************)
(* packet_handler and the two parsers it calls: what of a captured frame   *)
(* becomes a user_packet, and which bytes of the capture are looked at.    *)
(*                                                                         *)
(* A frame is the lengths it claims.  Offsets count from the IP header, as *)
(* caplen and wirelen do in the code.  The addresses, ports and flags are  *)
(* copied without a look at them and left out.  Nothing overflows: the     *)
(* header fields have 4 or 16 bits and libpcap limits a snapshot to        *)
(* 262144 bytes.                                                           *)
(***************************************************************************)
EXTENDS Integers, Table

CONSTANTS
  WORD,             \* bytes per unit of a header length field
  SIZEOF_IP,        \* sizeof(struct ip), without options
  SIZEOF_TCP,       \* sizeof(struct tcphdr), without options
  SIZEOF_UDP,       \* sizeof(struct udphdr)
  LinkHeaders,      \* header sizes of the link types the handler knows
  UnknownLink,      \* a link type it does not know
  Words,            \* the header lengths a frame may claim, in words
  Lengths           \* the lengths it may claim, in bytes

ASSUME HeaderAssumption ==
  /\ WORD \in Nat /\ SIZEOF_IP \in Nat
  /\ SIZEOF_TCP \in Nat /\ SIZEOF_UDP \in Nat
  /\ LinkHeaders \subseteq Nat /\ UnknownLink \notin LinkHeaders
  /\ Words \subseteq Nat /\ Lengths \subseteq Nat

\* caplen and len are libpcap's and include the link header.  ip_hl is the
\* length of the IP header in words.  l4 is the length field of the next header:
\* the words of a TCP header, the bytes of a UDP datagram.
Frames ==
  [link : LinkHeaders \cup {UnknownLink}, caplen : Lengths, len : Lengths,
   version : {4, 6}, ip_p : {"TCP", "UDP", "other"}, ip_hl : Words,
   ip_len : Lengths, l4 : Words \cup Lengths]

VARIABLES
  frame,        \* the frame that was handled, or NULL
  upacket       \* what the parser made of it

decodeVars == <<frame, upacket>>

DecodeInit == frame = NULL /\ upacket = NULL

-----------------------------------------------------------------------------
\* A parser returns -1, having read the first `upto' bytes.
Reject(upto) == [accepted |-> FALSE, upto |-> upto]

\* Mutant: payload_size is what the headers claim.
AcceptClaimed(offset, wire, captured, upto) ==
  [accepted |-> TRUE, upto |-> upto, offset |-> offset,
   wire_payload_size |-> wire, payload_size |-> wire]

\* Mutant: payload_size is what was captured, padding included.
AcceptPadding(offset, wire, captured, upto) ==
  [accepted |-> TRUE, upto |-> upto, offset |-> offset,
   wire_payload_size |-> wire, payload_size |-> captured]

\* Mutant: the payload on the wire is cut to what was captured.
AcceptCut(offset, wire, captured, upto) ==
  [accepted |-> TRUE, upto |-> upto, offset |-> offset,
   wire_payload_size |-> IF wire < captured THEN wire ELSE captured,
   payload_size |-> IF wire < captured THEN wire ELSE captured]

\* It returns 0: where the payload starts, how much of it there was on the wire
\* and how much of it can be read.
Accept(offset, wire, captured, upto) ==
  [accepted |-> TRUE, upto |-> upto, offset |-> offset,
   wire_payload_size |-> wire,
   payload_size |-> IF wire < captured THEN wire ELSE captured]

\* Mutant: the length is compared with what was captured.
OverlongCapture(f, caplen, wirelen) == f.ip_len > caplen

\* The IP length promises more than the frame had on the wire.
Overlong(f, caplen, wirelen) == f.ip_len > wirelen

process_tcp_packet(f, caplen, wirelen) ==
  LET iphdr_size  == f.ip_hl * WORD
      tcphdr_size == f.l4 * WORD
      fixed       == iphdr_size + SIZEOF_TCP
      headers     == iphdr_size + tcphdr_size
  IN  IF iphdr_size < SIZEOF_IP \/ caplen < fixed
      THEN Reject(SIZEOF_IP)
      ELSE IF \/ tcphdr_size < SIZEOF_TCP \/ caplen < headers
              \/ f.ip_len < headers \/ Overlong(f, caplen, wirelen)
      THEN Reject(fixed)
      ELSE Accept(headers, f.ip_len - headers, caplen - headers, fixed)

process_udp_packet(f, caplen, wirelen) ==
  LET iphdr_size == f.ip_hl * WORD
      headers    == iphdr_size + SIZEOF_UDP
  IN  IF iphdr_size < SIZEOF_IP \/ caplen < headers
      THEN Reject(SIZEOF_IP)
      ELSE IF f.l4 < SIZEOF_UDP \/ iphdr_size + f.l4 > wirelen
      THEN Reject(headers)
      ELSE Accept(headers, f.l4 - SIZEOF_UDP, caplen - headers, headers)

\* packet_handler up to the call of process_user_packet.
Parse(f) ==
  IF f.link = UnknownLink \/ f.caplen - f.link < SIZEOF_IP THEN Reject(0)
  ELSE IF f.version # 4 THEN Reject(SIZEOF_IP)
  ELSE IF f.ip_p = "TCP"
       THEN process_tcp_packet(f, f.caplen - f.link, f.len - f.link)
  ELSE IF f.ip_p = "UDP"
       THEN process_udp_packet(f, f.caplen - f.link, f.len - f.link)
  ELSE Reject(SIZEOF_IP)

\* The handler keeps nothing of a frame for the next one, so a behaviour is one
\* frame.
DecodeFrame(f) ==
  /\ frame' = f
  /\ upacket' = Parse(f)

DecodeNext == frame = NULL /\ \E f \in Frames : DecodeFrame(f)

DecodeSpec == DecodeInit /\ [][DecodeNext]_decodeVars

-----------------------------------------------------------------------------
(* Properties *)

\* The parsers look at no byte that was not captured, and the payload they hand
\* on ends within the capture: "safe to read", packet.h says of payload_size.
\* The sizes are never negative, and no packet claims more payload than the
\* frame had on the wire.
Bounded(f, u) ==
  /\ u.upto = 0 \/ u.upto <= f.caplen - f.link
  /\ u.accepted =>
       /\ u.payload_size >= 0
       /\ u.payload_size <= u.wire_payload_size
       /\ u.offset + u.payload_size <= f.caplen - f.link
       /\ u.offset + u.wire_payload_size <= f.len - f.link

PayloadInBounds == frame # NULL => Bounded(frame, upacket)

\* A frame whose headers fit its lengths.
WellFormed(f) ==
  /\ f.link \in LinkHeaders /\ f.version = 4
  /\ f.ip_hl * WORD >= SIZEOF_IP
  /\ f.ip_len <= f.len - f.link
  /\ \/ /\ f.ip_p = "TCP" /\ f.l4 * WORD >= SIZEOF_TCP
        /\ f.ip_len >= (f.ip_hl + f.l4) * WORD
     \/ /\ f.ip_p = "UDP" /\ f.l4 >= SIZEOF_UDP
        /\ f.ip_len = f.ip_hl * WORD + f.l4

\* No well formed frame that was captured whole is dropped, whatever its
\* options and however long its link layer padding, and its payload is all
\* there without the padding.
WholeFrameKept ==
  frame # NULL /\ WellFormed(frame) /\ frame.caplen = frame.len =>
    /\ upacket.accepted
    /\ upacket.payload_size = upacket.wire_payload_size
    /\ upacket.payload_size = frame.ip_len - upacket.offset

\* The snapshot length decides only how much of a payload is seen.  Of a frame
\* that is accepted when it is cut, a longer capture reports the same payload
\* on the wire and no shorter one to read.
Extends(u, w) ==
  u.accepted =>
    /\ w.accepted
    /\ w.offset = u.offset
    /\ w.wire_payload_size = u.wire_payload_size
    /\ w.payload_size >= u.payload_size

SnaplenMonotone ==
  frame # NULL =>
    \A c \in Lengths :
      c >= frame.caplen => Extends(upacket, Parse([frame EXCEPT !.caplen = c]))
=============================================================================
