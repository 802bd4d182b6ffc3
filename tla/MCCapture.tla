----------------------------- MODULE MCCapture -----------------------------
(* Model-checking instance of Capture: scaled header sizes. *)
EXTENDS Capture, TLC

MCLatencyBounds == <<1>>
MCTimes == 0 .. 2
MCWords == 1 .. 3
MCLengths == 0 .. 16

\* A frame with one byte of link header whose IP length is `extra' too long.
Shape(p, hl, l4, payload, version, extra) ==
  LET len == hl * WORD + (IF p = "TCP" THEN l4 * WORD ELSE SIZEOF_UDP) + payload
  IN  [link |-> 1, version |-> version, ip_p |-> p, ip_hl |-> hl, l4 |-> l4,
       ip_len |-> len + extra, len |-> 1 + len]

\* TCP segments with and without options and payload, a datagram, one frame
\* that claims too much, one of another network layer and one of another link.
Exchange ==
  {Shape("TCP", 2, 2, 0, 4, 0), Shape("TCP", 2, 3, 3, 4, 0),
   Shape("TCP", 3, 3, 3, 4, 0), Shape("UDP", 2, 5, 3, 4, 0),
   Shape("TCP", 2, 2, 0, 4, 1), Shape("TCP", 2, 2, 0, 6, 0),
   [Shape("TCP", 2, 2, 0, 4, 0) EXCEPT !.link = UnknownLink]}

\* Every frame of up to 11 bytes, whatever lengths up to that it claims.
Short == 0 .. 11
AnyShort ==
  {s \in [link : LinkHeaders \cup {UnknownLink}, len : Short, version : {4, 6},
          ip_p : {"TCP", "UDP", "other"}, ip_hl : Words, ip_len : Short, l4 : Short] :
     s.ip_p = "TCP" => s.l4 \in Words}

MCShapes == [m \in Modes |-> IF m = "raw" THEN AnyShort ELSE Exchange]
\* One snapshot that cuts headers off and one that holds the longest.
MCSnaplens == [m \in Modes |-> IF m = "raw" THEN Short ELSE {9, 14}]
=============================================================================
