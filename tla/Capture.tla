------------------------------ MODULE Capture ------------------------------
(***************************************************************************)
(* packet_handler with all it calls: a frame is decoded from the bytes     *)
(* that the snapshot length left of it (module Decode), and the packet     *)
(* goes to the Lua script, to the raw printer or to the tracker (module    *)
(* Tracker).                                                               *)
(*                                                                         *)
(* The tracker sees a capture of many frames.  The raw printer keeps       *)
(* nothing between them, so in raw mode one frame is followed through the  *)
(* parsers, with the variables of Decode.                                  *)
(*                                                                         *)
(* A second tracker, the w_ variables, is handed the same frames uncut.    *)
(* It is what the capture is compared with and no part of the program.     *)
(***************************************************************************)
EXTENDS Tracker, Decode

CONSTANTS
  Shapes,                \* per mode, the frames on the wire: as in Decode, but
                         \* without caplen
  Snaplens,              \* per mode, the snapshot lengths, link header included
  LUA_GC_CYCLE_PERIOD

Modes == {"lua", "raw", "protocol"}

ASSUME CaptureAssumption ==
  /\ Snaplens \in [Modes -> SUBSET Lengths]
  /\ LUA_GC_CYCLE_PERIOD \in Nat \ {0}

\* The header length of a TCP segment is a field of four bits, as that of IP is.
ASSUME ShapeAssumption ==
  \A m \in Modes : \A s \in Shapes[m] :
    /\ s \in [link : LinkHeaders \cup {UnknownLink}, len : Lengths,
              version : {4, 6}, ip_p : {"TCP", "UDP", "other"}, ip_hl : Words,
              ip_len : Lengths, l4 : Words \cup Lengths]
    /\ s.ip_p = "TCP" => s.l4 \in Words

VARIABLES
  mode,                  \* lua_state and protocol of the sniffer
  snaplen,
  gc_count,              \* packets since the last step of the Lua collector
  exited,                \* log_message ended the process
  w_syn_tab, w_requests, w_primed, w_last, w_printed

wholeVars == <<w_syn_tab, w_requests, w_primed, w_last, w_printed>>
captureVars == <<vars, decodeVars, wholeVars, mode, snaplen, gc_count, exited>>

W == INSTANCE Tracker WITH
       syn_tab <- w_syn_tab, requests <- w_requests, expire_primed <- w_primed,
       last_expire <- w_last, printed <- w_printed

CaptureInit ==
  /\ Init
  /\ DecodeInit
  /\ W!Init
  /\ mode \in Modes
  /\ snaplen \in Snaplens[mode]
  /\ gc_count = 0
  /\ exited = FALSE

-----------------------------------------------------------------------------
\* What libpcap delivers of a frame under a snapshot length.
Snapped(s, limit) ==
  [link |-> s.link, caplen |-> IF s.len < limit THEN s.len ELSE limit, len |-> s.len,
   version |-> s.version, ip_p |-> s.ip_p, ip_hl |-> s.ip_hl, ip_len |-> s.ip_len,
   l4 |-> s.l4]

\* The user_packet of an accepted frame.  A datagram leaves the flags cleared.
user_packet(s, u, tcp) ==
  [src |-> tcp.src, dst |-> tcp.dst, tv |-> tcp.tv, size |-> s.len,
   payload_size |-> u.payload_size,
   syn |-> s.ip_p = "TCP" /\ tcp.syn, ack |-> s.ip_p = "TCP" /\ tcp.ack]

\* process_user_packet in protocol mode, with the outcome of its allocations.
Track(p, ok) ==
  /\ expire_stale_requests(p.tv)
  /\ \/ RegisterEndpoint(p, ok) \/ IgnoreEmpty(p) \/ IgnoreUnknown(p)
     \/ process_request_packet(p, ok) \/ process_response_packet(p)

TrackWhole(p, ok) ==
  /\ W!expire_stale_requests(p.tv)
  /\ \/ W!RegisterEndpoint(p, ok) \/ W!IgnoreEmpty(p) \/ W!IgnoreUnknown(p)
     \/ W!process_request_packet(p, ok) \/ W!process_response_packet(p)

\* The comparison: the same frame, uncut.
HandleWhole(s, tcp, ok) ==
  LET u == Parse(Snapped(s, s.len))
  IN  IF u.accepted THEN TrackWhole(user_packet(s, u, tcp), ok)
                    ELSE UNCHANGED wholeVars

lua_need_gc(count) == IF count + 1 = LUA_GC_CYCLE_PERIOD THEN 0 ELSE count + 1

\* The script is called with the packet.  If it fails, log_message(FATAL) ends
\* the process.
push_packet_to_lua_state ==
  /\ mode = "lua"
  /\ \/ gc_count' = lua_need_gc(gc_count) /\ UNCHANGED exited
     \/ exited' = TRUE /\ UNCHANGED gc_count
  /\ UNCHANGED trackerVars

Dropped(u) == ~u.accepted /\ UNCHANGED <<trackerVars, gc_count, exited>>

\* The frame s from `tcp.src' to `tcp.dst', captured at tcp.tv, for the script
\* or the tracker.
packet_handler(s, tcp, ok) ==
  LET u == Parse(Snapped(s, snaplen))
  IN  \/ Dropped(u)
      \/ u.accepted /\ push_packet_to_lua_state
      \/ /\ u.accepted /\ mode = "protocol"
         /\ Track(user_packet(s, u, tcp), ok)
         /\ UNCHANGED <<gc_count, exited>>

HandleFrame ==
  /\ mode # "raw" /\ ~exited
  /\ \E s \in Shapes[mode], ok \in BOOLEAN,
        tcp \in [src : Endpoints, dst : Endpoints, syn : BOOLEAN, ack : BOOLEAN, tv : Times] :
       /\ Arrive(tcp)
       /\ packet_handler(s, tcp, ok)
       /\ IF mode = "protocol" THEN HandleWhole(s, tcp, ok) ELSE UNCHANGED wholeVars
  /\ UNCHANGED decodeVars

\* packet_handler in raw mode: an accepted frame is printed, the other ones are
\* not, and either way nothing is kept.
print_user_packet ==
  /\ mode = "raw" /\ frame = NULL
  /\ \E s \in Shapes[mode] : DecodeFrame(Snapped(s, snaplen))
  /\ UNCHANGED <<vars, wholeVars, gc_count, exited>>

CaptureNext ==
  /\ HandleFrame \/ print_user_packet
  /\ UNCHANGED <<mode, snaplen>>

CaptureSpec == CaptureInit /\ [][CaptureNext]_captureVars

-----------------------------------------------------------------------------
(* Properties *)

\* A snapshot that holds the longest headers and one byte more.
HeadersFit ==
  \A link \in LinkHeaders, w, x \in Words :
    link + w * WORD + x * WORD < snaplen /\ link + w * WORD + SIZEOF_UDP < snaplen

\* main lowers the snapshot length to 256 bytes because the pairing of requests
\* and responses needs no more: a capture cut anywhere behind the headers
\* registers the same endpoints, counts the same bytes, keeps the same requests
\* and prints the same latencies as one of whole frames.  Otherwise one request
\* whose payload was cut away would shift every later latency of its connection.
CutIsUnseen ==
  HeadersFit =>
    /\ syn_tab = w_syn_tab
    /\ requests = w_requests
    /\ printed = w_printed
=============================================================================
