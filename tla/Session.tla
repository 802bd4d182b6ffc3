------------------------------ MODULE Session ------------------------------
(***************************************************************************)
(* The tracker at work on the traffic of real connections: do the lines it *)
(* prints say what happened between the clients and their server?          *)
(*                                                                         *)
(* Each client opens a connection to one server and sends requests on it,  *)
(* at most traffic.depth of them unanswered at a time.  The server answers *)
(* in order.  If traffic.segmented, a request and a response may take      *)
(* several segments.  A later segment stands for a retransmission as well, *)
(* of a request until its answer begins and of a response until the next   *)
(* request begins; the tracker has no sequence numbers, and a segment that *)
(* comes again later would pass for a new request, or for the answer to    *)
(* the new one.  Up to traffic.missed answers never show in the capture:   *)
(* the capture dropped them, or the client gave up on them.                *)
(* The tracker sees the segments one by one; the module remembers what it  *)
(* cannot see, when the request that a response belongs to was sent.       *)
(*                                                                         *)
(* The traffic is the environment; every definition of the program's is    *)
(* Tracker's.  Allocations succeed here.                                   *)
(***************************************************************************)
EXTENDS Tracker

CONSTANTS
  Server,       \* the endpoint that serves
  Traffics      \* the kinds of traffic, one of which a behaviour has: how many
                \* requests a client may have in flight, whether they and the
                \* responses are segmented, how many answers are missed

ASSUME SessionAssumption ==
  /\ Server \in Endpoints /\ Sizes # {}
  /\ Traffics \subseteq [depth : Nat \ {0}, segmented : BOOLEAN, missed : Nat]

Clients == Endpoints \ {Server}

VARIABLES
  traffic,      \* the kind of traffic
  connected,    \* clients whose handshake was captured
  inflight,     \* per client, when its unanswered requests were sent
  answering,    \* clients whose latest response may have further segments
  truth,        \* true latency of the exchange whose response began with the
                \* last packet, or NULL if the last packet began no response
  missed        \* answers the capture has not shown

sessionVars == <<vars, traffic, connected, inflight, answering, truth, missed>>

SessionInit ==
  /\ Init
  /\ traffic \in Traffics
  /\ connected = {}
  /\ inflight = [c \in Clients |-> <<>>]
  /\ answering = {}
  /\ truth = NULL
  /\ missed = 0

Segment(from, to, t, syn, ack, payload_size) ==
  [src |-> from, dst |-> to, syn |-> syn, ack |-> ack,
   payload_size |-> payload_size, size |-> CHOOSE n \in Sizes : TRUE, tv |-> t]

\* process_user_packet when no allocation fails.
Capture(p) ==
  /\ Arrive(p)
  /\ expire_stale_requests(p.tv)
  /\ \/ RegisterEndpoint(p, TRUE)
     \/ IgnoreEmpty(p)
     \/ IgnoreUnknown(p)
     \/ process_request_packet(p, TRUE)
     \/ process_response_packet(p)

-----------------------------------------------------------------------------
\* The capture shows at least one packet of the handshake: the SYN or the
\* SYN+ACK.
Connect(c, t) ==
  /\ c \notin connected
  /\ \/ Capture(Segment(c, Server, t, TRUE, FALSE, 0))
     \/ Capture(Segment(Server, c, t, TRUE, TRUE, 0))
  /\ connected' = connected \cup {c}
  /\ truth' = NULL
  /\ UNCHANGED <<inflight, answering, missed>>

\* The first segment of a new request.  The client of a full pipeline waits
\* for a whole response before it sends.
Ask(c, t) ==
  /\ c \in connected /\ Len(inflight[c]) < traffic.depth
  /\ Capture(Segment(c, Server, t, FALSE, FALSE, 1))
  /\ inflight' = [inflight EXCEPT ![c] = Append(@, t)]
  /\ answering' = IF inflight[c] = <<>> THEN answering \ {c} ELSE answering
  /\ truth' = NULL
  /\ UNCHANGED <<connected, missed>>

\* A further segment of the latest request, or its retransmission before the
\* answer begins.  One after the answer is not in this traffic.
AskMore(c, t) ==
  /\ traffic.segmented /\ inflight[c] # <<>>
  /\ Capture(Segment(c, Server, t, FALSE, FALSE, 1))
  /\ truth' = NULL
  /\ UNCHANGED <<connected, inflight, answering, missed>>

\* The first segment of the response to the oldest request.
Answer(c, t) ==
  /\ inflight[c] # <<>>
  /\ Capture(Segment(Server, c, t, FALSE, FALSE, 1))
  /\ inflight' = [inflight EXCEPT ![c] = Tail(@)]
  /\ answering' = answering \cup {c}
  /\ truth' = t - Head(inflight[c])
  /\ UNCHANGED <<connected, missed>>

\* A further segment of the latest response, or its retransmission before the
\* next request begins.  One after that is not in this traffic.
AnswerMore(c, t) ==
  /\ traffic.segmented /\ c \in answering
  /\ Capture(Segment(Server, c, t, FALSE, FALSE, 1))
  /\ truth' = NULL
  /\ UNCHANGED <<connected, inflight, answering, missed>>

\* The oldest request is answered, but not in the capture, or given up.
Miss(c) ==
  /\ inflight[c] # <<>> /\ missed < traffic.missed
  /\ inflight' = [inflight EXCEPT ![c] = Tail(@)]
  /\ answering' = answering \ {c}
  /\ missed' = missed + 1
  /\ truth' = NULL
  /\ UNCHANGED <<vars, connected>>

SessionNext ==
  /\ \E c \in Clients :
       \/ \E t \in Times : \/ Connect(c, t)
                           \/ Ask(c, t)
                           \/ AskMore(c, t)
                           \/ Answer(c, t)
                           \/ AnswerMore(c, t)
       \/ Miss(c)
  /\ UNCHANGED traffic

SessionSpec == SessionInit /\ [][SessionNext]_sessionVars

-----------------------------------------------------------------------------
(* Properties *)

\* Without pipelining and without missing packets, every exchange within the
\* timeout that is slower than the threshold has one line, which shows its own
\* latency, and one that is faster has none; nothing is printed for a packet
\* that begins no response.  That holds however the clients interleave, in how
\* many segments the requests and responses come, and whichever of them is sent
\* again, a request's before its answer and a response's before the next request;
\* segments sent again later are not in this traffic.  An exchange exactly as slow
\* as the threshold may have a line or not: see OnlySlower.
ReportsTrueLatency ==
  traffic.missed = 0 =>
    IF truth = NULL THEN printed = NULL
    ELSE truth <= REQUEST_TIMEOUT_US =>
           /\ printed \in {truth, NULL}
           /\ Threshold = 0 \/ truth > Threshold => printed = truth
           /\ Threshold # 0 /\ truth < Threshold => printed = NULL

\* README.md:41 says of -t 10 that it "would only print the request latency
\* slower than 10ms".  A line under a threshold shows a latency above it.
OnlySlower == Threshold # 0 /\ printed # NULL => printed > Threshold

\* A response the capture missed leaves its request pending, and the next
\* response of the connection is measured from it.  The latency on a line may
\* then be too long, never too short.  The exception is a request of which a
\* sweep made room for a later segment: when it is older than the timeout, or
\* was itself ignored because of a missed answer.  Segments come again only while
\* their exchange lasts, as above.
NeverTooShort ==
  /\ truth # NULL /\ printed # NULL
  /\ traffic.segmented => traffic.missed = 0 /\ truth <= REQUEST_TIMEOUT_US
  => printed >= truth

\* tests/e2e/run.sh:77: "reports one line per request".  A request sent while
\* another one of the connection waits is not recorded, so that its response
\* finds nothing to report.
OneLinePerRequest ==
  truth # NULL /\ truth <= REQUEST_TIMEOUT_US => printed = Line(truth)
=============================================================================
