---------------------------- MODULE SharedStats ----------------------------
(***************************************************************************)
(* The capture thread and the stats thread, and the lock between them.     *)
(*                                                                         *)
(* Here process_user_packet is not one step.  The capture thread locks     *)
(* stats_lock up to twice in a call, and the stats thread may walk syn_tab *)
(* before, between and after the two.  Inside a critical section every     *)
(* counter is an assignment of its own.  What the capture thread does      *)
(* without the lock touches only what belongs to it (the pending table,    *)
(* the sweeper, the output), so it is taken together with the step before  *)
(* the next lock operation.                                                *)
(*                                                                         *)
(* The stats thread serves one client after the other: it locks, collects  *)
(* the values of syn_tab, formats them one by one, unlocks and answers.    *)
(* The allocations of the walk succeed here; when the realloc in           *)
(* hashtable_values fails, the code answers with a shorter list.           *)
(***************************************************************************)
EXTENDS Tracker

CONSTANT MaxQueries      \* bound on the clients of the stats port

ASSUME QueryAssumption == MaxQueries \in Nat

\* The null pointer is no thread.
ASSUME ThreadAssumption == NULL \notin {"capture", "stats"}

VARIABLES
  stats_lock,   \* the thread that holds it, or NULL
  pc,           \* the next step of the capture thread
  upacket,      \* the packet it handles
  statsPc,      \* the next step of the stats thread
  todo,         \* endpoints hashtable_values returned and not formatted yet
  object,       \* the JSON object under construction
  reply,        \* the answer to the last client
  cut,          \* ghost: syn_tab when the walk began
  queries,      \* clients so far
  done          \* ghost: Tracker's state after the last finished handler

captureVars == <<pc, upacket, done>>
statsVars == <<statsPc, todo, object, reply, cut, queries>>
sharedVars == <<vars, stats_lock, captureVars, statsVars>>

Idle == "idle"

\* Tracker's view of the current state.
State ==
  [syn_tab |-> syn_tab, requests |-> requests, expire_primed |-> expire_primed,
   last_expire |-> last_expire, printed |-> printed, newest |-> newest,
   npackets |-> npackets]

SharedInit ==
  /\ Init
  /\ stats_lock = NULL
  /\ pc = Idle
  /\ upacket = NULL
  /\ statsPc = "poll"
  /\ todo = {}
  /\ object = hashtable_create(Endpoints)
  /\ reply = hashtable_create(Endpoints)
  /\ cut = hashtable_create(Endpoints)
  /\ queries = 0
  /\ done = State

sniffer_stats_lock(self) == stats_lock = NULL /\ stats_lock' = self
sniffer_stats_unlock == stats_lock' = NULL

\* The handler returns.
Return == pc' = Idle /\ upacket' = NULL /\ done' = State'

Goto(step) == pc' = step /\ UNCHANGED <<upacket, done>>

-----------------------------------------------------------------------------
(* The capture thread *)

\* pcap_loop calls the handler; the pending table is swept.
Receive(p) ==
  /\ pc = Idle
  /\ Arrive(p)
  /\ expire_stale_requests(p.tv)
  /\ requests' = Swept(p.tv)
  /\ printed' = NULL
  /\ UNCHANGED <<syn_tab, stats_lock, statsVars>>
  /\ IF p.payload_size = 0 /\ ~p.syn
     THEN Return
     ELSE /\ pc' = IF p.payload_size = 0 THEN "syn" ELSE "direction"
          /\ upacket' = p
          /\ UNCHANGED done

SynLock ==
  /\ pc = "syn"
  /\ sniffer_stats_lock("capture")
  /\ Goto("register")
  /\ UNCHANGED <<vars, statsVars>>

Register(ok) ==
  /\ pc = "register"
  /\ syn_tab' = WithEndpoint(syn_tab, ServerEnd(upacket), ok)
  /\ sniffer_stats_unlock
  /\ UNCHANGED <<requests, expire_primed, last_expire, printed, newest, npackets>>
  /\ Return
  /\ UNCHANGED statsVars

DirectionLock ==
  /\ pc = "direction"
  /\ sniffer_stats_lock("capture")
  /\ Goto("count")
  /\ UNCHANGED <<vars, statsVars>>

\* The end of the packet that is registered, if one is.
Known == IF packet_direction(upacket) = Response THEN upacket.src ELSE upacket.dst
IsRequest == packet_direction(upacket) = RequestDir

\* Mutant: the lock stays held when neither end is registered.
UnknownKeepsLock ==
  /\ pc = "count" /\ packet_direction(upacket) = Unknown
  /\ UNCHANGED <<vars, statsVars, stats_lock>>
  /\ Return

\* Neither end is registered: unlock and return.
CountNothing ==
  /\ pc = "count" /\ packet_direction(upacket) = Unknown
  /\ sniffer_stats_unlock
  /\ UNCHANGED <<vars, statsVars>>
  /\ Return

\* The first assignment of stats_incr.
CountPacket ==
  /\ pc = "count" /\ packet_direction(upacket) # Unknown
  /\ syn_tab' = IF IsRequest THEN [syn_tab EXCEPT ![Known].requests = @ + 1]
                             ELSE [syn_tab EXCEPT ![Known].responses = @ + 1]
  /\ Goto("bytes")
  /\ UNCHANGED <<requests, expire_primed, last_expire, printed, newest, npackets,
                 stats_lock, statsVars>>

\* The second one, and the unlock.
CountBytes ==
  /\ pc = "bytes"
  /\ syn_tab' = IF IsRequest
                THEN [syn_tab EXCEPT ![Known].request_bytes = @ + upacket.size]
                ELSE [syn_tab EXCEPT ![Known].response_bytes = @ + upacket.size]
  /\ sniffer_stats_unlock
  /\ Goto(IF IsRequest THEN "request" ELSE "response")
  /\ UNCHANGED <<requests, expire_primed, last_expire, printed, newest, npackets,
                 statsVars>>

RecordRequest(ok) ==
  /\ pc = "request"
  /\ requests' = WithRequest(requests, upacket, ok)
  /\ UNCHANGED <<syn_tab, expire_primed, last_expire, printed, newest, npackets,
                 stats_lock>>
  /\ Return
  /\ UNCHANGED statsVars

Pending == hashtable_get(requests, ResponseKey(upacket))
Delta == tv_delta_us(upacket.tv, Pending.tv)

NothingPending ==
  /\ pc = "response" /\ Pending = NULL
  /\ UNCHANGED <<vars, stats_lock, statsVars>>
  /\ Return

ObserveLock ==
  /\ pc = "response" /\ Pending # NULL
  /\ sniffer_stats_lock("capture")
  /\ Goto("observe")
  /\ UNCHANGED <<vars, statsVars>>

\* The endpoint is looked up again; it is still there.
Observe ==
  /\ pc = "observe"
  /\ syn_tab' = IF hashtable_get(syn_tab, upacket.src) # NULL
                THEN [syn_tab EXCEPT ![upacket.src] =
                        stats_observer_latency(@, Delta)]
                ELSE syn_tab
  /\ sniffer_stats_unlock
  /\ Goto("report")
  /\ UNCHANGED <<requests, expire_primed, last_expire, printed, newest, npackets,
                 statsVars>>

\* Mutant: the request is reported and stays pending.
ReportKeepsRequest ==
  /\ pc = "report"
  /\ printed' = Line(Delta)
  /\ UNCHANGED <<syn_tab, requests, expire_primed, last_expire, newest, npackets,
                 stats_lock>>
  /\ Return
  /\ UNCHANGED statsVars

\* The line, unless the response was fast, and the end of the request.
Report ==
  /\ pc = "report"
  /\ printed' = Line(Delta)
  /\ requests' = Answered(requests, ResponseKey(upacket), Delta)
  /\ UNCHANGED <<syn_tab, expire_primed, last_expire, newest, npackets,
                 stats_lock>>
  /\ Return
  /\ UNCHANGED statsVars

CaptureStep ==
  \/ SynLock
  \/ \E ok \in BOOLEAN : Register(ok)
  \/ DirectionLock
  \/ CountNothing
  \/ CountPacket
  \/ CountBytes
  \/ \E ok \in BOOLEAN : RecordRequest(ok)
  \/ NothingPending
  \/ ObserveLock
  \/ Observe
  \/ Report

-----------------------------------------------------------------------------
(* The stats thread: server_stats_to_json for each client *)

\* A client connected and was accepted.
Accept ==
  /\ statsPc = "poll" /\ queries < MaxQueries
  /\ statsPc' = "lock"
  /\ queries' = queries + 1
  /\ UNCHANGED <<vars, stats_lock, captureVars, todo, object, reply, cut>>

\* Mutant: hashtable_values is called and the walk done without the lock.
WalkUnlocked ==
  /\ statsPc = "lock"
  /\ statsPc' = "walk"
  /\ todo' = Entries(syn_tab)
  /\ object' = hashtable_create(Endpoints)
  /\ cut' = syn_tab
  /\ UNCHANGED <<vars, stats_lock, captureVars, reply, queries>>

WalkLock ==
  /\ statsPc = "lock"
  /\ sniffer_stats_lock("stats")
  /\ statsPc' = "walk"
  /\ todo' = Entries(syn_tab)
  /\ object' = hashtable_create(Endpoints)
  /\ cut' = syn_tab
  /\ UNCHANGED <<vars, captureVars, reply, queries>>

\* create_stats_object for one endpoint.  The hash decides their order: any.
Walk(e) ==
  /\ statsPc = "walk" /\ e \in todo
  /\ object' = [object EXCEPT ![e] = syn_tab[e]]
  /\ todo' = todo \ {e}
  /\ UNCHANGED <<vars, stats_lock, captureVars, statsPc, reply, cut, queries>>

\* Unlock, print, write and close.
Publish ==
  /\ statsPc = "walk" /\ todo = {}
  /\ sniffer_stats_unlock
  /\ reply' = object
  /\ statsPc' = "poll"
  /\ UNCHANGED <<vars, captureVars, todo, object, cut, queries>>

StatsStep == WalkLock \/ (\E e \in Endpoints : Walk(e)) \/ Publish

-----------------------------------------------------------------------------
SharedNext ==
  \/ \E p \in Packets : Receive(p)
  \/ CaptureStep
  \/ Accept
  \/ StatsStep

\* Both threads run until they wait, and a thread that waits for the lock gets
\* it in the end if it is released again and again.  Packets and clients need
\* not come.
Fairness == SF_sharedVars(CaptureStep) /\ SF_sharedVars(StatsStep)

SharedSpec == SharedInit /\ [][SharedNext]_sharedVars /\ Fairness

-----------------------------------------------------------------------------
(* Properties *)

\* server.c: "Held across the whole walk: the capture thread may otherwise add
\* an endpoint or bump a counter half way through".  A reply is the table as it
\* was at one instant.
ReplyIsACut == statsPc = "poll" => reply = cut

\* What n frames weigh: at least n times the least frame length, at most n
\* times the greatest.
Weigh(n, bytes) ==
  \A size \in Sizes :
    /\ (\A other \in Sizes : size <= other) => size * n <= bytes
    /\ (\A other \in Sizes : other <= size) => bytes <= size * n

\* No reply is torn: in each one, every counted packet has its bytes, and no
\* endpoint has more latency samples than responses or requests, although a
\* handler makes two assignments for a packet and counts a response in one
\* critical section and its latency in another.
ReplyCoherent ==
  \A e \in Entries(reply) :
    /\ Weigh(reply[e].requests, reply[e].request_bytes)
    /\ Weigh(reply[e].responses, reply[e].response_bytes)
    /\ Samples(reply[e]) <= reply[e].responses
    /\ Samples(reply[e]) <= reply[e].requests

\* Successive replies agree: an endpoint that was served is served again, and
\* none of its counters goes back.
RepliesGrow ==
  [][\A e \in Entries(reply) :
       /\ reply'[e] # NULL
       /\ reply[e].requests <= reply'[e].requests
       /\ reply[e].request_bytes <= reply'[e].request_bytes
       /\ reply[e].responses <= reply'[e].responses
       /\ reply[e].response_bytes <= reply'[e].response_bytes
       /\ \A i \in Buckets : reply[e].buckets[i] <= reply'[e].buckets[i]
    ]_sharedVars

\* Each handler returns and each client is answered: no path through a handler
\* keeps the lock, whatever the packet.
HandlerReturns == pc # Idle ~> pc = Idle
ClientAnswered == statsPc # "poll" ~> statsPc = "poll"

\* Seen at the returns of the handlers, the two threads implement Tracker: the
\* lock sections of a call and the walks between them add up to one atomic
\* process_user_packet.
Atomic == INSTANCE Tracker WITH
  syn_tab <- done.syn_tab, requests <- done.requests,
  expire_primed <- done.expire_primed, last_expire <- done.last_expire,
  printed <- done.printed, newest <- done.newest, npackets <- done.npackets

ImplementsTracker == Atomic!Spec
=============================================================================
