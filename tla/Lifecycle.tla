----------------------------- MODULE Lifecycle -----------------------------
(***************************************************************************)
(* From main to exit: the server object, the capture loop, the stats       *)
(* thread, its clients, and the signals that stop them all.                *)
(*                                                                         *)
(* Two threads run: "main", which creates the server, captures and tears   *)
(* down, and "stats", which serves the counters.  A signal is handled on   *)
(* either of them, between any two of its steps, and suspends it; the      *)
(* handler and the main thread may be in server_terminate at the same      *)
(* time.  Of pcap_loop only its wait and its end are modelled: on a device *)
(* it sleeps until a packet comes or a signal on its own thread interrupts *)
(* it, and looks at the flag of pcap_breakloop when it is awake.           *)
(*                                                                         *)
(* sniffer_destroy and free(srv) are one step: what matters is who still   *)
(* uses either of them afterwards.                                         *)
(***************************************************************************)
EXTENDS Naturals, FiniteSets

CONSTANTS
  Chunks,       \* calls of write a reply takes
  MaxClients,   \* bound on the clients of the stats port
  MaxSignals    \* bound on the signals

ASSUME LifecycleAssumption ==
  Chunks \in Nat \ {0} /\ MaxClients \in Nat /\ MaxSignals \in Nat

Threads == {"main", "stats"}

VARIABLES
  mainPc,       \* the next step of the main thread
  statsPc,      \* the next step of the stats thread
  handlerPc,    \* the next step of the signal handler on each thread
  offline,      \* is the capture a file
  srv,          \* is the global pointer set
  live,         \* are *srv and its sniffer allocated
  stopped,      \* srv->stopped
  break_loop,   \* the flag pcap_breakloop sets
  failed,       \* did pcap_loop return -1
  left,         \* calls of write the reply still needs
  clients,      \* clients so far
  signals,      \* signals so far
  misused       \* did the stats thread use *srv after it was freed

mainVars == <<mainPc, offline, srv, live, failed>>
statsVars == <<statsPc, left, clients, misused>>
signalVars == <<handlerPc, signals>>
lifeVars == <<mainVars, statsVars, signalVars, stopped, break_loop>>

LifeInit ==
  /\ mainPc = "create"
  /\ statsPc = "none"
  /\ handlerPc = [t \in Threads |-> "none"]
  /\ offline \in BOOLEAN
  /\ srv = FALSE
  /\ live = FALSE
  /\ stopped = FALSE
  /\ break_loop = FALSE
  /\ failed = FALSE
  /\ left = 0
  /\ clients = 0
  /\ signals = 0
  /\ misused = FALSE

Running == mainPc # "exit"

\* A thread takes a step of its own unless a signal handler is on its stack.
OnMain(step) == mainPc = step /\ handlerPc["main"] = "none"
OnStats(step) == Running /\ statsPc = step /\ handlerPc["stats"] = "none"

-----------------------------------------------------------------------------
(* main, server_create, server_run *)

\* sniffer_create succeeds; or it fails, server_create takes back what it made,
\* which nobody else has seen, and main returns 1.
Create ==
  /\ OnMain("create")
  /\ \/ mainPc' = "spawn" /\ live' = TRUE
     \/ mainPc' = "exit" /\ UNCHANGED live
  /\ UNCHANGED <<offline, srv, failed, statsVars, signalVars, stopped,
                 break_loop>>

\* The stats thread starts, unless the protocol is raw.
Spawn ==
  /\ OnMain("spawn")
  /\ mainPc' = "assign"
  /\ statsPc' \in {"none", "listen"}
  /\ UNCHANGED <<offline, srv, live, failed, left, clients, misused,
                 signalVars, stopped, break_loop>>

\* pthread_create fails: the error path of server_create, which finds no thread
\* to join, destroys the server.
SpawnFails ==
  /\ OnMain("spawn")
  /\ stopped' = TRUE
  /\ break_loop' = TRUE
  /\ live' = FALSE
  /\ mainPc' = "exit"
  /\ UNCHANGED <<offline, srv, failed, statsVars, signalVars>>

\* srv = server_create(opts, err)
Assign ==
  /\ OnMain("assign")
  /\ srv' = TRUE
  /\ mainPc' = "loop"
  /\ UNCHANGED <<offline, live, failed, statsVars, signalVars, stopped,
                 break_loop>>

\* pcap_loop sees the flag, clears it and returns -2.
LoopBroken ==
  /\ OnMain("loop") /\ break_loop
  /\ break_loop' = FALSE
  /\ mainPc' = "load"
  /\ UNCHANGED <<offline, srv, live, failed, statsVars, signalVars, stopped>>

\* The flag is not set and there is no packet: it goes to sleep.
LoopWaits ==
  /\ OnMain("loop") /\ ~offline /\ ~break_loop
  /\ mainPc' = "wait"
  /\ UNCHANGED <<offline, srv, live, failed, statsVars, signalVars, stopped,
                 break_loop>>

\* A packet comes.
LoopWakes ==
  /\ OnMain("wait")
  /\ mainPc' = "loop"
  /\ UNCHANGED <<offline, srv, live, failed, statsVars, signalVars, stopped,
                 break_loop>>

\* The file ends: pcap_loop returns 0.
LoopEnds ==
  /\ OnMain("loop") /\ offline
  /\ mainPc' = "load"
  /\ UNCHANGED <<offline, srv, live, failed, statsVars, signalVars, stopped,
                 break_loop>>

\* The device or the file fails: pcap_loop returns -1.
LoopFails ==
  /\ OnMain("loop")
  /\ failed' = TRUE
  /\ mainPc' = "load"
  /\ UNCHANGED <<offline, srv, live, statsVars, signalVars, stopped,
                 break_loop>>

\* Mutant: server_run skips the join on both paths.
NoJoin == "destroy"

\* Where server_run goes after server_terminate: on the error path it returns
\* without the join.
AfterTerminate == IF failed THEN "destroy" ELSE "join"

\* server_terminate, called by server_run.
MainLoad ==
  /\ OnMain("load")
  /\ mainPc' = IF stopped THEN AfterTerminate ELSE "store"
  /\ UNCHANGED <<offline, srv, live, failed, statsVars, signalVars, stopped,
                 break_loop>>

MainStore ==
  /\ OnMain("store")
  /\ stopped' = TRUE
  /\ mainPc' = "break"
  /\ UNCHANGED <<offline, srv, live, failed, statsVars, signalVars, break_loop>>

MainBreak ==
  /\ OnMain("break")
  /\ break_loop' = TRUE
  /\ mainPc' = AfterTerminate
  /\ UNCHANGED <<offline, srv, live, failed, statsVars, signalVars, stopped>>

\* pthread_join, if there is a stats_tid.
Join ==
  /\ OnMain("join") /\ statsPc \in {"none", "ended"}
  /\ mainPc' = "destroy"
  /\ UNCHANGED <<offline, srv, live, failed, statsVars, signalVars, stopped,
                 break_loop>>

\* server_destroy; the global pointer keeps its value.
Destroy ==
  /\ OnMain("destroy")
  /\ live' = FALSE
  /\ mainPc' = "return"
  /\ UNCHANGED <<offline, srv, failed, statsVars, signalVars, stopped,
                 break_loop>>

\* free_options and the return from main, which ends every thread.
Return ==
  /\ OnMain("return")
  /\ mainPc' = "exit"
  /\ UNCHANGED <<offline, srv, live, failed, statsVars, signalVars, stopped,
                 break_loop>>

MainStep ==
  \/ Create \/ Spawn \/ SpawnFails \/ Assign \/ LoopBroken \/ LoopWaits
  \/ MainLoad \/ MainStore \/ MainBreak \/ Join \/ Destroy \/ Return

-----------------------------------------------------------------------------
(* server_stats_loop *)

\* The step looks at *srv, or at the sniffer behind it.
UsesServer == misused' = (misused \/ ~live)

\* server_listen succeeds; or the thread returns and nothing is served.
Listen ==
  /\ OnStats("listen")
  /\ UsesServer
  /\ statsPc' \in {"check", "ended"}
  /\ UNCHANGED <<left, clients, mainVars, signalVars, stopped, break_loop>>

\* Mutant: the loop does not look at the flag.
NeverStops ==
  /\ OnStats("check")
  /\ UsesServer
  /\ statsPc' = "poll"
  /\ UNCHANGED <<left, clients, mainVars, signalVars, stopped, break_loop>>

\* while (!TK_LOAD(&srv->stopped)): freed memory may hold anything.
Check ==
  /\ OnStats("check")
  /\ UsesServer
  /\ \/ (stopped \/ ~live) /\ statsPc' = "ended"
     \/ (~stopped \/ ~live) /\ statsPc' = "poll"
  /\ UNCHANGED <<left, clients, mainVars, signalVars, stopped, break_loop>>

\* poll timed out, or accept failed.
PollIdle ==
  /\ OnStats("poll")
  /\ statsPc' = "check"
  /\ UNCHANGED <<left, clients, misused, mainVars, signalVars, stopped,
                 break_loop>>

Accept ==
  /\ OnStats("poll") /\ clients < MaxClients
  /\ clients' = clients + 1
  /\ statsPc' = "walk"
  /\ UNCHANGED <<left, misused, mainVars, signalVars, stopped, break_loop>>

\* server_stats_to_json locks and walks syn_tab.
Walk ==
  /\ OnStats("walk")
  /\ UsesServer
  /\ left' = Chunks
  /\ statsPc' = "write"
  /\ UNCHANGED <<clients, mainVars, signalVars, stopped, break_loop>>

\* Mutant: write_all goes round once more when everything is written.
WriteTooOften ==
  /\ OnStats("write")
  /\ left' = left - 1
  /\ statsPc' = IF left = 0 THEN "check" ELSE "write"
  /\ UNCHANGED <<clients, misused, mainVars, signalVars, stopped, break_loop>>

\* One write of write_all; the last one ends the reply.
Write ==
  /\ OnStats("write")
  /\ left' = left - 1
  /\ statsPc' = IF left = 1 THEN "check" ELSE "write"
  /\ UNCHANGED <<clients, misused, mainVars, signalVars, stopped, break_loop>>

\* The client went away: write fails, or the SIGPIPE nobody handles ends the
\* process.
ClientGone ==
  /\ OnStats("write")
  /\ \/ statsPc' = "check" /\ left' = 0 /\ UNCHANGED mainPc
     \/ mainPc' = "exit" /\ UNCHANGED <<statsPc, left>>
  /\ UNCHANGED <<clients, misused, offline, srv, live, failed, signalVars,
                 stopped, break_loop>>

StatsStep == Listen \/ Check \/ PollIdle \/ Walk \/ Write

-----------------------------------------------------------------------------
(* signal_handler *)

HandlerAt(t, step) == Running /\ handlerPc[t] = step
HandlerTo(t, step) == handlerPc' = [handlerPc EXCEPT ![t] = step]

\* SIGINT or SIGTERM arrives on thread t.  It interrupts the sleep of pcap_loop,
\* unless it comes just before the sleep begins.
Signal(t) ==
  /\ HandlerAt(t, "none") /\ signals < MaxSignals
  /\ t = "stats" => statsPc \notin {"none", "ended"}
  /\ signals' = signals + 1
  /\ HandlerTo(t, "check")
  /\ \/ t = "main" /\ mainPc = "wait" /\ mainPc' = "loop"
     \/ UNCHANGED mainPc
  /\ UNCHANGED <<offline, srv, live, failed, statsVars, stopped, break_loop>>

\* A signal that comes before srv is set is lost.
HandlerCheck(t) ==
  /\ HandlerAt(t, "check")
  /\ HandlerTo(t, IF srv THEN "load" ELSE "none")
  /\ UNCHANGED <<mainVars, statsVars, signals, stopped, break_loop>>

HandlerLoad(t) ==
  /\ HandlerAt(t, "load") /\ live
  /\ HandlerTo(t, IF stopped THEN "none" ELSE "store")
  /\ UNCHANGED <<mainVars, statsVars, signals, stopped, break_loop>>

HandlerStore(t) ==
  /\ HandlerAt(t, "store") /\ live
  /\ stopped' = TRUE
  /\ HandlerTo(t, "break")
  /\ UNCHANGED <<mainVars, statsVars, signals, break_loop>>

\* Mutant: the handler stops the stats thread but not the capture.
NoBreak(t) ==
  /\ HandlerAt(t, "break") /\ live
  /\ HandlerTo(t, "none")
  /\ UNCHANGED <<mainVars, statsVars, signals, stopped, break_loop>>

HandlerBreak(t) ==
  /\ HandlerAt(t, "break") /\ live
  /\ break_loop' = TRUE
  /\ HandlerTo(t, "none")
  /\ UNCHANGED <<mainVars, statsVars, signals, stopped>>

\* The handler works on a server that was freed: it returns or it crashes.
HandlerOnFreed(t) ==
  /\ handlerPc[t] \in {"load", "store", "break"} /\ Running /\ ~live
  /\ \/ HandlerTo(t, "none") /\ UNCHANGED mainPc
     \/ mainPc' = "exit" /\ UNCHANGED handlerPc
  /\ UNCHANGED <<offline, srv, live, failed, statsVars, signals, stopped,
                 break_loop>>

HandlerStep(t) ==
  HandlerCheck(t) \/ HandlerLoad(t) \/ HandlerStore(t) \/ HandlerBreak(t)
    \/ HandlerOnFreed(t)

-----------------------------------------------------------------------------
Exited == mainPc = "exit" /\ UNCHANGED lifeVars

LifeNext ==
  \/ MainStep \/ LoopWakes \/ LoopEnds \/ LoopFails
  \/ StatsStep \/ Accept \/ ClientGone
  \/ \E t \in Threads : Signal(t) \/ HandlerStep(t)
  \/ Exited

\* Threads and handlers run.  A client reads its reply or goes away, so that
\* write returns; without that, pthread_join would wait for ever.  On a device
\* packets keep coming; without that, a signal on the stats thread would not
\* wake pcap_loop.  Signals, clients, failures and the end of the file need not
\* come.
LifeFairness ==
  /\ WF_lifeVars(MainStep)
  /\ WF_lifeVars(LoopWakes)
  /\ WF_lifeVars(StatsStep)
  /\ \A t \in Threads : WF_lifeVars(HandlerStep(t))

LifeSpec == LifeInit /\ [][LifeNext]_lifeVars /\ LifeFairness

-----------------------------------------------------------------------------
(* Properties *)

LifeTypeOK ==
  /\ mainPc \in {"create", "spawn", "assign", "loop", "wait", "load", "store",
                 "break", "join", "destroy", "return", "exit"}
  /\ statsPc \in {"none", "listen", "check", "poll", "walk", "write", "ended"}
  /\ handlerPc \in [Threads -> {"none", "check", "load", "store", "break"}]
  /\ {offline, srv, live, stopped, break_loop, failed, misused} \subseteq BOOLEAN
  /\ left \in 0 .. Chunks
  /\ clients \in 0 .. MaxClients /\ signals \in 0 .. MaxSignals

\* The stats thread is done with the server before main frees it, whichever of
\* the file's end, the signal handler on either thread and a client in service
\* comes first, unless the capture itself failed.
JoinedBeforeDestroy == misused => failed

\* sniffer.h:32: "syn_tab and the query_stats it owns are read by the stats
\* thread while the capture thread updates them, so both sides hold stats_lock".
\* Nobody holds it when they are freed, so the reader must be gone by then.
NeverMisused == ~misused

\* A signal that finds the server ends the program, even if it interrupts the
\* stats thread half way through a reply or meets main in server_terminate.
SignalStops == \A t \in Threads : handlerPc[t] = "load" ~> mainPc = "exit"

\* When pcap_loop returns, for whatever reason, the program ends: the join never
\* waits for a thread that does not stop.
LoopEndStops == mainPc = "load" ~> mainPc = "exit"
=============================================================================
