--------------------------- MODULE LifecycleProofs ---------------------------
(***************************************************************************)
(* The stats thread never touches a freed server unless the capture itself *)
(* failed, for any number of signals, of clients and of writes in a reply. *)
(***************************************************************************)
EXTENDS Lifecycle, TLAPS

StatsGone == statsPc \in {"none", "ended"}

\* The thread is not there before it is created.
NotSpawnedYet ==
  /\ mainPc \in {"create", "spawn"} => statsPc = "none"
  /\ mainPc = "spawn" => live

\* While the program runs, a server that is freed, or is about to be, has no
\* reader but after a failure of the capture.
NoReaderOfFreed ==
  /\ Running /\ ~live => StatsGone \/ failed
  /\ mainPc = "destroy" => StatsGone \/ failed

\* A reply that is being written has something left to write.
ReplyLeft == statsPc = "write" => left # 0

IInv ==
  LifeTypeOK /\ NotSpawnedYet /\ NoReaderOfFreed /\ ReplyLeft
    /\ JoinedBeforeDestroy

LEMMA LifeInvInit == LifeInit => IInv
<1> SUFFICES ASSUME LifeInit PROVE IInv
  OBVIOUS
<1>1. handlerPc \in [Threads -> {"none", "check", "load", "store", "break"}]
  BY DEF LifeInit
<1>2. {offline, srv, live, stopped, break_loop, failed, misused} \subseteq BOOLEAN
  BY DEF LifeInit
<1>3. LifeTypeOK
  BY <1>1, <1>2, LifecycleAssumption DEF LifeInit, LifeTypeOK
<1> QED
  BY <1>3 DEF LifeInit, IInv, NotSpawnedYet, NoReaderOfFreed, ReplyLeft,
              JoinedBeforeDestroy, StatsGone

LEMMA MainKeeps ==
  ASSUME IInv, MainStep \/ LoopWakes \/ LoopEnds \/ LoopFails
  PROVE  IInv'
<1> USE DEF IInv, LifeTypeOK, NotSpawnedYet, NoReaderOfFreed, ReplyLeft,
            JoinedBeforeDestroy, StatsGone, Running, OnMain,
            mainVars, statsVars, signalVars
<1>1. CASE Create BY <1>1 DEF Create
<1>2. CASE Spawn BY <1>2 DEF Spawn
<1>3. CASE SpawnFails BY <1>3 DEF SpawnFails
<1>4. CASE Assign BY <1>4 DEF Assign
<1>5. CASE LoopBroken BY <1>5 DEF LoopBroken
<1>6. CASE LoopWaits BY <1>6 DEF LoopWaits
<1>7. CASE MainLoad BY <1>7 DEF MainLoad, AfterTerminate
<1>8. CASE MainStore BY <1>8 DEF MainStore
<1>9. CASE MainBreak BY <1>9 DEF MainBreak, AfterTerminate
<1>10. CASE Join BY <1>10 DEF Join
<1>11. CASE Destroy BY <1>11 DEF Destroy
<1>12. CASE Return BY <1>12 DEF Return
<1>13. CASE LoopWakes BY <1>13 DEF LoopWakes
<1>14. CASE LoopEnds BY <1>14 DEF LoopEnds
<1>15. CASE LoopFails BY <1>15 DEF LoopFails
<1> QED
  BY <1>1, <1>2, <1>3, <1>4, <1>5, <1>6, <1>7, <1>8, <1>9, <1>10, <1>11,
     <1>12, <1>13, <1>14, <1>15 DEF MainStep

LEMMA StatsKeeps ==
  ASSUME IInv, StatsStep \/ Accept \/ ClientGone
  PROVE  IInv'
<1> USE LifecycleAssumption
    DEF IInv, LifeTypeOK, NotSpawnedYet, NoReaderOfFreed, ReplyLeft,
        JoinedBeforeDestroy, StatsGone, Running, OnStats, UsesServer,
        mainVars, statsVars, signalVars
<1>1. CASE Listen BY <1>1 DEF Listen
<1>2. CASE Check BY <1>2 DEF Check
<1>3. CASE PollIdle BY <1>3 DEF PollIdle
<1>4. CASE Walk BY <1>4 DEF Walk
<1>5. CASE Write BY <1>5 DEF Write
<1>6. CASE Accept BY <1>6 DEF Accept
<1>7. CASE ClientGone BY <1>7 DEF ClientGone
<1> QED
  BY <1>1, <1>2, <1>3, <1>4, <1>5, <1>6, <1>7 DEF StatsStep

LEMMA SignalKeeps ==
  ASSUME IInv, NEW t \in Threads, Signal(t) \/ HandlerStep(t)
  PROVE  IInv'
<1> USE LifecycleAssumption
    DEF IInv, LifeTypeOK, NotSpawnedYet, NoReaderOfFreed, ReplyLeft,
        JoinedBeforeDestroy, StatsGone, Running, HandlerAt, HandlerTo, Threads,
        mainVars, statsVars, signalVars
<1>1. CASE Signal(t) BY <1>1 DEF Signal
<1>2. CASE HandlerCheck(t) BY <1>2 DEF HandlerCheck
<1>3. CASE HandlerLoad(t) BY <1>3 DEF HandlerLoad
<1>4. CASE HandlerStore(t) BY <1>4 DEF HandlerStore
<1>5. CASE HandlerBreak(t) BY <1>5 DEF HandlerBreak
<1>6. CASE HandlerOnFreed(t) BY <1>6 DEF HandlerOnFreed
<1> QED
  BY <1>1, <1>2, <1>3, <1>4, <1>5, <1>6 DEF HandlerStep

LEMMA LifeInvStep == IInv /\ [LifeNext]_lifeVars => IInv'
<1> SUFFICES ASSUME IInv, [LifeNext]_lifeVars PROVE IInv'
  OBVIOUS
<1>1. CASE MainStep \/ LoopWakes \/ LoopEnds \/ LoopFails
  BY <1>1, MainKeeps
<1>2. CASE StatsStep \/ Accept \/ ClientGone
  BY <1>2, StatsKeeps
<1>3. CASE \E t \in Threads : Signal(t) \/ HandlerStep(t)
  BY <1>3, SignalKeeps
<1>4. CASE UNCHANGED lifeVars
  BY <1>4 DEF lifeVars, mainVars, statsVars, signalVars, IInv, LifeTypeOK,
              NotSpawnedYet, NoReaderOfFreed, ReplyLeft, JoinedBeforeDestroy,
              StatsGone, Running
<1> QED
  BY <1>1, <1>2, <1>3, <1>4 DEF LifeNext, Exited

LEMMA LifeInv == LifeSpec => []IInv
  BY LifeInvInit, LifeInvStep, PTL DEF LifeSpec

\* Every state is well typed; in particular write_all never counts below zero,
\* and writes no more than the reply has.
THEOREM LifeTypeCorrect == LifeSpec => []LifeTypeOK
<1>1. IInv => LifeTypeOK
  BY DEF IInv
<1> QED
  BY <1>1, LifeInv, PTL

\* server_run joins the stats thread before server_destroy frees the server and
\* the sniffer behind it, wherever signals interrupt either thread, unless
\* pcap_loop failed.
THEOREM JoinedBeforeDestroyHolds == LifeSpec => []JoinedBeforeDestroy
<1>1. IInv => JoinedBeforeDestroy
  BY DEF IInv
<1> QED
  BY <1>1, LifeInv, PTL
=============================================================================
