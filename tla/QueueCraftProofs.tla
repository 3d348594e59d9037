------------------------- MODULE QueueCraftProofs -------------------------
(***************************************************************************)
(* Proofs about QueueCraft, for any number of workers and registry keys.   *)
(*                                                                         *)
(* ExitZeroMeansClosed rests on how far a close() has come: a call of      *)
(* close() that awaits the connection awaits no worker any more, and one   *)
(* that is done has set isClosed (Stages).                                 *)
(*                                                                         *)
(* StoppedBeforeClosing holds for an application that starts no worker     *)
(* while it closes (~StartRaces).  It rests on Orderly: every worker with  *)
(* a consumerTag is in the registry as long as the instance is open, so    *)
(* the stop() of each is awaited; and a stop() that fails because nothing  *)
(* is connected leaves no consumer behind, for then the broker has none.   *)
(***************************************************************************)
EXTENDS QueueCraft, TLAPS

-----------------------------------------------------------------------------
(* How far a close() and a shutdown have come.                             *)

Stages ==
  /\ \A c \in Closer : stage[c] \in {"connection", "done"} => stopping[c] = {}
  /\ \A c \in Closer : stage[c] = "done" => isClosed
  /\ phase # "idle" => shutdownInProgress
  /\ phase \in {"idle", "before"} => stage["signal"] = "no"
  /\ phase = "after" \/ proc = "exit0" => stage["signal"] = "done"

\* The types are inductive with Stages: the time limit runs only while close()
\* is awaited, so no signal finds it running.
LEMMA TypeStep ==
  ASSUME TypeOK, Stages, [Next]_vars
  PROVE  TypeOK'
<1> USE DEF TypeOK, facade, work, shutdown, closes
<1>1. ASSUME NEW w \in Worker, createWorker(w) PROVE TypeOK'
  BY <1>1 DEF createWorker, Found
<1>2. ASSUME NEW w \in Worker, StartCalled(w) PROVE TypeOK'
  BY <1>2 DEF StartCalled
<1>3. ASSUME NEW w \in Worker, StartDone(w) PROVE TypeOK'
  BY <1>3 DEF StartDone
<1>4. ASSUME NEW w \in Worker, StartFails(w) PROVE TypeOK'
  BY <1>4 DEF StartFails
<1>5. ASSUME NEW w \in Worker, MessageArrives(w) PROVE TypeOK'
  BY <1>5 DEF MessageArrives
<1>6. ASSUME NEW w \in Worker, HandlerSucceeds(w) PROVE TypeOK'
  BY <1>6 DEF HandlerSucceeds
<1>7. ASSUME NEW w \in Worker, HandlerFails(w) PROVE TypeOK'
  BY <1>7 DEF HandlerFails
<1>8. ASSUME NEW w \in Worker, NEW c \in Closer, WorkerStopped(c, w) PROVE TypeOK'
  BY <1>8 DEF WorkerStopped
<1>9. ASSUME NEW c \in Closer, WorkersStopped(c) PROVE TypeOK'
  BY <1>9 DEF WorkersStopped
<1>10. ASSUME NEW c \in Closer, ConnectionClosed(c) PROVE TypeOK'
  BY <1>10 DEF ConnectionClosed
<1>11. CASE publishEvent
  BY <1>11 DEF publishEvent
<1>12. CASE ConnectionLost
  BY <1>12 DEF ConnectionLost
<1>13. CASE Reconnected
  BY <1>13 DEF Reconnected
<1>14. CASE CloseCalled
  BY <1>14 DEF CloseCalled, BeginClose, Closer
<1>15. CASE enableGracefulShutdown
  BY <1>15 DEF enableGracefulShutdown
<1>16. CASE disableGracefulShutdown
  BY <1>16 DEF disableGracefulShutdown
<1>17. CASE Signal
  <2>1. CASE ~registered
    BY <1>17, <2>1 DEF Signal
  <2>2. CASE registered
    BY <1>17, <2>2 DEF Signal, Stages
  <2> QED BY <2>1, <2>2
<1>18. CASE BeforeDone
  BY <1>18 DEF BeforeDone, BeginClose, Limited, Closer
<1>19. CASE HookFails
  BY <1>19 DEF HookFails
<1>20. CASE TimedOut
  BY <1>20 DEF TimedOut, Aborts
<1>21. CASE CloseDone
  BY <1>21 DEF CloseDone, TimerCleared
<1>22. CASE AfterDone
  BY <1>22 DEF AfterDone
<1>23. CASE UNCHANGED vars
  BY <1>23 DEF vars
<1> QED
  BY <1>1, <1>2, <1>3, <1>4, <1>5, <1>6, <1>7, <1>8, <1>9, <1>10, <1>11, <1>12, <1>13, <1>14, <1>15, <1>16, <1>17, <1>18, <1>19, <1>20, <1>21, <1>22, <1>23
  DEF Next

\* Each step keeps Stages: only AfterDone exits with 0, and only after CloseDone.
LEMMA StagesStep ==
  ASSUME TypeOK, Stages, [Next]_vars
  PROVE  Stages'
<1> USE DEF TypeOK, Stages, Closer, facade, work, shutdown, closes
<1>1. ASSUME NEW w \in Worker,
             \/ createWorker(w) \/ StartCalled(w) \/ StartDone(w) \/ StartFails(w)
             \/ MessageArrives(w) \/ HandlerSucceeds(w) \/ HandlerFails(w)
      PROVE  Stages'
  BY <1>1 DEF createWorker, StartCalled, StartDone, StartFails, MessageArrives,
     HandlerSucceeds, HandlerFails
<1>2. ASSUME NEW w \in Worker, NEW c \in Closer, WorkerStopped(c, w) PROVE Stages'
  BY <1>2 DEF WorkerStopped
<1>3. ASSUME NEW c \in Closer, WorkersStopped(c) \/ ConnectionClosed(c) PROVE Stages'
  BY <1>3 DEF WorkersStopped, ConnectionClosed
<1>4. CASE CloseCalled
  BY <1>4 DEF CloseCalled, BeginClose
<1>5. CASE BeforeDone
  BY <1>5 DEF BeforeDone, BeginClose
<1>6. CASE publishEvent \/ ConnectionLost \/ Reconnected
  BY <1>6 DEF publishEvent, ConnectionLost, Reconnected
<1>7. CASE enableGracefulShutdown \/ disableGracefulShutdown \/ Signal
  BY <1>7 DEF enableGracefulShutdown, disableGracefulShutdown, Signal
<1>8. CASE HookFails \/ TimedOut \/ CloseDone \/ AfterDone
  BY <1>8 DEF HookFails, TimedOut, Aborts, CloseDone, TimerCleared, AfterDone
<1>9. CASE UNCHANGED vars
  BY <1>9 DEF vars
<1> QED BY <1>1, <1>2, <1>3, <1>4, <1>5, <1>6, <1>7, <1>8, <1>9 DEF Next

\* The types and Stages hold in every reachable state.
LEMMA StagesHold == Spec => [](TypeOK /\ Stages)
<1>1. Init => TypeOK /\ Stages
  BY DEF Init, TypeOK, Stages, Closer
<1>2. TypeOK /\ Stages /\ [Next]_vars => TypeOK' /\ Stages'
  BY TypeStep, StagesStep
<1> QED BY <1>1, <1>2, PTL DEF Spec

\* The facade's fields, its workers and its shutdown have the types of the code,
\* and the time limit runs only while the shutdown awaits close().
THEOREM TypeCorrect == Spec => []TypeOK
BY StagesHold, PTL

\* Exit code 0 means that the close() of the shutdown has run to its end,
\* whatever the application closed meanwhile and whichever limit ran out.
THEOREM ExitZeroIsHonest == Spec => []ExitZeroMeansClosed
<1>1. Stages => ExitZeroMeansClosed
  BY DEF Stages, ExitZeroMeansClosed, Closer
<1> QED BY <1>1, StagesHold, PTL

-----------------------------------------------------------------------------
(* Consumers, tags and the registry in an application that does not start  *)
(* a worker while it closes.                                               *)

Orderly ==
  /\ consumers \subseteq tagged
  /\ ~connected => consumers = {}
  /\ starting \cup tagged \subseteq given
  /\ ~isClosed => given \subseteq workers
  /\ isClosed => tagged = {}
  /\ isClosed \/ Closing \/ shutdownInProgress => starting = {}
  /\ \A c \in Closer : stage[c] = "workers" => tagged \subseteq stopping[c]
  /\ \A c \in Closer : stage[c] = "connection" => tagged = {}

\* Each step keeps Orderly.
LEMMA OrderlyStep ==
  ASSUME ~StartRaces, TypeOK, Orderly, Stages, [Next]_vars
  PROVE  Orderly'
<1> USE DEF TypeOK, Orderly, Closing, Closer, facade, work, shutdown, closes
<1>1. ASSUME NEW w \in Worker, createWorker(w) PROVE Orderly'
  <2>1. workers \subseteq workers' /\ given' \ given \subseteq workers'
    BY <1>1 DEF createWorker, Found
  <2>2. UNCHANGED <<isClosed, starting, tagged, consumers, connected, stage, stopping,
                    shutdownInProgress, phase>> /\ given \subseteq given'
    BY <1>1 DEF createWorker
  <2> QED BY <2>1, <2>2
<1>2. ASSUME NEW w \in Worker, StartCalled(w) PROVE Orderly'
  BY <1>2 DEF StartCalled
<1>3. ASSUME NEW w \in Worker, StartDone(w) PROVE Orderly'
  BY <1>3 DEF StartDone
<1>4. ASSUME NEW w \in Worker,
             StartFails(w) \/ MessageArrives(w) \/ HandlerSucceeds(w) \/ HandlerFails(w)
      PROVE  Orderly'
  BY <1>4 DEF StartFails, MessageArrives, HandlerSucceeds, HandlerFails
<1>5. ASSUME NEW w \in Worker, NEW c \in Closer, WorkerStopped(c, w) PROVE Orderly'
  BY <1>5 DEF WorkerStopped
<1>6. ASSUME NEW c \in Closer, WorkersStopped(c) PROVE Orderly'
  BY <1>6 DEF WorkersStopped
<1>7. ASSUME NEW c \in Closer, ConnectionClosed(c) PROVE Orderly'
  BY <1>7 DEF ConnectionClosed
<1>8. CASE CloseCalled
  BY <1>8 DEF CloseCalled, BeginClose
<1>9. CASE BeforeDone
  BY <1>9 DEF BeforeDone, BeginClose, Stages
<1>10. CASE publishEvent \/ ConnectionLost \/ Reconnected
  BY <1>10 DEF publishEvent, ConnectionLost, Reconnected
<1>11. CASE enableGracefulShutdown \/ disableGracefulShutdown \/ Signal
  BY <1>11 DEF enableGracefulShutdown, disableGracefulShutdown, Signal
<1>12. CASE HookFails \/ TimedOut \/ CloseDone \/ AfterDone
  BY <1>12 DEF HookFails, TimedOut, Aborts, CloseDone, TimerCleared, AfterDone
<1>13. CASE UNCHANGED vars
  BY <1>13 DEF vars
<1> QED
  BY <1>1, <1>2, <1>3, <1>4, <1>5, <1>6, <1>7, <1>8, <1>9, <1>10, <1>11, <1>12, <1>13 DEF Next

\* In an orderly application the connection is closed under no consumer, even
\* if the application and the signal handler close at the same time.
THEOREM ConsumersStopFirst == ~StartRaces => (Spec => []StoppedBeforeClosing)
<1> SUFFICES ASSUME ~StartRaces PROVE Spec => []StoppedBeforeClosing
  OBVIOUS
<1>1. Init => Orderly
  BY DEF Init, Orderly, Closing, Closer
<1>2. TypeOK /\ Stages /\ Orderly /\ [Next]_vars => Orderly'
  BY OrderlyStep
<1>3. Orderly => StoppedBeforeClosing
  BY DEF Orderly, StoppedBeforeClosing
<1> QED BY <1>1, <1>2, <1>3, StagesHold, PTL DEF Spec
=============================================================================
