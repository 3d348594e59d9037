----------------------------- MODULE QueueCraft -----------------------------
(***************************************************************************)
(* The QueueCraft facade (src/src/index.ts): the registry of workers,      *)
(* close(), and the graceful shutdown on a signal, with its time limit and *)
(* its hooks, while workers start and their handlers are still running.    *)
(*                                                                         *)
(* Worker and ConnectionManager appear as close() sees them: a worker that *)
(* starts, stops or republishes a failed message asks the manager for a    *)
(* channel, and the manager connects whenever it is asked and has none.    *)
(***************************************************************************)
EXTENDS FiniteSets

CONSTANTS
  Worker,      \* workers the application asks for, one for each configuration
  Key, KeyOf,  \* registry keys: exchange, queue and events of a configuration
  StartRaces,  \* may start() be in progress when close() or a signal comes?
  HooksHang,   \* may beforeShutdown or afterShutdown never return?
  CloseHangs   \* may the close of the connection never return?

ASSUME FacadeAssumption ==
  /\ KeyOf \in [Worker -> Key]
  /\ StartRaces \in BOOLEAN /\ HooksHang \in BOOLEAN /\ CloseHangs \in BOOLEAN

\* The callers of close(): the application and the signal handler.
Closer == {"app", "signal"}

VARIABLES
  workers,    \* the registry
  given,      \* workers the application holds
  starting,   \* workers whose start() is in progress
  tagged,     \* workers with a consumerTag
  consumers,  \* workers with a consumer at the broker
  handling,   \* workers with a handler call in progress
  connected,  \* does the manager hold an open connection?
  isClosed, shutdownInProgress,
  registered, \* the signal handlers are installed
  phase,      \* of the shutdown handler
  timer,      \* its time limit runs
  stage,      \* of each call of close()
  stopping,   \* workers whose stop() each call of close() awaits
  proc        \* the process

facade == <<workers, given, isClosed>>
work   == <<starting, tagged, consumers, handling>>
shutdown == <<shutdownInProgress, registered, phase, timer>>
closes == <<stage, stopping>>
vars == <<facade, work, connected, shutdown, closes, proc>>

TypeOK ==
  /\ workers \subseteq Worker /\ given \subseteq Worker /\ starting \subseteq Worker
  /\ tagged \subseteq Worker /\ consumers \subseteq Worker /\ handling \subseteq Worker
  /\ connected \in BOOLEAN /\ isClosed \in BOOLEAN
  /\ shutdownInProgress \in BOOLEAN /\ registered \in BOOLEAN /\ timer \in BOOLEAN
  /\ phase \in {"idle", "before", "closing", "after"}
  /\ timer => phase = "closing"
  /\ stage \in [Closer -> {"no", "workers", "connection", "done"}]
  /\ stopping \in [Closer -> SUBSET Worker]
  /\ proc \in {"running", "exit0", "exit1", "killed"}

Init ==
  /\ workers = {} /\ given = {} /\ starting = {} /\ tagged = {} /\ consumers = {} /\ handling = {}
  /\ connected = FALSE /\ isClosed = FALSE
  /\ shutdownInProgress = FALSE /\ registered = FALSE /\ phase = "idle" /\ timer = FALSE
  /\ stage = [c \in Closer |-> "no"]
  /\ stopping = [c \in Closer |-> {}]
  /\ proc = "running"

Closing == \E c \in Closer : stage[c] \in {"workers", "connection"}

-----------------------------------------------------------------------------
(* Workers, and the connection they ask for.                               *)

\* Mutant: the new worker takes the place of the one with its key.
Replaces(w) == {w}

\* The worker a configuration w gets: the registered one with the same key, whose
\* handlers and options need not be those of w, or a new one.
Found(w) ==
  LET same == {v \in workers : KeyOf[v] = KeyOf[w]}
  IN  IF same = {} THEN {w} ELSE same

createWorker(w) ==
  /\ proc = "running"
  /\ ~isClosed
  /\ workers' = {v \in workers : KeyOf[v] # KeyOf[w]} \cup Found(w)
  /\ given' = given \cup Found(w)
  /\ UNCHANGED <<isClosed, work, connected, shutdown, closes, proc>>

\* publishEvent() and publishEventWithConfirm(): createPublisher() refuses a closed
\* instance; the publisher asks the manager for a channel.
publishEvent ==
  /\ proc = "running"
  /\ ~isClosed
  /\ connected' = TRUE
  /\ UNCHANGED <<facade, work, shutdown, closes, proc>>

\* The application starts a worker it was given; nobody asks whether the
\* facade is closed or closing, but an orderly application does not do that.
StartCalled(w) ==
  /\ proc = "running"
  /\ w \in given
  /\ w \notin starting \cup tagged
  /\ StartRaces \/ (~isClosed /\ ~Closing /\ ~shutdownInProgress)
  /\ starting' = starting \cup {w}
  /\ UNCHANGED <<facade, tagged, consumers, handling, connected, shutdown, closes, proc>>

StartDone(w) ==
  /\ proc = "running"
  /\ w \in starting
  /\ starting' = starting \ {w}
  /\ tagged' = tagged \cup {w}
  /\ consumers' = consumers \cup {w}
  /\ connected' = TRUE
  /\ UNCHANGED <<facade, handling, shutdown, closes, proc>>

\* start() throws: the connection is refused or lost under way.
StartFails(w) ==
  /\ proc = "running"
  /\ w \in starting
  /\ starting' = starting \ {w}
  /\ UNCHANGED <<facade, tagged, consumers, handling, connected, shutdown, closes, proc>>

MessageArrives(w) ==
  /\ proc = "running"
  /\ w \in consumers
  /\ handling' = handling \cup {w}
  /\ UNCHANGED <<facade, starting, tagged, consumers, connected, shutdown, closes, proc>>

HandlerSucceeds(w) ==
  /\ proc = "running"
  /\ w \in handling
  /\ handling' = handling \ {w}
  /\ UNCHANGED <<facade, starting, tagged, consumers, connected, shutdown, closes, proc>>

\* The republication of a failed message needs a channel.
HandlerFails(w) ==
  /\ proc = "running"
  /\ w \in handling
  /\ handling' = handling \ {w}
  /\ connected' = TRUE
  /\ UNCHANGED <<facade, starting, tagged, consumers, shutdown, closes, proc>>

ConnectionLost ==
  /\ proc = "running"
  /\ connected
  /\ connected' = FALSE
  /\ consumers' = {}
  /\ UNCHANGED <<facade, starting, tagged, handling, shutdown, closes, proc>>

\* The reconnect loop succeeds; ConnectionManager has the cases after close().
Reconnected ==
  /\ proc = "running"
  /\ tagged # {}
  /\ ~isClosed
  /\ connected' = TRUE
  /\ UNCHANGED <<facade, work, shutdown, closes, proc>>

-----------------------------------------------------------------------------
(* close()                                                                 *)

\* The workers registered now are asked to stop, all at once.  A worker that
\* has no consumerTag yet has nothing to stop.
BeginClose(c) ==
  /\ stopping' = [stopping EXCEPT ![c] = workers \cap tagged]
  /\ stage' = [stage EXCEPT ![c] = "workers"]

CloseCalled ==
  /\ proc = "running"
  /\ stage["app"] = "no"
  /\ StartRaces \/ starting = {}
  /\ BeginClose("app")
  /\ UNCHANGED <<facade, work, connected, shutdown, proc>>

\* stop() of one worker ends: cancelled on the channel the manager has or
\* opens, or failed, it forgets its consumer.
WorkerStopped(c, w) ==
  /\ proc = "running"
  /\ stage[c] = "workers"
  /\ w \in stopping[c]
  /\ stopping' = [stopping EXCEPT ![c] = @ \ {w}]
  /\ tagged' = tagged \ {w}
  /\ \/ consumers' = consumers \ {w} /\ connected' = TRUE
     \/ ~connected /\ UNCHANGED <<consumers, connected>>
  /\ UNCHANGED <<facade, starting, handling, shutdown, stage, proc>>

\* Promise.all resolves: connectionManager.close() begins.
WorkersStopped(c) ==
  /\ proc = "running"
  /\ stage[c] = "workers"
  /\ stopping[c] = {}
  /\ stage' = [stage EXCEPT ![c] = "connection"]
  /\ UNCHANGED <<facade, work, connected, shutdown, stopping, proc>>

\* It ends, and in the same turn the registries are cleared.
ConnectionClosed(c) ==
  /\ proc = "running"
  /\ stage[c] = "connection"
  /\ connected' = FALSE
  /\ consumers' = {}
  /\ workers' = {}
  /\ isClosed' = TRUE
  /\ stage' = [stage EXCEPT ![c] = "done"]
  /\ UNCHANGED <<given, starting, tagged, handling, shutdown, stopping, proc>>

-----------------------------------------------------------------------------
(* Graceful shutdown.                                                      *)

enableGracefulShutdown ==
  /\ proc = "running"
  /\ ~registered
  /\ registered' = TRUE
  /\ UNCHANGED <<facade, work, connected, shutdownInProgress, phase, timer, closes, proc>>

disableGracefulShutdown ==
  /\ proc = "running"
  /\ registered
  /\ registered' = FALSE
  /\ UNCHANGED <<facade, work, connected, shutdownInProgress, phase, timer, closes, proc>>

\* SIGTERM or SIGINT: the default action without a handler, nothing when the
\* shutdown is under way.
Signal ==
  /\ proc = "running"
  /\ \/ /\ ~registered
        /\ proc' = "killed"
        /\ UNCHANGED <<shutdownInProgress, phase>>
     \/ /\ registered
        /\ ~shutdownInProgress
        /\ StartRaces \/ starting = {}
        /\ shutdownInProgress' = TRUE
        /\ phase' = "before"
        /\ UNCHANGED proc
  /\ UNCHANGED <<facade, work, connected, registered, timer, closes>>

\* Mutant: the time limit is never armed.
Unlimited == FALSE

Limited == TRUE

\* beforeShutdown returns: the time limit starts, and close() is called.
BeforeDone ==
  /\ proc = "running"
  /\ phase = "before"
  /\ phase' = "closing"
  /\ timer' = Limited
  /\ BeginClose("signal")
  /\ UNCHANGED <<facade, work, connected, shutdownInProgress, registered, proc>>

\* beforeShutdown or afterShutdown throws.
HookFails ==
  /\ proc = "running"
  /\ phase \in {"before", "after"}
  /\ proc' = "exit1"
  /\ UNCHANGED <<facade, work, connected, shutdown, closes>>

\* Mutant: the race is won by the time limit without an error.
GoesOn == phase' = "after" /\ UNCHANGED proc

Aborts == proc' = "exit1" /\ UNCHANGED phase

TimedOut ==
  /\ proc = "running"
  /\ timer
  /\ timer' = FALSE
  /\ Aborts
  /\ UNCHANGED <<facade, work, connected, shutdownInProgress, registered, closes>>

\* Mutant: leaves the time limit running.
TimerLeft == timer

TimerCleared == FALSE

CloseDone ==
  /\ proc = "running"
  /\ phase = "closing"
  /\ stage["signal"] = "done"
  /\ phase' = "after"
  /\ timer' = TimerCleared
  /\ UNCHANGED <<facade, work, connected, shutdownInProgress, registered, closes, proc>>

AfterDone ==
  /\ proc = "running"
  /\ phase = "after"
  /\ proc' = "exit0"
  /\ UNCHANGED <<facade, work, connected, shutdown, closes>>

Next ==
  \/ \E w \in Worker :
       \/ createWorker(w) \/ StartCalled(w) \/ StartDone(w) \/ StartFails(w)
       \/ MessageArrives(w) \/ HandlerSucceeds(w) \/ HandlerFails(w)
       \/ \E c \in Closer : WorkerStopped(c, w)
  \/ publishEvent
  \/ ConnectionLost \/ Reconnected
  \/ CloseCalled
  \/ \E c \in Closer : WorkersStopped(c) \/ ConnectionClosed(c)
  \/ enableGracefulShutdown \/ disableGracefulShutdown
  \/ Signal \/ BeforeDone \/ HookFails \/ TimedOut \/ CloseDone \/ AfterDone

Spec == Init /\ [][Next]_vars

\* The event loop runs timers and continuations; hooks and close() end unless
\* they may hang.
Fairness ==
  /\ WF_vars(TimedOut)
  /\ WF_vars(CloseDone)
  /\ ~HooksHang => WF_vars(BeforeDone \/ HookFails) /\ WF_vars(AfterDone \/ HookFails)
  /\ ~CloseHangs => \A c \in Closer : WF_vars(WorkersStopped(c) \/ ConnectionClosed(c))

FairSpec == Spec /\ Fairness

-----------------------------------------------------------------------------
(* What the facade promises.                                               *)

\* index.ts:288-300: exit code 0 means that the instance was closed: the call of
\* close() made for the shutdown has run to its end, although the application
\* may be closing too and the time limit may run out meanwhile.
ExitZeroMeansClosed ==
  proc = "exit0" => isClosed /\ stage["signal"] = "done" /\ stopping["signal"] = {}

\* index.ts:345-352: the connection is closed under no consumer.  In an orderly
\* application every consumer was cancelled before, whichever of two calls of
\* close() gets there first and however often the connection was lost.
StoppedBeforeClosing == \A c \in Closer : stage[c] = "connection" => consumers = {}

\* docs/usage.md:417: the shutdown ends, whatever close() does.
ShutdownEnds == shutdownInProgress ~> proc # "running"
=============================================================================
