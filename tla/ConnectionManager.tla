------------------------- MODULE ConnectionManager -------------------------
(***************************************************************************)
(* The ConnectionManager of QueueCraft (src/src/connection.ts): one shared *)
(* connection with a channel and a confirm channel, a reconnect loop with  *)
(* a bounded number of attempts, and close().                              *)
(*                                                                         *)
(* An action is one turn of the event loop: a callback of amqplib, a timer *)
(* or a call of the application, up to the next await.  When a turn        *)
(* settles the promise that reconnect loops await, they resume before any  *)
(* other callback (Quiet).  The end of a connection, its channels' 'close' *)
(* events and its own 'error' and 'close' events are one turn: amqplib     *)
(* emits them synchronously.                                               *)
(***************************************************************************)
EXTENDS Integers, FiniteSets

CONSTANTS
  Socket,        \* connections the broker ever accepts (a bound)
  Confirm,       \* confirm channels ever requested (a bound)
  Loop,          \* calls of reconnectWithBackoff at a time (a bound)
  Closer,        \* calls of close() at a time (a bound)
  MaxAttempts,   \* ReconnectionOptions.maxAttempts
  AutoReconnect, \* ReconnectionOptions.autoReconnect
  ChannelFaults, \* may a channel end, or be refused, on a live connection?
  Closable,      \* does the application call close()?
  None

ASSUME ManagerAssumption ==
  /\ MaxAttempts \in Nat \ {0}
  /\ AutoReconnect \in BOOLEAN /\ ChannelFaults \in BOOLEAN /\ Closable \in BOOLEAN
  /\ None \notin Socket \cup Confirm \cup Loop

VARIABLES
  \* amqplib's objects
  sock,       \* each connection: unused, open or closed
  chan,       \* the channel connect() creates on each connection
  conf,       \* each confirm channel
  confOn,     \* the connection of each confirm channel
  \* the objects with the listeners of the manager, and the kinds of object whose
  \* listeners it still has in its fields (connectionErrorHandler and so on)
  sockHooked, chanHooked, confHooked, handlers,
  \* the fields of the manager
  connection, channel, confirmChannel,
  dialing, opening,  \* `connecting`: in amqplib's connect, or in createChannel
  isReconnecting, reconnectAttempts,
  reconnectTimer, \* the loop that waits for this timer; None when it has fired
  \* calls in progress
  loop,       \* each reconnect loop
  made,       \* attempts a loop has announced, up to its end
  closing,    \* what each call of close() awaits the end of
  closeOf,    \* the object it has called close on
  wasClosed,  \* close() was called at some time
  \* what the application was told
  gaveUp      \* up to close(): 'reconnectFailed' was emitted after the last 'connected'

objects == <<sock, chan, conf, confOn, sockHooked, chanHooked, confHooked>>
hooks   == <<sockHooked, chanHooked, confHooked, handlers>>
refs    == <<connection, channel, confirmChannel>>
retrying == <<isReconnecting, reconnectAttempts, reconnectTimer, loop, made>>
closes   == <<closing, closeOf, wasClosed>>
vars == <<objects, handlers, refs, dialing, opening, retrying, closes, gaveUp>>

TypeOK ==
  /\ sock \in [Socket -> {"unused", "open", "closed"}]
  /\ chan \in [Socket -> {"none", "open", "closed"}]
  /\ conf \in [Confirm -> {"unused", "opening", "open", "closed"}]
  /\ confOn \in [Confirm -> Socket \cup {None}]
  /\ sockHooked \subseteq Socket
  /\ chanHooked \subseteq Socket
  /\ confHooked \subseteq Confirm
  /\ handlers \subseteq {"connection", "channel", "confirm"}
  /\ connection \in Socket \cup {None}
  /\ channel \in Socket \cup {None}
  /\ confirmChannel \in Confirm \cup {None}
  /\ dialing \in BOOLEAN
  /\ opening \in Socket \cup {None}
  /\ isReconnecting \in BOOLEAN
  /\ reconnectAttempts \in 0..MaxAttempts
  /\ reconnectTimer \in Loop \cup {None}
  /\ loop \in [Loop -> {"none", "asleep", "connecting", "resolved", "rejected"}]
  /\ made \in [Loop -> Nat]
  /\ closing \in [Closer -> {"no", "confirm", "channel", "connection"}]
  /\ closeOf \in [Closer -> Socket \cup Confirm \cup {None}]
  /\ wasClosed \in BOOLEAN
  /\ gaveUp \in BOOLEAN

Init ==
  /\ sock = [s \in Socket |-> "unused"]
  /\ chan = [s \in Socket |-> "none"]
  /\ conf = [f \in Confirm |-> "unused"]
  /\ confOn = [f \in Confirm |-> None]
  /\ sockHooked = {} /\ chanHooked = {} /\ confHooked = {}
  /\ handlers = {}
  /\ connection = None /\ channel = None /\ confirmChannel = None
  /\ dialing = FALSE /\ opening = None
  /\ isReconnecting = FALSE /\ reconnectAttempts = 0 /\ reconnectTimer = None
  /\ loop = [l \in Loop |-> "none"]
  /\ made = [l \in Loop |-> 0]
  /\ closing = [k \in Closer |-> "no"] /\ closeOf = [k \in Closer |-> None]
  /\ wasClosed = FALSE
  /\ gaveUp = FALSE

\* Identities are handed out in one order; which one does not matter.
Fresh(S) == IF S = {} THEN {} ELSE {CHOOSE x \in S : TRUE}
NewSockets  == Fresh({s \in Socket : sock[s] = "unused"})
NewConfirms == Fresh({f \in Confirm : conf[f] = "unused"})
NewLoops    == Fresh({l \in Loop : loop[l] = "none"})
NewClosers  == Fresh({k \in Closer : closing[k] = "no"})

isHealthy  == connection # None /\ channel # None
Connecting == dialing \/ opening # None
Active(l)  == loop[l] # "none"
Quiet      == \A l \in Loop : loop[l] \notin {"resolved", "rejected"}

\* The loops that await connect() see its promise settle.
Settled(how) == [l \in Loop |-> IF loop[l] = "connecting" THEN how ELSE loop[l]]

\* Loop l ends, or is left waiting for ever.
EndLoop(l) == loop' = [loop EXCEPT ![l] = "none"] /\ made' = [made EXCEPT ![l] = 0]

-----------------------------------------------------------------------------
(* connect()                                                               *)

\* The part of connect() after the check of connection and channel.
BeginConnect ==
  /\ dialing' = (dialing \/ opening = None)
  /\ UNCHANGED opening

\* The application, a publisher or a worker calls connect(), directly or
\* through getChannel() or getConfirmChannel().
Connect ==
  /\ Quiet
  /\ ~isHealthy
  /\ ~Connecting
  /\ BeginConnect
  /\ UNCHANGED <<objects, handlers, refs, retrying, closes, gaveUp>>

\* amqplib's connect resolves: the handlers go on, and a channel is requested.
DialSucceeds ==
  /\ Quiet
  /\ dialing
  /\ \E s \in NewSockets :
       /\ sock' = [sock EXCEPT ![s] = "open"]
       /\ sockHooked' = sockHooked \cup {s}
       /\ handlers' = handlers \cup {"connection"}
       /\ connection' = s
       /\ opening' = s
  /\ dialing' = FALSE
  /\ UNCHANGED <<chan, conf, confOn, chanHooked, confHooked, channel,
                 confirmChannel, retrying, closes, gaveUp>>

\* The catch of connect(): whatever the fields hold is forgotten.
DialFails ==
  /\ Quiet
  /\ dialing
  /\ dialing' = FALSE
  /\ connection' = None
  /\ channel' = None
  /\ loop' = Settled("rejected")
  /\ UNCHANGED <<objects, handlers, confirmChannel, opening, isReconnecting,
                 reconnectAttempts, reconnectTimer, made, closes, gaveUp>>

\* createChannel resolves: 'connected' is emitted.
ChannelCreated ==
  /\ Quiet
  /\ opening # None
  /\ chan' = [chan EXCEPT ![opening] = "open"]
  /\ chanHooked' = chanHooked \cup {opening}
  /\ handlers' = handlers \cup {"channel"}
  /\ channel' = opening
  /\ opening' = None
  /\ loop' = Settled("resolved")
  /\ gaveUp' = FALSE
  /\ UNCHANGED <<sock, conf, confOn, sockHooked, confHooked, connection,
                 confirmChannel, dialing, isReconnecting, reconnectAttempts,
                 reconnectTimer, made, closes>>

\* createChannel rejects on a live connection, which is not closed.
ChannelRefused ==
  /\ ChannelFaults
  /\ Quiet
  /\ opening # None
  /\ opening' = None
  /\ connection' = None
  /\ channel' = None
  /\ loop' = Settled("rejected")
  /\ UNCHANGED <<objects, handlers, confirmChannel, dialing, isReconnecting,
                 reconnectAttempts, reconnectTimer, made, closes, gaveUp>>

-----------------------------------------------------------------------------
(* getConfirmChannel()                                                     *)

ConfirmRequested ==
  /\ Quiet
  /\ confirmChannel = None
  /\ connection # None
  /\ \E f \in NewConfirms :
       /\ conf' = [conf EXCEPT ![f] = IF sock[connection] = "open" THEN "opening" ELSE "closed"]
       /\ confOn' = [confOn EXCEPT ![f] = connection]
  /\ UNCHANGED <<sock, chan, hooks, refs, dialing,
                 opening, retrying, closes, gaveUp>>

ConfirmCreated(f) ==
  /\ Quiet
  /\ conf[f] = "opening"
  /\ conf' = [conf EXCEPT ![f] = "open"]
  /\ confHooked' = confHooked \cup {f}
  /\ handlers' = handlers \cup {"confirm"}
  /\ confirmChannel' = f
  /\ UNCHANGED <<sock, chan, confOn, sockHooked, chanHooked, connection, channel,
                 dialing, opening, retrying, closes, gaveUp>>

-----------------------------------------------------------------------------
(* Connections and channels that end.                                      *)

\* A loop with its first attempt announced, or none.
BeginLoop(base) ==
  \E l \in NewLoops :
    /\ loop' = [base EXCEPT ![l] = "asleep"]
    /\ made' = [made EXCEPT ![l] = 1]
    /\ isReconnecting' = TRUE
    /\ reconnectAttempts' = 1
    /\ reconnectTimer' = l
KeepLoops(base) ==
  loop' = base /\ UNCHANGED <<made, isReconnecting, reconnectAttempts, reconnectTimer>>

\* Mutant: starts a loop without looking at isReconnecting.
StartLoopAlways(base) == IF AutoReconnect THEN BeginLoop(base) ELSE KeepLoops(base)

\* reconnectWithBackoff() up to its first sleep.
StartLoop(base) ==
  IF AutoReconnect /\ ~isReconnecting THEN BeginLoop(base) ELSE KeepLoops(base)

ConfirmsOn(s) == {f \in Confirm : confOn[f] = s}

\* What the end of connection s does: its channels end and run their handlers,
\* then its own handlers run handleConnectionError(), whatever the current
\* connection is; a createChannel under way rejects, and connect() with it.
EndSocket(s) ==
  LET base == IF opening = s THEN Settled("rejected") ELSE loop
      told == s \in sockHooked
      failed == opening = s
  IN
  /\ sock' = [sock EXCEPT ![s] = "closed"]
  /\ chan' = [chan EXCEPT ![s] = IF @ = "open" THEN "closed" ELSE @]
  /\ conf' = [f \in Confirm |-> IF f \in ConfirmsOn(s) THEN "closed" ELSE conf[f]]
  /\ sockHooked' = sockHooked \ {s}
  /\ chanHooked' = chanHooked \ {s}
  /\ confHooked' = confHooked \ ConfirmsOn(s)
  /\ channel' = IF told \/ failed \/ s \in chanHooked THEN None ELSE channel
  /\ confirmChannel' = IF told \/ s \in chanHooked \/ ConfirmsOn(s) \cap confHooked # {}
                         THEN None ELSE confirmChannel
  /\ opening' = IF failed THEN None ELSE opening
  /\ IF told THEN StartLoop(base) ELSE KeepLoops(base)
  /\ UNCHANGED <<confOn, dialing>>

ConnectionEnds(s) ==
  /\ Quiet
  /\ sock[s] = "open"
  /\ EndSocket(s)
  /\ connection' = IF s \in sockHooked \/ opening = s THEN None ELSE connection
  /\ UNCHANGED <<handlers, closes, gaveUp>>

\* Mutant: the close handler of the channel leaves the field alone.
NotCleared(s, field) == field

\* A field of the manager after the close handler of channel s, if attached.
Cleared(s, field) == IF s \in chanHooked THEN None ELSE field

\* The broker closes the channel: its close handler clears both fields.
ChannelEnds(s) ==
  /\ ChannelFaults
  /\ Quiet
  /\ chan[s] = "open"
  /\ chan' = [chan EXCEPT ![s] = "closed"]
  /\ chanHooked' = chanHooked \ {s}
  /\ channel' = Cleared(s, channel)
  /\ confirmChannel' = Cleared(s, confirmChannel)
  /\ UNCHANGED <<sock, conf, confOn, sockHooked, confHooked, handlers, connection,
                 dialing, opening, retrying, closes, gaveUp>>

ConfirmEnds(f) ==
  /\ ChannelFaults
  /\ Quiet
  /\ conf[f] \in {"opening", "open"}
  /\ conf' = [conf EXCEPT ![f] = "closed"]
  /\ confHooked' = confHooked \ {f}
  /\ confirmChannel' = IF f \in confHooked THEN None ELSE confirmChannel
  /\ UNCHANGED <<sock, chan, confOn, sockHooked, chanHooked, handlers, connection,
                 channel, dialing, opening, retrying, closes, gaveUp>>

-----------------------------------------------------------------------------
(* reconnectWithBackoff()                                                  *)

\* The timer fires: connect() returns at once, joins the attempt under way or
\* starts one.
Wake(l) ==
  /\ Quiet
  /\ loop[l] = "asleep"
  /\ \/ /\ isHealthy
        /\ loop' = [loop EXCEPT ![l] = "resolved"]
        /\ UNCHANGED <<dialing, opening>>
     \/ /\ ~isHealthy
        /\ loop' = [loop EXCEPT ![l] = "connecting"]
        /\ BeginConnect
  /\ reconnectTimer' = IF reconnectTimer = l THEN None ELSE reconnectTimer
  /\ UNCHANGED <<objects, handlers, refs, isReconnecting, reconnectAttempts, made,
                 closes, gaveUp>>

Reconnected(l) ==
  /\ loop[l] = "resolved"
  /\ EndLoop(l)
  /\ isReconnecting' = FALSE
  /\ reconnectAttempts' = 0
  /\ UNCHANGED <<objects, handlers, refs, dialing, opening, reconnectTimer, closes,
                 gaveUp>>

Retries(l) ==
  /\ loop' = [loop EXCEPT ![l] = "asleep"]
  /\ made' = [made EXCEPT ![l] = @ + 1]
  /\ reconnectAttempts' = reconnectAttempts + 1
  /\ reconnectTimer' = l
  /\ UNCHANGED <<isReconnecting, gaveUp>>

\* Mutant: the loop leaves without the final event and keeps the lock.
GivesUpSilently(l) ==
  /\ EndLoop(l)
  /\ UNCHANGED <<reconnectAttempts, reconnectTimer, isReconnecting, gaveUp>>

GivesUp(l) ==
  /\ EndLoop(l)
  /\ isReconnecting' = FALSE
  /\ gaveUp' = ~wasClosed
  /\ UNCHANGED <<reconnectAttempts, reconnectTimer>>

\* Mutant: one attempt too many.
OneMoreAttempt == reconnectAttempts <= MaxAttempts

AttemptsLeft == reconnectAttempts < MaxAttempts

\* connect() rejected: another attempt, or 'reconnectFailed'.
AttemptFailed(l) ==
  /\ loop[l] = "rejected"
  /\ \/ AttemptsLeft /\ Retries(l)
     \/ ~AttemptsLeft /\ GivesUp(l)
  /\ UNCHANGED <<objects, handlers, refs, dialing, opening, closes>>

-----------------------------------------------------------------------------
(* close()                                                                 *)

\* amqplib's close() throws at once for an object that is not open or that another
\* close() awaits: the manager swallows that, clears the field and goes on.
Ending(what, x)  == \E k \in Closer : closing[k] = what /\ closeOf[k] = x
ConfirmCloses    == /\ confirmChannel # None /\ conf[confirmChannel] = "open"
                    /\ ~Ending("confirm", confirmChannel)
ChannelCloses    == /\ channel # None /\ chan[channel] = "open"
                    /\ ~Ending("channel", channel)
ConnectionCloses == /\ connection # None /\ sock[connection] = "open"
                    /\ ~Ending("connection", connection)

\* Call k of close() awaits the end of x.
Awaits(k, what, x) ==
  /\ closing' = [closing EXCEPT ![k] = what]
  /\ closeOf' = [closeOf EXCEPT ![k] = x]
  /\ wasClosed' = TRUE

\* close() comes to its end: the listeners are forgotten, attached or not.
Returns(k) == Awaits(k, "no", None) /\ handlers' = {}

\* close() from its connection on, and from its channel on.
CloseConnection(k) ==
  \/ /\ ConnectionCloses
     /\ Awaits(k, "connection", connection)
     /\ UNCHANGED <<connection, handlers>>
  \/ /\ ~ConnectionCloses
     /\ Returns(k)
     /\ connection' = None
CloseChannel(k) ==
  \/ /\ ChannelCloses
     /\ Awaits(k, "channel", channel)
     /\ UNCHANGED <<connection, channel, handlers>>
  \/ /\ ~ChannelCloses
     /\ channel' = None
     /\ CloseConnection(k)

\* The object of a field is detached from its listeners if close() has them: the
\* end of an earlier close() has forgotten those of an object opened meanwhile.
Detached(hooked, kind, x) == IF kind \in handlers THEN hooked \ {x} ELSE hooked

\* A loop whose timer is cleared never resumes; one that awaits connect() is not
\* told.  A call may overlap others while two connections are left to dial (a bound).
CloseCalled(k) ==
  /\ Closable
  /\ Quiet
  /\ k \in NewClosers
  /\ \/ \A j \in Closer : closing[j] = "no"
     \/ Cardinality({s \in Socket : sock[s] = "unused"}) > 1
  /\ IF reconnectTimer # None /\ loop[reconnectTimer] = "asleep"
     THEN EndLoop(reconnectTimer) ELSE UNCHANGED <<loop, made>>
  /\ reconnectTimer' = None
  /\ isReconnecting' = FALSE
  /\ chanHooked' = Detached(chanHooked, "channel", channel)
  /\ sockHooked' = Detached(sockHooked, "connection", connection)
  /\ confHooked' = Detached(confHooked, "confirm", confirmChannel)
  /\ \/ /\ ConfirmCloses
        /\ Awaits(k, "confirm", confirmChannel)
        /\ UNCHANGED <<refs, handlers>>
     \/ /\ ~ConfirmCloses
        /\ confirmChannel' = None
        /\ CloseChannel(k)
  /\ gaveUp' = FALSE
  /\ UNCHANGED <<sock, chan, conf, confOn, dialing, opening, reconnectAttempts>>

ConfirmClosed(k) ==
  /\ Quiet
  /\ closing[k] = "confirm"
  /\ conf' = [conf EXCEPT ![closeOf[k]] = "closed"]
  /\ confHooked' = confHooked \ {closeOf[k]}
  /\ confirmChannel' = None
  /\ CloseChannel(k)
  /\ UNCHANGED <<sock, chan, confOn, sockHooked, chanHooked, dialing, opening,
                 retrying, gaveUp>>

\* The channel may have its listeners still: it was created after close() detached
\* those of the one before, or close() did not have them.
ChannelClosed(k) ==
  /\ Quiet
  /\ closing[k] = "channel"
  /\ chan' = [chan EXCEPT ![closeOf[k]] = "closed"]
  /\ chanHooked' = chanHooked \ {closeOf[k]}
  /\ confirmChannel' = Cleared(closeOf[k], confirmChannel)
  /\ channel' = None
  /\ CloseConnection(k)
  /\ UNCHANGED <<sock, conf, confOn, sockHooked, confHooked, dialing, opening,
                 retrying, gaveUp>>

\* So may the connection: its close handler then takes the end for a loss.
ConnectionClosed(k) ==
  /\ Quiet
  /\ closing[k] = "connection"
  /\ EndSocket(closeOf[k])
  /\ connection' = None
  /\ Returns(k)
  /\ UNCHANGED gaveUp

Next ==
  \/ Connect \/ DialSucceeds \/ DialFails \/ ChannelCreated \/ ChannelRefused
  \/ ConfirmRequested
  \/ \E f \in Confirm : ConfirmCreated(f) \/ ConfirmEnds(f)
  \/ \E s \in Socket : ConnectionEnds(s) \/ ChannelEnds(s)
  \/ \E l \in Loop : Wake(l) \/ Reconnected(l) \/ AttemptFailed(l)
  \/ \E k \in Closer :
       CloseCalled(k) \/ ConfirmClosed(k) \/ ChannelClosed(k) \/ ConnectionClosed(k)

Spec == Init /\ [][Next]_vars

\* Timers fire, continuations run, and a connect is answered, one way or the
\* other.  The steps of close() need no fairness: LoopEnds excuses a close.
Fairness ==
  /\ WF_vars(DialSucceeds \/ DialFails)
  /\ WF_vars(ChannelCreated \/ ChannelRefused)
  /\ WF_vars(\E l \in Loop : Wake(l) \/ Reconnected(l) \/ AttemptFailed(l))

FairSpec == Spec /\ Fairness

-----------------------------------------------------------------------------
(* What the manager promises.                                              *)

\* Outside close(), what the manager refers to is open at the broker: a caller
\* never gets a channel whose end the client was told of, whichever of several
\* connections ended and in whatever order (connection.ts:180-193, 215-218).
RefsAreOpen ==
  (\A k \in Closer : closing[k] = "no") =>
    /\ connection # None => sock[connection] = "open"
    /\ channel # None => chan[channel] = "open"
    /\ confirmChannel # None => conf[confirmChannel] = "open"

\* connection.ts:238-243: isReconnecting is the lock of the reconnect loop.
\* Until the application closes, at most one loop runs, it runs exactly while
\* the flag is set, and while it sleeps its timer is the one close() would clear.
OneLoop ==
  ~wasClosed =>
    /\ \A k, l \in Loop : Active(k) /\ Active(l) => k = l
    /\ isReconnecting <=> \E l \in Loop : Active(l)
    /\ \A l \in Loop : loop[l] = "asleep" => reconnectTimer = l

\* ReconnectionOptions.maxAttempts bounds the attempts of one loop, and
\* 'reconnecting' events count them: no step of another caller disturbs the
\* counter before close() (connection.ts:243-248, 265).
AttemptsBounded ==
  ~wasClosed =>
    \A l \in Loop : made[l] <= MaxAttempts /\ (Active(l) => made[l] = reconnectAttempts)

\* connection.ts:247-279: a reconnect loop ends, and when it does the manager has
\* a channel or has reported 'reconnectFailed', whatever other callers do with
\* connect() and whichever channels and connections end meanwhile, unless the
\* application closes.  (A channel, and not isHealthy: a stale end during
\* createChannel clears the connection.)
LoopEnds ==
  isReconnecting ~> wasClosed \/ (~isReconnecting /\ (channel # None \/ gaveUp))

\* connection.ts:146-210, 296-306: up to close(), the manager offers its users
\* channels as ChannelProvider describes: none that has ended and none that it
\* offered before, from whichever place it dials and whichever end it is told of.
Provider == INSTANCE ChannelProvider WITH
  Chan <- Socket,
  state <- [s \in Socket |-> IF chan[s] = "none" THEN "new" ELSE chan[s]]
ProvidesChannels ==
  Provider!Init /\ [][wasClosed' \/ Provider!Next]_<<channel, chan>>

-----------------------------------------------------------------------------
(* What the documents say and the code does not do.                        *)

\* connection.ts:55: 'disconnected' is emitted when the connection is lost.
\* handleConnectionError also runs for connections the manager has replaced.
OnlyOwnLossDisconnects ==
  [][connection # None /\ connection' = None /\ ~Connecting
       => sock'[connection] = "closed"]_vars
=============================================================================
