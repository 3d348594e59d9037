-------------------------- MODULE WorkerLifecycle --------------------------
(***************************************************************************)
(* start(), stop(), addHandler() and removeHandler() of several workers on *)
(* one ConnectionManager (src/src/worker.ts), with the manager's methods   *)
(* they call and its caches of declared names (src/src/connection.ts).     *)
(*                                                                         *)
(* A call awaits one request after another, each on the channel the        *)
(* manager has at that moment.  Issuing a request is an action, and so is  *)
(* its reply; a call that has its reply issues the next request before     *)
(* anything else happens (Quiet).  The broker executes requests in the     *)
(* order they are issued, unless the channel has broken, in which case     *)
(* they are lost and the call fails when the client sees the channel end.  *)
(*                                                                         *)
(* The manager dials whenever it has no channel, also when the connection  *)
(* of the last one is still open, and the end of any connection it ever    *)
(* opened makes it drop the channel it has, which may go on to work: the   *)
(* calls that await its replies get them, and the consumers stay.  A       *)
(* connection bears the name of the channel that was opened on it.         *)
(***************************************************************************)
EXTENDS Integers, FiniteSets

CONSTANTS
  Worker, Event,
  Call,           \* calls of start, stop and addHandler ever made (a bound)
  Chan,           \* channels ever opened (a bound)
  Prefetch,       \* WorkerOptions.prefetch of each worker, 0 when omitted
  Handlers,       \* the events each worker has handlers for when it is created
  Changing,       \* which workers' handlers the application changes (a bound)
  AutoDelete,     \* workers whose queue option autoDelete is set
  Overlapping,    \* workers whose calls the application lets overlap
  exchange,       \* the name of the main exchange; a queue is named as its worker
  None

ASSUME LifecycleAssumption ==
  /\ Prefetch \in [Worker -> Nat]
  /\ Handlers \in [Worker -> (SUBSET Event) \ {{}}]
  /\ AutoDelete \subseteq Worker /\ Changing \subseteq Worker \X Event
  /\ Overlapping \subseteq Worker
  /\ exchange \notin Worker
  /\ None \notin Chan \cup Call

VARIABLES
  \* the broker
  declared, bound,  \* names that exist, and the bindings of the queues
  consumer,         \* the channel of the consumer a start() registered
  limit,            \* the prefetch count that consumer got
  refused,          \* workers that used a queue the broker does not have
  \* channels
  chan,             \* new, up, broken (at the broker) or closed (client knows)
  prefetch,         \* what basic.qos last set on it
  connections,      \* the open connections whose end the manager hears of
  \* the manager
  connection, channel, \* the ones it uses
  setup,            \* setupExchanges and setupQueues
  \* each worker
  handlers, boundEvents, isConsuming, consumerTag,
  \* calls
  who, pc, on, todo \* of which worker, at which step, on which channel it
                    \* awaits a reply, and the events it has left to bind

broker  == <<declared, bound, consumer, limit, refused>>
links   == <<chan, prefetch, connections>>
manager == <<connection, channel, setup>>
worker  == <<handlers, boundEvents, isConsuming, consumerTag>>
calls   == <<who, pc, on, todo>>
vars == <<broker, links, manager, worker, calls>>

Starting == {"connect", "prefetch", "exchange", "queue", "snapshot", "bind",
             "consume"}
Stage == Starting \cup {"add", "cancel"}

TypeOK ==
  /\ declared \subseteq Worker \cup {exchange} /\ setup \subseteq Worker \cup {exchange}
  /\ bound \subseteq Worker \X Event
  /\ consumer \in [Call -> Chan \cup {None}] /\ limit \in [Call -> Nat]
  /\ refused \subseteq Worker
  /\ chan \in [Chan -> {"new", "up", "broken", "closed"}] /\ prefetch \in [Chan -> Nat]
  /\ connections \subseteq Chan /\ connection \in connections \cup {None}
  /\ \A g \in Chan : chan[g] \in {"up", "broken"} => g \in connections
  /\ \A g \in connections : chan[g] # "new"
  /\ channel \in {g \in Chan : chan[g] \in {"up", "broken"}} \cup {None}
  /\ channel # None => channel = connection
  /\ handlers \in [Worker -> SUBSET Event] /\ boundEvents \in [Worker -> SUBSET Event]
  /\ isConsuming \in [Worker -> BOOLEAN] /\ consumerTag \in [Worker -> Call \cup {None}]
  /\ who \in [Call -> Worker \cup {None}]
  /\ pc \in [Call -> Stage \cup {"unused", "done", "failed"}]
  /\ on \in [Call -> Chan \cup {None}] /\ todo \in [Call -> SUBSET Event]
  /\ \A c \in Call : on[c] # None => chan[on[c]] \in {"up", "broken"} /\ pc[c] \in Stage

Init ==
  /\ declared = {} /\ bound = {} /\ refused = {}
  /\ consumer = [c \in Call |-> None] /\ limit = [c \in Call |-> 0]
  /\ chan = [g \in Chan |-> "new"] /\ prefetch = [g \in Chan |-> 0]
  /\ connections = {} /\ connection = None /\ channel = None /\ setup = {}
  /\ handlers = Handlers
  /\ boundEvents = [w \in Worker |-> {}]
  /\ isConsuming = [w \in Worker |-> FALSE] /\ consumerTag = [w \in Worker |-> None]
  /\ who = [c \in Call |-> None] /\ pc = [c \in Call |-> "unused"]
  /\ on = [c \in Call |-> None] /\ todo = [c \in Call |-> {}]

Fresh(S) == IF S = {} THEN {} ELSE {CHOOSE x \in S : TRUE}
NewCalls == Fresh({c \in Call : pc[c] = "unused"})

Active(c)  == pc[c] \in Stage
Busy(w)    == \E c \in Call : Active(c) /\ who[c] = w
Waiting(c) == Active(c) /\ on[c] = None /\ channel = None
Ready(c)   == Active(c) /\ on[c] = None /\ channel # None
Quiet      == \A c \in Call : ~Ready(c)
Consumers(w) == {c \in Call : who[c] = w /\ consumer[c] # None}

-----------------------------------------------------------------------------
(* The application.  An orderly one makes one call of a worker at a time,  *)
(* and does not start a worker twice without stopping it; calls of         *)
(* different workers overlap.                                              *)

Begin(w, stage, events) ==
  \E c \in NewCalls :
    /\ who' = [who EXCEPT ![c] = w]
    /\ pc' = [pc EXCEPT ![c] = stage]
    /\ todo' = [todo EXCEPT ![c] = events]
    /\ UNCHANGED on

Free(w) == w \in Overlapping \/ ~Busy(w)

Start(w) ==
  /\ Free(w)
  /\ w \in Overlapping \/ consumerTag[w] = None
  /\ Begin(w, "connect", {})
  /\ UNCHANGED <<broker, links, manager, worker>>

\* Without a tag stop() returns at once.
Stop(w) ==
  /\ Free(w)
  /\ consumerTag[w] # None
  /\ Begin(w, "cancel", {})
  /\ UNCHANGED <<broker, links, manager, worker>>

\* Mutant: takes every event that was ever bound by some worker for bound.
NeverBinds(w, e) == isConsuming[w] /\ \A v \in Worker : e \notin boundEvents[v]

NeedsBinding(w, e) == isConsuming[w] /\ e \notin boundEvents[w]

AddHandler(w, e) ==
  /\ Free(w)
  /\ handlers' = [handlers EXCEPT ![w] = @ \cup {e}]
  /\ IF NeedsBinding(w, e) THEN Begin(w, "add", {e}) ELSE UNCHANGED calls
  /\ UNCHANGED <<broker, links, manager, boundEvents, isConsuming, consumerTag>>

\* The event stays bound.
RemoveHandler(w, e) ==
  /\ handlers' = [handlers EXCEPT ![w] = @ \ {e}]
  /\ UNCHANGED <<broker, links, manager, boundEvents, isConsuming, consumerTag, calls>>

-----------------------------------------------------------------------------
(* Requests.                                                               *)

At(c, stage) == Ready(c) /\ pc[c] = stage
Up == chan[channel] = "up"
Send(c) == on' = [on EXCEPT ![c] = channel] /\ UNCHANGED <<who, pc, todo>>
GoTo(c, stage) == pc' = [pc EXCEPT ![c] = stage] /\ UNCHANGED <<who, on, todo>>

\* The broker's consumers change; an auto-delete queue goes with its last one.
SetConsumers(cs) ==
  LET gone == {w \in AutoDelete : Consumers(w) # {} /\ \A c \in Consumers(w) : cs[c] = None}
  IN  /\ consumer' = cs
      /\ limit' = [c \in Call |-> IF cs[c] = None THEN 0 ELSE limit[c]]
      /\ declared' = declared \ gone
      /\ bound' = {b \in bound : b[1] \notin gone}
NoneOn(g) == [c \in Call |-> IF consumer[c] = g THEN None ELSE consumer[c]]

\* A request for a queue that does not exist: the broker closes the channel.
Refuse(w) ==
  /\ refused' = refused \cup {w}
  /\ chan' = [chan EXCEPT ![channel] = "broken"]
  /\ SetConsumers(NoneOn(channel))
  /\ UNCHANGED <<prefetch, connections>>

\* connect() returns; without a prefetch option the channel's is left alone.
Connected(c) ==
  /\ At(c, "connect")
  /\ GoTo(c, IF Prefetch[who[c]] = 0 THEN "exchange" ELSE "prefetch")
  /\ UNCHANGED <<broker, links, manager, worker>>

SetPrefetch(c) ==
  /\ At(c, "prefetch")
  /\ Send(c)
  /\ prefetch' = IF Up THEN [prefetch EXCEPT ![channel] = Prefetch[who[c]]] ELSE prefetch
  /\ UNCHANGED <<broker, chan, connections, manager, worker>>

\* Mutant: assertQueue looks for the exchange in the cache.
IsSetUpAsExchange(name) == exchange \in setup

IsSetUp(name) == name \in setup

Declare(c, stage, name, next) ==
  /\ At(c, stage)
  /\ IF IsSetUp(name)
       THEN GoTo(c, next) /\ UNCHANGED declared
       ELSE Send(c) /\ declared' = (IF Up THEN declared \cup {name} ELSE declared)
  /\ UNCHANGED <<bound, consumer, limit, refused, links, manager, worker>>

AssertExchange(c) == Declare(c, "exchange", exchange, "queue")

AssertQueue(c) == Declare(c, "queue", who[c], "snapshot")

\* initialize() reads the handlers it is going to bind.
Snapshot(c) ==
  /\ At(c, "snapshot")
  /\ pc' = [pc EXCEPT ![c] = IF handlers[who[c]] = {} THEN "failed" ELSE "bind"]
  /\ todo' = [todo EXCEPT ![c] = handlers[who[c]]]
  /\ UNCHANGED <<who, on, broker, links, manager, worker>>

Binding(c) == CHOOSE e \in todo[c] : TRUE

BindQueue(c) ==
  /\ At(c, "bind") \/ At(c, "add")
  /\ Send(c)
  /\ LET w == who[c] IN
       \/ /\ Up /\ w \in declared
          /\ bound' = bound \cup {<<w, Binding(c)>>}
          /\ UNCHANGED <<declared, consumer, limit, refused, links>>
       \/ Up /\ w \notin declared /\ Refuse(w)
       \/ ~Up /\ UNCHANGED <<broker, links>>
  /\ UNCHANGED <<manager, worker>>

Consume(c) ==
  /\ At(c, "consume")
  /\ Send(c)
  /\ LET w == who[c] IN
       \/ /\ Up /\ w \in declared
          /\ consumer' = [consumer EXCEPT ![c] = channel]
          /\ limit' = [limit EXCEPT ![c] = prefetch[channel]]
          /\ UNCHANGED <<declared, bound, refused, links>>
       \/ Up /\ w \notin declared /\ Refuse(w)
       \/ ~Up /\ UNCHANGED <<broker, links>>
  /\ UNCHANGED <<manager, worker>>

\* Mutant: cancels nothing.
CancelsNothing(w) == consumer

\* basic.cancel ends the consumer with the worker's tag, if it is on this channel.
Cancels(w) ==
  [c \in Call |-> IF c = consumerTag[w] /\ consumer[c] = channel THEN None ELSE consumer[c]]

\* The tag is still there: whoever waits for a channel gets it in the same turn.
Cancel(c) ==
  /\ At(c, "cancel")
  /\ Send(c)
  /\ IF Up THEN SetConsumers(Cancels(who[c])) ELSE UNCHANGED <<declared, bound, consumer, limit>>
  /\ UNCHANGED <<refused, links, manager, worker>>

Issue(c) ==
  \/ Connected(c) \/ SetPrefetch(c) \/ AssertExchange(c) \/ AssertQueue(c) \/ Snapshot(c)
  \/ BindQueue(c) \/ Consume(c) \/ Cancel(c)

-----------------------------------------------------------------------------
(* Replies.                                                                *)

\* The finally of stop(), for the workers in W.
Forgotten(W) ==
  /\ consumerTag' = [w \in Worker |-> IF w \in W THEN None ELSE consumerTag[w]]
  /\ isConsuming' = [w \in Worker |-> isConsuming[w] /\ w \notin W]
  /\ UNCHANGED <<handlers, boundEvents>>

\* start() and addHandler() reject; stop() logs the error and is done.
Fail(F) ==
  /\ pc' = [c \in Call |-> IF c \notin F THEN pc[c] ELSE IF pc[c] = "cancel" THEN "done" ELSE "failed"]
  /\ on' = [c \in Call |-> IF c \in F THEN None ELSE on[c]]
  /\ Forgotten({who[c] : c \in {f \in F : pc[f] = "cancel"}})
  /\ todo' = [c \in Call |-> IF c \in F /\ pc[c] # "add" THEN {} ELSE todo[c]]
  /\ UNCHANGED who

Answered(c, stage) == pc[c] = stage /\ on[c] # None /\ chan[on[c]] = "up"
Resume(c, stage) ==
  /\ pc' = [pc EXCEPT ![c] = stage]
  /\ on' = [on EXCEPT ![c] = None]
  /\ UNCHANGED <<who, todo, broker, links, connection, channel>>

PrefetchSet(c) ==
  /\ Answered(c, "prefetch")
  /\ Resume(c, "exchange")
  /\ UNCHANGED <<setup, worker>>

ExchangeAsserted(c) ==
  /\ Answered(c, "exchange")
  /\ Resume(c, "queue")
  /\ setup' = setup \cup {exchange}
  /\ UNCHANGED worker

QueueAsserted(c) ==
  /\ Answered(c, "queue")
  /\ Resume(c, "snapshot")
  /\ setup' = setup \cup {who[c]}
  /\ UNCHANGED worker

\* The loop of initialize() goes on with the next event, and start() with
\* consume() after the last; addHandler() returns.
QueueBound(c) ==
  LET w == who[c]
      left == todo[c] \ {Binding(c)}
  IN  /\ Answered(c, "bind") \/ Answered(c, "add")
      /\ boundEvents' = [boundEvents EXCEPT ![w] = @ \cup {Binding(c)}]
      /\ todo' = [todo EXCEPT ![c] = left]
      /\ pc' = [pc EXCEPT ![c] = IF @ = "add" THEN "done" ELSE IF left = {} THEN "consume" ELSE "bind"]
      /\ on' = [on EXCEPT ![c] = None]
      /\ UNCHANGED <<who, broker, links, manager, handlers, isConsuming, consumerTag>>

Started(c) ==
  /\ Answered(c, "consume")
  /\ Resume(c, "done")
  /\ consumerTag' = [consumerTag EXCEPT ![who[c]] = c]
  /\ isConsuming' = [isConsuming EXCEPT ![who[c]] = TRUE]
  /\ UNCHANGED <<setup, handlers, boundEvents>>

Stopped(c) ==
  /\ Answered(c, "cancel")
  /\ Resume(c, "done")
  /\ Forgotten({who[c]})
  /\ UNCHANGED setup

Reply(c) ==
  \/ PrefetchSet(c) \/ ExchangeAsserted(c) \/ QueueAsserted(c) \/ QueueBound(c)
  \/ Started(c) \/ Stopped(c)

-----------------------------------------------------------------------------
(* Connections and channels.                                               *)

\* Mutant: nobody is told.
ToldNobody(g) == {}

\* The calls that await a reply on channel g.
Told(g) == {c \in Call : on[c] = g /\ on[c] # None}

\* connect() on behalf of the calls that wait for a channel, which the reconnection
\* loop may have called.  The connection of the channel before may still be open.
Dial ==
  /\ \E c \in Call : Waiting(c)
  /\ \E g \in Fresh({h \in Chan : chan[h] = "new"}) :
       /\ chan' = [chan EXCEPT ![g] = "up"]
       /\ connections' = connections \cup {g}
       /\ connection' = g /\ channel' = g
  /\ UNCHANGED <<broker, prefetch, setup, worker, calls>>

\* A connection on which createChannel() fails stays open too: its end does what
\* that of a replaced one does.
DialFails ==
  /\ \E c \in Call : Waiting(c)
  /\ connection' = None
  /\ Fail({c \in Call : Waiting(c)})
  /\ UNCHANGED <<broker, links, channel, setup>>

Break(g) ==
  /\ chan[g] = "up"
  /\ chan' = [chan EXCEPT ![g] = "broken"]
  /\ SetConsumers(NoneOn(g))
  /\ UNCHANGED <<refused, prefetch, connections, manager, worker, calls>>

\* Mutant: only the handlers of the connection clear the field.
KeptChannel(wholeConnection) == IF wholeConnection THEN None ELSE channel

ChannelAfter(wholeConnection) == None

\* The client sees channel g end, its connection goes on.
ChannelEnds(g) ==
  /\ chan[g] = "broken"
  /\ chan' = [chan EXCEPT ![g] = "closed"]
  /\ channel' = ChannelAfter(FALSE)
  /\ Fail(Told(g))
  /\ UNCHANGED <<broker, prefetch, connections, connection, setup>>

\* It sees connection g end, in use or replaced, with its channel if that was open.
\* Whatever the manager has by now is dropped.
ConnectionEnds(g) ==
  /\ g \in connections /\ chan[g] # "up"
  /\ chan' = [chan EXCEPT ![g] = "closed"]
  /\ connections' = connections \ {g}
  /\ connection' = None /\ channel' = ChannelAfter(TRUE) /\ setup' = {}
  /\ Fail(Told(g))
  /\ UNCHANGED <<broker, prefetch>>

\* Worker.close() after its stop(), or Publisher.close(): ConnectionManager's
\* close(), which everyone else who uses the manager is not asked about, and which
\* closes what the manager has and nothing it had before.
Close ==
  /\ chan' = [g \in Chan |-> IF g = connection THEN "closed" ELSE chan[g]]
  /\ connections' = connections \ {connection}
  /\ connection' = None /\ channel' = None /\ setup' = {}
  /\ SetConsumers(NoneOn(connection))
  /\ Fail(Told(connection))
  /\ UNCHANGED <<refused, prefetch>>

-----------------------------------------------------------------------------

Outcome == Dial \/ DialFails
Application(w) ==
  \/ Start(w) \/ Stop(w)
  \/ \E e \in Event : <<w, e>> \in Changing /\ (AddHandler(w, e) \/ RemoveHandler(w, e))
End(g) == ChannelEnds(g) \/ ConnectionEnds(g)
Others ==
  \/ \E w \in Worker : Application(w)
  \/ \E c \in Call : Reply(c)
  \/ Outcome \/ Close
  \/ \E g \in Chan : Break(g) \/ End(g)

Next == (\E c \in Call : Issue(c)) \/ (Quiet /\ Others)

Spec == Init /\ [][Next]_vars

\* Turns run, requests are answered or their channel ends, and dialling ends; a
\* connection that works need not end.
FairSpec ==
  /\ Spec
  /\ WF_vars(\E c \in Call : Issue(c))
  /\ WF_vars(Quiet /\ \E c \in Call : Reply(c))
  /\ WF_vars(Quiet /\ Outcome)
  /\ WF_vars(Quiet /\ \E g \in Chan : chan[g] = "broken" /\ End(g))

-----------------------------------------------------------------------------
(* What the workers promise.                                               *)

\* connection.ts:320, 355: the caches never make a start() skip a declaration the
\* broker needs, whatever channels were lost before or after which reply: no
\* request of a worker is refused, unless its queue deletes itself.
NeverRefused == refused \subseteq AutoDelete

\* worker.ts:440-457: an orderly worker whose last call was a stop() has no consumer on
\* the manager's channel, though stop() cancels on the channel the manager has by
\* then.  One that is left, and goes on to get messages, is on a channel the manager
\* dropped while it was open (connection.ts:215-221).
StoppedMeansStopped ==
  \A w \in Worker \ Overlapping : ~Busy(w) /\ consumerTag[w] = None =>
    \A c \in Consumers(w) : consumer[c] # channel /\ consumer[c] \in connections

\* worker.ts:117-140, 185-188: an orderly worker that consumes has a binding for each
\* of its handlers, whenever they were added, removed and added again, unless the
\* addHandler() that should have bound it has rejected.  A queue that deletes itself
\* takes its bindings along (worker.ts:184), and is not spoken of.
Rejected(w) == {e \in Event : \E c \in Call : who[c] = w /\ pc[c] = "failed" /\ e \in todo[c]}
HandlersBound ==
  \A w \in Worker \ (AutoDelete \cup Overlapping) : isConsuming[w] /\ ~Busy(w) =>
    \A e \in handlers[w] \ Rejected(w) : <<w, e>> \in bound

\* usage.md, "prefetch": each consumer has the limit of its own worker, which must
\* have been set last on the very channel the consumer was registered on.
OwnPrefetch ==
  \A c \in Call : consumer[c] # None => limit[c] = Prefetch[who[c]]

Provider == INSTANCE ChannelProvider WITH
  state <- [g \in Chan |-> CASE chan[g] = "new" -> "new"
                            [] chan[g] \in {"up", "broken"} -> "open"
                            [] OTHER -> "closed"]

\* connection.ts:296-306, 462-532: close() included, a worker is offered no channel
\* that the client has seen end, and none a second time.
ProviderSpec == Provider!Spec

\* worker.ts:162-189, 440-457: every call returns or rejects (there are finitely
\* many), also the one that waits while another one loses the channel for both.
CallsSettle == <>[](\A c \in Call : ~Active(c))
=============================================================================
