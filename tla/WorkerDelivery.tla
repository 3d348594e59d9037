--------------------------- MODULE WorkerDelivery ---------------------------
(***************************************************************************)
(* The consumer callback of a QueueCraft Worker (src/src/worker.ts):       *)
(* what happens to a message from the moment the broker pushes it until it *)
(* is settled, across handler calls, retries, dead-lettering and the loss  *)
(* and replacement of AMQP channels.                                       *)
(*                                                                         *)
(* The broker keeps copies of messages; every publish makes a new copy.  A *)
(* delivery (a Tag) is one run of the callback for one copy on one         *)
(* channel.  A frame written to a channel whose link is up takes effect at *)
(* once; when the broker has dropped the link but the client has not been  *)
(* told yet, frames are lost silently; on a channel the client knows to be *)
(* closed, ack, nack and publish throw.  JavaScript runs to completion: a  *)
(* continuation that does several things without awaiting keeps the turn   *)
(* until it is through, and only the broker moves in between.              *)
(*                                                                         *)
(* A republication swallows every error, also one that JSON.stringify or   *)
(* publish throws on an open channel, and the ack that follows gives the   *)
(* message up.  The history variable unsent records these deliveries.      *)
(***************************************************************************)
EXTENDS Integers, FiniteSets

CONSTANTS
  Msg,          \* messages an application publishes
  Copy,         \* copies the broker may ever hold (bounds the publishes)
  Tag,          \* deliveries (bounds the runs of the callback)
  Chan,         \* AMQP channels opened over time (bounds the reconnections)
  Event,        \* routing keys
  EventOf,      \* the routing key of each message
  Malformed,    \* the messages whose body JSON.parse rejects
  MaxRetries, InitialDelay, BackoffFactor, MaxDelay,   \* RetryOptions
  Prefetch,     \* WorkerOptions.prefetch, 0 when it is not set
  Controls,     \* the metadata functions handlers use
  Undisciplined,     \* may a handler use several, or throw after using one?
  LinkFaults,        \* may the broker or the network drop a channel?
  LeakedConnections, \* may the manager forget a channel that is still open?
  None

ASSUME DeliveryAssumption ==
  /\ EventOf \in [Msg -> Event]
  /\ Malformed \subseteq Msg
  /\ MaxRetries \in Nat /\ InitialDelay \in Nat /\ BackoffFactor \in Nat \ {0}
  /\ MaxDelay \in Nat /\ Prefetch \in Nat
  /\ Controls \subseteq {"nack", "requeue", "deadLetter"}
  /\ Undisciplined \in BOOLEAN /\ LinkFaults \in BOOLEAN
  /\ LeakedConnections \in BOOLEAN
  /\ None \notin Msg \cup Copy \cup Chan
  /\ None \notin Tag \X {"callback", "manual"}

VARIABLES
  \* the broker
  place,     \* where each copy is
  msg,       \* the message a copy carries
  retry,     \* its x-retry-count header
  link,      \* each channel, as the broker and the client see it
  unsettled, \* deliveries the broker awaits an ack or nack for
  consuming, \* channels on which this worker has a consumer
  \* the client
  cur,       \* ConnectionManager.channel
  isConsuming,     \* start() has returned and stop() has not
  handlers,  \* events with a handler in config.handlers
  copyOf, chanOf,  \* the copy and the channel of each delivery
  pc,        \* how far the callback of each delivery is
  calls,     \* metadata functions its handler has called
  outcome,   \* how its handler ended
  step, via, \* progress of a republication, and the channel it uses
  turn       \* the continuation that runs now, None between turns
VARIABLE
  \* history, read by the properties and by no action
  unsent     \* why the copy that should replace a delivery's never arrived

broker == <<place, msg, retry, link, unsettled, consuming>>
progress == <<copyOf, chanOf, pc, calls, outcome, step, via, unsent>>
client == <<cur, isConsuming, handlers, progress, turn>>
vars   == <<broker, client>>

\* A delivery may republish from the callback itself and, concurrently, from
\* the metadata.deadLetter() its handler called.
Task == Tag \X {"callback", "manual"}
Callback(t) == <<t, "callback">>
Manual(t)   == <<t, "manual">>

Place    == {"unborn", "ready", "unacked", "delay", "dlq", "gone"}
LinkView == {"new", "up", "broken", "error", "closed"}
Control  == {"idle", "received", "handler", "noHandler", "retry", "dead", "done", "failed",
             "unhandled"}
Outcome  == {"none", "succeeded", "answered", "rejected"}
Step     == {"none", "channel", "declare", "publish", "ack", "failed"}

TypeOK ==
  /\ place \in [Copy -> Place]
  /\ msg \in [Copy -> Msg \cup {None}]
  /\ retry \in [Copy -> Nat]
  /\ link \in [Chan -> LinkView]
  /\ unsettled \subseteq Tag
  /\ consuming \subseteq Chan
  /\ cur \in Chan \cup {None}
  /\ isConsuming \in BOOLEAN
  /\ handlers \subseteq Event
  /\ copyOf \in [Tag -> Copy \cup {None}]
  /\ chanOf \in [Tag -> Chan \cup {None}]
  /\ pc \in [Tag -> Control]
  /\ calls \in [Tag -> SUBSET {"nack", "requeue", "deadLetter"}]
  /\ outcome \in [Tag -> Outcome]
  /\ step \in [Task -> Step]
  /\ via \in [Task -> Chan \cup {None}]
  /\ turn \in Task \cup {None}
  /\ unsent \in [Tag -> {"no", "threw", "noChannel"}]

Init ==
  /\ place = [c \in Copy |-> "unborn"]
  /\ msg = [c \in Copy |-> None]
  /\ retry = [c \in Copy |-> 0]
  /\ link = [g \in Chan |-> "new"]
  /\ unsettled = {}
  /\ consuming = {}
  /\ cur = None
  /\ isConsuming = FALSE
  /\ handlers = Event
  /\ copyOf = [t \in Tag |-> None]
  /\ chanOf = [t \in Tag |-> None]
  /\ pc = [t \in Tag |-> "idle"]
  /\ calls = [t \in Tag |-> {}]
  /\ outcome = [t \in Tag |-> "none"]
  /\ step = [k \in Task |-> "none"]
  /\ via = [k \in Task |-> None]
  /\ turn = None
  /\ unsent = [t \in Tag |-> "no"]

-----------------------------------------------------------------------------
(* The broker: frames that reach it, and channels it drops.                *)

\* Identities are handed out in one order; which one does not matter.
Fresh(S) == IF S = {} THEN {} ELSE {CHOOSE x \in S : TRUE}
NewCopies   == Fresh({c \in Copy : place[c] = "unborn"})
NewChannels == Fresh({g \in Chan : link[g] = "new"})
NewTags     == Fresh({t \in Tag : pc[t] = "idle"})

Open(g)   == link[g] \in {"up", "broken", "error"}    \* as the client sees it
HeldOn(g) == {copyOf[t] : t \in {u \in unsettled : chanOf[u] = g}}

\* The broker drops channel g and puts back what was delivered on it.
Drop(g, why) ==
  /\ link' = [link EXCEPT ![g] = why]
  /\ place' = [c \in Copy |-> IF c \in HeldOn(g) THEN "ready" ELSE place[c]]
  /\ unsettled' = {t \in unsettled : chanOf[t] # g}

\* An ack or nack of delivery t on its own channel.  Settling a delivery a
\* second time is a protocol error: the broker closes the channel.
Settle(t, to) ==
  \/ /\ link[chanOf[t]] = "up"
     /\ t \in unsettled
     /\ place' = [place EXCEPT ![copyOf[t]] = to]
     /\ unsettled' = unsettled \ {t}
     /\ UNCHANGED link
  \/ /\ link[chanOf[t]] = "up"
     /\ t \notin unsettled
     /\ Drop(chanOf[t], "error")
  \/ /\ link[chanOf[t]] \in {"broken", "error"}
     /\ UNCHANGED <<place, unsettled, link>>

\* A publish on channel g of a new copy; nothing arrives if the link is down.
Send(g, m, n, to) ==
  \/ /\ link[g] = "up"
     /\ \E c \in NewCopies :
          /\ place' = [place EXCEPT ![c] = to]
          /\ msg' = [msg EXCEPT ![c] = m]
          /\ retry' = [retry EXCEPT ![c] = n]
  \/ /\ link[g] # "up"
     /\ UNCHANGED <<place, msg, retry>>

\* An application publishes m to the exchange the worker's queue is bound to.
Publish(m) ==
  /\ m \notin {msg[c] : c \in Copy}
  /\ \E c \in NewCopies :
       /\ place' = [place EXCEPT ![c] = "ready"]
       /\ msg' = [msg EXCEPT ![c] = m]
  /\ UNCHANGED <<retry, link, unsettled, consuming, client>>

\* The per-message TTL runs out in the delay queue, whose dead-letter exchange
\* is the main exchange.
Expire(c) ==
  /\ place[c] = "delay"
  /\ place' = [place EXCEPT ![c] = "ready"]
  /\ UNCHANGED <<msg, retry, link, unsettled, consuming, client>>

BreakLink(g) ==
  /\ LinkFaults
  /\ link[g] = "up"
  /\ Drop(g, "broken")
  /\ UNCHANGED <<msg, retry, consuming, client>>

-----------------------------------------------------------------------------
(* The connection manager, as far as a worker sees it.                     *)

\* Mutant: every caller gets a connection of its own.
GetChannelAlwaysNew(g) ==
  /\ g \in NewChannels
  /\ link' = [link EXCEPT ![g] = "up"]
  /\ cur' = g

\* getChannel() resolves to g: the current channel or, if there is none, the
\* channel of a fresh connection.
GetChannel(g) ==
  \/ /\ cur # None
     /\ g = cur
     /\ UNCHANGED <<cur, link>>
  \/ /\ cur = None
     /\ g \in NewChannels
     /\ link' = [link EXCEPT ![g] = "up"]
     /\ cur' = g

\* Mutant: the close handler leaves the field alone.
KeepsChannel(g) == cur

ChannelAfter(g) == IF cur = g THEN None ELSE cur

\* The 'close' event of a channel the broker has dropped.
ChannelClosed(g) ==
  /\ turn = None
  /\ link[g] \in {"broken", "error"}
  /\ link' = [link EXCEPT ![g] = "closed"]
  /\ cur' = ChannelAfter(g)
  /\ UNCHANGED <<place, msg, retry, unsettled, consuming, isConsuming, handlers,
                 progress, turn>>

\* The reconnect loop succeeds.
Reconnect ==
  /\ turn = None
  /\ cur = None
  /\ \E g \in Chan : link[g] # "new"
  /\ \E g \in Chan : GetChannel(g)
  /\ UNCHANGED <<place, msg, retry, unsettled, consuming, isConsuming, handlers,
                 progress, turn>>

\* A late event of an older connection makes the manager forget its channel.
Forget ==
  /\ LeakedConnections
  /\ turn = None
  /\ cur # None
  /\ cur' = None
  /\ UNCHANGED <<broker, isConsuming, handlers, progress, turn>>

-----------------------------------------------------------------------------
(* The application's calls on the worker.                                  *)

\* start(): declares the topology and registers a consumer on the channel.
Start ==
  /\ turn = None
  /\ \E g \in Chan \ consuming :
       /\ GetChannel(g)
       /\ link'[g] = "up"
       /\ consuming' = consuming \cup {g}
  /\ isConsuming' = TRUE
  /\ UNCHANGED <<place, msg, retry, unsettled, handlers, progress, turn>>

\* stop(): cancels the consumer on the channel the manager has NOW; a failure
\* is logged and the worker forgets its consumer all the same.
Stop ==
  /\ turn = None
  /\ isConsuming
  /\ \/ \E g \in Chan : GetChannel(g) /\ consuming' = consuming \ {g}
     \/ cur = None /\ UNCHANGED <<cur, link, consuming>>
  /\ isConsuming' = FALSE
  /\ UNCHANGED <<place, msg, retry, unsettled, handlers, progress, turn>>

AddHandler(e) ==
  /\ turn = None
  /\ handlers' = handlers \cup {e}
  /\ UNCHANGED <<broker, cur, isConsuming, progress, turn>>

RemoveHandler(e) ==
  /\ turn = None
  /\ handlers' = handlers \ {e}
  /\ UNCHANGED <<broker, cur, isConsuming, progress, turn>>

-----------------------------------------------------------------------------
(* The callback of channel.consume.                                        *)

\* The broker pushes copy c to the consumer on channel g.
Deliver(t, c, g) ==
  /\ t \in NewTags
  /\ place[c] = "ready"
  /\ g \in consuming
  /\ link[g] = "up"
  /\ Prefetch # 0 => Cardinality({u \in unsettled : chanOf[u] = g}) < Prefetch
  /\ place' = [place EXCEPT ![c] = "unacked"]
  /\ unsettled' = unsettled \cup {t}
  /\ copyOf' = [copyOf EXCEPT ![t] = c]
  /\ chanOf' = [chanOf EXCEPT ![t] = g]
  /\ pc' = [pc EXCEPT ![t] = "received"]
  /\ UNCHANGED <<msg, retry, link, consuming, cur, isConsuming, handlers, calls,
                 outcome, step, via, unsent, turn>>

MsgOf(t)   == msg[copyOf[t]]
RetryOf(t) == retry[copyOf[t]]

\* processMessageWithRetry finds a handler for the routing key.
HasHandler(t) == EventOf[MsgOf(t)] \in handlers

\* The callback starts: it discards a body it cannot parse, and otherwise looks
\* the handler up when it is about to call it.
Receive(t) ==
  /\ turn = None
  /\ pc[t] = "received"
  /\ Open(chanOf[t])
  /\ \/ /\ MsgOf(t) \in Malformed
        /\ Settle(t, "gone")
        /\ pc' = [pc EXCEPT ![t] = "done"]
        /\ UNCHANGED step
     \/ /\ MsgOf(t) \notin Malformed
        /\ HasHandler(t)
        /\ pc' = [pc EXCEPT ![t] = "handler"]
        /\ UNCHANGED <<place, unsettled, link, step>>
     \/ /\ MsgOf(t) \notin Malformed
        /\ ~HasHandler(t)
        /\ pc' = [pc EXCEPT ![t] = "noHandler"]
        /\ step' = [step EXCEPT ![Callback(t)] = "channel"]
        /\ UNCHANGED <<place, unsettled, link>>
  /\ UNCHANGED <<msg, retry, consuming, cur, isConsuming, handlers, copyOf,
                 chanOf, calls, outcome, via, unsent, turn>>

\* The handler calls metadata.nack, metadata.requeue or metadata.deadLetter; one
\* that keeps to no discipline calls them again and after it has returned.  Bound:
\* a delivery has one metadata.deadLetter() in progress at a time.
HandlerCalls(t, ctl) ==
  /\ turn = None
  /\ ctl \in Controls
  /\ \/ pc[t] = "handler" /\ calls[t] = {}
     \/ /\ Undisciplined /\ pc[t] # "idle"
        /\ pc[t] = "handler" \/ outcome[t] # "none"
  /\ calls' = [calls EXCEPT ![t] = @ \cup {ctl}]
  /\ \/ /\ ctl \in {"nack", "requeue"}
        /\ Open(chanOf[t])
        /\ Settle(t, IF ctl = "nack" THEN "gone" ELSE "ready")
        /\ UNCHANGED step
     \/ /\ ctl \in {"nack", "requeue"}
        /\ ~Open(chanOf[t])
        /\ step' = [step EXCEPT ![Manual(t)] = IF @ = "none" THEN "failed" ELSE @]
        /\ UNCHANGED <<place, unsettled, link>>
     \/ /\ ctl = "deadLetter"
        /\ step[Manual(t)] \in {"none", "failed"}
        /\ step' = [step EXCEPT ![Manual(t)] = "channel"]
        /\ UNCHANGED <<place, unsettled, link>>
  /\ UNCHANGED <<msg, retry, consuming, cur, isConsuming, handlers, copyOf,
                 chanOf, pc, outcome, via, unsent, turn>>

\* Mutants: an off-by-one in the comparison with maxRetries, either way.
OneMoreRetry(t) == RetryOf(t) <= MaxRetries
OneLessRetry(t) == RetryOf(t) + 1 < MaxRetries

RetriesLeft(t) == RetryOf(t) < MaxRetries

\* The inner catch: one more attempt, or the dead-letter queue.
InnerCatch(t) ==
  /\ pc' = [pc EXCEPT ![t] = IF RetriesLeft(t) THEN "retry" ELSE "dead"]
  /\ step' = [step EXCEPT ![Callback(t)] = "channel"]

\* Delivery t goes to its last ack or nack without a copy to take over from its
\* own, and the broker will honour the answer.
GivesUp(t, why) == unsent' = IF t \in unsettled THEN [unsent EXCEPT ![t] = why] ELSE unsent

\* The outer catch: nack(msg, false, false), which throws on a closed channel.
OuterCatch(t) ==
  /\ step' = [step EXCEPT ![Callback(t)] = "none"]
  /\ GivesUp(t, "noChannel")
  /\ \/ /\ Open(chanOf[t])
        /\ Settle(t, "gone")
        /\ pc' = [pc EXCEPT ![t] = "failed"]
     \/ /\ ~Open(chanOf[t])
        /\ pc' = [pc EXCEPT ![t] = "unhandled"]
        /\ UNCHANGED <<place, unsettled, link>>

\* Mutant: acks without looking at manualAckUsed.
IgnoresManualAck(t) == FALSE

manualAckUsed(t) == calls[t] # {}

\* Mutant: the turn ends without the ack.
NotAcked(t) == UNCHANGED <<place, unsettled, link>>

Acked(t) == Settle(t, "gone")

\* The handler's promise resolves; the ack that follows is inside the try
\* whose catch takes any error for a failure of the handler.
HandlerResolves(t) ==
  /\ turn = None
  /\ pc[t] = "handler"
  /\ Undisciplined \/ step[Manual(t)] = "none"
  /\ outcome' = [outcome EXCEPT ![t] = IF manualAckUsed(t) THEN "answered" ELSE "succeeded"]
  /\ \/ /\ manualAckUsed(t)
        /\ pc' = [pc EXCEPT ![t] = "done"]
        /\ UNCHANGED <<place, unsettled, link, step>>
     \/ /\ ~manualAckUsed(t)
        /\ Open(chanOf[t])
        /\ Acked(t)
        /\ pc' = [pc EXCEPT ![t] = "done"]
        /\ UNCHANGED step
     \/ /\ ~manualAckUsed(t)
        /\ ~Open(chanOf[t])
        /\ InnerCatch(t)
        /\ UNCHANGED <<place, unsettled, link>>
  /\ UNCHANGED <<msg, retry, consuming, cur, isConsuming, handlers, copyOf,
                 chanOf, calls, via, unsent, turn>>

HandlerRejects(t) ==
  /\ turn = None
  /\ pc[t] = "handler"
  /\ Undisciplined \/ calls[t] = {} \/ step[Manual(t)] = "failed"
  /\ outcome' = [outcome EXCEPT ![t] = "rejected"]
  /\ InnerCatch(t)
  /\ UNCHANGED <<place, unsettled, link, msg, retry, consuming, cur,
                 isConsuming, handlers, copyOf, chanOf, calls, via, unsent, turn>>

-----------------------------------------------------------------------------
(* requeueWithRetryCount and sendToDeadLetterQueue, and the ack after them. *)

Retrying(k)  == k[2] = "callback" /\ pc[k[1]] = "retry"
DelayOf(r)   == LET d == InitialDelay * BackoffFactor ^ (r - 1)
                IN  IF d < MaxDelay THEN d ELSE MaxDelay
\* Mutant: the header counts each retry twice.
CountsTwice(k) == RetryOf(k[1]) + (IF Retrying(k) THEN 2 ELSE 0)

\* Mutant: a dead letter gives an attempt back.
GivesBack(k) == RetryOf(k[1]) + (IF Retrying(k) THEN 1 ELSE -1)

NextRetry(k) == RetryOf(k[1]) + (IF Retrying(k) THEN 1 ELSE 0)
Delayed(k)   == DelayOf(NextRetry(k)) > 0

\* Mutant: the dead-letter queue is not bound, and the exchange drops the copy.
Unbound == "gone"

DeadLetterQueue == "dlq"

\* Where the republished copy goes.
Target(k) == IF ~Retrying(k) THEN DeadLetterQueue ELSE IF Delayed(k) THEN "delay" ELSE "ready"

\* An exception of task k reaches the code that awaits it.
Throw(k) ==
  \/ /\ k[2] = "manual"
     /\ step' = [step EXCEPT ![k] = "failed"]
     /\ UNCHANGED <<place, unsettled, link, pc, unsent>>
  \/ /\ k[2] = "callback"
     /\ pc[k[1]] = "noHandler"
     /\ InnerCatch(k[1])
     /\ UNCHANGED <<place, unsettled, link, unsent>>
  \/ /\ k[2] = "callback"
     /\ pc[k[1]] # "noHandler"
     /\ OuterCatch(k[1])

\* await getChannel(): with a channel the declarations are sent; an immediate
\* retry needs none and goes on to publish in the same turn.
GetsChannel(k) ==
  /\ turn = None
  /\ step[k] = "channel"
  /\ \E g \in Chan :
       /\ GetChannel(g)
       /\ via' = [via EXCEPT ![k] = g]
  /\ IF Target(k) = "ready"
       THEN /\ step' = [step EXCEPT ![k] = "publish"]
            /\ turn' = k
       ELSE /\ step' = [step EXCEPT ![k] = "declare"]
            /\ UNCHANGED turn
  /\ UNCHANGED <<place, msg, retry, unsettled, consuming, isConsuming, handlers,
                 copyOf, chanOf, pc, calls, outcome, unsent>>

\* await getChannel() with no channel, and the connection attempt fails.
ConnectFails(k) ==
  /\ LinkFaults
  /\ turn = None
  /\ step[k] = "channel"
  /\ cur = None
  /\ Throw(k)
  /\ UNCHANGED <<msg, retry, consuming, cur, isConsuming, handlers, copyOf,
                 chanOf, calls, outcome, via, turn>>

\* The declarations were answered, or none were needed: publish.
Publishing(k) ==
  \/ step[k] = "declare" /\ turn = None
  \/ step[k] = "publish" /\ turn = k

Republish(k) ==
  /\ Publishing(k)
  /\ Open(via[k])
  /\ Send(via[k], MsgOf(k[1]), NextRetry(k), Target(k))
  /\ IF link[via[k]] = "up" THEN UNCHANGED unsent ELSE GivesUp(k[1], "noChannel")
  /\ step' = [step EXCEPT ![k] = "ack"]
  /\ turn' = k
  /\ UNCHANGED <<link, unsettled, consuming, cur, isConsuming, handlers, copyOf,
                 chanOf, pc, calls, outcome, via>>

\* An exception in the try of the republication: a declaration whose channel
\* closed, or, on any channel, a payload JSON.stringify rejects or headers the
\* client cannot encode.  It is logged and swallowed; the caller goes on to its ack.
RepublishFails(k) ==
  /\ Publishing(k)
  /\ GivesUp(k[1], IF Open(via[k]) THEN "threw" ELSE "noChannel")
  /\ step' = [step EXCEPT ![k] = "ack"]
  /\ turn' = k
  /\ UNCHANGED <<broker, cur, isConsuming, handlers, copyOf, chanOf, pc, calls,
                 outcome, via>>

\* How the callback ends: after the inner catch, or in the inner try.
Ended(p) == IF p = "noHandler" THEN "done" ELSE "failed"

\* channel.ack(msg) on the channel the message came from.  After the dead
\* letter of an event without a handler it is the ack of the inner try.
Acks(k) ==
  /\ turn = k
  /\ step[k] = "ack"
  /\ turn' = None
  /\ \/ /\ Open(chanOf[k[1]])
        /\ Acked(k[1])
        /\ step' = [step EXCEPT ![k] = "none"]
        /\ pc' = IF k[2] = "callback" THEN [pc EXCEPT ![k[1]] = Ended(@)] ELSE pc
        /\ UNCHANGED unsent
     \/ /\ ~Open(chanOf[k[1]])
        /\ Throw(k)
  /\ UNCHANGED <<msg, retry, consuming, cur, isConsuming, handlers, copyOf,
                 chanOf, calls, outcome, via>>

TaskStep(k) ==
  GetsChannel(k) \/ ConnectFails(k) \/ Republish(k) \/ RepublishFails(k) \/ Acks(k)

Next ==
  \/ \E m \in Msg : Publish(m)
  \/ \E c \in Copy : Expire(c)
  \/ \E g \in Chan : BreakLink(g)
  \/ \E g \in Chan : ChannelClosed(g)
  \/ Reconnect
  \/ Forget
  \/ Start
  \/ Stop
  \/ \E e \in Event : AddHandler(e)
  \/ \E e \in Event : RemoveHandler(e)
  \/ \E t \in Tag, c \in Copy, g \in Chan : Deliver(t, c, g)
  \/ \E t \in Tag : Receive(t)
  \/ \E t \in Tag, ctl \in Controls : HandlerCalls(t, ctl)
  \/ \E t \in Tag : HandlerResolves(t)
  \/ \E t \in Tag : HandlerRejects(t)
  \/ \E k \in Task : TaskStep(k)

Spec == Init /\ [][Next]_vars

\* The broker pushes what it can and its TTLs run out; the event loop runs
\* every continuation; handlers return; a lost channel is noticed.
Fairness ==
  /\ \A c \in Copy : WF_vars(Expire(c))
  /\ \A c \in Copy : WF_vars(\E t \in Tag, g \in Chan : Deliver(t, c, g))
  /\ \A g \in Chan : WF_vars(ChannelClosed(g))
  /\ \A t \in Tag : WF_vars(Receive(t))
  /\ \A t \in Tag : WF_vars(HandlerResolves(t) \/ HandlerRejects(t))
  /\ \A k \in Task : WF_vars(TaskStep(k))

FairSpec == Spec /\ Fairness

-----------------------------------------------------------------------------
(* What the worker promises.                                               *)

Live(c)      == place[c] \in {"ready", "unacked", "delay", "dlq"}
Published(m) == \E c \in Copy : msg[c] = m
Held(m) == \E c \in Copy : msg[c] = m /\ Live(c)
DeliveryOf(m) == {t \in Tag : pc[t] # "idle" /\ MsgOf(t) = m}

\* Processing of m came to an end: a handler succeeded with it, a handler
\* discarded it, or its body could not be parsed.
Settled(m) ==
  \E t \in DeliveryOf(m) :
    \/ outcome[t] = "succeeded"
    \/ "nack" \in calls[t]
    \/ m \in Malformed

\* A delivery of m was answered though no copy had taken over from its own.
GivenUp(m) == \E t \in DeliveryOf(m) : unsent[t] # "no"

\* At-least-once (docs/architecture.md, the life of a message), as far as the code
\* keeps it: whatever breaks and whoever retries, a published message is settled,
\* or the broker holds a copy of it, or a delivery of it gave it up when its
\* republication failed (worker.ts:387, 431) or no channel could be had for it.
NothingLost ==
  \A m \in Msg : Published(m) => Settled(m) \/ Held(m) \/ GivenUp(m)

\* While the manager keeps one connection, a channel that breaks loses nothing
\* at any point between the republication and its ack (worker.ts:263-267): the one
\* way to lose a message is an exception of the publish itself on an open channel.
OnlyThrowsLose ==
  \A m \in Msg : Published(m) =>
    Settled(m) \/ Held(m) \/ \E t \in DeliveryOf(m) : unsent[t] = "threw"

\* worker.ts:257-268, 337: the x-retry-count of a copy never exceeds maxRetries
\* and never exceeds the deliveries of the message whose callback went through its
\* inner catch, however often connection losses redeliver it: a delivery that
\* succeeded, was nacked or requeued, or was cut off does not count.
Caught == {"retry", "dead", "failed", "unhandled"}
FailedDeliveries(m) == {t \in DeliveryOf(m) : pc[t] \in Caught}
RetryCountsFailures ==
  \A c \in Copy : msg[c] # None =>
    /\ retry[c] <= MaxRetries
    /\ retry[c] <= Cardinality(FailedDeliveries(msg[c]))

\* worker.ts:257-268, 299-311: a message is in the dead-letter queue only when
\* its retries are used up, a handler asked for it, or no handler was found.
DeadLettersJustified ==
  \A c \in Copy : place[c] = "dlq" =>
    \/ retry[c] = MaxRetries
    \/ \E t \in DeliveryOf(msg[c]) :
          \/ "deadLetter" \in calls[t]
          \/ pc[t] \notin {"received", "handler"} /\ outcome[t] = "none"

\* A worker whose handlers use at most one metadata function each, and do not
\* throw after it worked, never settles a delivery twice: no channel is closed
\* by the broker for an unknown delivery tag, on any path through the catches.
NoProtocolError == \A g \in Chan : link[g] # "error"

\* Without link faults the worker never multiplies a message: between turns the
\* broker holds at most one live copy of it (publish and ack are one turn).
NoDuplicates ==
  turn = None => \A m \in Msg : Cardinality({c \in Copy : msg[c] = m /\ Live(c)}) <= 1

\* Without link faults a message reaches the worker at most maxRetries + 1 times
\* (docs/architecture.md "Retry Timing"), if no handler asks for it again.
AttemptsBounded == \A m \in Msg : Cardinality(DeliveryOf(m)) <= MaxRetries + 1

\* Every published message comes to rest in the end, settled, dead-lettered or
\* given up, with no copy in a queue or delay queue, or the application stopped
\* the worker.
AtRest(m) ==
  /\ turn = None
  /\ \A c \in Copy : msg[c] = m => place[c] \in {"gone", "dlq"}
EventuallySettled ==
  \A m \in Msg : Published(m) ~> (AtRest(m) \/ ~isConsuming)

-----------------------------------------------------------------------------
(* The abstract specifications this one implements.                        *)

StatusOf(m) ==
  IF ~Published(m) THEN "unpublished"
  ELSE IF Settled(m) THEN "settled"
  ELSE IF GivenUp(m) THEN "givenUp"
  ELSE IF Held(m) THEN "held" ELSE "lost"

Contract == INSTANCE AtLeastOnce WITH status <- [m \in Msg |-> StatusOf(m)]
Provider == INSTANCE ChannelProvider WITH
  channel <- cur,
  state <- [g \in Chan |-> CASE link[g] = "new" -> "new" [] Open(g) -> "open" [] OTHER -> "closed"]

\* worker.ts:251-268: a step of the worker or of the broker never loses an
\* unsettled message except by giving it up, and never makes a settled one
\* unsettled.
AtLeastOnceSpec == Contract!Spec

\* connection.ts:296-306: the channels this module hands out are those the manager
\* may hand out, also when it forgets one that is still open.
ProviderSpec == Provider!Spec

-----------------------------------------------------------------------------
(* Why nothing is lost: the parts of an inductive invariant.               *)

\* A delivery in progress refers to a copy and a channel that exist.
DeliveriesKnown ==
  \A t \in Tag :
    IF pc[t] = "idle"
      THEN /\ t \notin unsettled
           /\ step[Callback(t)] = "none" /\ step[Manual(t)] = "none"
      ELSE /\ copyOf[t] \in Copy /\ place[copyOf[t]] # "unborn"
           /\ chanOf[t] \in Chan /\ link[chanOf[t]] # "new"

\* What the handler comes to is known only when it has returned.
OutcomeAfterHandler ==
  \A t \in Tag : pc[t] \in {"idle", "received", "handler"} => outcome[t] = "none"

\* The broker's books: unacked copies and unsettled deliveries correspond.
HeldOnce ==
  /\ \A t \in unsettled : place[copyOf[t]] = "unacked" /\ link[chanOf[t]] = "up"
  /\ \A t, u \in unsettled : copyOf[t] = copyOf[u] => t = u
  /\ \A c \in Copy : place[c] = "unacked" => \E t \in unsettled : copyOf[t] = c

\* The manager knows every channel the client may still write to.
SingleConnection == \A g \in Chan : Open(g) => g = cur

\* A republication whose ack can still reach the broker uses the ack's channel.
SameChannel ==
  \A k \in Task : step[k] \in {"declare", "publish", "ack"} /\ Open(chanOf[k[1]])
                    => via[k] = chanOf[k[1]]

\* A copy that no ack under way can take from the broker.
Acking(t) == step[Callback(t)] = "ack" \/ step[Manual(t)] = "ack"
Safe(c) ==
  \/ place[c] \in {"ready", "delay", "dlq"}
  \/ place[c] = "unacked" /\ \A t \in unsettled : copyOf[t] = c => ~Acking(t)
Carried ==
  \A m \in Msg : Published(m) =>
    Settled(m) \/ GivenUp(m) \/ \E c \in Copy : msg[c] = m /\ Safe(c)

\* The order "republish, then ack" leaves a safe copy of each message that was not
\* given up: inductive, whatever breaks, leaks or throws.
DeliveryInv ==
  /\ TypeOK /\ DeliveriesKnown /\ OutcomeAfterHandler /\ HeldOnce /\ Carried

\* While the manager keeps one connection, republication and ack share a channel,
\* so that no delivery whose ack the broker will honour is without one.
ConnectionInv ==
  /\ DeliveryInv /\ SingleConnection /\ SameChannel
  /\ \A t \in Tag : unsent[t] # "noChannel"

-----------------------------------------------------------------------------
(* Why retries are counted right and dead letters justified.               *)

\* Every attempt a header counts is one more delivery that went through the inner
\* catch: for each smaller count one of a copy with that count has.
AttemptsBacked ==
  \A c \in Copy :
    /\ place[c] = "unborn" => retry[c] = 0
    /\ retry[c] <= MaxRetries
    /\ \A n \in 0..(retry[c] - 1) : \E t \in FailedDeliveries(msg[c]) : RetryOf(t) = n

\* The inner catch has compared the header with maxRetries.
CatchDecided ==
  \A t \in Tag : /\ pc[t] = "retry" => RetryOf(t) < MaxRetries
                 /\ pc[t] = "dead" => RetryOf(t) = MaxRetries

\* The inner catch runs because the handler threw, because the ack of one that
\* succeeded threw on a closed channel, or because there was no handler; never
\* after a handler that answered for itself.
CatchReasons ==
  \A t \in Tag : pc[t] \in Caught =>
    \/ outcome[t] \in {"rejected", "none"}
    \/ outcome[t] = "succeeded" /\ link[chanOf[t]] = "closed"

\* A republication is under way for one of three reasons: there is no handler,
\* the handler failed, or the handler asked for it.
RepublishReasons ==
  \A t \in Tag :
    /\ pc[t] = "noHandler" => outcome[t] = "none"
    /\ step[Callback(t)] # "none" => pc[t] \in {"noHandler", "retry", "dead"}
    /\ step[Manual(t)] # "none" => calls[t] # {}
    /\ step[Manual(t)] \notin {"none", "failed"} => "deadLetter" \in calls[t]

\* Retry counts are backed by the inner catch and dead letters have a reason
\* because every republication had one: inductive, whatever the manager leaks,
\* the broker drops and the handlers call.
RetryInv ==
  /\ TypeOK /\ DeliveriesKnown /\ OutcomeAfterHandler
  /\ AttemptsBacked /\ CatchDecided /\ CatchReasons /\ RepublishReasons
  /\ DeadLettersJustified

-----------------------------------------------------------------------------
(* Why no delivery is settled twice.                                       *)

\* The callback has yet to ack or nack the delivery, or left that to a
\* metadata.deadLetter() in progress, or that failed.
Owing(t) ==
  \/ pc[t] \in {"received", "noHandler", "retry", "dead"}
  \/ pc[t] = "handler" /\ (calls[t] = {} \/ step[Manual(t)] # "none")

\* What the worker still owes, the broker still waits for, unless it has dropped
\* the channel; and a disciplined handler outlives its metadata.deadLetter().
AnswersOwed ==
  \A t \in Tag :
    /\ Owing(t) => t \in unsettled \/ link[chanOf[t]] # "up"
    /\ step[Manual(t)] \notin {"none", "failed"} => pc[t] = "handler"

\* Each ack or nack still to come is one the broker waits for, on whatever path
\* through the catches and the metadata functions: inductive for a disciplined worker.
AnswerInv ==
  /\ TypeOK /\ DeliveriesKnown /\ OutcomeAfterHandler /\ RepublishReasons
  /\ AnswersOwed /\ NoProtocolError

-----------------------------------------------------------------------------
(* Why a message is not multiplied, and how often it is delivered, without *)
(* link faults.                                                            *)

LinksUp == \A g \in Chan : link[g] \in {"new", "up"}

\* A copy whose replacement has been published and whose ack is the rest of
\* this turn.
Replaced(c) == turn # None /\ step[turn] = "ack" /\ copyOf[turn[1]] = c

\* Two live copies of a message are a copy and its replacement.
OneLive ==
  \A c, d \in Copy :
    c # d /\ Live(c) /\ Live(d) /\ msg[c] = msg[d] => Replaced(c) \/ Replaced(d)

OneCopyInv == AnswerInv /\ HeldOnce /\ LinksUp /\ OneLive

\* No copy is delivered a second time, and no two deliveries of a message have
\* the same retry count.
DeliveredOnce ==
  /\ \A t \in Tag : pc[t] # "idle" => place[copyOf[t]] \in {"unacked", "gone"}
  /\ \A t, u \in Tag : pc[t] # "idle" /\ pc[u] # "idle" /\ t # u =>
       copyOf[t] # copyOf[u] /\ (MsgOf(t) = MsgOf(u) => RetryOf(t) # RetryOf(u))

\* A copy that is delivered or will be has the highest retry count so far.
LatestCopy ==
  \A c \in Copy : place[c] \in {"ready", "delay", "unacked"} /\ ~Replaced(c) =>
    \A t \in DeliveryOf(msg[c]) : copyOf[t] # c => RetryOf(t) < retry[c]

\* Every republication replaces the one live copy of its message by one with a
\* higher retry count: inductive without link faults and metadata.requeue().
AttemptInv == OneCopyInv /\ DeliveredOnce /\ LatestCopy

-----------------------------------------------------------------------------
(* What the documents say and the code does not do.                        *)

\* docs/usage.md: isHealthy() means ready to process messages.  After a
\* reconnection the worker believes to consume and no consumer exists.
HealthyMeansConsuming ==
  isConsuming /\ cur # None => cur \in consuming
=============================================================================
