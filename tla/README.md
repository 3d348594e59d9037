# QueueCraft: a TLA+ verification project

QueueCraft is a TypeScript layer over RabbitMQ: it publishes events to topic
exchanges, consumes them with retries and a dead-letter queue, keeps one shared
connection that reconnects by itself, and shuts down gracefully. This directory
holds TLA+ models of the code in `src/src/`, the TLC configurations that check
them on small instances, and theorems about them that TLAPS checks for every
value of the constants.

    tlc -workers 2 -config delivery_faults.cfg MCWorkerDelivery.tla   # one run
    tlapm WorkerDeliveryProofs.tla                                    # one proof module

(The provers' time limits are real time: run one of the two at a time.)

`PROJECT.json` lists every run with its module and properties, the source lines
each definition stands for (`map`), a plausible bug per checked property that
the run detects (`mutants`), the hazards of the code and the findings.


## 1. Inventory of the system

### ConnectionManager (`src/src/connection.ts`)

*State.* `connection`, `channel`, `confirmChannel`; `connecting` (the promise of
the connect under way); `isReconnecting`, `reconnectAttempts`, `reconnectTimer`;
the caches `setupExchanges` and `setupQueues` of what was declared; and the
listeners it attached to amqplib's objects.

*Operations.* `connect`, `getChannel`, `getConfirmChannel`, `assertExchange`,
`assertQueue`, `bindQueue`, `setPrefetch`, `close`, `isHealthy`,
`getStatus`; the 'close' and 'error' handlers of the connection and of
both channels; `handleConnectionError` and `reconnectWithBackoff`.

*Hard behaviour.* Ends of several objects arrive in one turn of the event loop or
while a loop waits; handlers of replaced objects stay attached; `close()` awaits
between the fields it clears; the loop, publishers and workers all share one
`connect()`.

*Correct when* the manager never hands out an object whose end the client was
told of; at most one reconnect loop runs and makes at most `maxAttempts` attempts;
a loss ends in a channel or in 'reconnectFailed'.

### Worker (`src/src/worker.ts`)

*State.* `config.handlers`, `isConsuming`, `consumerTag`, the queue name, the
retry options, the set `boundEvents`; per message, the closure of the consumer
callback (the captured channel, `manualAckUsed`, the place it has reached). At
the broker: a queue, a delay queue and a dead-letter queue of its own, bound to
exchanges it shares with every worker of the same main exchange.

*Operations.* `start` (and `initialize`), `stop`, `close`, `addHandler`,
`removeHandler`; the consumer callback with `metadata.nack`, `.requeue`,
`.deadLetter`; `requeueWithRetryCount` (which computes the delay) and
`sendToDeadLetterQueue`.

*Hard behaviour.* A retry is "publish a new copy, then ack the old one", with
awaits between the failure and the ack during which channels break and other
deliveries run; the ack uses the channel captured by `start()`, the publish the
channel the manager has now; both catches act on channels that may be closed.
`start()` awaits one request per declaration and binding, each on whatever channel
the manager has at that moment, while other workers start, stop and set the
prefetch limit of the same channel; the caches, `boundEvents`, `isConsuming` and
`consumerTag` outlive the channels they describe. The retries of a worker travel
through exchanges that copy them to the queues of its neighbours.

*Correct when* no published message is lost but by a republication that fails; a retry
count never runs ahead of the failed deliveries; a dead letter has a reason; no delivery is settled twice; with a
healthy link messages are not multiplied, tried at most `maxRetries + 1` times,
and all of them settled in the end; no worker loses a message to a neighbour, and
a delay is bounded; after `start()` the queue exists and all handlers are bound,
after `stop()` no consumer is left on a channel the manager still knows, and every
call ends.

### Publisher (`src/src/publisher.ts`)

*State.* Nothing beyond the manager; per call of `publishWithConfirm`, a promise,
a timer and a confirm callback. *Operations.* `publish`, `publishWithConfirm`,
`close`. *Hard behaviour.* The time limit races the confirm; calls share or
replace the confirm channel; a lost channel may answer nothing. *Correct when* a
call that resolves was confirmed for its own message and every call settles.

### QueueCraft facade (`src/src/index.ts`)

*State.* Registries of workers and publishers, `isClosed`, `shutdownInProgress`,
the signal handlers. *Operations.* `createWorker`, `createPublisher`,
`publishEvent`, `close`, `enableGracefulShutdown`, `disableGracefulShutdown`,
`getHealth`, `createFromEnv`. *Hard behaviour.* `close()` of the application and
of the signal handler overlap, while workers start and handlers run; a time limit
and two hooks. *Correct when* exit code 0 means closed, the connection is closed
under no consumer, and the shutdown ends.

### The rest

`src/src/types`, `src/src/utils/validation.ts` (schemas), `src/src/logger.ts`
(output), tests and examples keep no state of the system.

### How they interact

The facade creates workers and publishers over one ConnectionManager. They await
its `getChannel()` or `getConfirmChannel()`, which connect when there is no
channel, and call amqplib on the result. amqplib calls back: consumer callbacks
into Worker, confirm callbacks into Publisher, ends of objects into the manager.
The manager's events go to the application; *no component of QueueCraft listens to
'reconnected'*, which is why a worker does not consume again after a reconnection
(finding `delivery_healthy`).


## 2. The modules

All modules follow the event loop of Node: code between two awaits is one step.
Where the granularity differs, the module says so in its header.

| Module | Part of the code | Checked with | Proofs |
|---|---|---|---|
| `WorkerDelivery` | the consumer callback, one worker, channels that fail | `MCWorkerDelivery` | `WorkerDeliveryProofs`, `WorkerRetryProofs`, `WorkerProtocolProofs` |
| `RetryTopology` | the delay and dead-letter queues of several workers | `MCRetryTopology` | `RetryTopologyProofs` |
| `WorkerLifecycle` | start, stop, handlers, close of several workers on one manager | `MCWorkerLifecycle` | `WorkerLifecycleProofs` |
| `ConnectionManager` | connections, channels, the reconnect loop, close | itself | `ConnectionManagerProofs` |
| `Publisher` | publish, publishWithConfirm | itself | `PublisherProofs` |
| `QueueCraft` | registry, close, graceful shutdown | `MCQueueCraft` | `QueueCraftProofs` |
| `AtLeastOnce` | abstract: what a worker promises about a message | through `WorkerDelivery` | |
| `ChannelProvider` | abstract: what the manager promises about channels | through three modules | |

The MC modules only give the constants that are functions their values.

### How they compose

The modules meet at two abstract specifications rather than in one product, whose
state space no run could cover.

*`ChannelProvider`* is the contract between the manager and its users: it offers a
channel that was never used before, stops offering one that has ended, and may
forget one that is still open. `ConnectionManager` implements it until the
application closes it (`ProvidesChannels`): that is the guarantee. `WorkerDelivery` and
`WorkerLifecycle` each have a smaller manager of their own, and are shown to stay
within the contract too (`ProviderSpec`): they assume no channel the contract does not
grant. Both forget open channels, as the manager does: `WorkerLifecycle` when the connection
of an earlier channel ends, `WorkerDelivery` at any time if `LeakedConnections` is set.

*`AtLeastOnce`* is the contract between a worker and the application: every message is
unpublished, held by the broker, given up, or settled, and moves in that order only.
`WorkerDelivery` implements it (`AtLeastOnceSpec`). There is no step to "lost": a message
leaves the broker unsettled only when a delivery of it gives it up, because its
republication failed or no channel could be had for it, and was answered all the same.

`QueueCraft` treats workers and manager as `close()` sees them, which is the level of
the promises it makes.

### `WorkerDelivery`

The life of messages at one worker. The broker keeps *copies*: a publish makes a
new one, with its `x-retry-count`, in `ready` (the worker's queue), `unacked`,
`delay` (the delay queue), `dlq`, or `gone`. A *delivery* is one run of the
callback, with the channel it came on (`chanOf`). A channel is `up`; `broken` (the
link is gone and the client has not been told: frames vanish); `error` (the same,
the broker having closed it for a protocol error); or `closed` (the client knows:
ack, nack and publish throw).

| Model | Code (`worker.ts`) |
|---|---|
| `Receive` | the start of the callback: `JSON.parse`, nack of a bad body, lookup of the handler |
| `HandlerCalls` | `metadata.nack`, `.requeue`, `.deadLetter`, which set `manualAckUsed` |
| `HandlerResolves`, `HandlerRejects` | the end of the handler: ack unless `manualAckUsed`; the ack lies inside the try |
| `InnerCatch`, `OuterCatch` | the two catches: retry or dead letter; nack as a last resort |
| `GetsChannel`, `Republish`, `Acks` | `requeueWithRetryCount` and `sendToDeadLetterQueue`: wait for a channel, declare, publish; then the caller's ack |
| `RepublishFails` | an exception after the channel was got, logged and swallowed (387, 431): a declaration on a channel that closed, or, on any channel, `JSON.stringify` of a payload the handler has changed, or headers amqplib cannot encode; the caller's ack follows all the same |
| `GivesUp`, `unsent` | history: the deliveries that come to their answer without a copy that replaces theirs, and why (`threw`, `noChannel`) |
| `Throw` | where an exception of that code lands |
| `turn` | the ack follows the last await in the same turn: only the broker moves in between |
| `GetChannel`, `Reconnect`, `ChannelClosed`, `Forget` | ConnectionManager as a worker sees it |
| `Start`, `Stop`, `AddHandler`, `RemoveHandler` | the application's calls, one step each (`WorkerLifecycle` has their awaits) |
| `Publish`, `Expire`, `Deliver`, `BreakLink`, `Settle`, `Send`, `Drop` | external: the broker |

A delivery has two tasks, `Callback(t)` and `Manual(t)`, because a handler may go
on, or return, while its own `deadLetter()` is under way. `pc` keeps apart how a delivery
ended: `done` in the try, `failed` and `unhandled` after the inner catch. *Failed
deliveries* are those in or past the inner catch: a delivery that succeeded, or
that its handler nacked or requeued, is none.

Three constants choose how bad the world is. `LinkFaults`: channels may break and
connection attempts fail. `LeakedConnections`: the manager may forget a channel
that is still open (it does, see `manager_stale_close`). `Undisciplined`: handlers
may use several metadata functions, one of them several times, also after they have
returned, or throw after using one. A throw of the republication is possible in all of them.

### `RetryTopology`

Several workers on one exchange, each with its own retry options and events. A
worker's queue counts copies per message and retry count; a delay queue is a
sequence, because a TTL takes effect only at the head.

| Model | Code (`worker.ts`) |
|---|---|
| `RetryLater` | `requeueWithRetryCount` with a delay: the worker's delay queue is declared and bound with `#` at its first retry (`delaying`), and the copy reaches every delay queue bound by then |
| `RetryNow` | the same without a delay: straight to the main exchange |
| `DelayOf` | `Math.min(initialDelay * backoffFactor ** (retryCount - 1), maxDelay)` |
| `DeadLetter` | `sendToDeadLetterQueue`, whose queues are shared in the same way |
| `Succeed` | a handler succeeds |
| `Routed`, `Expire`, `Tick` | external: the main exchange, the head of a delay queue, time |

Channels do not fail here and a delivery is one step: what can go wrong inside a
delivery is `WorkerDelivery`'s subject.

### `WorkerLifecycle`

Calls of `start`, `stop`, `addHandler`, `close` of several workers over one manager.
Issuing a request and its reply are separate actions; a call whose reply is there
issues its next request before anything else happens (`Quiet`). A request goes to the
channel the manager has at that moment; the broker executes it unless that channel
has broken, and then the call fails when the client sees the channel end. A channel that
the manager has dropped while it was open goes on to work: the calls that wait for its
replies get them and issue their next request on another channel.

| Model | Code |
|---|---|
| `Connected` to `Consume`, `PrefetchSet` to `Started` | the awaits of `initialize()` and `start()` (`worker.ts:162-280`) |
| `Declare`, `IsSetUp`, `ExchangeAsserted`, `QueueAsserted` | `assertExchange`, `assertQueue` and the caches (`connection.ts:315-400`) |
| `BindQueue`, `QueueBound` | `bindQueue` and the loop over the events |
| `SetPrefetch` | `setPrefetch`, which is a property of the channel everyone shares |
| `AddHandler`, `RemoveHandler`, `NeedsBinding` | the methods of the same names |
| `Cancel`, `Stopped` | `stop()`: cancels on the channel the manager has now, with the tag the worker has now |
| `Close` | `Worker.close` and `Publisher.close`, which close the shared connection |
| `Dial`, `DialFails` | `connect()`, which dials whenever there is no channel and leaves the connection of the last one as it is |
| `ChannelEnds` | the end of a channel: the caches stay |
| `ConnectionEnds` | the end of a connection, the manager's own or a replaced one (`connections`): whatever channel the manager has by then is dropped, also one that works, and the caches are cleared (`connection.ts:215-221`) |
| `Refuse`, `SetConsumers`, `Break` | external: the broker refuses a request for a queue it does not have and closes the channel; an auto-delete queue goes with its last consumer |

Calls of different workers overlap freely. Of an orderly worker an application makes one
call at a time, and does not start it twice without stopping it; of a worker in
`Overlapping` it makes any call at any time. `StoppedMeansStopped` and `HandlersBound`
are promised to orderly workers only (section 4 says why), everything else to all, and
to an orderly worker whatever the others do.

### `ConnectionManager`

amqplib's objects (`sock`, `chan`, `conf`), the listeners still attached to them,
the fields of the manager, the reconnect loops and `close()`. A promise that
settles lets the loops that await it run before any other callback, so every
action but the loops' own requires `Quiet`. `EndSocket` is one turn because
amqplib emits the ends of the channels and of the connection synchronously.

| Model | Code (`connection.ts`) |
|---|---|
| `Connect`, `DialSucceeds`, `DialFails`, `ChannelCreated`, `ChannelRefused` | `connect()` with its awaits and its catch |
| `ConfirmRequested`, `ConfirmCreated` | `getConfirmChannel()` |
| `ConnectionEnds`, `ChannelEnds`, `ConfirmEnds` | the handlers of ends, `handleConnectionError()` |
| `StartLoop`, `Wake`, `Reconnected`, `AttemptFailed` | `reconnectWithBackoff()` |
| `CloseCalled`, `ConfirmClosed`, `ChannelClosed`, `ConnectionClosed` | `close()` with its awaits, of several callers (`Closer`) |
| `CloseChannel`, `CloseConnection`, `Returns` | how far one turn of `close()` goes: amqplib's `close()` throws at once for an object that is closed or that another call is closing, and the manager goes on to the next |
| `handlers`, `Detached` | the fields with the listeners, which the end of a `close()` clears: the next one cannot detach an object opened meanwhile |

A loop whose timer `close()` clears never resumes (it is gone, `none`); one that awaits
`connect()` is not told of `close()` and goes on.

### `Publisher`

`publish` writes to the ordinary channel and returns. `publishWithConfirm`:
`Initialized` (exchange declared; the confirm channel used in the same turn, or a
new one requested), `ConfirmChannelOpened`, `Confirmed`, `TimesOut`; the broker takes,
refuses or loses frames, and channels break. Whether amqplib calls outstanding
confirm callbacks when a channel closes depends on its version: `ChannelClosed`
allows both.

### `QueueCraft`

The registry, in which configurations with one key share a worker (`Found`),
`publishEvent`, `close()` by two callers (`app`, `signal`), and the shutdown handler with
its phases, timer and exit codes. Worker and manager appear as `close()` sees them:
whoever asks for a channel causes a connection. `StartRaces`, `HooksHang` and
`CloseHangs` say what may go wrong around it.


## 3. Runs

`CHECK_DEADLOCK FALSE` is set everywhere because every model may really stop:
the process exits, the application has nothing left to ask, every message has come
to its end, or the identities that bound a run (copies, deliveries, sockets, loops,
calls) are used up.

| Run | Asks |
|---|---|
| `delivery_faults` | links break, connects fail, republications throw, bodies cannot be parsed, handlers use metadata functions, the manager keeps one connection: `OnlyThrowsLose`, `DeadLettersJustified`, `NoProtocolError`; `ConnectionInv` and `AnswerInv`, invariants of the proofs; the refinement `AtLeastOnceSpec` |
| `delivery_worst` | handlers without discipline, a manager that forgets open channels, two retries without delay: `NothingLost`, `RetryCountsFailures`, with the invariants of their proofs, `DeliveryInv` and `RetryInv`, and `ProviderSpec` |
| `delivery_live` | healthy link, two messages, prefetch 1: `NoDuplicates`, `AttemptsBounded`, the invariant of their proof, `AttemptInv`, and `EventuallySettled` |
| `topology_shared` | three workers share an exchange: `EachWorkerServed`, `WaitBounded`, `EventuallyDrained` |
| `lifecycle` | two workers, one with overlapping calls, start, stop, change handlers and close one manager whose channels break and whose replaced connections end late: `NeverRefused`, `StoppedMeansStopped`, `HandlersBound`, `CallsSettle`, and `ProviderSpec` |
| `manager_loops` | all interleavings of losses, callers and overlapping calls of `close()`: `RefsAreOpen`, `OneLoop`, `AttemptsBounded`, `LoopEnds`, and `ProvidesChannels` |
| `facade_shutdown` | two overlapping `close()` calls, losses, a close of the connection that may hang: `ExitZeroMeansClosed`, `StoppedBeforeClosing`, `ShutdownEnds` |
| `publisher_confirm` | concurrent calls, lost and replaced confirm channels: `ResolvedMeansTaken`, `CallsSettle` (for calls that wait for their confirm) |

Each module's `TypeOK` is in one of its runs; `delivery_faults` and `delivery_worst`
have it as a part of the invariants of the proofs. The remaining four runs are
violations, see section 4. The largest runs are `delivery_worst` (1.2 million distinct
states), `manager_loops` and `lifecycle`, each one to three minutes.

### Bounds

- `MaxRetries = 1` in `delivery_faults` and `delivery_live` reaches both sides of the
  comparison: a retry and, after it, a dead letter. `delivery_worst` has `MaxRetries = 2`, so
  that a count may be within `maxRetries` and ahead of the failures. `InitialDelay` is 1
  (delay queue) or 0 (immediate retry).
- Three copies and two deliveries of a message are the original, its retry and
  its dead letter, or a delivery whose channel breaks, the redelivery of the copy beside it,
  and what each of the two publishes; the second message of `delivery_faults` cannot be
  parsed. A third delivery adds two million states and no new case for the properties,
  which are proved for any number of them. Without
  faults, two messages with six copies and four deliveries are all they can
  ever need, so that `AttemptsBounded` and `EventuallySettled` are not satisfied
  by running out: each message is delivered at most twice.
- `delivery_faults` leaves out `metadata.nack`, which settles a delivery as an ack
  does; `delivery_live` has it. `delivery_worst` needs no `LinkFaults`: there the
  broker closes channels for protocol errors.
- A delivery has one `metadata.deadLetter()` under way at a time (`HandlerCalls`).
- Two channels are one loss and one replacement. Two deliveries of one message
  on two channels are the overlap of an old callback with a redelivery.
- `topology_shared`: `quick` and `slow` share an event and differ in every retry
  option (two retries with delays 1 and 2, the second one capped; one retry with
  delay 3), so that a short TTL queues up behind a long one and copies multiply;
  `direct` has another event and retries without delay. Counts are bounded by
  `maxRetries`; nothing else is.
- `lifecycle`: two workers and three calls are start, stop and start of one, or start and
  stop of one beside a call of the other, or overlapping starts and stops of `b`; three
  channels are a channel that ends on a connection that stays open, its replacement, which
  is dropped when that connection ends, and the one that calls go on to. `a` also changes
  its handlers; the queue of `b` deletes itself and its calls overlap. `a` asks for the
  prefetch limit 1 and `b` for none, as in `lifecycle_prefetch`.
- `manager_loops`: three sockets and three loops at a time are a connection lost while another
  one is being replaced, and a loop that starts while an older one still waits. Two calls of
  `close()` overlap, the second one beginning only while two connections are left to dial
  (a bound of `CloseCalled`; the theorems are for any number of connections); one after
  another they are not limited.
  `MaxAttempts = 2` reaches the failed attempt that is followed by another one
  and the one that is not.
- `facade_shutdown`: three configurations, two of which share a key, and two
  closers. `publisher_confirm`: two confirmed publishes and a plain one on two confirm
  channels.
- Where a bound blocks an action of the code (no fresh copy for a publish, no
  fresh socket for a dial) the action waits. Runs about safety lose only longer
  behaviours. In runs about liveness the fair actions that need a fresh identity
  have an alternative: a dial may fail (`DialSucceeds \/ DialFails`, `Dial \/ DialFails`),
  and in `manager_loops` there are as many loops as connections that can end.
- No symmetry is declared: fresh identities are handed out in one order (`Fresh`).

### Fairness

- *Event loop.* Timers fire and continuations that are ready run (`Wake`,
  `Receive`, task steps, `Issue`, `TimedOut`, `TimesOut`): Node runs every queued callback.
- *Requests are answered, one way or the other* (`DialSucceeds \/ DialFails`,
  `ChannelCreated \/ ChannelRefused`, `Reply`, `End`, the steps of `close()` in
  `QueueCraft`; `LoopEnds` needs none of them in `ConnectionManager`): TCP and
  AMQP heartbeats end every request. `Publisher` does not assume it, since a
  confirm has no such limit: there only the call's own timer is fair.
- *The broker* pushes ready copies to a consumer with credit, and TTLs expire
  (`Tick`, `Expire`).
- *Handlers return* (`HandlerResolves \/ HandlerRejects`, `Handle`): QueueCraft has no
  time limit for them, so this is an assumption on the application. So is that
  hooks return, which is assumed only when `HooksHang` is false. (Without it
  `ShutdownEnds` fails: the time limit is armed after `beforeShutdown` has returned.)
- Nothing the application or the network merely *may* do is fair: `Start`, `Publish`,
  `Connect`, `Break`, `BreakLink`, `Close`, `CloseCalled`. `EventuallySettled` therefore
  excuses a worker that was stopped or never started. All fairness is weak.


## 4. Findings

Each violation run checks one statement of the documentation or of a comment
against the code, and TLC shows a behaviour of the code that breaks it.
`PROJECT.json` quotes the lines.

| Run | What the code does |
|---|---|
| `delivery_healthy` | after a reconnection `isHealthy()` holds and nothing consumes |
| `manager_stale_close` | the end of a replaced connection makes the manager drop the live one and emit 'disconnected' |
| `topology_private` | a retry of one worker comes back to another one that has already succeeded with the message |
| `lifecycle_prefetch` | a worker without a prefetch option consumes with the limit another worker has set |

The models contain further behaviour that a user of the library should know of,
for which no run is kept:

- Delivery. `requeueWithRetryCount` and `sendToDeadLetterQueue` swallow every error
  of their try (`worker.ts:387`, `431`), also a throw of `JSON.stringify` or `publish` on an
  open channel: a payload the handler has made circular, an `x-error` header that does not
  fit in a frame. The ack at 264, 267 or 247 follows and removes the only copy. The same
  happens without a throw when the manager has forgotten an open channel
  (`manager_stale_close`): the republication fails on the new channel, or the connect does
  and the outer catch nacks without requeue (275), while the old channel takes the answer.
  `docs/architecture.md` draws the message on its way to a queue in each of these cases;
  `NothingLost` and `AtLeastOnce` except them by name (`GivenUp`), and `OnlyThrowsLose`
  says that with a single connection the throw is the only one. The ack of a successful handler throws on a closed
  channel; the inner catch takes that for a failure and publishes the message again
  (`HandlerResolves`): such a delivery is among those `RetryCountsFailures` counts, and
  `CatchReasons` names it. A body that cannot be
  parsed is discarded, not dead-lettered (`Receive`). The nack of the outer catch
  throws on a closed channel, and the promise of the callback is rejected with
  nobody to handle it (`pc` is `unhandled`).
- Topology. A dead letter, too, is copied to the dead-letter queues of all workers
  that have declared one; and the retries of two workers multiply each other's
  copies, though only finitely often (`EventuallyDrained`).
- Lifecycle. A worker whose queue deletes itself cannot be stopped and started again:
  the cache still has the queue, the bind is refused, and the refusal closes the
  channel of every worker (`NeverRefused` excepts `AutoDelete`). An `addHandler()`
  that rejects leaves a handler without a binding (`HandlersBound` excepts it). When
  the calls of one worker overlap, two more promises are lost, and the properties except
  such workers: `addHandler()` between the snapshot in `initialize()` and the end of
  `start()` stores a handler that is never bound (`worker.ts:117-122` promises the
  binding only for a worker that "is already consuming"), against `HandlersBound`; and a
  second `start()` replaces the consumer tag, so that the first consumer can no longer be
  cancelled, against `StoppedMeansStopped`. When the connection of an earlier channel
  ends late, the manager drops its live one: `stop()` then cancels on yet another channel,
  logs nothing, clears `consumerTag` and leaves a consumer that goes on to get messages
  until its connection ends (`docs/usage.md:234` stops workers this way), which is all
  `StoppedMeansStopped` admits; a `start()` that waits for a reply on the dropped channel
  goes on to a new one without its `basic.qos`, so that `OwnPrefetch` holds of no
  configuration and is kept as the violation `lifecycle_prefetch` only; and `close()` does
  not close the connection that was dropped.
- Manager. `close()` leaves a loop that awaits `connect()` alone; if the manager is
  used again, a second loop shares its counter. The end of a `close()` forgets the
  listeners of objects opened while it was under way, so that the next one closes
  them with their listeners attached and takes its own close for a loss. That is why `OneLoop` and
  `AttemptsBounded` are stated for a manager that is not closed. A connect under way
  during `close()` leaves an open connection behind. `connect()` dials a new connection
  when only the channel is gone, and forgets the old one. A stale end during
  `createChannel` clears the new connection and leaves its channel: the loop reports
  'reconnected' and the manager is not healthy. That is why `LoopEnds` promises a
  channel and not `isHealthy`. A channel that ends on a live connection is
  replaced only by the next caller.
- Facade. A handler that fails, or a `start()` that goes on, after `close()` opens a new
  connection (`HandlerFails`, `StartDone`). `createWorker` ignores the handlers and options
  of a configuration whose key is taken.
- Publisher. A message that no queue receives is confirmed all the same (`BrokerTakes`).


## 5. What is proved

`tlapm` checks eight proof modules from nothing. Their assumptions are the `ASSUME`s
of the modules they extend, which TLC evaluates on every run, and the hypotheses
written in the theorems. `PROJECT.json` lists the theorems; those below hold for
every number of messages, workers, channels, calls and retries.

### `WorkerDeliveryProofs`

- **TypeCorrect**: `Spec => []TypeOK`, inductive together with `DeliveriesKnown`.
- **InvariantHolds**: `Spec => []DeliveryInv`.
- **NothingIsLost**: `Spec => []NothingLost`.
- **ConnectionInvHolds**: `~LeakedConnections => (Spec => []ConnectionInv)`.
- **OnlyThrowsLoseHolds**: `~LeakedConnections => (Spec => []OnlyThrowsLose)`.
- **ImplementsAtLeastOnce**: `Spec => AtLeastOnceSpec`.
- **ImplementsProvider**: `Spec => ProviderSpec`.

`NothingLost` is not inductive: it does not say that an ack under way spares the
last copy. `DeliveryInv` adds what it needs. *HeldOnce*: the broker's unacked copies and
unsettled deliveries correspond, and all are on channels that are up. *Carried*: every
published message is settled, given up, or has a copy that no ack under way can take. A step
from `declare` or `publish` to `ack` then has put a new copy at the broker, or is
followed by an ack that takes nothing (the broker has dropped the channel and put the
old copy back), or gives the message up. *OutcomeAfterHandler* makes "settled"
final, which with *Carried* gives the refinement of `AtLeastOnce`. These theorems have no
hypothesis on faults, leaks or handlers; what they except is the deliveries in `unsent`.

`ConnectionInv` says how few these are while the manager forgets no open channel.
*SingleConnection*: the only channel the client may write to is the manager's current one.
*SameChannel*: hence a republication in progress uses the channel its ack will use, unless
that one is closed. So a delivery whose answer the broker will honour has a channel to
republish on, and only a throw can keep its copy from being sent. The hypothesis is needed,
and the code does not always meet it: see section 4.

### `WorkerRetryProofs`

- **RetryInvHolds**: `Spec => []RetryInv`.
- **RetriesAreFailures**: `Spec => []RetryCountsFailures`.
- **DeadLettersAreJustified**: `Spec => []DeadLettersJustified`.

No hypotheses: link faults, leaked connections and handlers that settle a delivery twice
are all in. `RetryCountsFailures` compares a number in a header with the cardinality of a
set of deliveries, those that went through the inner catch (`FailedDeliveries`), and is not
inductive: redeliveries of a copy fail as well, and the copy they publish has its predecessor's
count plus one. What is inductive is the chain: for each smaller count a delivery of a copy
*with that count* went through the inner catch (*AttemptsBacked*). *CatchReasons* says why
one does: its handler threw, there was none, or its handler succeeded and the ack threw on a closed
channel; never after a handler that answered for itself. These
deliveries differ, since their counts do, so there are at least `retry[c]` of them. A
republication adds the delivery that makes it, which *CatchDecided* knows to have compared
the header with `maxRetries`. *RepublishReasons* remembers until the publish why it is made
(no handler, a failure, `metadata.deadLetter()`); that is what a dead letter's justification
is. Both need that the past of a delivery stays what it was (`StepHistory`) and that only
finitely many deliveries have begun (`FiniteStep`), for a model in which the set of
delivery tags may be infinite.

### `WorkerProtocolProofs`

- **AnswerInvHolds**: `~Undisciplined => (Spec => []AnswerInv)`.
- **SettlesOnce**: `~Undisciplined => (Spec => []NoProtocolError)`.
- **NothingMultiplied**: `~LinkFaults /\ ~Undisciplined => (Spec => []NoDuplicates)`.
- **AttemptInvHolds**, **AttemptsAreBounded**: `~LinkFaults /\ ~Undisciplined /\
  "requeue" \notin Controls => (Spec => [] ...)` for `AttemptInv` and `AttemptsBounded`.

`AnswerInv` says where an answer is *owed*: the callback is before its ack or nack, or has
left it to a `metadata.deadLetter()` that is under way or has failed. What is owed is unsettled, or
its channel is down (*AnswersOwed*), on every path through both catches. The discipline it
needs is in the guards of `HandlerCalls`, `HandlerResolves` and `HandlerRejects`: at most one
metadata function, no throw after it worked, no return before its own `deadLetter()` has
ended. Without it the broker does close channels, which `delivery_worst` lives with.

A republication publishes before it acks, so there are two live copies of a message within a turn:
one of them is *Replaced*, and the rest of the turn takes it (*OneLive*). Each published
copy counts one more than all deliveries so far (*LatestCopy*), and without link faults no
copy is delivered twice (*DeliveredOnce*), so that the retry counts number the deliveries
from 0 to at most `maxRetries`. With `metadata.requeue()` the same copy is delivered again
with the same count, by intent. With link faults neither holds: a broken link
returns the copy whose replacement is already published.

### `ConnectionManagerProofs`

- **LoopIsExclusive**: `Spec => []OneLoop`, whose own hypothesis is that the
  application has not closed the manager.
- **AttemptsStayBounded**: `Spec => []AttemptsBounded`, with the same hypothesis.
- **TypeCorrect**, **ReferencesStayOpen** (`RefsAreOpen`), **ImplementsProvider**
  (`Spec => ProvidesChannels`).

The loop's invariant joins the first two, since each needs the other: the counter
is right for the loop that runs because there is only one. `RefsAreOpen` follows from
`HooksInv`: whatever a field refers to still has the listener that clears the field,
unless a `close()` that is under way has detached it and has still to come to the field,
which it then clears itself. That holds for any number of overlapping calls of `close()`.

### `RetryTopologyProofs`

- **TypeCorrect**: among the types, no retry count exceeds `maxRetries` of the worker
  that set it.
- **NoWorkerLosesAMessage**: `Spec => []EachWorkerServed`. A retry takes a copy from
  the worker's queue and puts one into its own delay queue, since it has bound that
  queue before it publishes; an expiry puts it back; what the neighbours do only
  adds copies.
- **WaitingEnds**: `Spec => []WaitBounded`. The invariant (`Ordered`) is that whoever is
  ahead in a delay queue has waited at least as long, and that what a copy has waited
  and the rest of its TTL are together at most the `maxDelay` of the worker that
  published it, as long as the TTL runs.

`TopologyAssumption` contains one fact of arithmetic (a power of a natural number is
natural), which the installed provers cannot derive and TLC evaluates.

### `WorkerLifecycleProofs`

- **TypeCorrect**, **QueuesAreDeclared** (`NeverRefused`), **StopEndsConsumer**
  (`StoppedMeansStopped`), **HandlersAreBound** (`HandlersBound`), **ImplementsProvider**
  (`ProviderSpec`); the invariant itself is **InvariantHolds**.

The invariant has four parts, each of which uses the ones before it. *CallsInv*: an
orderly worker has one call at a time, and no consumer tag while it starts.
*ConsumersInv*: consumers live on channels that work, also on one the manager has dropped;
those of an orderly worker on the manager's channel (`Offered`) belong to its tag or to a
`start()` that awaits its reply there; hence `stop()`, which cancels on the manager's
channel, leaves none on it. It says nothing of a dropped channel, where the consumer stays
until the connection ends, and where a `start()` still gets its reply.
*DeclaredInv*: a worker that has come past `assertQueue`, or has its queue in the cache,
has a queue; the caches survive a lost channel because what was declared does.
*BindingsInv*: what a worker takes for bound is bound, and what an orderly one has not
bound is on a call's list. Nothing but these restrictions depends on the order in which
an application calls, so any set of workers may be `Overlapping`.

There is no theorem about `OwnPrefetch`: a limit belongs to the channel, and a `start()`
that changes channels after it has set the limit, or that shares its channel with a worker
that sets another one, consumes with a limit that is not its own.

### `PublisherProofs`, `QueueCraftProofs`

- **ResolvedWasTaken**: `Spec => []ResolvedMeansTaken`; a call is resolved by the answer
  to its own message only.
- **ExitZeroIsHonest**: `Spec => []ExitZeroMeansClosed`, with hanging hooks and closes and
  racing starts.
- **ConsumersStopFirst**: `~StartRaces => (Spec => []StoppedBeforeClosing)`, for any sharing of
  registry keys. Every worker with a consumer tag is in the registry as long as the
  instance is open, so each `stop()` is awaited; and a `stop()` that fails because nothing
  is connected leaves no consumer, for then the broker has none (`Orderly`).
- **TypeCorrect** of both.

### What is only model-checked

The liveness properties (`EventuallySettled`, `EventuallyDrained`, `LoopEnds`, both
`CallsSettle`, `ShutdownEnds`): the prover does not reason about fairness and `ENABLED`.
Every safety property of the passing runs has a theorem, and so has every refinement.
Statements by induction over data are out of the prover's reach. No module here declares a RECURSIVE operator.


## 6. What is not modelled

- The order of the broker's main queues: a queue is a set or a count, so any order
  is possible. That is weaker than FIFO, hence sound for the safety properties. The
  delay queues, whose order matters, are sequences.
- Durations, except the ticks of `RetryTopology`: timers fire at any time.
- A fractional `backoffFactor`, whose TTL the broker refuses: all numbers are integers.
- A consumer the broker cancels (a null message, which the callback drops): RabbitMQ
  does so when a queue is deleted from outside.
- `maxAttempts = 0`, with which a loop reports 'reconnectFailed' without an
  attempt; `ManagerAssumption` excludes it.
- The strings of the registry keys, of which some collide (`index.ts:150`); the
  registry is checked for any assignment of keys. The registry of publishers: all of
  them use the one manager, so no caller can tell them apart. `getHealth`, which only
  reads.
- `createFromEnv`, schemas, logging, events nobody in the library listens to,
  timestamps: no state of the system depends on them.

External parts (marked so in `map`) are the RabbitMQ broker and amqplib, modelled
from how the code uses them: a frame on a channel that is up takes effect at
once and in order; a second ack or nack of a delivery, or a request for a queue that
does not exist, closes the channel; a dropped channel puts its unacked copies back;
the events of the end of a connection come in one turn; a write to a channel the
client knows to be closed throws.


## 7. Plan

Done: all components with state, their abstract specifications, and the proofs of
section 5.

What is left:

1. The lemmas that the proof modules of the worker share (what stays of a delivery, where
   copies move) could move up to `WorkerDeliveryProofs`, whose proofs of `Carried` and
   `SameChannel` do without them so far.
2. `NoDuplicates` and `AttemptsBounded` state what holds without link faults. What is
   left of them with link faults (how many copies one broken link can cost) has no property yet.
3. How long a consumer that `stop()` has left on a dropped channel goes on: until its
   connection ends, which nothing in the library brings about.

The project keeps to a dozen runs, so that all of them can be repeated on every
change: a new question replaces a run or joins one.
