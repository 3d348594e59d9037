--------------------------- MODULE RetryTopology ---------------------------
(***************************************************************************)
(* Retries and dead letters of several workers on one exchange             *)
(* (src/src/worker.ts, requeueWithRetryCount and sendToDeadLetterQueue).   *)
(*                                                                         *)
(* Each worker declares a delay queue and a dead-letter queue of its own   *)
(* when it first needs them, but binds them with '#' to exchanges named    *)
(* after the main exchange, which all workers share; and an expired copy   *)
(* goes back to the main exchange, which routes it by its event.  A delay  *)
(* queue is first-in first-out: the TTL of a copy takes effect only at its *)
(* head.  Time passes in ticks, and a copy whose turn has come does not    *)
(* wait for the next tick.                                                 *)
(*                                                                         *)
(* Channels do not fail here (WorkerDelivery has that).  A worker handles  *)
(* its deliveries in any order, each in one step.                          *)
(***************************************************************************)
EXTENDS Integers, FiniteSets, Sequences

CONSTANTS
  Worker, Msg,
  Event, EventOf,      \* routing keys, and the one of each message
  Events,              \* the events each worker's queue is bound to
  MaxRetries, InitialDelay, BackoffFactor, MaxDelay   \* RetryOptions of each worker

ASSUME TopologyAssumption ==
  /\ EventOf \in [Msg -> Event]
  /\ Events \in [Worker -> SUBSET Event]
  /\ MaxRetries \in [Worker -> Nat] /\ InitialDelay \in [Worker -> Nat]
  /\ BackoffFactor \in [Worker -> Nat \ {0}] /\ MaxDelay \in [Worker -> Nat]
  \* a fact of arithmetic that the provers do not know
  /\ \A w \in Worker : \A n \in 0..MaxRetries[w] : BackoffFactor[w] ^ n \in Nat

VARIABLES
  published,     \* messages an application has published
  queue,         \* per worker, message and x-retry-count: the copies in its queue
  delay,         \* the delay queue of each worker
  delaying,      \* workers whose delay queue is declared and bound
  deadLettering, \* workers whose dead-letter queue is declared and bound
  dlq,           \* the messages in each dead-letter queue
  done           \* the messages each worker's handlers have succeeded with

vars == <<published, queue, delay, delaying, deadLettering, dlq, done>>

\* The values of x-retry-count, which never exceeds maxRetries of the worker that
\* sets it.
Retry == {0} \cup UNION {0..MaxRetries[w] : w \in Worker}

Delayed == [msg : Msg, retry : Retry, ttl : Nat, waited : Nat]

TypeOK ==
  /\ published \subseteq Msg
  /\ queue \in [Worker -> [Msg -> [Retry -> Nat]]]
  /\ delay \in [Worker -> Seq(Delayed)]
  /\ delaying \subseteq Worker /\ deadLettering \subseteq Worker
  /\ dlq \in [Worker -> SUBSET Msg]
  /\ done \in [Worker -> SUBSET Msg]

Init ==
  /\ published = {}
  /\ queue = [w \in Worker |-> [m \in Msg |-> [n \in Retry |-> 0]]]
  /\ delay = [w \in Worker |-> << >>]
  /\ delaying = {} /\ deadLettering = {}
  /\ dlq = [w \in Worker |-> {}]
  /\ done = [w \in Worker |-> {}]

-----------------------------------------------------------------------------
(* The broker.                                                             *)

\* The main exchange copies <<m, n>> to the queue of every worker bound to m.
Routed(q, m, n) ==
  [w \in Worker |-> IF EventOf[m] \in Events[w] THEN [q[w] EXCEPT ![m][n] = @ + 1] ELSE q[w]]

Publish(m) ==
  /\ m \notin published
  /\ published' = published \cup {m}
  /\ queue' = Routed(queue, m, 0)
  /\ UNCHANGED <<delay, delaying, deadLettering, dlq, done>>

Expired(w) == delay[w] # << >> /\ Head(delay[w]).ttl = 0

\* The head of a delay queue goes to the queue's dead-letter exchange.
Expire(w) ==
  /\ Expired(w)
  /\ delay' = [delay EXCEPT ![w] = Tail(@)]
  /\ queue' = Routed(queue, Head(delay[w]).msg, Head(delay[w]).retry)
  /\ UNCHANGED <<published, delaying, deadLettering, dlq, done>>

Older(c) ==
  [msg |-> c.msg, retry |-> c.retry,
   ttl |-> IF c.ttl = 0 THEN 0 ELSE c.ttl - 1, waited |-> c.waited + 1]

Tick ==
  /\ \E w \in Worker : delay[w] # << >>
  /\ \A w \in Worker : ~Expired(w)
  /\ delay' = [w \in Worker |-> [i \in DOMAIN delay[w] |-> Older(delay[w][i])]]
  /\ UNCHANGED <<published, queue, delaying, deadLettering, dlq, done>>

-----------------------------------------------------------------------------
(* A worker handles a delivery, and acks it.                               *)

Taken(w, m, n) == [queue EXCEPT ![w][m][n] = @ - 1]

Succeed(w, m, n) ==
  /\ queue[w][m][n] > 0
  /\ queue' = Taken(w, m, n)
  /\ done' = [done EXCEPT ![w] = @ \cup {m}]
  /\ UNCHANGED <<published, delay, delaying, deadLettering, dlq>>

\* Mutant: the delay is not capped.
Uncapped(w, n) == InitialDelay[w] * BackoffFactor[w] ^ (n - 1)

\* Math.min(initialDelay * backoffFactor ** (retryCount - 1), maxDelay)
DelayOf(w, n) ==
  LET d == InitialDelay[w] * BackoffFactor[w] ^ (n - 1)
  IN  IF d < MaxDelay[w] THEN d ELSE MaxDelay[w]

\* Mutant: every retry counts as the first.
AlwaysFirst(n) == 1

NextCount(n) == n + 1

\* Mutant: one retry too many.
OneMoreRetry(w, n) == n <= MaxRetries[w]

RetriesLeft(w, n) == n < MaxRetries[w]

\* Mutant: the delay queue is not bound to the exchange the copy goes to.
BoundToOthers(w) == delaying \ {w}

\* The delay queues that receive what worker w publishes.
BoundTo(w) == delaying

\* The handler fails and retries are left: requeueWithRetryCount() declares the
\* worker's delay queue, binds it with '#', and publishes to the delay exchange,
\* which copies to every queue bound to it.
RetryLater(w, m, n) ==
  LET d == DelayOf(w, NextCount(n))
      copy == [msg |-> m, retry |-> NextCount(n), ttl |-> d, waited |-> 0]
  IN  /\ queue[w][m][n] > 0
      /\ RetriesLeft(w, n)
      /\ d > 0
      /\ queue' = Taken(w, m, n)
      /\ delaying' = delaying \cup {w}
      /\ delay' = [v \in Worker |-> IF v \in BoundTo(w)' THEN Append(delay[v], copy) ELSE delay[v]]
      /\ UNCHANGED <<published, deadLettering, dlq, done>>

\* Without a delay the copy goes to the main exchange at once.
RetryNow(w, m, n) ==
  /\ queue[w][m][n] > 0
  /\ RetriesLeft(w, n)
  /\ DelayOf(w, NextCount(n)) = 0
  /\ queue' = Routed(Taken(w, m, n), m, NextCount(n))
  /\ UNCHANGED <<published, delay, delaying, deadLettering, dlq, done>>

\* sendToDeadLetterQueue(): after the last retry, or at any time because the
\* handler asks for it or no handler is found.
DeadLetter(w, m, n) ==
  /\ queue[w][m][n] > 0
  /\ queue' = Taken(w, m, n)
  /\ deadLettering' = deadLettering \cup {w}
  /\ dlq' = [v \in Worker |-> IF v \in deadLettering' THEN dlq[v] \cup {m} ELSE dlq[v]]
  /\ UNCHANGED <<published, delay, delaying, done>>

Handle(w) ==
  \E m \in Msg, n \in Retry :
    Succeed(w, m, n) \/ RetryLater(w, m, n) \/ RetryNow(w, m, n) \/ DeadLetter(w, m, n)

Next ==
  \/ \E m \in Msg : Publish(m)
  \/ \E w \in Worker : Expire(w) \/ Handle(w)
  \/ Tick

Spec == Init /\ [][Next]_vars

\* Time passes, TTLs run out, and handlers return.
FairSpec ==
  /\ Spec
  /\ WF_vars(Tick)
  /\ \A w \in Worker : WF_vars(Expire(w)) /\ WF_vars(Handle(w))

-----------------------------------------------------------------------------
(* What the topology promises.                                             *)

Holds(w, m) ==
  \/ \E n \in Retry : queue[w][m][n] > 0
  \/ \E i \in DOMAIN delay[w] : delay[w][i].msg = m

\* worker.ts:352-362, 410-411: no worker loses a message through the exchanges it
\* shares: until its own handler succeeds, each worker bound to a message has a
\* copy in its own queue, its own delay queue or its own dead-letter queue,
\* whoever declared which queue first and whose retry expired where.
EachWorkerServed ==
  \A w \in Worker, m \in published :
    EventOf[m] \in Events[w] => m \in done[w] \/ m \in dlq[w] \/ Holds(w, m)

\* worker.ts:341-344, 367: a copy can wait behind another one with a longer
\* delay, and behind those of other workers, but never longer than the largest
\* maxDelay of the exchange's workers.
WaitBounded ==
  \A w \in Worker : \A i \in DOMAIN delay[w] :
    \E v \in Worker : delay[w][i].waited <= MaxDelay[v]

\* A message whose copies every worker's retries multiply comes to an end all
\* the same, because x-retry-count grows along every chain of copies.
Drained == \A w \in Worker, m \in Msg : ~Holds(w, m)
EventuallyDrained == <>[]Drained

-----------------------------------------------------------------------------
(* What the documents say and the code does not do.                        *)

\* docs/architecture.md: a retry returns from the delay queue to the queue of the
\* worker that failed, so a worker that succeeded with a message is done with it.
RetriesArePrivate == \A w \in Worker, m \in Msg : m \in done[w] => ~Holds(w, m)
=============================================================================
