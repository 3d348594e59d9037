------------------------ MODULE RetryTopologyProofs ------------------------
(***************************************************************************)
(* Proofs about RetryTopology, for any number of workers, messages and     *)
(* events and any retry options.                                           *)
(*                                                                         *)
(* EachWorkerServed is inductive with TypeOK: an expired copy returns to   *)
(* every worker bound to its message, the worker it expired for included,  *)
(* and a worker that puts a copy off is itself among those that receive it.*)
(*                                                                         *)
(* WaitBounded needs two facts about a delay queue (Ordered): who is ahead *)
(* has waited at least as long, and what a copy has waited and has yet to  *)
(* wait is at most the maxDelay of the worker that published it.           *)
(***************************************************************************)
EXTENDS RetryTopology, SequenceTheorems, TLAPS

Queues == [Worker -> [Msg -> [Retry -> Nat]]]

\* A worker's own next count is a value of x-retry-count.
LEMMA NextIsRetry ==
  ASSUME TopologyAssumption, NEW w \in Worker, NEW n \in Retry, RetriesLeft(w, n)
  PROVE  /\ n \in 0..MaxRetries[w] /\ NextCount(n) \in Retry
         /\ DelayOf(w, NextCount(n)) \in Nat /\ DelayOf(w, NextCount(n)) <= MaxDelay[w]
<1>1. n \in Nat /\ n < MaxRetries[w] /\ MaxRetries[w] \in Nat
  BY DEF TopologyAssumption, Retry, RetriesLeft
<1>2. n + 1 \in 0..MaxRetries[w]
  BY <1>1
<1>3. NextCount(n) \in Retry
  BY <1>2 DEF Retry, NextCount
<1>4. BackoffFactor[w] ^ n \in Nat /\ InitialDelay[w] \in Nat /\ MaxDelay[w] \in Nat
  BY <1>1 DEF TopologyAssumption
<1>5. (n + 1) - 1 = n
  BY <1>1
<1>6. DelayOf(w, NextCount(n)) = LET d == InitialDelay[w] * BackoffFactor[w] ^ n
                                 IN  IF d < MaxDelay[w] THEN d ELSE MaxDelay[w]
  BY <1>5 DEF DelayOf, NextCount
<1>7. \A a, b, c \in Nat : a * b \in Nat /\ (a * b < c => a * b <= c)
  OBVIOUS
<1> QED BY <1>1, <1>3, <1>4, <1>6, <1>7

\* A function on 1..n is a sequence.
LEMMA FunctionIsSeq ==
  ASSUME NEW S, NEW n \in Nat, NEW f \in [1..n -> S]
  PROVE  f \in Seq(S)
<1>1. f \in UNION {[1..k -> S] : k \in Nat}
  BY Zenon
<1> QED BY <1>1, SeqDef, Zenon

\* The elements of a sequence without its head, and with one more.
LEMMA TailElements ==
  ASSUME NEW S, NEW s \in Seq(S), s # << >>
  PROVE  /\ 1 \in DOMAIN s /\ Head(s) = s[1] /\ DOMAIN s \subseteq Nat
         /\ \A i \in DOMAIN s : i # 1 => i - 1 \in DOMAIN Tail(s) /\ Tail(s)[i - 1] = s[i]
         /\ \A i \in DOMAIN Tail(s) : i \in Nat /\ i + 1 \in DOMAIN s /\ Tail(s)[i] = s[i + 1]
<1>1. /\ Len(s) \in Nat /\ Len(s) # 0 /\ DOMAIN s = 1..Len(s) /\ Head(s) = s[1]
      /\ Tail(s) \in Seq(S) /\ Len(Tail(s)) = Len(s) - 1
      /\ \A i \in 1..Len(s) - 1 : Tail(s)[i] = s[i + 1]
  OBVIOUS
<1>2. DOMAIN Tail(s) = 1..Len(s) - 1
  BY <1>1
<1>3. ASSUME NEW i \in DOMAIN s, i # 1 PROVE i - 1 \in 1..Len(s) - 1 /\ (i - 1) + 1 = i
  BY <1>1, <1>3
<1>4. ASSUME NEW i \in DOMAIN s, i # 1 PROVE i - 1 \in DOMAIN Tail(s) /\ Tail(s)[i - 1] = s[i]
  <2>1. Tail(s)[i - 1] = s[(i - 1) + 1]
    BY <1>1, <1>3, <1>4
  <2> QED BY <1>2, <1>3, <1>4, <2>1
<1>5. ASSUME NEW i \in DOMAIN Tail(s)
      PROVE  i \in Nat /\ i + 1 \in DOMAIN s /\ Tail(s)[i] = s[i + 1]
  BY <1>1, <1>2, <1>5
<1> QED BY <1>1, <1>4, <1>5

\* The elements of a sequence with one element more at its end.
LEMMA AppendElements ==
  ASSUME NEW S, NEW s \in Seq(S), NEW c \in S
  PROVE  /\ Len(s) + 1 \in DOMAIN Append(s, c) /\ Append(s, c)[Len(s) + 1] = c
         /\ \A i \in DOMAIN s : i \in DOMAIN Append(s, c) /\ Append(s, c)[i] = s[i] /\ i < Len(s) + 1
         /\ \A i \in DOMAIN Append(s, c) : i # Len(s) + 1 => i \in DOMAIN s
         /\ \A i \in DOMAIN Append(s, c) : i \in Nat /\ i <= Len(s) + 1
<1>1. /\ Len(s) \in Nat /\ DOMAIN s = 1..Len(s) /\ Append(s, c) \in Seq(S)
      /\ Len(Append(s, c)) = Len(s) + 1 /\ Append(s, c)[Len(s) + 1] = c
      /\ \A i \in 1..Len(s) : Append(s, c)[i] = s[i]
  OBVIOUS
<1>2. DOMAIN Append(s, c) = 1..Len(s) + 1
  BY <1>1
<1> QED BY <1>1, <1>2

\* Routing adds one copy to the queue of each worker that is bound, and none is
\* taken away.
LEMMA RoutedQueues ==
  ASSUME NEW q \in Queues, NEW m \in Msg, NEW n \in Retry
  PROVE  /\ Routed(q, m, n) \in Queues
         /\ \A w \in Worker, x \in Msg, k \in Retry : Routed(q, m, n)[w][x][k] >= q[w][x][k]
         /\ \A w \in Worker : EventOf[m] \in Events[w] => Routed(q, m, n)[w][m][n] > 0
<1>1. ASSUME NEW w \in Worker
      PROVE  /\ Routed(q, m, n)[w] \in [Msg -> [Retry -> Nat]]
             /\ \A x \in Msg, k \in Retry : Routed(q, m, n)[w][x][k] >= q[w][x][k]
             /\ EventOf[m] \in Events[w] => Routed(q, m, n)[w][m][n] > 0
  <2>1. q[w] \in [Msg -> [Retry -> Nat]]
    BY DEF Queues
  <2>2. CASE EventOf[m] \in Events[w]
    <3>1. Routed(q, m, n)[w] = [q[w] EXCEPT ![m][n] = @ + 1]
      BY <2>2 DEF Routed
    <3>2. q[w][m] \in [Retry -> Nat] /\ q[w][m][n] \in Nat
      BY <2>1
    <3> QED BY <2>1, <3>1, <3>2
  <2>3. CASE EventOf[m] \notin Events[w]
    <3>1. Routed(q, m, n)[w] = q[w]
      BY <2>3 DEF Routed
    <3> QED BY <2>1, <2>3, <3>1
  <2> QED BY <2>2, <2>3
<1>2. Routed(q, m, n) = [w \in Worker |-> Routed(q, m, n)[w]]
  BY DEF Routed
<1> QED BY <1>1, <1>2 DEF Queues

\* Taking a copy from worker w's queue leaves every other copy where it is.
LEMMA TakenQueues ==
  ASSUME queue \in Queues, NEW w \in Worker, NEW m \in Msg, NEW n \in Retry, queue[w][m][n] > 0
  PROVE  /\ Taken(w, m, n) \in Queues
         /\ \A v \in Worker, x \in Msg, k \in Retry :
              v # w \/ x # m => Taken(w, m, n)[v][x][k] = queue[v][x][k]
<1>1. queue[w] \in [Msg -> [Retry -> Nat]] /\ queue[w][m] \in [Retry -> Nat] /\ queue[w][m][n] \in Nat
  BY DEF Queues
<1>2. queue[w][m][n] - 1 \in Nat
  BY <1>1
<1>3. Taken(w, m, n) = [queue EXCEPT ![w] = [queue[w] EXCEPT ![m] = [queue[w][m] EXCEPT ![n] = queue[w][m][n] - 1]]]
  BY DEF Taken
<1>4. [queue[w][m] EXCEPT ![n] = queue[w][m][n] - 1] \in [Retry -> Nat]
  BY <1>1, <1>2
<1>5. [queue[w] EXCEPT ![m] = [queue[w][m] EXCEPT ![n] = queue[w][m][n] - 1]] \in [Msg -> [Retry -> Nat]]
  BY <1>1, <1>4
<1> QED BY <1>1, <1>3, <1>5 DEF Queues

-----------------------------------------------------------------------------
(* Types.                                                                  *)

\* Every action keeps the types.
LEMMA TypeStep ==
  ASSUME TopologyAssumption, TypeOK, [Next]_vars
  PROVE  TypeOK'
<1> USE DEF TypeOK
<1>0. queue \in Queues
  BY DEF Queues
<1>1. ASSUME NEW m \in Msg, Publish(m) PROVE TypeOK'
  <2>1. 0 \in Retry
    BY DEF Retry
  <2> QED BY <1>0, <1>1, <2>1, RoutedQueues DEF Publish, Queues
<1>2. ASSUME NEW w \in Worker, Expire(w) PROVE TypeOK'
  <2>1. delay[w] \in Seq(Delayed) /\ delay[w] # << >>
    BY <1>2 DEF Expire, Expired
  <2>2. Head(delay[w]) \in Delayed /\ Tail(delay[w]) \in Seq(Delayed)
    BY <2>1
  <2>3. Head(delay[w]).msg \in Msg /\ Head(delay[w]).retry \in Retry
    BY <2>2 DEF Delayed
  <2> QED BY <1>0, <1>2, <2>2, <2>3, RoutedQueues DEF Expire, Queues
<1>3. CASE Tick
  <2>1. ASSUME NEW c \in Delayed PROVE Older(c) \in Delayed
    <3>1. c.ttl \in Nat /\ c.waited \in Nat /\ c.msg \in Msg /\ c.retry \in Retry
      BY DEF Delayed
    <3>2. (IF c.ttl = 0 THEN 0 ELSE c.ttl - 1) \in Nat /\ c.waited + 1 \in Nat
      BY <3>1
    <3> QED BY <3>1, <3>2 DEF Older, Delayed
  <2>2. ASSUME NEW w \in Worker
        PROVE  [i \in DOMAIN delay[w] |-> Older(delay[w][i])] \in Seq(Delayed)
    <3>1. delay[w] \in Seq(Delayed)
      OBVIOUS
    <3>2. DOMAIN delay[w] = 1..Len(delay[w]) /\ Len(delay[w]) \in Nat
          /\ \A i \in 1..Len(delay[w]) : delay[w][i] \in Delayed
      BY <3>1
    <3> DEFINE aged == [i \in 1..Len(delay[w]) |-> Older(delay[w][i])]
    <3>3. \A i \in 1..Len(delay[w]) : aged[i] \in Delayed
      BY <2>1, <3>2
    <3>4. aged \in [1..Len(delay[w]) -> Delayed]
      BY <3>3
    <3> HIDE DEF aged
    <3>5. aged \in Seq(Delayed)
      BY <3>2, <3>4, FunctionIsSeq
    <3> QED BY <3>2, <3>5 DEF aged
  <2> QED BY <1>3, <2>2 DEF Tick
<1>4. ASSUME NEW w \in Worker, NEW m \in Msg, NEW n \in Retry, Succeed(w, m, n) PROVE TypeOK'
  BY <1>0, <1>4, TakenQueues DEF Succeed, Queues
<1>5. ASSUME NEW w \in Worker, NEW m \in Msg, NEW n \in Retry, RetryLater(w, m, n) PROVE TypeOK'
  <2> DEFINE d == DelayOf(w, NextCount(n))
             copy == [msg |-> m, retry |-> NextCount(n), ttl |-> d, waited |-> 0]
  <2>1. copy \in Delayed
    BY <1>5, NextIsRetry DEF RetryLater, Delayed
  <2>2. delay' = [v \in Worker |-> IF v \in BoundTo(w)' THEN Append(delay[v], copy) ELSE delay[v]]
    BY <1>5 DEF RetryLater
  <2>3. \A v \in Worker : Append(delay[v], copy) \in Seq(Delayed)
    BY <2>1
  <2>4. delay' \in [Worker -> Seq(Delayed)]
    BY <2>2, <2>3
  <2> QED BY <1>0, <1>5, <2>4, TakenQueues DEF RetryLater, Queues
<1>6. ASSUME NEW w \in Worker, NEW m \in Msg, NEW n \in Retry, RetryNow(w, m, n) PROVE TypeOK'
  <2>1. NextCount(n) \in Retry
    BY <1>6, NextIsRetry DEF RetryNow
  <2> QED BY <1>0, <1>6, <2>1, TakenQueues, RoutedQueues DEF RetryNow, Queues
<1>7. ASSUME NEW w \in Worker, NEW m \in Msg, NEW n \in Retry, DeadLetter(w, m, n) PROVE TypeOK'
  BY <1>0, <1>7, TakenQueues DEF DeadLetter, Queues
<1>8. CASE UNCHANGED vars
  BY <1>8 DEF vars
<1> QED BY <1>1, <1>2, <1>3, <1>4, <1>5, <1>6, <1>7, <1>8 DEF Next, Handle

\* The queues, the delay queues and the retry counts have the types of the code.
THEOREM TypeCorrect == Spec => []TypeOK
<1>1. ASSUME Init PROVE TypeOK
  <2>1. [w \in Worker |-> << >>] \in [Worker -> Seq(Delayed)]
    OBVIOUS
  <2> QED BY <1>1, <2>1 DEF Init, TypeOK
<1>2. TypeOK /\ [Next]_vars => TypeOK'
  BY TopologyAssumption, TypeStep
<1> QED BY <1>1, <1>2, PTL DEF Spec

-----------------------------------------------------------------------------
(* No worker loses a message.                                              *)

InQueue(w, m) == \E n \in Retry : queue[w][m][n] > 0
InDelay(w, m) == \E i \in DOMAIN delay[w] : delay[w][i].msg = m
Served(w, m)  == m \in done[w] \/ m \in dlq[w] \/ InQueue(w, m) \/ InDelay(w, m)

\* What a worker has put off, or has in its queue, is not taken from it by steps
\* that only add.
LEMMA QueueGrows ==
  ASSUME TypeOK, NEW m \in Msg, NEW n \in Retry, NEW w \in Worker, NEW x \in Msg, InQueue(w, x),
         NEW q \in Queues, \A k \in Retry : q[w][x][k] = queue[w][x][k],
         queue' = Routed(q, m, n)
  PROVE  InQueue(w, x)'
<1>1. PICK k \in Retry : queue[w][x][k] > 0
  BY DEF InQueue
<1>2. q[w][x][k] > 0 /\ q[w][x][k] \in Nat
  BY <1>1 DEF TypeOK
<1>3. Routed(q, m, n)[w][x][k] >= q[w][x][k] /\ Routed(q, m, n)[w][x][k] \in Nat
  BY RoutedQueues DEF Queues
<1> QED BY <1>2, <1>3 DEF InQueue

\* Handling a copy of m leaves all other messages of w, and all of other workers.
LEMMA OthersStay ==
  ASSUME TypeOK, NEW w \in Worker, NEW m \in Msg, NEW n \in Retry, queue[w][m][n] > 0,
         NEW v \in Worker, NEW x \in Msg, v # w \/ x # m, InQueue(v, x)
  PROVE  \E k \in Retry : Taken(w, m, n)[v][x][k] > 0
<1>1. PICK k \in Retry : queue[v][x][k] > 0
  BY DEF InQueue
<1>2. queue \in Queues
  BY DEF TypeOK, Queues
<1>3. Taken(w, m, n)[v][x][k] = queue[v][x][k]
  BY <1>2, TakenQueues
<1> QED BY <1>1, <1>3

\* Each action keeps every message somewhere for each worker bound to it.
LEMMA ServedStep ==
  ASSUME TopologyAssumption, TypeOK, EachWorkerServed, [Next]_vars
  PROVE  EachWorkerServed'
<1> USE TopologyAssumption
<1>0. queue \in Queues
  BY DEF TypeOK, Queues
<1>a. SUFFICES ASSUME NEW v \in Worker, NEW x \in published', EventOf[x] \in Events[v]
               PROVE  Served(v, x)'
  BY DEF EachWorkerServed, Served, Holds, InQueue, InDelay
<1>b. x \in published => x \in Msg /\ Served(v, x)
  BY <1>a DEF EachWorkerServed, Served, Holds, InQueue, InDelay, TypeOK
<1>1. ASSUME NEW m \in Msg, Publish(m) PROVE Served(v, x)'
  <2>1. 0 \in Retry /\ queue' = Routed(queue, m, 0) /\ UNCHANGED <<delay, dlq, done>>
    BY <1>1 DEF Publish, Retry
  <2>2. CASE x = m
    BY <1>a, <1>0, <2>1, <2>2, RoutedQueues DEF Served, InQueue
  <2>3. CASE x # m
    <3>1. x \in published /\ x \in Msg
      BY <1>1, <1>b, <2>3 DEF Publish
    <3>2. InQueue(v, x) => InQueue(v, x)'
      BY <1>0, <2>1, <3>1, QueueGrows
    <3> QED BY <1>b, <2>1, <3>1, <3>2 DEF Served, InDelay
  <2> QED BY <2>2, <2>3
<1>2. ASSUME NEW w \in Worker, Expire(w) PROVE Served(v, x)'
  <2> DEFINE h == Head(delay[w])
  <2>1. delay[w] \in Seq(Delayed) /\ delay[w] # << >>
    BY <1>2 DEF Expire, Expired, TypeOK
  <2>2. h \in Delayed /\ h = delay[w][1]
    BY <2>1
  <2>3. h.msg \in Msg /\ h.retry \in Retry
    BY <2>2 DEF Delayed
  <2>4. /\ x \in published /\ queue' = Routed(queue, h.msg, h.retry) /\ UNCHANGED <<dlq, done>>
        /\ delay' = [delay EXCEPT ![w] = Tail(@)]
    BY <1>2 DEF Expire
  <2> HIDE DEF h
  <2>5. InQueue(v, x) => InQueue(v, x)'
    BY <1>0, <1>b, <2>3, <2>4, QueueGrows
  <2>6. ASSUME InDelay(v, x) PROVE InDelay(v, x)' \/ InQueue(v, x)'
    <3>1. CASE v # w
      BY <2>4, <2>6, <3>1 DEF InDelay, TypeOK
    <3>2. CASE v = w /\ x = h.msg
      BY <1>0, <1>a, <2>3, <2>4, <3>2, RoutedQueues DEF InQueue
    <3>3. CASE v = w /\ x # h.msg
      <4>1. PICK i \in DOMAIN delay[w] : delay[w][i].msg = x
        BY <2>6, <3>3 DEF InDelay
      <4>2. i # 1 /\ i \in 1..Len(delay[w]) /\ Len(delay[w]) \in Nat
        BY <2>1, <2>2, <3>3, <4>1
      <4>3. i - 1 \in DOMAIN Tail(delay[w]) /\ Tail(delay[w])[i - 1] = delay[w][i]
        BY <2>1, <4>2, TailElements
      <4>4. delay'[w] = Tail(delay[w])
        BY <2>4 DEF TypeOK
      <4> QED BY <3>3, <4>1, <4>3, <4>4 DEF InDelay
    <3> QED BY <3>1, <3>2, <3>3
  <2> QED BY <1>b, <2>4, <2>5, <2>6 DEF Served
<1>3. CASE Tick
  <2>1. /\ UNCHANGED <<published, queue, dlq, done>>
        /\ delay'[v] = [i \in DOMAIN delay[v] |-> Older(delay[v][i])]
    BY <1>3 DEF Tick
  <2>2. \A i \in DOMAIN delay[v] : delay'[v][i].msg = delay[v][i].msg
    BY <2>1 DEF Older
  <2> QED BY <1>b, <2>1, <2>2 DEF Served, InDelay, InQueue
<1>4. ASSUME NEW w \in Worker, NEW m \in Msg, NEW n \in Retry, Succeed(w, m, n)
      PROVE  Served(v, x)'
  <2>1. /\ queue[w][m][n] > 0 /\ queue' = Taken(w, m, n) /\ done' = [done EXCEPT ![w] = @ \cup {m}]
        /\ UNCHANGED <<published, delay, dlq>>
    BY <1>4 DEF Succeed
  <2>2. CASE v = w /\ x = m
    BY <2>1, <2>2 DEF Served, TypeOK
  <2>3. CASE v # w \/ x # m
    BY <1>b, <2>1, <2>3, OthersStay DEF Served, InQueue, InDelay, TypeOK
  <2> QED BY <2>2, <2>3
<1>5. ASSUME NEW w \in Worker, NEW m \in Msg, NEW n \in Retry, RetryLater(w, m, n)
      PROVE  Served(v, x)'
  <2> DEFINE c == [msg |-> m, retry |-> NextCount(n), ttl |-> DelayOf(w, NextCount(n)), waited |-> 0]
  <2>1. /\ queue[w][m][n] > 0 /\ queue' = Taken(w, m, n) /\ UNCHANGED <<published, dlq, done>>
        /\ delaying' = delaying \cup {w}
        /\ delay' = [u \in Worker |-> IF u \in delaying' THEN Append(delay[u], c) ELSE delay[u]]
    BY <1>5 DEF RetryLater, BoundTo
  <2>2. c.msg = m
    OBVIOUS
  <2>3. c \in Delayed
    BY <1>5, NextIsRetry DEF RetryLater, Delayed
  <2> HIDE DEF c
  <2>4. delay[v] \in Seq(Delayed)
    BY DEF TypeOK
  <2>5. CASE v = w /\ x = m
    <3>1. delay'[v] = Append(delay[v], c)
      BY <2>1, <2>5
    <3>2. Len(delay[v]) + 1 \in DOMAIN delay'[v] /\ delay'[v][Len(delay[v]) + 1].msg = x
      BY <2>2, <2>3, <2>4, <2>5, <3>1, AppendElements
    <3> QED BY <3>2 DEF Served, InDelay
  <2>6. CASE v # w \/ x # m
    <3>1. InQueue(v, x) => InQueue(v, x)'
      BY <1>b, <2>1, <2>6, OthersStay DEF InQueue
    <3>2. ASSUME NEW i \in DOMAIN delay[v], delay[v][i].msg = x
          PROVE  i \in DOMAIN delay'[v] /\ delay'[v][i].msg = x
      <4>1. i \in DOMAIN Append(delay[v], c) /\ Append(delay[v], c)[i] = delay[v][i]
        BY <2>3, <2>4, AppendElements
      <4>2. delay'[v] = delay[v] \/ delay'[v] = Append(delay[v], c)
        BY <2>1
      <4> QED BY <3>2, <4>1, <4>2
    <3> QED BY <1>b, <2>1, <3>1, <3>2 DEF Served, InDelay
  <2> QED BY <2>5, <2>6
<1>6. ASSUME NEW w \in Worker, NEW m \in Msg, NEW n \in Retry, RetryNow(w, m, n)
      PROVE  Served(v, x)'
  <2>1. /\ queue[w][m][n] > 0 /\ queue' = Routed(Taken(w, m, n), m, NextCount(n))
        /\ UNCHANGED <<published, delay, dlq, done>> /\ NextCount(n) \in Retry
    BY <1>6, NextIsRetry DEF RetryNow
  <2>2. Taken(w, m, n) \in Queues
    BY <1>0, <2>1, TakenQueues
  <2>3. CASE x = m
    BY <1>a, <2>1, <2>2, <2>3, RoutedQueues DEF Served, InQueue
  <2>4. CASE x # m
    <3>1. x \in Msg /\ \A k \in Retry : Taken(w, m, n)[v][x][k] = queue[v][x][k]
      BY <1>0, <1>b, <2>1, <2>4, TakenQueues
    <3>2. InQueue(v, x) => InQueue(v, x)'
      BY <2>1, <2>2, <3>1, QueueGrows
    <3> QED BY <1>b, <2>1, <3>2 DEF Served, InDelay
  <2> QED BY <2>3, <2>4
<1>7. ASSUME NEW w \in Worker, NEW m \in Msg, NEW n \in Retry, DeadLetter(w, m, n)
      PROVE  Served(v, x)'
  <2>1. /\ queue[w][m][n] > 0 /\ queue' = Taken(w, m, n) /\ UNCHANGED <<published, delay, done>>
        /\ dlq' = [u \in Worker |-> IF u \in deadLettering' THEN dlq[u] \cup {m} ELSE dlq[u]]
        /\ w \in deadLettering'
    BY <1>7 DEF DeadLetter
  <2>2. CASE v = w /\ x = m
    BY <2>1, <2>2 DEF Served
  <2>3. CASE v # w \/ x # m
    BY <1>b, <2>1, <2>3, OthersStay DEF Served, InQueue, InDelay
  <2> QED BY <2>2, <2>3
<1>8. CASE UNCHANGED vars
  BY <1>b, <1>8 DEF vars, Served, InQueue, InDelay
<1> QED BY <1>1, <1>2, <1>3, <1>4, <1>5, <1>6, <1>7, <1>8 DEF Next, Handle

\* Whoever shares an exchange and retries or dead-letters whatever, each worker
\* bound to a published message has succeeded with it, or has it in its queue,
\* its delay queue or its dead-letter queue.
THEOREM NoWorkerLosesAMessage == Spec => []EachWorkerServed
<1>1. Init => EachWorkerServed
  BY DEF Init, EachWorkerServed
<1>2. TypeOK /\ EachWorkerServed /\ [Next]_vars => EachWorkerServed'
  BY TopologyAssumption, ServedStep
<1> QED BY <1>1, <1>2, TypeCorrect, PTL DEF Spec

-----------------------------------------------------------------------------
(* No copy waits longer than the longest delay.                            *)

\* Who is ahead in a delay queue has waited as long, and no copy is to wait
\* longer than the maxDelay of the worker that published it.
Ordered ==
  \A w \in Worker : \A i \in DOMAIN delay[w] :
    /\ \A j \in DOMAIN delay[w] : j < i => delay[w][j].waited >= delay[w][i].waited
    /\ delay[w][i].ttl > 0 =>
         \E v \in Worker : delay[w][i].waited + delay[w][i].ttl <= MaxDelay[v]
    /\ \E v \in Worker : delay[w][i].waited <= MaxDelay[v]

\* The places of a delay queue and the times of its copies are numbers.
LEMMA DelayNumbers ==
  ASSUME TypeOK, NEW w \in Worker, NEW i \in DOMAIN delay[w]
  PROVE  i \in Nat /\ delay[w][i].ttl \in Nat /\ delay[w][i].waited \in Nat
<1>1. delay[w] \in Seq(Delayed)
  BY DEF TypeOK
<1>2. DOMAIN delay[w] = 1..Len(delay[w]) /\ Len(delay[w]) \in Nat
  BY <1>1
<1>3. delay[w][i] \in Delayed
  BY <1>1, <1>2
<1> QED BY <1>2, <1>3 DEF Delayed

\* Each action keeps Ordered: time passes only while every head has time left.
LEMMA OrderedStep ==
  ASSUME TopologyAssumption, TypeOK, Ordered, [Next]_vars
  PROVE  Ordered'
<1>a. \A w \in Worker : delay[w] \in Seq(Delayed)
  BY DEF TypeOK
<1>b. \A v \in Worker : MaxDelay[v] \in Nat
  BY DEF TopologyAssumption
<1> SUFFICES ASSUME NEW u \in Worker, NEW i \in DOMAIN delay'[u]
             PROVE  /\ \A j \in DOMAIN delay'[u] : j < i => delay'[u][j].waited >= delay'[u][i].waited
                    /\ delay'[u][i].ttl > 0 =>
                         \E v \in Worker : delay'[u][i].waited + delay'[u][i].ttl <= MaxDelay[v]
                    /\ \E v \in Worker : delay'[u][i].waited <= MaxDelay[v]
  BY DEF Ordered
<1>1. CASE delay'[u] = delay[u]
  BY <1>1 DEF Ordered
<1>2. CASE Expire(u)
  <2>1. delay[u] # << >> /\ delay'[u] = Tail(delay[u])
    BY <1>2 DEF Expire, Expired, TypeOK
  <2>2. \A k \in DOMAIN delay'[u] :
          k \in Nat /\ k + 1 \in DOMAIN delay[u] /\ delay'[u][k] = delay[u][k + 1]
    <3>1. delay[u] \in Seq(Delayed) /\ delay[u] # << >>
      BY <1>a, <2>1
    <3>2. \A k \in DOMAIN Tail(delay[u]) :
            k \in Nat /\ k + 1 \in DOMAIN delay[u] /\ Tail(delay[u])[k] = delay[u][k + 1]
      BY <3>1, TailElements
    <3> QED BY <2>1, <3>2
  <2>3. ASSUME NEW j \in DOMAIN delay'[u], j < i
        PROVE  delay'[u][j].waited >= delay'[u][i].waited
    <3>1. j + 1 < i + 1 /\ j + 1 \in DOMAIN delay[u] /\ i + 1 \in DOMAIN delay[u]
      BY <2>2, <2>3
    <3>2. delay[u][j + 1].waited >= delay[u][i + 1].waited
      BY <3>1 DEF Ordered
    <3> QED BY <2>2, <3>2
  <2> QED BY <2>2, <2>3 DEF Ordered
<1>3. CASE Tick
  <2>1. delay'[u] = [k \in DOMAIN delay[u] |-> Older(delay[u][k])]
    BY <1>3 DEF Tick
  <2>2. DOMAIN delay'[u] = DOMAIN delay[u]
    BY <2>1
  <2>3. \A k \in DOMAIN delay[u] :
          /\ delay'[u][k].waited = delay[u][k].waited + 1
          /\ delay'[u][k].ttl = IF delay[u][k].ttl = 0 THEN 0 ELSE delay[u][k].ttl - 1
    BY <2>1 DEF Older
  <2>4. i \in Nat /\ delay[u][i].waited \in Nat /\ delay[u][i].ttl \in Nat
    BY <2>2, DelayNumbers
  <2>5. \E v \in Worker : delay'[u][i].waited <= MaxDelay[v]
    <3>1. delay[u] # << >>
      BY <1>a, <2>2
    <3>2. 1 \in DOMAIN delay[u] /\ Head(delay[u]) = delay[u][1] /\ delay[u][1].ttl \in Nat
          /\ delay[u][1].waited \in Nat
      BY <1>a, <3>1, TailElements, DelayNumbers
    <3>3. delay[u][1].ttl # 0
      BY <1>3, <3>1, <3>2 DEF Tick, Expired
    <3>4. delay[u][1].ttl > 0
      BY <3>2, <3>3
    <3>5. PICK v \in Worker : delay[u][1].waited + delay[u][1].ttl <= MaxDelay[v]
      BY <3>2, <3>4 DEF Ordered
    <3>6. i = 1 \/ 1 < i
      BY <1>a, <2>2, <2>4
    <3>7. delay[u][1].waited >= delay[u][i].waited
      BY <2>2, <2>4, <3>2, <3>6 DEF Ordered
    <3>8. delay[u][i].waited + 1 <= MaxDelay[v]
      BY <1>b, <2>4, <3>2, <3>4, <3>5, <3>7
    <3> QED BY <2>2, <2>3, <3>8
  <2>6. ASSUME delay'[u][i].ttl > 0
        PROVE  \E v \in Worker : delay'[u][i].waited + delay'[u][i].ttl <= MaxDelay[v]
    <3>1. delay[u][i].ttl > 0 /\ delay'[u][i].ttl = delay[u][i].ttl - 1
          /\ delay'[u][i].waited = delay[u][i].waited + 1
      BY <2>2, <2>3, <2>4, <2>6
    <3>2. PICK v \in Worker : delay[u][i].waited + delay[u][i].ttl <= MaxDelay[v]
      BY <2>2, <3>1 DEF Ordered
    <3> QED BY <2>4, <3>1, <3>2
  <2>7. ASSUME NEW j \in DOMAIN delay'[u], j < i
        PROVE  delay'[u][j].waited >= delay'[u][i].waited
    <3>1. delay[u][j].waited >= delay[u][i].waited /\ delay[u][j].waited \in Nat
      BY <2>2, <2>7, DelayNumbers DEF Ordered
    <3> QED BY <2>2, <2>3, <2>4, <3>1
  <2> QED BY <2>5, <2>6, <2>7
<1>4. ASSUME NEW w \in Worker, NEW m \in Msg, NEW n \in Retry, RetryLater(w, m, n),
             delay'[u] # delay[u]
      PROVE  /\ \A j \in DOMAIN delay'[u] : j < i => delay'[u][j].waited >= delay'[u][i].waited
             /\ delay'[u][i].ttl > 0 =>
                  \E v \in Worker : delay'[u][i].waited + delay'[u][i].ttl <= MaxDelay[v]
             /\ \E v \in Worker : delay'[u][i].waited <= MaxDelay[v]
  <2> DEFINE c == [msg |-> m, retry |-> NextCount(n), ttl |-> DelayOf(w, NextCount(n)), waited |-> 0]
  <2>1. delay'[u] = Append(delay[u], c)
    BY <1>4 DEF RetryLater, BoundTo
  <2>2. DelayOf(w, NextCount(n)) \in Nat /\ DelayOf(w, NextCount(n)) <= MaxDelay[w]
        /\ NextCount(n) \in Retry
    BY <1>4, NextIsRetry DEF RetryLater
  <2>3. c \in Delayed
    BY <2>2 DEF Delayed
  <2>4. c.waited = 0 /\ c.waited + c.ttl <= MaxDelay[w] /\ c.waited <= MaxDelay[w]
    BY <1>b, <2>2
  <2> HIDE DEF c
  <2>5. /\ delay'[u][Len(delay[u]) + 1] = c
        /\ \A k \in DOMAIN delay'[u] : k \in Nat /\ k <= Len(delay[u]) + 1
        /\ \A k \in DOMAIN delay'[u] : k # Len(delay[u]) + 1 =>
             k \in DOMAIN delay[u] /\ delay'[u][k] = delay[u][k]
    BY <1>a, <2>1, <2>3, AppendElements
  <2>6. CASE i = Len(delay[u]) + 1
    <3>1. delay'[u][i] = c
      BY <2>5, <2>6
    <3>2. ASSUME NEW j \in DOMAIN delay'[u], j < i PROVE delay'[u][j].waited >= 0
      <4>1. j # Len(delay[u]) + 1
        BY <2>5, <2>6, <3>2
      <4>2. delay'[u][j].waited \in Nat
        BY <2>5, <4>1, DelayNumbers
      <4> QED BY <4>2
    <3> QED BY <2>4, <3>1, <3>2
  <2>7. CASE i # Len(delay[u]) + 1
    <3>1. i \in DOMAIN delay[u] /\ delay'[u][i] = delay[u][i]
      BY <2>5, <2>7
    <3>2. Len(delay[u]) \in Nat
      BY <1>a
    <3>3. ASSUME NEW j \in DOMAIN delay'[u], j < i
          PROVE  j \in DOMAIN delay[u] /\ delay'[u][j] = delay[u][j]
      <4>1. j # Len(delay[u]) + 1
        BY <2>5, <3>2, <3>3
      <4> QED BY <2>5, <4>1
    <3> QED BY <3>1, <3>3 DEF Ordered
  <2> QED BY <2>6, <2>7
<1>5. \A w \in Worker : Expire(w) /\ w # u => delay'[u] = delay[u]
  BY DEF Expire, TypeOK
<1> QED
  BY <1>1, <1>2, <1>3, <1>4, <1>5 DEF Next, Handle, Publish, Succeed, RetryNow, DeadLetter, vars

\* A copy waits behind others, with longer delays and of other workers, but
\* never longer than the largest maxDelay of the workers on the exchange.
THEOREM WaitingEnds == Spec => []WaitBounded
<1>1. Init => Ordered
  BY DEF Init, Ordered
<1>2. TypeOK /\ Ordered /\ [Next]_vars => Ordered'
  BY TopologyAssumption, OrderedStep
<1>3. Ordered => WaitBounded
  BY DEF Ordered, WaitBounded
<1> QED BY <1>1, <1>2, <1>3, TypeCorrect, PTL DEF Spec
=============================================================================
