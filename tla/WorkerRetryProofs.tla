------------------------- MODULE WorkerRetryProofs -------------------------
(***************************************************************************)
(* Proofs about the retry counts and the dead letters of WorkerDelivery,   *)
(* whatever the manager leaks, the broker drops and the handlers call.     *)
(*                                                                         *)
(* A copy with retry count n was published for a failed delivery of a copy *)
(* with count n - 1 of the same message, and so on down to the original:   *)
(* each smaller count has a failed delivery of its own (AttemptsBacked),   *)
(* which maps 0..(n - 1) one to one into the failed deliveries.  A delivery *)
(* has failed when it went through the inner catch (Caught), for a reason it *)
(* keeps (CatchReasons).  What a delivery was, it stays (History), and     *)
(* failed deliveries stay failed, so that a step endangers the count of the *)
(* copy it publishes only.  That a dead letter has a reason follows from the *)
(* reason its republication had (RepublishReasons) and from the comparison *)
(* in the catch (CatchDecided).                                            *)
(*                                                                         *)
(* Sets of deliveries have a cardinality because finitely many deliveries  *)
(* have begun in each state; the set of all tags may be infinite.          *)
(***************************************************************************)
EXTENDS WorkerDeliveryProofs, FiniteSetTheorems

-----------------------------------------------------------------------------
(* Why a republication is under way.                                       *)

\* What a step that advances delivery t at most leaves of all others.
Spares(t) ==
  /\ \A u \in Tag \ {t} : pc'[u] = pc[u] /\ outcome'[u] = outcome[u] /\ calls'[u] = calls[u]
  /\ \A k \in Task : k[1] # t => step'[k] = step[k]

\* The reasons of one delivery, and of all if the others are spared.
ReasonsOf(t) ==
  /\ pc[t] \in {"idle", "received", "handler", "noHandler"} => outcome[t] = "none"
  /\ step[Callback(t)] # "none" => pc[t] \in {"noHandler", "retry", "dead"}
  /\ step[Manual(t)] # "none" => calls[t] # {}
  /\ step[Manual(t)] \notin {"none", "failed"} => "deadLetter" \in calls[t]

Reasons == \A t \in Tag : ReasonsOf(t)

LEMMA ReasonsAgree == OutcomeAfterHandler /\ RepublishReasons <=> Reasons
BY DEF OutcomeAfterHandler, RepublishReasons, Reasons, ReasonsOf

LEMMA OneAdvances ==
  ASSUME NEW t \in Tag, Reasons, Spares(t), ReasonsOf(t)'
  PROVE  Reasons'
<1> SUFFICES ASSUME NEW u \in Tag, u # t PROVE ReasonsOf(u)'
  BY DEF Reasons
<1>1. Callback(u) \in Task /\ Callback(u)[1] = u /\ Manual(u) \in Task /\ Manual(u)[1] = u
  BY TasksOfDelivery
<1>2. step'[Callback(u)] = step[Callback(u)] /\ step'[Manual(u)] = step[Manual(u)]
  BY <1>1 DEF Spares
<1> QED BY <1>2 DEF Reasons, ReasonsOf, Spares

\* An exception takes the delivery to a catch that keeps its reasons.
LEMMA ThrowReasons ==
  ASSUME TypeOK, DeliveriesKnown, Reasons, NEW k \in Task, step[k] # "none", Throw(k),
         outcome' = outcome, calls' = calls
  PROVE  Spares(k[1]) /\ ReasonsOf(k[1])'
<1>1. /\ k[1] \in Tag /\ Callback(k[1]) \in Task /\ Manual(k[1]) \in Task
      /\ Callback(k[1])[1] = k[1] /\ Callback(k[1]) # Manual(k[1])
      /\ \/ k = Callback(k[1]) /\ k[2] = "callback"
         \/ k = Manual(k[1]) /\ k[2] = "manual"
  BY DeliveryOfTask, TasksOfDelivery
<1>2. ReasonsOf(k[1])
  BY <1>1 DEF Reasons
<1>3. CASE k[2] = "manual" /\ step' = [step EXCEPT ![k] = "failed"]
           /\ UNCHANGED <<place, unsettled, link, pc, unsent>>
  BY <1>1, <1>2, <1>3 DEF TypeOK, Spares, ReasonsOf
<1>4. CASE k[2] = "callback" /\ pc[k[1]] = "noHandler" /\ InnerCatch(k[1])
  BY <1>1, <1>2, <1>4 DEF TypeOK, Spares, ReasonsOf, InnerCatch, RetriesLeft
<1>5. CASE k[2] = "callback" /\ pc[k[1]] # "noHandler" /\ OuterCatch(k[1])
  BY <1>1, <1>2, <1>5 DEF TypeOK, Spares, ReasonsOf, OuterCatch
<1> QED BY <1>3, <1>4, <1>5 DEF Throw

LEMMA ReasonsStep ==
  ASSUME TypeOK, DeliveriesKnown, Reasons, [Next]_vars
  PROVE  Reasons'
<1>1. CASE UNCHANGED <<pc, outcome, calls, step>>
  BY <1>1 DEF Reasons, ReasonsOf, Callback, Manual
<1>2. ASSUME NEW t \in Tag, NEW c \in Copy, NEW g \in Chan, Deliver(t, c, g) PROVE Reasons'
  <2>1. pc[t] = "idle" /\ step[Callback(t)] = "none" /\ step[Manual(t)] = "none"
    BY <1>2 DEF Deliver, NewTags, Fresh, DeliveriesKnown
  <2>2. Spares(t) /\ ReasonsOf(t)'
    BY <1>2, <2>1 DEF Deliver, TypeOK, Spares, Reasons, ReasonsOf, Callback, Manual
  <2> QED BY <2>2, OneAdvances
<1>3. ASSUME NEW t \in Tag, Receive(t) PROVE Reasons'
  <2>1. Spares(t) /\ ReasonsOf(t)'
    BY <1>3, TasksOfDelivery DEF Receive, TypeOK, Spares, Reasons, ReasonsOf
  <2> QED BY <2>1, OneAdvances
<1>4. ASSUME NEW t \in Tag, NEW ctl \in Controls, HandlerCalls(t, ctl) PROVE Reasons'
  <2>1. Spares(t) /\ ReasonsOf(t)'
    BY <1>4, TasksOfDelivery DEF HandlerCalls, TypeOK, Spares, Reasons, ReasonsOf
  <2> QED BY <2>1, OneAdvances
<1>5. ASSUME NEW t \in Tag, HandlerResolves(t) PROVE Reasons'
  <2>1. Spares(t) /\ ReasonsOf(t)'
    BY <1>5, TasksOfDelivery
    DEF HandlerResolves, InnerCatch, RetriesLeft, TypeOK, Spares, Reasons, ReasonsOf
  <2> QED BY <2>1, OneAdvances
<1>6. ASSUME NEW t \in Tag, HandlerRejects(t) PROVE Reasons'
  <2>1. Spares(t) /\ ReasonsOf(t)'
    BY <1>6, TasksOfDelivery
    DEF HandlerRejects, InnerCatch, RetriesLeft, TypeOK, Spares, Reasons, ReasonsOf
  <2> QED BY <2>1, OneAdvances
<1>7. ASSUME NEW k \in Task, TaskStep(k) PROVE Reasons'
  <2>1. /\ k[1] \in Tag /\ step[k] # "none" /\ outcome' = outcome /\ calls' = calls
    BY <1>7, DeliveryOfTask
    DEF TaskStep, GetsChannel, ConnectFails, Republish, RepublishFails, Publishing, Acks
  <2>2. CASE Throw(k)
    BY <2>1, <2>2, ThrowReasons, OneAdvances
  <2>3. CASE pc' = pc /\ \E s \in {"declare", "publish", "ack"} :
                           step' = [step EXCEPT ![k] = s] /\ step[k] # "failed"
    BY <2>1, <2>3, DeliveryOfTask, TasksOfDelivery DEF TypeOK, Reasons, ReasonsOf
  <2>4. CASE GetsChannel(k) \/ Republish(k) \/ RepublishFails(k)
    BY <2>3, <2>4 DEF GetsChannel, Republish, RepublishFails, Publishing
  <2>5. CASE /\ step' = [step EXCEPT ![k] = "none"] /\ outcome' = outcome
             /\ pc' = IF k[2] = "callback" THEN [pc EXCEPT ![k[1]] = Ended(@)] ELSE pc
    <3>1. ReasonsOf(k[1])
      BY <2>1 DEF Reasons
    <3>2. Spares(k[1]) /\ ReasonsOf(k[1])'
      BY <2>1, <2>5, <3>1, DeliveryOfTask, TasksOfDelivery DEF TypeOK, Spares, ReasonsOf, Ended
    <3> QED BY <2>1, <3>2, OneAdvances
  <2> QED BY <1>7, <2>1, <2>2, <2>4, <2>5 DEF TaskStep, ConnectFails, Acks
<1> QED
  BY <1>1, <1>2, <1>3, <1>4, <1>5, <1>6, <1>7
  DEF Next, vars, Publish, Expire, BreakLink, ChannelClosed, Reconnect, Forget, Start, Stop,
      AddHandler, RemoveHandler, broker, client, progress

-----------------------------------------------------------------------------
(* How a delivery advances, and what of its past stays.                    *)

\* The moves of the callback of t: the push, the look-up of the handler, the
\* inner catch, and the end.
Moves(t) ==
  \/ pc'[t] = pc[t]
  \/ pc[t] = "idle" /\ pc'[t] = "received"
  \/ pc[t] = "received" /\ pc'[t] \in {"handler", "noHandler", "done"}
  \/ /\ pc[t] \in {"handler", "noHandler"}
     /\ pc'[t] = IF RetriesLeft(t) THEN "retry" ELSE "dead"
  \/ pc[t] \in {"handler", "noHandler"} /\ pc'[t] = "done"
  \/ pc[t] \in {"retry", "dead"} /\ pc'[t] \in {"failed", "unhandled"}

LEMMA StepMoves ==
  ASSUME TypeOK, DeliveriesKnown, Reasons, [Next]_vars, NEW t \in Tag
  PROVE  Moves(t)
<1>1. CASE UNCHANGED pc
  BY <1>1 DEF Moves
<1>2. ASSUME NEW u \in Tag, NEW c \in Copy, NEW g \in Chan, Deliver(u, c, g) PROVE Moves(t)
  BY <1>2 DEF Deliver, NewTags, Fresh, TypeOK, Moves
<1>3. ASSUME NEW u \in Tag, Receive(u) PROVE Moves(t)
  BY <1>3 DEF Receive, TypeOK, Moves
<1>4. ASSUME NEW u \in Tag, HandlerResolves(u) \/ HandlerRejects(u) PROVE Moves(t)
  BY <1>4 DEF HandlerResolves, HandlerRejects, InnerCatch, TypeOK, Moves
<1>5. ASSUME NEW k \in Task, ConnectFails(k) \/ Acks(k) PROVE Moves(t)
  <2>1. k[1] \in Tag /\ step[k] # "none"
    BY <1>5, DeliveryOfTask DEF ConnectFails, Acks
  <2>2. k[2] = "callback" => pc[k[1]] \in {"noHandler", "retry", "dead"}
    BY <2>1, DeliveryOfTask DEF Reasons, ReasonsOf
  <2>3. \/ pc' = pc
        \/ k[2] = "callback" /\ pc' = [pc EXCEPT ![k[1]] = Ended(@)]
        \/ /\ k[2] = "callback" /\ pc[k[1]] # "noHandler"
           /\ \E e \in {"failed", "unhandled"} : pc' = [pc EXCEPT ![k[1]] = e]
        \/ /\ pc[k[1]] = "noHandler"
           /\ pc' = [pc EXCEPT ![k[1]] = IF RetriesLeft(k[1]) THEN "retry" ELSE "dead"]
    BY <1>5 DEF ConnectFails, Acks, Throw, InnerCatch, OuterCatch
  <2> QED BY <2>1, <2>2, <2>3 DEF TypeOK, Moves, Ended
<1> QED
  BY <1>1, <1>2, <1>3, <1>4, <1>5
  DEF Next, TaskStep, vars, Publish, Expire, BreakLink, ChannelClosed, Reconnect, Forget, Start,
      Stop, AddHandler, RemoveHandler, HandlerCalls, GetsChannel, Republish, RepublishFails,
      broker, client, progress

\* A copy is born by a publish of the application, with no retries, or by a
\* republication of a delivery's message, with its next retry count.
Born(c) ==
  \/ \E m \in Msg : Publish(m) /\ msg' = [msg EXCEPT ![c] = m] /\ retry' = retry
                    /\ place' = [place EXCEPT ![c] = "ready"]
  \/ \E k \in Task : /\ Republish(k) /\ msg' = [msg EXCEPT ![c] = MsgOf(k[1])]
                     /\ retry' = [retry EXCEPT ![c] = NextRetry(k)]
                     /\ place' = [place EXCEPT ![c] = Target(k)]

LEMMA StepBorn ==
  ASSUME [Next]_vars
  PROVE  \/ UNCHANGED <<msg, retry>>
         \/ \E c \in Copy : place[c] = "unborn" /\ Born(c)
<1>1. ASSUME NEW m \in Msg, Publish(m)
      PROVE  \E c \in Copy : place[c] = "unborn" /\ Born(c)
  BY <1>1, FreshSubset DEF Publish, NewCopies, Born
<1>2. ASSUME NEW k \in Task, Republish(k)
      PROVE  UNCHANGED <<msg, retry>> \/ \E c \in Copy : place[c] = "unborn" /\ Born(c)
  BY <1>2, FreshSubset DEF Republish, Send, NewCopies, Born
<1> QED
  BY <1>1, <1>2
  DEF Next, TaskStep, vars, Expire, BreakLink, ChannelClosed, Reconnect, Forget, Start, Stop,
      AddHandler, RemoveHandler, Deliver, Receive, HandlerCalls, HandlerResolves, HandlerRejects,
      GetsChannel, ConnectFails, RepublishFails, Acks, broker, client, progress

\* The deliveries that have begun, and what they carry, stay.
History ==
  \A t \in Tag : pc[t] # "idle" =>
    /\ pc'[t] # "idle" /\ copyOf'[t] = copyOf[t] /\ chanOf'[t] = chanOf[t]
    /\ MsgOf(t)' = MsgOf(t) /\ RetryOf(t)' = RetryOf(t)

LEMMA StepHistory ==
  ASSUME TypeOK, DeliveriesKnown, [Next]_vars
  PROVE  History
<1>1. ASSUME NEW t \in Tag, pc[t] # "idle"
      PROVE  pc'[t] # "idle" /\ copyOf'[t] = copyOf[t] /\ chanOf'[t] = chanOf[t]
  <2>1. ASSUME NEW u \in Tag, NEW c \in Copy, NEW g \in Chan, Deliver(u, c, g)
        PROVE  pc'[t] # "idle" /\ copyOf'[t] = copyOf[t] /\ chanOf'[t] = chanOf[t]
    BY <1>1, <2>1 DEF Deliver, NewTags, Fresh, TypeOK
  <2>2. CASE Next /\ \A u \in Tag, c \in Copy, g \in Chan : ~Deliver(u, c, g)
    BY <1>1, <2>2, DeliveryAssumption, QuietStep DEF Continues
  <2>3. CASE UNCHANGED vars
    BY <1>1, <2>3 DEF vars, client, progress
  <2> QED BY <2>1, <2>2, <2>3
<1>2. \A c \in Copy : place[c] # "unborn" => msg'[c] = msg[c] /\ retry'[c] = retry[c]
  BY StepBorn DEF Born, TypeOK
<1>3. ASSUME NEW t \in Tag, pc[t] # "idle"
      PROVE  MsgOf(t)' = MsgOf(t) /\ RetryOf(t)' = RetryOf(t)
  BY <1>1, <1>2, <1>3 DEF MsgOf, RetryOf, DeliveriesKnown
<1> QED BY <1>1, <1>3 DEF History

\* A failed attempt is never taken back.
LEMMA FailuresStay ==
  ASSUME TypeOK, DeliveriesKnown, Reasons, [Next]_vars, NEW m, NEW t \in FailedDeliveries(m)
  PROVE  t \in FailedDeliveries(m)' /\ RetryOf(t)' = RetryOf(t)
<1>1. t \in Tag /\ MsgOf(t) = m /\ pc[t] \in Caught
  BY DEF FailedDeliveries, DeliveryOf
<1>2. pc'[t] \in Caught
  BY <1>1, StepMoves DEF Moves, Caught
<1> QED BY <1>1, <1>2, StepHistory DEF History, FailedDeliveries, DeliveryOf, Caught

\* What a handler has called it has called; its outcome is set when it returns.
LEMMA CallsStay ==
  ASSUME TypeOK, [Next]_vars, NEW t \in Tag
  PROVE  calls[t] \subseteq calls'[t] /\ (pc[t] = "handler" \/ outcome'[t] = outcome[t])
<1>1. CASE UNCHANGED <<calls, outcome>>
  BY <1>1
<1>2. ASSUME NEW u \in Tag, NEW ctl \in Controls, HandlerCalls(u, ctl)
      PROVE  calls[t] \subseteq calls'[t] /\ outcome'[t] = outcome[t]
  BY <1>2 DEF HandlerCalls, TypeOK
<1>3. ASSUME NEW u \in Tag, HandlerResolves(u) \/ HandlerRejects(u)
      PROVE  calls' = calls /\ (pc[t] = "handler" \/ outcome'[t] = outcome[t])
  BY <1>3 DEF HandlerResolves, HandlerRejects, TypeOK
<1> QED
  BY <1>1, <1>2, <1>3
  DEF Next, TaskStep, vars, Publish, Expire, BreakLink, ChannelClosed, Reconnect, Forget, Start,
      Stop, AddHandler, RemoveHandler, Deliver, Receive, GetsChannel, ConnectFails, Republish,
      RepublishFails, Acks, broker, client, progress

\* No copy that was born is unborn again.
LEMMA StepPersists ==
  ASSUME TypeOK, DeliveriesKnown, [Next]_vars
  PROVE  Persists
<1>1. ASSUME NEW t \in Tag, NEW c \in Copy, NEW g \in Chan, Deliver(t, c, g) PROVE Persists
  BY <1>1 DEF Deliver, Persists, TypeOK
<1>2. CASE Next /\ \A t \in Tag, c \in Copy, g \in Chan : ~Deliver(t, c, g)
  BY <1>2, DeliveryAssumption, QuietStep
<1>3. CASE UNCHANGED vars
  BY <1>3 DEF vars, broker, Persists
<1> QED BY <1>1, <1>2, <1>3

-----------------------------------------------------------------------------
(* The retry counts.                                                       *)

\* A count of r is backed by r failed deliveries of m, one for each smaller count.
Backed(m, r) == \A n \in 0..(r - 1) : \E t \in FailedDeliveries(m) : RetryOf(t) = n

LEMMA BackingStays ==
  ASSUME TypeOK, DeliveriesKnown, Reasons, [Next]_vars, NEW m, NEW r \in Nat, Backed(m, r)
  PROVE  Backed(m, r)'
<1> SUFFICES ASSUME NEW n \in 0..(r - 1)
             PROVE  \E t \in FailedDeliveries(m)' : RetryOf(t)' = n
  BY DEF Backed
<1>1. PICK t \in FailedDeliveries(m) : RetryOf(t) = n
  BY DEF Backed
<1> QED BY <1>1, FailuresStay

\* A republished copy has one attempt more than its delivery, which failed, or
\* as many.
LEMMA BornBacked ==
  ASSUME TypeOK, DeliveriesKnown, Reasons, AttemptsBacked, CatchDecided, [Next]_vars,
         NEW k \in Task, Republish(k)
  PROVE  /\ NextRetry(k) \in 0..MaxRetries
         /\ Backed(MsgOf(k[1]), NextRetry(k))
<1>1. k[1] \in Tag /\ pc[k[1]] # "idle" /\ copyOf[k[1]] \in Copy
  BY BusyTask, DeliveryOfTask DEF Republish, Publishing
<1>2. RetryOf(k[1]) \in Nat /\ RetryOf(k[1]) <= MaxRetries /\ MaxRetries \in Nat
  BY <1>1, DeliveryAssumption DEF AttemptsBacked, RetryOf, TypeOK
<1>3. Backed(MsgOf(k[1]), RetryOf(k[1]))
  BY <1>1 DEF AttemptsBacked, Backed, RetryOf, MsgOf
<1>4. CASE Retrying(k)
  <2>1. pc[k[1]] = "retry" /\ NextRetry(k) = RetryOf(k[1]) + 1
    BY <1>4 DEF Retrying, NextRetry
  <2>2. RetryOf(k[1]) < MaxRetries
    BY <1>1, <2>1 DEF CatchDecided
  <2>3. k[1] \in FailedDeliveries(MsgOf(k[1]))
    BY <1>1, <2>1 DEF FailedDeliveries, DeliveryOf, Caught
  <2>4. \A n \in 0..(NextRetry(k) - 1) : n \in 0..(RetryOf(k[1]) - 1) \/ n = RetryOf(k[1])
    BY <1>2, <2>1
  <2>5. NextRetry(k) \in 0..MaxRetries
    BY <1>2, <2>1, <2>2
  <2> QED BY <1>3, <2>3, <2>4, <2>5 DEF Backed
<1>5. CASE ~Retrying(k)
  <2>1. NextRetry(k) = RetryOf(k[1])
    BY <1>2, <1>5 DEF NextRetry
  <2> QED BY <1>2, <1>3, <2>1
<1> QED BY <1>4, <1>5

LEMMA BackedStep ==
  ASSUME TypeOK, DeliveriesKnown, Reasons, AttemptsBacked, CatchDecided, [Next]_vars
  PROVE  AttemptsBacked'
<1> SUFFICES ASSUME NEW c \in Copy
             PROVE  /\ place'[c] = "unborn" => retry'[c] = 0
                    /\ retry'[c] <= MaxRetries
                    /\ Backed(msg[c], retry[c])'
  BY DEF AttemptsBacked, Backed
<1>1. /\ place[c] = "unborn" => retry[c] = 0
      /\ retry[c] <= MaxRetries
      /\ Backed(msg[c], retry[c])
  BY DEF AttemptsBacked, Backed
<1>2. retry[c] \in Nat /\ MaxRetries \in Nat /\ msg[c] \in Msg \cup {None}
  BY DeliveryAssumption DEF TypeOK
<1>3. CASE msg'[c] = msg[c] /\ retry'[c] = retry[c]
  <2>1. place'[c] = "unborn" => place[c] = "unborn"
    BY StepPersists DEF Persists
  <2>2. PICK m \in Msg \cup {None}, r \in Nat : m = msg[c] /\ r = retry[c]
    BY <1>2
  <2>3. Backed(m, r)'
    BY <1>1, <2>2, BackingStays
  <2> QED BY <1>1, <1>3, <2>1, <2>2, <2>3 DEF Backed
<1>4. ASSUME NEW m \in Msg, msg' = [msg EXCEPT ![c] = m], retry' = retry,
             place' = [place EXCEPT ![c] = "ready"], place[c] = "unborn"
      PROVE  place'[c] # "unborn" /\ retry'[c] = 0 /\ Backed(msg[c], retry[c])'
  <2>1. place'[c] # "unborn" /\ retry'[c] = 0
    BY <1>1, <1>4 DEF TypeOK
  <2> QED BY <2>1 DEF Backed
<1>5. ASSUME NEW k \in Task, Republish(k), msg' = [msg EXCEPT ![c] = MsgOf(k[1])],
             retry' = [retry EXCEPT ![c] = NextRetry(k)],
             place' = [place EXCEPT ![c] = Target(k)]
      PROVE  place'[c] # "unborn" /\ retry'[c] <= MaxRetries /\ Backed(msg[c], retry[c])'
  <2>1. place'[c] # "unborn"
    BY <1>5 DEF TypeOK, Target, DeadLetterQueue
  <2>2. msg'[c] = MsgOf(k[1]) /\ retry'[c] = NextRetry(k)
    BY <1>5 DEF TypeOK
  <2>3. NextRetry(k) \in 0..MaxRetries /\ Backed(MsgOf(k[1]), NextRetry(k))
    BY <1>5, BornBacked
  <2>4. MsgOf(k[1]) \in Msg \cup {None} /\ NextRetry(k) \in Nat
    BY <1>2, <1>5, <2>3, BusyTask DEF Republish, Publishing, MsgOf, TypeOK
  <2>5. PICK m \in Msg \cup {None}, r \in Nat : m = MsgOf(k[1]) /\ r = NextRetry(k)
    BY <2>4
  <2>6. Backed(m, r)'
    BY <2>3, <2>5, BackingStays
  <2> QED BY <1>2, <2>1, <2>2, <2>3, <2>5, <2>6 DEF Backed
<1> QED
  <2>1. \/ msg'[c] = msg[c] /\ retry'[c] = retry[c]
        \/ place[c] = "unborn" /\ Born(c)
    BY StepBorn DEF Born, TypeOK
  <2> QED BY <1>2, <1>3, <1>4, <1>5, <2>1 DEF Born

\* The inner catch compares with maxRetries, and no header changes afterwards.
LEMMA CatchStep ==
  ASSUME TypeOK, DeliveriesKnown, Reasons, AttemptsBacked, CatchDecided, [Next]_vars
  PROVE  CatchDecided'
<1> SUFFICES ASSUME NEW t \in Tag, pc'[t] \in {"retry", "dead"}
             PROVE  /\ pc'[t] = "retry" => RetryOf(t)' < MaxRetries
                    /\ pc'[t] = "dead" => RetryOf(t)' = MaxRetries
  BY DEF CatchDecided
<1>1. Moves(t)
  BY StepMoves
<1>2. pc[t] # "idle" /\ RetryOf(t)' = RetryOf(t)
  BY <1>1, StepHistory DEF Moves, History
<1>3. CASE pc'[t] = pc[t]
  BY <1>2, <1>3 DEF CatchDecided
<1>4. CASE pc'[t] # pc[t]
  <2>1. pc'[t] = IF RetryOf(t) < MaxRetries THEN "retry" ELSE "dead"
    BY <1>1, <1>4 DEF Moves, RetriesLeft
  <2>2. RetryOf(t) \in Nat /\ RetryOf(t) <= MaxRetries /\ MaxRetries \in Nat
    BY <1>2, DeliveryAssumption DEF AttemptsBacked, DeliveriesKnown, RetryOf, TypeOK
  <2> QED BY <1>2, <2>1, <2>2
<1> QED BY <1>3, <1>4

\* The client never hears of a closed channel again.
LEMMA ClosedStays ==
  ASSUME TypeOK, DeliveriesKnown, [Next]_vars, NEW g \in Chan, link[g] = "closed"
  PROVE  link'[g] = "closed"
<1>1. CASE UNCHANGED link
  BY <1>1
<1>2. ASSUME NEW h \in Chan, BreakLink(h) \/ ChannelClosed(h) PROVE link'[g] = "closed"
  BY <1>2 DEF BreakLink, Drop, ChannelClosed, TypeOK
<1>3. ASSUME NEW h \in Chan, GetChannel(h) PROVE link'[g] = "closed"
  BY <1>3, GetChannelLinks
<1>4. ASSUME NEW t \in Tag, NEW to, chanOf[t] \in Chan, Settle(t, to) PROVE link'[g] = "closed"
  BY <1>4 DEF Settle, Drop, TypeOK
<1>5. ASSUME NEW t \in Tag, \/ Receive(t) \/ HandlerResolves(t) \/ HandlerRejects(t)
                            \/ \E ctl \in Controls : HandlerCalls(t, ctl)
      PROVE  link'[g] = "closed"
  <2>1. chanOf[t] \in Chan
    BY <1>5 DEF Receive, HandlerResolves, HandlerRejects, HandlerCalls, DeliveriesKnown
  <2> QED
    BY <1>4, <1>5, <2>1
    DEF Receive, HandlerResolves, HandlerRejects, HandlerCalls, Acked
<1>6. ASSUME NEW k \in Task, ConnectFails(k) \/ Acks(k) PROVE link'[g] = "closed"
  <2>1. k[1] \in Tag /\ chanOf[k[1]] \in Chan
    BY <1>6, BusyTask, DeliveryOfTask DEF ConnectFails, Acks
  <2> QED BY <1>4, <1>6, <2>1 DEF ConnectFails, Acks, Acked, Throw, InnerCatch, OuterCatch
<1> QED
  BY <1>1, <1>2, <1>3, <1>5, <1>6
  DEF Next, TaskStep, vars, Publish, Expire, Reconnect, Forget, Start, Stop, AddHandler,
      RemoveHandler, Deliver, GetsChannel, Republish, RepublishFails, broker, client, progress

\* A handler whose delivery goes to the inner catch threw, or the ack after it did.
LEMMA HandlerCaught ==
  ASSUME TypeOK, DeliveriesKnown, [Next]_vars,
         NEW t \in Tag, pc[t] = "handler", pc'[t] \in {"retry", "dead"}
  PROVE  \/ outcome'[t] = "rejected"
         \/ outcome'[t] = "succeeded" /\ link'[chanOf[t]] = "closed"
<1>1. ASSUME NEW u \in Tag, HandlerResolves(u) PROVE outcome'[t] = "succeeded" /\ link'[chanOf[t]] = "closed"
  <2>1. u = t /\ ~manualAckUsed(t) /\ ~Open(chanOf[t]) /\ UNCHANGED link
    BY <1>1 DEF HandlerResolves, InnerCatch, TypeOK
  <2>2. link[chanOf[t]] = "closed"
    BY <2>1 DEF DeliveriesKnown, TypeOK, LinkView, Open
  <2> QED BY <1>1, <2>1, <2>2 DEF HandlerResolves, TypeOK
<1>2. ASSUME NEW u \in Tag, HandlerRejects(u) PROVE outcome'[t] = "rejected"
  BY <1>2 DEF HandlerRejects, InnerCatch, TypeOK
<1>3. ASSUME NEW u \in Tag, Receive(u) \/ (\E c \in Copy, g \in Chan : Deliver(u, c, g)) PROVE FALSE
  BY <1>3 DEF Receive, Deliver, TypeOK
<1>4. ASSUME NEW k \in Task, ConnectFails(k) \/ Acks(k) PROVE FALSE
  <2>1. k[1] \in Tag /\ step[k] # "none"
    BY <1>4, DeliveryOfTask DEF ConnectFails, Acks
  <2>2. \/ pc' = pc
        \/ pc' = [pc EXCEPT ![k[1]] = Ended(@)]
        \/ \E e \in {"failed", "unhandled"} : pc' = [pc EXCEPT ![k[1]] = e]
        \/ pc[k[1]] = "noHandler" /\ \A u \in Tag \ {k[1]} : pc'[u] = pc[u]
    BY <1>4, <2>1 DEF ConnectFails, Acks, Throw, InnerCatch, OuterCatch, TypeOK
  <2> QED BY <2>1, <2>2 DEF TypeOK, Ended
<1>5. CASE UNCHANGED pc
  BY <1>5
<1> QED
  BY <1>1, <1>2, <1>3, <1>4, <1>5
  DEF Next, TaskStep, vars, Publish, Expire, BreakLink, ChannelClosed, Reconnect, Forget, Start,
      Stop, AddHandler, RemoveHandler, HandlerCalls, GetsChannel, Republish, RepublishFails,
      broker, client, progress

\* The inner catch has its reason when a delivery enters it, and keeps it.
LEMMA CatchReasonsStep ==
  ASSUME TypeOK, DeliveriesKnown, Reasons, CatchReasons, [Next]_vars
  PROVE  CatchReasons'
<1> SUFFICES ASSUME NEW t \in Tag, pc'[t] \in Caught
             PROVE  \/ outcome'[t] \in {"rejected", "none"}
                    \/ outcome'[t] = "succeeded" /\ link'[chanOf'[t]] = "closed"
  BY DEF CatchReasons
<1>1. Moves(t)
  BY StepMoves
<1>2. pc[t] # "idle" /\ chanOf'[t] = chanOf[t] /\ chanOf[t] \in Chan
  BY <1>1, StepHistory DEF Moves, History, Caught, DeliveriesKnown
<1>3. CASE pc[t] \in Caught
  <2>1. outcome'[t] = outcome[t]
    BY <1>3, CallsStay DEF Caught
  <2> QED BY <1>2, <1>3, <2>1, ClosedStays DEF CatchReasons
<1>4. CASE pc[t] = "noHandler"
  BY <1>4, CallsStay DEF Reasons, ReasonsOf
<1>5. CASE pc[t] = "handler"
  <2>1. pc'[t] \in {"retry", "dead"}
    BY <1>1, <1>5 DEF Moves, Caught
  <2> QED BY <1>2, <1>5, <2>1, HandlerCaught
<1> QED BY <1>1, <1>3, <1>4, <1>5 DEF Moves, Caught

\* Only finitely many deliveries have begun, so the failed ones can be counted.
FiniteDeliveries == IsFiniteSet({t \in Tag : pc[t] # "idle"})

LEMMA FiniteStep ==
  ASSUME TypeOK, DeliveriesKnown, FiniteDeliveries, [Next]_vars
  PROVE  FiniteDeliveries'
<1> DEFINE Begun == {t \in Tag : pc[t] # "idle"}
<1>1. ASSUME NEW t \in Tag, NEW c \in Copy, NEW g \in Chan, Deliver(t, c, g)
      PROVE  FiniteDeliveries'
  <2>1. Begun' = Begun \cup {t}
    BY <1>1 DEF Deliver, TypeOK
  <2> QED BY <2>1, FS_AddElement DEF FiniteDeliveries
<1>2. CASE Next /\ \A t \in Tag, c \in Copy, g \in Chan : ~Deliver(t, c, g)
  <2>1. Begun' = Begun
    BY <1>2, DeliveryAssumption, QuietStep DEF Continues
  <2> QED BY <2>1 DEF FiniteDeliveries
<1>3. CASE UNCHANGED vars
  BY <1>3 DEF vars, client, progress, FiniteDeliveries
<1> QED BY <1>1, <1>2, <1>3

\* A backed count is at most the number of failed deliveries.
LEMMA BackedIsCounted ==
  ASSUME FiniteDeliveries, NEW m, NEW r \in Nat, Backed(m, r)
  PROVE  r <= Cardinality(FailedDeliveries(m))
<1> DEFINE Counts == 0..(r - 1)
           f == [n \in Counts |-> CHOOSE t \in FailedDeliveries(m) : RetryOf(t) = n]
<1>1. \A n \in Counts : f[n] \in FailedDeliveries(m) /\ RetryOf(f[n]) = n
  BY DEF Backed
<1>2. f \in Injection(Counts, FailedDeliveries(m))
  <2>1. f \in [Counts -> FailedDeliveries(m)]
    BY <1>1
  <2>2. ASSUME NEW i \in Counts, NEW j \in Counts, f[i] = f[j] PROVE i = j
    BY <1>1, <2>2
  <2> HIDE DEF f
  <2> QED BY <2>1, <2>2 DEF Injection, IsInjective
<1>3. IsFiniteSet(FailedDeliveries(m))
  <2>1. FailedDeliveries(m) \in SUBSET {t \in Tag : pc[t] # "idle"}
    BY DEF FailedDeliveries, DeliveryOf
  <2> QED BY <2>1, FS_Subset DEF FiniteDeliveries
<1>4. Cardinality(Counts) = r
  BY FS_Interval
<1> HIDE DEF f
<1> QED BY <1>2, <1>3, <1>4, FS_Injection

-----------------------------------------------------------------------------
(* The dead letters.                                                       *)

\* Settling and dropping move no copy to the dead-letter queue.
LEMMA SettledElsewhere ==
  ASSUME TypeOK, NEW t \in Tag, NEW to \in {"gone", "ready"}, Settle(t, to),
         NEW c \in Copy, place'[c] = "dlq"
  PROVE  place[c] = "dlq"
BY DEF Settle, Drop, TypeOK

\* Only a republication that is no retry does.
LEMMA ToDeadLetters ==
  ASSUME TypeOK, DeliveriesKnown, [Next]_vars,
         NEW c \in Copy, place'[c] = "dlq", place[c] # "dlq"
  PROVE  \E k \in Task : /\ Republish(k) /\ ~Retrying(k)
                         /\ msg'[c] = MsgOf(k[1]) /\ retry'[c] = RetryOf(k[1])
<1>1. ~UNCHANGED place
  OBVIOUS
<1>2. ASSUME NEW m \in Msg, Publish(m) PROVE FALSE
  BY <1>2 DEF Publish, NewCopies, TypeOK
<1>3. ASSUME NEW d \in Copy, Expire(d) PROVE FALSE
  BY <1>3 DEF Expire, TypeOK
<1>4. ASSUME NEW g \in Chan, BreakLink(g) PROVE FALSE
  BY <1>4 DEF BreakLink, Drop
<1>5. ASSUME NEW t \in Tag, NEW d \in Copy, NEW g \in Chan, Deliver(t, d, g) PROVE FALSE
  BY <1>5 DEF Deliver, TypeOK
<1>6. ASSUME NEW t \in Tag, Settle(t, "gone") \/ Settle(t, "ready") PROVE FALSE
  BY <1>6, SettledElsewhere
<1>7. ASSUME NEW t \in Tag, Receive(t) \/ HandlerResolves(t) \/ HandlerRejects(t) PROVE FALSE
  BY <1>1, <1>6, <1>7 DEF Receive, HandlerResolves, HandlerRejects, Acked
<1>8. ASSUME NEW t \in Tag, NEW ctl \in Controls, HandlerCalls(t, ctl) PROVE FALSE
  BY <1>1, <1>6, <1>8 DEF HandlerCalls
<1>9. ASSUME NEW k \in Task, ConnectFails(k) \/ Acks(k) PROVE FALSE
  BY <1>1, <1>6, <1>9, DeliveryOfTask DEF ConnectFails, Acks, Acked, Throw, OuterCatch
<1>10. ASSUME NEW k \in Task, Republish(k)
       PROVE  ~Retrying(k) /\ msg'[c] = MsgOf(k[1]) /\ retry'[c] = RetryOf(k[1])
  <2>1. PICK d \in Copy : /\ place' = [place EXCEPT ![d] = Target(k)]
                          /\ msg' = [msg EXCEPT ![d] = MsgOf(k[1])]
                          /\ retry' = [retry EXCEPT ![d] = NextRetry(k)]
    BY <1>1, <1>10, FreshSubset DEF Republish, Send, NewCopies
  <2>2. d = c /\ Target(k) = "dlq"
    BY <2>1 DEF TypeOK
  <2>3. ~Retrying(k)
    BY <2>2 DEF Target
  <2>4. RetryOf(k[1]) \in Nat
    BY <1>10, BusyTask DEF Republish, Publishing, RetryOf, TypeOK
  <2>5. NextRetry(k) = RetryOf(k[1])
    BY <2>3, <2>4 DEF NextRetry
  <2> QED BY <2>1, <2>2, <2>3, <2>5 DEF TypeOK
<1> QED
  BY <1>1, <1>2, <1>3, <1>4, <1>5, <1>7, <1>8, <1>9, <1>10
  DEF Next, TaskStep, vars, ChannelClosed, Reconnect, Forget, Start, Stop, AddHandler,
      RemoveHandler, GetsChannel, RepublishFails, broker, client, progress

\* The delivery that justifies a dead letter of m.
Justifies(t, m) ==
  /\ t \in DeliveryOf(m)
  /\ "deadLetter" \in calls[t] \/ (pc[t] \notin {"received", "handler"} /\ outcome[t] = "none")

LEMMA JustificationStays ==
  ASSUME TypeOK, DeliveriesKnown, Reasons, [Next]_vars, NEW m, NEW t, Justifies(t, m)
  PROVE  Justifies(t, m)'
<1>1. t \in Tag /\ pc[t] # "idle" /\ MsgOf(t) = m
  BY DEF Justifies, DeliveryOf
<1>2. t \in DeliveryOf(m)'
  BY <1>1, StepHistory DEF History, DeliveryOf
<1>3. CASE "deadLetter" \in calls[t]
  BY <1>1, <1>2, <1>3, CallsStay DEF Justifies
<1>4. CASE pc[t] \notin {"received", "handler"} /\ outcome[t] = "none"
  <2>1. pc'[t] \notin {"received", "handler"}
    BY <1>1, <1>4, StepMoves DEF Moves
  <2>2. outcome'[t] = "none"
    BY <1>1, <1>4, CallsStay
  <2> QED BY <1>2, <2>1, <2>2 DEF Justifies
<1> QED BY <1>3, <1>4 DEF Justifies

LEMMA DeadLettersStep ==
  ASSUME TypeOK, DeliveriesKnown, Reasons, CatchDecided, DeadLettersJustified, [Next]_vars
  PROVE  DeadLettersJustified'
<1> SUFFICES ASSUME NEW c \in Copy, place'[c] = "dlq"
             PROVE  retry'[c] = MaxRetries \/ \E t \in Tag : Justifies(t, msg[c])'
  BY DEF DeadLettersJustified, Justifies, DeliveryOf
<1>1. CASE place[c] = "dlq"
  <2>1. msg'[c] = msg[c] /\ retry'[c] = retry[c]
    BY <1>1, StepBorn DEF Born, TypeOK
  <2>2. retry[c] = MaxRetries \/ \E t \in Tag : Justifies(t, msg[c])
    BY <1>1 DEF DeadLettersJustified, Justifies, DeliveryOf
  <2>3. ASSUME NEW t \in Tag, Justifies(t, msg[c]) PROVE Justifies(t, msg[c])'
    <3>1. PICK m \in Msg \cup {None} : m = msg[c]
      BY DEF TypeOK
    <3>2. Justifies(t, m)'
      BY <2>3, <3>1, JustificationStays
    <3> QED BY <2>1, <3>1, <3>2
  <2> QED BY <2>1, <2>2, <2>3
<1>2. CASE place[c] # "dlq"
  <2>1. PICK k \in Task : /\ Republish(k) /\ ~Retrying(k)
                          /\ msg'[c] = MsgOf(k[1]) /\ retry'[c] = RetryOf(k[1])
    BY <1>2, ToDeadLetters
  <2>2. k[1] \in Tag /\ pc[k[1]] # "idle" /\ step[k] \notin {"none", "failed"}
    BY <2>1, BusyTask, DeliveryOfTask DEF Republish, Publishing
  <2>3. MsgOf(k[1])' = MsgOf(k[1])
    BY <2>2, StepHistory DEF History
  <2>4. UNCHANGED <<pc, calls, outcome>>
    BY <2>1 DEF Republish
  <2>5. k[1] \in DeliveryOf(msg[c])'
    BY <2>1, <2>2, <2>3, <2>4 DEF DeliveryOf
  <2>6. ReasonsOf(k[1])
    BY <2>2 DEF Reasons
  <2>7. CASE k = Manual(k[1])
    <3>1. "deadLetter" \in calls'[k[1]]
      BY <2>2, <2>4, <2>6, <2>7 DEF ReasonsOf
    <3> QED BY <2>2, <2>5, <3>1 DEF Justifies
  <2>8. CASE k = Callback(k[1]) /\ k[2] = "callback"
    <3>1. pc[k[1]] \in {"noHandler", "dead"}
      BY <2>1, <2>2, <2>6, <2>8 DEF ReasonsOf, Retrying
    <3>2. CASE pc[k[1]] = "noHandler"
      BY <2>2, <2>4, <2>5, <2>6, <3>2 DEF Justifies, ReasonsOf
    <3>3. CASE pc[k[1]] = "dead"
      BY <2>1, <2>2, <3>3 DEF CatchDecided
    <3> QED BY <3>1, <3>2, <3>3
  <2> QED BY <2>7, <2>8, DeliveryOfTask
<1> QED BY <1>1, <1>2

-----------------------------------------------------------------------------
(* The results.                                                            *)

\* The invariant holds in every reachable state.
LEMMA RetryInvAlways == Spec => [](RetryInv /\ FiniteDeliveries)
<1>1. ASSUME Init PROVE RetryInv /\ FiniteDeliveries
  <2> USE <1>1 DEF Init
  <2>1. TypeOK
    BY DEF TypeOK, Place, LinkView, Control, Outcome, Step
  <2>2. DeliveriesKnown /\ OutcomeAfterHandler /\ RepublishReasons
    BY TasksOfDelivery DEF DeliveriesKnown, OutcomeAfterHandler, RepublishReasons
  <2>3. AttemptsBacked
    BY DeliveryAssumption DEF AttemptsBacked
  <2>4. CatchDecided /\ CatchReasons /\ DeadLettersJustified
    BY DEF CatchDecided, CatchReasons, Caught, DeadLettersJustified
  <2>5. {t \in Tag : pc[t] # "idle"} = {}
    OBVIOUS
  <2> QED BY <2>1, <2>2, <2>3, <2>4, <2>5, FS_EmptySet DEF RetryInv, FiniteDeliveries
<1>2. ASSUME RetryInv, FiniteDeliveries, [Next]_vars PROVE RetryInv' /\ FiniteDeliveries'
  <2>1. /\ TypeOK /\ DeliveriesKnown /\ Reasons
        /\ AttemptsBacked /\ CatchDecided /\ CatchReasons /\ DeadLettersJustified
    BY <1>2, ReasonsAgree DEF RetryInv
  <2>2. TypeOK' /\ DeliveriesKnown'
    BY <1>2, <2>1, DeliveryAssumption, TypeStep, KnownStep
  <2>3. OutcomeAfterHandler' /\ RepublishReasons'
    BY <1>2, <2>1, ReasonsStep, ReasonsAgree DEF Reasons, ReasonsOf, OutcomeAfterHandler, RepublishReasons
  <2>4. AttemptsBacked' /\ CatchDecided' /\ CatchReasons'
    BY <1>2, <2>1, BackedStep, CatchStep, CatchReasonsStep
  <2>5. DeadLettersJustified'
    BY <1>2, <2>1, DeadLettersStep
  <2>6. FiniteDeliveries'
    BY <1>2, <2>1, FiniteStep
  <2> QED BY <2>2, <2>3, <2>4, <2>5, <2>6 DEF RetryInv
<1> QED BY <1>1, <1>2, PTL DEF Spec

\* RetryInv is an invariant, for any handlers, faults and leaks: each count below a
\* copy's has a delivery that went through the inner catch, and a delivery goes there
\* because its handler threw, its ack threw, or it had no handler.
THEOREM RetryInvHolds == Spec => []RetryInv
BY RetryInvAlways, PTL

\* No x-retry-count exceeds maxRetries or the deliveries of its message that went
\* through the inner catch: redeliveries after a connection loss, acks, nacks and
\* requeues do not count, also when the manager leaks connections and handlers
\* settle a delivery twice.
THEOREM RetriesAreFailures == Spec => []RetryCountsFailures
<1>1. ASSUME RetryInv, FiniteDeliveries PROVE RetryCountsFailures
  <2> SUFFICES ASSUME NEW c \in Copy, msg[c] # None
               PROVE  retry[c] <= MaxRetries /\ retry[c] <= Cardinality(FailedDeliveries(msg[c]))
    BY DEF RetryCountsFailures
  <2>1. retry[c] \in Nat /\ retry[c] <= MaxRetries /\ Backed(msg[c], retry[c])
    BY <1>1 DEF RetryInv, TypeOK, AttemptsBacked, Backed
  <2> QED BY <1>1, <2>1, BackedIsCounted
<1> QED BY <1>1, RetryInvAlways, PTL

\* A dead letter has used up its retries, or one of its deliveries asked for it
\* or found no handler, under the same faults.
THEOREM DeadLettersAreJustified == Spec => []DeadLettersJustified
<1>1. RetryInv => DeadLettersJustified
  BY DEF RetryInv
<1> QED BY <1>1, RetryInvAlways, PTL
=============================================================================
