------------------------ MODULE WorkerProtocolProofs ------------------------
(***************************************************************************)
(* Proofs that a disciplined worker settles no delivery twice and, without *)
(* link faults, neither multiplies a message nor sees it more often than   *)
(* maxRetries + 1 times.                                                   *)
(*                                                                         *)
(* AnswerInv: a delivery that the worker has yet to ack or nack is one the *)
(* broker waits for, or its channel is no longer up, so that the ack does  *)
(* no harm.  The manager may leak connections here: an ack on a forgotten  *)
(* channel is as good as any.                                              *)
(*                                                                         *)
(* OneCopyInv adds that two live copies of a message are a copy and its    *)
(* replacement within the turn that acks it.  A republication starts from  *)
(* an unacked copy (BusyHolds) and marks it Replaced; only the same turn's *)
(* ack ends that, and it takes the copy (AckTakes).                        *)
(*                                                                         *)
(* AttemptInv adds that deliveries of a message have different copies and  *)
(* different retry counts, since the copy next in line counts more than    *)
(* all of them.  There are maxRetries + 1 retry counts.                    *)
(***************************************************************************)
EXTENDS WorkerRetryProofs

-----------------------------------------------------------------------------
(* No delivery is settled twice.                                           *)

\* AnswersOwed for one delivery.
AnswerOf(t) ==
  /\ Owing(t) => t \in unsettled \/ link[chanOf[t]] # "up"
  /\ step[Manual(t)] \notin {"none", "failed"} => pc[t] = "handler"

\* What a step leaves of the broker's side of the deliveries outside S: no dead
\* link comes up again, and the broker forgets none on a link that stays up.
BrokerKeeps(S) ==
  \A u \in Tag \ S : pc[u] # "idle" =>
    /\ chanOf'[u] = chanOf[u]
    /\ link'[chanOf[u]] = "up" =>
         link[chanOf[u]] = "up" /\ (u \in unsettled => u \in unsettled')

\* A delivery that is spared keeps its answer.
LEMMA AnswerStays ==
  ASSUME DeliveriesKnown, AnswersOwed, NEW u \in Tag,
         pc'[u] = pc[u], calls'[u] = calls[u], step'[Manual(u)] = step[Manual(u)],
         pc[u] # "idle" => /\ chanOf'[u] = chanOf[u]
                           /\ link'[chanOf[u]] = "up" =>
                                link[chanOf[u]] = "up" /\ (u \in unsettled => u \in unsettled')
  PROVE  AnswerOf(u)'
<1>1. CASE pc[u] = "idle"
  BY <1>1 DEF DeliveriesKnown, AnswerOf, Owing, Manual
<1>2. CASE pc[u] # "idle"
  BY <1>2 DEF AnswersOwed, AnswerOf, Owing, Manual
<1> QED BY <1>1, <1>2

\* A step that advances nothing, and one that advances delivery t only.
LEMMA NoneAnswers ==
  ASSUME DeliveriesKnown, AnswersOwed, UNCHANGED <<pc, calls, step>>, BrokerKeeps({})
  PROVE  AnswersOwed'
<1>1. ASSUME NEW u \in Tag PROVE AnswerOf(u)'
  BY AnswerStays DEF BrokerKeeps
<1> QED BY <1>1 DEF AnswersOwed, AnswerOf

LEMMA OneAnswers ==
  ASSUME DeliveriesKnown, AnswersOwed, NEW t \in Tag, Spares(t), BrokerKeeps({t}), AnswerOf(t)'
  PROVE  AnswersOwed'
<1>1. ASSUME NEW u \in Tag, u # t PROVE AnswerOf(u)'
  <2>1. Manual(u) \in Task /\ Manual(u)[1] = u
    BY TasksOfDelivery
  <2>2. step'[Manual(u)] = step[Manual(u)] /\ pc'[u] = pc[u] /\ calls'[u] = calls[u]
    BY <1>1, <2>1 DEF Spares
  <2> QED BY <1>1, <2>2, AnswerStays DEF BrokerKeeps
<1> QED BY <1>1 DEF AnswersOwed, AnswerOf

\* An answer that is owed is no protocol error: no link changes, and the broker
\* strikes off this delivery at most.
LEMMA SettleAnswers ==
  ASSUME AnswersOwed, NEW t \in Tag, Owing(t), NEW to, Settle(t, to), UNCHANGED chanOf
  PROVE  UNCHANGED link /\ BrokerKeeps({t})
BY DEF AnswersOwed, Settle, BrokerKeeps

LEMMA GetChannelAnswers ==
  ASSUME TypeOK, DeliveriesKnown, NoProtocolError, NEW g \in Chan, GetChannel(g),
         UNCHANGED <<chanOf, unsettled>>
  PROVE  BrokerKeeps({}) /\ NoProtocolError'
BY FreshSubset DEF TypeOK, DeliveriesKnown, NoProtocolError, GetChannel, NewChannels, BrokerKeeps

\* An exception of a task whose delivery is owed an answer.
LEMMA ThrowAnswers ==
  ASSUME TypeOK, DeliveriesKnown, Reasons, AnswersOwed, NEW k \in Task,
         step[k] \notin {"none", "failed"}, Throw(k), UNCHANGED <<chanOf, calls>>
  PROVE  UNCHANGED link /\ BrokerKeeps({k[1]}) /\ AnswerOf(k[1])'
<1>1. /\ k[1] \in Tag /\ Callback(k[1]) \in Task /\ Manual(k[1]) \in Task
      /\ Callback(k[1]) # Manual(k[1])
      /\ \/ k = Callback(k[1]) /\ k[2] = "callback"
         \/ k = Manual(k[1]) /\ k[2] = "manual"
  BY DeliveryOfTask, TasksOfDelivery
<1>2. ReasonsOf(k[1]) /\ AnswerOf(k[1])
  BY <1>1 DEF Reasons, AnswersOwed, AnswerOf
<1>3. CASE k[2] = "manual" /\ step' = [step EXCEPT ![k] = "failed"]
           /\ UNCHANGED <<place, unsettled, link, pc, unsent>>
  <2>1. Owing(k[1]) /\ k = Manual(k[1])
    BY <1>1, <1>2, <1>3 DEF AnswerOf, Owing
  <2>2. step'[Manual(k[1])] = "failed"
    BY <1>1, <1>3, <2>1 DEF TypeOK
  <2> QED BY <1>2, <1>3, <2>1, <2>2 DEF AnswerOf, BrokerKeeps
<1>4. CASE k[2] = "callback"
  <2>1. k = Callback(k[1]) /\ pc[k[1]] \in {"noHandler", "retry", "dead"}
    BY <1>1, <1>2, <1>4 DEF ReasonsOf
  <2>2. Owing(k[1]) /\ step[Manual(k[1])] \in {"none", "failed"}
    BY <1>2, <2>1 DEF Owing, AnswerOf
  <2>3. CASE InnerCatch(k[1]) /\ UNCHANGED <<place, unsettled, link>>
    <3>1. step'[Manual(k[1])] = step[Manual(k[1])]
      BY <1>1, <2>3 DEF InnerCatch, TypeOK
    <3> QED BY <1>2, <2>2, <2>3, <3>1 DEF AnswerOf, BrokerKeeps
  <2>4. CASE OuterCatch(k[1])
    <3>1. UNCHANGED link /\ BrokerKeeps({k[1]})
      BY <1>1, <2>2, <2>4, SettleAnswers DEF OuterCatch, BrokerKeeps
    <3>2. step'[Manual(k[1])] = step[Manual(k[1])] /\ pc'[k[1]] \in {"failed", "unhandled"}
      BY <1>1, <2>4 DEF OuterCatch, TypeOK
    <3> QED BY <2>2, <3>1, <3>2 DEF AnswerOf, Owing
  <2> QED BY <1>4, <2>3, <2>4 DEF Throw
<1> QED BY <1>3, <1>4 DEF Throw

\* The start of the callback, and what the handler does, advance a delivery
\* that is owed an answer.
LEMMA CallbackAnswers ==
  ASSUME ~Undisciplined, TypeOK, DeliveriesKnown, Reasons, AnswersOwed, NEW t \in Tag,
         \/ Receive(t) \/ HandlerResolves(t) \/ HandlerRejects(t)
         \/ \E ctl \in Controls : HandlerCalls(t, ctl)
  PROVE  UNCHANGED link /\ AnswersOwed'
<1>1. /\ Callback(t) \in Task /\ Manual(t) \in Task /\ Callback(t)[1] = t /\ Manual(t)[1] = t
      /\ Callback(t) # Manual(t)
  BY TasksOfDelivery
<1>2. ReasonsOf(t) /\ AnswerOf(t)
  BY DEF Reasons, AnswersOwed, AnswerOf
<1>3. UNCHANGED chanOf
  BY DEF Receive, HandlerCalls, HandlerResolves, HandlerRejects
<1>4. ASSUME Owing(t), \/ \E to : Settle(t, to)
                       \/ UNCHANGED <<place, unsettled, link>>
      PROVE  UNCHANGED link /\ BrokerKeeps({t}) /\ (t \in unsettled' => t \in unsettled)
  BY <1>3, <1>4, SettleAnswers DEF BrokerKeeps, Settle, Drop
<1>5. CASE Receive(t)
  <2>1. Owing(t) /\ step[Manual(t)] \in {"none", "failed"}
    BY <1>2, <1>5 DEF Receive, Owing, AnswerOf
  <2>2. UNCHANGED link /\ BrokerKeeps({t})
    BY <1>4, <1>5, <2>1 DEF Receive
  <2>3. Spares(t) /\ step'[Manual(t)] = step[Manual(t)]
    BY <1>1, <1>5 DEF Receive, Spares, TypeOK
  <2>4. pc'[t] = "done" \/ UNCHANGED <<place, unsettled, link>>
    BY <1>5 DEF Receive, TypeOK
  <2>5. AnswerOf(t)'
    BY <1>2, <1>3, <2>1, <2>3, <2>4 DEF AnswerOf, Owing
  <2> QED BY <2>2, <2>3, <2>5, OneAnswers
<1>6. ASSUME NEW ctl \in Controls, HandlerCalls(t, ctl) PROVE UNCHANGED link /\ AnswersOwed'
  <2>1. Owing(t) /\ pc[t] = "handler" /\ calls[t] = {} /\ step[Manual(t)] = "none"
    BY <1>2, <1>6 DEF HandlerCalls, Owing, ReasonsOf
  <2>2. UNCHANGED link /\ BrokerKeeps({t})
    BY <1>4, <1>6, <2>1 DEF HandlerCalls
  <2>3. Spares(t) /\ pc'[t] = "handler" /\ calls'[t] = {ctl}
    BY <1>1, <1>6, <2>1 DEF HandlerCalls, Spares, TypeOK
  <2>4. step'[Manual(t)] = "none" \/ UNCHANGED <<place, unsettled, link>>
    BY <1>6, <2>1 DEF HandlerCalls
  <2>5. AnswerOf(t)'
    BY <1>2, <1>3, <2>1, <2>3, <2>4 DEF AnswerOf, Owing
  <2> QED BY <2>2, <2>3, <2>5, OneAnswers
<1>7. CASE HandlerResolves(t)
  <2>1. pc[t] = "handler" /\ step[Manual(t)] = "none"
    BY <1>7 DEF HandlerResolves
  <2>2. UNCHANGED link /\ BrokerKeeps({t})
    <3>1. CASE manualAckUsed(t) /\ UNCHANGED <<place, unsettled, link>>
      BY <1>3, <3>1 DEF BrokerKeeps
    <3>2. CASE ~manualAckUsed(t)
      <4>1. Owing(t)
        BY <2>1, <3>2 DEF manualAckUsed, Owing
      <4> QED BY <1>4, <1>7, <3>2, <4>1 DEF HandlerResolves, Acked
    <3> QED BY <1>7, <3>1, <3>2 DEF HandlerResolves
  <2>3. Spares(t) /\ step'[Manual(t)] = step[Manual(t)]
    BY <1>1, <1>7 DEF HandlerResolves, InnerCatch, Spares, TypeOK
  <2>4. pc'[t] = "done" \/ (calls[t] = {} /\ UNCHANGED <<place, unsettled, link>>)
    BY <1>7 DEF HandlerResolves, manualAckUsed, TypeOK
  <2>5. AnswerOf(t)'
    BY <1>2, <1>3, <2>1, <2>3, <2>4 DEF AnswerOf, Owing
  <2> QED BY <2>2, <2>3, <2>5, OneAnswers
<1>8. CASE HandlerRejects(t)
  <2>1. Owing(t) /\ step[Manual(t)] \in {"none", "failed"}
    BY <1>2, <1>8 DEF HandlerRejects, Owing, ReasonsOf
  <2>2. UNCHANGED <<unsettled, link>> /\ BrokerKeeps({t})
    BY <1>3, <1>8 DEF HandlerRejects, BrokerKeeps
  <2>3. Spares(t) /\ step'[Manual(t)] = step[Manual(t)]
    BY <1>1, <1>8 DEF HandlerRejects, InnerCatch, Spares, TypeOK
  <2>4. AnswerOf(t)'
    BY <1>2, <1>3, <2>1, <2>2, <2>3 DEF AnswerOf
  <2> QED BY <2>2, <2>3, <2>4, OneAnswers
<1> QED BY <1>5, <1>6, <1>7, <1>8

\* So do the republications and their acks.
LEMMA TaskAnswers ==
  ASSUME TypeOK, DeliveriesKnown, Reasons, AnswersOwed, NoProtocolError,
         NEW k \in Task, TaskStep(k)
  PROVE  AnswersOwed' /\ NoProtocolError'
<1>1. /\ k[1] \in Tag /\ Callback(k[1]) \in Task /\ Manual(k[1]) \in Task
      /\ Callback(k[1]) # Manual(k[1])
      /\ \/ k = Callback(k[1]) /\ k[2] = "callback"
         \/ k = Manual(k[1]) /\ k[2] = "manual"
  BY DeliveryOfTask, TasksOfDelivery
<1>2. step[k] \notin {"none", "failed"} /\ UNCHANGED <<chanOf, calls, outcome>>
  BY DEF TaskStep, GetsChannel, ConnectFails, Republish, RepublishFails, Publishing, Acks
<1>3. ReasonsOf(k[1]) /\ AnswerOf(k[1])
  BY <1>1 DEF Reasons, AnswersOwed, AnswerOf
<1>4. Owing(k[1])
  BY <1>1, <1>2, <1>3 DEF ReasonsOf, AnswerOf, Owing
<1>5. ASSUME NEW s \in Step, step' = [step EXCEPT ![k] = s], s \notin {"none", "failed"},
             pc' = pc, unsettled' = unsettled, BrokerKeeps({})
      PROVE  AnswersOwed'
  <2>1. Spares(k[1]) /\ BrokerKeeps({k[1]})
    BY <1>1, <1>2, <1>5 DEF Spares, TypeOK, BrokerKeeps
  <2>2. pc[k[1]] # "idle"
    BY <1>2, BusyTask
  <2>3. k[1] \in unsettled' \/ link'[chanOf'[k[1]]] # "up"
    BY <1>1, <1>2, <1>3, <1>4, <1>5, <2>2 DEF AnswerOf, BrokerKeeps
  <2>4. step'[Manual(k[1])] \notin {"none", "failed"} => pc[k[1]] = "handler"
    BY <1>1, <1>2, <1>3, <1>5 DEF TypeOK, AnswerOf
  <2>5. AnswerOf(k[1])'
    BY <1>5, <2>3, <2>4 DEF AnswerOf
  <2> QED BY <1>1, <2>1, <2>5, OneAnswers
<1>6. CASE GetsChannel(k)
  <2>1. BrokerKeeps({}) /\ NoProtocolError'
    BY <1>6, GetChannelAnswers DEF GetsChannel
  <2>2. AnswersOwed'
    BY <1>5, <1>6, <2>1 DEF GetsChannel, Step
  <2> QED BY <2>1, <2>2
<1>7. CASE Republish(k) \/ RepublishFails(k)
  <2>1. UNCHANGED <<link, unsettled, chanOf, pc>> /\ step' = [step EXCEPT ![k] = "ack"]
    BY <1>7 DEF Republish, RepublishFails, broker
  <2>2. AnswersOwed'
    BY <1>5, <2>1 DEF BrokerKeeps, Step
  <2> QED BY <2>1, <2>2 DEF NoProtocolError
<1>8. CASE Throw(k)
  <2>1. UNCHANGED link /\ BrokerKeeps({k[1]}) /\ AnswerOf(k[1])'
    BY <1>2, <1>8, ThrowAnswers
  <2>2. Spares(k[1])
    BY <1>2, <1>8, ThrowReasons
  <2> QED BY <1>1, <2>1, <2>2, OneAnswers DEF NoProtocolError
<1>9. CASE /\ Settle(k[1], "gone")
           /\ step' = [step EXCEPT ![k] = "none"]
           /\ pc' = IF k[2] = "callback" THEN [pc EXCEPT ![k[1]] = Ended(@)] ELSE pc
  <2>1. UNCHANGED link /\ BrokerKeeps({k[1]})
    BY <1>1, <1>2, <1>4, <1>9, SettleAnswers
  <2>2. Spares(k[1])
    BY <1>1, <1>2, <1>9 DEF Spares, TypeOK
  <2>3. CASE k = Callback(k[1]) /\ k[2] = "callback"
    <3>1. pc'[k[1]] \in {"done", "failed"} /\ step'[Manual(k[1])] = step[Manual(k[1])]
      BY <1>1, <1>9, <2>3 DEF TypeOK, Ended
    <3>2. step[Manual(k[1])] \in {"none", "failed"}
      BY <1>2, <1>3, <2>3 DEF ReasonsOf, AnswerOf
    <3> QED BY <1>1, <2>1, <2>2, <3>1, <3>2, OneAnswers DEF AnswerOf, Owing, NoProtocolError
  <2>4. CASE k = Manual(k[1]) /\ k[2] = "manual"
    <3>1. pc'[k[1]] = "handler" /\ step'[Manual(k[1])] = "none" /\ calls'[k[1]] # {}
      BY <1>1, <1>2, <1>3, <1>9, <2>4 DEF TypeOK, ReasonsOf, AnswerOf
    <3> QED BY <1>1, <2>1, <2>2, <3>1, OneAnswers DEF AnswerOf, Owing, NoProtocolError
  <2> QED BY <1>1, <2>3, <2>4
<1> QED BY <1>6, <1>7, <1>8, <1>9 DEF TaskStep, ConnectFails, Acks, Acked

LEMMA AnswersStep ==
  ASSUME ~Undisciplined, TypeOK, DeliveriesKnown, Reasons, AnswersOwed, NoProtocolError,
         [Next]_vars
  PROVE  AnswersOwed' /\ NoProtocolError'
<1>1. CASE UNCHANGED <<pc, calls, step, link, unsettled, chanOf>>
  BY <1>1, NoneAnswers DEF BrokerKeeps, NoProtocolError
<1>2. ASSUME NEW g \in Chan, BreakLink(g) PROVE AnswersOwed' /\ NoProtocolError'
  <2>1. BrokerKeeps({}) /\ NoProtocolError'
    BY <1>2 DEF BreakLink, Drop, BrokerKeeps, NoProtocolError, DeliveriesKnown, TypeOK, client, progress
  <2> QED BY <1>2, <2>1, NoneAnswers DEF BreakLink, client, progress
<1>3. ASSUME NEW g \in Chan, ChannelClosed(g) PROVE AnswersOwed' /\ NoProtocolError'
  <2>1. BrokerKeeps({}) /\ NoProtocolError'
    BY <1>3 DEF ChannelClosed, BrokerKeeps, NoProtocolError, DeliveriesKnown, TypeOK, progress
  <2> QED BY <1>3, <2>1, NoneAnswers DEF ChannelClosed, progress
<1>4. CASE Reconnect \/ Start \/ Stop
  <2>1. UNCHANGED <<unsettled, pc, calls, step, chanOf>>
        /\ (UNCHANGED link \/ \E g \in Chan : GetChannel(g))
    BY <1>4 DEF Reconnect, Start, Stop, progress
  <2>2. BrokerKeeps({}) /\ NoProtocolError'
    BY <2>1, GetChannelAnswers DEF BrokerKeeps, NoProtocolError
  <2> QED BY <2>1, <2>2, NoneAnswers
<1>5. ASSUME NEW t \in Tag, NEW c \in Copy, NEW g \in Chan, Deliver(t, c, g)
      PROVE  AnswersOwed' /\ NoProtocolError'
  <2>1. pc[t] = "idle" /\ step[Manual(t)] = "none"
    BY <1>5 DEF Deliver, NewTags, Fresh, DeliveriesKnown
  <2>2. Spares(t) /\ BrokerKeeps({t})
    BY <1>5 DEF Deliver, Spares, BrokerKeeps, TypeOK
  <2>3. AnswerOf(t)'
    BY <1>5, <2>1 DEF Deliver, AnswerOf, Manual
  <2> QED BY <1>5, <2>2, <2>3, OneAnswers DEF Deliver, NoProtocolError
<1>6. ASSUME NEW t \in Tag,
             \/ Receive(t) \/ HandlerResolves(t) \/ HandlerRejects(t)
             \/ \E ctl \in Controls : HandlerCalls(t, ctl)
      PROVE  AnswersOwed' /\ NoProtocolError'
  BY <1>6, CallbackAnswers DEF NoProtocolError
<1>7. ASSUME NEW k \in Task, TaskStep(k) PROVE AnswersOwed' /\ NoProtocolError'
  BY <1>7, TaskAnswers
<1> QED
  BY <1>1, <1>2, <1>3, <1>4, <1>5, <1>6, <1>7
  DEF Next, vars, Publish, Expire, Forget, AddHandler, RemoveHandler, broker, client, progress

\* The invariant of a disciplined worker.
LEMMA AnswerInvInit == Init => AnswerInv
<1> SUFFICES ASSUME Init PROVE AnswerInv
  OBVIOUS
<1> USE DEF Init
<1>1. TypeOK
  BY DEF TypeOK, Place, LinkView, Control, Outcome, Step
<1>2. DeliveriesKnown /\ OutcomeAfterHandler /\ RepublishReasons /\ AnswersOwed
  BY TasksOfDelivery
  DEF DeliveriesKnown, OutcomeAfterHandler, RepublishReasons, AnswersOwed, Owing
<1> QED BY <1>1, <1>2 DEF AnswerInv, NoProtocolError

LEMMA AnswerInvStep == ASSUME ~Undisciplined, AnswerInv, [Next]_vars PROVE AnswerInv'
<1>1. TypeOK /\ DeliveriesKnown /\ Reasons /\ AnswersOwed /\ NoProtocolError
  BY ReasonsAgree DEF AnswerInv
<1>2. TypeOK' /\ DeliveriesKnown'
  BY <1>1, DeliveryAssumption, TypeStep, KnownStep
<1>3. OutcomeAfterHandler' /\ RepublishReasons'
  BY <1>1, ReasonsStep DEF Reasons, ReasonsOf, OutcomeAfterHandler, RepublishReasons
<1>4. AnswersOwed' /\ NoProtocolError'
  BY <1>1, AnswersStep
<1> QED BY <1>2, <1>3, <1>4 DEF AnswerInv

\* AnswerInv is an invariant of a worker with disciplined handlers.
THEOREM AnswerInvHolds == ~Undisciplined => (Spec => []AnswerInv)
<1> SUFFICES ASSUME ~Undisciplined PROVE Spec => []AnswerInv
  OBVIOUS
<1>1. AnswerInv /\ [Next]_vars => AnswerInv'
  BY AnswerInvStep
<1> QED BY <1>1, AnswerInvInit, PTL DEF Spec

\* Whatever links break, connections leak and republications fail in between, a
\* worker whose handlers use one metadata function at most, and do not throw
\* after it worked, never acks or nacks a delivery the broker does not wait for.
THEOREM SettlesOnce == ~Undisciplined => (Spec => []NoProtocolError)
<1>1. AnswerInv => NoProtocolError
  BY DEF AnswerInv
<1> QED BY <1>1, AnswerInvHolds, PTL

-----------------------------------------------------------------------------
(* The broker's books balance, also when the manager leaks connections.    *)

LEMMA HeldStep ==
  ASSUME TypeOK, DeliveriesKnown, HeldOnce, [Next]_vars
  PROVE  HeldOnce'
<1>1. CASE UNCHANGED <<place, unsettled, link, copyOf, chanOf>>
  BY <1>1 DEF HeldOnce
<1>2. ASSUME NEW c \in Copy, NEW to \in {"ready", "delay", "dlq"}, place[c] \in {"unborn", "delay"},
             place' = [place EXCEPT ![c] = to], UNCHANGED <<unsettled, link, copyOf, chanOf>>
      PROVE  HeldOnce'
  <2>1. \A t \in unsettled : copyOf[t] # c /\ copyOf[t] \in Copy
    BY <1>2, HeldInTypes DEF HeldOnce
  <2>2. \A t \in unsettled : place'[copyOf[t]] = "unacked" /\ link[chanOf[t]] = "up"
    BY <1>2, <2>1 DEF HeldOnce, TypeOK
  <2>3. \A d \in Copy : place'[d] = "unacked" => place[d] = "unacked"
    BY <1>2 DEF TypeOK
  <2> QED BY <1>2, <2>2, <2>3 DEF HeldOnce
<1>3. ASSUME NEW m \in Msg, Publish(m) PROVE HeldOnce'
  BY <1>2, <1>3, FreshSubset DEF Publish, NewCopies, client, progress
<1>4. ASSUME NEW c \in Copy, Expire(c) PROVE HeldOnce'
  BY <1>2, <1>4 DEF Expire, client, progress
<1>5. ASSUME NEW k \in Task, Republish(k) PROVE HeldOnce'
  <2>1. Target(k) \in {"ready", "delay", "dlq"}
    BY DEF Target, DeadLetterQueue
  <2>2. \/ UNCHANGED place
        \/ \E c \in Copy : place[c] = "unborn" /\ place' = [place EXCEPT ![c] = Target(k)]
    BY <1>5, FreshSubset DEF Republish, Send, NewCopies
  <2> QED BY <1>1, <1>2, <1>5, <2>1, <2>2 DEF Republish
<1>6. ASSUME NEW g \in Chan, BreakLink(g) PROVE HeldOnce'
  BY <1>6, DropBooks DEF BreakLink, BooksKept, client, progress
<1>7. ASSUME NEW g \in Chan, ChannelClosed(g) PROVE HeldOnce'
  <2>1. \A t \in unsettled : chanOf[t] \in Chan /\ chanOf[t] # g
    BY <1>7, HeldInTypes DEF ChannelClosed, HeldOnce
  <2> QED BY <1>7, <2>1 DEF ChannelClosed, HeldOnce, TypeOK, progress
<1>8. CASE Reconnect \/ Start \/ Stop \/ \E k \in Task : GetsChannel(k)
  <2>1. /\ UNCHANGED <<place, unsettled, copyOf, chanOf>>
        /\ UNCHANGED link \/ \E g \in Chan : link[g] = "new" /\ link' = [link EXCEPT ![g] = "up"]
    BY <1>8, FreshSubset DEF Reconnect, Start, Stop, GetsChannel, GetChannel, NewChannels, progress
  <2>2. \A t \in unsettled : link'[chanOf[t]] = "up"
    BY <2>1, HeldInTypes DEF HeldOnce, TypeOK
  <2> QED BY <2>1, <2>2 DEF HeldOnce
<1>9. ASSUME NEW t \in Tag, NEW c \in Copy, NEW g \in Chan, Deliver(t, c, g) PROVE HeldOnce'
  <2>1. t \notin unsettled
    BY <1>9 DEF Deliver, NewTags, Fresh, DeliveriesKnown
  <2>2. \A u \in unsettled : copyOf[u] # c /\ copyOf[u] \in Copy /\ u \in Tag
    BY <1>9, HeldInTypes DEF Deliver, HeldOnce
  <2>3. /\ copyOf'[t] = c /\ chanOf'[t] = g /\ place'[c] = "unacked" /\ link' = link
        /\ unsettled' = unsettled \cup {t}
        /\ \A u \in unsettled : /\ copyOf'[u] = copyOf[u] /\ chanOf'[u] = chanOf[u]
                                /\ place'[copyOf[u]] = place[copyOf[u]]
    BY <1>9, <2>1, <2>2 DEF Deliver, TypeOK
  <2>4. \A u \in unsettled' : place'[copyOf'[u]] = "unacked" /\ link'[chanOf'[u]] = "up"
    BY <1>9, <2>3 DEF Deliver, HeldOnce
  <2>5. \A u, v \in unsettled' : copyOf'[u] = copyOf'[v] => u = v
    BY <2>2, <2>3 DEF HeldOnce
  <2>6. ASSUME NEW d \in Copy, place'[d] = "unacked" PROVE \E u \in unsettled' : copyOf'[u] = d
    <3>1. d = c \/ place[d] = "unacked"
      BY <1>9, <2>6 DEF Deliver, TypeOK
    <3> QED BY <2>3, <3>1 DEF HeldOnce
  <2> QED BY <2>4, <2>5, <2>6 DEF HeldOnce
<1>10. ASSUME NEW t \in Tag, pc[t] # "idle", NEW to \in {"gone", "ready"}, Settle(t, to),
              UNCHANGED <<copyOf, chanOf>>
       PROVE  HeldOnce'
  BY <1>10, SettleBooks DEF BooksKept, DeliveriesKnown, Place
<1>11. ASSUME NEW t \in Tag, \/ Receive(t) \/ HandlerResolves(t) \/ HandlerRejects(t)
                             \/ \E ctl \in Controls : HandlerCalls(t, ctl)
       PROVE  HeldOnce'
  <2>1. pc[t] # "idle" /\ UNCHANGED <<copyOf, chanOf>>
    BY <1>11 DEF Receive, HandlerCalls, HandlerResolves, HandlerRejects
  <2>2. \/ \E to \in {"gone", "ready"} : Settle(t, to)
        \/ UNCHANGED <<place, unsettled, link>>
    BY <1>11 DEF Receive, HandlerCalls, HandlerResolves, HandlerRejects, Acked
  <2> QED BY <1>1, <1>10, <2>1, <2>2
<1>12. ASSUME NEW k \in Task, ConnectFails(k) \/ Acks(k) PROVE HeldOnce'
  <2>1. k[1] \in Tag /\ pc[k[1]] # "idle" /\ UNCHANGED <<copyOf, chanOf>>
    BY <1>12, BusyTask, DeliveryOfTask DEF ConnectFails, Acks
  <2>2. Settle(k[1], "gone") \/ UNCHANGED <<place, unsettled, link>>
    BY <1>12 DEF ConnectFails, Acks, Acked, Throw, OuterCatch
  <2> QED BY <1>1, <1>10, <2>1, <2>2
<1> QED
  BY <1>1, <1>3, <1>4, <1>5, <1>6, <1>7, <1>8, <1>9, <1>11, <1>12
  DEF Next, TaskStep, vars, Forget, AddHandler, RemoveHandler, RepublishFails, broker, client, progress

-----------------------------------------------------------------------------
(* What moves where when no link fails.                                    *)

\* Without link faults and protocol errors every channel that was opened is up.
LEMMA LinksStep ==
  ASSUME ~LinkFaults, TypeOK, LinksUp, [Next]_vars, NoProtocolError'
  PROVE  LinksUp'
<1>1. CASE UNCHANGED link
  BY <1>1 DEF LinksUp
<1>2. ASSUME NEW t, NEW to, Settle(t, to) PROVE LinksUp'
  BY <1>2 DEF Settle, Drop, LinksUp, NoProtocolError, TypeOK
<1>3. CASE Reconnect \/ Start \/ Stop \/ \E k \in Task : GetsChannel(k)
  BY <1>3 DEF Reconnect, Start, Stop, GetsChannel, GetChannel, LinksUp, TypeOK
<1>4. ASSUME NEW g \in Chan, BreakLink(g) \/ ChannelClosed(g) PROVE FALSE
  BY <1>4 DEF BreakLink, ChannelClosed, LinksUp
<1>5. ASSUME NEW k \in Task, ConnectFails(k) \/ Acks(k) PROVE LinksUp'
  BY <1>1, <1>2, <1>5 DEF ConnectFails, Acks, Acked, Throw, OuterCatch
<1>6. ASSUME NEW t \in Tag, \/ Receive(t) \/ HandlerResolves(t) \/ HandlerRejects(t)
                            \/ \E ctl \in Controls : HandlerCalls(t, ctl)
      PROVE  LinksUp'
  BY <1>1, <1>2, <1>6 DEF Receive, HandlerCalls, HandlerResolves, HandlerRejects, Acked
<1> QED
  BY <1>1, <1>3, <1>4, <1>5, <1>6
  DEF Next, TaskStep, vars, Publish, Expire, Forget, AddHandler, RemoveHandler, Deliver,
      Republish, RepublishFails, broker, client, progress

\* Then every ack and nack reaches the broker, which was waiting for it.
LEMMA CalmSettle ==
  ASSUME TypeOK, DeliveriesKnown, LinksUp, NoProtocolError', NEW t \in Tag, pc[t] # "idle",
         NEW to, Settle(t, to)
  PROVE  /\ t \in unsettled /\ unsettled' = unsettled \ {t}
         /\ place' = [place EXCEPT ![copyOf[t]] = to] /\ UNCHANGED link
<1>1. chanOf[t] \in Chan
  BY DEF DeliveriesKnown
<1>2. link'[chanOf[t]] # "error" /\ link[chanOf[t]] \in {"new", "up"}
  BY <1>1 DEF LinksUp, NoProtocolError
<1> QED BY <1>1, <1>2 DEF Settle, Drop, TypeOK

\* The moves of a copy that was born.
PlaceMoves(c) ==
  \/ place'[c] = place[c]
  \/ place[c] = "delay" /\ place'[c] = "ready"
  \/ place[c] = "ready" /\ place'[c] = "unacked"
  \/ place[c] = "unacked" /\ place'[c] = "gone"
  \/ place[c] = "unacked" /\ place'[c] = "ready" /\ "requeue" \in Controls

LEMMA StepPlaces ==
  ASSUME ~LinkFaults, TypeOK, DeliveriesKnown, HeldOnce, LinksUp, [Next]_vars,
         NoProtocolError', NEW c \in Copy, place[c] # "unborn"
  PROVE  PlaceMoves(c)
<1>1. CASE UNCHANGED place
  BY <1>1 DEF PlaceMoves
<1>2. ASSUME NEW t \in Tag, pc[t] # "idle", NEW to, Settle(t, to),
             to = "gone" \/ (to = "ready" /\ "requeue" \in Controls)
      PROVE  PlaceMoves(c)
  <2>1. t \in unsettled /\ place' = [place EXCEPT ![copyOf[t]] = to]
    BY <1>2, CalmSettle
  <2>2. place[copyOf[t]] = "unacked" /\ copyOf[t] \in Copy
    BY <2>1, HeldInTypes DEF HeldOnce
  <2> QED BY <1>2, <2>1, <2>2 DEF PlaceMoves, TypeOK
<1>3. ASSUME NEW m \in Msg, Publish(m) PROVE PlaceMoves(c)
  BY <1>3, FreshSubset DEF Publish, NewCopies, PlaceMoves, TypeOK
<1>4. ASSUME NEW d \in Copy, Expire(d) PROVE PlaceMoves(c)
  BY <1>4 DEF Expire, PlaceMoves, TypeOK
<1>5. ASSUME NEW t \in Tag, NEW d \in Copy, NEW g \in Chan, Deliver(t, d, g) PROVE PlaceMoves(c)
  BY <1>5 DEF Deliver, PlaceMoves, TypeOK
<1>6. ASSUME NEW k \in Task, Republish(k) PROVE PlaceMoves(c)
  <2>1. \/ UNCHANGED place
        \/ \E d \in Copy : place[d] = "unborn" /\ place' = [place EXCEPT ![d] = Target(k)]
    BY <1>6, FreshSubset DEF Republish, Send, NewCopies
  <2> QED BY <2>1 DEF PlaceMoves, TypeOK
<1>7. ASSUME NEW t \in Tag, Receive(t) \/ HandlerResolves(t) \/ HandlerRejects(t)
      PROVE  PlaceMoves(c)
  BY <1>1, <1>2, <1>7 DEF Receive, HandlerResolves, HandlerRejects, Acked
<1>8. ASSUME NEW t \in Tag, NEW ctl \in Controls, HandlerCalls(t, ctl) PROVE PlaceMoves(c)
  <2>1. pc[t] # "idle" /\ (UNCHANGED place \/ Settle(t, IF ctl = "nack" THEN "gone" ELSE "ready"))
        /\ (ctl \in {"nack", "requeue"} \/ UNCHANGED place)
    BY <1>8 DEF HandlerCalls
  <2> QED BY <1>1, <1>2, <2>1
<1>9. ASSUME NEW k \in Task, ConnectFails(k) \/ Acks(k) PROVE PlaceMoves(c)
  <2>1. k[1] \in Tag /\ pc[k[1]] # "idle"
    BY <1>9, BusyTask, DeliveryOfTask DEF ConnectFails, Acks
  <2> QED BY <1>1, <1>2, <1>9, <2>1 DEF ConnectFails, Acks, Acked, Throw, OuterCatch
<1>10. ASSUME NEW g \in Chan, BreakLink(g) PROVE FALSE
  BY <1>10 DEF BreakLink
<1> QED
  BY <1>1, <1>3, <1>4, <1>5, <1>6, <1>7, <1>8, <1>9, <1>10
  DEF Next, TaskStep, vars, ChannelClosed, Reconnect, Forget, Start, Stop, AddHandler,
      RemoveHandler, GetsChannel, RepublishFails, broker, client, progress

-----------------------------------------------------------------------------
(* A message has one live copy.                                            *)

\* The invariant without its parts about types.
LEMMA OneCopyParts ==
  ASSUME OneCopyInv
  PROVE  /\ TypeOK /\ DeliveriesKnown /\ Reasons /\ AnswersOwed /\ NoProtocolError
         /\ HeldOnce /\ LinksUp /\ OneLive
BY ReasonsAgree DEF OneCopyInv, AnswerInv

\* A task under way still owes its answer, so the broker holds its copy for it.
LEMMA BusyHolds ==
  ASSUME OneCopyInv, NEW k \in Task, step[k] \notin {"none", "failed"}
  PROVE  /\ k[1] \in Tag /\ pc[k[1]] # "idle" /\ k[1] \in unsettled
         /\ copyOf[k[1]] \in Copy /\ place[copyOf[k[1]]] = "unacked" /\ Open(chanOf[k[1]])
<1> USE OneCopyParts
<1>1. /\ k[1] \in Tag /\ pc[k[1]] # "idle" /\ copyOf[k[1]] \in Copy
      /\ chanOf[k[1]] \in Chan /\ link[chanOf[k[1]]] # "new"
  BY BusyTask, DeliveryOfTask
<1>2. link[chanOf[k[1]]] = "up"
  BY <1>1 DEF LinksUp
<1>3. Owing(k[1])
  BY <1>1, DeliveryOfTask DEF Reasons, ReasonsOf, AnswersOwed, Owing
<1>4. k[1] \in unsettled
  BY <1>1, <1>2, <1>3 DEF AnswersOwed
<1> QED BY <1>1, <1>2, <1>4 DEF HeldOnce, Open

\* An ack takes the copy it is for.
LEMMA AckTakes ==
  ASSUME OneCopyInv, NoProtocolError', NEW k \in Task, Acks(k)
  PROVE  place'[copyOf[k[1]]] = "gone" /\ msg' = msg /\ turn = k /\ step[k] = "ack"
<1>1. step[k] = "ack" /\ turn = k /\ msg' = msg
  BY DEF Acks
<1>2. /\ k[1] \in Tag /\ pc[k[1]] # "idle" /\ copyOf[k[1]] \in Copy
      /\ Open(chanOf[k[1]])
  BY <1>1, BusyHolds
<1>3. Settle(k[1], "gone")
  BY <1>2 DEF Acks, Acked
<1>4. place' = [place EXCEPT ![copyOf[k[1]]] = "gone"]
  BY <1>2, <1>3, OneCopyParts, CalmSettle
<1> QED BY <1>1, <1>2, <1>4, OneCopyParts DEF TypeOK

\* Between a republication and its ack only the broker moves: a copy that is
\* replaced stays so until the ack takes it.
LEMMA ReplacedStays ==
  ASSUME ~LinkFaults, OneCopyInv, [Next]_vars, NoProtocolError', NEW c \in Copy, Replaced(c)
  PROVE  Replaced(c)' \/ place'[c] = "gone"
<1>1. turn \in Task /\ turn # None /\ step[turn] = "ack" /\ copyOf[turn[1]] = c
  BY OneCopyParts DEF Replaced, TypeOK
<1>2. turn[1] \in Tag /\ pc[turn[1]] # "idle"
  BY <1>1, BusyHolds
<1>3. copyOf'[turn[1]] = c
  BY <1>1, <1>2, OneCopyParts, StepHistory DEF History
<1>4. CASE turn' = turn /\ step' = step
  BY <1>1, <1>3, <1>4 DEF Replaced
<1>5. ASSUME NEW k \in Task, Acks(k) PROVE place'[c] = "gone"
  BY <1>1, <1>5, AckTakes
<1> QED
  BY <1>1, <1>4, <1>5
  DEF Next, TaskStep, vars, Publish, Expire, BreakLink, ChannelClosed, Reconnect, Forget, Start,
      Stop, AddHandler, RemoveHandler, Deliver, Receive, HandlerCalls, HandlerResolves,
      HandlerRejects, GetsChannel, ConnectFails, Republish, RepublishFails, Publishing, broker,
      client, progress

\* A step that bears no copy keeps OneLive.
LEMMA NoBirth ==
  ASSUME ~LinkFaults, OneCopyInv, [Next]_vars, NoProtocolError', UNCHANGED msg,
         \A c \in Copy : place[c] = "unborn" => place'[c] = "unborn"
  PROVE  OneLive'
<1> SUFFICES ASSUME NEW c \in Copy, NEW d \in Copy, c # d, Live(c)', Live(d)', msg'[c] = msg'[d]
             PROVE  Replaced(c)' \/ Replaced(d)'
  BY DEF OneLive
<1>1. \A x \in Copy : Live(x)' => Live(x) /\ place'[x] # "gone"
  BY OneCopyParts, StepPlaces DEF PlaceMoves, Live
<1>2. Replaced(c) \/ Replaced(d)
  BY <1>1, OneCopyParts DEF OneLive
<1> QED BY <1>1, <1>2, ReplacedStays

\* The application publishes a message once.
LEMMA PublishOne ==
  ASSUME ~LinkFaults, OneCopyInv, [Next]_vars, NoProtocolError', NEW m \in Msg, Publish(m)
  PROVE  OneLive'
<1>1. PICK x \in Copy : /\ place[x] = "unborn"
                        /\ place' = [place EXCEPT ![x] = "ready"]
                        /\ msg' = [msg EXCEPT ![x] = m]
  BY FreshSubset DEF Publish, NewCopies
<1>2. UNCHANGED <<turn, step, copyOf>>
  BY DEF Publish, client, progress
<1> SUFFICES ASSUME NEW c \in Copy, NEW d \in Copy, c # d, Live(c)', Live(d)', msg'[c] = msg'[d]
             PROVE  Replaced(c) \/ Replaced(d)
  BY <1>2 DEF OneLive, Replaced
<1>3. m \notin {msg[y] : y \in Copy}
  BY DEF Publish
<1>4. c # x /\ d # x
  BY <1>1, <1>3, OneCopyParts DEF TypeOK
<1> QED BY <1>1, <1>4, OneCopyParts DEF OneLive, Live, TypeOK

\* A republication adds the replacement of the one copy there is.
LEMMA RepublishOne ==
  ASSUME ~LinkFaults, OneCopyInv, [Next]_vars, NoProtocolError', NEW k \in Task, Republish(k)
  PROVE  OneLive'
<1> DEFINE old == copyOf[k[1]]
<1>1. old \in Copy /\ place[old] = "unacked"
  BY BusyHolds DEF Republish, Publishing
<1>2. \A c \in Copy : ~Replaced(c)
  BY DEF Republish, Publishing, Replaced
<1>3. ASSUME NEW c \in Copy, NEW d \in Copy, c # d, Live(c), Live(d) PROVE msg[c] # msg[d]
  BY <1>2, <1>3, OneCopyParts DEF OneLive
<1>4. \A c \in Copy : c = old => Replaced(c)'
  BY OneCopyParts, DeliveryAssumption DEF Republish, Replaced, TypeOK, Task
<1>5. CASE UNCHANGED <<place, msg>>
  BY <1>3, <1>5 DEF OneLive, Live
<1>6. ASSUME NEW x \in Copy, place[x] = "unborn", msg' = [msg EXCEPT ![x] = msg[old]],
             place' = [place EXCEPT ![x] = Target(k)]
      PROVE  OneLive'
  <2> SUFFICES ASSUME NEW c \in Copy, NEW d \in Copy, c # d, c # old, d # old,
                      Live(c)', Live(d)', msg'[c] = msg'[d]
               PROVE  FALSE
    BY <1>4 DEF OneLive
  <2>1. \A y \in Copy : y # x => msg'[y] = msg[y] /\ place'[y] = place[y]
    BY <1>6, OneCopyParts DEF TypeOK
  <2>2. msg'[x] = msg[old] /\ Live(old)
    BY <1>1, <1>6, OneCopyParts DEF TypeOK, Live
  <2>3. \A y \in Copy : y # x /\ Live(y)' => Live(y)
    BY <2>1 DEF Live
  <2>4. c # x /\ d # x
    BY <1>1, <1>3, <2>1, <2>2, <2>3
  <2> QED BY <1>3, <2>1, <2>3, <2>4
<1>7. \/ UNCHANGED <<place, msg>>
      \/ \E x \in Copy : /\ place[x] = "unborn" /\ msg' = [msg EXCEPT ![x] = msg[old]]
                         /\ place' = [place EXCEPT ![x] = Target(k)]
  BY FreshSubset DEF Republish, Send, NewCopies, MsgOf
<1> QED BY <1>5, <1>6, <1>7

\* Only a publish of the application or a republication bears a copy.
LEMMA StaysUnborn ==
  ASSUME OneCopyInv, [Next]_vars, ~LinkFaults, NoProtocolError',
         ~(\E m \in Msg : Publish(m)), ~(\E k \in Task : Republish(k)),
         NEW c \in Copy, place[c] = "unborn"
  PROVE  place'[c] = "unborn"
<1> USE OneCopyParts
<1>1. CASE UNCHANGED place
  BY <1>1
<1>2. ASSUME NEW t \in Tag, pc[t] # "idle", NEW to, Settle(t, to) PROVE place'[c] = "unborn"
  BY <1>2, CalmSettle DEF DeliveriesKnown, TypeOK
<1>3. ASSUME NEW d \in Copy, Expire(d) PROVE place'[c] = "unborn"
  BY <1>3 DEF Expire, TypeOK
<1>4. ASSUME NEW t \in Tag, NEW d \in Copy, NEW g \in Chan, Deliver(t, d, g)
      PROVE  place'[c] = "unborn"
  BY <1>4 DEF Deliver, TypeOK
<1>5. ASSUME NEW t \in Tag, \/ Receive(t) \/ HandlerResolves(t) \/ HandlerRejects(t)
                            \/ \E ctl \in Controls : HandlerCalls(t, ctl)
      PROVE  place'[c] = "unborn"
  <2>1. pc[t] # "idle" /\ (UNCHANGED place \/ \E to : Settle(t, to))
    BY <1>5 DEF Receive, HandlerCalls, HandlerResolves, HandlerRejects, Acked
  <2> QED BY <1>1, <1>2, <2>1
<1>6. ASSUME NEW k \in Task, ConnectFails(k) \/ Acks(k) PROVE place'[c] = "unborn"
  <2>1. k[1] \in Tag /\ pc[k[1]] # "idle"
    BY <1>6, BusyTask, DeliveryOfTask DEF ConnectFails, Acks
  <2> QED BY <1>1, <1>2, <1>6, <2>1 DEF ConnectFails, Acks, Acked, Throw, OuterCatch
<1> QED
  BY <1>1, <1>3, <1>4, <1>5, <1>6
  DEF Next, TaskStep, vars, BreakLink, ChannelClosed, Reconnect, Forget, Start, Stop, AddHandler,
      RemoveHandler, GetsChannel, RepublishFails, broker, client, progress

LEMMA OneCopyStep ==
  ASSUME ~LinkFaults, ~Undisciplined, OneCopyInv, [Next]_vars
  PROVE  OneCopyInv'
<1> USE OneCopyParts
<1>1. AnswerInv'
  BY AnswerInvStep DEF OneCopyInv
<1>2. HeldOnce' /\ LinksUp' /\ NoProtocolError'
  BY <1>1, HeldStep, LinksStep DEF AnswerInv
<1>3. CASE \E m \in Msg : Publish(m)
  BY <1>1, <1>2, <1>3, PublishOne DEF OneCopyInv
<1>4. CASE \E k \in Task : Republish(k)
  BY <1>1, <1>2, <1>4, RepublishOne DEF OneCopyInv
<1>5. CASE ~(\E m \in Msg : Publish(m)) /\ ~(\E k \in Task : Republish(k))
  <2>1. UNCHANGED msg
    BY <1>5, StepBorn DEF Born
  <2>2. \A c \in Copy : place[c] = "unborn" => place'[c] = "unborn"
    BY <1>2, <1>5, StaysUnborn
  <2> QED BY <1>1, <1>2, <2>1, <2>2, NoBirth DEF OneCopyInv
<1> QED BY <1>3, <1>4, <1>5

\* Without link faults a message has one live copy between turns, whatever the
\* manager leaks and however the handlers end.
THEOREM NothingMultiplied == ~LinkFaults /\ ~Undisciplined => (Spec => []NoDuplicates)
<1> SUFFICES ASSUME ~LinkFaults, ~Undisciplined PROVE Spec => []NoDuplicates
  OBVIOUS
<1>1. ASSUME Init PROVE OneCopyInv
  BY <1>1, AnswerInvInit DEF Init, OneCopyInv, HeldOnce, LinksUp, OneLive, Live
<1>2. OneCopyInv /\ [Next]_vars => OneCopyInv'
  BY OneCopyStep
<1>3. ASSUME OneCopyInv PROVE NoDuplicates
  <2> SUFFICES ASSUME turn = None, NEW m \in Msg
               PROVE  Cardinality({c \in Copy : msg[c] = m /\ Live(c)}) <= 1
    BY DEF NoDuplicates
  <2> DEFINE LiveCopies == {c \in Copy : msg[c] = m /\ Live(c)}
  <2>1. \A c, d \in LiveCopies : c = d
    BY <1>3, OneCopyParts DEF OneLive, Replaced
  <2>2. CASE LiveCopies = {}
    BY <2>2, FS_EmptySet
  <2>3. CASE \E c \in LiveCopies : TRUE
    <3>1. PICK c \in LiveCopies : TRUE
      BY <2>3
    <3>2. LiveCopies = {c}
      BY <2>1, <3>1
    <3>3. Cardinality(LiveCopies) = 1
      BY <3>2, FS_Singleton
    <3> QED BY <3>3
  <2> QED BY <2>2, <2>3
<1> QED BY <1>1, <1>2, <1>3, PTL DEF Spec

-----------------------------------------------------------------------------
(* How often a message is delivered.                                       *)

LEMMA AttemptParts ==
  ASSUME AttemptInv
  PROVE  OneCopyInv /\ DeliveredOnce /\ LatestCopy
BY DEF AttemptInv

\* A copy that waits in a queue has not been delivered, so it is not replaced.
LEMMA QueuedIsFresh ==
  ASSUME AttemptInv, NEW c \in Copy, place[c] \in {"ready", "delay"}
  PROVE  ~Replaced(c) /\ \A t \in Tag : pc[t] # "idle" => copyOf[t] # c
<1>1. \A t \in Tag : pc[t] # "idle" => copyOf[t] # c
  BY AttemptParts DEF DeliveredOnce
<1>2. ~Replaced(c)
  <2> SUFFICES ASSUME Replaced(c) PROVE FALSE
    OBVIOUS
  <2>1. turn \in Task /\ step[turn] = "ack" /\ copyOf[turn[1]] = c
    BY AttemptParts, OneCopyParts DEF Replaced, TypeOK
  <2> QED BY <1>1, <2>1, AttemptParts, BusyHolds
<1> QED BY <1>1, <1>2

\* A delivery after a step was one before, or is the one that begins.
LEMMA DeliveryBegins ==
  ASSUME TypeOK, [Next]_vars, NEW t \in Tag, pc'[t] # "idle", pc[t] = "idle", DeliveriesKnown
  PROVE  \E c \in Copy, g \in Chan : Deliver(t, c, g)
<1>1. ASSUME NEW u \in Tag, NEW c \in Copy, NEW g \in Chan, Deliver(u, c, g) PROVE u = t
  BY <1>1 DEF Deliver, TypeOK
<1>2. CASE Next /\ \A u \in Tag, c \in Copy, g \in Chan : ~Deliver(u, c, g)
  BY <1>2, DeliveryAssumption, QuietStep DEF Continues
<1>3. ~UNCHANGED vars
  BY DEF vars, client, progress
<1> QED BY <1>1, <1>2, <1>3

\* A delivery begins with a copy that has the highest count so far.
LEMMA BeginsLatest ==
  ASSUME AttemptInv, NEW t \in Tag, NEW c \in Copy, NEW g \in Chan, Deliver(t, c, g),
         NEW u \in Tag, pc[u] # "idle"
  PROVE  /\ u # t /\ copyOf[u] # c
         /\ MsgOf(u) = msg[c] => RetryOf(u) < retry[c]
<1>1. place[c] = "ready" /\ pc[t] = "idle"
  BY DEF Deliver, NewTags, Fresh
<1>2. copyOf[u] # c /\ ~Replaced(c)
  BY <1>1, QueuedIsFresh
<1> QED BY <1>1, <1>2, AttemptParts DEF LatestCopy, DeliveryOf

LEMMA DeliveredOnceStep ==
  ASSUME ~LinkFaults, "requeue" \notin Controls, AttemptInv, [Next]_vars, NoProtocolError'
  PROVE  DeliveredOnce'
<1> USE AttemptParts, OneCopyParts
<1>1. History
  BY StepHistory
<1>2. ASSUME NEW t \in Tag, pc'[t] # "idle" PROVE place'[copyOf'[t]] \in {"unacked", "gone"}
  <2>1. CASE pc[t] # "idle"
    <3>1. copyOf'[t] = copyOf[t] /\ copyOf[t] \in Copy /\ place[copyOf[t]] \in {"unacked", "gone"}
      BY <1>1, <2>1 DEF History, DeliveredOnce, DeliveriesKnown
    <3> QED BY <3>1, StepPlaces DEF PlaceMoves
  <2>2. CASE pc[t] = "idle"
    <3>1. PICK c \in Copy, g \in Chan : Deliver(t, c, g)
      BY <1>2, <2>2, DeliveryBegins
    <3> QED BY <3>1 DEF Deliver, TypeOK
  <2> QED BY <2>1, <2>2
<1>3. ASSUME NEW t \in Tag, NEW u \in Tag, pc'[t] # "idle", pc'[u] # "idle", t # u, pc[u] # "idle"
      PROVE  copyOf'[t] # copyOf'[u] /\ (MsgOf(t)' = MsgOf(u)' => RetryOf(t)' # RetryOf(u)')
  <2>1. CASE pc[t] # "idle"
    BY <1>1, <1>3, <2>1 DEF History, DeliveredOnce
  <2>2. CASE pc[t] = "idle"
    <3>1. PICK c \in Copy, g \in Chan : Deliver(t, c, g)
      BY <1>3, <2>2, DeliveryBegins
    <3>2. copyOf'[t] = c /\ MsgOf(t)' = msg[c] /\ RetryOf(t)' = retry[c]
      BY <3>1 DEF Deliver, MsgOf, RetryOf, TypeOK
    <3>3. /\ copyOf'[u] = copyOf[u] /\ MsgOf(u)' = MsgOf(u) /\ RetryOf(u)' = RetryOf(u)
          /\ copyOf[u] \in Copy
      BY <1>1, <1>3 DEF History, DeliveriesKnown
    <3>4. copyOf[u] # c /\ (MsgOf(u) = msg[c] => RetryOf(u) < retry[c])
      BY <1>3, <3>1, BeginsLatest
    <3>5. RetryOf(u) \in Nat /\ retry[c] \in Nat
      BY <3>3 DEF RetryOf, TypeOK
    <3>6. MsgOf(u) = msg[c] => RetryOf(u) # retry[c]
      BY <3>4, <3>5
    <3> QED BY <3>2, <3>3, <3>4, <3>6
  <2> QED BY <2>1, <2>2
<1>4. ASSUME NEW t \in Tag, NEW u \in Tag, pc'[t] # "idle", pc'[u] # "idle", t # u, pc[u] = "idle"
      PROVE  pc[t] # "idle"
  <2> SUFFICES ASSUME pc[t] = "idle" PROVE FALSE
    OBVIOUS
  <2>1. PICK c \in Copy, g \in Chan : Deliver(t, c, g)
    BY <1>4, DeliveryBegins
  <2> QED BY <1>4, <2>1 DEF Deliver, TypeOK
<1> QED
  BY <1>2, <1>3, <1>4 DEF DeliveredOnce

LEMMA LatestStep ==
  ASSUME ~LinkFaults, "requeue" \notin Controls, AttemptInv, [Next]_vars, NoProtocolError'
  PROVE  LatestCopy'
<1> USE AttemptParts, OneCopyParts
<1> SUFFICES ASSUME NEW c \in Copy, place'[c] \in {"ready", "delay", "unacked"}, ~Replaced(c)',
                    NEW t \in Tag, pc'[t] # "idle", MsgOf(t)' = msg'[c], copyOf'[t] # c
             PROVE  RetryOf(t)' < retry'[c]
  BY DEF LatestCopy, DeliveryOf
<1>1. History
  BY StepHistory
<1>2. CASE place[c] # "unborn"
  <2>1. msg'[c] = msg[c] /\ retry'[c] = retry[c]
    BY <1>2, StepBorn DEF Born, TypeOK
  <2>2. place[c] \in {"ready", "delay", "unacked"}
    BY <1>2, StepPlaces DEF PlaceMoves, TypeOK
  <2>3. ~Replaced(c)
    BY ReplacedStays
  <2>4. CASE pc[t] # "idle"
    BY <1>1, <2>1, <2>2, <2>3, <2>4 DEF History, LatestCopy, DeliveryOf
  <2>5. CASE pc[t] = "idle"
    <3>1. PICK d \in Copy, g \in Chan : Deliver(t, d, g)
      BY <2>5, DeliveryBegins
    <3>2. copyOf'[t] = d /\ place[d] = "ready" /\ MsgOf(t)' = msg[d]
      BY <3>1 DEF Deliver, MsgOf, TypeOK
    <3>3. ~Replaced(d)
      BY <3>2, QueuedIsFresh
    <3> QED BY <2>1, <2>2, <2>3, <3>2, <3>3 DEF OneLive, Live
  <2> QED BY <2>4, <2>5
<1>3. CASE place[c] = "unborn"
  <2>1. pc[t] # "idle"
    <3> SUFFICES ASSUME pc[t] = "idle" PROVE FALSE
      OBVIOUS
    <3>1. PICK d \in Copy, g \in Chan : Deliver(t, d, g)
      BY DeliveryBegins
    <3> QED BY <1>3, <3>1 DEF Deliver, TypeOK
  <2>2. MsgOf(t) = msg'[c] /\ RetryOf(t)' = RetryOf(t) /\ copyOf[t] \in Copy
    BY <1>1, <2>1 DEF History, DeliveriesKnown
  <2>3. ASSUME NEW m \in Msg, Publish(m) PROVE FALSE
    <3>1. \E x \in Copy : /\ place' = [place EXCEPT ![x] = "ready"] /\ msg' = [msg EXCEPT ![x] = m]
      BY <2>3, FreshSubset DEF Publish, NewCopies
    <3>2. msg'[c] = m
      BY <1>3, <3>1 DEF TypeOK
    <3> QED BY <2>2, <2>3, <3>2 DEF Publish, MsgOf
  <2>4. ASSUME NEW k \in Task, Republish(k) PROVE RetryOf(t) < retry'[c]
    <3>1. /\ k[1] \in Tag /\ pc[k[1]] # "idle" /\ copyOf[k[1]] \in Copy
          /\ place[copyOf[k[1]]] = "unacked"
      BY <2>4, BusyHolds DEF Republish, Publishing
    <3>2. \E x \in Copy : /\ place' = [place EXCEPT ![x] = Target(k)]
                          /\ msg' = [msg EXCEPT ![x] = MsgOf(k[1])]
                          /\ retry' = [retry EXCEPT ![x] = NextRetry(k)]
      BY <1>3, <2>4, FreshSubset DEF Republish, Send, NewCopies
    <3>3. msg'[c] = MsgOf(k[1]) /\ retry'[c] = NextRetry(k) /\ Target(k) \in {"ready", "delay"}
      BY <1>3, <3>1, <3>2 DEF TypeOK, Target, DeadLetterQueue
    <3>4. NextRetry(k) = RetryOf(k[1]) + 1
      BY <3>3 DEF Target, DeadLetterQueue, NextRetry
    <3>5. RetryOf(t) \in Nat /\ RetryOf(k[1]) \in Nat
      BY <2>2, <3>1 DEF RetryOf, TypeOK
    <3>6. CASE t = k[1]
      BY <3>3, <3>4, <3>5, <3>6
    <3>7. CASE t # k[1]
      <4>1. copyOf[t] # copyOf[k[1]] /\ t \in DeliveryOf(msg[copyOf[k[1]]])
        BY <2>1, <2>2, <3>1, <3>3, <3>7 DEF DeliveredOnce, DeliveryOf, MsgOf
      <4>2. ~Replaced(copyOf[k[1]])
        BY <2>4 DEF Republish, Publishing, Replaced
      <4>3. RetryOf(t) < RetryOf(k[1])
        BY <3>1, <4>1, <4>2 DEF LatestCopy, RetryOf
      <4> QED BY <3>3, <3>4, <3>5, <4>3
    <3> QED BY <3>6, <3>7
  <2>5. (\E m \in Msg : Publish(m)) \/ (\E k \in Task : Republish(k))
    BY <1>3, StaysUnborn
  <2> QED BY <2>2, <2>3, <2>4, <2>5
<1> QED BY <1>2, <1>3

\* Deliveries with different retry counts up to maxRetries are at most
\* maxRetries + 1.
LEMMA AttemptsCounted ==
  ASSUME AttemptInv, AttemptsBacked, NEW m \in Msg
  PROVE  Cardinality(DeliveryOf(m)) <= MaxRetries + 1
<1> USE AttemptParts, OneCopyParts
<1> DEFINE f == [t \in DeliveryOf(m) |-> RetryOf(t)]
<1>1. MaxRetries \in Nat
  BY DeliveryAssumption
<1>2. ASSUME NEW t \in DeliveryOf(m) PROVE RetryOf(t) \in 0..MaxRetries
  <2>1. copyOf[t] \in Copy
    BY DEF DeliveryOf, DeliveriesKnown
  <2> QED BY <1>1, <2>1 DEF AttemptsBacked, RetryOf, TypeOK
<1>3. \A t, u \in DeliveryOf(m) : f[t] = f[u] => t = u
  BY DEF DeliveryOf, DeliveredOnce
<1>4. f \in [DeliveryOf(m) -> 0..MaxRetries]
  BY <1>2
<1> HIDE DEF f
<1>5. f \in Injection(DeliveryOf(m), 0..MaxRetries)
  BY <1>3, <1>4 DEF Injection, IsInjective
<1>6. IsFiniteSet(0..MaxRetries) /\ Cardinality(0..MaxRetries) = MaxRetries + 1
  BY <1>1, FS_Interval
<1> QED BY <1>5, <1>6, FS_Injection

\* AttemptInv is an invariant without link faults and without metadata.requeue().
THEOREM AttemptInvHolds ==
  ~LinkFaults /\ ~Undisciplined /\ "requeue" \notin Controls => (Spec => []AttemptInv)
<1> SUFFICES ASSUME ~LinkFaults, ~Undisciplined, "requeue" \notin Controls
             PROVE  Spec => []AttemptInv
  OBVIOUS
<1>1. ASSUME Init PROVE AttemptInv
  <2>1. OneCopyInv
    BY <1>1, AnswerInvInit DEF Init, OneCopyInv, HeldOnce, LinksUp, OneLive, Live
  <2> QED BY <1>1, <2>1 DEF Init, AttemptInv, DeliveredOnce, LatestCopy
<1>2. ASSUME AttemptInv, [Next]_vars PROVE AttemptInv'
  <2>1. OneCopyInv'
    BY <1>2, AttemptParts, OneCopyStep
  <2>2. NoProtocolError'
    BY <2>1 DEF OneCopyInv, AnswerInv
  <2> QED BY <1>2, <2>1, <2>2, DeliveredOnceStep, LatestStep DEF AttemptInv
<1> QED BY <1>1, <1>2, PTL DEF Spec

\* Without link faults, and if no handler asks for a message again, a message
\* reaches the worker at most maxRetries + 1 times.
THEOREM AttemptsAreBounded ==
  ~LinkFaults /\ ~Undisciplined /\ "requeue" \notin Controls => (Spec => []AttemptsBounded)
<1>1. ASSUME AttemptInv, RetryInv PROVE AttemptsBounded
  BY <1>1, AttemptsCounted DEF RetryInv, AttemptsBounded
<1> QED BY <1>1, AttemptInvHolds, RetryInvHolds, PTL
=============================================================================
