----------------------- MODULE WorkerDeliveryProofs -----------------------
(***************************************************************************)
(* Proofs about WorkerDelivery, for every number of messages, deliveries,  *)
(* channels and retries.                                                   *)
(*                                                                         *)
(* TypeOK is inductive together with DeliveriesKnown.  NothingLost is not  *)
(* inductive: it follows from DeliveryInv, whose point is the order of     *)
(* "republish, then ack".  When an ack can still take the old copy from    *)
(* the broker, either the new copy has arrived and is Safe, or the failed  *)
(* republication gave the message up, as unsent records; when the channel  *)
(* is gone, the broker holds the old copy for nobody (HeldOnce), and the   *)
(* ack takes nothing.  Every other step that takes a copy settles the      *)
(* message (OutcomeAfterHandler makes that final).  None of this needs to  *)
(* know how the manager hands out channels.                                *)
(*                                                                         *)
(* SafeStep has one lemma per action or group of actions that disturbs the *)
(* same conjuncts: ReceiveSafe, HandlerCallsSafe, HandlerEndsSafe,         *)
(* ThrowSafe, AcksSafe, GetChannelSafe, RepublishSafe, DeliverSafe,        *)
(* SurroundingsSafe.                                                       *)
(*                                                                         *)
(* While the manager keeps one connection the only open channel is its     *)
(* current one (SingleConnection), so a republication under way uses the   *)
(* channel its ack will use (SameChannel): where the ack still counts, the *)
(* publish arrives unless it throws.  ConnectionStep proves this part, and *)
(* OnlyThrowsLose follows from it and NothingLost.                         *)
(*                                                                         *)
(* The refinement of AtLeastOnce follows: by Carried no message is lost,   *)
(* and by ResultsStay and DeliveredIsPublished none becomes unpublished    *)
(* or unsettled again (StepOfContract).                                    *)
(*                                                                         *)
(* The refinement of ChannelProvider needs no more than the types: what    *)
(* the broker does to a channel is Unnoticed until the client sees it end. *)
(***************************************************************************)
EXTENDS WorkerDelivery, TLAPS

\* Fresh chooses a member of its argument or nothing.
LEMMA FreshSubset == ASSUME NEW S PROVE Fresh(S) \subseteq S
BY DEF Fresh

\* The two tasks of a delivery.
LEMMA TasksOfDelivery ==
  ASSUME NEW t \in Tag
  PROVE  /\ Callback(t) \in Task /\ Callback(t)[1] = t /\ Callback(t)[2] = "callback"
         /\ Manual(t) \in Task /\ Manual(t)[1] = t /\ Manual(t)[2] = "manual"
         /\ Callback(t) # Manual(t)
BY DEF Task, Callback, Manual

\* A task is the callback or the manual dead letter of its delivery.
LEMMA DeliveryOfTask ==
  ASSUME NEW k \in Task
  PROVE  /\ k[1] \in Tag
         /\ \/ k = Callback(k[1]) /\ k[2] = "callback"
            \/ k = Manual(k[1]) /\ k[2] = "manual"
BY DEF Task, Callback, Manual

\* A task that is under way belongs to a delivery that is.
LEMMA BusyTask ==
  ASSUME TypeOK, DeliveriesKnown, NEW k \in Task, step[k] # "none"
  PROVE  /\ pc[k[1]] # "idle"
         /\ copyOf[k[1]] \in Copy /\ place[copyOf[k[1]]] # "unborn"
         /\ chanOf[k[1]] \in Chan /\ link[chanOf[k[1]]] # "new"
BY DeliveryOfTask DEF DeliveriesKnown

-----------------------------------------------------------------------------
(* Type correctness.                                                       *)

\* Settling keeps the types of what the broker keeps.
LEMMA SettleTypes ==
  ASSUME TypeOK, NEW t \in Tag, NEW to \in Place, copyOf[t] \in Copy, chanOf[t] \in Chan,
         Settle(t, to)
  PROVE  /\ place' \in [Copy -> Place] /\ link' \in [Chan -> LinkView]
         /\ unsettled' \subseteq Tag
BY DEF TypeOK, Settle, Drop, Place, LinkView

\* getChannel() keeps the types of the manager's channel and of the links.
LEMMA GetChannelTypes ==
  ASSUME TypeOK, NEW g \in Chan, GetChannel(g)
  PROVE  cur' \in Chan \cup {None} /\ link' \in [Chan -> LinkView]
BY FreshSubset DEF TypeOK, GetChannel, NewChannels, LinkView

\* Giving a message up is recorded for its delivery and never taken back.
LEMMA GivesUpTypes ==
  ASSUME TypeOK, NEW t \in Tag, NEW why \in {"threw", "noChannel"}, GivesUp(t, why)
  PROVE  /\ unsent' \in [Tag -> {"no", "threw", "noChannel"}]
         /\ \A u \in Tag : unsent[u] # "no" => unsent'[u] # "no"
         /\ t \in unsettled => unsent'[t] = why
BY DEF TypeOK, GivesUp

\* An exception keeps the types, whichever catch it reaches.
LEMMA ThrowTypes ==
  ASSUME DeliveryAssumption, TypeOK, DeliveriesKnown, NEW k \in Task,
         step[k] # "none", Throw(k)
  PROVE  /\ place' \in [Copy -> Place] /\ link' \in [Chan -> LinkView]
         /\ unsettled' \subseteq Tag
         /\ pc' \in [Tag -> Control] /\ step' \in [Task -> Step]
         /\ unsent' \in [Tag -> {"no", "threw", "noChannel"}]
         /\ \A u \in Tag : unsent[u] # "no" => unsent'[u] # "no"
<1> USE DEF TypeOK, Control, Step, Place
<1>1. k[1] \in Tag /\ copyOf[k[1]] \in Copy /\ chanOf[k[1]] \in Chan /\ Callback(k[1]) \in Task
  BY BusyTask, DeliveryOfTask, TasksOfDelivery
<1>2. CASE k[2] = "manual" /\ step' = [step EXCEPT ![k] = "failed"]
           /\ UNCHANGED <<place, unsettled, link, pc, unsent>>
  BY <1>2
<1>3. CASE InnerCatch(k[1]) /\ UNCHANGED <<place, unsettled, link, unsent>>
  BY <1>1, <1>3 DEF InnerCatch, RetriesLeft
<1>4. CASE OuterCatch(k[1])
  BY <1>1, <1>4, SettleTypes, GivesUpTypes DEF OuterCatch
<1> QED BY <1>2, <1>3, <1>4 DEF Throw

\* Every action keeps the types.
LEMMA TypeStep ==
  ASSUME DeliveryAssumption, TypeOK, DeliveriesKnown, [Next]_vars
  PROVE  TypeOK'
<1> USE DeliveryAssumption DEF TypeOK, Place, LinkView, Control, Outcome, Step
<1>1. ASSUME NEW m \in Msg, Publish(m) PROVE TypeOK'
  BY <1>1, FreshSubset DEF Publish, client, progress, NewCopies
<1>2. ASSUME NEW c \in Copy, Expire(c) PROVE TypeOK'
  BY <1>2 DEF Expire, client, progress
<1>3. ASSUME NEW g \in Chan, BreakLink(g) PROVE TypeOK'
  BY <1>3 DEF BreakLink, Drop, client, progress
<1>4. ASSUME NEW g \in Chan, ChannelClosed(g) PROVE TypeOK'
  BY <1>4 DEF ChannelClosed, ChannelAfter, progress
<1>5. CASE Reconnect
  BY <1>5, GetChannelTypes DEF Reconnect, progress
<1>6. CASE Forget
  BY <1>6 DEF Forget, broker, progress
<1>7. CASE Start
  BY <1>7, GetChannelTypes DEF Start, progress
<1>8. CASE Stop
  BY <1>8, GetChannelTypes DEF Stop, progress
<1>9. ASSUME NEW e \in Event, AddHandler(e) \/ RemoveHandler(e) PROVE TypeOK'
  BY <1>9 DEF AddHandler, RemoveHandler, broker, progress
<1>10. ASSUME NEW t \in Tag, NEW c \in Copy, NEW g \in Chan, Deliver(t, c, g) PROVE TypeOK'
  BY <1>10 DEF Deliver
<1>11. ASSUME NEW t \in Tag, Receive(t) PROVE TypeOK'
  <2>1. copyOf[t] \in Copy /\ chanOf[t] \in Chan /\ Callback(t) \in Task
    BY <1>11, TasksOfDelivery DEF Receive, DeliveriesKnown
  <2>2. "gone" \in Place
    OBVIOUS
  <2>3. place' \in [Copy -> Place] /\ link' \in [Chan -> LinkView] /\ unsettled' \subseteq Tag
    BY <1>11, <2>1, <2>2, SettleTypes DEF Receive
  <2>4. pc' \in [Tag -> Control] /\ step' \in [Task -> Step]
    BY <1>11, <2>1 DEF Receive
  <2> QED BY <1>11, <2>3, <2>4 DEF Receive
<1>12. ASSUME NEW t \in Tag, NEW ctl \in Controls, HandlerCalls(t, ctl) PROVE TypeOK'
  <2>1. copyOf[t] \in Copy /\ chanOf[t] \in Chan /\ Manual(t) \in Task
    BY <1>12, TasksOfDelivery DEF HandlerCalls, DeliveriesKnown
  <2>2. (IF ctl = "nack" THEN "gone" ELSE "ready") \in Place
    OBVIOUS
  <2>3. place' \in [Copy -> Place] /\ link' \in [Chan -> LinkView] /\ unsettled' \subseteq Tag
    BY <1>12, <2>1, <2>2, SettleTypes DEF HandlerCalls
  <2>4. step' \in [Task -> Step] /\ calls' \in [Tag -> SUBSET {"nack", "requeue", "deadLetter"}]
    BY <1>12, <2>1 DEF HandlerCalls
  <2> QED BY <1>12, <2>3, <2>4 DEF HandlerCalls
<1>13. ASSUME NEW t \in Tag, HandlerResolves(t) PROVE TypeOK'
  <2>1. copyOf[t] \in Copy /\ chanOf[t] \in Chan /\ Callback(t) \in Task
    BY <1>13, TasksOfDelivery DEF HandlerResolves, manualAckUsed, Acked, DeliveriesKnown
  <2>2. "gone" \in Place
    OBVIOUS
  <2>3. place' \in [Copy -> Place] /\ link' \in [Chan -> LinkView] /\ unsettled' \subseteq Tag
    BY <1>13, <2>1, <2>2, SettleTypes DEF HandlerResolves, manualAckUsed, Acked
  <2>4. pc' \in [Tag -> Control] /\ step' \in [Task -> Step]
    BY <1>13, <2>1 DEF HandlerResolves, manualAckUsed, Acked, InnerCatch, RetriesLeft
  <2> QED BY <1>13, <2>3, <2>4 DEF HandlerResolves, manualAckUsed, Acked
<1>14. ASSUME NEW t \in Tag, HandlerRejects(t) PROVE TypeOK'
  BY <1>14, TasksOfDelivery DEF HandlerRejects, InnerCatch, RetriesLeft
<1>15. ASSUME NEW k \in Task, GetsChannel(k) PROVE TypeOK'
  BY <1>15, GetChannelTypes DEF GetsChannel
<1>16. ASSUME NEW k \in Task, ConnectFails(k) PROVE TypeOK'
  BY <1>16, ThrowTypes DEF ConnectFails
<1>17. ASSUME NEW k \in Task, Republish(k) PROVE TypeOK'
  <2>1. copyOf[k[1]] \in Copy
    BY <1>17, BusyTask DEF Republish, Publishing
  <2>2. MsgOf(k[1]) \in Msg \cup {None} /\ RetryOf(k[1]) \in Nat
    BY <2>1 DEF RetryOf, MsgOf
  <2>3. NextRetry(k) \in Nat
    BY <2>2 DEF NextRetry
  <2>4. Target(k) \in Place
    BY DEF Target, DeadLetterQueue
  <2>5. NewCopies \subseteq Copy
    BY FreshSubset DEF NewCopies
  <2>6. place' \in [Copy -> Place] /\ msg' \in [Copy -> Msg \cup {None}] /\ retry' \in [Copy -> Nat]
    BY <1>17, <2>2, <2>3, <2>4, <2>5 DEF Republish, Send
  <2>7. step' \in [Task -> Step] /\ turn' \in Task \cup {None}
    BY <1>17 DEF Republish
  <2>8. unsent' \in [Tag -> {"no", "threw", "noChannel"}]
    BY <1>17, DeliveryOfTask, GivesUpTypes DEF Republish
  <2> QED BY <1>17, <2>6, <2>7, <2>8 DEF Republish
<1>18. ASSUME NEW k \in Task, RepublishFails(k) PROVE TypeOK'
  <2>1. unsent' \in [Tag -> {"no", "threw", "noChannel"}]
    BY <1>18, DeliveryOfTask, GivesUpTypes DEF RepublishFails
  <2> QED BY <1>18, <2>1 DEF RepublishFails, broker
<1>19. ASSUME NEW k \in Task, Acks(k) PROVE TypeOK'
  <2>1. k[1] \in Tag /\ copyOf[k[1]] \in Copy /\ chanOf[k[1]] \in Chan /\ step[k] # "none"
    BY <1>19, BusyTask, DeliveryOfTask DEF Acks, Acked
  <2>2. CASE Open(chanOf[k[1]])
    BY <1>19, <2>1, <2>2, SettleTypes DEF Acks, Acked, Ended
  <2>3. CASE ~Open(chanOf[k[1]])
    BY <1>19, <2>1, <2>3, ThrowTypes DEF Acks, Acked
  <2> QED BY <2>2, <2>3
<1>20. CASE UNCHANGED vars
  BY <1>20 DEF vars, broker, client, progress
<1> QED
  BY <1>1, <1>2, <1>3, <1>4, <1>5, <1>6, <1>7, <1>8, <1>9, <1>10, <1>11, <1>12,
     <1>13, <1>14, <1>15, <1>16, <1>17, <1>18, <1>19, <1>20 DEF Next, TaskStep

-----------------------------------------------------------------------------
(* A delivery in progress refers to a copy and a channel that exist.       *)

\* Nothing that exists ceases to: no copy is unborn again, no channel new.
Persists ==
  /\ \A c \in Copy : place[c] # "unborn" => place'[c] # "unborn"
  /\ \A g \in Chan : link[g] # "new" => link'[g] # "new"

\* What every step except Deliver does to the deliveries: none begins, none is
\* forgotten, and one that has not begun republishes nothing.
Continues ==
  /\ copyOf' = copyOf /\ chanOf' = chanOf
  /\ unsettled' \subseteq unsettled
  /\ \A t \in Tag : (pc'[t] = "idle") <=> (pc[t] = "idle")
  /\ \A t \in Tag : pc[t] = "idle" =>
       step'[Callback(t)] = step[Callback(t)] /\ step'[Manual(t)] = step[Manual(t)]

\* DeliveriesKnown needs no more than the two facts above.
LEMMA KnownKept ==
  ASSUME TypeOK, DeliveriesKnown, Persists, Continues
  PROVE  DeliveriesKnown'
BY DEF TypeOK, DeliveriesKnown, Persists, Continues

\* The two tasks of different deliveries are different.
LEMMA TasksDistinct ==
  ASSUME NEW t \in Tag, NEW u \in Tag, t # u
  PROVE  /\ Callback(t) # Callback(u) /\ Callback(t) # Manual(u)
         /\ Manual(t) # Callback(u) /\ Manual(t) # Manual(u)
BY DEF Callback, Manual

\* A step that advances the callback or a republication of one delivery that
\* has begun lets the deliveries continue.
LEMMA AdvanceContinues ==
  ASSUME TypeOK, NEW t \in Tag, pc[t] # "idle",
         copyOf' = copyOf, chanOf' = chanOf, unsettled' \subseteq unsettled,
         pc'[t] # "idle", \A u \in Tag \ {t} : pc'[u] = pc[u],
         \A k \in Task : k[1] # t => step'[k] = step[k]
  PROVE  Continues
BY TasksOfDelivery DEF Continues

\* Dropping a channel makes nothing that exists vanish.
LEMMA DropPersists ==
  ASSUME TypeOK, NEW g \in Chan, NEW why \in {"broken", "error"}, Drop(g, why)
  PROVE  Persists /\ unsettled' \subseteq unsettled
BY DEF TypeOK, Drop, Persists

\* Neither does an ack or a nack, on any channel.
LEMMA SettlePersists ==
  ASSUME TypeOK, NEW t \in Tag, copyOf[t] \in Copy, chanOf[t] \in Chan,
         NEW to \in Place \ {"unborn"}, Settle(t, to)
  PROVE  Persists /\ unsettled' \subseteq unsettled
<1>1. CASE link[chanOf[t]] = "up" /\ t \notin unsettled /\ Drop(chanOf[t], "error")
  BY <1>1, DropPersists
<1>2. CASE UNCHANGED link /\ place' = [place EXCEPT ![copyOf[t]] = to]
           /\ unsettled' = unsettled \ {t}
  BY <1>2 DEF TypeOK, Persists
<1>3. CASE UNCHANGED <<place, unsettled, link>>
  BY <1>3 DEF Persists
<1> QED BY <1>1, <1>2, <1>3 DEF Settle

\* Neither does getChannel().
LEMMA GetChannelPersists ==
  ASSUME TypeOK, NEW g \in Chan, GetChannel(g), UNCHANGED place
  PROVE  Persists
BY FreshSubset DEF TypeOK, GetChannel, NewChannels, Persists

\* An exception changes the progress of its own delivery only.
LEMMA ThrowPersists ==
  ASSUME TypeOK, DeliveriesKnown, NEW k \in Task, step[k] # "none", Throw(k)
  PROVE  /\ Persists /\ unsettled' \subseteq unsettled
         /\ pc'[k[1]] # "idle" /\ \A u \in Tag \ {k[1]} : pc'[u] = pc[u]
         /\ \A j \in Task : j[1] # k[1] => step'[j] = step[j]
<1>1. k[1] \in Tag /\ copyOf[k[1]] \in Copy /\ chanOf[k[1]] \in Chan
      /\ Callback(k[1]) \in Task /\ Callback(k[1])[1] = k[1] /\ pc[k[1]] # "idle"
  BY BusyTask, DeliveryOfTask, TasksOfDelivery
<1>2. CASE k[2] = "manual" /\ step' = [step EXCEPT ![k] = "failed"]
           /\ UNCHANGED <<place, unsettled, link, pc>>
  BY <1>1, <1>2 DEF TypeOK, Persists
<1>3. CASE InnerCatch(k[1]) /\ UNCHANGED <<place, unsettled, link>>
  BY <1>1, <1>3 DEF TypeOK, Persists, InnerCatch, RetriesLeft
<1>4. CASE OuterCatch(k[1])
  <2>1. "gone" \in Place \ {"unborn"}
    BY DEF Place
  <2>2. Persists /\ unsettled' \subseteq unsettled
    <3>1. CASE Settle(k[1], "gone")
      BY <1>1, <2>1, <3>1, SettlePersists
    <3>2. CASE UNCHANGED <<place, unsettled, link>>
      BY <3>2 DEF Persists
    <3> QED BY <1>4, <3>1, <3>2 DEF OuterCatch
  <2>3. pc'[k[1]] # "idle" /\ \A u \in Tag \ {k[1]} : pc'[u] = pc[u]
    BY <1>1, <1>4 DEF TypeOK, OuterCatch
  <2>4. \A j \in Task : j[1] # k[1] => step'[j] = step[j]
    BY <1>1, <1>4 DEF TypeOK, OuterCatch
  <2> QED BY <2>2, <2>3, <2>4
<1> QED BY <1>2, <1>3, <1>4 DEF Throw

\* Every step but a delivery keeps what exists, and continues the deliveries.
LEMMA QuietStep ==
  ASSUME DeliveryAssumption, TypeOK, DeliveriesKnown, Next,
         \A t \in Tag, c \in Copy, g \in Chan : ~Deliver(t, c, g)
  PROVE  Persists /\ Continues
<1>1. ASSUME NEW m \in Msg, Publish(m) PROVE Persists /\ Continues
  BY <1>1 DEF Publish, NewCopies, Fresh, Persists, Continues, client, progress, TypeOK
<1>2. ASSUME NEW c \in Copy, Expire(c) PROVE Persists /\ Continues
  BY <1>2 DEF Expire, Persists, Continues, client, progress, TypeOK
<1>3. ASSUME NEW g \in Chan, BreakLink(g) PROVE Persists /\ Continues
  BY <1>3, DropPersists DEF BreakLink, Continues, client, progress
<1>4. ASSUME NEW g \in Chan, ChannelClosed(g) PROVE Persists /\ Continues
  BY <1>4 DEF ChannelClosed, Persists, Continues, progress, TypeOK
<1>5. CASE Reconnect
  BY <1>5, GetChannelPersists DEF Reconnect, Continues, progress
<1>6. CASE Forget
  BY <1>6 DEF Forget, Persists, Continues, broker, progress
<1>7. CASE Start
  BY <1>7, GetChannelPersists DEF Start, Continues, progress
<1>8. CASE Stop
  <2>1. Continues
    BY <1>8 DEF Stop, Continues, progress
  <2>2. Persists
    BY <1>8, GetChannelPersists DEF Stop, Persists
  <2> QED BY <2>1, <2>2
<1>9. ASSUME NEW e \in Event, AddHandler(e) \/ RemoveHandler(e) PROVE Persists /\ Continues
  BY <1>9 DEF AddHandler, RemoveHandler, Persists, Continues, broker, progress
<1>10. ASSUME NEW t \in Tag, Receive(t) PROVE Persists /\ Continues
  <2>1. copyOf[t] \in Copy /\ chanOf[t] \in Chan /\ Callback(t) \in Task /\ Callback(t)[1] = t
    BY <1>10, TasksOfDelivery DEF Receive, DeliveriesKnown
  <2>2. Persists /\ unsettled' \subseteq unsettled
    <3>1. CASE Settle(t, "gone")
      BY <2>1, <3>1, SettlePersists DEF Place
    <3>2. CASE UNCHANGED <<place, unsettled, link>>
      BY <3>2 DEF Persists
    <3> QED BY <1>10, <3>1, <3>2 DEF Receive
  <2>3. pc[t] # "idle" /\ pc'[t] # "idle" /\ \A u \in Tag \ {t} : pc'[u] = pc[u]
    BY <1>10 DEF Receive, TypeOK
  <2>4. \A k \in Task : k[1] # t => step'[k] = step[k]
    BY <1>10, <2>1 DEF Receive, TypeOK
  <2>5. copyOf' = copyOf /\ chanOf' = chanOf
    BY <1>10 DEF Receive
  <2> QED BY <2>2, <2>3, <2>4, <2>5, AdvanceContinues
<1>11. ASSUME NEW t \in Tag, NEW ctl \in Controls, HandlerCalls(t, ctl)
       PROVE Persists /\ Continues
  <2>1. copyOf[t] \in Copy /\ chanOf[t] \in Chan /\ Manual(t) \in Task /\ Manual(t)[1] = t
    BY <1>11, TasksOfDelivery DEF HandlerCalls, DeliveriesKnown
  <2>2. Persists /\ unsettled' \subseteq unsettled
    <3>1. CASE Settle(t, IF ctl = "nack" THEN "gone" ELSE "ready")
      BY <2>1, <3>1, SettlePersists DEF Place
    <3>2. CASE UNCHANGED <<place, unsettled, link>>
      BY <3>2 DEF Persists
    <3> QED BY <1>11, <3>1, <3>2 DEF HandlerCalls
  <2>3. pc[t] # "idle" /\ pc' = pc
    BY <1>11 DEF HandlerCalls
  <2>4. \A k \in Task : k[1] # t => step'[k] = step[k]
    BY <1>11, <2>1 DEF HandlerCalls, TypeOK
  <2>5. copyOf' = copyOf /\ chanOf' = chanOf
    BY <1>11 DEF HandlerCalls
  <2> QED BY <2>2, <2>3, <2>4, <2>5, AdvanceContinues
<1>12. ASSUME NEW t \in Tag, HandlerResolves(t) PROVE Persists /\ Continues
  <2>1. copyOf[t] \in Copy /\ chanOf[t] \in Chan /\ Callback(t) \in Task /\ Callback(t)[1] = t
    BY <1>12, TasksOfDelivery DEF HandlerResolves, manualAckUsed, Acked, DeliveriesKnown
  <2>2. Persists /\ unsettled' \subseteq unsettled
    <3>1. CASE Settle(t, "gone")
      BY <2>1, <3>1, SettlePersists DEF Place
    <3>2. CASE UNCHANGED <<place, unsettled, link>>
      BY <3>2 DEF Persists
    <3> QED BY <1>12, <3>1, <3>2 DEF HandlerResolves, manualAckUsed, Acked
  <2>3. pc[t] # "idle" /\ pc'[t] # "idle" /\ \A u \in Tag \ {t} : pc'[u] = pc[u]
    BY <1>12 DEF HandlerResolves, manualAckUsed, Acked, InnerCatch, RetriesLeft, TypeOK
  <2>4. \A k \in Task : k[1] # t => step'[k] = step[k]
    BY <1>12, <2>1 DEF HandlerResolves, manualAckUsed, Acked, InnerCatch, RetriesLeft, TypeOK
  <2>5. copyOf' = copyOf /\ chanOf' = chanOf
    BY <1>12 DEF HandlerResolves, manualAckUsed, Acked
  <2> QED BY <2>2, <2>3, <2>4, <2>5, AdvanceContinues
<1>13. ASSUME NEW t \in Tag, HandlerRejects(t) PROVE Persists /\ Continues
  <2>1. Callback(t) \in Task /\ Callback(t)[1] = t
    BY TasksOfDelivery
  <2>2. Persists /\ pc[t] # "idle" /\ pc'[t] # "idle" /\ \A u \in Tag \ {t} : pc'[u] = pc[u]
    BY <1>13 DEF HandlerRejects, InnerCatch, RetriesLeft, TypeOK, Persists
  <2>3. \A k \in Task : k[1] # t => step'[k] = step[k]
    BY <1>13, <2>1 DEF HandlerRejects, InnerCatch, RetriesLeft, TypeOK
  <2>4. copyOf' = copyOf /\ chanOf' = chanOf /\ unsettled' \subseteq unsettled
    BY <1>13 DEF HandlerRejects
  <2> QED BY <2>2, <2>3, <2>4, AdvanceContinues
<1>14. ASSUME NEW k \in Task, TaskStep(k) PROVE Persists /\ Continues
  <2>1. k[1] \in Tag /\ step[k] # "none" /\ pc[k[1]] # "idle"
    BY <1>14, BusyTask, DeliveryOfTask
       DEF TaskStep, GetsChannel, ConnectFails, Republish, RepublishFails, Publishing, Acks, Acked
  <2>2. copyOf[k[1]] \in Copy /\ chanOf[k[1]] \in Chan
    BY <2>1, BusyTask
  <2>3. copyOf' = copyOf /\ chanOf' = chanOf
    BY <1>14 DEF TaskStep, GetsChannel, ConnectFails, Republish, RepublishFails, Acks, Acked
  <2>4. CASE GetsChannel(k)
    BY <2>1, <2>3, <2>4, GetChannelPersists, AdvanceContinues DEF GetsChannel, TypeOK
  <2>5. CASE Throw(k)
    BY <2>1, <2>3, <2>5, ThrowPersists, AdvanceContinues
  <2>6. CASE Republish(k)
    <3>1. Persists
      BY <2>6 DEF Republish, Send, NewCopies, Fresh, Persists, TypeOK
    <3> QED BY <2>1, <2>3, <2>6, <3>1, AdvanceContinues DEF Republish, TypeOK
  <2>7. CASE RepublishFails(k)
    BY <2>1, <2>3, <2>7, AdvanceContinues DEF RepublishFails, Persists, broker, TypeOK
  <2>8. CASE Acks(k) /\ Settle(k[1], "gone") /\ step' = [step EXCEPT ![k] = "none"]
             /\ pc' = IF k[2] = "callback" THEN [pc EXCEPT ![k[1]] = Ended(@)] ELSE pc
    <3>1. Persists /\ unsettled' \subseteq unsettled
      BY <2>1, <2>2, <2>8, SettlePersists DEF Place
    <3>2. pc'[k[1]] # "idle" /\ \A u \in Tag \ {k[1]} : pc'[u] = pc[u]
      BY <2>1, <2>8 DEF TypeOK, Ended
    <3>3. \A j \in Task : j[1] # k[1] => step'[j] = step[j]
      BY <2>8 DEF TypeOK
    <3> QED BY <2>1, <2>3, <3>1, <3>2, <3>3, AdvanceContinues
  <2> QED BY <1>14, <2>4, <2>5, <2>6, <2>7, <2>8 DEF TaskStep, ConnectFails, Acks, Acked
<1> QED
  BY <1>1, <1>2, <1>3, <1>4, <1>5, <1>6, <1>7, <1>8, <1>9, <1>10, <1>11, <1>12,
     <1>13, <1>14 DEF Next

\* Every action keeps the references of the deliveries in progress valid.
LEMMA KnownStep ==
  ASSUME DeliveryAssumption, TypeOK, DeliveriesKnown, [Next]_vars
  PROVE  DeliveriesKnown'
<1>1. ASSUME NEW t \in Tag, NEW c \in Copy, NEW g \in Chan, Deliver(t, c, g)
      PROVE  DeliveriesKnown'
  <2>1. pc[t] = "idle"
    BY <1>1 DEF Deliver, NewTags, Fresh
  <2>2. pc'[t] = "received" /\ copyOf'[t] = c /\ chanOf'[t] = g
    BY <1>1 DEF Deliver, TypeOK
  <2>3. place'[c] = "unacked" /\ link'[g] # "new"
    BY <1>1 DEF Deliver, TypeOK
  <2>4. Persists
    BY <1>1 DEF Deliver, TypeOK, Persists
  <2>5. ASSUME NEW u \in Tag, u # t
        PROVE  /\ pc'[u] = pc[u] /\ copyOf'[u] = copyOf[u] /\ chanOf'[u] = chanOf[u]
               /\ u \in unsettled' <=> u \in unsettled
               /\ step' = step
    BY <1>1, <2>5 DEF Deliver, TypeOK
  <2> QED BY <2>2, <2>3, <2>4, <2>5 DEF DeliveriesKnown, Persists
<1>2. CASE UNCHANGED vars
  BY <1>2 DEF vars, broker, client, progress, DeliveriesKnown
<1>3. CASE Next /\ \A t \in Tag, c \in Copy, g \in Chan : ~Deliver(t, c, g)
  BY <1>3, QuietStep, KnownKept
<1> QED BY <1>1, <1>2, <1>3

\* The two hold together, with or without leaked connections, link faults and
\* undisciplined handlers.
LEMMA KnownAlways == Spec => [](TypeOK /\ DeliveriesKnown)
<1>1. ASSUME Init PROVE TypeOK /\ DeliveriesKnown
  <2> USE <1>1 DEF Init
  <2>1. TypeOK
    BY DEF TypeOK, Place, LinkView, Control, Outcome, Step
  <2>2. DeliveriesKnown
    BY TasksOfDelivery DEF DeliveriesKnown
  <2> QED BY <2>1, <2>2
<1>2. TypeOK /\ DeliveriesKnown /\ [Next]_vars => TypeOK' /\ DeliveriesKnown'
  BY DeliveryAssumption, TypeStep, KnownStep
<1> QED BY <1>1, <1>2, PTL DEF Spec

\* Every reachable state has the types the code gives its variables.
THEOREM TypeCorrect == Spec => []TypeOK
BY KnownAlways, PTL

-----------------------------------------------------------------------------
(* Nothing is lost.  What settling and dropping do to the broker's books.  *)

\* The broker's books after a step: they still balance, the client sees the
\* same channels open, and a copy that moved is back in the queue, except that
\* the copies in S may have moved elsewhere.
BooksKept(S) ==
  /\ HeldOnce'
  /\ unsettled' \subseteq unsettled
  /\ \A g \in Chan : Open(g)' <=> Open(g)
  /\ \A c \in Copy \ S : place'[c] = place[c] \/ place'[c] = "ready"

\* A delivery the broker waits for has a copy and a channel.
LEMMA HeldInTypes ==
  ASSUME TypeOK, DeliveriesKnown, NEW t \in unsettled
  PROVE  t \in Tag /\ copyOf[t] \in Copy /\ chanOf[t] \in Chan
BY DEF TypeOK, DeliveriesKnown

\* After the broker dropped a channel its books balance.
LEMMA DropBooks ==
  ASSUME TypeOK, DeliveriesKnown, HeldOnce, NEW g \in Chan, NEW why \in {"broken", "error"},
         link[g] = "up", Drop(g, why), copyOf' = copyOf, chanOf' = chanOf
  PROVE  BooksKept({})
<1>1. ASSUME NEW t \in unsettled'
      PROVE  /\ t \in unsettled /\ chanOf[t] # g /\ copyOf[t] \notin HeldOn(g)
             /\ copyOf[t] \in Copy /\ chanOf[t] \in Chan
  BY HeldInTypes, <1>1 DEF Drop, HeldOn, HeldOnce
<1>2. \A t \in unsettled' : place'[copyOf'[t]] = "unacked" /\ link'[chanOf'[t]] = "up"
  BY <1>1 DEF Drop, HeldOnce, TypeOK
<1>3. \A t, u \in unsettled' : copyOf'[t] = copyOf'[u] => t = u
  BY <1>1 DEF HeldOnce
<1>4. ASSUME NEW c \in Copy, place'[c] = "unacked"
      PROVE  \E t \in unsettled' : copyOf'[t] = c
  <2>1. c \notin HeldOn(g) /\ place[c] = "unacked"
    BY <1>4 DEF Drop
  <2>2. PICK t \in unsettled : copyOf[t] = c
    BY <2>1 DEF HeldOnce
  <2>3. chanOf[t] # g
    BY <2>1, <2>2 DEF HeldOn
  <2> QED BY <2>2, <2>3 DEF Drop
<1>5. unsettled' \subseteq unsettled
  BY DEF Drop
<1>6. \A h \in Chan : Open(h)' <=> Open(h)
  BY DEF Drop, Open, TypeOK
<1>7. \A c \in Copy : place'[c] = place[c] \/ place'[c] = "ready"
  BY DEF Drop
<1> QED BY <1>2, <1>3, <1>4, <1>5, <1>6, <1>7 DEF BooksKept, HeldOnce

\* After an ack or nack they balance, and the copy left only if the broker still
\* waited for that delivery.
LEMMA SettleBooks ==
  ASSUME TypeOK, DeliveriesKnown, HeldOnce, NEW t \in Tag, copyOf[t] \in Copy, chanOf[t] \in Chan,
         NEW to \in Place \ {"unborn", "unacked"}, Settle(t, to),
         copyOf' = copyOf, chanOf' = chanOf
  PROVE  /\ BooksKept({copyOf[t]})
         /\ \/ place'[copyOf[t]] = place[copyOf[t]]
            \/ place'[copyOf[t]] = "ready"
            \/ t \in unsettled /\ place'[copyOf[t]] = to
<1>1. CASE link[chanOf[t]] = "up" /\ t \notin unsettled /\ Drop(chanOf[t], "error")
  BY <1>1, DropBooks DEF BooksKept
<1>2. CASE /\ UNCHANGED link /\ place' = [place EXCEPT ![copyOf[t]] = to]
           /\ t \in unsettled /\ unsettled' = unsettled \ {t}
  <2>1. \A u \in unsettled' : u \in unsettled /\ copyOf[u] # copyOf[t] /\ copyOf[u] \in Copy
    BY <1>2, HeldInTypes DEF HeldOnce
  <2>2. \A u \in unsettled' : place'[copyOf'[u]] = "unacked" /\ link'[chanOf'[u]] = "up"
    BY <1>2, <2>1 DEF HeldOnce, TypeOK
  <2>3. \A u, v \in unsettled' : copyOf'[u] = copyOf'[v] => u = v
    BY <2>1 DEF HeldOnce
  <2>4. ASSUME NEW c \in Copy, place'[c] = "unacked"
        PROVE  \E u \in unsettled' : copyOf'[u] = c
    <3>1. c # copyOf[t] /\ place[c] = "unacked"
      BY <1>2, <2>4 DEF TypeOK
    <3> QED BY <1>2, <3>1 DEF HeldOnce
  <2>5. HeldOnce'
    BY <2>2, <2>3, <2>4 DEF HeldOnce
  <2>6. \A g \in Chan : Open(g)' <=> Open(g)
    BY <1>2 DEF Open
  <2> QED BY <1>2, <2>5, <2>6 DEF BooksKept, TypeOK
<1>3. CASE UNCHANGED <<place, unsettled, link>>
  BY <1>3 DEF BooksKept, HeldOnce, Open
<1> QED BY <1>1, <1>2, <1>3 DEF Settle

\* A step that leaves the broker's books alone.
LEMMA BooksUnchanged ==
  ASSUME HeldOnce, UNCHANGED <<place, unsettled, link, copyOf, chanOf>>
  PROVE  BooksKept({})
BY DEF BooksKept, HeldOnce, Open

-----------------------------------------------------------------------------
(* What keeps a message carried.                                           *)

\* The handlers' results once known, the messages given up, and the messages of
\* copies never change.
ResultsKept ==
  /\ \A c \in Copy : place[c] # "unborn" => msg'[c] = msg[c]
  /\ \A t \in Tag : calls[t] \subseteq calls'[t]
  /\ \A t \in Tag : outcome[t] = "succeeded" => outcome'[t] = "succeeded"
  /\ \A t \in Tag : unsent[t] # "no" => unsent'[t] # "no"

\* A message that is settled or given up stays so.
ReleasedKept ==
  \A m \in Msg : (Settled(m) => Settled(m)') /\ (GivenUp(m) => GivenUp(m)')

\* It does if the deliveries stay and their results do.
LEMMA DeliveriesRelease ==
  ASSUME ResultsKept, \A m \in Msg : \A t \in DeliveryOf(m) : t \in DeliveryOf(m)'
  PROVE  ReleasedKept
<1>1. \A m : DeliveryOf(m) \subseteq Tag
  BY DEF DeliveryOf
<1>2. ASSUME NEW m \in Msg, Settled(m) PROVE Settled(m)'
  <2>1. PICK t \in DeliveryOf(m) : \/ outcome[t] = "succeeded"
                                   \/ "nack" \in calls[t]
                                   \/ m \in Malformed
    BY <1>2 DEF Settled
  <2>2. t \in Tag /\ t \in DeliveryOf(m)'
    BY <1>1, <2>1
  <2> QED BY <2>1, <2>2 DEF Settled, ResultsKept
<1>3. ASSUME NEW m \in Msg, GivenUp(m) PROVE GivenUp(m)'
  <2>1. PICK t \in DeliveryOf(m) : unsent[t] # "no"
    BY <1>3 DEF GivenUp
  <2>2. t \in Tag /\ t \in DeliveryOf(m)'
    BY <1>1, <2>1
  <2> QED BY <2>1, <2>2 DEF GivenUp, ResultsKept
<1> QED BY <1>2, <1>3 DEF ReleasedKept

LEMMA ReleasedStays ==
  ASSUME TypeOK, DeliveriesKnown, Continues, ResultsKept
  PROVE  ReleasedKept
<1> SUFFICES ASSUME NEW m \in Msg, NEW t \in DeliveryOf(m) PROVE t \in DeliveryOf(m)'
  BY DeliveriesRelease
<1>1. t \in Tag /\ pc[t] # "idle" /\ MsgOf(t) = m
  BY DEF DeliveryOf
<1>2. pc'[t] # "idle" /\ MsgOf(t)' = m
  BY <1>1 DEF Continues, ResultsKept, MsgOf, DeliveriesKnown
<1> QED BY <1>1, <1>2 DEF DeliveryOf

\* A copy stays safe if it stays where it is or moves to a queue, and no ack
\* that could take it gets under way.
LEMMA SafeStays ==
  ASSUME NEW c \in Copy, Safe(c),
         place'[c] = place[c] \/ place'[c] \in {"ready", "delay", "dlq"},
         unsettled' \subseteq unsettled, copyOf' = copyOf,
         \A u \in unsettled' : copyOf[u] = c /\ Acking(u)' => Acking(u)
  PROVE  Safe(c)'
<1>1. CASE place'[c] \in {"ready", "delay", "dlq"}
  BY <1>1 DEF Safe
<1>2. CASE place'[c] = place[c] /\ place[c] = "unacked"
  <2>1. \A u \in unsettled : copyOf[u] = c => ~Acking(u)
    BY <1>2 DEF Safe
  <2>2. \A u \in unsettled' : copyOf'[u] = c => ~Acking(u)'
    BY <2>1
  <2> QED BY <1>2, <2>2 DEF Safe, Acking
<1> QED BY <1>1, <1>2 DEF Safe

\* A safe copy that is no longer safe is replaced by another, or its message is
\* settled or given up; a newly published message has a safe copy.
LEMMA CarriedStays ==
  ASSUME Carried, ReleasedKept,
         \A m \in Msg : Published(m)' => Published(m) \/ \E c \in Copy : msg'[c] = m /\ Safe(c)',
         \A m \in Msg, c \in Copy : msg[c] = m /\ Safe(c) =>
             Settled(m)' \/ GivenUp(m)' \/ \E d \in Copy : msg'[d] = m /\ Safe(d)'
  PROVE  Carried'
BY DEF Carried, ReleasedKept

-----------------------------------------------------------------------------
(* Nothing is lost, action by action.                                      *)

\* The part of DeliveryInv that goes beyond the types.
DeliverySafe == OutcomeAfterHandler /\ HeldOnce /\ Carried

\* A step that settles or drops at most, republishes nothing and starts no ack:
\* every conjunct is kept if the copies it takes were not safe, or their messages
\* are settled or given up.
LEMMA BooksStep ==
  ASSUME TypeOK, DeliveriesKnown, DeliverySafe, Continues, ResultsKept, OutcomeAfterHandler',
         NEW S, BooksKept(S), UNCHANGED msg,
         \A k \in Task : step'[k] = "ack" => step[k] = "ack",
         \A c \in Copy \cap S : \/ place'[c] = place[c] \/ place'[c] = "ready"
                                \/ ~Safe(c)
                                \/ \A m \in Msg : msg[c] = m => Settled(m)' \/ GivenUp(m)'
  PROVE  DeliverySafe'
<1>1. ReleasedKept
  BY ReleasedStays
<1>2. \A u \in Tag : Acking(u)' => Acking(u)
  BY TasksOfDelivery DEF Acking
<1>3. \A m \in Msg : Published(m)' => Published(m)
  BY DEF Published
<1>4. ASSUME NEW m \in Msg, NEW c \in Copy, msg[c] = m, Safe(c)
      PROVE  Settled(m)' \/ GivenUp(m)' \/ \E d \in Copy : msg'[d] = m /\ Safe(d)'
  <2>1. CASE place'[c] = place[c] \/ place'[c] = "ready"
    <3>1. Safe(c)'
      BY <1>2, <1>4, <2>1, SafeStays DEF BooksKept, Continues, TypeOK
    <3> QED BY <1>4, <3>1
  <2>2. CASE ~(place'[c] = place[c] \/ place'[c] = "ready")
    BY <1>4, <2>2 DEF BooksKept
  <2> QED BY <2>1, <2>2
<1>5. Carried'
  BY <1>1, <1>3, <1>4, CarriedStays DEF DeliverySafe
<1> QED BY <1>5 DEF DeliverySafe, BooksKept

\* A step that does not end a handler keeps OutcomeAfterHandler.
LEMMA OutcomeStays ==
  ASSUME OutcomeAfterHandler, UNCHANGED outcome,
         \A t \in Tag : pc'[t] \in {"idle", "received", "handler"} =>
                          pc[t] \in {"idle", "received", "handler"}
  PROVE  OutcomeAfterHandler'
BY DEF OutcomeAfterHandler

\* The message a delivery carries is known to be settled from now on.
LEMMA SettlesNow ==
  ASSUME NEW t \in Tag, NEW m \in Msg, pc'[t] # "idle", MsgOf(t) = m,
         UNCHANGED <<msg, copyOf>>,
         \/ outcome'[t] = "succeeded"
         \/ "nack" \in calls'[t]
         \/ m \in Malformed
  PROVE  Settled(m)'
<1>1. t \in DeliveryOf(m)'
  BY DEF DeliveryOf, MsgOf
<1> QED BY <1>1 DEF Settled

\* The start of the callback takes a copy only when its body cannot be parsed.
LEMMA ReceiveSafe ==
  ASSUME TypeOK, DeliveriesKnown, DeliverySafe, Continues, NEW t \in Tag, Receive(t)
  PROVE  DeliverySafe'
<1>1. copyOf[t] \in Copy /\ chanOf[t] \in Chan
  BY DEF Receive, DeliveriesKnown
<1>2. ResultsKept
  BY DEF Receive, ResultsKept
<1>3. OutcomeAfterHandler'
  BY OutcomeStays DEF Receive, DeliverySafe, TypeOK
<1>4. \A k \in Task : step'[k] = "ack" => step[k] = "ack"
  BY DEF Receive, TypeOK
<1>5. CASE MsgOf(t) \in Malformed /\ Settle(t, "gone") /\ pc' = [pc EXCEPT ![t] = "done"]
  <2>1. BooksKept({copyOf[t]})
    BY <1>1, <1>5, SettleBooks DEF Receive, DeliverySafe, Place
  <2>2. \A m \in Msg : msg[copyOf[t]] = m => Settled(m)'
    BY <1>5, SettlesNow DEF Receive, MsgOf, TypeOK
  <2> QED BY <1>2, <1>3, <1>4, <2>1, <2>2, BooksStep DEF Receive
<1>6. CASE UNCHANGED <<place, unsettled, link>>
  <2>1. BooksKept({})
    BY <1>6, BooksUnchanged DEF Receive, DeliverySafe
  <2> QED BY <1>2, <1>3, <1>4, <2>1, BooksStep DEF Receive
<1> QED BY <1>5, <1>6 DEF Receive

\* metadata.nack settles the message; metadata.requeue puts its copy back.
LEMMA HandlerCallsSafe ==
  ASSUME TypeOK, DeliveriesKnown, DeliverySafe, Continues,
         NEW t \in Tag, NEW ctl \in Controls, HandlerCalls(t, ctl)
  PROVE  DeliverySafe'
<1>1. copyOf[t] \in Copy /\ chanOf[t] \in Chan
  BY DEF HandlerCalls, DeliveriesKnown
<1>2. ResultsKept
  BY DEF HandlerCalls, ResultsKept, DeliverySafe, OutcomeAfterHandler, TypeOK
<1>3. OutcomeAfterHandler'
  BY OutcomeStays DEF HandlerCalls, DeliverySafe
<1>4. \A k \in Task : step'[k] = "ack" => step[k] = "ack"
  BY DEF HandlerCalls, TypeOK
<1>5. CASE ctl = "nack" /\ Settle(t, "gone")
  <2>1. BooksKept({copyOf[t]})
    BY <1>1, <1>5, SettleBooks DEF HandlerCalls, DeliverySafe, Place
  <2>2. \A m \in Msg : msg[copyOf[t]] = m => Settled(m)'
    BY <1>5, SettlesNow DEF HandlerCalls, MsgOf, TypeOK
  <2> QED BY <1>2, <1>3, <1>4, <2>1, <2>2, BooksStep DEF HandlerCalls
<1>6. CASE ctl = "requeue" /\ Settle(t, "ready")
  <2>1. /\ BooksKept({copyOf[t]})
        /\ place'[copyOf[t]] = place[copyOf[t]] \/ place'[copyOf[t]] = "ready"
    BY <1>1, <1>6, SettleBooks DEF HandlerCalls, DeliverySafe, Place
  <2> QED BY <1>2, <1>3, <1>4, <2>1, BooksStep DEF HandlerCalls
<1>7. CASE UNCHANGED <<place, unsettled, link>>
  <2>1. BooksKept({})
    BY <1>7, BooksUnchanged DEF HandlerCalls, DeliverySafe
  <2> QED BY <1>2, <1>3, <1>4, <2>1, BooksStep DEF HandlerCalls
<1> QED BY <1>5, <1>6, <1>7 DEF HandlerCalls

\* The ack after a successful handler settles the message.
LEMMA HandlerEndsSafe ==
  ASSUME TypeOK, DeliveriesKnown, DeliverySafe, Continues,
         NEW t \in Tag, HandlerResolves(t) \/ HandlerRejects(t)
  PROVE  DeliverySafe'
<1>1. copyOf[t] \in Copy /\ chanOf[t] \in Chan /\ pc[t] = "handler" /\ outcome[t] = "none"
  BY DEF HandlerResolves, HandlerRejects, DeliveriesKnown, DeliverySafe, OutcomeAfterHandler
<1>2. UNCHANGED <<msg, calls, copyOf, chanOf, unsent>>
  BY DEF HandlerResolves, HandlerRejects
<1>3. /\ \E o \in Outcome : outcome' = [outcome EXCEPT ![t] = o]
      /\ pc'[t] \in {"retry", "dead", "done"} /\ \A u \in Tag \ {t} : pc'[u] = pc[u]
  BY DEF HandlerResolves, manualAckUsed, HandlerRejects, InnerCatch, RetriesLeft, Outcome, TypeOK
<1>4. ResultsKept
  BY <1>1, <1>2, <1>3 DEF ResultsKept, TypeOK
<1>5. OutcomeAfterHandler'
  BY <1>1, <1>3 DEF OutcomeAfterHandler, DeliverySafe, TypeOK
<1>6. \A k \in Task : step'[k] = "ack" => step[k] = "ack"
  BY DEF HandlerResolves, HandlerRejects, InnerCatch, RetriesLeft, TypeOK
<1>7. CASE HandlerResolves(t) /\ ~manualAckUsed(t) /\ Settle(t, "gone")
  <2>1. BooksKept({copyOf[t]})
    BY <1>1, <1>2, <1>7, SettleBooks DEF DeliverySafe, Place
  <2>2. outcome'[t] = "succeeded"
    BY <1>7 DEF HandlerResolves, TypeOK
  <2>3. \A m \in Msg : msg[copyOf[t]] = m => Settled(m)'
    BY <1>2, <1>3, <2>2, SettlesNow DEF MsgOf
  <2> QED BY <1>2, <1>4, <1>5, <1>6, <2>1, <2>3, BooksStep
<1>8. CASE UNCHANGED <<place, unsettled, link>>
  <2>1. BooksKept({})
    BY <1>2, <1>8, BooksUnchanged DEF DeliverySafe
  <2> QED BY <1>2, <1>4, <1>5, <1>6, <2>1, BooksStep
<1> QED BY <1>7, <1>8 DEF HandlerResolves, Acked, HandlerRejects

\* A message a delivery gives up while the broker waits for it is given up.
LEMMA GivesUpNow ==
  ASSUME TypeOK, NEW t \in unsettled, NEW why \in {"threw", "noChannel"}, GivesUp(t, why),
         t \in Tag, pc'[t] # "idle", UNCHANGED <<msg, copyOf>>, NEW m \in Msg, MsgOf(t) = m
  PROVE  GivenUp(m)'
<1>1. unsent'[t] # "no"
  BY GivesUpTypes
<1>2. t \in DeliveryOf(m)'
  BY DEF DeliveryOf, MsgOf
<1> QED BY <1>1, <1>2 DEF GivenUp

\* The nack in the outer catch takes a copy whose message was given up with it.
LEMMA ThrowSafe ==
  ASSUME TypeOK, DeliveriesKnown, DeliverySafe, Continues,
         NEW k \in Task, step[k] # "none", Throw(k),
         UNCHANGED <<msg, copyOf, chanOf, calls, outcome>>
  PROVE  DeliverySafe'
<1> DEFINE t == k[1]
<1>1. t \in Tag /\ copyOf[t] \in Copy /\ chanOf[t] \in Chan /\ pc[t] # "idle"
  BY BusyTask, DeliveryOfTask
<1>2. ResultsKept
  BY ThrowTypes, DeliveryAssumption DEF ResultsKept
<1>3. \A j \in Task : step'[j] = "ack" => step[j] = "ack"
  BY DEF Throw, InnerCatch, RetriesLeft, OuterCatch, TypeOK
<1>4. \A u \in Tag : pc'[u] \in {"idle", "received", "handler"} => pc'[u] = pc[u]
  BY DeliveryOfTask DEF Throw, InnerCatch, RetriesLeft, OuterCatch, TypeOK
<1>5. OutcomeAfterHandler'
  BY <1>4, OutcomeStays DEF DeliverySafe
<1>6. CASE UNCHANGED <<place, unsettled, link>>
  <2>1. BooksKept({})
    BY <1>6, BooksUnchanged DEF DeliverySafe
  <2> QED BY <1>2, <1>3, <1>5, <2>1, BooksStep
<1>7. CASE OuterCatch(t) /\ Settle(t, "gone")
  <2>1. /\ BooksKept({copyOf[t]})
        /\ \/ place'[copyOf[t]] = place[copyOf[t]]
           \/ place'[copyOf[t]] = "ready"
           \/ t \in unsettled
    BY <1>1, <1>7, SettleBooks DEF DeliverySafe, Place
  <2>2. pc'[t] # "idle" /\ GivesUp(t, "noChannel")
    BY <1>1, <1>7 DEF OuterCatch, Continues
  <2>3. t \in unsettled => \A m \in Msg : msg[copyOf[t]] = m => GivenUp(m)'
    BY <1>1, <2>2, GivesUpNow DEF MsgOf
  <2> QED BY <1>2, <1>3, <1>5, <2>1, <2>3, BooksStep
<1> QED BY <1>6, <1>7 DEF Throw, OuterCatch

\* The ack takes a copy that had an ack under way, so none that was safe.
LEMMA AcksSafe ==
  ASSUME TypeOK, DeliveriesKnown, DeliverySafe, Continues, NEW k \in Task, Acks(k)
  PROVE  DeliverySafe'
<1> DEFINE t == k[1]
<1>1. /\ t \in Tag /\ copyOf[t] \in Copy /\ chanOf[t] \in Chan
      /\ step[k] = "ack" /\ k \in {Callback(t), Manual(t)}
  BY BusyTask, DeliveryOfTask DEF Acks
<1>2. CASE /\ Settle(t, "gone") /\ step' = [step EXCEPT ![k] = "none"]
           /\ pc' = IF k[2] = "callback" THEN [pc EXCEPT ![t] = Ended(@)] ELSE pc
           /\ UNCHANGED unsent
  <2>1. /\ BooksKept({copyOf[t]})
        /\ \/ place'[copyOf[t]] = place[copyOf[t]]
           \/ place'[copyOf[t]] = "ready"
           \/ t \in unsettled
    BY <1>1, <1>2, SettleBooks DEF Acks, DeliverySafe, Place
  <2>2. t \in unsettled => ~Safe(copyOf[t])
    BY <1>1 DEF Safe, Acking, DeliverySafe, HeldOnce
  <2>3. ResultsKept
    BY <1>2 DEF Acks, ResultsKept
  <2>4. OutcomeAfterHandler'
    BY <1>1, <1>2, OutcomeStays DEF Acks, Ended, DeliverySafe, TypeOK
  <2>5. \A j \in Task : step'[j] = "ack" => step[j] = "ack"
    BY <1>2 DEF TypeOK
  <2> QED BY <1>1, <2>1, <2>2, <2>3, <2>4, <2>5, BooksStep DEF Acks
<1>3. CASE Throw(k)
  BY <1>1, <1>3, ThrowSafe DEF Acks
<1> QED BY <1>2, <1>3 DEF Acks, Acked

\* getChannel() changes the links of unused channels only.
LEMMA GetChannelLinks ==
  ASSUME TypeOK, NEW g \in Chan, GetChannel(g)
  PROVE  \A h \in Chan : link[h] # "new" => link'[h] = link[h]
BY FreshSubset DEF GetChannel, NewChannels, TypeOK

\* A step that does no more than to get a channel keeps every part.
LEMMA GetChannelSafe ==
  ASSUME TypeOK, DeliveriesKnown, DeliverySafe, Continues,
         UNCHANGED link \/ \E g \in Chan : GetChannel(g),
         UNCHANGED <<place, msg, unsettled, copyOf, chanOf, pc, calls, outcome, unsent>>,
         \A k \in Task : step'[k] = "ack" => step[k] = "ack"
  PROVE  DeliverySafe'
<1>1. OutcomeAfterHandler' /\ ResultsKept
  BY OutcomeStays DEF DeliverySafe, ResultsKept
<1>2. HeldOnce'
  BY GetChannelLinks, HeldInTypes DEF DeliverySafe, HeldOnce
<1>3. Carried'
  <2>1. ReleasedKept
    BY <1>1, ReleasedStays
  <2>2. \A u \in Tag : Acking(u)' => Acking(u)
    BY TasksOfDelivery DEF Acking
  <2>3. \A c \in Copy : Safe(c) => Safe(c)'
    BY <2>2, SafeStays DEF TypeOK
  <2> QED BY <2>1, <2>3, CarriedStays DEF DeliverySafe, Published
<1> QED BY <1>1, <1>2, <1>3 DEF DeliverySafe

\* A republication reaches the broker, so that the new copy is safe when the old
\* one stops to be, or its delivery gives the message up, if it still can.
LEMMA RepublishSafe ==
  ASSUME TypeOK, DeliveriesKnown, DeliverySafe, Continues,
         NEW k \in Task, Republish(k) \/ RepublishFails(k)
  PROVE  DeliverySafe'
<1> DEFINE t == k[1]
<1>1. /\ t \in Tag /\ copyOf[t] \in Copy /\ chanOf[t] \in Chan /\ pc[t] # "idle"
      /\ k \in {Callback(t), Manual(t)} /\ step' = [step EXCEPT ![k] = "ack"]
  BY BusyTask, DeliveryOfTask DEF Republish, RepublishFails, Publishing
<1>2. UNCHANGED <<link, unsettled, copyOf, chanOf, pc, calls, outcome>>
  BY DEF Republish, RepublishFails, broker
<1>3. \/ \E why \in {"threw", "noChannel"} : GivesUp(t, why) /\ UNCHANGED <<place, msg>>
      \/ /\ UNCHANGED unsent
         /\ \E c \in Copy : /\ place[c] = "unborn" /\ place' = [place EXCEPT ![c] = Target(k)]
                            /\ msg' = [msg EXCEPT ![c] = MsgOf(t)]
  BY FreshSubset DEF Republish, RepublishFails, Send, NewCopies, broker
<1>4. Target(k) \in {"ready", "delay", "dlq"}
  BY DEF Target, DeadLetterQueue
<1>5. ASSUME NEW c \in Copy, place[c] # "unborn"
      PROVE  msg'[c] = msg[c] /\ place'[c] = place[c]
  BY <1>3, <1>5 DEF TypeOK
<1>6. \A u \in Tag : unsent[u] # "no" => unsent'[u] # "no"
  BY <1>1, <1>3, GivesUpTypes
<1>7. ResultsKept
  BY <1>2, <1>5, <1>6 DEF ResultsKept
<1>8. OutcomeAfterHandler'
  BY <1>2, OutcomeStays DEF DeliverySafe
<1>9. HeldOnce'
  <2>1. \A u \in unsettled : copyOf[u] \in Copy /\ place[copyOf[u]] = "unacked"
    BY HeldInTypes DEF DeliverySafe, HeldOnce
  <2>2. \A u \in unsettled' : place'[copyOf'[u]] = "unacked" /\ link'[chanOf'[u]] = "up"
    BY <1>2, <1>5, <2>1 DEF DeliverySafe, HeldOnce
  <2>3. \A c \in Copy : place'[c] = "unacked" => place[c] = "unacked"
    BY <1>3, <1>4 DEF TypeOK
  <2> QED BY <1>2, <2>2, <2>3 DEF DeliverySafe, HeldOnce
<1>10. ReleasedKept
  BY <1>7, ReleasedStays
<1>11. \A c \in Copy : place[c] = "unborn" /\ place' = [place EXCEPT ![c] = Target(k)] => Safe(c)'
  BY <1>4 DEF Safe, TypeOK
<1>12. \A u \in Tag : u # t /\ Acking(u)' => Acking(u)
  BY <1>1, TasksOfDelivery, TasksDistinct DEF Acking, TypeOK
<1>13. \A m \in Msg : Published(m)' => Published(m) \/ \E c \in Copy : msg'[c] = m /\ Safe(c)'
  BY <1>3, <1>11 DEF Published, TypeOK
<1>14. ASSUME NEW m \in Msg, NEW c \in Copy, msg[c] = m, Safe(c)
       PROVE  GivenUp(m)' \/ \E d \in Copy : msg'[d] = m /\ Safe(d)'
  <2>1. place[c] # "unborn" /\ msg'[c] = m /\ place'[c] = place[c]
    BY <1>5, <1>14 DEF Safe
  <2>2. CASE ~(t \in unsettled /\ copyOf[t] = c)
    <3>1. \A u \in unsettled' : copyOf[u] = c /\ Acking(u)' => Acking(u)
      BY <1>2, <1>12, <2>2 DEF TypeOK
    <3>2. Safe(c)'
      BY <1>2, <1>14, <2>1, <3>1, SafeStays
    <3> QED BY <2>1, <3>2
  <2>3. CASE t \in unsettled /\ copyOf[t] = c
    <3>1. MsgOf(t) = m
      BY <1>14, <2>3 DEF MsgOf
    <3>2. CASE \E why \in {"threw", "noChannel"} : GivesUp(t, why) /\ UNCHANGED <<place, msg>>
      BY <1>1, <1>2, <2>3, <3>1, <3>2, GivesUpNow
    <3>3. ASSUME NEW d \in Copy, place[d] = "unborn", place' = [place EXCEPT ![d] = Target(k)],
                 msg' = [msg EXCEPT ![d] = MsgOf(t)]
          PROVE  msg'[d] = m /\ Safe(d)'
      BY <1>11, <3>1, <3>3 DEF TypeOK
    <3> QED BY <1>3, <3>2, <3>3
  <2> QED BY <2>2, <2>3
<1>15. Carried'
  BY <1>10, <1>13, <1>14, CarriedStays DEF DeliverySafe
<1> QED BY <1>8, <1>9, <1>15 DEF DeliverySafe

\* A delivery that begins has no ack under way: the copy it takes stays safe.
LEMMA DeliverSafe ==
  ASSUME TypeOK, DeliveriesKnown, DeliverySafe,
         NEW t \in Tag, NEW c \in Copy, NEW g \in Chan, Deliver(t, c, g)
  PROVE  DeliverySafe'
<1>1. /\ pc[t] = "idle" /\ t \notin unsettled
      /\ step[Callback(t)] = "none" /\ step[Manual(t)] = "none"
  BY DEF Deliver, NewTags, Fresh, DeliveriesKnown
<1>2. /\ copyOf'[t] = c /\ chanOf'[t] = g /\ pc'[t] = "received"
      /\ \A u \in Tag : u # t => copyOf'[u] = copyOf[u] /\ chanOf'[u] = chanOf[u] /\ pc'[u] = pc[u]
  BY DEF Deliver, TypeOK
<1>3. /\ place[c] = "ready" /\ place'[c] = "unacked" /\ link[g] = "up"
      /\ \A d \in Copy : d # c => place'[d] = place[d]
  BY DEF Deliver, TypeOK
<1>4. UNCHANGED <<link, msg, calls, outcome, step, unsent>> /\ unsettled' = unsettled \cup {t}
  BY DEF Deliver
<1>5. \A u \in unsettled : u \in Tag /\ u # t /\ copyOf[u] \in Copy /\ copyOf[u] # c
  BY <1>1, <1>3, HeldInTypes DEF DeliverySafe, HeldOnce
<1>6. HeldOnce'
  <2>1. \A u \in unsettled' : place'[copyOf'[u]] = "unacked" /\ link'[chanOf'[u]] = "up"
    BY <1>2, <1>3, <1>4, <1>5 DEF DeliverySafe, HeldOnce
  <2>2. \A u, v \in unsettled' : copyOf'[u] = copyOf'[v] => u = v
    BY <1>2, <1>4, <1>5 DEF DeliverySafe, HeldOnce
  <2>3. \A d \in Copy : place'[d] = "unacked" => \E u \in unsettled' : copyOf'[u] = d
    BY <1>2, <1>3, <1>4, <1>5 DEF DeliverySafe, HeldOnce
  <2> QED BY <2>1, <2>2, <2>3 DEF HeldOnce
<1>7. OutcomeAfterHandler'
  BY <1>1, <1>2, <1>4 DEF DeliverySafe, OutcomeAfterHandler
<1>8. \A d \in Copy : Safe(d) => Safe(d)'
  <2> SUFFICES ASSUME NEW d \in Copy, Safe(d) PROVE Safe(d)'
    OBVIOUS
  <2>1. CASE d = c
    BY <1>1, <1>2, <1>3, <1>4, <1>5, <2>1 DEF Safe, Acking
  <2>2. CASE d # c
    BY <1>2, <1>3, <1>4, <1>5, <2>2 DEF Safe, Acking
  <2> QED BY <2>1, <2>2
<1>9. ReleasedKept
  <2>1. \A m \in Msg : \A u \in DeliveryOf(m) : u \in DeliveryOf(m)'
    BY <1>1, <1>2, <1>4 DEF DeliveryOf, MsgOf
  <2> QED BY <1>4, <2>1, DeliveriesRelease DEF ResultsKept
<1>10. Carried'
  BY <1>4, <1>8, <1>9, CarriedStays DEF DeliverySafe, Published
<1> QED BY <1>6, <1>7, <1>10 DEF DeliverySafe

\* What the application, the broker and the manager do between the turns of
\* the callbacks.
LEMMA SurroundingsSafe ==
  ASSUME TypeOK, DeliveriesKnown, DeliverySafe, Continues,
         \/ \E m \in Msg : Publish(m)
         \/ \E c \in Copy : Expire(c)
         \/ \E g \in Chan : BreakLink(g) \/ ChannelClosed(g)
         \/ \E e \in Event : AddHandler(e) \/ RemoveHandler(e)
  PROVE  DeliverySafe'
<1>1. UNCHANGED <<copyOf, chanOf, pc, calls, outcome, step, unsent>>
  BY DEF Publish, Expire, BreakLink, ChannelClosed, AddHandler, RemoveHandler, client, progress
<1>2. OutcomeAfterHandler'
  BY <1>1, OutcomeStays DEF DeliverySafe
<1>3. \A u \in Tag : Acking(u)' => Acking(u)
  BY <1>1 DEF Acking
<1>4. ASSUME NEW m \in Msg, Publish(m) PROVE DeliverySafe'
  <2>1. PICK c \in Copy : /\ place[c] = "unborn" /\ place' = [place EXCEPT ![c] = "ready"]
                          /\ msg' = [msg EXCEPT ![c] = m]
    BY <1>4, FreshSubset DEF Publish, NewCopies
  <2>2. UNCHANGED <<link, unsettled, cur>>
    BY <1>4 DEF Publish, client
  <2>3. ResultsKept
    BY <1>1, <2>1 DEF ResultsKept, TypeOK
  <2>4. ReleasedKept
    BY <2>3, ReleasedStays
  <2>5. HeldOnce'
    <3>1. \A u \in unsettled : copyOf[u] \in Copy /\ copyOf[u] # c
      BY <2>1, HeldInTypes DEF DeliverySafe, HeldOnce
    <3>2. \A d \in Copy : place'[d] = "unacked" => place[d] = "unacked"
      BY <2>1 DEF TypeOK
    <3> QED BY <1>1, <2>1, <2>2, <3>1, <3>2 DEF DeliverySafe, HeldOnce, TypeOK
  <2>7. Safe(c)' /\ msg'[c] = m
    BY <2>1 DEF Safe, TypeOK
  <2>8. ASSUME NEW d \in Copy, Safe(d) PROVE Safe(d)' /\ msg'[d] = msg[d]
    <3>1. d # c
      BY <2>1, <2>8 DEF Safe
    <3>2. place'[d] = place[d] /\ msg'[d] = msg[d]
      BY <2>1, <3>1 DEF TypeOK
    <3> QED BY <1>1, <1>3, <2>2, <2>8, <3>2, SafeStays DEF TypeOK
  <2>9. \A n \in Msg : Published(n)' => Published(n) \/ \E d \in Copy : msg'[d] = n /\ Safe(d)'
    BY <2>1, <2>7 DEF Published, TypeOK
  <2>10. Carried'
    BY <2>4, <2>8, <2>9, CarriedStays DEF DeliverySafe
  <2> QED BY <1>2, <2>5, <2>10 DEF DeliverySafe
<1>5. ASSUME NEW c \in Copy, Expire(c) PROVE DeliverySafe'
  <2>1. UNCHANGED <<link, unsettled, cur, msg>> /\ place[c] = "delay" /\ place'[c] = "ready"
        /\ \A d \in Copy : d # c => place'[d] = place[d]
    BY <1>5 DEF Expire, client, TypeOK
  <2>2. HeldOnce'
    <3>1. \A u \in unsettled : copyOf[u] \in Copy /\ copyOf[u] # c
      BY <2>1, HeldInTypes DEF DeliverySafe, HeldOnce
    <3> QED BY <1>1, <2>1, <3>1 DEF DeliverySafe, HeldOnce
  <2>4. \A d \in Copy : Safe(d) => Safe(d)'
    BY <1>1, <1>3, <2>1, SafeStays DEF TypeOK
  <2>5. ReleasedKept
    BY <1>1, <2>1, ReleasedStays DEF ResultsKept
  <2>6. Carried'
    BY <2>1, <2>4, <2>5, CarriedStays DEF DeliverySafe, Published
  <2> QED BY <1>2, <2>2, <2>6 DEF DeliverySafe
<1>6. ASSUME NEW g \in Chan, BreakLink(g) PROVE DeliverySafe'
  <2>1. BooksKept({}) /\ UNCHANGED msg
    BY <1>1, <1>6, DropBooks DEF BreakLink, DeliverySafe, client
  <2> QED BY <1>1, <1>2, <2>1, BooksStep DEF ResultsKept
<1>7. ASSUME NEW g \in Chan, ChannelClosed(g) PROVE DeliverySafe'
  <2>1. /\ UNCHANGED <<place, msg, unsettled>> /\ link[g] # "up"
        /\ \A h \in Chan : Open(h)' <=> Open(h) /\ h # g
        /\ \A h \in Chan : h # g => link'[h] = link[h]
        /\ cur' = IF cur = g THEN None ELSE cur
    BY <1>7 DEF ChannelClosed, ChannelAfter, Open, TypeOK
  <2>2. HeldOnce'
    BY <1>1, <2>1, HeldInTypes DEF DeliverySafe, HeldOnce
  <2>5. ReleasedKept
    BY <1>1, <2>1, ReleasedStays DEF ResultsKept
  <2>6. \A d \in Copy : Safe(d) => Safe(d)'
    BY <1>1, <1>3, <2>1, SafeStays DEF TypeOK
  <2>7. Carried'
    BY <2>1, <2>5, <2>6, CarriedStays DEF DeliverySafe, Published
  <2> QED BY <1>2, <2>2, <2>7 DEF DeliverySafe
<1>8. ASSUME NEW e \in Event, AddHandler(e) \/ RemoveHandler(e) PROVE DeliverySafe'
  <2>1. UNCHANGED <<place, unsettled, link, msg, cur>>
    BY <1>8 DEF AddHandler, RemoveHandler, broker
  <2>2. BooksKept({})
    BY <1>1, <2>1, BooksUnchanged DEF DeliverySafe
  <2> QED BY <1>1, <1>2, <2>1, <2>2, BooksStep DEF ResultsKept
<1> QED BY <1>4, <1>5, <1>6, <1>7, <1>8

\* Every action keeps DeliverySafe, whatever the manager forgets.
LEMMA SafeStep ==
  ASSUME TypeOK, DeliveriesKnown, DeliverySafe, [Next]_vars
  PROVE  DeliverySafe'
<1>1. CASE UNCHANGED vars
  BY <1>1 DEF vars, broker, client, progress, DeliverySafe, OutcomeAfterHandler, HeldOnce,
     Carried, Published, Settled, GivenUp, DeliveryOf, MsgOf, Safe, Acking
<1>2. ASSUME NEW t \in Tag, NEW c \in Copy, NEW g \in Chan, Deliver(t, c, g)
      PROVE  DeliverySafe'
  BY <1>2, DeliverSafe
<1>3. CASE Next /\ \A t \in Tag, c \in Copy, g \in Chan : ~Deliver(t, c, g)
  <2>1. Continues
    BY <1>3, DeliveryAssumption, QuietStep
  <2>2. ASSUME NEW t \in Tag, Receive(t) PROVE DeliverySafe'
    BY <2>1, <2>2, ReceiveSafe
  <2>3. ASSUME NEW t \in Tag, NEW ctl \in Controls, HandlerCalls(t, ctl) PROVE DeliverySafe'
    BY <2>1, <2>3, HandlerCallsSafe
  <2>4. ASSUME NEW t \in Tag, HandlerResolves(t) \/ HandlerRejects(t) PROVE DeliverySafe'
    BY <2>1, <2>4, HandlerEndsSafe
  <2>5. ASSUME NEW k \in Task, GetsChannel(k) PROVE DeliverySafe'
    <3>1. \A j \in Task : step'[j] = "ack" => step[j] = "ack"
      BY <2>5 DEF GetsChannel, TypeOK
    <3> QED BY <2>1, <2>5, <3>1, GetChannelSafe DEF GetsChannel
  <2>6. ASSUME NEW k \in Task, ConnectFails(k) PROVE DeliverySafe'
    BY <2>1, <2>6, ThrowSafe DEF ConnectFails
  <2>7. ASSUME NEW k \in Task, Republish(k) \/ RepublishFails(k) PROVE DeliverySafe'
    BY <2>1, <2>7, RepublishSafe
  <2>8. ASSUME NEW k \in Task, Acks(k) PROVE DeliverySafe'
    BY <2>1, <2>8, AcksSafe
  <2>9. CASE Reconnect \/ Start \/ Stop \/ Forget
    <3>1. UNCHANGED link \/ \E g \in Chan : GetChannel(g)
      BY <2>9 DEF Reconnect, Start, Stop, Forget, broker
    <3>2. UNCHANGED <<place, msg, unsettled, copyOf, chanOf, pc, calls, outcome, unsent, step>>
      BY <2>9 DEF Reconnect, Start, Stop, Forget, broker, progress
    <3> QED BY <2>1, <3>1, <3>2, GetChannelSafe
  <2> QED
    BY <1>3, <2>1, <2>2, <2>3, <2>4, <2>5, <2>6, <2>7, <2>8, <2>9, SurroundingsSafe
    DEF Next, TaskStep
<1> QED BY <1>1, <1>2, <1>3

\* DeliveryInv is an invariant, whatever breaks, leaks and throws.
THEOREM InvariantHolds == Spec => []DeliveryInv
<1>1. ASSUME Init PROVE DeliveryInv
  <2> USE <1>1 DEF Init
  <2>1. TypeOK
    BY DEF TypeOK, Place, LinkView, Control, Outcome, Step
  <2>2. DeliveriesKnown
    BY TasksOfDelivery DEF DeliveriesKnown
  <2>3. OutcomeAfterHandler /\ HeldOnce
    BY DEF OutcomeAfterHandler, HeldOnce
  <2>4. \A m \in Msg : ~Published(m)
    BY DeliveryAssumption DEF Published
  <2> QED BY <2>1, <2>2, <2>3, <2>4 DEF DeliveryInv, Carried
<1>2. ASSUME DeliveryInv, [Next]_vars PROVE DeliveryInv'
  <2>1. TypeOK /\ DeliveriesKnown /\ DeliverySafe
    BY <1>2 DEF DeliveryInv, DeliverySafe
  <2>2. TypeOK' /\ DeliveriesKnown'
    BY <1>2, <2>1, DeliveryAssumption, TypeStep, KnownStep
  <2>3. DeliverySafe'
    BY <1>2, <2>1, SafeStep
  <2> QED BY <2>2, <2>3 DEF DeliveryInv, DeliverySafe
<1> QED BY <1>1, <1>2, PTL DEF Spec

\* A published message is settled, or the broker holds a copy of it, or one of its
\* deliveries gave it up: whatever channels break or leak, handlers call and
\* publishes throw, there is no other way to lose it.
THEOREM NothingIsLost == Spec => []NothingLost
<1>1. DeliveryInv => NothingLost
  <2> SUFFICES ASSUME DeliveryInv, NEW m \in Msg, Published(m), ~Settled(m), ~GivenUp(m)
               PROVE  Held(m)
    BY DEF NothingLost
  <2>1. PICK c \in Copy : msg[c] = m /\ Safe(c)
    BY DEF DeliveryInv, Carried
  <2> QED BY <2>1 DEF Held, Safe, Live
<1> QED BY <1>1, InvariantHolds, PTL

-----------------------------------------------------------------------------
(* What one connection adds: republication and ack share a channel.        *)

NoOrphans == \A t \in Tag : unsent[t] # "noChannel"

\* The part of ConnectionInv that goes beyond DeliveryInv.
OneConnection == SingleConnection /\ SameChannel /\ NoOrphans

\* A republication that goes on keeps its channel, and the channel of its ack
\* does not open again once it is closed.
LEMMA SameChannelStays ==
  ASSUME TypeOK, DeliveriesKnown, SameChannel, Continues,
         \A g \in Chan : link[g] # "new" /\ Open(g)' => Open(g),
         \A k \in Task : step'[k] \in {"declare", "publish", "ack"} =>
             step[k] \in {"declare", "publish", "ack"} /\ via'[k] = via[k]
  PROVE  SameChannel'
<1> SUFFICES ASSUME NEW k \in Task, step'[k] \in {"declare", "publish", "ack"},
                    Open(chanOf[k[1]])'
             PROVE  via'[k] = chanOf'[k[1]]
  BY DEF SameChannel
<1>1. step[k] \in {"declare", "publish", "ack"} /\ via'[k] = via[k] /\ chanOf' = chanOf
  BY DEF Continues
<1>2. chanOf[k[1]] \in Chan /\ link[chanOf[k[1]]] # "new"
  BY <1>1, BusyTask
<1>3. Open(chanOf[k[1]])
  BY <1>1, <1>2 DEF Open
<1> QED BY <1>1, <1>3 DEF SameChannel

\* A step after which the client sees the same channels open, or fewer.
LEMMA NoneOpens ==
  ASSUME TypeOK, DeliveriesKnown, OneConnection, Continues, UNCHANGED unsent,
         \A g \in Chan : Open(g)' => Open(g) /\ cur' = cur,
         \A k \in Task : step'[k] \in {"declare", "publish", "ack"} =>
             step[k] \in {"declare", "publish", "ack"} /\ via'[k] = via[k]
  PROVE  OneConnection'
BY SameChannelStays DEF OneConnection, SingleConnection, NoOrphans

\* Settling a delivery opens and closes no channel as the client sees it.
LEMMA SettleOpens ==
  ASSUME TypeOK, NEW t \in Tag, NEW to, chanOf[t] \in Chan,
         Settle(t, to) \/ UNCHANGED link
  PROVE  \A g \in Chan : Open(g)' <=> Open(g)
BY DEF Settle, Drop, Open, TypeOK

\* getChannel() returns the only open channel, and opens one only if there is none.
LEMMA GetChannelOpens ==
  ASSUME TypeOK, SingleConnection, NEW g \in Chan, GetChannel(g)
  PROVE  cur' = g /\ \A h \in Chan : Open(h)' => h = g
<1>1. CASE cur # None /\ g = cur /\ UNCHANGED <<cur, link>>
  BY <1>1 DEF SingleConnection, Open
<1>2. CASE cur = None /\ g \in NewChannels /\ link' = [link EXCEPT ![g] = "up"] /\ cur' = g
  BY <1>2, FreshSubset, DeliveryAssumption DEF SingleConnection, Open, NewChannels, TypeOK
<1> QED BY <1>1, <1>2 DEF GetChannel

\* A step that gets a channel: a republication that starts uses the only one there is.
LEMMA GetChannelConnection ==
  ASSUME TypeOK, DeliveriesKnown, OneConnection, Continues, UNCHANGED unsent,
         NEW g \in Chan, GetChannel(g),
         \A k \in Task : step'[k] \in {"declare", "publish", "ack"} =>
            \/ step'[k] = step[k] /\ via'[k] = via[k]
            \/ via'[k] = g
  PROVE  OneConnection'
<1>1. cur' = g /\ \A h \in Chan : Open(h)' => h = g
  BY GetChannelOpens DEF OneConnection
<1>2. \A h \in Chan : link[h] # "new" => link'[h] = link[h]
  BY GetChannelLinks
<1>3. SingleConnection'
  BY <1>1 DEF SingleConnection
<1>4. SameChannel'
  <2> SUFFICES ASSUME NEW k \in Task, step'[k] \in {"declare", "publish", "ack"},
                      Open(chanOf[k[1]])'
               PROVE  via'[k] = chanOf'[k[1]]
    BY DEF SameChannel
  <2>1. CASE step'[k] = step[k] /\ via'[k] = via[k]
    <3>1. chanOf[k[1]] \in Chan /\ link[chanOf[k[1]]] # "new" /\ chanOf' = chanOf
      BY <2>1, BusyTask DEF Continues
    <3>2. Open(chanOf[k[1]])
      BY <1>2, <3>1 DEF Open
    <3> QED BY <2>1, <3>1, <3>2 DEF SameChannel, OneConnection
  <2>2. CASE via'[k] = g
    <3>1. k[1] \in Tag /\ chanOf' = chanOf
      BY DeliveryOfTask DEF Continues
    <3>2. pc[k[1]] # "idle"
      BY <3>1, DeliveryOfTask DEF DeliveriesKnown, Continues
    <3> QED BY <1>1, <2>2, <3>1, <3>2 DEF DeliveriesKnown
  <2> QED BY <2>1, <2>2
<1> QED BY <1>3, <1>4 DEF OneConnection, NoOrphans

\* A republication that finds its channel down meets a broker that no longer waits
\* for the delivery.
LEMMA RepublishConnection ==
  ASSUME TypeOK, DeliveriesKnown, HeldOnce, OneConnection, Continues,
         NEW k \in Task, Republish(k) \/ RepublishFails(k)
  PROVE  OneConnection'
<1> DEFINE t == k[1]
<1>1. t \in Tag /\ step[k] \in {"declare", "publish"}
  BY DeliveryOfTask DEF Republish, RepublishFails, Publishing
<1>2. UNCHANGED <<link, cur, via>> /\ step' = [step EXCEPT ![k] = "ack"]
  BY DEF Republish, RepublishFails, broker
<1>3. SingleConnection'
  BY <1>2 DEF OneConnection, SingleConnection, Open
<1>4. SameChannel'
  BY <1>1, <1>2, SameChannelStays DEF OneConnection, Open, TypeOK
<1>5. link[via[k]] # "up" => t \notin unsettled
  BY <1>1 DEF OneConnection, SameChannel, HeldOnce, Open
<1>6. NoOrphans'
  BY <1>1, <1>5 DEF Republish, RepublishFails, GivesUp, Open, OneConnection, NoOrphans, TypeOK
<1> QED BY <1>3, <1>4, <1>6 DEF OneConnection

\* An exception in the callback comes when every channel of its delivery is closed.
LEMMA ThrowConnection ==
  ASSUME TypeOK, DeliveriesKnown, HeldOnce, OneConnection, Continues,
         NEW k \in Task, step[k] # "none", Throw(k), ~Open(chanOf[k[1]]), UNCHANGED <<cur, via>>
  PROVE  OneConnection'
<1>1. UNCHANGED link
  BY DEF Throw, OuterCatch
<1>2. k[1] \notin unsettled
  BY DEF HeldOnce, Open
<1>3. UNCHANGED unsent
  BY <1>2 DEF Throw, OuterCatch, GivesUp
<1>4. \A j \in Task : step'[j] \in {"declare", "publish", "ack"} => step'[j] = step[j]
  BY DEF Throw, InnerCatch, RetriesLeft, OuterCatch, TypeOK
<1> QED BY <1>1, <1>3, <1>4, NoneOpens DEF Open

\* Every action keeps the one connection the only one, if none is forgotten.
LEMMA ConnectionStep ==
  ASSUME ~LeakedConnections, TypeOK, DeliveriesKnown, HeldOnce, OneConnection, [Next]_vars
  PROVE  OneConnection'
<1>1. CASE UNCHANGED vars
  BY <1>1 DEF vars, broker, client, progress, OneConnection, SingleConnection, SameChannel,
     NoOrphans, Open
<1>2. ASSUME NEW t \in Tag, NEW c \in Copy, NEW g \in Chan, Deliver(t, c, g)
      PROVE  OneConnection'
  <2>1. /\ step[Callback(t)] = "none" /\ step[Manual(t)] = "none"
        /\ \A u \in Tag : u # t => chanOf'[u] = chanOf[u]
        /\ UNCHANGED <<link, cur, step, via, unsent>>
    BY <1>2 DEF Deliver, NewTags, Fresh, DeliveriesKnown, TypeOK
  <2>2. \A k \in Task : step[k] # "none" => k[1] \in Tag /\ k[1] # t
    BY <2>1, DeliveryOfTask
  <2> QED BY <2>1, <2>2 DEF OneConnection, SingleConnection, SameChannel, NoOrphans, Open
<1>3. CASE Next /\ \A t \in Tag, c \in Copy, g \in Chan : ~Deliver(t, c, g)
  <2>1. Continues
    BY <1>3, DeliveryAssumption, QuietStep
  <2>2. ASSUME NEW t \in Tag, \/ Receive(t) \/ HandlerResolves(t) \/ HandlerRejects(t)
                              \/ \E ctl \in Controls : HandlerCalls(t, ctl)
        PROVE  OneConnection'
    <3>1. chanOf[t] \in Chan /\ UNCHANGED <<cur, via, unsent>>
      BY <2>2 DEF Receive, HandlerResolves, HandlerRejects, HandlerCalls, DeliveriesKnown
    <3>2. (\E to \in Place : Settle(t, to)) \/ UNCHANGED link
      BY <2>2 DEF Receive, HandlerResolves, HandlerRejects, HandlerCalls, Acked, Place
    <3>3. \A g \in Chan : Open(g)' <=> Open(g)
      BY <3>1, <3>2, SettleOpens
    <3>4. \A k \in Task : step'[k] \in {"declare", "publish", "ack"} => step'[k] = step[k]
      BY <2>2 DEF Receive, HandlerResolves, HandlerRejects, HandlerCalls, InnerCatch, RetriesLeft,
         TypeOK
    <3> QED BY <2>1, <3>1, <3>3, <3>4, NoneOpens
  <2>3. ASSUME NEW k \in Task, GetsChannel(k) PROVE OneConnection'
    <3>1. PICK g \in Chan : GetChannel(g) /\ via' = [via EXCEPT ![k] = g]
      BY <2>3 DEF GetsChannel
    <3>2. \A j \in Task : step'[j] \in {"declare", "publish", "ack"} =>
            \/ step'[j] = step[j] /\ via'[j] = via[j]
            \/ via'[j] = g
      BY <2>3, <3>1 DEF GetsChannel, TypeOK
    <3> QED BY <2>1, <2>3, <3>1, <3>2, GetChannelConnection DEF GetsChannel
  <2>4. ASSUME NEW k \in Task, ConnectFails(k) PROVE OneConnection'
    <3>1. step[k] # "none" /\ chanOf[k[1]] \in Chan
      BY <2>4, BusyTask DEF ConnectFails
    <3>2. ~Open(chanOf[k[1]])
      BY <2>4, <3>1, DeliveryAssumption DEF ConnectFails, OneConnection, SingleConnection
    <3> QED BY <2>1, <2>4, <3>1, <3>2, ThrowConnection DEF ConnectFails
  <2>5. ASSUME NEW k \in Task, Republish(k) \/ RepublishFails(k) PROVE OneConnection'
    BY <2>1, <2>5, RepublishConnection
  <2>6. ASSUME NEW k \in Task, Acks(k) PROVE OneConnection'
    <3>1. k[1] \in Tag /\ chanOf[k[1]] \in Chan /\ step[k] # "none"
      BY <2>6, BusyTask, DeliveryOfTask DEF Acks
    <3>2. CASE ~Open(chanOf[k[1]]) /\ Throw(k)
      BY <2>1, <2>6, <3>1, <3>2, ThrowConnection DEF Acks
    <3>3. CASE Settle(k[1], "gone") /\ step' = [step EXCEPT ![k] = "none"] /\ UNCHANGED unsent
      <4>1. \A g \in Chan : Open(g)' <=> Open(g)
        BY <3>1, <3>3, SettleOpens
      <4> QED BY <2>1, <2>6, <3>3, <4>1, NoneOpens DEF Acks, TypeOK
    <3> QED BY <2>6, <3>2, <3>3 DEF Acks, Acked
  <2>7. CASE Reconnect \/ Start \/ Stop
    <3>1. UNCHANGED <<step, via, unsent>>
      BY <2>7 DEF Reconnect, Start, Stop, progress
    <3>2. CASE \E g \in Chan : GetChannel(g)
      BY <2>1, <3>1, <3>2, GetChannelConnection
    <3>3. CASE UNCHANGED <<cur, link>>
      BY <2>1, <3>1, <3>3, NoneOpens DEF Open
    <3> QED BY <2>7, <3>2, <3>3 DEF Reconnect, Start, Stop
  <2>8. ASSUME NEW g \in Chan, BreakLink(g) \/ ChannelClosed(g) PROVE OneConnection'
    <3>1. UNCHANGED <<step, via, unsent>>
      BY <2>8 DEF BreakLink, ChannelClosed, client, progress
    <3>2. \A h \in Chan : Open(h)' => Open(h) /\ cur' = cur
      BY <2>8 DEF BreakLink, ChannelClosed, ChannelAfter, Drop, Open, OneConnection,
         SingleConnection, TypeOK, client
    <3> QED BY <2>1, <3>1, <3>2, NoneOpens
  <2>9. CASE UNCHANGED <<link, cur, step, via, unsent>>
    BY <2>1, <2>9, NoneOpens DEF Open
  <2> QED
    BY <1>3, <2>2, <2>3, <2>4, <2>5, <2>6, <2>7, <2>8, <2>9
    DEF Next, TaskStep, Publish, Expire, Forget, AddHandler, RemoveHandler, broker, client, progress
<1> QED BY <1>1, <1>2, <1>3

\* ConnectionInv is an invariant as long as the manager keeps one connection.
THEOREM ConnectionInvHolds == ~LeakedConnections => (Spec => []ConnectionInv)
<1> SUFFICES ASSUME ~LeakedConnections PROVE Spec => []ConnectionInv
  OBVIOUS
<1>1. Init => OneConnection
  BY DEF Init, OneConnection, SingleConnection, SameChannel, NoOrphans, Open
<1>2. DeliveryInv /\ OneConnection /\ [Next]_vars => OneConnection'
  BY ConnectionStep DEF DeliveryInv
<1>3. DeliveryInv /\ OneConnection => ConnectionInv
  BY DEF ConnectionInv, OneConnection, NoOrphans
<1> QED BY <1>1, <1>2, <1>3, InvariantHolds, PTL DEF Spec

\* Of one connection no loss is due to a channel that breaks, wherever it breaks:
\* a message is settled, held, or fell to a publish that threw on an open channel.
THEOREM OnlyThrowsLoseHolds == ~LeakedConnections => (Spec => []OnlyThrowsLose)
<1>1. ConnectionInv /\ NothingLost => OnlyThrowsLose
  <2> SUFFICES ASSUME ConnectionInv, NothingLost, NEW m \in Msg, Published(m), ~Settled(m), ~Held(m)
               PROVE  \E t \in DeliveryOf(m) : unsent[t] = "threw"
    BY DEF OnlyThrowsLose
  <2>1. PICK t \in DeliveryOf(m) : unsent[t] # "no"
    BY DEF NothingLost, GivenUp
  <2>2. t \in Tag
    BY <2>1 DEF DeliveryOf
  <2>3. unsent[t] = "threw"
    BY <2>1, <2>2 DEF ConnectionInv, DeliveryInv, TypeOK
  <2> QED BY <2>1, <2>3
<1> QED BY <1>1, ConnectionInvHolds, NothingIsLost, PTL

-----------------------------------------------------------------------------
(* WorkerDelivery implements AtLeastOnce.                                  *)

\* Every step keeps results, settled messages and given up ones, Deliver included.
LEMMA ResultsStay ==
  ASSUME DeliveryAssumption, TypeOK, DeliveriesKnown, DeliverySafe, [Next]_vars
  PROVE  ResultsKept /\ ReleasedKept
<1>1. ASSUME NEW t \in Tag, NEW c \in Copy, NEW g \in Chan, Deliver(t, c, g)
      PROVE  ResultsKept /\ ReleasedKept
  <2>1. pc[t] = "idle" /\ UNCHANGED <<msg, calls, outcome, unsent>>
    BY <1>1 DEF Deliver, NewTags, Fresh
  <2>2. \A u \in Tag : u # t => copyOf'[u] = copyOf[u] /\ pc'[u] = pc[u]
    BY <1>1 DEF Deliver, TypeOK
  <2>3. \A m \in Msg : \A u \in DeliveryOf(m) : u \in DeliveryOf(m)'
    BY <2>1, <2>2 DEF DeliveryOf, MsgOf
  <2>4. ResultsKept
    BY <2>1 DEF ResultsKept
  <2> QED BY <2>3, <2>4, DeliveriesRelease
<1>2. CASE UNCHANGED vars
  <2>1. ResultsKept
    BY <1>2 DEF vars, broker, client, progress, ResultsKept
  <2>2. \A m \in Msg : \A u \in DeliveryOf(m) : u \in DeliveryOf(m)'
    BY <1>2 DEF vars, broker, client, progress, DeliveryOf, MsgOf
  <2> QED BY <2>1, <2>2, DeliveriesRelease
<1>3. CASE Next /\ \A t \in Tag, c \in Copy, g \in Chan : ~Deliver(t, c, g)
  <2>1. Continues
    BY <1>3, QuietStep
  <2>2. ResultsKept
    <3>1. ASSUME NEW m \in Msg, Publish(m) PROVE ResultsKept
      BY <3>1, FreshSubset DEF Publish, NewCopies, ResultsKept, TypeOK, client, progress
    <3>2. ASSUME NEW k \in Task, Republish(k) \/ RepublishFails(k) PROVE ResultsKept
      <4>1. UNCHANGED <<calls, outcome>>
        BY <3>2 DEF Republish, RepublishFails
      <4>2. \/ UNCHANGED msg
            \/ \E c \in Copy : \E m : place[c] = "unborn" /\ msg' = [msg EXCEPT ![c] = m]
        BY <3>2, FreshSubset DEF Republish, RepublishFails, Send, NewCopies, broker
      <4>3. UNCHANGED unsent \/ \E why \in {"threw", "noChannel"} : GivesUp(k[1], why)
        BY <3>2 DEF Republish, RepublishFails
      <4>4. \A u \in Tag : unsent[u] # "no" => unsent'[u] # "no"
        BY <4>3, DeliveryOfTask, GivesUpTypes
      <4> QED BY <4>1, <4>2, <4>4 DEF ResultsKept, TypeOK
    <3>3. ASSUME NEW t \in Tag, NEW ctl \in Controls, HandlerCalls(t, ctl) PROVE ResultsKept
      <4>1. UNCHANGED <<msg, outcome, unsent>> /\ calls' = [calls EXCEPT ![t] = @ \cup {ctl}]
        BY <3>3 DEF HandlerCalls
      <4> QED BY <4>1 DEF ResultsKept, TypeOK
    <3>4. ASSUME NEW t \in Tag, HandlerResolves(t) \/ HandlerRejects(t) PROVE ResultsKept
      <4>1. outcome[t] = "none" /\ UNCHANGED <<msg, calls, unsent>>
            /\ \A u \in Tag \ {t} : outcome'[u] = outcome[u]
        BY <3>4 DEF HandlerResolves, HandlerRejects, DeliverySafe, OutcomeAfterHandler, TypeOK
      <4> QED BY <4>1 DEF ResultsKept, TypeOK
    <3>5. CASE UNCHANGED <<msg, calls, outcome, unsent>>
      BY <3>5 DEF ResultsKept
    <3>6. ASSUME NEW k \in Task, GetsChannel(k) PROVE UNCHANGED <<msg, calls, outcome, unsent>>
      BY <3>6 DEF GetsChannel
    <3>7. ASSUME NEW k \in Task, ConnectFails(k) \/ Acks(k) PROVE ResultsKept
      <4>1. UNCHANGED <<msg, calls, outcome>> /\ step[k] # "none"
        BY <3>7 DEF ConnectFails, Acks
      <4>2. UNCHANGED unsent \/ Throw(k)
        BY <3>7 DEF ConnectFails, Acks
      <4>3. \A u \in Tag : unsent[u] # "no" => unsent'[u] # "no"
        BY <4>1, <4>2, ThrowTypes
      <4> QED BY <4>1, <4>3 DEF ResultsKept
    <3> QED
      BY <1>3, <3>1, <3>2, <3>3, <3>4, <3>5, <3>6, <3>7
      DEF Next, TaskStep, Expire, BreakLink, ChannelClosed, Reconnect, Forget, Start, Stop,
          AddHandler, RemoveHandler, Receive, broker, client, progress
  <2> QED BY <2>1, <2>2, ReleasedStays
<1> QED BY <1>1, <1>2, <1>3

\* Only the application publishes a message for the first time.
LEMMA FirstCopy ==
  ASSUME TypeOK, DeliveriesKnown, [Next]_vars, NEW m \in Msg, ~Published(m), Published(m)'
  PROVE  Publish(m)
<1>1. CASE UNCHANGED msg
  BY <1>1 DEF Published
<1>2. ASSUME NEW n \in Msg, Publish(n) PROVE n = m
  <2>1. PICK c \in Copy : msg' = [msg EXCEPT ![c] = n]
    BY <1>2, FreshSubset DEF Publish, NewCopies
  <2> QED BY <2>1 DEF Published, TypeOK
<1>3. ASSUME NEW k \in Task, Republish(k) PROVE UNCHANGED msg
  <2>1. copyOf[k[1]] \in Copy
    BY <1>3, BusyTask DEF Republish, Publishing
  <2>2. \/ UNCHANGED msg
        \/ \E c \in Copy : msg' = [msg EXCEPT ![c] = msg[copyOf[k[1]]]]
    BY <1>3, FreshSubset DEF Republish, Send, NewCopies, MsgOf
  <2> QED BY <2>1, <2>2 DEF Published, TypeOK
<1>4. ASSUME NEW k \in Task, TaskStep(k), ~Republish(k) PROVE UNCHANGED msg
  BY <1>4 DEF TaskStep, GetsChannel, ConnectFails, RepublishFails, Acks, broker
<1> QED
  BY <1>1, <1>2, <1>3, <1>4
  DEF Next, vars, Expire, BreakLink, ChannelClosed, Reconnect, Forget, Start, Stop, AddHandler,
      RemoveHandler, Deliver, Receive, HandlerCalls, HandlerResolves, HandlerRejects, broker,
      client, progress

\* A delivery carries a message that was published.
LEMMA DeliveredIsPublished ==
  ASSUME TypeOK, DeliveriesKnown, NEW m \in Msg, Settled(m) \/ GivenUp(m)
  PROVE  Published(m)
BY DEF Settled, GivenUp, DeliveryOf, MsgOf, Published, DeliveriesKnown

\* In terms of AtLeastOnce every step publishes messages, settles messages, gives
\* messages up, or leaves them as they are.
LEMMA StepOfContract ==
  ASSUME DeliveryAssumption, DeliveryInv, DeliveryInv', [Next]_vars
  PROVE  Contract!Next
<1>1. TypeOK /\ DeliveriesKnown /\ DeliverySafe
  BY DEF DeliveryInv, DeliverySafe
<1>2. ASSUME NEW m \in Msg, Published(m), ~Settled(m), ~GivenUp(m)
      PROVE  Held(m)
  BY <1>2 DEF DeliveryInv, Carried, Held, Safe, Live
<1>3. ASSUME NEW m \in Msg, Published(m)', ~Settled(m)', ~GivenUp(m)'
      PROVE  Held(m)'
  BY <1>3 DEF DeliveryInv, Carried, Held, Safe, Live
<1>4. ResultsKept /\ ReleasedKept
  BY <1>1, ResultsStay
<1>5. ASSUME NEW m \in Msg, Published(m) PROVE Published(m)'
  <2>1. CASE Settled(m)' \/ GivenUp(m)'
    <3>1. (TypeOK /\ DeliveriesKnown)'
      BY DEF DeliveryInv
    <3> QED BY <2>1, <3>1 DEF Settled, GivenUp, DeliveryOf, MsgOf, Published, DeliveriesKnown
  <2>2. CASE ~Settled(m) /\ ~GivenUp(m)
    BY <1>2, <1>4, <1>5, <2>2 DEF Held, Live, ResultsKept, Published
  <2> QED BY <1>4, <2>1, <2>2 DEF ReleasedKept
<1>6. ASSUME NEW m \in Msg, ~Published(m) PROVE ~Settled(m)' /\ ~GivenUp(m)'
  <2>1. CASE Published(m)'
    <3>1. Publish(m)
      BY <1>1, <1>6, <2>1, FirstCopy
    <3>2. /\ UNCHANGED <<copyOf, pc>>
          /\ \A c \in Copy : place[c] # "unborn" => msg'[c] = msg[c]
      BY <1>1, <1>4, <3>1 DEF Publish, client, progress, ResultsKept
    <3>3. DeliveryOf(m)' = {}
      BY <1>1, <1>6, <3>2 DEF DeliveryOf, MsgOf, DeliveriesKnown, Published
    <3> QED BY <3>3 DEF Settled, GivenUp
  <2>2. CASE ~Published(m)'
    BY <2>2 DEF DeliveryInv, Settled, GivenUp, DeliveryOf, MsgOf, Published, DeliveriesKnown
  <2> QED BY <2>1, <2>2
<1> DEFINE S == [m \in Msg |-> StatusOf(m)]
<1>7. S' \in [Msg -> {"unpublished", "held", "settled", "givenUp"}]
  BY <1>3 DEF StatusOf
<1>8. ASSUME NEW m \in Msg
      PROVE  \/ StatusOf(m) = "unpublished" /\ StatusOf(m)' = "held"
             \/ StatusOf(m) \in {"held", "givenUp"} /\ StatusOf(m)' = "settled"
             \/ StatusOf(m) = "held" /\ StatusOf(m)' = "givenUp"
             \/ StatusOf(m)' = StatusOf(m)
  BY <1>2, <1>3, <1>4, <1>5, <1>6 DEF StatusOf, ReleasedKept
<1> QED
  BY <1>7, <1>8
  DEF Contract!Next, Contract!Status, Contract!Publish, Contract!Settle, Contract!GiveUp

\* The worker implements AtLeastOnce, whatever the manager leaks: no step loses a
\* published message before its processing came to an end, except by giving it up
\* when a republication failed or no channel could be had.
THEOREM ImplementsAtLeastOnce == Spec => AtLeastOnceSpec
<1>1. ASSUME Init PROVE Contract!Init
  <2>1. \A m \in Msg : ~Published(m)
    BY <1>1, DeliveryAssumption DEF Init, Published
  <2> QED BY <2>1 DEF Contract!Init, StatusOf
<1>2. DeliveryInv /\ DeliveryInv' /\ [Next]_vars => [Contract!Next]_[m \in Msg |-> StatusOf(m)]
  BY DeliveryAssumption, StepOfContract
<1> QED BY <1>1, <1>2, InvariantHolds, PTL DEF Spec, AtLeastOnceSpec, Contract!Spec

-----------------------------------------------------------------------------
(* WorkerDelivery uses channels as ChannelProvider hands them out.         *)

\* What ChannelProvider sees of the channels.
ProviderState == [g \in Chan |-> CASE link[g] = "new" -> "new" [] Open(g) -> "open" [] OTHER -> "closed"]

\* The broker drops a channel, or nothing happens to any: the client sees the
\* same channels as before.
Unnoticed ==
  /\ cur' = cur
  /\ \/ link' = link
     \/ \E g \in Chan, why \in {"broken", "error"} : link[g] = "up" /\ link' = [link EXCEPT ![g] = why]

\* What is not noticed is no step of the provider.
LEMMA UnnoticedStays ==
  ASSUME TypeOK, Unnoticed
  PROVE  UNCHANGED <<cur, ProviderState>>
BY DEF TypeOK, Unnoticed, ProviderState, Open

\* Settling a delivery is at worst answered by a channel error.
LEMMA SettleUnnoticed ==
  ASSUME NEW t \in Tag, NEW to, chanOf[t] \in Chan, Settle(t, to) \/ UNCHANGED link, cur' = cur
  PROVE  Unnoticed
BY DEF Settle, Drop, Unnoticed

\* So is an exception, whichever catch it reaches.
LEMMA ThrowUnnoticed ==
  ASSUME TypeOK, DeliveriesKnown, NEW k \in Task, step[k] # "none", Throw(k), cur' = cur
  PROVE  Unnoticed
<1>1. k[1] \in Tag /\ chanOf[k[1]] \in Chan
  BY BusyTask, DeliveryOfTask
<1>2. UNCHANGED link \/ Settle(k[1], "gone")
  BY DEF Throw, OuterCatch, InnerCatch
<1> QED BY <1>1, <1>2, SettleUnnoticed

\* getChannel() offers the channel there is, or one that was never used.
LEMMA GetChannelProvides ==
  ASSUME TypeOK, NEW g \in Chan, GetChannel(g)
  PROVE  [Provider!Next]_<<cur, ProviderState>>
<1>1. CASE UNCHANGED <<cur, link>>
  BY <1>1 DEF ProviderState, Open
<1>2. CASE g \in NewChannels /\ link' = [link EXCEPT ![g] = "up"] /\ cur' = g
  <2>1. link[g] = "new"
    BY <1>2, FreshSubset DEF NewChannels
  <2>2. ProviderState' = [ProviderState EXCEPT ![g] = "open"] /\ ProviderState[g] = "new"
    BY <1>2, <2>1 DEF TypeOK, ProviderState, Open
  <2>3. Provider!Provide(g)
    BY <1>2, <2>2 DEF Provider!Provide, ProviderState
  <2> QED BY <2>3 DEF Provider!Next
<1> QED BY <1>1, <1>2 DEF GetChannel

\* Every step is one of the provider's or unnoticed.
LEMMA StepOfProvider ==
  ASSUME DeliveryAssumption, TypeOK, DeliveriesKnown, [Next]_vars
  PROVE  [Provider!Next]_<<cur, ProviderState>>
<1>1. ASSUME NEW g \in Chan, ChannelClosed(g) PROVE Provider!Next
  <2>1. /\ Open(g) /\ link' = [link EXCEPT ![g] = "closed"]
        /\ cur' = IF cur = g THEN None ELSE cur
    BY <1>1 DEF ChannelClosed, ChannelAfter, Open
  <2>2. ProviderState' = [ProviderState EXCEPT ![g] = "closed"] /\ ProviderState[g] = "open"
    BY <2>1 DEF TypeOK, ProviderState, Open
  <2>3. cur' \in {cur, None} \ {g}
    BY <2>1, DeliveryAssumption
  <2>4. Provider!Lose(g)
    BY <2>2, <2>3 DEF Provider!Lose, ProviderState
  <2> QED BY <2>4 DEF Provider!Next
<1>2. CASE Forget
  <2>1. cur' = None /\ UNCHANGED ProviderState
    BY <1>2 DEF Forget, broker, ProviderState, Open
  <2> QED BY <2>1 DEF Provider!Next, Provider!Forget, ProviderState
<1>3. ASSUME NEW g \in Chan, GetChannel(g) PROVE [Provider!Next]_<<cur, ProviderState>>
  BY <1>3, GetChannelProvides
<1>4. CASE Reconnect \/ Start \/ \E k \in Task : GetsChannel(k)
  <2>1. \E g \in Chan : GetChannel(g)
    BY <1>4 DEF Reconnect, Start, GetsChannel
  <2> QED BY <1>3, <2>1
<1>5. CASE Stop
  <2>1. (\E g \in Chan : GetChannel(g)) \/ UNCHANGED <<cur, link>>
    BY <1>5 DEF Stop
  <2> QED BY <1>3, <2>1 DEF ProviderState, Open
<1>6. ASSUME NEW g \in Chan, BreakLink(g) PROVE Unnoticed
  BY <1>6 DEF BreakLink, Drop, client, Unnoticed
<1>7. ASSUME NEW t \in Tag, \/ Receive(t) \/ HandlerResolves(t) \/ HandlerRejects(t)
                            \/ \E ctl \in Controls : HandlerCalls(t, ctl)
      PROVE  Unnoticed
  <2>1. chanOf[t] \in Chan /\ cur' = cur
    BY <1>7 DEF Receive, HandlerResolves, HandlerRejects, HandlerCalls, DeliveriesKnown
  <2>2. (\E to \in Place : Settle(t, to)) \/ UNCHANGED link
    BY <1>7 DEF Receive, HandlerResolves, HandlerRejects, HandlerCalls, Acked, Place
  <2> QED BY <2>1, <2>2, SettleUnnoticed
<1>8. ASSUME NEW k \in Task, ConnectFails(k) PROVE Unnoticed
  BY <1>8, ThrowUnnoticed DEF ConnectFails
<1>9. ASSUME NEW k \in Task, Acks(k) PROVE Unnoticed
  <2>1. k[1] \in Tag /\ chanOf[k[1]] \in Chan /\ step[k] # "none" /\ cur' = cur
    BY <1>9, BusyTask, DeliveryOfTask DEF Acks
  <2>2. Settle(k[1], "gone") \/ Throw(k)
    BY <1>9 DEF Acks, Acked
  <2> QED BY <2>1, <2>2, SettleUnnoticed, ThrowUnnoticed
<1>10. CASE Unnoticed
  BY <1>10, UnnoticedStays
<1>11. CASE UNCHANGED <<cur, link>>
  BY <1>11, <1>10 DEF Unnoticed
<1> QED
  BY <1>1, <1>2, <1>4, <1>5, <1>6, <1>7, <1>8, <1>9, <1>10, <1>11
  DEF Next, TaskStep, Publish, Expire, AddHandler, RemoveHandler, Deliver, Republish, RepublishFails,
      vars, broker, client

\* The worker refines ChannelProvider, link faults and forgotten channels
\* included: it is never handed a channel that has ended, or one a second time.
THEOREM ImplementsProvider == Spec => ProviderSpec
<1>1. ASSUME Init PROVE cur = None /\ ProviderState = [g \in Chan |-> "new"]
  BY <1>1 DEF Init, ProviderState, Open
<1>2. TypeOK /\ DeliveriesKnown /\ [Next]_vars => [Provider!Next]_<<cur, ProviderState>>
  BY DeliveryAssumption, StepOfProvider
<1> QED BY <1>1, <1>2, KnownAlways, PTL DEF Spec, ProviderSpec, Provider!Spec, Provider!Init, ProviderState
=============================================================================
