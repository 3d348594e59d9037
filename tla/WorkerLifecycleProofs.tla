----------------------- MODULE WorkerLifecycleProofs -----------------------
(***************************************************************************)
(* Proofs about WorkerLifecycle, for any number of workers, events, calls  *)
(* and channels.                                                           *)
(*                                                                         *)
(* The invariant has four parts.  CallsInv: an orderly worker has one call *)
(* at a time.  ConsumersInv: consumers live on channels that work, also on *)
(* ones the manager has dropped; an orderly worker's on the manager's      *)
(* channel belongs to its tag or to a start() that awaits its reply.       *)
(* DeclaredInv: who has come past assertQueue, or has the queue in the     *)
(* cache, has a queue.  BindingsInv: what a worker takes for bound is      *)
(* bound, and what an orderly one has not bound is on a call's list.       *)
(***************************************************************************)
EXTENDS WorkerLifecycle, TLAPS

\* An orderly worker has one call, and no tag while it starts.
CallsInv ==
  /\ \A c \in Call : pc[c] # "unused" => who[c] \in Worker
  /\ \A c, d \in Call :
       Active(c) /\ Active(d) /\ who[c] = who[d] /\ who[c] \notin Overlapping => c = d
  /\ \A c \in Call : pc[c] \in Starting /\ who[c] \notin Overlapping => consumerTag[who[c]] = None
  /\ \A w \in Worker : isConsuming[w] <=> consumerTag[w] # None
  /\ \A c \in Call : pc[c] = "bind" => todo[c] # {}
  /\ \A c \in Call : pc[c] = "add" => \E e \in Event : todo[c] = {e}

\* An orderly worker's consumer is on the channel the manager offers.
Offered(c) == consumer[c] # None /\ consumer[c] = channel /\ who[c] \notin Overlapping

\* Where consumers are and whom they belong to.
ConsumersInv ==
  /\ \A c \in Call : pc[c] = "unused" => consumer[c] = None
  /\ \A c \in Call : consumer[c] # None => chan[consumer[c]] = "up"
  /\ \A c \in Call : Offered(c) => consumerTag[who[c]] = c \/ (pc[c] = "consume" /\ on[c] = channel)
  /\ \A c, d \in Call : pc[c] = "cancel" /\ on[c] # None /\ who[d] = who[c] => ~Offered(d)

\* A worker's queue exists, or it may have deleted itself.
HasQueue(w) == w \in declared \cup AutoDelete

\* Every place from which a worker goes on to use its queue.
DeclaredInv ==
  /\ \A w \in setup : w \in Worker => HasQueue(w)
  /\ \A c \in Call : pc[c] = "queue" /\ on[c] # None /\ chan[on[c]] = "up" => HasQueue(who[c])
  /\ \A c \in Call : pc[c] \in {"snapshot", "bind", "consume", "add"} => HasQueue(who[c])
  /\ \A w \in Worker : isConsuming[w] => HasQueue(w)
  /\ NeverRefused

\* The events of w that an addHandler() is binding, or has failed to bind.
Pending(w) == {e \in Event : \E c \in Call : who[c] = w /\ pc[c] \in {"add", "failed"} /\ e \in todo[c]}

\* What is taken for bound is bound, and what is not is on the way.
BindingsInv ==
  /\ \A w \in Worker \ AutoDelete : \A e \in boundEvents[w] : <<w, e>> \in bound
  /\ \A c \in Call : /\ pc[c] \in {"bind", "add"} /\ on[c] # None /\ chan[on[c]] = "up"
                     /\ who[c] \notin AutoDelete
                     => <<who[c], Binding(c)>> \in bound
  /\ \A c \in Call : pc[c] = "bind" /\ who[c] \notin Overlapping =>
       handlers[who[c]] \subseteq boundEvents[who[c]] \cup todo[c]
  /\ \A c \in Call : pc[c] = "consume" /\ who[c] \notin Overlapping =>
       handlers[who[c]] \subseteq boundEvents[who[c]]
  /\ \A w \in Worker \ Overlapping :
       isConsuming[w] => handlers[w] \subseteq boundEvents[w] \cup Pending(w)

-----------------------------------------------------------------------------
(* Operators.                                                              *)

\* Fresh chooses a member of its argument or nothing.
LEMMA FreshSubset == ASSUME NEW S PROVE Fresh(S) \subseteq S
BY DEF Fresh

\* A call that is about to bind binds one of the events on its list.
LEMMA BindingOnList ==
  ASSUME TypeOK, CallsInv, NEW c \in Call, pc[c] \in {"bind", "add"}
  PROVE  Binding(c) \in todo[c] /\ Binding(c) \in Event
<1>1. todo[c] # {}
  BY DEF CallsInv
<1> QED BY <1>1 DEF TypeOK, Binding

\* A call that begins was not made before.
LEMMA BeginNew ==
  ASSUME NEW w, NEW stage, NEW events, Begin(w, stage, events)
  PROVE  \E c \in Call : /\ pc[c] = "unused"
                         /\ who' = [who EXCEPT ![c] = w] /\ pc' = [pc EXCEPT ![c] = stage]
                         /\ todo' = [todo EXCEPT ![c] = events] /\ on' = on
<1>1. NewCalls \subseteq {c \in Call : pc[c] = "unused"}
  BY FreshSubset DEF NewCalls
<1> QED BY <1>1 DEF Begin

\* When consumers end, only the queues of auto-delete workers go with them.
LEMMA ConsumersSet ==
  ASSUME NEW cs, SetConsumers(cs)
  PROVE  /\ consumer' = cs
         /\ declared' \subseteq declared /\ declared \ AutoDelete \subseteq declared'
         /\ bound' \subseteq bound /\ \A b \in bound : b[1] \notin AutoDelete => b \in bound'
         /\ limit' = [c \in Call |-> IF cs[c] = None THEN 0 ELSE limit[c]]
BY DEF SetConsumers

-----------------------------------------------------------------------------
(* Types and calls.                                                        *)

\* What a failure does to the calls and to the workers of the failed stops.
LEMMA FailTypes ==
  ASSUME TypeOK, NEW F \in SUBSET Call, Fail(F)
  PROVE  /\ who' = who /\ handlers' = handlers /\ boundEvents' = boundEvents
         /\ isConsuming' \in [Worker -> BOOLEAN] /\ consumerTag' \in [Worker -> Call \cup {None}]
         /\ pc' \in [Call -> Stage \cup {"unused", "done", "failed"}]
         /\ on' \in [Call -> Chan \cup {None}] /\ todo' \in [Call -> SUBSET Event]
         /\ \A c \in Call \ F : pc'[c] = pc[c] /\ on'[c] = on[c] /\ todo'[c] = todo[c]
         /\ \A c \in F : /\ pc'[c] = IF pc[c] = "cancel" THEN "done" ELSE "failed"
                         /\ on'[c] = None
                         /\ todo'[c] = IF pc[c] = "add" THEN todo[c] ELSE {}
         /\ \A w \in Worker :
              IF \E f \in F : pc[f] = "cancel" /\ who[f] = w
                THEN consumerTag'[w] = None /\ isConsuming'[w] = FALSE
                ELSE consumerTag'[w] = consumerTag[w] /\ isConsuming'[w] = isConsuming[w]
<1>1. /\ pc' = [c \in Call |-> IF c \notin F THEN pc[c] ELSE IF pc[c] = "cancel" THEN "done" ELSE "failed"]
      /\ on' = [c \in Call |-> IF c \in F THEN None ELSE on[c]]
      /\ todo' = [c \in Call |-> IF c \in F /\ pc[c] # "add" THEN {} ELSE todo[c]]
      /\ who' = who
  BY DEF Fail
<1>2. /\ handlers' = handlers /\ boundEvents' = boundEvents
      /\ isConsuming' \in [Worker -> BOOLEAN] /\ consumerTag' \in [Worker -> Call \cup {None}]
      /\ \A w \in Worker :
           IF \E f \in F : pc[f] = "cancel" /\ who[f] = w
             THEN consumerTag'[w] = None /\ isConsuming'[w] = FALSE
             ELSE consumerTag'[w] = consumerTag[w] /\ isConsuming'[w] = isConsuming[w]
  <2> DEFINE W == {who[c] : c \in {f \in F : pc[f] = "cancel"}}
  <2>1. /\ consumerTag' = [w \in Worker |-> IF w \in W THEN None ELSE consumerTag[w]]
        /\ isConsuming' = [w \in Worker |-> isConsuming[w] /\ w \notin W]
        /\ handlers' = handlers /\ boundEvents' = boundEvents
    BY DEF Fail, Forgotten
  <2>2. \A w : w \in W <=> \E f \in F : pc[f] = "cancel" /\ who[f] = w
    OBVIOUS
  <2>3. isConsuming \in [Worker -> BOOLEAN] /\ consumerTag \in [Worker -> Call \cup {None}]
    BY DEF TypeOK
  <2> HIDE DEF W
  <2>4. /\ isConsuming' \in [Worker -> BOOLEAN]
        /\ \A w \in Worker : isConsuming'[w] = (isConsuming[w] /\ w \notin W)
    BY <2>1
  <2>5. \A w \in Worker : IF w \in W THEN isConsuming'[w] = FALSE ELSE isConsuming'[w] = isConsuming[w]
    BY <2>3, <2>4
  <2>6. /\ consumerTag' \in [Worker -> Call \cup {None}]
        /\ \A w \in Worker : IF w \in W THEN consumerTag'[w] = None ELSE consumerTag'[w] = consumerTag[w]
    BY <2>1, <2>3
  <2> QED BY <2>1, <2>2, <2>4, <2>5, <2>6
<1>3. pc \in [Call -> Stage \cup {"unused", "done", "failed"}]
      /\ on \in [Call -> Chan \cup {None}] /\ todo \in [Call -> SUBSET Event]
  BY DEF TypeOK
<1>4. /\ pc' \in [Call -> Stage \cup {"unused", "done", "failed"}]
      /\ on' \in [Call -> Chan \cup {None}] /\ todo' \in [Call -> SUBSET Event]
  BY <1>1, <1>3
<1> QED BY <1>1, <1>2, <1>3, <1>4

\* Every action keeps the types.
LEMMA TypeStep ==
  ASSUME LifecycleAssumption, TypeOK, CallsInv, [Next]_vars
  PROVE  TypeOK'
<1>e. ASSUME NEW F \in SUBSET Call, Fail(F)
      PROVE  /\ who' \in [Call -> Worker \cup {None}]
             /\ handlers' \in [Worker -> SUBSET Event] /\ boundEvents' \in [Worker -> SUBSET Event]
             /\ isConsuming' \in [Worker -> BOOLEAN] /\ consumerTag' \in [Worker -> Call \cup {None}]
             /\ pc' \in [Call -> Stage \cup {"unused", "done", "failed"}]
             /\ on' \in [Call -> Chan \cup {None}] /\ todo' \in [Call -> SUBSET Event]
             /\ \A c \in Call : on'[c] # None => c \notin F /\ on'[c] = on[c] /\ pc'[c] = pc[c]
  <2>1. /\ who' = who /\ handlers' = handlers /\ boundEvents' = boundEvents
        /\ isConsuming' \in [Worker -> BOOLEAN] /\ consumerTag' \in [Worker -> Call \cup {None}]
        /\ pc' \in [Call -> Stage \cup {"unused", "done", "failed"}]
        /\ on' \in [Call -> Chan \cup {None}] /\ todo' \in [Call -> SUBSET Event]
        /\ \A c \in Call \ F : on'[c] = on[c] /\ pc'[c] = pc[c]
        /\ \A c \in F : on'[c] = None
    BY <1>e, FailTypes
  <2>2. /\ who \in [Call -> Worker \cup {None}]
        /\ handlers \in [Worker -> SUBSET Event] /\ boundEvents \in [Worker -> SUBSET Event]
    BY DEF TypeOK
  <2> QED BY <2>1, <2>2
<1> USE DEF TypeOK, Stage, Starting
<1>a. \A c \in Call : Active(c) => who[c] \in Worker
  BY DEF CallsInv, Active
<1>1. ASSUME NEW w \in Worker, Start(w) \/ Stop(w) PROVE TypeOK'
  <2>1. \E stage \in {"connect", "cancel"} : Begin(w, stage, {})
    BY <1>1 DEF Start, Stop
  <2>2. UNCHANGED <<broker, links, manager, worker>>
    BY <1>1 DEF Start, Stop
  <2> QED BY <2>1, <2>2, BeginNew DEF broker, links, manager, worker
<1>2. ASSUME NEW w \in Worker, NEW e \in Event, AddHandler(w, e) PROVE TypeOK'
  <2>1. handlers' = [handlers EXCEPT ![w] = @ \cup {e}]
        /\ UNCHANGED <<broker, links, manager, boundEvents, isConsuming, consumerTag>>
    BY <1>2 DEF AddHandler
  <2>2. CASE UNCHANGED calls
    BY <2>1, <2>2 DEF broker, links, manager, calls
  <2>3. CASE Begin(w, "add", {e})
    <3>1. PICK c \in Call : /\ who' = [who EXCEPT ![c] = w] /\ pc' = [pc EXCEPT ![c] = "add"]
                            /\ todo' = [todo EXCEPT ![c] = {e}] /\ on' = on /\ pc[c] = "unused"
      BY <2>3, BeginNew
    <3>2. /\ who' \in [Call -> Worker \cup {None}] /\ todo' \in [Call -> SUBSET Event]
          /\ pc' \in [Call -> Stage \cup {"unused", "done", "failed"}]
          /\ \A d \in Call : on[d] # None => chan[on[d]] \in {"up", "broken"} /\ pc'[d] \in Stage
      BY <3>1
    <3>3. handlers' \in [Worker -> SUBSET Event]
      BY <2>1
    <3> QED BY <2>1, <3>1, <3>2, <3>3 DEF broker, links, manager
  <2> QED BY <1>2, <2>2, <2>3 DEF AddHandler
<1>3. ASSUME NEW w \in Worker, NEW e \in Event, RemoveHandler(w, e) PROVE TypeOK'
  BY <1>3 DEF RemoveHandler, broker, links, manager, calls
<1>4. ASSUME NEW c \in Call, Connected(c) PROVE TypeOK'
  BY <1>4 DEF Connected, At, Ready, GoTo, broker, links, manager, worker
<1>5. ASSUME NEW c \in Call, SetPrefetch(c) PROVE TypeOK'
  BY <1>5, <1>a DEF SetPrefetch, At, Ready, Send, LifecycleAssumption, broker, manager, worker
<1>6. ASSUME NEW c \in Call, AssertExchange(c) PROVE TypeOK'
  BY <1>6 DEF AssertExchange, Declare, At, Ready, GoTo, Send, links, manager, worker
<1>7. ASSUME NEW c \in Call, AssertQueue(c) PROVE TypeOK'
  BY <1>7, <1>a DEF AssertQueue, Declare, At, Ready, GoTo, Send, links, manager, worker
<1>8. ASSUME NEW c \in Call, Snapshot(c) PROVE TypeOK'
  BY <1>8, <1>a DEF Snapshot, At, Ready, broker, links, manager, worker
<1>9. ASSUME NEW c \in Call, At(c, "bind") \/ At(c, "add") \/ At(c, "consume") \/ At(c, "cancel"), Send(c)
      PROVE  /\ who' \in [Call -> Worker \cup {None}] /\ todo' \in [Call -> SUBSET Event]
             /\ pc' \in [Call -> Stage \cup {"unused", "done", "failed"}]
             /\ on' \in [Call -> Chan \cup {None}] /\ pc' = pc
             /\ \A d \in Call : on'[d] # None => chan[on'[d]] \in {"up", "broken"} /\ pc[d] \in Stage
  BY <1>9 DEF At, Ready, Send
<1>b. ASSUME NEW w \in Worker, Refuse(w), channel # None, UNCHANGED manager
      PROVE  /\ declared' \subseteq Worker \cup {exchange} /\ bound' \subseteq Worker \X Event
             /\ consumer' \in [Call -> Chan \cup {None}] /\ limit' \in [Call -> Nat]
             /\ refused' \subseteq Worker /\ prefetch' \in [Chan -> Nat]
             /\ chan' \in [Chan -> {"new", "up", "broken", "closed"}] /\ connections' = connections
             /\ \A g \in Chan : chan[g] \in {"up", "broken"} <=> chan'[g] \in {"up", "broken"}
             /\ \A g \in Chan : chan'[g] = "new" => chan[g] = "new"
  BY <1>b, ConsumersSet DEF Refuse, NoneOn, manager
<1>10. ASSUME NEW c \in Call, BindQueue(c) PROVE TypeOK'
  <2>1. who[c] \in Worker /\ Binding(c) \in Event /\ channel # None /\ Send(c)
        /\ (At(c, "bind") \/ At(c, "add")) /\ UNCHANGED <<manager, worker>>
    BY <1>10, <1>a, BindingOnList DEF BindQueue, At, Ready
  <2>2. CASE Up /\ Refuse(who[c])
    BY <2>1, <2>2, <1>9, <1>b DEF worker, manager
  <2>3. CASE bound' = bound \cup {<<who[c], Binding(c)>>}
             /\ UNCHANGED <<declared, consumer, limit, refused, links>>
    BY <2>1, <2>3, <1>9 DEF links, manager, worker
  <2>4. CASE UNCHANGED <<broker, links>>
    BY <2>1, <2>4, <1>9 DEF broker, links, manager, worker
  <2> QED BY <1>10, <2>2, <2>3, <2>4 DEF BindQueue
<1>11. ASSUME NEW c \in Call, Consume(c) PROVE TypeOK'
  <2>1. who[c] \in Worker /\ channel \in Chan /\ Send(c)
        /\ At(c, "consume") /\ UNCHANGED <<manager, worker>>
    BY <1>11, <1>a DEF Consume, At, Ready
  <2>2. CASE Up /\ Refuse(who[c])
    BY <2>1, <2>2, <1>9, <1>b, LifecycleAssumption DEF worker, manager, At, Ready
  <2>3. CASE /\ consumer' = [consumer EXCEPT ![c] = channel]
             /\ limit' = [limit EXCEPT ![c] = prefetch[channel]]
             /\ UNCHANGED <<declared, bound, refused, links>>
    BY <2>1, <2>3, <1>9 DEF links, manager, worker
  <2>4. CASE UNCHANGED <<broker, links>>
    BY <2>1, <2>4, <1>9 DEF broker, links, manager, worker
  <2> QED BY <1>11, <2>2, <2>3, <2>4 DEF Consume
<1>c. ASSUME NEW cs \in [Call -> Chan \cup {None}], SetConsumers(cs)
      PROVE  /\ declared' \subseteq Worker \cup {exchange} /\ bound' \subseteq Worker \X Event
             /\ consumer' \in [Call -> Chan \cup {None}] /\ limit' \in [Call -> Nat]
  BY <1>c, ConsumersSet
<1>12. ASSUME NEW c \in Call, Cancel(c) PROVE TypeOK'
  <2>1. At(c, "cancel") /\ Send(c) /\ UNCHANGED <<refused, links, manager, worker>>
    BY <1>12 DEF Cancel
  <2>2. Cancels(who[c]) \in [Call -> Chan \cup {None}]
    BY DEF Cancels
  <2>3. CASE SetConsumers(Cancels(who[c]))
    BY <2>1, <2>2, <2>3, <1>9, <1>c DEF links, manager, worker
  <2>4. CASE UNCHANGED <<declared, bound, consumer, limit>>
    BY <2>1, <2>4, <1>9 DEF links, manager, worker
  <2> QED BY <1>12, <2>3, <2>4 DEF Cancel
<1>13. ASSUME NEW c \in Call, PrefetchSet(c) PROVE TypeOK'
  BY <1>13 DEF PrefetchSet, Answered, Resume, broker, links, worker
<1>14. ASSUME NEW c \in Call, ExchangeAsserted(c) PROVE TypeOK'
  BY <1>14 DEF ExchangeAsserted, Answered, Resume, broker, links, worker
<1>15. ASSUME NEW c \in Call, QueueAsserted(c) PROVE TypeOK'
  BY <1>15, <1>a DEF QueueAsserted, Answered, Resume, Active, broker, links, worker
<1>16. ASSUME NEW c \in Call, QueueBound(c) PROVE TypeOK'
  <2>1. who[c] \in Worker /\ Binding(c) \in Event
    BY <1>16, <1>a, BindingOnList DEF QueueBound, Answered, Active
  <2> QED BY <1>16, <2>1 DEF QueueBound, Answered, broker, links, manager
<1>17. ASSUME NEW c \in Call, Started(c) PROVE TypeOK'
  BY <1>17, <1>a DEF Started, Answered, Resume, Active, broker, links
<1>18. ASSUME NEW c \in Call, Stopped(c) PROVE TypeOK'
  <2>1. isConsuming' \in [Worker -> BOOLEAN] /\ consumerTag' \in [Worker -> Call \cup {None}]
        /\ handlers' = handlers /\ boundEvents' = boundEvents
    BY <1>18 DEF Stopped, Forgotten
  <2> QED BY <1>18, <2>1 DEF Stopped, Answered, Resume, broker, links
<1>19. CASE Dial
  <2>1. PICK g \in Chan : /\ chan[g] = "new" /\ chan' = [chan EXCEPT ![g] = "up"]
                          /\ connections' = connections \cup {g} /\ connection' = g /\ channel' = g
    BY <1>19, FreshSubset DEF Dial
  <2> QED BY <1>19, <2>1 DEF Dial, broker, worker, calls
<1>20. CASE DialFails
  <2>1. PICK F \in SUBSET Call : Fail(F)
    BY <1>20 DEF DialFails
  <2>2. channel = None
    BY <1>20 DEF DialFails, Waiting
  <2> QED BY <1>20, <2>1, <2>2, <1>e DEF DialFails, broker, links
<1>21. ASSUME NEW g \in Chan, Break(g) PROVE TypeOK'
  BY <1>21, <1>c DEF Break, NoneOn, manager, worker, calls
<1>d. ASSUME NEW g, Fail(Told(g))
      PROVE  \A c \in Call : on'[c] # None => on'[c] # g /\ on'[c] = on[c] /\ pc'[c] = pc[c]
  <2>1. Told(g) \in SUBSET Call
    BY DEF Told
  <2>2. \A c \in Call : on'[c] # None => c \notin Told(g) /\ on'[c] = on[c] /\ pc'[c] = pc[c]
    BY <1>d, <1>e, <2>1
  <2> QED BY <1>d, <2>2 DEF Told
<1>22. ASSUME NEW g \in Chan, End(g) PROVE TypeOK'
  <2>1. /\ Told(g) \in SUBSET Call /\ Fail(Told(g)) /\ channel' = None
        /\ chan' = [chan EXCEPT ![g] = "closed"] /\ UNCHANGED <<broker, prefetch>>
        /\ setup' \subseteq setup
        /\ \/ UNCHANGED <<connections, connection>>
           \/ connections' = connections \ {g} /\ connection' = None
    BY <1>22 DEF End, ChannelEnds, ConnectionEnds, Told, ChannelAfter
  <2> QED BY <1>d, <1>e, <2>1 DEF broker
<1>23. CASE Close
  <2>1. Told(connection) \in SUBSET Call /\ Fail(Told(connection))
    BY <1>23 DEF Close, Told
  <2>2. NoneOn(connection) \in [Call -> Chan \cup {None}]
    BY DEF NoneOn
  <2> QED BY <1>23, <1>c, <1>d, <1>e, <2>1, <2>2 DEF Close
<1>24. CASE UNCHANGED vars
  BY <1>24 DEF vars, broker, links, manager, worker, calls
<1> QED BY <1>1, <1>2, <1>3, <1>4, <1>5, <1>6, <1>7, <1>8, <1>10, <1>11, <1>12, <1>13, <1>14,
           <1>15, <1>16, <1>17, <1>18, <1>19, <1>20, <1>21, <1>22, <1>23, <1>24
        DEF Next, Issue, Others, Application, Reply, Outcome

\* A step of one call: the tags stay, and no call becomes active.
LEMMA CallMoves ==
  ASSUME TypeOK, CallsInv, NEW c \in Call, Active(c), pc'[c] # "unused",
         who' = who, consumerTag' = consumerTag, isConsuming' = isConsuming,
         \A d \in Call \ {c} : pc'[d] = pc[d] /\ todo'[d] = todo[d],
         pc'[c] \in Starting => pc[c] \in Starting, pc'[c] = "cancel" => pc[c] = "cancel",
         pc'[c] = "bind" => todo'[c] # {},
         pc'[c] = "add" => pc[c] = "add" /\ todo'[c] = todo[c]
  PROVE  CallsInv'
<1>1. \A d \in Call : Active(d)' => Active(d)
  BY DEF Active, Stage
<1>2. \A d \in Call : pc'[d] # "unused" => pc[d] # "unused"
  BY DEF Active, Stage, Starting
<1> QED BY <1>1, <1>2 DEF CallsInv

\* A call begins; an orderly worker has no other one.
LEMMA CallBegins ==
  ASSUME TypeOK, CallsInv, NEW w \in Worker, Free(w), NEW stage, NEW events,
         Begin(w, stage, events), UNCHANGED <<isConsuming, consumerTag>>,
         stage \in Starting => w \in Overlapping \/ consumerTag[w] = None, stage # "bind",
         stage = "add" => \E e \in Event : events = {e}
  PROVE  CallsInv'
<1>1. PICK c \in Call : /\ pc[c] = "unused"
                         /\ who' = [who EXCEPT ![c] = w] /\ pc' = [pc EXCEPT ![c] = stage]
                         /\ todo' = [todo EXCEPT ![c] = events]
  BY BeginNew
<1>2. \A d \in Call \ {c} : who'[d] = who[d] /\ pc'[d] = pc[d] /\ todo'[d] = todo[d]
  BY <1>1 DEF TypeOK
<1>3. who'[c] = w /\ pc'[c] = stage /\ todo'[c] = events
  BY <1>1 DEF TypeOK
<1>4. \A d \in Call \ {c} : Active(d)' => Active(d) /\ (w \notin Overlapping => who[d] # w)
  BY <1>2 DEF Free, Busy, Active
<1>5. \A d, e \in Call :
        Active(d)' /\ Active(e)' /\ who'[d] = who'[e] /\ who'[d] \notin Overlapping => d = e
  BY <1>2, <1>3, <1>4 DEF CallsInv
<1> QED BY <1>2, <1>3, <1>5 DEF CallsInv

\* Calls fail; the stops among them forget the tag.
LEMMA CallsFail ==
  ASSUME TypeOK, CallsInv, NEW F \in SUBSET Call, Fail(F), \A c \in F : Active(c)
  PROVE  CallsInv'
<1>1. /\ who' = who
      /\ \A c \in Call \ F : pc'[c] = pc[c] /\ todo'[c] = todo[c]
      /\ \A c \in F : pc'[c] \in {"done", "failed"}
  <2>1. /\ who' = who
        /\ \A c \in Call \ F : pc'[c] = pc[c] /\ todo'[c] = todo[c]
        /\ \A c \in F : pc'[c] = IF pc[c] = "cancel" THEN "done" ELSE "failed"
    BY DEF Fail
  <2> QED BY <2>1
<1>a. ASSUME NEW w \in Worker
      PROVE  \/ consumerTag'[w] = None /\ isConsuming'[w] = FALSE
             \/ consumerTag'[w] = consumerTag[w] /\ isConsuming'[w] = isConsuming[w]
  <2>1. \A v \in Worker :
          IF \E f \in F : pc[f] = "cancel" /\ who[f] = v
            THEN consumerTag'[v] = None /\ isConsuming'[v] = FALSE
            ELSE consumerTag'[v] = consumerTag[v] /\ isConsuming'[v] = isConsuming[v]
    BY FailTypes
  <2> QED BY <2>1
<1>2. \A c \in Call : Active(c)' => Active(c) /\ c \notin F
  BY <1>1 DEF Active, Stage, Starting
<1>3. \A c \in Call : pc'[c] # "unused" => pc[c] # "unused"
  BY <1>1 DEF Active, Stage, Starting
<1>4. \A c \in Call : pc'[c] \in Starting \cup {"bind", "add"} => c \notin F
  BY <1>1 DEF Starting
<1>5. \A c \in Call : pc'[c] \in Starting /\ who'[c] \notin Overlapping => consumerTag'[who'[c]] = None
  BY <1>1, <1>4, <1>a DEF CallsInv, Starting
<1>6. \A w \in Worker : isConsuming'[w] <=> consumerTag'[w] # None
  BY <1>a DEF CallsInv
<1> QED BY <1>1, <1>2, <1>3, <1>4, <1>5, <1>6 DEF CallsInv

\* Every action keeps CallsInv.
LEMMA CallsStep ==
  ASSUME LifecycleAssumption, TypeOK, CallsInv, [Next]_vars
  PROVE  CallsInv'
<1>1. ASSUME NEW w \in Worker, Start(w) PROVE CallsInv'
  BY <1>1, CallBegins DEF Start, Starting, worker
<1>2. ASSUME NEW w \in Worker, Stop(w) PROVE CallsInv'
  BY <1>2, CallBegins DEF Stop, Starting, worker
<1>3. ASSUME NEW w \in Worker, NEW e \in Event, AddHandler(w, e) PROVE CallsInv'
  <2>1. CASE UNCHANGED calls
    BY <1>3, <2>1 DEF AddHandler, CallsInv, Active, calls
  <2>2. CASE Begin(w, "add", {e})
    BY <1>3, <2>2, CallBegins DEF AddHandler, Starting
  <2> QED BY <1>3, <2>1, <2>2 DEF AddHandler
<1>4. ASSUME NEW w \in Worker, NEW e \in Event, RemoveHandler(w, e) PROVE CallsInv'
  BY <1>4 DEF RemoveHandler, CallsInv, Active, calls
<1> USE DEF TypeOK, Stage, Starting
<1>5. ASSUME NEW c \in Call, Connected(c) PROVE CallsInv'
  BY <1>5, CallMoves DEF Connected, At, Ready, GoTo, links, manager, worker
<1>6. ASSUME NEW c \in Call, SetPrefetch(c) PROVE CallsInv'
  BY <1>6, CallMoves DEF SetPrefetch, At, Ready, Send, manager, worker
<1>7. ASSUME NEW c \in Call, AssertExchange(c) PROVE CallsInv'
  BY <1>7, CallMoves DEF AssertExchange, Declare, At, Ready, GoTo, Send, links, manager, worker
<1>8. ASSUME NEW c \in Call, AssertQueue(c) PROVE CallsInv'
  BY <1>8, CallMoves DEF AssertQueue, Declare, At, Ready, GoTo, Send, links, manager, worker
<1>9. ASSUME NEW c \in Call, Snapshot(c) PROVE CallsInv'
  BY <1>9, CallMoves DEF Snapshot, At, Ready, links, manager, worker
<1>b. ASSUME NEW c \in Call, NEW stage \in {"bind", "add", "consume", "cancel"}, At(c, stage), Send(c),
             UNCHANGED worker
      PROVE  CallsInv'
  <2>2. /\ Active(c) /\ pc' = pc /\ todo' = todo /\ who' = who
        /\ consumerTag' = consumerTag /\ isConsuming' = isConsuming
    BY <1>b DEF At, Ready, Send, worker
  <2>3. pc[c] = "bind" => todo[c] # {}
    BY DEF CallsInv
  <2> QED BY <2>2, <2>3, CallMoves DEF Active
<1>10. ASSUME NEW c \in Call, BindQueue(c) PROVE CallsInv'
  BY <1>10, <1>b DEF BindQueue
<1>11. ASSUME NEW c \in Call, Consume(c) PROVE CallsInv'
  BY <1>11, <1>b DEF Consume
<1>12. ASSUME NEW c \in Call, Cancel(c) PROVE CallsInv'
  BY <1>12, <1>b DEF Cancel
<1>13. ASSUME NEW c \in Call, PrefetchSet(c) PROVE CallsInv'
  BY <1>13, CallMoves DEF PrefetchSet, Answered, Resume, Active, links, worker
<1>14. ASSUME NEW c \in Call, ExchangeAsserted(c) PROVE CallsInv'
  BY <1>14, CallMoves DEF ExchangeAsserted, Answered, Resume, Active, links, worker
<1>15. ASSUME NEW c \in Call, QueueAsserted(c) PROVE CallsInv'
  BY <1>15, CallMoves DEF QueueAsserted, Answered, Resume, Active, links, worker
<1>16. ASSUME NEW c \in Call, QueueBound(c) PROVE CallsInv'
  <2>1. /\ Active(c) /\ pc'[c] \in {"done", "consume", "bind"} /\ who' = who
        /\ pc'[c] \in {"consume", "bind"} => pc[c] = "bind"
        /\ pc'[c] = "bind" => todo'[c] # {}
        /\ \A d \in Call \ {c} : pc'[d] = pc[d] /\ todo'[d] = todo[d]
        /\ UNCHANGED <<links, manager, consumerTag, isConsuming>>
    BY <1>16 DEF QueueBound, Answered, Active
  <2> QED BY <2>1, CallMoves DEF links, manager
<1>17. ASSUME NEW c \in Call, Started(c) PROVE CallsInv'
  <2>1. /\ pc[c] = "consume" /\ pc' = [pc EXCEPT ![c] = "done"] /\ UNCHANGED <<who, todo, links, channel>>
        /\ consumerTag' = [consumerTag EXCEPT ![who[c]] = c]
        /\ isConsuming' = [isConsuming EXCEPT ![who[c]] = TRUE]
    BY <1>17 DEF Started, Answered, Resume
  <2>2. \A d \in Call : 
          Active(d)' => Active(d) /\ d # c /\ (who[c] \notin Overlapping => who[d] # who[c])
    BY <2>1 DEF CallsInv, Active
  <2>3. c # None /\ Active(c) /\ who[c] \in Worker
    BY <2>1, LifecycleAssumption DEF CallsInv, Active
  <2>4. \A w \in Worker : isConsuming'[w] <=> consumerTag'[w] # None
    BY <2>1, <2>3 DEF CallsInv
  <2>5. \A d \in Call : pc'[d] \in Starting /\ who'[d] \notin Overlapping => consumerTag'[who'[d]] = None
    BY <2>1, <2>2, <2>3 DEF CallsInv, Active
  <2> QED BY <2>1, <2>2, <2>3, <2>4, <2>5 DEF CallsInv, links
<1>18. ASSUME NEW c \in Call, Stopped(c) PROVE CallsInv'
  <2>1. /\ pc[c] = "cancel" /\ pc' = [pc EXCEPT ![c] = "done"] /\ UNCHANGED <<who, todo, links, channel>>
        /\ consumerTag' = [w \in Worker |-> IF w = who[c] THEN None ELSE consumerTag[w]]
        /\ isConsuming' = [w \in Worker |-> isConsuming[w] /\ w # who[c]]
    BY <1>18 DEF Stopped, Forgotten, Answered, Resume
  <2>2. \A d \in Call : Active(d)' => Active(d) /\ d # c
    BY <2>1 DEF Active
  <2>3. \A w \in Worker : isConsuming'[w] <=> consumerTag'[w] # None
    BY <2>1 DEF CallsInv
  <2>4. \A d \in Call : pc'[d] \in Starting /\ who'[d] \notin Overlapping => consumerTag'[who'[d]] = None
    BY <2>1, <2>2 DEF CallsInv
  <2> QED BY <2>1, <2>2, <2>3, <2>4 DEF CallsInv, links
<1>19. CASE Dial
  BY <1>19 DEF Dial, CallsInv, Active, worker, calls
<1>20. CASE DialFails
  BY <1>20, CallsFail DEF DialFails, Waiting
<1>21. ASSUME NEW g \in Chan, Break(g) PROVE CallsInv'
  BY <1>21 DEF Break, CallsInv, Active, worker, calls
<1>c. \A g : Told(g) \subseteq Call /\ \A c \in Told(g) : Active(c)
  BY DEF Told, Active
<1>22. ASSUME NEW g \in Chan, End(g) PROVE CallsInv'
  BY <1>22, <1>c, CallsFail DEF End, ChannelEnds, ConnectionEnds
<1>23. CASE Close
  BY <1>23, <1>c, CallsFail DEF Close
<1>24. CASE UNCHANGED vars
  BY <1>24 DEF vars, links, manager, worker, calls, CallsInv, Active
<1> QED BY <1>1, <1>2, <1>3, <1>4, <1>5, <1>6, <1>7, <1>8, <1>9, <1>10, <1>11, <1>12, <1>13, <1>14,
           <1>15, <1>16, <1>17, <1>18, <1>19, <1>20, <1>21, <1>22, <1>23, <1>24
        DEF Next, Issue, Others, Application, Reply, Outcome

-----------------------------------------------------------------------------
(* Consumers.                                                              *)

\* Consumers end, channels are dropped, tags are kept where they matter.
LEMMA ConsumersShrink ==
  ASSUME TypeOK, ConsumersInv, who' = who,
         \A c \in Call : Offered(c)' => channel' = channel,
         \A c \in Call : consumer'[c] # None => consumer'[c] = consumer[c] /\ chan'[consumer[c]] = "up",
         \A c \in Call : pc'[c] = "unused" => pc[c] = "unused",
         \A c \in Call : Offered(c)' =>
           /\ consumerTag[who[c]] = c => consumerTag'[who[c]] = c
           /\ pc[c] = "consume" /\ on[c] = channel => pc'[c] = "consume" /\ on'[c] = channel,
         \A c, d \in Call : pc'[c] = "cancel" /\ on'[c] # None /\ who[d] = who[c] =>
           ~Offered(d)' \/ (pc[c] = "cancel" /\ on[c] # None)
  PROVE  ConsumersInv'
<1>1. \A c \in Call : Offered(c)' => Offered(c) /\ channel' = channel
  BY DEF Offered
<1>2. \A c \in Call : pc'[c] = "unused" => consumer'[c] = None
  BY DEF ConsumersInv
<1>3. \A c \in Call : consumer'[c] # None => chan'[consumer'[c]] = "up"
  OBVIOUS
<1>4. \A c \in Call : Offered(c)' => consumerTag'[who[c]] = c \/ (pc'[c] = "consume" /\ on'[c] = channel')
  BY <1>1 DEF ConsumersInv
<1>5. \A c, d \in Call : pc'[c] = "cancel" /\ on'[c] # None /\ who[d] = who[c] => ~Offered(d)'
  BY <1>1 DEF ConsumersInv
<1> QED BY <1>2, <1>3, <1>4, <1>5 DEF ConsumersInv

\* Consumers, channels and tags stay while one call moves, other than by the
\* answer to consume().
LEMMA ConsumersStay ==
  ASSUME TypeOK, ConsumersInv, NEW c \in Call, pc'[c] # "unused",
         UNCHANGED <<consumer, channel, chan, consumerTag, who>>,
         \A d \in Call \ {c} : pc'[d] = pc[d] /\ on'[d] = on[d],
         pc[c] = "consume" /\ on[c] # None => pc'[c] = "consume" /\ on'[c] = on[c],
         pc'[c] = "cancel" /\ on'[c] # None => pc[c] = "cancel" /\ on[c] # None
  PROVE  ConsumersInv'
<1>1. \A d \in Call : Offered(d)' = Offered(d)
  BY DEF Offered
<1>2. \A d \in Call : consumer'[d] # None => consumer'[d] = consumer[d] /\ chan'[consumer[d]] = "up"
  BY DEF ConsumersInv
<1>3. \A d \in Call : Offered(d) => channel # None
  BY DEF Offered
<1>4. \A d \in Call : channel # None /\ pc[d] = "consume" /\ on[d] = channel => pc'[d] = "consume" /\ on'[d] = channel
  OBVIOUS
<1>5. \A d \in Call : pc'[d] = "cancel" /\ on'[d] # None => pc[d] = "cancel" /\ on[d] # None
  OBVIOUS
<1>6. \A d \in Call : pc'[d] = "unused" => pc[d] = "unused"
  OBVIOUS
<1> HIDE DEF Offered
<1> QED BY <1>1, <1>2, <1>3, <1>4, <1>5, <1>6, ConsumersShrink

\* A channel ends with its consumers.
LEMMA ConsumersEnd ==
  ASSUME TypeOK, ConsumersInv, NEW g \in Chan,
         \A c \in Call : consumer'[c] = IF consumer[c] = g THEN None ELSE consumer[c],
         \A h \in Chan \ {g} : chan'[h] = chan[h]
  PROVE  \A c \in Call : consumer'[c] # None => consumer'[c] = consumer[c] /\ chan'[consumer[c]] = "up"
BY DEF ConsumersInv, TypeOK

\* The calls that await a reply on a channel fail when it ends.
LEMMA ConsumersFail ==
  ASSUME TypeOK, CallsInv, ConsumersInv, NEW g, Fail(Told(g)), channel' = None \/ channel' = channel,
         \A c \in Call : consumer'[c] # None => consumer'[c] = consumer[c] /\ chan'[consumer[c]] = "up",
         g \in Chan => chan'[g] # "up"
  PROVE  ConsumersInv'
<1>1. Told(g) \in SUBSET Call
  BY DEF Told
<1>2. /\ who' = who
      /\ \A c \in Call \ Told(g) : pc'[c] = pc[c] /\ on'[c] = on[c]
      /\ \A c \in Told(g) : pc'[c] \in {"done", "failed"}
      /\ \A w \in Worker : consumerTag'[w] = consumerTag[w] \/ \E f \in Told(g) : pc[f] = "cancel" /\ who[f] = w
  <2> DEFINE F == Told(g)
  <2>1. F \in SUBSET Call /\ Fail(F)
    BY <1>1
  <2> HIDE DEF F
  <2>2. /\ who' = who
        /\ \A c \in Call \ F : pc'[c] = pc[c] /\ on'[c] = on[c]
        /\ \A c \in F : pc'[c] = IF pc[c] = "cancel" THEN "done" ELSE "failed"
    BY <2>1 DEF Fail
  <2>3. \A w \in Worker :
          IF \E f \in F : pc[f] = "cancel" /\ who[f] = w
            THEN consumerTag'[w] = None /\ isConsuming'[w] = FALSE
            ELSE consumerTag'[w] = consumerTag[w] /\ isConsuming'[w] = isConsuming[w]
    BY <2>1, FailTypes
  <2>4. /\ \A c \in F : pc'[c] \in {"done", "failed"}
        /\ \A w \in Worker : consumerTag'[w] = consumerTag[w] \/ \E f \in F : pc[f] = "cancel" /\ who[f] = w
    BY <2>2, <2>3
  <2> USE DEF F
  <2> QED BY <2>2, <2>4
<1>3. \A c \in Call : Offered(c)' => Offered(c) /\ channel' = channel /\ channel # g
  BY <1>2 DEF Offered, TypeOK
<1>4. \A c \in Call : pc'[c] = "unused" => pc[c] = "unused"
  BY <1>2
<1>5. \A c \in Call : Offered(c)' /\ consumerTag[who[c]] = c => consumerTag'[who[c]] = c
  <2>1. ASSUME NEW c \in Call, Offered(c)', consumerTag[who[c]] = c PROVE consumerTag'[who[c]] = c
    <3>1. who[c] \in Worker /\ Offered(c)
      BY <1>3, <2>1 DEF ConsumersInv, CallsInv, Offered
    <3>2. \A f \in Told(g) : pc[f] = "cancel" => who[f] # who[c]
      BY <1>1, <3>1 DEF ConsumersInv, Told
    <3> QED BY <1>2, <2>1, <3>1, <3>2
  <2> QED BY <2>1
<1>6. \A c \in Call : Offered(c)' /\ pc[c] = "consume" /\ on[c] = channel => pc'[c] = "consume" /\ on'[c] = channel
  BY <1>2, <1>3 DEF Told
<1>7. \A c \in Call : pc'[c] = "cancel" => pc[c] = "cancel" /\ on'[c] = on[c]
  BY <1>2
<1> HIDE DEF Offered
<1> QED BY <1>2, <1>3, <1>4, <1>5, <1>6, <1>7, ConsumersShrink

\* A call that begins has no consumer yet.
LEMMA ConsumersBegin ==
  ASSUME TypeOK, ConsumersInv, NEW w \in Worker, NEW stage, NEW events, Begin(w, stage, events),
         UNCHANGED <<consumer, channel, chan, consumerTag>>
  PROVE  ConsumersInv'
<1>1. PICK c \in Call : /\ pc[c] = "unused" /\ who' = [who EXCEPT ![c] = w]
                         /\ pc' = [pc EXCEPT ![c] = stage] /\ on' = on
  BY BeginNew
<1>2. on[c] = None /\ consumer[c] = None
  BY <1>1 DEF TypeOK, Stage, Starting, ConsumersInv
<1>3. \A d \in Call \ {c} : pc'[d] = pc[d] /\ who'[d] = who[d] /\ on'[d] = on[d]
  BY <1>1 DEF TypeOK
<1>4. ~Offered(c)' /\ \A d \in Call \ {c} : Offered(d)' = Offered(d)
  BY <1>2, <1>3 DEF Offered
<1>5. \A b, d \in Call : pc'[b] = "cancel" /\ on'[b] # None /\ who'[d] = who'[b] => ~Offered(d)'
  BY <1>1, <1>2, <1>3, <1>4 DEF ConsumersInv
<1> QED BY <1>1, <1>2, <1>3, <1>4, <1>5 DEF ConsumersInv

\* Every action keeps ConsumersInv.
LEMMA ConsumersStep ==
  ASSUME LifecycleAssumption, TypeOK, CallsInv, ConsumersInv, [Next]_vars
  PROVE  ConsumersInv'
<1>1. ASSUME NEW w \in Worker, Start(w) \/ Stop(w) PROVE ConsumersInv'
  <2>1. \E stage \in {"connect", "cancel"} : Begin(w, stage, {})
    BY <1>1 DEF Start, Stop
  <2>2. UNCHANGED <<consumer, channel, chan, consumerTag>>
    BY <1>1 DEF Start, Stop, broker, links, manager, worker
  <2> QED BY <2>1, <2>2, ConsumersBegin
<1>2. ASSUME NEW w \in Worker, NEW e \in Event, AddHandler(w, e) PROVE ConsumersInv'
  <2>1. UNCHANGED <<consumer, channel, chan, consumerTag>>
    BY <1>2 DEF AddHandler, broker, links, manager
  <2>2. CASE UNCHANGED calls
    BY <2>1, <2>2 DEF ConsumersInv, Offered, calls
  <2>3. CASE Begin(w, "add", {e})
    BY <2>1, <2>3, ConsumersBegin
  <2> QED BY <1>2, <2>2, <2>3 DEF AddHandler
<1>3. ASSUME NEW w \in Worker, NEW e \in Event, RemoveHandler(w, e) PROVE ConsumersInv'
  BY <1>3 DEF RemoveHandler, ConsumersInv, Offered, calls, broker, links, manager
<1> USE DEF TypeOK, Stage, Starting
<1>4. ASSUME NEW c \in Call, Connected(c) PROVE ConsumersInv'
  BY <1>4, ConsumersStay DEF Connected, At, Ready, GoTo, broker, links, manager, worker
<1>5. ASSUME NEW c \in Call, SetPrefetch(c) PROVE ConsumersInv'
  BY <1>5, ConsumersStay DEF SetPrefetch, At, Ready, Send, broker, manager, worker
<1>6. ASSUME NEW c \in Call, AssertExchange(c) PROVE ConsumersInv'
  BY <1>6, ConsumersStay DEF AssertExchange, Declare, At, Ready, GoTo, Send, links, manager, worker
<1>7. ASSUME NEW c \in Call, AssertQueue(c) PROVE ConsumersInv'
  BY <1>7, ConsumersStay DEF AssertQueue, Declare, At, Ready, GoTo, Send, links, manager, worker
<1>8. ASSUME NEW c \in Call, Snapshot(c) PROVE ConsumersInv'
  BY <1>8, ConsumersStay DEF Snapshot, At, Ready, broker, links, manager, worker
<1>a. ASSUME NEW c \in Call, pc[c] \in {"bind", "add", "consume"}, on[c] = None, channel \in Chan, channel # None,
             Send(c), NEW w \in Worker, Refuse(w), UNCHANGED <<channel, consumerTag>>
      PROVE  ConsumersInv'
  <2>1. /\ \A d \in Call : consumer'[d] = IF consumer[d] = channel THEN None ELSE consumer[d]
        /\ chan' = [chan EXCEPT ![channel] = "broken"]
    BY <1>a, ConsumersSet DEF Refuse, NoneOn
  <2>2. \A d \in Call : consumer'[d] # None => consumer'[d] = consumer[d] /\ chan'[consumer[d]] = "up"
    BY <1>a, <2>1, ConsumersEnd
  <2>3. \A d \in Call : ~Offered(d)'
    BY <1>a, <2>1 DEF Offered
  <2>4. who' = who /\ pc' = pc /\ \A d \in Call : pc[d] = "cancel" => on'[d] = on[d]
    BY <1>a DEF Send
  <2> HIDE DEF TypeOK, Stage, Starting
  <2> QED BY <2>2, <2>3, <2>4, ConsumersShrink
<1>9. ASSUME NEW c \in Call, BindQueue(c) PROVE ConsumersInv'
  <2>1. /\ pc[c] \in {"bind", "add"} /\ on[c] = None /\ channel \in Chan /\ channel # None
        /\ Send(c) /\ UNCHANGED <<channel, consumerTag>> /\ who[c] \in Worker
    BY <1>9 DEF BindQueue, At, Ready, manager, worker, CallsInv
  <2>2. CASE Refuse(who[c])
    BY <1>a, <2>1, <2>2
  <2>3. CASE UNCHANGED <<consumer, links>>
    BY <2>1, <2>3, ConsumersStay DEF Send, links
  <2> QED BY <1>9, <2>2, <2>3 DEF BindQueue, broker
<1>10. ASSUME NEW c \in Call, Consume(c) PROVE ConsumersInv'
  <2>1. /\ pc[c] = "consume" /\ on[c] = None /\ channel \in Chan /\ channel # None
        /\ Send(c) /\ UNCHANGED <<channel, consumerTag>> /\ who[c] \in Worker /\ Active(c)
    BY <1>10 DEF Consume, At, Ready, manager, worker, CallsInv
  <2>2. CASE Refuse(who[c])
    BY <1>a, <2>1, <2>2
  <2>3. CASE UNCHANGED <<broker, links>>
    BY <2>1, <2>3, ConsumersStay DEF Send, broker, links
  <2>4. CASE Up /\ consumer' = [consumer EXCEPT ![c] = channel] /\ UNCHANGED links
    <3>1. /\ who' = who /\ pc' = pc /\ chan' = chan /\ on'[c] = channel /\ consumer'[c] = channel
          /\ \A d \in Call \ {c} : on'[d] = on[d] /\ consumer'[d] = consumer[d]
      BY <2>1, <2>4 DEF Send, links
    <3>2. \A d \in Call \ {c} : Offered(d)' = Offered(d)
      BY <2>1, <3>1 DEF Offered
    <3>3. \A b \in Call : pc[b] = "cancel" /\ who[b] = who[c] => who[c] \in Overlapping
      BY <2>1 DEF CallsInv, Active
    <3>4. \A b, d \in Call : pc[b] = "cancel" /\ on'[b] # None /\ who[d] = who[b] => ~Offered(d)'
      <4>1. ASSUME NEW b \in Call, NEW d \in Call, pc[b] = "cancel", on'[b] # None, who[d] = who[b]
            PROVE  ~Offered(d)'
        <5>1. CASE d = c
          BY <3>1, <3>3, <4>1, <5>1 DEF Offered
        <5>2. CASE d # c
          BY <2>1, <3>1, <3>2, <4>1, <5>2 DEF ConsumersInv
        <5> QED BY <5>1, <5>2
      <4> QED BY <4>1
    <3>5. \A d \in Call : consumer'[d] # None => chan[consumer'[d]] = "up"
      BY <2>1, <2>4, <3>1 DEF ConsumersInv, Up
    <3>6. \A d \in Call : Offered(d)' => consumerTag[who[d]] = d \/ (pc[d] = "consume" /\ on'[d] = channel)
      BY <2>1, <3>1, <3>2 DEF ConsumersInv
    <3>7. \A d \in Call : pc[d] = "unused" => consumer'[d] = None
      BY <2>1, <3>1 DEF ConsumersInv
    <3> HIDE DEF TypeOK, Stage, Starting
    <3> QED BY <2>1, <3>1, <3>4, <3>5, <3>6, <3>7 DEF ConsumersInv
  <2> QED BY <1>10, <2>2, <2>3, <2>4 DEF Consume
<1>11. ASSUME NEW c \in Call, Cancel(c) PROVE ConsumersInv'
  <2>1. /\ pc[c] = "cancel" /\ channel \in Chan /\ channel # None /\ Active(c)
        /\ on' = [on EXCEPT ![c] = channel] /\ UNCHANGED <<who, pc, channel, chan, consumerTag>>
    BY <1>11 DEF Cancel, At, Ready, Send, links, manager, worker
  <2>2. \A d \in Call : Offered(d) /\ who[d] = who[c] => consumerTag[who[c]] = d
    BY <2>1 DEF ConsumersInv, CallsInv, Active, Offered
  <2>3. \A d \in Call : consumer'[d] = IF Up /\ d = consumerTag[who[c]] /\ consumer[d] = channel
                                         THEN None ELSE consumer[d]
    BY <1>11, ConsumersSet DEF Cancel, Cancels
  <2>4. ~Up => \A d \in Call : ~Offered(d)
    BY DEF ConsumersInv, Offered, Up
  <2>5. \A d \in Call : Offered(d)' => Offered(d) /\ who[d] # who[c]
    BY <2>1, <2>2, <2>3, <2>4 DEF Offered
  <2>6. \A d \in Call : consumer'[d] # None => consumer'[d] = consumer[d] /\ chan'[consumer[d]] = "up"
    BY <2>1, <2>3 DEF ConsumersInv
  <2>7. \A d \in Call : pc[d] = "consume" => on'[d] = on[d]
    BY <2>1
  <2>8. \A d \in Call : d # c => on'[d] = on[d]
    BY <2>1
  <2> HIDE DEF TypeOK, Stage, Starting
  <2> QED BY <2>1, <2>5, <2>6, <2>7, <2>8, ConsumersShrink
<1>12. ASSUME NEW c \in Call, PrefetchSet(c) PROVE ConsumersInv'
  BY <1>12, ConsumersStay DEF PrefetchSet, Answered, Resume, broker, links, worker
<1>13. ASSUME NEW c \in Call, ExchangeAsserted(c) PROVE ConsumersInv'
  BY <1>13, ConsumersStay DEF ExchangeAsserted, Answered, Resume, broker, links, worker
<1>14. ASSUME NEW c \in Call, QueueAsserted(c) PROVE ConsumersInv'
  BY <1>14, ConsumersStay DEF QueueAsserted, Answered, Resume, broker, links, worker
<1>15. ASSUME NEW c \in Call, QueueBound(c) PROVE ConsumersInv'
  BY <1>15, ConsumersStay DEF QueueBound, Answered, broker, links, manager
<1>16. ASSUME NEW c \in Call, Started(c) PROVE ConsumersInv'
  <2>1. /\ pc[c] = "consume" /\ pc' = [pc EXCEPT ![c] = "done"] /\ on' = [on EXCEPT ![c] = None]
        /\ consumerTag' = [consumerTag EXCEPT ![who[c]] = c]
        /\ UNCHANGED <<who, consumer, chan, channel>> /\ Active(c) /\ who[c] \in Worker
    BY <1>16 DEF Started, Answered, Resume, broker, links, CallsInv, Active
  <2>2. who[c] \notin Overlapping => consumerTag[who[c]] = None
    BY <2>1 DEF CallsInv
  <2>3. \A d \in Call : Offered(d)' = Offered(d)
    BY <2>1 DEF Offered
  <2>4. \A d \in Call : Offered(d) /\ who[d] = who[c] => d = c
    BY <2>1, <2>2, LifecycleAssumption DEF ConsumersInv, CallsInv, Active, Offered
  <2>5. \A d \in Call : Offered(d) => consumerTag'[who[d]] = d \/ (pc'[d] = "consume" /\ on'[d] = channel)
    BY <2>1, <2>4 DEF ConsumersInv
  <2>6. \A d \in Call : /\ pc'[d] = "unused" => pc[d] = "unused"
                        /\ pc'[d] = "cancel" => pc[d] = "cancel" /\ on'[d] = on[d]
    BY <2>1
  <2> HIDE DEF TypeOK, Stage, Starting
  <2> QED BY <2>1, <2>3, <2>5, <2>6 DEF ConsumersInv
<1>17. ASSUME NEW c \in Call, Stopped(c) PROVE ConsumersInv'
  <2>1. /\ pc[c] = "cancel" /\ on[c] # None /\ pc' = [pc EXCEPT ![c] = "done"]
        /\ on' = [on EXCEPT ![c] = None]
        /\ consumerTag' = [w \in Worker |-> IF w = who[c] THEN None ELSE consumerTag[w]]
        /\ UNCHANGED <<who, consumer, chan, channel>>
    BY <1>17 DEF Stopped, Forgotten, Answered, Resume, broker, links
  <2>2. \A d \in Call : Offered(d)' = Offered(d)
    BY <2>1 DEF Offered
  <2>3. \A d \in Call : Offered(d) => who[d] # who[c] /\ who[d] \in Worker
    BY <2>1 DEF ConsumersInv, CallsInv, Offered
  <2>4. \A d \in Call : Offered(d) => consumerTag'[who[d]] = d \/ (pc'[d] = "consume" /\ on'[d] = channel)
    BY <2>1, <2>3 DEF ConsumersInv
  <2>5. \A d \in Call : /\ pc'[d] = "unused" => pc[d] = "unused"
                        /\ pc'[d] = "cancel" => pc[d] = "cancel" /\ on'[d] = on[d]
    BY <2>1
  <2> HIDE DEF TypeOK, Stage, Starting
  <2> QED BY <2>1, <2>2, <2>4, <2>5 DEF ConsumersInv
<1>18. CASE Dial
  <2>1. PICK g \in Chan : chan[g] = "new" /\ chan' = [chan EXCEPT ![g] = "up"] /\ channel' = g
    BY <1>18, FreshSubset DEF Dial
  <2>2. UNCHANGED <<consumer, consumerTag, who, pc, on>>
    BY <1>18 DEF Dial, broker, worker, calls
  <2>3. \A c \in Call : consumer'[c] # None => consumer'[c] = consumer[c] /\ chan'[consumer[c]] = "up"
    BY <2>1, <2>2 DEF ConsumersInv
  <2>4. \A c \in Call : ~Offered(c)'
    BY <2>1, <2>2 DEF ConsumersInv, Offered
  <2> HIDE DEF TypeOK, Stage, Starting
  <2> QED BY <2>2, <2>3, <2>4, ConsumersShrink
<1>19. CASE DialFails
  <2>1. PICK F \in SUBSET Call : Fail(F) /\ \A c \in F : on[c] = None
    BY <1>19 DEF DialFails, Waiting
  <2>2. channel = None /\ channel' = None /\ UNCHANGED <<consumer, chan>>
    BY <1>19 DEF DialFails, Waiting, broker, links
  <2>3. /\ who' = who
        /\ \A c \in Call \ F : pc'[c] = pc[c] /\ on'[c] = on[c]
        /\ \A c \in F : pc'[c] = IF pc[c] = "cancel" THEN "done" ELSE "failed"
    BY <2>1 DEF Fail
  <2>4. \A c \in Call : ~Offered(c)'
    BY <2>2 DEF Offered
  <2>5. \A c \in Call : consumer'[c] # None => consumer'[c] = consumer[c] /\ chan'[consumer[c]] = "up"
    BY <2>2 DEF ConsumersInv
  <2>6. \A c \in Call : pc'[c] = "unused" => pc[c] = "unused"
    BY <2>3
  <2> HIDE DEF TypeOK, Stage, Starting
  <2> QED BY <2>3, <2>4, <2>5, <2>6, ConsumersShrink
<1>20. ASSUME NEW g \in Chan, Break(g) PROVE ConsumersInv'
  <2>1. /\ \A d \in Call : consumer'[d] = IF consumer[d] = g THEN None ELSE consumer[d]
        /\ chan' = [chan EXCEPT ![g] = "broken"] /\ UNCHANGED <<channel, consumerTag, who, pc, on>>
    BY <1>20, ConsumersSet DEF Break, NoneOn, manager, worker, calls
  <2>2. \A d \in Call : consumer'[d] # None => consumer'[d] = consumer[d] /\ chan'[consumer[d]] = "up"
    BY <2>1, ConsumersEnd
  <2> HIDE DEF TypeOK, Stage, Starting
  <2> QED BY <2>1, <2>2, ConsumersShrink
<1>21. ASSUME NEW g \in Chan, End(g) PROVE ConsumersInv'
  <2>1. /\ Fail(Told(g)) /\ channel' = None /\ consumer' = consumer
        /\ chan' = [chan EXCEPT ![g] = "closed"] /\ chan[g] # "up"
    BY <1>21 DEF End, ChannelEnds, ConnectionEnds, ChannelAfter, broker
  <2>2. \A d \in Call : consumer'[d] # None => consumer'[d] = consumer[d] /\ chan'[consumer[d]] = "up"
    BY <2>1 DEF ConsumersInv
  <2>3. chan'[g] # "up"
    BY <2>1
  <2> HIDE DEF TypeOK, Stage, Starting
  <2> QED BY <2>1, <2>2, <2>3, ConsumersFail
<1>22. CASE Close
  <2>1. /\ Fail(Told(connection)) /\ channel' = None
        /\ chan' = [g \in Chan |-> IF g = connection THEN "closed" ELSE chan[g]]
        /\ \A d \in Call : consumer'[d] = IF consumer[d] = connection THEN None ELSE consumer[d]
    BY <1>22, ConsumersSet DEF Close, NoneOn
  <2>2. \A d \in Call : consumer'[d] # None => consumer'[d] = consumer[d] /\ chan'[consumer[d]] = "up"
    BY <2>1 DEF ConsumersInv
  <2>3. connection \in Chan => chan'[connection] # "up"
    BY <2>1
  <2> HIDE DEF TypeOK, Stage, Starting
  <2> QED BY <2>1, <2>2, <2>3, ConsumersFail
<1>23. CASE UNCHANGED vars
  BY <1>23 DEF vars, broker, links, manager, worker, calls, ConsumersInv, Offered
<1> QED BY <1>1, <1>2, <1>3, <1>4, <1>5, <1>6, <1>7, <1>8, <1>9, <1>10, <1>11, <1>12, <1>13, <1>14,
           <1>15, <1>16, <1>17, <1>18, <1>19, <1>20, <1>21, <1>22, <1>23
        DEF Next, Issue, Others, Application, Reply, Outcome

-----------------------------------------------------------------------------
(* Queues.                                                                 *)

\* Queues stay when only those of auto-delete workers go.
LEMMA QueuesStay ==
  ASSUME declared \ AutoDelete \subseteq declared'
  PROVE  \A w : HasQueue(w) => HasQueue(w)'
BY DEF HasQueue

\* One call moves, or none does: whoever comes to need a queue has one.
LEMMA DeclaredMoves ==
  ASSUME TypeOK, CallsInv, DeclaredInv, NEW c \in Call, Active(c),
         \A w : HasQueue(w) => HasQueue(w)',
         who' = who, \A d \in Call \ {c} : pc'[d] = pc[d] /\ on'[d] = on[d],
         \A g \in Chan : chan'[g] = "up" => chan[g] = "up",
         \A w \in setup' \ setup : w \in Worker => HasQueue(w)',
         \/ pc'[c] # "queue" \/ on'[c] = None \/ (pc[c] = "queue" /\ on'[c] = on[c])
         \/ chan'[on'[c]] # "up" \/ HasQueue(who[c])',
         pc'[c] \in {"snapshot", "bind", "consume", "add"} => HasQueue(who[c])',
         \A w \in Worker : isConsuming'[w] => isConsuming[w] \/ HasQueue(w)',
         refused' \ refused \subseteq AutoDelete
  PROVE  DeclaredInv'
<1>1. \A w \in setup' : w \in Worker => HasQueue(w)'
  BY DEF DeclaredInv
<1>2. \A d \in Call : on'[d] # None => on'[d] = on[d] \/ d = c
  OBVIOUS
<1>3. \A d \in Call : pc'[d] = "queue" /\ on'[d] # None /\ chan'[on'[d]] = "up" => HasQueue(who[d])'
  BY DEF DeclaredInv, TypeOK
<1>4. \A d \in Call : pc'[d] \in {"snapshot", "bind", "consume", "add"} => HasQueue(who[d])'
  BY DEF DeclaredInv
<1>5. \A w \in Worker : isConsuming'[w] => HasQueue(w)'
  BY DEF DeclaredInv
<1>6. NeverRefused'
  BY DEF DeclaredInv, NeverRefused
<1> QED BY <1>1, <1>3, <1>4, <1>5, <1>6 DEF DeclaredInv

\* Calls fail, or none does, and queues may go with their consumers.
LEMMA DeclaredFail ==
  ASSUME TypeOK, DeclaredInv, NEW F \in SUBSET Call, Fail(F),
         \A w : HasQueue(w) => HasQueue(w)',
         \A g \in Chan : chan'[g] = "up" => chan[g] = "up",
         setup' \subseteq setup, refused' = refused
  PROVE  DeclaredInv'
<1>1. /\ who' = who
      /\ \A c \in Call \ F : pc'[c] = pc[c] /\ on'[c] = on[c]
      /\ \A c \in F : pc'[c] = IF pc[c] = "cancel" THEN "done" ELSE "failed"
  BY DEF Fail
<1>2. ASSUME NEW w \in Worker, isConsuming'[w] PROVE HasQueue(w)'
  <2>1. \A v \in Worker :
          IF \E f \in F : pc[f] = "cancel" /\ who[f] = v
            THEN consumerTag'[v] = None /\ isConsuming'[v] = FALSE
            ELSE consumerTag'[v] = consumerTag[v] /\ isConsuming'[v] = isConsuming[v]
    BY FailTypes
  <2>2. isConsuming[w]
    BY <1>2, <2>1
  <2> QED BY <2>2 DEF DeclaredInv
<1>3. \A c \in Call : pc'[c] \in {"queue", "snapshot", "bind", "consume", "add"} =>
        pc'[c] = pc[c] /\ on'[c] = on[c]
  BY <1>1
<1>4. \A c \in Call : pc'[c] = "queue" /\ on'[c] # None /\ chan'[on'[c]] = "up" => HasQueue(who[c])'
  BY <1>1, <1>3 DEF DeclaredInv, TypeOK
<1>5. \A c \in Call : pc'[c] \in {"snapshot", "bind", "consume", "add"} => HasQueue(who[c])'
  BY <1>1, <1>3 DEF DeclaredInv
<1>6. \A w \in setup' : w \in Worker => HasQueue(w)'
  BY DEF DeclaredInv
<1>7. NeverRefused'
  BY DEF DeclaredInv, NeverRefused
<1> QED BY <1>2, <1>4, <1>5, <1>6, <1>7 DEF DeclaredInv

\* Every action keeps DeclaredInv.
LEMMA DeclaredStep ==
  ASSUME LifecycleAssumption, TypeOK, CallsInv, DeclaredInv, [Next]_vars
  PROVE  DeclaredInv'
<1>a. declared' = declared => \A w : HasQueue(w) => HasQueue(w)'
  BY DEF HasQueue
<1>b. ASSUME NEW w \in Worker, NEW stage \in {"connect", "cancel", "add"}, NEW events, Begin(w, stage, events),
             UNCHANGED <<broker, links, manager, isConsuming>>, stage = "add" => isConsuming[w]
      PROVE  DeclaredInv'
  <2>1. PICK c \in Call : /\ pc[c] = "unused" /\ who' = [who EXCEPT ![c] = w]
                           /\ pc' = [pc EXCEPT ![c] = stage] /\ on' = on
    BY <1>b, BeginNew
  <2>2. UNCHANGED <<declared, refused, chan, setup, isConsuming>> /\ \A v : HasQueue(v) => HasQueue(v)'
    BY <1>a, <1>b DEF broker, links, manager
  <2>3. stage = "add" => HasQueue(w)'
    BY <1>b, <2>2 DEF DeclaredInv
  <2>4. \A d \in Call \ {c} : pc'[d] = pc[d] /\ who'[d] = who[d]
    BY <2>1 DEF TypeOK
  <2>5. pc'[c] = stage /\ who'[c] = w
    BY <2>1 DEF TypeOK
  <2>6. \A d \in Call : pc'[d] \in {"snapshot", "bind", "consume", "add"} => HasQueue(who[d])'
    BY <2>2, <2>3, <2>4, <2>5 DEF DeclaredInv
  <2>7. \A d \in Call : pc'[d] = "queue" /\ on'[d] # None /\ chan'[on'[d]] = "up" => HasQueue(who[d])'
    BY <2>1, <2>2, <2>4, <2>5 DEF DeclaredInv
  <2> QED BY <2>2, <2>6, <2>7 DEF DeclaredInv, NeverRefused
<1>1. ASSUME NEW w \in Worker, Start(w) \/ Stop(w) PROVE DeclaredInv'
  <2>1. PICK stage \in {"connect", "cancel"} : Begin(w, stage, {})
    BY <1>1 DEF Start, Stop
  <2> QED BY <1>1, <1>b, <2>1 DEF Start, Stop, worker
<1>c. UNCHANGED <<broker, links, manager, isConsuming, calls>> => DeclaredInv'
  BY <1>a DEF DeclaredInv, NeverRefused, broker, links, manager, calls
<1>2. ASSUME NEW w \in Worker, NEW e \in Event, AddHandler(w, e) PROVE DeclaredInv'
  BY <1>2, <1>b, <1>c DEF AddHandler, NeedsBinding
<1>3. ASSUME NEW w \in Worker, NEW e \in Event, RemoveHandler(w, e) PROVE DeclaredInv'
  BY <1>3, <1>c DEF RemoveHandler
<1>d. \A c \in Call : Ready(c) => Active(c)
  BY DEF Ready
<1>e. \A c \in Call : pc[c] \in {"snapshot", "bind", "consume", "add"} => HasQueue(who[c])
  BY DEF DeclaredInv
<1>4. ASSUME NEW c \in Call, Connected(c) PROVE DeclaredInv'
  BY <1>4, <1>a, DeclaredMoves DEF Connected, At, Ready, GoTo, broker, links, manager, worker, TypeOK
<1>5. ASSUME NEW c \in Call, SetPrefetch(c) PROVE DeclaredInv'
  BY <1>5, <1>a, DeclaredMoves DEF SetPrefetch, At, Ready, Send, broker, manager, worker, TypeOK
<1>6. ASSUME NEW c \in Call, AssertExchange(c) PROVE DeclaredInv'
  <2>1. /\ Active(c) /\ pc'[c] \in {"exchange", "queue"}
        /\ pc'[c] = "queue" => on'[c] = None
        /\ declared \subseteq declared' /\ UNCHANGED <<who, refused, links, manager, worker>>
        /\ \A d \in Call \ {c} : pc'[d] = pc[d] /\ on'[d] = on[d]
    BY <1>6 DEF AssertExchange, Declare, At, Ready, GoTo, Send, TypeOK
  <2>2. \A w : HasQueue(w) => HasQueue(w)'
    BY <2>1, QueuesStay
  <2> QED BY <2>1, <2>2, DeclaredMoves DEF links, manager, worker
<1>7. ASSUME NEW c \in Call, AssertQueue(c) PROVE DeclaredInv'
  <2>1. /\ Active(c) /\ declared \subseteq declared' /\ UNCHANGED <<who, refused, links, manager, worker>>
        /\ \A d \in Call \ {c} : pc'[d] = pc[d] /\ on'[d] = on[d]
        /\ pc[c] = "queue" /\ on[c] = None /\ channel # None
    BY <1>7 DEF AssertQueue, Declare, At, Ready, GoTo, Send, TypeOK
  <2>2. \A w : HasQueue(w) => HasQueue(w)'
    BY <2>1, QueuesStay
  <2>3. who[c] \in Worker
    BY <2>1 DEF CallsInv
  <2>4. CASE who[c] \in setup /\ pc' = [pc EXCEPT ![c] = "snapshot"] /\ UNCHANGED on
    <3>1. HasQueue(who[c])' /\ pc'[c] = "snapshot"
      BY <2>1, <2>2, <2>3, <2>4 DEF DeclaredInv, TypeOK
    <3> QED BY <2>1, <2>2, <2>4, <3>1, DeclaredMoves DEF links, manager, worker
  <2>5. CASE declared' = (IF Up THEN declared \cup {who[c]} ELSE declared)
             /\ on' = [on EXCEPT ![c] = channel] /\ UNCHANGED pc
    <3>1. on'[c] = channel /\ pc'[c] = "queue" /\ chan' = chan
      BY <2>1, <2>5 DEF TypeOK, links
    <3>2. chan[channel] = "up" => HasQueue(who[c])'
      BY <2>1, <2>5 DEF HasQueue, Up
    <3> QED BY <2>1, <2>2, <3>1, <3>2, DeclaredMoves DEF links, manager, worker
  <2> QED BY <1>7, <2>4, <2>5 DEF AssertQueue, Declare, IsSetUp, GoTo, Send
<1>8. ASSUME NEW c \in Call, Snapshot(c) PROVE DeclaredInv'
  <2>1. /\ pc[c] = "snapshot" /\ Active(c) /\ pc'[c] \in {"failed", "bind"} /\ on' = on
        /\ \A d \in Call \ {c} : pc'[d] = pc[d]
        /\ UNCHANGED <<who, broker, links, manager, worker>>
    BY <1>8 DEF Snapshot, At, Ready, TypeOK
  <2>2. declared' = declared /\ HasQueue(who[c])
    BY <1>e, <2>1 DEF broker
  <2> QED BY <1>a, <2>1, <2>2, DeclaredMoves DEF broker, links, manager, worker
<1>f. ASSUME NEW c \in Call, NEW stage \in {"bind", "add", "consume", "cancel"}, At(c, stage), Send(c),
             UNCHANGED manager, UNCHANGED worker,
             chan' = chan \/ chan' = [chan EXCEPT ![channel] = "broken"],
             refused' \ refused \subseteq AutoDelete, \A w : HasQueue(w) => HasQueue(w)'
      PROVE  DeclaredInv'
  <2>1. /\ Active(c) /\ pc' = pc /\ who' = who /\ pc[c] # "queue" /\ isConsuming' = isConsuming
        /\ setup' = setup /\ \A d \in Call \ {c} : on'[d] = on[d]
    BY <1>f DEF At, Ready, Send, manager, worker
  <2>2. \A g \in Chan : chan'[g] = "up" => chan[g] = "up"
    BY <1>f DEF TypeOK
  <2> QED BY <1>e, <1>f, <2>1, <2>2, DeclaredMoves
<1>g. ASSUME NEW c \in Call, pc[c] \in {"bind", "add", "consume"}, Refuse(who[c]), who[c] \notin declared
      PROVE  /\ refused' \ refused \subseteq AutoDelete /\ \A w : HasQueue(w) => HasQueue(w)'
             /\ chan' = [chan EXCEPT ![channel] = "broken"]
  <2>1. who[c] \in AutoDelete
    BY <1>e, <1>g DEF HasQueue
  <2> QED BY <1>g, <2>1, ConsumersSet, QueuesStay DEF Refuse
<1>9. ASSUME NEW c \in Call, BindQueue(c) PROVE DeclaredInv'
  <2>1. (At(c, "bind") \/ At(c, "add")) /\ Send(c) /\ UNCHANGED manager /\ UNCHANGED worker
        /\ pc[c] \in {"bind", "add", "consume"}
    BY <1>9 DEF BindQueue, At
  <2>2. CASE Refuse(who[c]) /\ who[c] \notin declared
    BY <1>f, <1>g, <2>1, <2>2
  <2>3. CASE UNCHANGED <<declared, refused, links>>
    BY <1>a, <1>f, <2>1, <2>3 DEF links
  <2> QED BY <1>9, <2>2, <2>3 DEF BindQueue, broker
<1>10. ASSUME NEW c \in Call, Consume(c) PROVE DeclaredInv'
  <2>1. At(c, "consume") /\ Send(c) /\ UNCHANGED manager /\ UNCHANGED worker
        /\ pc[c] \in {"bind", "add", "consume"}
    BY <1>10 DEF Consume, At
  <2>2. CASE Refuse(who[c]) /\ who[c] \notin declared
    BY <1>f, <1>g, <2>1, <2>2
  <2>3. CASE UNCHANGED <<declared, refused, links>>
    BY <1>a, <1>f, <2>1, <2>3 DEF links
  <2> QED BY <1>10, <2>2, <2>3 DEF Consume, broker
<1>11. ASSUME NEW c \in Call, Cancel(c) PROVE DeclaredInv'
  <2>1. At(c, "cancel") /\ Send(c) /\ UNCHANGED refused /\ UNCHANGED links
        /\ UNCHANGED manager /\ UNCHANGED worker
    BY <1>11 DEF Cancel
  <2>2. declared \ AutoDelete \subseteq declared'
    BY <1>11, ConsumersSet DEF Cancel
  <2> QED BY <1>f, <2>1, <2>2, QueuesStay DEF links
<1>12. ASSUME NEW c \in Call, PrefetchSet(c) PROVE DeclaredInv'
  BY <1>12, <1>a, DeclaredMoves DEF PrefetchSet, Answered, Resume, Active, Stage, Starting, broker, links, worker, TypeOK
<1>13. ASSUME NEW c \in Call, ExchangeAsserted(c) PROVE DeclaredInv'
  BY <1>13, <1>a, DeclaredMoves, LifecycleAssumption
     DEF ExchangeAsserted, Answered, Resume, Active, Stage, Starting, broker, links, worker, TypeOK
<1>14. ASSUME NEW c \in Call, QueueAsserted(c) PROVE DeclaredInv'
  <2>1. /\ Active(c) /\ pc'[c] = "snapshot" /\ \A d \in Call \ {c} : pc'[d] = pc[d] /\ on'[d] = on[d]
        /\ UNCHANGED <<who, broker, links, worker>> /\ setup' = setup \cup {who[c]}
        /\ pc[c] = "queue" /\ on[c] # None /\ chan[on[c]] = "up"
    BY <1>14 DEF QueueAsserted, Answered, Resume, Active, Stage, Starting, TypeOK
  <2>2. HasQueue(who[c])' /\ declared' = declared
    BY <1>a, <2>1 DEF DeclaredInv, broker
  <2> QED BY <1>a, <2>1, <2>2, DeclaredMoves DEF broker, links, worker
<1>15. ASSUME NEW c \in Call, QueueBound(c) PROVE DeclaredInv'
  <2>1. /\ Active(c) /\ pc'[c] \in {"done", "consume", "bind"}
        /\ pc[c] \in {"bind", "add"} /\ \A d \in Call \ {c} : pc'[d] = pc[d] /\ on'[d] = on[d]
        /\ UNCHANGED <<who, broker, links, manager, isConsuming>>
    BY <1>15 DEF QueueBound, Answered, Active, Stage, Starting, TypeOK
  <2>2. HasQueue(who[c])' /\ declared' = declared
    BY <1>a, <1>e, <2>1 DEF broker
  <2> QED BY <1>a, <2>1, <2>2, DeclaredMoves DEF broker, links, manager
<1>16. ASSUME NEW c \in Call, Started(c) PROVE DeclaredInv'
  <2>1. /\ Active(c) /\ pc'[c] = "done" /\ pc[c] = "consume"
        /\ \A d \in Call \ {c} : pc'[d] = pc[d] /\ on'[d] = on[d]
        /\ UNCHANGED <<who, broker, links, manager>>
        /\ isConsuming' = [isConsuming EXCEPT ![who[c]] = TRUE]
    BY <1>16 DEF Started, Answered, Resume, Active, Stage, Starting, TypeOK, manager
  <2>2. HasQueue(who[c])' /\ declared' = declared
    BY <1>a, <1>e, <2>1 DEF broker
  <2>3. \A w \in Worker : isConsuming'[w] => isConsuming[w] \/ HasQueue(w)'
    BY <2>1, <2>2 DEF TypeOK
  <2> QED BY <1>a, <2>1, <2>2, <2>3, DeclaredMoves DEF broker, links, manager
<1>17. ASSUME NEW c \in Call, Stopped(c) PROVE DeclaredInv'
  <2>1. /\ Active(c) /\ pc'[c] = "done"
        /\ \A d \in Call \ {c} : pc'[d] = pc[d] /\ on'[d] = on[d]
        /\ UNCHANGED <<who, broker, links, manager>>
    BY <1>17 DEF Stopped, Answered, Resume, Active, Stage, Starting, TypeOK, manager
  <2>2. \A w \in Worker : isConsuming'[w] => isConsuming[w]
    BY <1>17 DEF Stopped, Forgotten
  <2> QED BY <1>a, <2>1, <2>2, DeclaredMoves DEF broker, links, manager
<1>18. CASE Dial
  <2>1. PICK g \in Chan : chan[g] = "new" /\ chan' = [chan EXCEPT ![g] = "up"]
    BY <1>18, FreshSubset DEF Dial
  <2>2. UNCHANGED <<broker, setup, worker, calls>>
    BY <1>18 DEF Dial
  <2>3. \A c \in Call : on[c] # None /\ chan'[on[c]] = "up" => chan[on[c]] = "up"
    BY <2>1 DEF TypeOK
  <2> QED BY <1>a, <2>2, <2>3 DEF DeclaredInv, NeverRefused, broker, worker, calls
<1>19. CASE DialFails
  <2>1. PICK F \in SUBSET Call : Fail(F) /\ UNCHANGED <<broker, links, setup>>
    BY <1>19 DEF DialFails
  <2> QED BY <1>a, <2>1, DeclaredFail DEF broker, links
<1>20. ASSUME NEW g \in Chan, Break(g) PROVE DeclaredInv'
  <2>1. \A w : HasQueue(w) => HasQueue(w)'
    BY <1>20, ConsumersSet, QueuesStay DEF Break
  <2>2. \A h \in Chan : chan'[h] = "up" => chan[h] = "up"
    BY <1>20 DEF Break, TypeOK
  <2> QED BY <1>20, <2>1, <2>2 DEF Break, DeclaredInv, NeverRefused, TypeOK, manager, worker, calls
<1>21. ASSUME NEW g \in Chan, End(g) PROVE DeclaredInv'
  <2>1. Told(g) \in SUBSET Call /\ Fail(Told(g)) /\ declared' = declared /\ refused' = refused
        /\ setup' \subseteq setup /\ chan' = [chan EXCEPT ![g] = "closed"]
    BY <1>21 DEF End, ChannelEnds, ConnectionEnds, Told, broker
  <2>2. \A h \in Chan : chan'[h] = "up" => chan[h] = "up"
    BY <2>1 DEF TypeOK
  <2> QED BY <1>a, <2>1, <2>2, DeclaredFail
<1>22. CASE Close
  <2>1. Told(connection) \in SUBSET Call /\ Fail(Told(connection)) /\ refused' = refused
        /\ setup' \subseteq setup
    BY <1>22 DEF Close, Told
  <2>2. \A h \in Chan : chan'[h] = "up" => chan[h] = "up"
    BY <1>22 DEF Close, TypeOK
  <2>3. \A w : HasQueue(w) => HasQueue(w)'
    BY <1>22, ConsumersSet, QueuesStay DEF Close
  <2> QED BY <2>1, <2>2, <2>3, DeclaredFail
<1>23. CASE UNCHANGED vars
  BY <1>23, <1>c DEF vars, worker
<1> QED BY <1>1, <1>2, <1>3, <1>4, <1>5, <1>6, <1>7, <1>8, <1>9, <1>10, <1>11, <1>12, <1>13, <1>14,
           <1>15, <1>16, <1>17, <1>18, <1>19, <1>20, <1>21, <1>22, <1>23
        DEF Next, Issue, Others, Application, Reply, Outcome

-----------------------------------------------------------------------------
(* Bindings.                                                               *)

\* Bindings of the queues that cannot delete themselves are kept.
KeepsBindings == \A b \in bound : b[1] \notin AutoDelete => b \in bound'

\* One call moves, and neither handlers nor boundEvents change.
LEMMA BindingsMove ==
  ASSUME TypeOK, CallsInv, BindingsInv, NEW c \in Call, Active(c),
         KeepsBindings, UNCHANGED <<who, handlers, boundEvents>>,
         \A d \in Call \ {c} : pc'[d] = pc[d] /\ on'[d] = on[d] /\ todo'[d] = todo[d],
         \A g \in Chan : chan'[g] = "up" => chan[g] = "up",
         pc'[c] \in {"bind", "add"} =>
           \/ on'[c] = None \/ chan'[on'[c]] # "up"
           \/ who[c] \notin AutoDelete => <<who[c], Binding(c)>> \in bound' /\ todo'[c] = todo[c],
         pc'[c] = "bind" /\ who[c] \notin Overlapping =>
           handlers[who[c]] \subseteq boundEvents[who[c]] \cup todo'[c],
         pc'[c] = "consume" /\ who[c] \notin Overlapping => handlers[who[c]] \subseteq boundEvents[who[c]],
         pc[c] = "add" => pc'[c] = "add" /\ todo'[c] = todo[c],
         \A w \in Worker \ Overlapping :
           isConsuming'[w] => isConsuming[w] \/ handlers[w] \subseteq boundEvents[w]
  PROVE  BindingsInv'
<1>1. \A w \in Worker \ AutoDelete : \A e \in boundEvents'[w] : <<w, e>> \in bound'
  BY DEF BindingsInv, KeepsBindings
<1>2. ASSUME NEW d \in Call, pc'[d] \in {"bind", "add"}, on'[d] # None, chan'[on'[d]] = "up",
             who[d] \notin AutoDelete
      PROVE  <<who[d], Binding(d)>> \in bound' /\ todo'[d] = todo[d]
  <2>1. CASE d = c
    BY <1>2, <2>1
  <2>2. CASE d # c
    <3>1. <<who[d], Binding(d)>> \in bound
      BY <1>2, <2>2 DEF BindingsInv, TypeOK
    <3> QED BY <1>2, <2>2, <3>1 DEF KeepsBindings
  <2> QED BY <2>1, <2>2
<1>3. \A d \in Call : pc'[d] = "bind" /\ who'[d] \notin Overlapping =>
        handlers'[who'[d]] \subseteq boundEvents'[who'[d]] \cup todo'[d]
  BY DEF BindingsInv
<1>4. \A d \in Call : pc'[d] = "consume" /\ who'[d] \notin Overlapping =>
        handlers'[who'[d]] \subseteq boundEvents'[who'[d]]
  BY DEF BindingsInv
<1>5. ASSUME NEW w \in Worker \ Overlapping, isConsuming'[w] PROVE handlers'[w] \subseteq boundEvents'[w] \cup Pending(w)'
  <2>1. \A d \in Call : pc[d] \in {"add", "failed"} => pc'[d] = pc[d] /\ todo'[d] = todo[d]
    BY DEF Active, Stage, Starting
  <2>2. Pending(w) \subseteq Pending(w)'
    BY <2>1 DEF Pending
  <2> QED BY <1>5, <2>2 DEF BindingsInv
<1>6. \A d \in Call : /\ pc'[d] \in {"bind", "add"} /\ on'[d] # None /\ chan'[on'[d]] = "up"
                      /\ who'[d] \notin AutoDelete
                      => <<who[d], Binding(d)>>' \in bound'
  BY <1>2 DEF Binding
<1> QED BY <1>1, <1>3, <1>4, <1>5, <1>6 DEF BindingsInv

\* Calls fail; a failed addHandler() keeps its event on its list.
LEMMA BindingsFail ==
  ASSUME TypeOK, BindingsInv, NEW F \in SUBSET Call, Fail(F), \A c \in F : Active(c), KeepsBindings,
         \A g \in Chan : chan'[g] = "up" => chan[g] = "up"
  PROVE  BindingsInv'
<1>1. /\ who' = who /\ handlers' = handlers /\ boundEvents' = boundEvents
      /\ \A c \in Call \ F : pc'[c] = pc[c] /\ on'[c] = on[c] /\ todo'[c] = todo[c]
      /\ \A c \in F : /\ pc'[c] = IF pc[c] = "cancel" THEN "done" ELSE "failed"
                      /\ todo'[c] = IF pc[c] = "add" THEN todo[c] ELSE {}
  BY DEF Fail, Forgotten, TypeOK
<1>2. \A c \in Call : pc'[c] \in {"bind", "add", "consume"} =>
        pc'[c] = pc[c] /\ on'[c] = on[c] /\ todo'[c] = todo[c]
  BY <1>1
<1>3. \A w \in Worker \ AutoDelete : \A e \in boundEvents'[w] : <<w, e>> \in bound'
  BY <1>1 DEF BindingsInv, KeepsBindings
<1>4. ASSUME NEW c \in Call, pc'[c] \in {"bind", "add"}, on'[c] # None, chan'[on'[c]] = "up",
             who'[c] \notin AutoDelete
      PROVE  <<who[c], Binding(c)>>' \in bound'
  <2>1. <<who[c], Binding(c)>> \in bound
    BY <1>1, <1>2, <1>4 DEF BindingsInv, TypeOK
  <2>2. <<who[c], Binding(c)>> \in bound'
    BY <1>1, <1>4, <2>1 DEF KeepsBindings
  <2> QED BY <1>1, <1>2, <1>4, <2>2 DEF Binding
<1>5. \A c \in Call : pc'[c] = "bind" /\ who'[c] \notin Overlapping =>
        handlers'[who'[c]] \subseteq boundEvents'[who'[c]] \cup todo'[c]
  BY <1>1, <1>2 DEF BindingsInv
<1>6. \A c \in Call : pc'[c] = "consume" /\ who'[c] \notin Overlapping =>
        handlers'[who'[c]] \subseteq boundEvents'[who'[c]]
  BY <1>1, <1>2 DEF BindingsInv
<1>7. ASSUME NEW w \in Worker \ Overlapping, isConsuming'[w] PROVE handlers'[w] \subseteq boundEvents'[w] \cup Pending(w)'
  <2>1. \A v \in Worker :
          IF \E f \in F : pc[f] = "cancel" /\ who[f] = v
            THEN consumerTag'[v] = None /\ isConsuming'[v] = FALSE
            ELSE consumerTag'[v] = consumerTag[v] /\ isConsuming'[v] = isConsuming[v]
    BY FailTypes
  <2>2. isConsuming[w]
    BY <1>7, <2>1
  <2>3. \A e \in Pending(w) : e \in Pending(w)'
    <3>1. \A c \in Call : pc[c] \in {"add", "failed"} =>
            pc'[c] \in {"add", "failed"} /\ todo'[c] = todo[c]
      BY <1>1 DEF Active, Stage, Starting
    <3> QED BY <1>1, <3>1 DEF Pending
  <2> QED BY <1>1, <2>2, <2>3 DEF BindingsInv
<1> QED BY <1>3, <1>4, <1>5, <1>6, <1>7 DEF BindingsInv

\* Every action keeps BindingsInv.
LEMMA BindingsStep ==
  ASSUME LifecycleAssumption, TypeOK, CallsInv, BindingsInv, [Next]_vars
  PROVE  BindingsInv'
<1>a. bound' = bound => KeepsBindings
  BY DEF KeepsBindings
<1>b. ASSUME NEW cs, SetConsumers(cs) PROVE KeepsBindings
  BY <1>b, ConsumersSet DEF KeepsBindings
<1>c. ASSUME NEW w \in Worker, NEW stage \in {"connect", "cancel", "add"}, NEW events, Begin(w, stage, events),
             UNCHANGED <<bound, chan, boundEvents, isConsuming>>,
             \A v \in Worker \ Overlapping : isConsuming[v] => \A e \in handlers'[v] :
               e \in boundEvents[v] \cup Pending(v) \/ (v = w /\ stage = "add" /\ e \in events),
             handlers' \in [Worker -> SUBSET Event],
             \A v \in Worker \ {w} : handlers'[v] = handlers[v], Free(w)
      PROVE  BindingsInv'
  <2>1. PICK c \in Call : /\ pc[c] = "unused" /\ who' = [who EXCEPT ![c] = w]
                           /\ pc' = [pc EXCEPT ![c] = stage] /\ on' = on
                           /\ todo' = [todo EXCEPT ![c] = events]
    BY <1>c, BeginNew
  <2>2. \A d \in Call \ {c} : pc'[d] = pc[d] /\ who'[d] = who[d] /\ todo'[d] = todo[d]
    BY <2>1 DEF TypeOK
  <2>3. pc'[c] = stage /\ who'[c] = w /\ todo'[c] = events /\ on'[c] = None
    BY <2>1 DEF TypeOK, Stage, Starting
  <2>4. \A d \in Call : pc'[d] \in {"bind", "consume"} /\ who'[d] \notin Overlapping =>
          d # c /\ handlers'[who'[d]] = handlers[who[d]]
    BY <1>c, <2>2, <2>3 DEF Free, Busy, Active, Stage, Starting, CallsInv
  <2>5. \A w1 \in Worker \ AutoDelete : \A e \in boundEvents'[w1] : <<w1, e>> \in bound'
    BY <1>c DEF BindingsInv
  <2>6. ASSUME NEW d \in Call, pc'[d] \in {"bind", "add"}, on'[d] # None, chan'[on'[d]] = "up",
               who'[d] \notin AutoDelete
        PROVE  <<who[d], Binding(d)>>' \in bound'
    <3>1. d # c
      BY <2>3, <2>6
    <3>2. <<who[d], Binding(d)>> \in bound
      BY <1>c, <2>1, <2>2, <2>6, <3>1 DEF BindingsInv
    <3>3. who'[d] = who[d] /\ todo'[d] = todo[d] /\ bound' = bound
      BY <1>c, <2>2, <3>1
    <3> QED BY <3>2, <3>3 DEF Binding
  <2>7. \A d \in Call : pc'[d] = "bind" /\ who'[d] \notin Overlapping =>
          handlers'[who'[d]] \subseteq boundEvents'[who'[d]] \cup todo'[d]
    BY <1>c, <2>2, <2>4 DEF BindingsInv
  <2>8. \A d \in Call : pc'[d] = "consume" /\ who'[d] \notin Overlapping =>
          handlers'[who'[d]] \subseteq boundEvents'[who'[d]]
    BY <1>c, <2>2, <2>4 DEF BindingsInv
  <2>9. ASSUME NEW v \in Worker \ Overlapping, isConsuming'[v] PROVE handlers'[v] \subseteq boundEvents'[v] \cup Pending(v)'
    <3>1. \A e \in Pending(v) : e \in Pending(v)'
      BY <2>1, <2>2 DEF Pending
    <3>2. v = w /\ stage = "add" => \A e \in events : e \in Event => e \in Pending(v)'
      BY <2>3 DEF Pending
    <3>3. isConsuming[v] /\ boundEvents' = boundEvents
      BY <1>c, <2>9
    <3> QED BY <1>c, <3>1, <3>2, <3>3
  <2> QED BY <2>5, <2>6, <2>7, <2>8, <2>9 DEF BindingsInv
<1>1. ASSUME NEW w \in Worker, Start(w) \/ Stop(w) PROVE BindingsInv'
  <2>1. PICK stage \in {"connect", "cancel"} : Begin(w, stage, {})
    BY <1>1 DEF Start, Stop
  <2>2. Free(w) /\ UNCHANGED <<bound, chan, boundEvents, isConsuming, handlers>>
    BY <1>1 DEF Start, Stop, broker, links, worker
  <2>3. handlers' \in [Worker -> SUBSET Event] /\ \A v \in Worker \ {w} : handlers'[v] = handlers[v]
    BY <2>2 DEF TypeOK
  <2>4. \A v \in Worker \ Overlapping : isConsuming[v] => \A e \in handlers'[v] : e \in boundEvents[v] \cup Pending(v)
    BY <2>2 DEF BindingsInv
  <2> QED BY <1>c, <2>1, <2>2, <2>3, <2>4
<1>2. ASSUME NEW w \in Worker, NEW e \in Event, AddHandler(w, e) PROVE BindingsInv'
  <2>1. /\ Free(w) /\ handlers' = [handlers EXCEPT ![w] = @ \cup {e}]
        /\ UNCHANGED <<bound, chan, boundEvents, isConsuming>>
    BY <1>2 DEF AddHandler, broker, links
  <2>2. handlers' \in [Worker -> SUBSET Event] /\ handlers'[w] = handlers[w] \cup {e}
        /\ \A v \in Worker \ {w} : handlers'[v] = handlers[v]
    BY <2>1 DEF TypeOK
  <2>3. CASE NeedsBinding(w, e) /\ Begin(w, "add", {e})
    <3>1. \A v \in Worker \ Overlapping : isConsuming[v] => handlers[v] \subseteq boundEvents[v] \cup Pending(v)
      BY DEF BindingsInv
    <3>2. \A v \in Worker \ Overlapping : isConsuming[v] => \A f \in handlers'[v] :
            f \in boundEvents[v] \cup Pending(v) \/ (v = w /\ f \in {e})
      BY <2>2, <3>1
    <3> QED BY <1>c, <2>1, <2>2, <2>3, <3>2
  <2>4. CASE ~NeedsBinding(w, e) /\ UNCHANGED calls
    <3>1. \A d \in Call : pc[d] \in {"bind", "consume"} /\ who[d] \notin Overlapping =>
            handlers'[who[d]] = handlers[who[d]]
      BY <2>1, <2>2 DEF Free, Busy, Active, Stage, Starting, CallsInv
    <3>2. \A v \in Worker \ Overlapping : isConsuming'[v] => handlers'[v] \subseteq boundEvents'[v] \cup Pending(v)'
      BY <2>1, <2>2, <2>4 DEF BindingsInv, NeedsBinding, Pending, calls
    <3>3. UNCHANGED <<bound, chan, boundEvents, who, pc, on, todo>>
      BY <2>1, <2>4 DEF calls
    <3>4. \A d \in Call : who'[d] \notin Overlapping =>
            /\ pc'[d] = "bind" => handlers'[who'[d]] \subseteq boundEvents'[who'[d]] \cup todo'[d]
            /\ pc'[d] = "consume" => handlers'[who'[d]] \subseteq boundEvents'[who'[d]]
      BY <3>1, <3>3 DEF BindingsInv
    <3> QED BY <3>2, <3>3, <3>4 DEF BindingsInv, Binding
  <2> QED BY <1>2, <2>3, <2>4 DEF AddHandler
<1>3. ASSUME NEW w \in Worker, NEW e \in Event, RemoveHandler(w, e) PROVE BindingsInv'
  <2>1. \A v \in Worker : handlers'[v] \subseteq handlers[v]
    BY <1>3 DEF RemoveHandler, TypeOK
  <2>2. UNCHANGED <<bound, chan, boundEvents, isConsuming, who, pc, on, todo>>
    BY <1>3 DEF RemoveHandler, broker, links, calls
  <2>3. \A d \in Call : pc[d] \in {"bind", "consume"} => handlers'[who[d]] \subseteq handlers[who[d]]
    BY <2>1 DEF CallsInv
  <2>4. \A v \in Worker \ Overlapping : isConsuming'[v] => handlers'[v] \subseteq boundEvents'[v] \cup Pending(v)'
    <3>1. \A v \in Worker \ Overlapping : isConsuming[v] => handlers[v] \subseteq boundEvents[v] \cup Pending(v)
      BY DEF BindingsInv
    <3>2. \A v : Pending(v)' = Pending(v)
      BY <2>2 DEF Pending
    <3> QED BY <2>1, <2>2, <3>1, <3>2
  <2>5. \A d \in Call : who'[d] \notin Overlapping =>
          /\ pc'[d] = "bind" => handlers'[who'[d]] \subseteq boundEvents'[who'[d]] \cup todo'[d]
          /\ pc'[d] = "consume" => handlers'[who'[d]] \subseteq boundEvents'[who'[d]]
    <3>1. \A d \in Call : who[d] \notin Overlapping =>
            /\ pc[d] = "bind" => handlers[who[d]] \subseteq boundEvents[who[d]] \cup todo[d]
            /\ pc[d] = "consume" => handlers[who[d]] \subseteq boundEvents[who[d]]
      BY DEF BindingsInv
    <3> QED BY <2>2, <2>3, <3>1
  <2> QED BY <2>2, <2>4, <2>5 DEF BindingsInv, Binding
<1>d. \A c \in Call : Ready(c) => Active(c)
  BY DEF Ready
<1>4. ASSUME NEW c \in Call, Connected(c) PROVE BindingsInv'
  BY <1>4, <1>a, BindingsMove DEF Connected, At, Ready, GoTo, broker, links, manager, worker, TypeOK
<1>5. ASSUME NEW c \in Call, SetPrefetch(c) PROVE BindingsInv'
  BY <1>5, <1>a, BindingsMove DEF SetPrefetch, At, Ready, Send, broker, manager, worker, TypeOK
<1>6. ASSUME NEW c \in Call, AssertExchange(c) PROVE BindingsInv'
  <2>1. /\ pc[c] = "exchange" /\ Active(c) /\ pc'[c] \in {"exchange", "queue"}
        /\ \A d \in Call \ {c} : pc'[d] = pc[d] /\ on'[d] = on[d]
        /\ UNCHANGED <<who, todo, bound, links, manager, worker>>
    BY <1>6 DEF AssertExchange, Declare, At, Ready, GoTo, Send, TypeOK
  <2> QED BY <1>a, <2>1, BindingsMove DEF links, worker
<1>7. ASSUME NEW c \in Call, AssertQueue(c) PROVE BindingsInv'
  <2>1. /\ pc[c] = "queue" /\ Active(c) /\ pc'[c] \in {"queue", "snapshot"}
        /\ \A d \in Call \ {c} : pc'[d] = pc[d] /\ on'[d] = on[d]
        /\ UNCHANGED <<who, todo, bound, links, manager, worker>>
    BY <1>7 DEF AssertQueue, Declare, At, Ready, GoTo, Send, TypeOK
  <2> QED BY <1>a, <2>1, BindingsMove DEF links, worker
<1>8. ASSUME NEW c \in Call, Snapshot(c) PROVE BindingsInv'
  <2>1. /\ pc[c] = "snapshot" /\ Active(c) /\ pc'[c] \in {"failed", "bind"} /\ on' = on /\ on[c] = None
        /\ todo'[c] = handlers[who[c]] /\ \A d \in Call \ {c} : pc'[d] = pc[d] /\ todo'[d] = todo[d]
        /\ UNCHANGED <<who, broker, links, manager, worker>>
    BY <1>8 DEF Snapshot, At, Ready, TypeOK
  <2> QED BY <1>a, <2>1, BindingsMove DEF broker, links, manager, worker
<1>e. \A c \in Call : who[c] \notin Overlapping =>
        /\ pc[c] = "bind" => handlers[who[c]] \subseteq boundEvents[who[c]] \cup todo[c]
        /\ pc[c] = "consume" => handlers[who[c]] \subseteq boundEvents[who[c]]
  BY DEF BindingsInv
<1>9. ASSUME NEW c \in Call, BindQueue(c) PROVE BindingsInv'
  <2>1. /\ Active(c) /\ pc' = pc /\ todo' = todo /\ who' = who /\ on'[c] = channel
        /\ \A d \in Call \ {c} : on'[d] = on[d]
        /\ UNCHANGED <<handlers, boundEvents, isConsuming>>
    BY <1>9 DEF BindQueue, At, Ready, Send, worker, TypeOK
  <2>2. CASE Refuse(who[c])
    <3>1. KeepsBindings /\ chan' = [chan EXCEPT ![channel] = "broken"]
      BY <1>b, <2>2 DEF Refuse
    <3>2. chan'[on'[c]] # "up" /\ \A g \in Chan : chan'[g] = "up" => chan[g] = "up"
      BY <1>9, <2>1, <3>1 DEF TypeOK, BindQueue, At, Ready
    <3> QED BY <1>e, <2>1, <3>1, <3>2, BindingsMove
  <2>3. CASE bound' = bound \cup {<<who[c], Binding(c)>>} /\ UNCHANGED links
    <3>1. KeepsBindings /\ chan' = chan /\ <<who[c], Binding(c)>> \in bound'
      BY <2>3 DEF KeepsBindings, links
    <3> QED BY <1>e, <2>1, <3>1, BindingsMove
  <2>4. CASE ~Up /\ UNCHANGED <<broker, links>>
    <3>1. KeepsBindings /\ chan' = chan /\ chan[channel] # "up"
      BY <1>a, <2>4 DEF broker, links, Up
    <3> QED BY <1>e, <2>1, <3>1, BindingsMove
  <2> QED BY <1>9, <2>2, <2>3, <2>4 DEF BindQueue
<1>10. ASSUME NEW c \in Call, Consume(c) PROVE BindingsInv'
  <2>1. /\ Active(c) /\ pc' = pc /\ todo' = todo /\ who' = who /\ pc[c] = "consume"
        /\ \A d \in Call \ {c} : on'[d] = on[d]
        /\ UNCHANGED <<handlers, boundEvents, isConsuming>>
    BY <1>10 DEF Consume, At, Ready, Send, worker, TypeOK
  <2>2. CASE Refuse(who[c])
    <3>1. KeepsBindings /\ \A g \in Chan : chan'[g] = "up" => chan[g] = "up"
      BY <1>b, <2>2 DEF Refuse, TypeOK
    <3> QED BY <1>e, <2>1, <3>1, BindingsMove
  <2>3. CASE bound' = bound /\ UNCHANGED links
    BY <1>a, <1>e, <2>1, <2>3, BindingsMove DEF links
  <2> QED BY <1>10, <2>2, <2>3 DEF Consume, broker
<1>11. ASSUME NEW c \in Call, Cancel(c) PROVE BindingsInv'
  <2>1. /\ Active(c) /\ pc' = pc /\ todo' = todo /\ who' = who /\ pc[c] = "cancel"
        /\ \A d \in Call \ {c} : on'[d] = on[d]
        /\ UNCHANGED <<handlers, boundEvents, isConsuming, chan>>
    BY <1>11 DEF Cancel, At, Ready, Send, worker, links, TypeOK
  <2>2. KeepsBindings
    BY <1>11, <1>a, <1>b DEF Cancel
  <2> QED BY <2>1, <2>2, BindingsMove
<1>12. ASSUME NEW c \in Call, PrefetchSet(c) PROVE BindingsInv'
  BY <1>12, <1>a, BindingsMove DEF PrefetchSet, Answered, Resume, Active, Stage, Starting, broker, links, worker, TypeOK
<1>13. ASSUME NEW c \in Call, ExchangeAsserted(c) PROVE BindingsInv'
  BY <1>13, <1>a, BindingsMove DEF ExchangeAsserted, Answered, Resume, Active, Stage, Starting, broker, links, worker, TypeOK
<1>14. ASSUME NEW c \in Call, QueueAsserted(c) PROVE BindingsInv'
  BY <1>14, <1>a, BindingsMove DEF QueueAsserted, Answered, Resume, Active, Stage, Starting, broker, links, worker, TypeOK
<1>15. ASSUME NEW c \in Call, QueueBound(c) PROVE BindingsInv'
  <2> DEFINE w == who[c]
             b == Binding(c)
  <2>1. /\ pc[c] \in {"bind", "add"} /\ on[c] # None /\ chan[on[c]] = "up"
        /\ boundEvents' = [boundEvents EXCEPT ![w] = @ \cup {b}]
        /\ todo' = [todo EXCEPT ![c] = todo[c] \ {b}]
        /\ pc' = [pc EXCEPT ![c] = IF @ = "add" THEN "done" ELSE IF todo[c] \ {b} = {} THEN "consume" ELSE "bind"]
        /\ on' = [on EXCEPT ![c] = None]
        /\ UNCHANGED <<who, broker, links, manager, handlers, isConsuming, consumerTag>>
    BY <1>15 DEF QueueBound, Answered
  <2>2. w \in Worker /\ b \in Event /\ b \in todo[c]
    BY <2>1, BindingOnList DEF CallsInv
  <2>3. w \notin AutoDelete => <<w, b>> \in bound
    BY <2>1 DEF BindingsInv
  <2>4. pc[c] = "add" => todo[c] = {b}
    BY <2>2 DEF CallsInv
  <2> HIDE DEF b
  <2>5. \A v \in Worker : boundEvents[v] \subseteq boundEvents'[v] /\ (v # w => boundEvents'[v] = boundEvents[v])
    BY <2>1, <2>2 DEF TypeOK
  <2>6. boundEvents'[w] = boundEvents[w] \cup {b}
    BY <2>1, <2>2 DEF TypeOK
  <2>7. \A d \in Call \ {c} : pc'[d] = pc[d] /\ on'[d] = on[d] /\ todo'[d] = todo[d]
    BY <2>1 DEF TypeOK
  <2>8. /\ on'[c] = None /\ todo'[c] = todo[c] \ {b} /\ pc'[c] \in {"done", "consume", "bind"}
        /\ pc'[c] = "bind" => pc[c] = "bind"
        /\ pc'[c] = "consume" => pc[c] = "bind" /\ todo[c] \ {b} = {}
    BY <2>1 DEF TypeOK
  <2>9. \A v \in Worker \ AutoDelete : \A e \in boundEvents'[v] : <<v, e>> \in bound'
    BY <2>1, <2>2, <2>3, <2>5, <2>6 DEF BindingsInv, broker
  <2>10. ASSUME NEW d \in Call, pc'[d] \in {"bind", "add"}, on'[d] # None, chan'[on'[d]] = "up",
                who'[d] \notin AutoDelete
         PROVE  <<who[d], Binding(d)>>' \in bound'
    <3>1. d # c
      BY <2>8, <2>10
    <3>2. <<who[d], Binding(d)>> \in bound
      BY <2>1, <2>7, <2>10, <3>1 DEF BindingsInv, links
    <3> QED BY <2>1, <2>7, <3>1, <3>2 DEF Binding, broker
  <2>11. \A d \in Call : pc'[d] = "bind" /\ who'[d] \notin Overlapping =>
          handlers'[who'[d]] \subseteq boundEvents'[who'[d]] \cup todo'[d]
    <3>1. \A d \in Call \ {c} : pc'[d] = "bind" /\ who[d] \notin Overlapping =>
            handlers[who[d]] \subseteq boundEvents[who[d]] \cup todo[d]
      BY <1>e, <2>7
    <3>2. pc'[c] = "bind" /\ w \notin Overlapping => handlers[w] \subseteq boundEvents[w] \cup todo[c]
      BY <1>e, <2>8
    <3>3. \A d \in Call : pc'[d] = "bind" => who[d] \in Worker
      BY <2>1, <2>7, <2>8 DEF CallsInv
    <3> QED BY <2>1, <2>5, <2>6, <2>7, <2>8, <3>1, <3>2, <3>3
  <2>12. \A d \in Call : pc'[d] = "consume" /\ who'[d] \notin Overlapping =>
          handlers'[who'[d]] \subseteq boundEvents'[who'[d]]
    <3>1. \A d \in Call \ {c} : pc'[d] = "consume" /\ who[d] \notin Overlapping =>
            handlers[who[d]] \subseteq boundEvents[who[d]]
      BY <1>e, <2>7
    <3>2. pc'[c] = "consume" /\ w \notin Overlapping => handlers[w] \subseteq boundEvents[w] \cup {b}
      BY <1>e, <2>8
    <3>3. \A d \in Call : pc'[d] = "consume" => who[d] \in Worker
      BY <2>1, <2>7, <2>8 DEF CallsInv
    <3> QED BY <2>1, <2>5, <2>6, <3>1, <3>2, <3>3
  <2>13. ASSUME NEW v \in Worker \ Overlapping, isConsuming'[v] PROVE handlers'[v] \subseteq boundEvents'[v] \cup Pending(v)'
    <3>1. handlers[v] \subseteq boundEvents[v] \cup Pending(v)
      BY <2>1, <2>13 DEF BindingsInv
    <3>2. ASSUME NEW e \in Pending(v) PROVE e \in Pending(v)' \/ e \in boundEvents'[v]
      <4>1. PICK d \in Call : who[d] = v /\ pc[d] \in {"add", "failed"} /\ e \in todo[d]
        BY DEF Pending
      <4>2. CASE d = c
        BY <2>1, <2>4, <2>6, <4>1, <4>2
      <4>3. CASE d # c
        BY <2>1, <2>7, <4>1, <4>3 DEF Pending
      <4> QED BY <4>2, <4>3
    <3> QED BY <2>1, <2>5, <3>1, <3>2
  <2> QED BY <2>9, <2>10, <2>11, <2>12, <2>13 DEF BindingsInv
<1>16. ASSUME NEW c \in Call, Started(c) PROVE BindingsInv'
  <2>1. /\ Active(c) /\ pc'[c] = "done" /\ pc[c] = "consume"
        /\ \A d \in Call \ {c} : pc'[d] = pc[d] /\ on'[d] = on[d]
        /\ UNCHANGED <<who, todo, broker, links, handlers, boundEvents>>
        /\ isConsuming' = [isConsuming EXCEPT ![who[c]] = TRUE]
    BY <1>16 DEF Started, Answered, Resume, Active, Stage, Starting, TypeOK
  <2>2. \A w \in Worker \ Overlapping : isConsuming'[w] => isConsuming[w] \/ handlers[w] \subseteq boundEvents[w]
    BY <1>e, <2>1 DEF TypeOK
  <2> QED BY <1>a, <2>1, <2>2, BindingsMove DEF broker, links
<1>17. ASSUME NEW c \in Call, Stopped(c) PROVE BindingsInv'
  <2>1. /\ Active(c) /\ pc'[c] = "done" /\ pc[c] = "cancel"
        /\ \A d \in Call \ {c} : pc'[d] = pc[d] /\ on'[d] = on[d]
        /\ UNCHANGED <<who, todo, broker, links, handlers, boundEvents>>
    BY <1>17 DEF Stopped, Forgotten, Answered, Resume, Active, Stage, Starting, TypeOK
  <2>2. \A w \in Worker : isConsuming'[w] => isConsuming[w]
    BY <1>17 DEF Stopped, Forgotten
  <2> QED BY <1>a, <2>1, <2>2, BindingsMove DEF broker, links
<1>18. CASE Dial
  <2>1. PICK g \in Chan : chan[g] = "new" /\ chan' = [chan EXCEPT ![g] = "up"]
    BY <1>18, FreshSubset DEF Dial
  <2>2. UNCHANGED <<broker, worker, calls>>
    BY <1>18 DEF Dial
  <2>3. \A c \in Call : on[c] # None /\ chan'[on[c]] = "up" => chan[on[c]] = "up"
    BY <2>1 DEF TypeOK
  <2> QED BY <2>2, <2>3 DEF BindingsInv, Binding, Pending, broker, worker, calls
<1>f. \A g : Told(g) \in SUBSET Call /\ \A c \in Told(g) : Active(c)
  BY DEF Told, TypeOK, Active
<1>19. CASE DialFails
  <2>1. PICK F \in SUBSET Call : Fail(F) /\ (\A c \in F : Active(c)) /\ UNCHANGED <<broker, links>>
    BY <1>19 DEF DialFails, Waiting
  <2> QED BY <1>a, <2>1, BindingsFail DEF broker, links
<1>20. ASSUME NEW g \in Chan, Break(g) PROVE BindingsInv'
  <2>1. KeepsBindings /\ UNCHANGED <<worker, calls>> /\ \A h \in Chan : chan'[h] = "up" => chan[h] = "up"
    BY <1>20, <1>b DEF Break, TypeOK
  <2> QED BY <2>1 DEF BindingsInv, KeepsBindings, Binding, Pending, TypeOK, worker, calls
<1>21. ASSUME NEW g \in Chan, End(g) PROVE BindingsInv'
  <2>1. Fail(Told(g)) /\ bound' = bound /\ chan' = [chan EXCEPT ![g] = "closed"]
    BY <1>21 DEF End, ChannelEnds, ConnectionEnds, broker
  <2>2. \A h \in Chan : chan'[h] = "up" => chan[h] = "up"
    BY <2>1 DEF TypeOK
  <2> QED BY <1>a, <1>f, <2>1, <2>2, BindingsFail
<1>22. CASE Close
  <2>1. Fail(Told(connection)) /\ KeepsBindings
    BY <1>22, <1>b DEF Close
  <2>2. \A h \in Chan : chan'[h] = "up" => chan[h] = "up"
    BY <1>22 DEF Close, TypeOK
  <2> QED BY <1>f, <2>1, <2>2, BindingsFail
<1>23. CASE UNCHANGED vars
  BY <1>23 DEF vars, broker, links, worker, calls, BindingsInv, Binding, Pending
<1> QED BY <1>1, <1>2, <1>3, <1>4, <1>5, <1>6, <1>7, <1>8, <1>9, <1>10, <1>11, <1>12, <1>13, <1>14,
           <1>15, <1>16, <1>17, <1>18, <1>19, <1>20, <1>21, <1>22, <1>23
        DEF Next, Issue, Others, Application, Reply, Outcome

-----------------------------------------------------------------------------
(* Results.                                                                *)

\* The inductive invariant.
LifecycleInv == TypeOK /\ CallsInv /\ ConsumersInv /\ DeclaredInv /\ BindingsInv

\* The invariant holds of every behaviour.
THEOREM InvariantHolds == Spec => []LifecycleInv
<1>1. ASSUME Init PROVE LifecycleInv
  <2> USE <1>1 DEF Init
  <2>1. TypeOK
    BY LifecycleAssumption DEF TypeOK
  <2>2. CallsInv
    BY DEF CallsInv, Active, Stage, Starting
  <2>3. ConsumersInv
    BY DEF ConsumersInv, Offered
  <2>4. DeclaredInv
    BY DEF DeclaredInv, NeverRefused
  <2>5. BindingsInv
    BY DEF BindingsInv
  <2> QED BY <2>1, <2>2, <2>3, <2>4, <2>5 DEF LifecycleInv
<1>2. LifecycleInv /\ [Next]_vars => LifecycleInv'
  BY LifecycleAssumption, TypeStep, CallsStep, ConsumersStep, DeclaredStep, BindingsStep DEF LifecycleInv
<1> QED BY <1>1, <1>2, PTL DEF Spec

\* Every reachable state is type correct; a call that awaits a reply awaits it on a
\* channel the client has not seen end, whether the manager still has it or not.
THEOREM TypeCorrect == Spec => []TypeOK
<1>1. LifecycleInv => TypeOK
  BY DEF LifecycleInv
<1> QED BY <1>1, InvariantHolds, PTL

\* The caches of declared names never make a start() use a queue that does not
\* exist: only a queue that deletes itself can be missing.
THEOREM QueuesAreDeclared == Spec => []NeverRefused
<1>1. LifecycleInv => NeverRefused
  BY DEF LifecycleInv, DeclaredInv
<1> QED BY <1>1, InvariantHolds, PTL

\* An orderly worker whose last call was a stop() has no consumer on the channel the
\* manager has, whichever one the consumer was registered on: what is left is on a
\* channel that was dropped while it was open.
THEOREM StopEndsConsumer == Spec => []StoppedMeansStopped
<1>1. ASSUME LifecycleInv PROVE StoppedMeansStopped
  <2>1. ASSUME NEW w \in Worker \ Overlapping, ~Busy(w), consumerTag[w] = None,
               NEW c \in Call, who[c] = w, consumer[c] # None
        PROVE  consumer[c] # channel /\ consumer[c] \in connections
    <3>1. consumer[c] \in connections
      BY <1>1, <2>1 DEF LifecycleInv, ConsumersInv, TypeOK
    <3>2. Offered(c) => pc[c] = "consume"
      BY <1>1, <2>1, LifecycleAssumption DEF LifecycleInv, ConsumersInv
    <3> QED BY <2>1, <3>1, <3>2 DEF Offered, Busy, Active, Stage, Starting
  <2> QED BY <2>1 DEF StoppedMeansStopped, Consumers
<1> QED BY <1>1, InvariantHolds, PTL

\* An orderly worker that consumes has a binding for each of its handlers, but for those whose
\* addHandler() rejected.
THEOREM HandlersAreBound == Spec => []HandlersBound
<1>1. ASSUME LifecycleInv PROVE HandlersBound
  <2>1. ASSUME NEW w \in Worker \ (AutoDelete \cup Overlapping), isConsuming[w], ~Busy(w),
               NEW e \in handlers[w], e \notin Rejected(w)
        PROVE  <<w, e>> \in bound
    <3>1. e \notin Pending(w)
      BY <2>1 DEF Pending, Rejected, Busy, Active, Stage, Starting
    <3>2. e \in boundEvents[w]
      BY <1>1, <2>1, <3>1 DEF LifecycleInv, BindingsInv
    <3> QED BY <1>1, <2>1, <3>2 DEF LifecycleInv, BindingsInv
  <2> QED BY <2>1 DEF HandlersBound
<1> QED BY <1>1, InvariantHolds, PTL

-----------------------------------------------------------------------------
(* The workers use channels as ChannelProvider hands them out.             *)

\* What ChannelProvider sees of the channels.
ProviderState == [g \in Chan |-> CASE chan[g] = "new" -> "new"
                                   [] chan[g] \in {"up", "broken"} -> "open"
                                   [] OTHER -> "closed"]

\* Every step provides a new channel, loses one, forgets one that goes on, or is none
\* of the provider's.
LEMMA StepOfProvider ==
  ASSUME LifecycleAssumption, TypeOK, CallsInv, [Next]_vars
  PROVE  [Provider!Next]_<<channel, ProviderState>>
<1>1. CASE Dial
  <2>1. PICK g \in Chan : chan[g] = "new" /\ chan' = [chan EXCEPT ![g] = "up"] /\ channel' = g
    BY <1>1, FreshSubset DEF Dial
  <2>2. ProviderState' = [ProviderState EXCEPT ![g] = "open"] /\ ProviderState[g] = "new"
    BY <2>1 DEF TypeOK, ProviderState
  <2>3. Provider!Provide(g)
    BY <2>1, <2>2 DEF Provider!Provide, ProviderState
  <2> QED BY <2>3 DEF Provider!Next
<1>a. ASSUME NEW g \in Chan, chan[g] \in {"up", "broken"}, chan' = [chan EXCEPT ![g] = "closed"],
             channel' = None
      PROVE  Provider!Next
  <2>1. ProviderState' = [ProviderState EXCEPT ![g] = "closed"] /\ ProviderState[g] = "open"
    BY <1>a DEF TypeOK, ProviderState
  <2>2. None # g
    BY LifecycleAssumption
  <2>3. Provider!Lose(g)
    BY <1>a, <2>1, <2>2 DEF Provider!Lose, ProviderState
  <2> QED BY <2>3 DEF Provider!Next
<1>c. ASSUME NEW g \in Chan, chan[g] \in {"up", "broken", "closed"}, chan' = [chan EXCEPT ![g] = "closed"],
             channel' = None
      PROVE  Provider!Next
  <2>1. CASE chan[g] = "closed"
    <3>1. chan' = chan
      BY <1>c, <2>1 DEF TypeOK
    <3> QED BY <1>c, <3>1 DEF Provider!Next, Provider!Forget, ProviderState
  <2> QED BY <1>a, <1>c, <2>1
<1>2. ASSUME NEW g \in Chan, End(g) PROVE Provider!Next
  <2>1. /\ chan[g] \in {"up", "broken", "closed"} /\ channel' = None
        /\ chan' = [chan EXCEPT ![g] = "closed"]
    BY <1>2 DEF End, ChannelEnds, ConnectionEnds, ChannelAfter, TypeOK
  <2> QED BY <1>c, <2>1
<1>3. CASE Close
  <2>1. CASE connection \in Chan
    <3>1. chan' = [chan EXCEPT ![connection] = "closed"] /\ channel' = None
      BY <1>3 DEF Close, TypeOK
    <3>2. chan[connection] \in {"up", "broken", "closed"}
      BY <2>1, LifecycleAssumption DEF TypeOK
    <3> QED BY <1>c, <2>1, <3>1, <3>2
  <2>2. CASE connection \notin Chan
    <3>1. chan' = chan /\ channel' = None
      BY <1>3, <2>2 DEF Close, TypeOK
    <3> QED BY <3>1 DEF Provider!Next, Provider!Forget, ProviderState
  <2> QED BY <2>1, <2>2
<1>b. ASSUME channel' = channel,
             chan' = chan \/ \E g \in Chan : chan[g] \in {"up", "broken"} /\ chan' = [chan EXCEPT ![g] = "broken"]
      PROVE  UNCHANGED <<channel, ProviderState>>
  BY <1>b DEF TypeOK, ProviderState
<1>4. ASSUME NEW w \in Worker, Application(w) PROVE UNCHANGED <<channel, ProviderState>>
  BY <1>4, <1>b DEF Application, Start, Stop, AddHandler, RemoveHandler, links, manager
<1>5. ASSUME NEW c \in Call, Reply(c) PROVE UNCHANGED <<channel, ProviderState>>
  BY <1>5, <1>b DEF Reply, PrefetchSet, ExchangeAsserted, QueueAsserted, QueueBound, Started, Stopped,
                    Resume, links, manager
<1>6. ASSUME NEW c \in Call, Connected(c) \/ SetPrefetch(c) \/ AssertExchange(c) \/ AssertQueue(c) \/ Snapshot(c)
                               \/ Cancel(c)
      PROVE  UNCHANGED <<channel, ProviderState>>
  BY <1>6, <1>b DEF Connected, SetPrefetch, AssertExchange, AssertQueue, Declare, Snapshot, Cancel, links, manager
<1>7. ASSUME NEW c \in Call, BindQueue(c) \/ Consume(c) PROVE UNCHANGED <<channel, ProviderState>>
  <2>1. channel' = channel /\ channel \in Chan /\ chan[channel] \in {"up", "broken"}
    BY <1>7 DEF BindQueue, Consume, At, Ready, manager, TypeOK
  <2>2. chan' = chan \/ chan' = [chan EXCEPT ![channel] = "broken"]
    BY <1>7 DEF BindQueue, Consume, Refuse, links
  <2> QED BY <1>b, <2>1, <2>2
<1>8. CASE DialFails
  BY <1>8, <1>b DEF DialFails, links
<1>9. ASSUME NEW g \in Chan, Break(g) PROVE UNCHANGED <<channel, ProviderState>>
  BY <1>9, <1>b DEF Break, manager
<1>10. CASE UNCHANGED vars
  BY <1>10, <1>b DEF vars, links, manager
<1> QED BY <1>1, <1>2, <1>3, <1>4, <1>5, <1>6, <1>7, <1>8, <1>9, <1>10
        DEF Next, Issue, Others, Outcome

\* The lifecycle of the workers refines ChannelProvider: no worker is offered a
\* channel that has ended, or one a second time, with close() at any moment.
THEOREM ImplementsProvider == Spec => ProviderSpec
<1>1. ASSUME Init PROVE channel = None /\ ProviderState = [g \in Chan |-> "new"]
  BY <1>1 DEF Init, ProviderState
<1>2. LifecycleInv /\ [Next]_vars => [Provider!Next]_<<channel, ProviderState>>
  BY LifecycleAssumption, StepOfProvider DEF LifecycleInv
<1> QED BY <1>1, <1>2, InvariantHolds, PTL DEF Spec, ProviderSpec, Provider!Spec, Provider!Init, ProviderState
=============================================================================
