----------------------------- MODULE Publisher -----------------------------
(***************************************************************************)
(* The Publisher (src/src/publisher.ts): publishWithConfirm on the confirm *)
(* channel of the ConnectionManager, with concurrent calls that share or   *)
(* create a channel, the broker's confirms, the time limit of each call,   *)
(* and channels that are lost with confirms outstanding; and publish,      *)
(* which returns as soon as its message is written to the other channel.   *)
(***************************************************************************)
EXTENDS FiniteSets

CONSTANTS
  Call,       \* calls of publish and publishWithConfirm (a bound)
  Plain,      \* those of publish
  Chan,       \* confirm channels ever opened (a bound)
  LinkFaults, \* may a channel be lost?
  Routed,     \* is a queue bound to the exchange from the start?
  None

ASSUME PublisherAssumption ==
  /\ LinkFaults \in BOOLEAN /\ Routed \in BOOLEAN
  /\ Plain \subseteq Call
  /\ None \notin Chan

VARIABLES
  state,  \* each call
  on,     \* the confirm channel it waits for or has published on
  timer,  \* its time limit runs
  frame,  \* what became of its message at the broker
  told,   \* the broker's answer has reached the client
  chan,   \* each confirm channel
  confirmChannel,  \* ConnectionManager.confirmChannel
  bound   \* a queue is bound to the exchange

calls == <<state, on, timer>>
vars  == <<calls, frame, told, chan, confirmChannel, bound>>

TypeOK ==
  /\ state \in [Call -> {"idle", "initialize", "opening", "waiting", "resolved", "rejected"}]
  /\ on \in [Call -> Chan \cup {None}]
  /\ timer \in [Call -> BOOLEAN]
  /\ frame \in [Call -> {"none", "sent", "lost", "stored", "unroutable", "refused"}]
  /\ told \in [Call -> BOOLEAN]
  /\ chan \in [Chan -> {"unused", "opening", "open", "broken", "closed"}]
  /\ confirmChannel \in Chan \cup {None}
  /\ bound \in BOOLEAN
  /\ \A p \in Call : timer[p] <=> state[p] = "waiting"

Init ==
  /\ state = [p \in Call |-> "idle"]
  /\ on = [p \in Call |-> None]
  /\ timer = [p \in Call |-> FALSE]
  /\ frame = [p \in Call |-> "none"]
  /\ told = [p \in Call |-> FALSE]
  /\ chan = [f \in Chan |-> "unused"]
  /\ confirmChannel = None
  /\ bound = Routed

-----------------------------------------------------------------------------
(* A call.                                                                 *)

\* Either call begins with initialize().
Called(p) ==
  /\ state[p] = "idle"
  /\ state' = [state EXCEPT ![p] = "initialize"]
  /\ UNCHANGED <<on, timer, frame, told, chan, confirmChannel, bound>>

\* publish() resolves when channel.publish() has buffered the message.
publish(p) ==
  /\ p \in Plain /\ state[p] = "initialize"
  /\ state' = [state EXCEPT ![p] = "resolved"]
  /\ \E fate \in {"sent"} \cup (IF LinkFaults THEN {"lost"} ELSE {}) :
       frame' = [frame EXCEPT ![p] = fate]
  /\ UNCHANGED <<on, timer, told, chan, confirmChannel, bound>>

\* Arms the time limit and writes the message to channel f.
PublishOn(p, f) ==
  /\ state' = [state EXCEPT ![p] = "waiting"]
  /\ timer' = [timer EXCEPT ![p] = TRUE]
  /\ on' = [on EXCEPT ![p] = f]
  /\ frame' = [frame EXCEPT ![p] = IF chan[f] = "broken" THEN "lost" ELSE "sent"]

\* The exchange is there.  A confirm channel that exists is used in the same
\* turn; without one every caller opens its own.
Initialized(p) ==
  /\ p \notin Plain /\ state[p] = "initialize"
  /\ \/ /\ confirmChannel # None
        /\ PublishOn(p, confirmChannel)
        /\ UNCHANGED chan
     \/ /\ confirmChannel = None
        /\ \E f \in Chan :
             /\ chan[f] = "unused"
             /\ chan' = [chan EXCEPT ![f] = "opening"]
             /\ on' = [on EXCEPT ![p] = f]
        /\ state' = [state EXCEPT ![p] = "opening"]
        /\ UNCHANGED <<timer, frame>>
  /\ UNCHANGED <<told, confirmChannel, bound>>

InitializeFails(p) ==
  /\ LinkFaults
  /\ state[p] = "initialize"
  /\ state' = [state EXCEPT ![p] = "rejected"]
  /\ UNCHANGED <<on, timer, frame, told, chan, confirmChannel, bound>>

ConfirmChannelOpened(p) ==
  /\ state[p] = "opening"
  /\ chan[on[p]] = "opening"
  /\ chan' = [chan EXCEPT ![on[p]] = "open"]
  /\ confirmChannel' = on[p]
  /\ PublishOn(p, on[p])
  /\ UNCHANGED <<told, bound>>

\* Mutant: the error of the callback is ignored.
AnswerWithoutError(p) == "resolved"

\* The confirm callback: an error rejects the promise.
Answer(p) == IF frame[p] = "refused" THEN "rejected" ELSE "resolved"

\* Mutant: the confirm leaves the time limit running.
TimerLeft(p) == timer[p]

TimerCleared(p) == FALSE

\* The broker's answer arrives: it clears the time limit and settles the
\* promise, unless the time limit did before.
Confirmed(p) ==
  /\ frame[p] \in {"stored", "unroutable", "refused"}
  /\ p \notin Plain /\ ~told[p]
  /\ chan[on[p]] \in {"open", "broken"}
  /\ told' = [told EXCEPT ![p] = TRUE]
  /\ state' = [state EXCEPT ![p] = IF @ = "waiting" THEN Answer(p) ELSE @]
  /\ timer' = [timer EXCEPT ![p] = TimerCleared(p)]
  /\ UNCHANGED <<on, frame, chan, confirmChannel, bound>>

\* Mutant: the time limit fires and the promise stays pending.
StillWaiting == "waiting"

TooLate == "rejected"

TimesOut(p) ==
  /\ timer[p]
  /\ timer' = [timer EXCEPT ![p] = FALSE]
  /\ state' = [state EXCEPT ![p] = TooLate]
  /\ UNCHANGED <<on, frame, told, chan, confirmChannel, bound>>

-----------------------------------------------------------------------------
(* The broker and the link.                                                *)

BrokerTakes(p) ==
  /\ frame[p] = "sent"
  /\ \E fate \in {IF bound THEN "stored" ELSE "unroutable", "refused"} :
       frame' = [frame EXCEPT ![p] = fate]
  /\ UNCHANGED <<calls, told, chan, confirmChannel, bound>>

FrameLost(p) ==
  /\ frame[p] = "sent"
  /\ p \notin Plain
  /\ chan[on[p]] \in {"broken", "closed"}
  /\ frame' = [frame EXCEPT ![p] = "lost"]
  /\ UNCHANGED <<calls, told, chan, confirmChannel, bound>>

BreakLink(f) ==
  /\ LinkFaults
  /\ chan[f] \in {"opening", "open"}
  /\ chan' = [chan EXCEPT ![f] = "broken"]
  /\ UNCHANGED <<calls, frame, told, confirmChannel, bound>>

\* The client learns that channel f is gone: the field is cleared, whichever
\* channel it holds; the calls that wait for the channel to open are rejected,
\* and those that wait for a confirm are told (some amqplib versions) or left to
\* their time limit.
ChannelClosed(f) ==
  /\ chan[f] = "broken"
  /\ chan' = [chan EXCEPT ![f] = "closed"]
  /\ \/ confirmChannel' = None
     \/ /\ \E p \in Call : on[p] = f /\ state[p] = "opening"
        /\ UNCHANGED confirmChannel
  /\ \E told_waiting \in BOOLEAN :
       LET over(p) == on[p] = f /\ (state[p] = "opening" \/ (told_waiting /\ state[p] = "waiting"))
       IN  /\ state' = [p \in Call |-> IF over(p) THEN "rejected" ELSE state[p]]
           /\ timer' = [p \in Call |-> IF over(p) THEN FALSE ELSE timer[p]]
  /\ UNCHANGED <<on, frame, told, bound>>

\* A worker binds its queue.
BindQueue ==
  /\ ~bound
  /\ bound' = TRUE
  /\ UNCHANGED <<calls, frame, told, chan, confirmChannel>>

Next ==
  \/ \E p \in Call :
       \/ Called(p) \/ publish(p) \/ Initialized(p) \/ InitializeFails(p)
       \/ ConfirmChannelOpened(p) \/ Confirmed(p) \/ TimesOut(p)
       \/ BrokerTakes(p) \/ FrameLost(p)
  \/ \E f \in Chan : BreakLink(f) \/ ChannelClosed(f)
  \/ BindQueue

Spec == Init /\ [][Next]_vars

\* Only timers can be relied on: the broker may never answer.
FairSpec == Spec /\ \A p \in Call : WF_vars(TimesOut(p))

-----------------------------------------------------------------------------
(* What the publisher promises.                                            *)

\* publisher.ts:96, 155-162: a call that resolves was confirmed: its own message,
\* not another one on the same channel, was taken by the broker, whatever timers
\* and channels did meanwhile.
ResolvedMeansTaken ==
  \A p \in Call \ Plain : state[p] = "resolved" => frame[p] \in {"stored", "unroutable"} /\ told[p]

\* publisher.ts:139-141: once the message is written the call settles, even if
\* the broker never answers and the loss of the channel is never reported.
CallsSettle == \A p \in Call : state[p] = "waiting" ~> state[p] \in {"resolved", "rejected"}
=============================================================================
