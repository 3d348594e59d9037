-------------------------- MODULE ChannelProvider --------------------------
(***************************************************************************)
(* What the users of a ConnectionManager may rely on when they await       *)
(* getChannel() (src/src/connection.ts).  ConnectionManager implements it, *)
(* and WorkerDelivery and WorkerLifecycle describe workers over it.        *)
(***************************************************************************)
CONSTANTS Chan, None

VARIABLES
  channel,  \* the channel the manager offers, or None
  state     \* each channel: new, open or closed, as the client sees it

Init == channel = None /\ state = [g \in Chan |-> "new"]

\* A channel that was never used before.  It may replace one that is still open:
\* the manager dials whenever it has lost its connection or its channel.
Provide(g) ==
  /\ state[g] = "new"
  /\ channel' = g
  /\ state' = [state EXCEPT ![g] = "open"]

\* A channel ends.  From then on it is not offered; another one may go on to be.
Lose(g) ==
  /\ state[g] = "open"
  /\ state' = [state EXCEPT ![g] = "closed"]
  /\ channel' \in {channel, None} \ {g}

\* The manager may forget a channel that is still open.
Forget == channel' = None /\ UNCHANGED state

Next == (\E g \in Chan : Provide(g) \/ Lose(g)) \/ Forget

Spec == Init /\ [][Next]_<<channel, state>>
=============================================================================
