-------------------------- MODULE PublisherProofs --------------------------
(***************************************************************************)
(* Proofs about Publisher, for any number of calls and confirm channels.   *)
(*                                                                         *)
(* TypeOK needs to know that a call which waits for a channel, or for a    *)
(* confirm on it, refers to one (OnChannel).  ResolvedMeansTaken is        *)
(* inductive: what the broker did with a message is never revised, and     *)
(* only Confirmed resolves a call that is not one of publish().            *)
(***************************************************************************)
EXTENDS Publisher, TLAPS

\* A call in progress refers to its channel.
OnChannel == \A p \in Call : state[p] \in {"opening", "waiting"} => on[p] \in Chan

\* The types and OnChannel are inductive together.
LEMMA TypeStep ==
  ASSUME PublisherAssumption, TypeOK, OnChannel, [Next]_vars
  PROVE  TypeOK' /\ OnChannel'
<1> USE DEF TypeOK, OnChannel
<1>1. ASSUME NEW p \in Call, Called(p) PROVE TypeOK' /\ OnChannel'
  BY <1>1 DEF Called
<1>2. ASSUME NEW p \in Call, publish(p) PROVE TypeOK' /\ OnChannel'
  BY <1>2 DEF publish
<1>3. ASSUME NEW p \in Call, Initialized(p) PROVE TypeOK' /\ OnChannel'
  <2>1. CASE confirmChannel # None
    <3>1. PublishOn(p, confirmChannel) /\ UNCHANGED <<chan, told, confirmChannel, bound>>
      BY <1>3, <2>1 DEF Initialized
    <3>2. confirmChannel \in Chan
      BY <2>1
    <3> QED BY <3>1, <3>2 DEF PublishOn
  <2>2. CASE confirmChannel = None
    BY <1>3, <2>2 DEF Initialized
  <2> QED BY <2>1, <2>2
<1>4. ASSUME NEW p \in Call, InitializeFails(p) PROVE TypeOK' /\ OnChannel'
  BY <1>4 DEF InitializeFails
<1>5. ASSUME NEW p \in Call, ConfirmChannelOpened(p) PROVE TypeOK' /\ OnChannel'
  BY <1>5 DEF ConfirmChannelOpened, PublishOn
<1>6. ASSUME NEW p \in Call, Confirmed(p) PROVE TypeOK' /\ OnChannel'
  BY <1>6 DEF Confirmed, Answer, TimerCleared
<1>7. ASSUME NEW p \in Call, TimesOut(p) PROVE TypeOK' /\ OnChannel'
  BY <1>7 DEF TimesOut, TooLate
<1>8. ASSUME NEW p \in Call, BrokerTakes(p) PROVE TypeOK' /\ OnChannel'
  BY <1>8 DEF BrokerTakes, calls
<1>9. ASSUME NEW p \in Call, FrameLost(p) PROVE TypeOK' /\ OnChannel'
  BY <1>9 DEF FrameLost, calls
<1>10. ASSUME NEW f \in Chan, BreakLink(f) PROVE TypeOK' /\ OnChannel'
  BY <1>10 DEF BreakLink, calls
<1>11. ASSUME NEW f \in Chan, ChannelClosed(f) PROVE TypeOK' /\ OnChannel'
  <2> DEFINE over(p, heard) ==
        on[p] = f /\ (state[p] = "opening" \/ (heard /\ state[p] = "waiting"))
  <2>1. PICK heard \in BOOLEAN :
          /\ state' = [p \in Call |-> IF over(p, heard) THEN "rejected" ELSE state[p]]
          /\ timer' = [p \in Call |-> IF over(p, heard) THEN FALSE ELSE timer[p]]
    BY <1>11 DEF ChannelClosed
  <2>2. UNCHANGED <<on, frame, told, bound>> /\ chan' = [chan EXCEPT ![f] = "closed"]
        /\ confirmChannel' \in {confirmChannel, None}
    BY <1>11 DEF ChannelClosed
  <2>3. /\ state' \in [Call -> {"idle", "initialize", "opening", "waiting", "resolved", "rejected"}]
        /\ timer' \in [Call -> BOOLEAN]
    BY <2>1
  <2>4. \A p \in Call : timer'[p] <=> state'[p] = "waiting"
    BY <2>1
  <2>5. OnChannel'
    BY <2>1, <2>2
  <2> QED BY <2>2, <2>3, <2>4, <2>5
<1>12. CASE BindQueue
  BY <1>12 DEF BindQueue, calls
<1>13. CASE UNCHANGED vars
  BY <1>13 DEF vars, calls
<1> QED
  BY <1>1, <1>2, <1>3, <1>4, <1>5, <1>6, <1>7, <1>8, <1>9, <1>10, <1>11, <1>12, <1>13 DEF Next

\* Initially no call has begun.
LEMMA TypeInit == ASSUME PublisherAssumption, Init PROVE TypeOK /\ OnChannel
BY DEF PublisherAssumption, Init, TypeOK, OnChannel

\* Calls, timers and channels have the types of the code, and the time limit of
\* a call runs exactly while it waits for its confirm.
THEOREM TypeCorrect == Spec => []TypeOK
<1>1. Init => TypeOK /\ OnChannel
  BY PublisherAssumption, TypeInit
<1>2. TypeOK /\ OnChannel /\ [Next]_vars => TypeOK' /\ OnChannel'
  BY PublisherAssumption, TypeStep
<1> QED BY <1>1, <1>2, PTL DEF Spec

\* A step keeps what is decided and resolves only calls that were confirmed.
LEMMA ResolvedStep ==
  ASSUME TypeOK, ResolvedMeansTaken, [Next]_vars
  PROVE  ResolvedMeansTaken'
<1> USE DEF TypeOK, ResolvedMeansTaken
<1>1. ASSUME NEW p \in Call, publish(p) PROVE ResolvedMeansTaken'
  BY <1>1 DEF publish
<1>2. ASSUME NEW p \in Call, Initialized(p) PROVE ResolvedMeansTaken'
  BY <1>2 DEF Initialized, PublishOn
<1>3. ASSUME NEW p \in Call, ConfirmChannelOpened(p) PROVE ResolvedMeansTaken'
  BY <1>3 DEF ConfirmChannelOpened, PublishOn
<1>4. ASSUME NEW p \in Call, Confirmed(p) PROVE ResolvedMeansTaken'
  BY <1>4 DEF Confirmed, Answer
<1>5. ASSUME NEW p \in Call, Called(p) \/ InitializeFails(p) \/ TimesOut(p)
      PROVE  ResolvedMeansTaken'
  BY <1>5 DEF Called, InitializeFails, TimesOut, TooLate
<1>6. ASSUME NEW p \in Call, BrokerTakes(p) \/ FrameLost(p) PROVE ResolvedMeansTaken'
  BY <1>6 DEF BrokerTakes, FrameLost, calls
<1>7. ASSUME NEW f \in Chan, ChannelClosed(f) PROVE ResolvedMeansTaken'
  <2>1. UNCHANGED <<frame, told>> /\ \A p \in Call : state'[p] \in {state[p], "rejected"}
    BY <1>7 DEF ChannelClosed
  <2> QED BY <2>1
<1>8. CASE BindQueue \/ UNCHANGED vars \/ \E f \in Chan : BreakLink(f)
  BY <1>8 DEF BindQueue, BreakLink, vars, calls
<1> QED BY <1>1, <1>2, <1>3, <1>4, <1>5, <1>6, <1>7, <1>8 DEF Next

\* A call of publishWithConfirm() that resolves was confirmed: the broker has
\* taken its own message, whichever calls shared its channel, whichever timers
\* ran out and whichever channels were lost.
THEOREM ResolvedWasTaken == Spec => []ResolvedMeansTaken
<1>1. Init => ResolvedMeansTaken
  BY DEF Init, ResolvedMeansTaken
<1>2. TypeOK /\ ResolvedMeansTaken /\ [Next]_vars => ResolvedMeansTaken'
  BY ResolvedStep
<1> QED BY <1>1, <1>2, TypeCorrect, PTL DEF Spec
=============================================================================
