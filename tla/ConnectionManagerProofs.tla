---------------------- MODULE ConnectionManagerProofs ----------------------
(***************************************************************************)
(* Proofs about the reconnect loop of ConnectionManager, for every number  *)
(* of connections, channels, loops and attempts.                           *)
(*                                                                         *)
(* isReconnecting works as a lock although nothing acquires it atomically: *)
(* it is read and set in the turn that starts a loop, and the turn that    *)
(* ends a loop clears it.  The invariant adds to OneLoop that the counter  *)
(* the loops share is the one of the loop that runs.                       *)
(*                                                                         *)
(* RefsAreOpen is about the listeners: whoever ends an object that a field *)
(* refers to runs a listener that clears the field, unless close() has     *)
(* detached it and clears the field itself (HooksInv).                     *)
(*                                                                         *)
(* That a channel which is being opened is a new one (OpeningInv) is what  *)
(* the refinement of ChannelProvider needs beyond it.                      *)
(***************************************************************************)
EXTENDS ConnectionManager, TLAPS

\* The loops and the fields they share have the types of TypeOK.
LoopTypes ==
  /\ loop \in [Loop -> {"none", "asleep", "connecting", "resolved", "rejected"}]
  /\ made \in [Loop -> Nat]
  /\ isReconnecting \in BOOLEAN
  /\ reconnectAttempts \in 0..MaxAttempts

LoopInv == LoopTypes /\ OneLoop /\ AttemptsBounded

\* Fresh chooses a member of its argument or nothing.
LEMMA FreshSubset == ASSUME NEW S PROVE Fresh(S) \subseteq S
BY DEF Fresh

\* A step that starts no loop, ends none and wakes none.
LEMMA LoopsKept ==
  ASSUME LoopInv, ~wasClosed, ~wasClosed',
         UNCHANGED <<made, isReconnecting, reconnectAttempts, reconnectTimer>>,
         NEW how \in {"resolved", "rejected"}, loop' \in {loop, Settled(how)}
  PROVE  LoopInv'
<1>1. loop' \in [Loop -> {"none", "asleep", "connecting", "resolved", "rejected"}]
  BY DEF LoopInv, LoopTypes, Settled
<1>2. \A l \in Loop : /\ Active(l)' <=> Active(l)
                      /\ loop'[l] = "asleep" => loop[l] = "asleep"
  BY DEF LoopInv, LoopTypes, Settled, Active
<1>3. OneLoop'
  BY <1>2 DEF LoopInv, OneLoop
<1>4. AttemptsBounded'
  BY <1>2 DEF LoopInv, AttemptsBounded
<1> QED BY <1>1, <1>3, <1>4 DEF LoopInv, LoopTypes

\* The end of a connection starts a loop only if none runs.
LEMMA StartsAlone ==
  ASSUME ManagerAssumption, LoopInv, ~wasClosed, ~wasClosed', NEW base \in {loop, Settled("rejected")},
         StartLoop(base)
  PROVE  LoopInv'
<1>1. CASE ~(AutoReconnect /\ ~isReconnecting)
  BY <1>1, LoopsKept DEF StartLoop, KeepLoops
<1>2. CASE AutoReconnect /\ ~isReconnecting
  <2>1. PICK l \in Loop : /\ loop[l] = "none" /\ loop' = [base EXCEPT ![l] = "asleep"]
                          /\ made' = [made EXCEPT ![l] = 1] /\ isReconnecting'
                          /\ reconnectAttempts' = 1 /\ reconnectTimer' = l
    BY <1>2, FreshSubset DEF StartLoop, BeginLoop, NewLoops
  <2>2. \A k \in Loop : ~Active(k)
    BY <1>2 DEF LoopInv, OneLoop
  <2>3. base = loop
    BY <2>2 DEF Settled, Active, LoopInv, LoopTypes
  <2>4. LoopTypes'
    BY <1>2, <2>1, <2>3, ManagerAssumption DEF LoopInv, LoopTypes
  <2>5. Active(l)' /\ \A k \in Loop : k # l => ~Active(k)' /\ loop'[k] # "asleep"
    BY <2>1, <2>2, <2>3 DEF LoopInv, LoopTypes, Active
  <2>6. OneLoop'
    BY <2>1, <2>5 DEF OneLoop
  <2>7. AttemptsBounded'
    BY <2>1, <2>5, ManagerAssumption DEF LoopInv, LoopTypes, AttemptsBounded
  <2> QED BY <2>4, <2>6, <2>7 DEF LoopInv
<1> QED BY <1>1, <1>2

\* So does close() of a connection, which is such an end.
LEMMA EndSocketLoops ==
  ASSUME ManagerAssumption, LoopInv, ~wasClosed, ~wasClosed', NEW s, EndSocket(s)
  PROVE  LoopInv'
<1> DEFINE base == IF opening = s THEN Settled("rejected") ELSE loop
<1>1. CASE s \in sockHooked
  <2>1. StartLoop(base)
    BY <1>1 DEF EndSocket
  <2> QED BY <2>1, StartsAlone
<1>2. CASE s \notin sockHooked
  BY <1>2, LoopsKept DEF EndSocket, KeepLoops
<1> QED BY <1>1, <1>2

\* The turns of a loop itself.
LEMMA LoopTurn ==
  ASSUME ManagerAssumption, LoopInv, ~wasClosed, ~wasClosed',
         NEW l \in Loop, Wake(l) \/ Reconnected(l) \/ AttemptFailed(l)
  PROVE  LoopInv'
<1> USE DEF LoopInv, LoopTypes
<1>1. /\ Active(l) /\ isReconnecting /\ made[l] = reconnectAttempts
      /\ \A k \in Loop : k # l => ~Active(k)
  BY DEF Wake, Reconnected, AttemptFailed, Active, OneLoop, AttemptsBounded
<1>2. ASSUME NEW k \in Loop, k # l PROVE loop'[k] = loop[k] /\ made'[k] = made[k]
  BY <1>2 DEF Wake, Reconnected, AttemptFailed, Retries, GivesUp, EndLoop
<1>3. \A k \in Loop : k # l => ~Active(k)' /\ loop'[k] # "asleep"
  BY <1>1, <1>2 DEF Active
<1>4. CASE Wake(l)
  <2>1. LoopTypes' /\ Active(l)' /\ loop'[l] # "asleep"
    BY <1>4 DEF Wake, Active
  <2>2. UNCHANGED <<made, isReconnecting, reconnectAttempts>>
    BY <1>4 DEF Wake
  <2>3. OneLoop'
    BY <1>1, <1>3, <2>1, <2>2 DEF OneLoop
  <2>4. AttemptsBounded'
    BY <1>1, <1>3, <2>1, <2>2 DEF AttemptsBounded
  <2> QED BY <2>1, <2>3, <2>4
<1>5. CASE /\ EndLoop(l) /\ isReconnecting' = FALSE
           /\ reconnectAttempts' \in {0, reconnectAttempts}
  <2>1. ~Active(l)' /\ loop'[l] # "asleep"
    BY <1>5 DEF Active, EndLoop
  <2>0. 0 \in 0..MaxAttempts
    BY ManagerAssumption
  <2>4. LoopTypes' /\ made'[l] = 0
    BY <1>5, <2>0 DEF EndLoop
  <2>2. OneLoop'
    BY <1>3, <1>5, <2>1 DEF OneLoop
  <2>3. AttemptsBounded'
    BY <1>2, <1>3, <2>0, <2>1, <2>4 DEF AttemptsBounded
  <2> QED BY <2>2, <2>3, <2>4
<1>6. CASE /\ reconnectAttempts < MaxAttempts /\ loop' = [loop EXCEPT ![l] = "asleep"]
           /\ made' = [made EXCEPT ![l] = @ + 1] /\ reconnectAttempts' = reconnectAttempts + 1
           /\ reconnectTimer' = l /\ UNCHANGED isReconnecting
  <2>1. LoopTypes' /\ Active(l)'
    BY <1>6, ManagerAssumption DEF Active
  <2>2. OneLoop'
    BY <1>1, <1>3, <1>6, <2>1 DEF OneLoop
  <2>3. made'[l] = reconnectAttempts' /\ made'[l] <= MaxAttempts
    BY <1>1, <1>6, ManagerAssumption
  <2>4. AttemptsBounded'
    BY <1>2, <1>3, <2>3 DEF AttemptsBounded
  <2> QED BY <2>1, <2>2, <2>4
<1> QED BY <1>4, <1>5, <1>6 DEF Reconnected, AttemptFailed, AttemptsLeft, Retries, GivesUp

\* The steps of close().
CloseStep == \E k \in Closer :
  CloseCalled(k) \/ ConfirmClosed(k) \/ ChannelClosed(k) \/ ConnectionClosed(k)

\* The steps of close() set wasClosed.
LEMMA CloseSets == CloseStep => wasClosed'
BY DEF CloseStep, CloseCalled, ConfirmClosed, ChannelClosed, ConnectionClosed,
       CloseChannel, CloseConnection, Returns, Awaits

\* They are the only ones that do, and it stays set.
LEMMA CloseIsRemembered ==
  ASSUME [Next]_vars
  PROVE  \/ CloseStep /\ wasClosed'
         \/ ~CloseStep /\ UNCHANGED <<closing, wasClosed>>
         \/ UNCHANGED vars
<1>1. CASE CloseStep
  BY <1>1, CloseSets
<1>2. CASE ~CloseStep /\ Next
  BY <1>2 DEF CloseStep, Next, Connect, DialSucceeds, DialFails, ChannelCreated,
       ChannelRefused, ConfirmRequested, ConfirmCreated, ConfirmEnds, ConnectionEnds,
       ChannelEnds, Wake, Reconnected, AttemptFailed, closes
<1> QED BY <1>1, <1>2

\* The invariant of the loops is about a manager that was not closed.
OpenInv == ~wasClosed => LoopInv /\ \A k \in Closer : closing[k] = "no"

\* Until close() is called, every action keeps the invariant of the loops.
LEMMA LoopStep ==
  ASSUME ManagerAssumption, OpenInv, [Next]_vars
  PROVE  OpenInv'
<1>1. CASE wasClosed'
  BY <1>1 DEF OpenInv
<1>2. CASE ~wasClosed'
  <2>0. /\ ~wasClosed /\ LoopInv /\ closing' = closing /\ ~CloseStep
        /\ \A k \in Closer : closing[k] = "no"
    <3>1. (~CloseStep /\ UNCHANGED <<closing, wasClosed>>) \/ UNCHANGED vars
      BY <1>2, CloseIsRemembered
    <3>2. UNCHANGED <<closing, wasClosed>>
      BY <3>1 DEF vars, closes
    <3>3. ~CloseStep
      BY <1>2, CloseSets
    <3> QED BY <1>2, <3>2, <3>3 DEF OpenInv
  <2> SUFFICES LoopInv'
    BY <2>0 DEF OpenInv
  <2>1. ASSUME NEW s \in Socket, ConnectionEnds(s) PROVE LoopInv'
    BY <1>2, <2>0, <2>1, EndSocketLoops DEF ConnectionEnds
  <2>2. ASSUME NEW l \in Loop, Wake(l) \/ Reconnected(l) \/ AttemptFailed(l) PROVE LoopInv'
    BY <1>2, <2>0, <2>2, LoopTurn
  <2>3. CASE DialFails \/ ChannelRefused \/ ChannelCreated
    BY <1>2, <2>0, <2>3, LoopsKept DEF DialFails, ChannelRefused, ChannelCreated
  <2>4. CASE Connect \/ DialSucceeds \/ ConfirmRequested
    BY <1>2, <2>0, <2>4, LoopsKept DEF Connect, DialSucceeds, ConfirmRequested, retrying
  <2>5. ASSUME NEW f \in Confirm, ConfirmCreated(f) \/ ConfirmEnds(f) PROVE LoopInv'
    BY <1>2, <2>0, <2>5, LoopsKept DEF ConfirmCreated, ConfirmEnds, retrying
  <2>6. ASSUME NEW s \in Socket, ChannelEnds(s) PROVE LoopInv'
    BY <1>2, <2>0, <2>6, LoopsKept DEF ChannelEnds, retrying
  <2>7. CASE UNCHANGED vars
    BY <1>2, <2>0, <2>7, LoopsKept DEF vars, retrying
  <2> QED BY <2>0, <2>1, <2>2, <2>3, <2>4, <2>5, <2>6, <2>7 DEF Next, CloseStep
<1> QED BY <1>1, <1>2

\* Until the application closes, the invariant of the loops holds, whatever
\* connections and channels do and whoever calls connect().
LEMMA LoopInvariant == Spec => []OpenInv
<1>1. ASSUME Init PROVE OpenInv
  <2>0. 0 \in 0..MaxAttempts
    BY ManagerAssumption
  <2>1. LoopTypes
    BY <1>1, <2>0 DEF Init, LoopTypes
  <2>2. \A l \in Loop : ~Active(l) /\ loop[l] # "asleep" /\ made[l] = 0
    BY <1>1 DEF Init, Active
  <2>3. isReconnecting = FALSE
    BY <1>1 DEF Init
  <2>4. OneLoop
    BY <2>2, <2>3 DEF OneLoop
  <2>5. AttemptsBounded
    BY <2>2, <2>0 DEF AttemptsBounded
  <2> QED BY <1>1, <2>1, <2>4, <2>5 DEF LoopInv, OpenInv, Init
<1>2. OpenInv /\ [Next]_vars => OpenInv'
  BY ManagerAssumption, LoopStep
<1> QED BY <1>1, <1>2, PTL DEF Spec

\* isReconnecting is a lock: until close(), at most one reconnect loop runs,
\* exactly while the flag is set, and its timer is the one close() would clear.
THEOREM LoopIsExclusive == Spec => []OneLoop
<1>1. OpenInv => OneLoop
  BY DEF OpenInv, LoopInv, OneLoop
<1> QED BY <1>1, LoopInvariant, PTL

\* A loop announces no more than maxAttempts attempts and counts them right,
\* if the application does not close the manager meanwhile.
THEOREM AttemptsStayBounded == Spec => []AttemptsBounded
<1>1. OpenInv => AttemptsBounded
  BY DEF OpenInv, LoopInv, AttemptsBounded
<1> QED BY <1>1, LoopInvariant, PTL

-----------------------------------------------------------------------------
(* The references of the manager.                                          *)

\* What the steps of close() add to TypeOK.
CloseTypes ==
  /\ closing \in [Closer -> {"no", "confirm", "channel", "connection"}]
  /\ closeOf \in [Closer -> Socket \cup Confirm \cup {None}]
  /\ wasClosed \in BOOLEAN

\* Waiting for an object of the manager keeps them.
LEMMA AwaitsTypes ==
  ASSUME TypeOK, NEW k \in Closer, NEW what \in {"no", "confirm", "channel", "connection"},
         NEW x \in Socket \cup Confirm \cup {None}, Awaits(k, what, x)
  PROVE  CloseTypes'
BY DEF TypeOK, CloseTypes, Awaits

\* So does close() from its connection on.
LEMMA CloseConnectionTypes ==
  ASSUME TypeOK, NEW k \in Closer, CloseConnection(k)
  PROVE  /\ CloseTypes' /\ connection' \in Socket \cup {None}
         /\ handlers' \subseteq {"connection", "channel", "confirm"}
<1>1. CASE ConnectionCloses
  BY <1>1, AwaitsTypes DEF TypeOK, CloseConnection
<1>2. CASE ~ConnectionCloses
  BY <1>2, AwaitsTypes DEF TypeOK, CloseConnection, Returns
<1> QED BY <1>1, <1>2

\* So does close() from its channel on.
LEMMA CloseChannelTypes ==
  ASSUME TypeOK, NEW k \in Closer, CloseChannel(k)
  PROVE  /\ CloseTypes' /\ connection' \in Socket \cup {None} /\ channel' \in Socket \cup {None}
         /\ handlers' \subseteq {"connection", "channel", "confirm"}
<1>1. CASE ChannelCloses
  BY <1>1, AwaitsTypes DEF TypeOK, CloseChannel
<1>2. CASE ~ChannelCloses
  BY <1>2, CloseConnectionTypes DEF CloseChannel
<1> QED BY <1>1, <1>2

\* Every action keeps the types.
LEMMA TypeStep ==
  ASSUME ManagerAssumption, TypeOK, [Next]_vars
  PROVE  TypeOK'
<1>a. 0 \in 0..MaxAttempts /\ 1 \in 0..MaxAttempts
  BY ManagerAssumption
<1>b. NewSockets \subseteq Socket /\ NewConfirms \subseteq Confirm /\ NewLoops \subseteq Loop
  BY FreshSubset DEF NewSockets, NewConfirms, NewLoops
<1>c. \A how \in {"resolved", "rejected"} :
        Settled(how) \in [Loop -> {"none", "asleep", "connecting", "resolved", "rejected"}]
  BY DEF Settled, TypeOK
<1>1. ASSUME NEW base \in {loop, Settled("rejected")}, BeginLoop(base) \/ KeepLoops(base)
      PROVE  /\ loop' \in [Loop -> {"none", "asleep", "connecting", "resolved", "rejected"}]
             /\ made' \in [Loop -> Nat] /\ isReconnecting' \in BOOLEAN
             /\ reconnectAttempts' \in 0..MaxAttempts /\ reconnectTimer' \in Loop \cup {None}
  <2>1. /\ base \in [Loop -> {"none", "asleep", "connecting", "resolved", "rejected"}]
        /\ made \in [Loop -> Nat] /\ isReconnecting \in BOOLEAN
        /\ reconnectAttempts \in 0..MaxAttempts /\ reconnectTimer \in Loop \cup {None}
    BY <1>c DEF TypeOK
  <2>2. CASE BeginLoop(base)
    <3>1. PICK l \in NewLoops :
            /\ loop' = [base EXCEPT ![l] = "asleep"]
            /\ made' = [made EXCEPT ![l] = 1]
            /\ isReconnecting' = TRUE /\ reconnectAttempts' = 1 /\ reconnectTimer' = l
      BY <2>2 DEF BeginLoop
    <3>2. l \in Loop
      BY <1>b
    <3> QED BY <2>1, <3>1, <3>2, <1>a
  <2>3. CASE KeepLoops(base)
    BY <2>1, <2>3 DEF KeepLoops
  <2> QED BY <1>1, <2>2, <2>3
<1>2. ASSUME NEW s, EndSocket(s), connection' \in {connection, None},
             gaveUp' = gaveUp, handlers' \in {handlers, {}},
             \/ UNCHANGED closes
             \/ \E k \in Closer : Awaits(k, "no", None)
      PROVE  TypeOK'
  <2> DEFINE base == IF opening = s THEN Settled("rejected") ELSE loop
  <2>1. base \in {loop, Settled("rejected")} /\ (BeginLoop(base) \/ KeepLoops(base))
    BY <1>2 DEF EndSocket, StartLoop
  <2>2. /\ loop' \in [Loop -> {"none", "asleep", "connecting", "resolved", "rejected"}]
        /\ made' \in [Loop -> Nat] /\ isReconnecting' \in BOOLEAN
        /\ reconnectAttempts' \in 0..MaxAttempts /\ reconnectTimer' \in Loop \cup {None}
    BY <1>1, <2>1
  <2>3. /\ sock' \in [Socket -> {"unused", "open", "closed"}]
        /\ chan' \in [Socket -> {"none", "open", "closed"}]
        /\ conf' \in [Confirm -> {"unused", "opening", "open", "closed"}]
        /\ sockHooked' \subseteq Socket /\ chanHooked' \subseteq Socket
        /\ confHooked' \subseteq Confirm
    BY <1>2 DEF TypeOK, EndSocket
  <2>4. /\ channel' \in Socket \cup {None} /\ confirmChannel' \in Confirm \cup {None}
        /\ opening' \in Socket \cup {None} /\ dialing' \in BOOLEAN
        /\ confOn' \in [Confirm -> Socket \cup {None}]
        /\ connection' \in Socket \cup {None}
    BY <1>2 DEF TypeOK, EndSocket
  <2>5. /\ CloseTypes' /\ gaveUp' \in BOOLEAN
        /\ handlers' \subseteq {"connection", "channel", "confirm"}
    BY <1>2, AwaitsTypes DEF TypeOK, CloseTypes, closes
  <2> QED BY <2>2, <2>3, <2>4, <2>5 DEF TypeOK, CloseTypes
<1>3. ASSUME NEW s \in Socket, ConnectionEnds(s) PROVE TypeOK'
  BY <1>2, <1>3 DEF ConnectionEnds
<1>4. ASSUME NEW k \in Closer, ConnectionClosed(k) PROVE TypeOK'
  BY <1>2, <1>4 DEF ConnectionClosed, Returns
<1>5. CASE Connect
  BY <1>5 DEF TypeOK, Connect, BeginConnect, objects, refs, retrying, closes
<1>6. CASE DialSucceeds
  <2>1. PICK s \in NewSockets :
          /\ sock' = [sock EXCEPT ![s] = "open"] /\ sockHooked' = sockHooked \cup {s}
          /\ connection' = s /\ opening' = s
    BY <1>6 DEF DialSucceeds
  <2>2. s \in Socket
    BY <1>b
  <2> QED BY <1>6, <2>1, <2>2 DEF TypeOK, DialSucceeds, retrying, closes
<1>7. CASE DialFails
  BY <1>7, <1>c DEF TypeOK, DialFails, objects, closes
<1>8. CASE ChannelCreated
  BY <1>8, <1>c DEF TypeOK, ChannelCreated, closes
<1>9. CASE ChannelRefused
  BY <1>9, <1>c DEF TypeOK, ChannelRefused, objects, closes
<1>10. CASE ConfirmRequested
  BY <1>10, <1>b DEF TypeOK, ConfirmRequested, hooks, refs, retrying, closes
<1>11. ASSUME NEW f \in Confirm, ConfirmCreated(f) \/ ConfirmEnds(f) PROVE TypeOK'
  <2>1. CASE ConfirmCreated(f)
    BY <1>11, <2>1 DEF TypeOK, ConfirmCreated, retrying, closes
  <2>2. CASE ConfirmEnds(f)
    BY <1>11, <2>2 DEF TypeOK, ConfirmEnds, retrying, closes
  <2> QED BY <1>11, <2>1, <2>2
<1>12. ASSUME NEW s \in Socket, ChannelEnds(s) PROVE TypeOK'
  BY <1>12 DEF TypeOK, ChannelEnds, Cleared, retrying, closes
<1>13. ASSUME NEW l \in Loop, Wake(l) PROVE TypeOK'
  <2>1. /\ loop' \in [Loop -> {"none", "asleep", "connecting", "resolved", "rejected"}]
        /\ dialing' \in BOOLEAN /\ opening' = opening
    BY <1>13 DEF TypeOK, Wake, BeginConnect
  <2> QED BY <1>13, <2>1 DEF TypeOK, Wake, objects, refs, closes
<1>14. ASSUME NEW l \in Loop, Reconnected(l) PROVE TypeOK'
  <2>1. /\ made' \in [Loop -> Nat]
        /\ loop' \in [Loop -> {"none", "asleep", "connecting", "resolved", "rejected"}]
        /\ isReconnecting' \in BOOLEAN /\ reconnectAttempts' \in 0..MaxAttempts
    BY <1>14, <1>a DEF TypeOK, Reconnected, EndLoop
  <2> QED BY <1>14, <2>1 DEF TypeOK, Reconnected, objects, refs, closes
<1>15. ASSUME NEW l \in Loop, AttemptFailed(l) PROVE TypeOK'
  <2>1. CASE AttemptsLeft /\ Retries(l)
    BY <1>15, <2>1, ManagerAssumption DEF TypeOK, AttemptFailed, AttemptsLeft, Retries, objects, refs, closes
  <2>2. CASE GivesUp(l)
    <3>1. /\ loop' \in [Loop -> {"none", "asleep", "connecting", "resolved", "rejected"}]
          /\ made' \in [Loop -> Nat] /\ isReconnecting' \in BOOLEAN /\ gaveUp' \in BOOLEAN
      BY <2>2 DEF TypeOK, GivesUp, EndLoop
    <3>2. UNCHANGED <<reconnectAttempts, reconnectTimer>>
      BY <2>2 DEF GivesUp
    <3> QED BY <1>15, <3>1, <3>2 DEF TypeOK, AttemptFailed, objects, refs, closes
  <2> QED BY <1>15, <2>1, <2>2 DEF AttemptFailed
<1>16. ASSUME NEW k \in Closer, CloseCalled(k) PROVE TypeOK'
  <2>1. /\ loop' \in [Loop -> {"none", "asleep", "connecting", "resolved", "rejected"}]
        /\ made' \in [Loop -> Nat]
    BY <1>16 DEF TypeOK, CloseCalled, EndLoop
  <2>2. /\ sockHooked' \subseteq Socket /\ chanHooked' \subseteq Socket
        /\ confHooked' \subseteq Confirm
    BY <1>16 DEF TypeOK, CloseCalled, Detached
  <2>3. CASE ConfirmCloses
    <3>1. Awaits(k, "confirm", confirmChannel) /\ UNCHANGED <<refs, handlers>>
      BY <1>16, <2>3 DEF CloseCalled
    <3>2. CloseTypes'
      BY <3>1, AwaitsTypes DEF TypeOK
    <3> QED BY <1>16, <2>1, <2>2, <3>1, <3>2 DEF TypeOK, CloseTypes, CloseCalled, refs
  <2>4. CASE ~ConfirmCloses
    <3>1. confirmChannel' = None /\ CloseChannel(k)
      BY <1>16, <2>4 DEF CloseCalled
    <3> QED BY <1>16, <2>1, <2>2, <3>1, CloseChannelTypes DEF TypeOK, CloseTypes, CloseCalled
  <2> QED BY <2>3, <2>4
<1>17. ASSUME NEW k \in Closer, ConfirmClosed(k) PROVE TypeOK'
  BY <1>17, CloseChannelTypes DEF TypeOK, CloseTypes, ConfirmClosed, retrying
<1>18. ASSUME NEW k \in Closer, ChannelClosed(k) PROVE TypeOK'
  BY <1>18, CloseConnectionTypes DEF TypeOK, CloseTypes, ChannelClosed, Cleared, retrying
<1>19. CASE UNCHANGED vars
  BY <1>19 DEF TypeOK, vars, objects, refs, retrying, closes
<1> QED BY <1>3, <1>4, <1>5, <1>6, <1>7, <1>8, <1>9, <1>10, <1>11, <1>12, <1>13, <1>14,
           <1>15, <1>16, <1>17, <1>18, <1>19 DEF Next

\* Every reachable state of the manager is type correct.
THEOREM TypeCorrect == Spec => []TypeOK
<1>1. ASSUME Init PROVE TypeOK
  <2>1. 0 \in 0..MaxAttempts
    BY ManagerAssumption
  <2> QED BY <1>1, <2>1 DEF Init, TypeOK
<1>2. TypeOK /\ [Next]_vars => TypeOK'
  BY ManagerAssumption, TypeStep
<1> QED BY <1>1, <1>2, PTL DEF Spec

\* Why no reference outlives its object: an object with listeners is open, and a
\* field refers to an object with listeners, which clear it, or to one that
\* close() has yet to come to.
HooksInv ==
  /\ \A s \in sockHooked : sock[s] = "open"
  /\ \A s \in chanHooked : chan[s] = "open"
  /\ \A f \in confHooked : conf[f] = "open"
  /\ connection # None => connection \in sockHooked \/ \E k \in Closer : closing[k] # "no"
  /\ channel # None =>
       channel \in chanHooked \/ \E k \in Closer : closing[k] \in {"confirm", "channel"}
  /\ confirmChannel # None =>
       confirmChannel \in confHooked \/ \E k \in Closer : closing[k] = "confirm"

\* The end of a connection takes its listeners and clears the fields they clear.
LEMMA EndSocketHooks ==
  ASSUME TypeOK, HooksInv, NEW s, EndSocket(s),
         \/ connection' = None /\ \E k \in Closer : closing[k] = "connection" /\ Awaits(k, "no", None)
         \/ /\ connection' = IF s \in sockHooked \/ opening = s THEN None ELSE connection
            /\ UNCHANGED closes
  PROVE  HooksInv'
<1>1. /\ \A x \in sockHooked' : sock'[x] = "open"
      /\ \A x \in chanHooked' : chan'[x] = "open"
      /\ \A f \in confHooked' : conf'[f] = "open"
  BY DEF TypeOK, HooksInv, EndSocket
<1>2. connection' # None =>
        connection' \in sockHooked' \/ \E k \in Closer : closing'[k] # "no"
  BY DEF TypeOK, HooksInv, EndSocket, closes
<1>3. channel' # None => channel' = channel /\ (channel \in chanHooked => channel \in chanHooked')
  BY DEF EndSocket
<1>4. confirmChannel' # None =>
        confirmChannel' = confirmChannel /\ (confirmChannel \in confHooked => confirmChannel \in confHooked')
  BY DEF EndSocket
<1>5. \A k \in Closer : closing[k] \in {"confirm", "channel"} => closing'[k] = closing[k]
  BY DEF TypeOK, closes, Awaits
<1> QED BY <1>1, <1>2, <1>3, <1>4, <1>5 DEF HooksInv

\* Every action keeps HooksInv, the steps of close() among them.
LEMMA HooksStep ==
  ASSUME TypeOK, HooksInv, [Next]_vars
  PROVE  HooksInv'
<1>1. ASSUME NEW s \in Socket, ConnectionEnds(s) PROVE HooksInv'
  BY <1>1, EndSocketHooks DEF ConnectionEnds
<1>2. ASSUME NEW k \in Closer, ConnectionClosed(k) PROVE HooksInv'
  BY <1>2, EndSocketHooks DEF ConnectionClosed, Returns
<1>3. CASE DialSucceeds
  BY <1>3, FreshSubset DEF TypeOK, HooksInv, DialSucceeds, NewSockets, closes
<1>4. CASE DialFails \/ ChannelRefused
  BY <1>4 DEF HooksInv, DialFails, ChannelRefused, objects, closes
<1>5. CASE ChannelCreated
  BY <1>5 DEF TypeOK, HooksInv, ChannelCreated, closes
<1>6. CASE ConfirmRequested
  <2>1. PICK f \in Confirm : /\ conf[f] = "unused"
                             /\ \E v : conf' = [conf EXCEPT ![f] = v]
    BY <1>6, FreshSubset DEF ConfirmRequested, NewConfirms
  <2> QED BY <1>6, <2>1 DEF TypeOK, HooksInv, ConfirmRequested, hooks, refs, closes
<1>7. ASSUME NEW f \in Confirm, ConfirmCreated(f) PROVE HooksInv'
  BY <1>7 DEF TypeOK, HooksInv, ConfirmCreated, closes
<1>8. ASSUME NEW f \in Confirm, ConfirmEnds(f) PROVE HooksInv'
  BY <1>8 DEF TypeOK, HooksInv, ConfirmEnds, closes
<1>9. ASSUME NEW s \in Socket, ChannelEnds(s) PROVE HooksInv'
  BY <1>9 DEF TypeOK, HooksInv, ChannelEnds, Cleared, closes
<1>10. ASSUME NEW k \in Closer, CloseCalled(k) PROVE HooksInv'
  <2>1. closing[k] = "no"
    BY <1>10, FreshSubset DEF CloseCalled, NewClosers
  <2>2. /\ sockHooked' \subseteq sockHooked /\ chanHooked' \subseteq chanHooked
        /\ confHooked' \subseteq confHooked /\ UNCHANGED <<sock, chan, conf>>
    BY <1>10 DEF CloseCalled, Detached
  <2>3. CASE ConfirmCloses
    <3>1. Awaits(k, "confirm", confirmChannel) /\ UNCHANGED refs
      BY <1>10, <2>3 DEF CloseCalled
    <3>2. closing'[k] = "confirm"
      BY <3>1 DEF TypeOK, Awaits
    <3> QED BY <2>2, <3>1, <3>2 DEF HooksInv, refs
  <2>4. CASE ~ConfirmCloses
    <3>1. confirmChannel' = None /\ CloseChannel(k)
      BY <1>10, <2>4 DEF CloseCalled
    <3>2. /\ channel' # None => closing'[k] = "channel"
          /\ connection' # None => closing'[k] # "no"
      BY <3>1 DEF TypeOK, CloseChannel, CloseConnection, Awaits, Returns
    <3> QED BY <2>2, <3>1, <3>2 DEF HooksInv
  <2> QED BY <2>3, <2>4
<1>11. ASSUME NEW k \in Closer, ConfirmClosed(k) PROVE HooksInv'
  <2>1. /\ channel' # None => closing'[k] = "channel"
        /\ connection' # None => closing'[k] # "no"
    BY <1>11 DEF ConfirmClosed, TypeOK, CloseChannel, CloseConnection, Awaits, Returns
  <2> QED BY <1>11, <2>1 DEF TypeOK, HooksInv, ConfirmClosed
<1>12. ASSUME NEW k \in Closer, ChannelClosed(k) PROVE HooksInv'
  <2>1. /\ connection' # None => closing'[k] # "no"
        /\ \A j \in Closer : closing[j] = "confirm" => closing'[j] = "confirm"
    BY <1>12 DEF ChannelClosed, TypeOK, CloseConnection, Awaits, Returns
  <2>2. /\ channel' = None /\ confirmChannel' \in {confirmChannel, None}
        /\ UNCHANGED <<sock, conf, sockHooked, confHooked>>
        /\ chan' = [chan EXCEPT ![closeOf[k]] = "closed"]
        /\ chanHooked' = chanHooked \ {closeOf[k]}
    BY <1>12 DEF ChannelClosed, Cleared
  <2> QED BY <2>1, <2>2 DEF TypeOK, HooksInv
<1>13. ASSUME UNCHANGED <<objects, refs, closing>> PROVE HooksInv'
  BY <1>13 DEF HooksInv, objects, refs
<1>14. CASE Connect
  BY <1>13, <1>14 DEF Connect, closes
<1>15. ASSUME NEW l \in Loop, Wake(l) \/ Reconnected(l) \/ AttemptFailed(l) PROVE HooksInv'
  BY <1>13, <1>15 DEF Wake, Reconnected, AttemptFailed, closes
<1>16. CASE UNCHANGED vars
  BY <1>13, <1>16 DEF vars, closes
<1> QED BY <1>1, <1>2, <1>3, <1>4, <1>5, <1>6, <1>7, <1>8, <1>9, <1>10, <1>11, <1>12,
           <1>14, <1>15, <1>16 DEF Next

\* Outside close(), what the manager refers to is open, for any number of
\* connections and channels and whatever ends in whatever order.
THEOREM ReferencesStayOpen == Spec => []RefsAreOpen
<1>1. Init => HooksInv
  BY DEF Init, HooksInv
<1>2. TypeOK /\ HooksInv /\ [Next]_vars => HooksInv'
  BY HooksStep
<1>3. HooksInv => RefsAreOpen
  BY DEF HooksInv, RefsAreOpen
<1> QED BY <1>1, <1>2, <1>3, TypeCorrect, PTL DEF Spec

-----------------------------------------------------------------------------
(* The manager as a ChannelProvider.                                       *)

\* Until close(), the connection whose channel connect() awaits has none yet, and
\* neither has one that was never opened.
OpeningInv ==
  ~wasClosed =>
    /\ ~(dialing /\ opening # None)
    /\ opening # None => chan[opening] = "none" /\ sock[opening] # "unused"
    /\ \A s \in Socket : sock[s] = "unused" => chan[s] = "none"

\* Every action keeps OpeningInv.
LEMMA OpeningStep ==
  ASSUME ManagerAssumption, TypeOK, OpenInv, OpeningInv, [Next]_vars
  PROVE  OpeningInv'
<1>1. CASE wasClosed'
  BY <1>1 DEF OpeningInv
<1>2. CASE ~wasClosed'
  <2>0. ~wasClosed /\ ~CloseStep /\ \A k \in Closer : closing[k] = "no"
    BY <1>2, CloseIsRemembered, CloseSets DEF OpenInv, vars, closes
  <2> USE <2>0 DEF OpeningInv, TypeOK
  <2>1. CASE Connect
    BY <2>1 DEF Connect, BeginConnect, Connecting, objects
  <2>2. CASE DialSucceeds
    <3>1. PICK s \in Socket : sock[s] = "unused" /\ sock' = [sock EXCEPT ![s] = "open"] /\ opening' = s
      BY <2>2, FreshSubset DEF DialSucceeds, NewSockets
    <3> QED BY <2>2, <3>1 DEF DialSucceeds
  <2>3. CASE DialFails \/ ChannelRefused
    BY <2>3 DEF DialFails, ChannelRefused, objects
  <2>4. CASE ChannelCreated
    BY <2>4 DEF ChannelCreated
  <2>5. CASE ConfirmRequested
    BY <2>5 DEF ConfirmRequested
  <2>6. ASSUME NEW f \in Confirm, ConfirmCreated(f) \/ ConfirmEnds(f) PROVE OpeningInv'
    BY <2>6 DEF ConfirmCreated, ConfirmEnds
  <2>7. ASSUME NEW s \in Socket, ConnectionEnds(s) PROVE OpeningInv'
    BY <2>7 DEF ConnectionEnds, EndSocket
  <2>8. ASSUME NEW s \in Socket, ChannelEnds(s) PROVE OpeningInv'
    BY <2>8 DEF ChannelEnds
  <2>9. ASSUME NEW l \in Loop, Wake(l) \/ Reconnected(l) \/ AttemptFailed(l) PROVE OpeningInv'
    BY <2>9 DEF Wake, BeginConnect, Reconnected, AttemptFailed, objects
  <2>10. CASE UNCHANGED vars
    BY <2>10 DEF vars, objects, closes
  <2> QED BY <2>1, <2>2, <2>3, <2>4, <2>5, <2>6, <2>7, <2>8, <2>9, <2>10 DEF Next, CloseStep
<1> QED BY <1>1, <1>2

\* What ChannelProvider sees of the channels.
ProviderState == [s \in Socket |-> IF chan[s] = "none" THEN "new" ELSE chan[s]]

\* Until close(), a step provides a new channel, loses one that is not offered any
\* more, forgets the one that was offered, or is none of the provider's.
LEMMA StepOfProvider ==
  ASSUME ManagerAssumption, TypeOK, HooksInv, OpenInv, OpeningInv, [Next]_vars
  PROVE  [wasClosed' \/ Provider!Next]_<<channel, chan>>
<1>1. CASE wasClosed'
  BY <1>1
<1>2. CASE ~wasClosed'
  <2>0. ~wasClosed /\ ~CloseStep /\ \A k \in Closer : closing[k] = "no"
    BY <1>2, CloseIsRemembered, CloseSets DEF OpenInv, vars, closes
  <2>a. \A s \in Socket : channel = s => s \in chanHooked
    BY <2>0, ManagerAssumption DEF HooksInv
  <2>b. ASSUME channel' = None, chan' = chan PROVE Provider!Next
    BY <2>b DEF ProviderState, Provider!Next, Provider!Forget
  <2>c. ASSUME NEW s \in Socket, chan[s] = "open", chan' = [chan EXCEPT ![s] = "closed"],
               channel' \in {channel, None}, channel = s => channel' = None
        PROVE  Provider!Next
    <3>1. ProviderState' = [ProviderState EXCEPT ![s] = "closed"] /\ ProviderState[s] = "open"
      BY <2>c DEF TypeOK, ProviderState
    <3>2. None # s
      BY ManagerAssumption
    <3>3. Provider!Lose(s)
      BY <2>c, <3>1, <3>2 DEF Provider!Lose, ProviderState
    <3> QED BY <3>3 DEF Provider!Next
  <2>1. ASSUME ChannelCreated PROVE Provider!Next
    <3>1. PICK s \in Socket : /\ channel' = s /\ chan[s] = "none"
                              /\ chan' = [chan EXCEPT ![s] = "open"]
      BY <2>0, <2>1 DEF ChannelCreated, OpeningInv, TypeOK
    <3>2. ProviderState' = [ProviderState EXCEPT ![s] = "open"] /\ ProviderState[s] = "new"
      BY <3>1 DEF TypeOK, ProviderState
    <3>3. Provider!Provide(s)
      BY <3>1, <3>2 DEF Provider!Provide, ProviderState
    <3> QED BY <3>3 DEF Provider!Next
  <2>2. CASE DialFails \/ ChannelRefused
    BY <2>b, <2>2 DEF DialFails, ChannelRefused, objects
  <2>3. ASSUME NEW s \in Socket, ChannelEnds(s) PROVE Provider!Next
    BY <2>a, <2>c, <2>3 DEF ChannelEnds, Cleared
  <2>4. ASSUME NEW s \in Socket, ConnectionEnds(s)
        PROVE  Provider!Next \/ UNCHANGED <<channel, chan>>
    <3>1. /\ channel' \in {channel, None} /\ (s \in chanHooked => channel' = None)
          /\ chan' = [chan EXCEPT ![s] = IF @ = "open" THEN "closed" ELSE @]
      BY <2>4 DEF ConnectionEnds, EndSocket
    <3>2. CASE chan[s] = "open"
      BY <2>a, <2>c, <3>1, <3>2
    <3>3. CASE chan[s] # "open"
      <4>1. chan' = chan
        BY <3>1, <3>3 DEF TypeOK
      <4> QED BY <2>b, <3>1, <4>1
    <3> QED BY <3>2, <3>3
  <2>5. CASE Connect \/ DialSucceeds \/ ConfirmRequested
    BY <2>5 DEF Connect, DialSucceeds, ConfirmRequested, objects, refs
  <2>6. ASSUME NEW f \in Confirm, ConfirmCreated(f) \/ ConfirmEnds(f)
        PROVE  UNCHANGED <<channel, chan>>
    BY <2>6 DEF ConfirmCreated, ConfirmEnds
  <2>7. ASSUME NEW l \in Loop, Wake(l) \/ Reconnected(l) \/ AttemptFailed(l)
        PROVE  UNCHANGED <<channel, chan>>
    BY <2>7 DEF Wake, Reconnected, AttemptFailed, objects, refs
  <2>8. CASE UNCHANGED vars
    BY <2>8 DEF vars, objects, refs
  <2> QED BY <2>0, <2>1, <2>2, <2>3, <2>4, <2>5, <2>6, <2>7, <2>8 DEF Next, CloseStep
<1> QED BY <1>1, <1>2

\* The manager implements ChannelProvider until it is closed: it never offers a
\* channel that has ended, nor one that it has offered before.
THEOREM ImplementsProvider == Spec => ProvidesChannels
<1>1. ASSUME Init PROVE Provider!Init /\ OpeningInv /\ HooksInv
  BY <1>1 DEF Init, Provider!Init, OpeningInv, HooksInv
<1>2. TypeOK /\ HooksInv /\ [Next]_vars => HooksInv'
  BY HooksStep
<1>3. TypeOK /\ OpenInv /\ OpeningInv /\ [Next]_vars => OpeningInv'
  BY ManagerAssumption, OpeningStep
<1>4. TypeOK /\ HooksInv /\ OpenInv /\ OpeningInv /\ [Next]_vars
        => [wasClosed' \/ Provider!Next]_<<channel, chan>>
  BY ManagerAssumption, StepOfProvider
<1> QED BY <1>1, <1>2, <1>3, <1>4, TypeCorrect, LoopInvariant, PTL
        DEF Spec, ProvidesChannels
=============================================================================
