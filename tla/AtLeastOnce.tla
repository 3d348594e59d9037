---------------------------- MODULE AtLeastOnce ----------------------------
(***************************************************************************)
(* What a worker promises its application about each message, whatever     *)
(* becomes of the channels: once published it is held by the broker, in a  *)
(* queue, a delay queue or a dead-letter queue, until its processing came  *)
(* to an end or the worker gave it up (src/src/worker.ts, lines 202 to     *)
(* 276, 387 and 431).  A message that was settled may be delivered again;  *)
(* it never counts as unsettled again.  A message that was given up may    *)
(* still be settled, by an older delivery of it or by another copy.        *)
(***************************************************************************)
CONSTANT Msg
VARIABLE status

Status == {"unpublished", "held", "settled", "givenUp"}

Init == status = [m \in Msg |-> "unpublished"]

Publish(m) == status[m] = "unpublished" /\ status'[m] = "held"
Settle(m)  == status[m] \in {"held", "givenUp"} /\ status'[m] = "settled"
GiveUp(m)  == status[m] = "held" /\ status'[m] = "givenUp"

\* A step of the broker may concern several messages.
Next ==
  /\ status' \in [Msg -> Status]
  /\ \A m \in Msg : status'[m] = status[m] \/ Publish(m) \/ Settle(m) \/ GiveUp(m)

Spec == Init /\ [][Next]_status
=============================================================================
