-------------------------- MODULE MCRetryTopology --------------------------
(* RetryTopology for TLC: two workers share an event and retry differently;*)
(* a third one has an event of its own and retries without delay.          *)
EXTENDS RetryTopology

CONSTANTS m1, quick, slow, direct, shared, own

Of(x, y, z)     == [w \in Worker |-> CASE w = quick -> x [] w = slow -> y [] w = direct -> z]
MCEventOf       == [m \in Msg |-> IF m = m1 THEN shared ELSE own]
MCEvents        == Of({shared}, {shared}, {own})
MCMaxRetries    == Of(2, 1, 1)
MCInitialDelay  == Of(1, 3, 0)
MCBackoffFactor == Of(4, 2, 2)
MCMaxDelay      == Of(2, 3, 2)
=============================================================================
