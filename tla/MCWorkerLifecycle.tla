------------------------- MODULE MCWorkerLifecycle -------------------------
(* WorkerLifecycle for TLC: two workers, the queue of b deletes itself.    *)
EXTENDS WorkerLifecycle, TLC

CONSTANTS a, b, e1, e2, OfA, OfB

MCPrefetch == (a :> OfA) @@ (b :> OfB)
MCHandlers == (a :> {e1}) @@ (b :> {e2})
MCChanging == {<<a, e2>>}
=============================================================================
