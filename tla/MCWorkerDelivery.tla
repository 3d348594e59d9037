-------------------------- MODULE MCWorkerDelivery --------------------------
(* WorkerDelivery with one routing key, for TLC.                           *)
EXTENDS WorkerDelivery

CONSTANTS e1

MCEventOf == [m \in Msg |-> e1]
=============================================================================
