---------------------------- MODULE MCQueueCraft ----------------------------
(* QueueCraft for TLC: two configurations with one key, and one of its own. *)
EXTENDS QueueCraft

CONSTANTS w1, w2, w3, k1, k2

MCKeyOf == [w \in Worker |-> IF w = w3 THEN k2 ELSE k1]
=============================================================================
