----------------------------- MODULE MCChasingCrons -----------------------------
(* Every policy, with a batch that has room for all records and one that    *)
(* has not; runs of the scheduler and of a caller.                          *)
EXTENDS ChasingCrons
CONSTANTS w1, w2
=============================================================================
