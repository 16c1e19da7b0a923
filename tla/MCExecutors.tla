----------------------------- MODULE MCExecutors -----------------------------
(* Instances of Executors for the model checker.                           *)
EXTENDS Executors, TLC

CONSTANTS t1
=============================================================================
