---------------------------- MODULE MCController ----------------------------
(* Instances of Controller for the model checker.                          *)
EXTENDS Controller, TLC

CONSTANTS r1, r2
=============================================================================
