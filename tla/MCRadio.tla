------------------------------- MODULE MCRadio -------------------------------
(* Instances of RadioDevice for the model checker.                         *)
EXTENDS RadioDevice, TLC

CONSTANTS d1, d2, u1, u2, s1, s2, s3

(* Two entries without a uri; one of them with a uri.                      *)
Discovered == [d \in Devices |-> NoUnit]
OneNamed == (d1 :> u1) @@ (d2 :> NoUnit)

AllOnFirst == [s \in Sessions |-> d1]
=============================================================================
