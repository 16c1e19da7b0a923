---------------------------- MODULE TaskContract ----------------------------
(***************************************************************************)
(* What the resource manager promises about the UDP ports of a task        *)
(* (docs/ICD.md 9.1): a task that is accepted leases ports that no other   *)
(* task has, keeps them for as long as it lives, and gives them back once, *)
(* after it has ended and whatever ended it.                               *)
(***************************************************************************)
CONSTANTS Tasks, Ports

VARIABLES stage, lease

cvars == <<stage, lease>>

Stages == {"none", "live", "ended", "over"}

Init ==
    /\ stage = [t \in Tasks |-> "none"]
    /\ lease = [t \in Tasks |-> {}]

Begin(t) ==
    /\ stage[t] = "none"
    /\ stage' = [stage EXCEPT ![t] = "live"]
    /\ \E P \in SUBSET (Ports \ UNION {lease[u] : u \in Tasks}) :
          lease' = [lease EXCEPT ![t] = P]

End(t) ==
    /\ stage[t] = "live"
    /\ stage' = [stage EXCEPT ![t] = "ended"]
    /\ UNCHANGED lease

Return(t) ==
    /\ stage[t] = "ended"
    /\ stage' = [stage EXCEPT ![t] = "over"]
    /\ lease' = [lease EXCEPT ![t] = {}]

Next == \E t \in Tasks : Begin(t) \/ End(t) \/ Return(t)

SafeSpec == Init /\ [][Next]_cvars

Spec == SafeSpec /\ \A t \in Tasks : WF_cvars(Return(t))
=============================================================================
