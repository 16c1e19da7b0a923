---------------------------- MODULE UdpPortPool ----------------------------
(***************************************************************************)
(* The pool of UDP ports from which the resource manager takes one port    *)
(* per assigned channel (include/UdpPortPool.hpp).  Every operation runs   *)
(* under the pool's own mutex, so each one is a single step.               *)
(***************************************************************************)
EXTENDS Integers, FiniteSets

CONSTANT Ports      \* the configured range first..last

VARIABLES free, used

Init ==
    /\ free = Ports
    /\ used = {}

(* The sets are ordered, and allocation walks free_ from its beginning.    *)
Lowest(S, n) == {p \in S : Cardinality({q \in S : q < p}) < n}

CanAllocate(n) == Cardinality(free) >= n

(* allocateN claims the n lowest free ports; when fewer are free it claims *)
(* none and returns the empty vector, which is ~CanAllocate(n) here.       *)
AllocateN(n) ==
    /\ CanAllocate(n)
    /\ free' = free \ Lowest(free, n)
    /\ used' = used \cup Lowest(free, n)

(* Bug: every port handed in enters the free set, found in use or not.     *)
BugReleaseAny(P) ==
    /\ free' = free \cup P
    /\ used' = used \ P

(* releaseAll gives back the ports it finds in use and ignores the others: *)
(* a port the client chose itself is never put into the pool.              *)
ReleaseAll(P) ==
    /\ free' = free \cup (P \cap used)
    /\ used' = used \ P
=============================================================================
