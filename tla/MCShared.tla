------------------------------ MODULE MCShared ------------------------------
(* Instances of SharedStream for the model checker.                        *)
EXTENDS SharedStream, TLC

CONSTANTS t1, t2, t3

TwoChannels == [shared |-> TRUE, rx |-> 2, srmax |-> 64]

(* A slice low in its window; the same on the other channel, and on any;   *)
(* one that doubles the window, and one of half its rate at its centre.    *)
Left == [cf |-> 8, bw |-> 4, sr |-> 16, rx |-> 1, ch |-> 0]
Other == [Left EXCEPT !.ch = 1]
Unpinned == [Left EXCEPT !.ch = -1]
Right == [Left EXCEPT !.cf = 26]
Centre == [Left EXCEPT !.sr = 8]

Pairs == {(t1 :> Left) @@ (t2 :> r) : r \in {Left, Other, Unpinned, Right, Centre}}

(* Three that double the window twice.                                     *)
Row == {(t1 :> Left) @@ (t2 :> Right) @@ (t3 :> [Left EXCEPT !.cf = 58])}
=============================================================================
