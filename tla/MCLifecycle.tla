---------------------------- MODULE MCLifecycle ----------------------------
(***************************************************************************)
(* Instances of TaskLifecycle for the model checker.                       *)
(***************************************************************************)
EXTENDS TaskLifecycle, TLC

CONSTANTS t1, t2

(* A scheduled stream that may fail, and a stream of a higher rank that    *)
(* starts at once and whose client bound one of its two ports itself.      *)
TwoTasks == {t1, t2}
TwoPorts == {5000, 5001}
TwoModes == (t1 :> "SCHEDULED") @@ (t2 :> "IMMEDIATE")
NoExecs == (t1 :> FALSE) @@ (t2 :> FALSE)
TwoRanks == (t1 :> 0) @@ (t2 :> 1)
TwoChannels == (t1 :> 1) @@ (t2 :> 2)
TwoClients == (t1 :> {}) @@ (t2 :> {6000})
OneStreamEach == (t1 :> 1) @@ (t2 :> 1)
FirstFails == {t1}

(* A scheduled stream whose client bound its port itself and a continuous  *)
(* scan, of which the cap admits one.                                      *)
OnePort == {5000}
StreamAndScan == (t1 :> "SCHEDULED") @@ (t2 :> "CONTINUOUS")
SecondScans == (t1 :> FALSE) @@ (t2 :> TRUE)
FirstBrings == (t1 :> {6000}) @@ (t2 :> {})
OneChannelEach == (t1 :> 1) @@ (t2 :> 1)
NoneFails == {}

(* A scheduled scan alone.                                                 *)
OneTask == {t1}
OneMode == t1 :> "SCHEDULED"
OneExec == t1 :> TRUE
OneRank == t1 :> 0
OneChannel == t1 :> 1
TwoStreams == t1 :> 2
NoClient == t1 :> {}
=============================================================================
