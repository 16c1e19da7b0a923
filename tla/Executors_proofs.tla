--------------------------- MODULE Executors_proofs ---------------------------
(***************************************************************************)
(* Theorems about Executors, for any number of tasks, steps and captures.  *)
(***************************************************************************)
EXTENDS Executors, TLAPS

USE ConstantsAssumption
    DEF streamVars, execVars, callVars, Scan, Bound, ScanLoop, MonitorLoop, EndLoop

(* A caller is one who may end a task, and the task.                       *)
LEMMA CallerOf ==
    /\ \A p \in Callers : p[1] \in Enders /\ p[2] \in Tasks /\ p = <<p[1], p[2]>>
    /\ \A t \in Tasks : \A k \in Enders : <<k, t>> \in Callers
  BY DEF Callers

(* Where a pass of a scan goes on after step i, and what is left of it.    *)
LEMMA AfterStepLeaves ==
    ASSUME NEW t, Scan(t), NEW i \in 1 .. Entries
    PROVE  /\ NextCount(t, i) \in 0 .. Entries
           /\ \/ AfterStep(t, i) = "retune" /\ NextCount(t, i) < Entries
              \/ AfterStep(t, i) = "done" /\ NextCount(t, i) = Entries
  BY DEF NextCount, AfterStep

(* A caller that is past its claim moves on: nothing is claimed anew.      *)
LEMMA ClaimsKept ==
    ASSUME IInv, NEW p \in Callers, NEW l, pc' = [pc EXCEPT ![p] = l],
           pc[p] # "idle", reason[p[2]] # "none", UNCHANGED <<kind, reason, loop, count>>,
           \A t \in Tasks : erunning'[t] = erunning[t] \/ t = p[2]
    PROVE  ClaimsInv'
<1> USE DEF IInv, TypeOK, ClaimsInv
<1>1. \A q \in Callers : pc'[q] \notin {"idle", "claim"} => reason'[q[2]] # "none"
  OBVIOUS
<1>2. \A t \in Tasks : ~erunning'[t] => reason'[t] # "none"
  OBVIOUS
<1>3. \A t \in Tasks : pc'[<<"exec", t>>] # "idle" => pc[<<"exec", t>>] # "idle"
  <2> SUFFICES ASSUME NEW t \in Tasks PROVE pc'[<<"exec", t>>] = pc[<<"exec", t>>] \/ p = <<"exec", t>>
    OBVIOUS
  <2> QED BY CallerOf DEF Enders
<1>4. \A t \in Tasks : /\ pc[<<"exec", t>>] # "idle" \/ reason[t] = "exec"
                                => loop[t] \in {"calling", "over"}
                       /\ loop[t] \in EndLoop /\ reason[t] \in {"none", "exec"}
                                => count[t] = Bound(t)
  OBVIOUS
<1> QED BY <1>1, <1>2, <1>3, <1>4

(* A caller that is about to claim: an executor does when its loop ended.  *)
LEMMA ClaimBegins ==
    ASSUME IInv, NEW p \in Callers, pc' = [pc EXCEPT ![p] = "claim"],
           UNCHANGED <<kind, reason, count, erunning>>,
           \A t \in Tasks : loop'[t] = loop[t] \/ (loop[t] = "done" /\ loop'[t] = "calling"),
           p[1] = "exec" => loop'[p[2]] = "calling"
    PROVE  ClaimsInv'
<1> USE DEF IInv, TypeOK, ClaimsInv
<1>1. \A q \in Callers : pc'[q] \notin {"idle", "claim"} => reason'[q[2]] # "none"
  OBVIOUS
<1>2. \A t \in Tasks : /\ pc[<<"exec", t>>] # "idle" \/ reason[t] = "exec"
                                => loop'[t] \in {"calling", "over"}
                       /\ loop'[t] \in EndLoop /\ reason[t] \in {"none", "exec"}
                                => count[t] = Bound(t)
  OBVIOUS
<1>3. \A t \in Tasks : pc'[<<"exec", t>>] # "idle" =>
          pc[<<"exec", t>>] # "idle" \/ loop'[t] = "calling"
  <2> SUFFICES ASSUME NEW t \in Tasks PROVE pc'[<<"exec", t>>] = pc[<<"exec", t>>] \/ p = <<"exec", t>>
    OBVIOUS
  <2> QED BY CallerOf DEF Enders
<1> QED BY <1>1, <1>2, <1>3

(***************************************************************************)
(* The worker of a streamer.                                               *)
(***************************************************************************)
LEMMA WorkerCheckInv == ASSUME IInv, NEW t \in Tasks, WorkerCheck(t) PROVE IInv'
<1> USE DEF IInv, TypeOK, WorkerCheck, WorkerTo
<1>1. TypeOK'
  BY CallerOf DEF Enders
<1>2. LoopsInv'
  BY DEF LoopsInv
<1>3. ClaimsInv'
  BY CallerOf DEF ClaimsInv, LoopsInv, Enders
<1>4. HandoverInv' /\ FedInv'
  BY CallerOf DEF HandoverInv, FedInv, ClaimsInv, LoopsInv
<1> QED BY <1>1, <1>2, <1>3, <1>4

LEMMA WorkerReadInv == ASSUME IInv, NEW t \in Tasks, WorkerRead(t) PROVE IInv'
<1> USE DEF IInv, TypeOK, WorkerRead, WorkerTo
<1>1. TypeOK'
  BY CallerOf DEF Enders
<1>2. LoopsInv'
  BY DEF LoopsInv
<1>3. ClaimsInv'
  BY CallerOf DEF ClaimsInv, LoopsInv, Enders
<1>4. HandoverInv' /\ FedInv'
  BY CallerOf DEF HandoverInv, FedInv, ClaimsInv, LoopsInv
<1> QED BY <1>1, <1>2, <1>3, <1>4

LEMMA WorkerErrorInv == ASSUME IInv, NEW t \in Tasks, WorkerError(t) PROVE IInv'
<1> USE DEF IInv, TypeOK, WorkerError, WorkerTo, Goto
<1>1. TypeOK'
  BY CallerOf DEF Enders
<1>2. LoopsInv'
  BY DEF LoopsInv
<1>3. ClaimsInv'
  <2>1. <<"error", t>> \in Callers /\ pc' = [pc EXCEPT ![<<"error", t>>] = "claim"]
    BY DEF Callers, Enders
  <2> QED BY <2>1, ClaimBegins
<1>4. HandoverInv' /\ FedInv'
  BY CallerOf DEF HandoverInv, FedInv, ClaimsInv, LoopsInv
<1> QED BY <1>1, <1>2, <1>3, <1>4

LEMMA WorkerLostInv == ASSUME IInv, NEW t \in Tasks, WorkerLost(t) PROVE IInv'
<1> USE DEF IInv, TypeOK, WorkerLost
<1>1. TypeOK'
  BY CallerOf DEF Enders
<1>2. LoopsInv'
  BY DEF LoopsInv
<1>3. ClaimsInv'
  BY CallerOf DEF ClaimsInv, LoopsInv, Enders
<1>4. HandoverInv' /\ FedInv'
  BY CallerOf DEF HandoverInv, FedInv, ClaimsInv, LoopsInv
<1> QED BY <1>1, <1>2, <1>3, <1>4

(***************************************************************************)
(* ScanExecutor.                                                           *)
(***************************************************************************)
LEMMA ScanStoppedInv == ASSUME IInv, NEW t \in Tasks, ScanStopped(t) PROVE IInv'
<1> USE DEF IInv, TypeOK, ScanStopped, LoopTo
<1>1. TypeOK'
  BY CallerOf DEF Enders
<1>2. LoopsInv'
  BY DEF LoopsInv
<1>3. ClaimsInv'
  BY CallerOf DEF ClaimsInv, LoopsInv, Enders
<1>4. HandoverInv' /\ FedInv'
  BY CallerOf DEF HandoverInv, FedInv, ClaimsInv, LoopsInv
<1> QED BY <1>1, <1>2, <1>3, <1>4

LEMMA ScanRetuneInv == ASSUME IInv, NEW t \in Tasks, ScanRetune(t) PROVE IInv'
<1>1. TypeOK'
  <2>1. /\ UNCHANGED <<kind, reason, runtime, streamVars, erunning, count, label, callVars,
                        undefined>>
        /\ loop' = [loop EXCEPT ![t] = "announce"]
        /\ tuned' = [tuned EXCEPT ![t] = count[t] + 1]
        /\ loop[t] = "retune"
    BY DEF ScanRetune, LoopTo
  <2>2. count[t] + 1 \in 0 .. Entries
    BY <2>1 DEF IInv, TypeOK, LoopsInv
  <2>3. tuned' \in [Tasks -> 0 .. Entries]
    BY <2>1, <2>2 DEF IInv, TypeOK
  <2>4. loop' \in [Tasks -> ScanLoop \cup MonitorLoop \cup EndLoop]
    <3>1. loop \in [Tasks -> ScanLoop \cup MonitorLoop \cup EndLoop]
      BY DEF IInv, TypeOK
    <3> QED BY <2>1, <3>1
  <2> QED BY <2>1, <2>3, <2>4 DEF IInv, TypeOK
<1> USE DEF IInv, ScanRetune, LoopTo
<1>2. LoopsInv'
  BY DEF TypeOK, LoopsInv
<1>3. ClaimsInv'
  BY CallerOf DEF TypeOK, ClaimsInv, LoopsInv, Enders
<1>4. HandoverInv' /\ FedInv'
  BY DEF TypeOK, HandoverInv, FedInv, LoopsInv
<1> QED BY <1>1, <1>2, <1>3, <1>4

LEMMA ScanSkipInv == ASSUME IInv, NEW t \in Tasks, ScanSkip(t) PROVE IInv'
<1> USE DEF IInv, TypeOK, ScanSkip, LoopTo
<1>0. Scan(t) /\ count[t] \in Nat /\ count[t] < Entries /\ count[t] + 1 \in 1 .. Entries
  BY DEF LoopsInv
<1>a. LET i == count[t] + 1 IN
        /\ NextCount(t, i) \in 0 .. Entries
        /\ \/ AfterStep(t, i) = "retune" /\ NextCount(t, i) < Entries
           \/ AfterStep(t, i) = "done" /\ NextCount(t, i) = Entries
  BY <1>0, AfterStepLeaves
<1>1. TypeOK'
  <2>1. count' \in [Tasks -> Nat] /\ \A s \in Tasks : count'[s] <= Bound(s)
    BY <1>0, <1>a
  <2>2. loop' \in [Tasks -> ScanLoop \cup MonitorLoop \cup EndLoop]
    BY <1>a
  <2> QED BY <2>1, <2>2
<1>2. LoopsInv'
  BY <1>0, <1>a DEF LoopsInv
<1>3. ClaimsInv'
  BY <1>0, <1>a, CallerOf DEF ClaimsInv, LoopsInv, Enders
<1>4. HandoverInv' /\ FedInv'
  BY <1>0, <1>a, CallerOf DEF HandoverInv, FedInv, ClaimsInv, LoopsInv
<1> QED BY <1>1, <1>2, <1>3, <1>4

LEMMA ScanAnnounceInv == ASSUME IInv, NEW t \in Tasks, ScanAnnounce(t) PROVE IInv'
<1> USE DEF IInv, TypeOK, ScanAnnounce, LoopTo
<1>1. TypeOK'
  BY CallerOf DEF Enders
<1>2. LoopsInv'
  BY DEF LoopsInv
<1>3. ClaimsInv'
  BY CallerOf DEF ClaimsInv, LoopsInv, Enders
<1>4. HandoverInv' /\ FedInv'
  BY CallerOf DEF HandoverInv, FedInv, ClaimsInv, LoopsInv
<1> QED BY <1>1, <1>2, <1>3, <1>4

LEMMA ScanDweltInv == ASSUME IInv, NEW t \in Tasks, ScanDwelt(t) PROVE IInv'
<1> DEFINE i == count[t] + 1
<1>1. Scan(t) /\ i \in 1 .. Entries /\ count[t] \in Nat
  BY DEF IInv, TypeOK, LoopsInv, ScanDwelt
<1>2. PICK n \in 0 .. Entries, l \in {"retune", "done"} :
        /\ count' = [count EXCEPT ![t] = n] /\ loop' = [loop EXCEPT ![t] = l]
        /\ \/ l = "retune" /\ n < Entries
           \/ l = "done" /\ (erunning[t] => n = Entries)
  <2>1. CASE erunning[t]
    BY <1>1, <2>1, AfterStepLeaves DEF ScanDwelt, LoopTo
  <2>2. CASE ~erunning[t]
    <3>1. count' = [count EXCEPT ![t] = count[t]]
      BY <2>2 DEF ScanDwelt, IInv, TypeOK
    <3>2. loop' = [loop EXCEPT ![t] = "done"] /\ count[t] \in 0 .. Entries
      BY <1>1, <2>2 DEF ScanDwelt, LoopTo
    <3> QED BY <2>2, <3>1, <3>2
  <2> QED BY <2>1, <2>2
<1>3. /\ UNCHANGED <<kind, reason, runtime, streamVars, erunning, tuned, label, callVars,
                    undefined>>
      /\ loop[t] = "dwell"
  BY DEF ScanDwelt
<1> USE DEF IInv
<1>4. TypeOK'
  BY <1>1, <1>2, <1>3 DEF TypeOK
<1>5. LoopsInv'
  BY <1>1, <1>2, <1>3 DEF TypeOK, LoopsInv
<1>6. ClaimsInv'
  <2>1. \A s \in Tasks : pc[<<"exec", s>>] # "idle" \/ reason[s] = "exec" => s # t
    BY <1>3 DEF ClaimsInv
  <2>2. l = "done" /\ reason[t] = "none" => n = Entries
    BY <1>2 DEF ClaimsInv
  <2> QED BY <1>1, <1>2, <1>3, <2>1, <2>2 DEF TypeOK, ClaimsInv
<1>7. HandoverInv' /\ FedInv'
  BY <1>1, <1>2, <1>3 DEF TypeOK, HandoverInv, FedInv
<1> QED BY <1>4, <1>5, <1>6, <1>7

(***************************************************************************)
(* TriggerMonitor.                                                         *)
(***************************************************************************)
LEMMA MonitorCheckInv == ASSUME IInv, NEW t \in Tasks, MonitorCheck(t) PROVE IInv'
<1> USE DEF IInv, TypeOK, MonitorCheck, LoopTo
<1>1. TypeOK'
  BY CallerOf DEF Enders
<1>2. LoopsInv'
  BY DEF LoopsInv
<1>3. ClaimsInv'
  BY CallerOf DEF ClaimsInv, LoopsInv, Enders
<1>4. HandoverInv' /\ FedInv'
  BY CallerOf DEF HandoverInv, FedInv, ClaimsInv, LoopsInv
<1> QED BY <1>1, <1>2, <1>3, <1>4

LEMMA MonitorReadInv == ASSUME IInv, NEW t \in Tasks, MonitorRead(t) PROVE IInv'
<1> USE DEF IInv, TypeOK, MonitorRead, LoopTo
<1>1. TypeOK'
  BY CallerOf DEF Enders
<1>2. LoopsInv'
  BY DEF LoopsInv
<1>3. ClaimsInv'
  BY CallerOf DEF ClaimsInv, LoopsInv, Enders
<1>4. HandoverInv' /\ FedInv'
  BY CallerOf DEF HandoverInv, FedInv, ClaimsInv, LoopsInv
<1> QED BY <1>1, <1>2, <1>3, <1>4

LEMMA MonitorFiresInv == ASSUME IInv, NEW t \in Tasks, MonitorFires(t) PROVE IInv'
<1>1. PICK l \in {"post", "spawn"}, f \in BOOLEAN :
        /\ loop' = [loop EXCEPT ![t] = l] /\ fed' = [fed EXCEPT ![t] = f]
        /\ srunning' = [srunning EXCEPT ![t] = TRUE]
        /\ l = "post" <=> srunning[t]
        /\ l = "spawn" /\ kind[t] # "decimated" => f
  <2>1. CASE srunning[t]
    <3>1. /\ fed' = [fed EXCEPT ![t] = fed[t]] /\ fed[t] \in BOOLEAN
          /\ srunning' = [srunning EXCEPT ![t] = TRUE]
      BY <2>1 DEF MonitorFires, IInv, TypeOK
    <3>2. loop' = [loop EXCEPT ![t] = "post"]
      BY <2>1 DEF MonitorFires, LoopTo
    <3> QED BY <2>1, <3>1, <3>2
  <2>2. CASE ~srunning[t]
    <3>1. /\ fed' = [fed EXCEPT ![t] = FedByStart(t)] /\ FedByStart(t) \in BOOLEAN
          /\ kind[t] # "decimated" => FedByStart(t)
      BY <2>2 DEF MonitorFires, StartFlag, FedByStart
    <3>2. loop' = [loop EXCEPT ![t] = "spawn"] /\ srunning' = [srunning EXCEPT ![t] = TRUE]
      BY <2>2 DEF MonitorFires, StartFlag, LoopTo
    <3> QED BY <2>2, <3>1, <3>2
  <2> QED BY <2>1, <2>2
<1>2. /\ UNCHANGED <<kind, reason, runtime, open, alive, worker, erunning, count, tuned, label,
                     callVars, undefined>>
      /\ loop[t] = "fire"
  BY DEF MonitorFires
<1> USE DEF IInv
<1>3. ~Scan(t)
  BY <1>2 DEF LoopsInv
<1>4. TypeOK'
  BY <1>1, <1>2 DEF TypeOK
<1>5. LoopsInv'
  BY <1>1, <1>2, <1>3 DEF TypeOK, LoopsInv
<1>6. ClaimsInv'
  BY <1>1, <1>2, CallerOf DEF TypeOK, ClaimsInv
<1>7. HandoverInv' /\ FedInv'
  <2>1. reason[t] = "none" => ~srunning[t] /\ l = "spawn" /\ worker[t] = "none"
    BY <1>1, <1>2, <1>3 DEF HandoverInv
  <2>2. loop'[t] = l /\ srunning'[t] = TRUE /\ fed'[t] = f
    BY <1>1 DEF TypeOK
  <2>3. \A s \in Tasks \ {t} : loop'[s] = loop[s] /\ srunning'[s] = srunning[s] /\ fed'[s] = fed[s]
    BY <1>1 DEF TypeOK
  <2>4. HandoverInv'
    BY <1>2, <2>1, <2>2, <2>3 DEF HandoverInv
  <2>5. FedInv'
    BY <1>1, <1>2, <2>1, <2>2, <2>3 DEF FedInv
  <2> QED BY <2>4, <2>5
<1> QED BY <1>4, <1>5, <1>6, <1>7

LEMMA MonitorSpawnsInv == ASSUME IInv, NEW t \in Tasks, MonitorSpawns(t) PROVE IInv'
<1> USE DEF IInv, TypeOK, MonitorSpawns, LoopTo, WorkerTo
<1>1. TypeOK'
  BY CallerOf DEF Enders
<1>2. LoopsInv'
  BY DEF LoopsInv
<1>3. ClaimsInv'
  BY CallerOf DEF ClaimsInv, LoopsInv, Enders
<1>4. HandoverInv' /\ FedInv'
  BY CallerOf DEF HandoverInv, FedInv, ClaimsInv, LoopsInv
<1> QED BY <1>1, <1>2, <1>3, <1>4

LEMMA MonitorStopsInv == ASSUME IInv, NEW t \in Tasks, MonitorStops(t) PROVE IInv'
<1> USE DEF IInv, TypeOK, MonitorStops, LoopTo
<1>1. TypeOK'
  BY CallerOf DEF Enders
<1>2. LoopsInv'
  BY DEF LoopsInv
<1>3. ClaimsInv'
  BY CallerOf DEF ClaimsInv, LoopsInv, Enders
<1>4. HandoverInv' /\ FedInv'
  BY CallerOf DEF HandoverInv, FedInv, ClaimsInv, LoopsInv
<1> QED BY <1>1, <1>2, <1>3, <1>4

LEMMA MonitorJoinsInv == ASSUME IInv, NEW t \in Tasks, MonitorJoins(t) PROVE IInv'
<1> USE DEF IInv, TypeOK, MonitorJoins, LoopTo, Joined, WorkerTo
<1>1. TypeOK'
  BY CallerOf DEF Enders
<1>2. LoopsInv'
  BY DEF LoopsInv
<1>3. ClaimsInv'
  BY CallerOf DEF ClaimsInv, LoopsInv, Enders
<1>4. HandoverInv' /\ FedInv'
  BY CallerOf DEF HandoverInv, FedInv, ClaimsInv, LoopsInv
<1> QED BY <1>1, <1>2, <1>3, <1>4

LEMMA MonitorCountsInv == ASSUME IInv, NEW t \in Tasks, MonitorCounts(t) PROVE IInv'
<1>1. ~Scan(t) /\ count[t] \in Nat /\ MaxCaptures \in Nat /\ count[t] + 1 <= MaxCaptures
  BY ConstantsAssumption DEF IInv, TypeOK, LoopsInv, MonitorCounts
<1>2. PICK n \in Nat, l \in {"done", "check"} :
        /\ n <= MaxCaptures
        /\ count' = [count EXCEPT ![t] = n] /\ loop' = [loop EXCEPT ![t] = l]
        /\ l = "done" => n = MaxCaptures
        /\ l = "check" => n < MaxCaptures
  <2>1. CASE count[t] + 1 >= MaxCaptures
    <3>1. loop' = [loop EXCEPT ![t] = "done"] /\ count' = [count EXCEPT ![t] = count[t] + 1]
      BY <2>1 DEF MonitorCounts, Enough, LoopTo
    <3>2. count[t] + 1 = MaxCaptures
      BY <1>1, <2>1
    <3> QED BY <1>1, <3>1, <3>2
  <2>2. CASE ~(count[t] + 1 >= MaxCaptures)
    <3>1. loop' = [loop EXCEPT ![t] = "check"] /\ count' = [count EXCEPT ![t] = count[t] + 1]
      BY <2>2 DEF MonitorCounts, Enough, LoopTo
    <3>2. count[t] + 1 \in Nat /\ count[t] + 1 <= MaxCaptures /\ count[t] + 1 < MaxCaptures
      BY <1>1, <2>2
    <3> USE <3>2
    <3> WITNESS count[t] + 1 \in Nat, "check" \in {"done", "check"}
    <3> QED BY <3>1
  <2> QED BY <2>1, <2>2
<1>3. /\ UNCHANGED <<kind, reason, runtime, streamVars, erunning, tuned, label, callVars,
                    undefined>>
      /\ loop[t] = "captured"
  BY DEF MonitorCounts
<1> USE DEF IInv
<1>4. TypeOK'
  BY <1>1, <1>2, <1>3 DEF TypeOK
<1>5. LoopsInv'
  BY <1>1, <1>2, <1>3 DEF TypeOK, LoopsInv
<1>6. ClaimsInv'
  <2>1. \A s \in Tasks : pc[<<"exec", s>>] # "idle" \/ reason[s] = "exec" => s # t
    BY <1>3 DEF ClaimsInv
  <2> QED BY <1>1, <1>2, <1>3, <2>1 DEF TypeOK, ClaimsInv
<1>7. HandoverInv' /\ FedInv'
  BY <1>1, <1>2, <1>3 DEF TypeOK, HandoverInv, FedInv
<1> QED BY <1>4, <1>5, <1>6, <1>7

(***************************************************************************)
(* The end of an executor.                                                 *)
(***************************************************************************)
LEMMA ExecLostInv == ASSUME IInv, NEW t \in Tasks, ExecLost(t) PROVE IInv'
<1> USE DEF IInv, TypeOK, ExecLost
<1>1. TypeOK'
  BY CallerOf DEF Enders
<1>2. LoopsInv'
  BY DEF LoopsInv
<1>3. ClaimsInv'
  BY CallerOf DEF ClaimsInv, LoopsInv, Enders
<1>4. HandoverInv' /\ FedInv'
  BY CallerOf DEF HandoverInv, FedInv, ClaimsInv, LoopsInv
<1> QED BY <1>1, <1>2, <1>3, <1>4

LEMMA ExecDoneInv == ASSUME IInv, NEW t \in Tasks, ExecDone(t) PROVE IInv'
<1> USE DEF IInv, TypeOK, ExecDone, LoopTo, Goto
<1>1. TypeOK'
  BY CallerOf DEF Enders
<1>2. LoopsInv'
  BY DEF LoopsInv
<1>3. ClaimsInv'
  <2>1. <<"exec", t>> \in Callers /\ pc' = [pc EXCEPT ![<<"exec", t>>] = "claim"]
    BY DEF Callers, Enders
  <2> QED BY <2>1, ClaimBegins
<1>4. HandoverInv' /\ FedInv'
  BY CallerOf DEF HandoverInv, FedInv, ClaimsInv, LoopsInv
<1> QED BY <1>1, <1>2, <1>3, <1>4

LEMMA ExecOverInv == ASSUME IInv, NEW t \in Tasks, ExecOver(t) PROVE IInv'
<1> USE DEF IInv, TypeOK, ExecOver, LoopTo
<1>1. TypeOK'
  BY CallerOf DEF Enders
<1>2. LoopsInv'
  BY DEF LoopsInv
<1>3. ClaimsInv'
  BY CallerOf DEF ClaimsInv, LoopsInv, Enders
<1>4. HandoverInv' /\ FedInv'
  BY CallerOf DEF HandoverInv, FedInv, ClaimsInv, LoopsInv
<1> QED BY <1>1, <1>2, <1>3, <1>4

(***************************************************************************)
(* deactivateTask.                                                         *)
(***************************************************************************)
LEMMA EndInv == ASSUME IInv, NEW p \in Callers, End(p) PROVE IInv'
<1> USE DEF IInv, TypeOK, End, Goto
<1>1. TypeOK'
  BY CallerOf DEF Enders
<1>2. LoopsInv'
  BY DEF LoopsInv
<1>3. ClaimsInv'
  <2>1. p[1] # "exec" /\ UNCHANGED <<kind, reason, count, erunning, loop>>
    OBVIOUS
  <2> QED BY <2>1, ClaimBegins
<1>4. HandoverInv' /\ FedInv'
  BY CallerOf DEF HandoverInv, FedInv, ClaimsInv, LoopsInv
<1> QED BY <1>1, <1>2, <1>3, <1>4

LEMMA ClaimInv == ASSUME IInv, NEW p \in Callers, Claim(p) PROVE IInv'
<1> USE DEF IInv, TypeOK, Claim, Goto, Unclaimed
<1>1. TypeOK'
  <2>1. p[1] \in Enders /\ p[2] \in Tasks
    BY CallerOf
  <2>2. reason' \in [Tasks -> Enders \cup {"none"}]
    BY <2>1 DEF Enders
  <2> QED BY <2>1, <2>2
<1>2. LoopsInv'
  BY DEF LoopsInv
<1>3. ClaimsInv'
  <2>1. CASE reason[p[2]] = "none"
    <3>1. /\ reason' = [reason EXCEPT ![p[2]] = p[1]] /\ pc' = [pc EXCEPT ![p] = "lock"]
          /\ pc[p] = "claim" /\ UNCHANGED <<kind, erunning, loop, count>>
      BY <2>1
    <3>2. reason'[p[2]] = p[1] /\ p[1] # "none"
      BY <3>1, CallerOf DEF Enders
    <3>3. \A t \in Tasks \ {p[2]} : reason'[t] = reason[t]
      BY <3>1
    <3>4. \A q \in Callers : pc'[q] \notin {"idle", "claim"} => reason'[q[2]] # "none"
      BY <3>1, <3>2, <3>3, CallerOf DEF ClaimsInv
    <3>5. \A t \in Tasks : pc'[<<"exec", t>>] # "idle" => pc[<<"exec", t>>] # "idle"
      BY <3>1, CallerOf DEF Enders
    <3>6. p[1] = "exec" => pc[<<"exec", p[2]>>] # "idle"
      BY <3>1, CallerOf
    <3> QED BY <2>1, <3>1, <3>2, <3>3, <3>4, <3>5, <3>6, CallerOf DEF ClaimsInv
  <2>2. CASE reason[p[2]] # "none"
    BY <2>2, CallerOf, ClaimsKept
  <2> QED BY <2>1, <2>2
<1>4. HandoverInv' /\ FedInv'
  BY CallerOf DEF HandoverInv, FedInv, ClaimsInv, LoopsInv
<1> QED BY <1>1, <1>2, <1>3, <1>4

LEMMA CheckOrphanInv == ASSUME IInv, NEW p \in Callers, CheckOrphan(p) PROVE IInv'
<1> USE DEF IInv, TypeOK, CheckOrphan, Goto
<1>1. TypeOK'
  BY CallerOf DEF Enders
<1>2. LoopsInv'
  BY DEF LoopsInv
<1>3. ClaimsInv'
  BY CallerOf, ClaimsKept DEF ClaimsInv
<1>4. HandoverInv' /\ FedInv'
  BY CallerOf DEF HandoverInv, FedInv, ClaimsInv, LoopsInv
<1> QED BY <1>1, <1>2, <1>3, <1>4

LEMMA LockInv == ASSUME IInv, NEW p \in Callers, Lock(p) PROVE IInv'
<1> USE DEF IInv, TypeOK
<1>a. /\ fed' = fed \/ fed' = [fed EXCEPT ![p[2]] = FALSE]
      /\ locks' = locks \/ locks' = p
      /\ UNCHANGED <<kind, reason, runtime, open, alive, srunning, worker, execVars, undefined>>
      /\ pc[p] = "lock"
  BY DEF Lock
<1>b. PICK l \in {"stop", "over"} : pc' = [pc EXCEPT ![p] = l]
  BY DEF Lock, Goto
<1>c. p[2] \in Tasks /\ reason[p[2]] # "none"
  BY <1>a, CallerOf DEF ClaimsInv
<1>1. TypeOK'
  BY <1>a, <1>b, <1>c
<1>2. LoopsInv'
  BY <1>a DEF LoopsInv
<1>3. ClaimsInv'
  BY <1>a, <1>b, <1>c, ClaimsKept
<1>4. HandoverInv' /\ FedInv'
  BY <1>a, <1>c DEF HandoverInv, FedInv
<1> QED BY <1>1, <1>2, <1>3, <1>4

LEMMA StopStreamerInv == ASSUME IInv, NEW p \in Callers, StopStreamer(p) PROVE IInv'
<1> USE DEF IInv, TypeOK, StopStreamer, Goto
<1>1. TypeOK'
  BY CallerOf DEF Enders
<1>2. LoopsInv'
  BY DEF LoopsInv
<1>3. ClaimsInv'
  BY CallerOf, ClaimsKept DEF ClaimsInv
<1>4. HandoverInv' /\ FedInv'
  BY CallerOf DEF HandoverInv, FedInv, ClaimsInv, LoopsInv
<1> QED BY <1>1, <1>2, <1>3, <1>4

LEMMA JoinWorkerInv == ASSUME IInv, NEW p \in Callers, JoinWorker(p) PROVE IInv'
<1> USE DEF IInv, TypeOK, JoinWorker, Goto, Joined, WorkerTo
<1>1. TypeOK'
  BY CallerOf DEF Enders
<1>2. LoopsInv'
  BY DEF LoopsInv
<1>3. ClaimsInv'
  BY CallerOf, ClaimsKept DEF ClaimsInv
<1>4. HandoverInv' /\ FedInv'
  BY CallerOf DEF HandoverInv, FedInv, ClaimsInv, LoopsInv
<1> QED BY <1>1, <1>2, <1>3, <1>4

LEMMA CloseStreamInv == ASSUME IInv, NEW p \in Callers, CloseStream(p) PROVE IInv'
<1> USE DEF IInv, TypeOK, CloseStream, Goto
<1>1. TypeOK'
  BY CallerOf DEF Enders
<1>2. LoopsInv'
  BY DEF LoopsInv
<1>3. ClaimsInv'
  BY CallerOf, ClaimsKept DEF ClaimsInv
<1>4. HandoverInv' /\ FedInv'
  BY CallerOf DEF HandoverInv, FedInv, ClaimsInv, LoopsInv
<1> QED BY <1>1, <1>2, <1>3, <1>4

LEMMA EraseInv == ASSUME IInv, NEW p \in Callers, Erase(p) PROVE IInv'
<1> USE DEF IInv, TypeOK, Erase, Goto
<1>1. TypeOK'
  BY CallerOf DEF Enders
<1>2. LoopsInv'
  BY DEF LoopsInv
<1>3. ClaimsInv'
  BY CallerOf, ClaimsKept DEF ClaimsInv
<1>4. HandoverInv' /\ FedInv'
  BY CallerOf DEF HandoverInv, FedInv, ClaimsInv, LoopsInv
<1> QED BY <1>1, <1>2, <1>3, <1>4

LEMMA EraseRunningInv == ASSUME IInv, NEW p \in Callers, EraseRunning(p) PROVE IInv'
<1> USE DEF IInv, TypeOK, EraseRunning, Goto
<1>1. TypeOK'
  BY CallerOf DEF Enders
<1>2. LoopsInv'
  BY DEF LoopsInv
<1>3. ClaimsInv'
  BY CallerOf, ClaimsKept DEF ClaimsInv
<1>4. HandoverInv' /\ FedInv'
  BY CallerOf DEF HandoverInv, FedInv, ClaimsInv, LoopsInv
<1> QED BY <1>1, <1>2, <1>3, <1>4

LEMMA RejoinInv == ASSUME IInv, NEW p \in Callers, Rejoin(p) PROVE IInv'
<1> USE DEF IInv, TypeOK, Rejoin, Goto, Joined, WorkerTo
<1>1. TypeOK'
  BY CallerOf DEF Enders
<1>2. LoopsInv'
  BY DEF LoopsInv
<1>3. ClaimsInv'
  BY CallerOf, ClaimsKept DEF ClaimsInv
<1>4. HandoverInv' /\ FedInv'
  BY CallerOf DEF HandoverInv, FedInv, ClaimsInv, LoopsInv
<1> QED BY <1>1, <1>2, <1>3, <1>4

LEMMA HaltExecutorInv == ASSUME IInv, NEW p \in Callers, HaltExecutor(p) PROVE IInv'
<1> USE DEF IInv, TypeOK, HaltExecutor, Goto, Halted
<1>1. TypeOK'
  BY CallerOf DEF Enders
<1>2. LoopsInv'
  BY DEF LoopsInv
<1>3. ClaimsInv'
  BY CallerOf, ClaimsKept DEF ClaimsInv
<1>4. HandoverInv' /\ FedInv'
  BY CallerOf DEF HandoverInv, FedInv, ClaimsInv, LoopsInv
<1> QED BY <1>1, <1>2, <1>3, <1>4

LEMMA JoinExecutorInv == ASSUME IInv, NEW p \in Callers, JoinExecutor(p) PROVE IInv'
<1> USE DEF IInv, TypeOK, JoinExecutor, Goto
<1>1. TypeOK'
  BY CallerOf DEF Enders
<1>2. LoopsInv'
  BY DEF LoopsInv
<1>3. ClaimsInv'
  BY CallerOf, ClaimsKept DEF ClaimsInv
<1>4. HandoverInv' /\ FedInv'
  BY CallerOf DEF HandoverInv, FedInv, ClaimsInv, LoopsInv
<1> QED BY <1>1, <1>2, <1>3, <1>4

(***************************************************************************)
(* The theorems.                                                           *)
(***************************************************************************)
LEMMA InitInv == Init => IInv
<1> SUFFICES ASSUME Init PROVE IInv
  OBVIOUS
<1>1. TypeOK
  <2>1. /\ kind \in [Tasks -> Kinds] /\ srunning \in [Tasks -> BOOLEAN]
        /\ fed \in [Tasks -> BOOLEAN] /\ worker \in [Tasks -> {"none", "check", "read", "over"}]
    BY DEF Init
  <2>2. loop \in [Tasks -> ScanLoop \cup MonitorLoop \cup EndLoop]
    BY DEF Init
  <2>3. count \in [Tasks -> Nat] /\ \A t \in Tasks : count[t] <= Bound(t)
    BY DEF Init
  <2>4. /\ tuned \in [Tasks -> 0 .. Entries] /\ label \in [Tasks -> 0 .. Entries]
        /\ reason \in [Tasks -> Enders \cup {"none"}] /\ locks \in Callers \cup {NoThread}
    BY DEF Init
  <2>5. /\ runtime \in [Tasks -> BOOLEAN] /\ open \in [Tasks -> BOOLEAN]
        /\ alive \in [Tasks -> BOOLEAN] /\ erunning \in [Tasks -> BOOLEAN]
        /\ undefined \in BOOLEAN
    BY DEF Init
  <2>6. pc \in [Callers -> {"idle", "claim", "orphan", "lock", "stop", "join", "close", "erase",
                            "rejoin", "halt", "await", "over"}]
    BY DEF Init
  <2> QED BY <2>1, <2>2, <2>3, <2>4, <2>5, <2>6 DEF TypeOK
<1>2. LoopsInv
  <2> SUFFICES ASSUME NEW t \in Tasks
               PROVE  /\ loop[t] \in EndLoop \cup (IF Scan(t) THEN ScanLoop ELSE MonitorLoop)
                      /\ count[t] < Bound(t)
    BY DEF LoopsInv
  <2>1. count[t] = 0 /\ loop[t] = IF Scan(t) THEN "retune" ELSE "check"
    BY DEF Init
  <2> QED BY <2>1
<1>3. ClaimsInv
  BY CallerOf DEF Init, ClaimsInv, Enders
<1>4. HandoverInv /\ FedInv
  BY DEF Init, HandoverInv, FedInv, ScanKinds
<1> QED BY <1>1, <1>2, <1>3, <1>4 DEF IInv

LEMMA StutterInv == ASSUME IInv, UNCHANGED vars PROVE IInv'
<1> USE DEF IInv, vars
<1>1. TypeOK' /\ LoopsInv'
  BY DEF TypeOK, LoopsInv
<1>2. ClaimsInv' /\ HandoverInv' /\ FedInv'
  BY DEF ClaimsInv, HandoverInv, FedInv
<1> QED BY <1>1, <1>2

LEMMA NextInv == ASSUME IInv, Next PROVE IInv'
<1>1. ASSUME NEW t \in Tasks, Worker(t) PROVE IInv'
  BY <1>1, WorkerCheckInv, WorkerReadInv, WorkerErrorInv, WorkerLostInv DEF Worker
<1>2. ASSUME NEW t \in Tasks, Executor(t) PROVE IInv'
  BY <1>2, ScanStoppedInv, ScanRetuneInv, ScanSkipInv, ScanAnnounceInv, ScanDweltInv,
     MonitorCheckInv, MonitorReadInv, MonitorFiresInv, MonitorSpawnsInv, MonitorStopsInv,
     MonitorJoinsInv, MonitorCountsInv, ExecLostInv, ExecDoneInv, ExecOverInv DEF Executor
<1>3. ASSUME NEW p \in Callers, Deactivate(p) PROVE IInv'
  BY <1>3, ClaimInv, CheckOrphanInv, LockInv, StopStreamerInv, JoinWorkerInv, CloseStreamInv,
     EraseInv, EraseRunningInv, RejoinInv, HaltExecutorInv, JoinExecutorInv DEF Deactivate
<1> QED BY <1>1, <1>2, <1>3, EndInv DEF Next

(* The invariant holds for any number of tasks, steps and captures.        *)
THEOREM InvariantHolds == Spec => []IInv
<1>1. IInv /\ [Next]_vars => IInv'
  BY NextInv, StutterInv
<1> QED BY <1>1, InitInv, PTL DEF Spec

(* Every variable keeps its type.                                          *)
THEOREM TypeCorrect == Spec => []TypeOK
<1>1. IInv => TypeOK
  BY DEF IInv
<1> QED BY <1>1, InvariantHolds, PTL

(* The monitor and the streamer's worker never read the stream of an       *)
(* active task at the same time.                                           *)
THEOREM ReadersExclusive == Spec => []OneReader
<1>1. IInv => OneReader
  BY DEF IInv, OneReader, LoopsInv, HandoverInv
<1> QED BY <1>1, InvariantHolds, PTL

(* Whatever the streamer of an active task reads has a consumer.           *)
THEOREM CapturesAreFed == Spec => []CapturesFed
<1>1. IInv => CapturesFed
  BY DEF IInv, CapturesFed, HandoverInv, FedInv
<1> QED BY <1>1, InvariantHolds, PTL

(* A task that its executor completes has done all its work.               *)
THEOREM ResultsAreHonest == Spec => []ResultHonest
<1>1. IInv => ResultHonest
  BY DEF IInv, ResultHonest, ClaimsInv
<1> QED BY <1>1, InvariantHolds, PTL

=============================================================================
