-------------------------- MODULE TaskLimits_proofs --------------------------
(***************************************************************************)
(* Theorems about TaskLifecycle that rest on more than its inductive       *)
(* invariant: the shutdown, the owners of streams and the cap on tasks.    *)
(***************************************************************************)
EXTENDS TaskLifecycle_proofs

(* No task has been started twice so far, as a second scheduler tick may   *)
(* do while the record is still SCHEDULED.                                 *)
StartedOnce ==
  \A a, b \in Acts : Spawned(a) /\ Spawned(b) /\ a[2] = b[2] => a = b

(* The streams of an activation come up together or not at all.            *)
AtMostOneStream == \A t \in Tasks : Streams[t] <= 1

In(S) == {t \in Tasks : state[t] \in S}

Late == {"cancel", "drain", "final", "closed"}

(***************************************************************************)
(* The invariants, each inductive beside IInv.                             *)
(***************************************************************************)

(* A runtime is its task's, and its activation has not failed.             *)
RuntimeInv ==
  \A t \in Tasks : runtime[t] # NoThread =>
     /\ runtime[t][2] = t
     /\ pc[runtime[t]] \in {"replace", "run", "announce", "done"}

(* Once the services are joined no task begins, the main thread ends those *)
(* on its list, and in the final round it has a list of all runtimes.      *)
LateInv ==
  /\ phase \in Late => pc[Amqp] = "idle" /\ pc[Watchdog] = "idle"
  /\ phase = "cancel" => \A t \in Tasks : state[t] \in Active => t \in queue[Main]
  /\ phase \in {"drain", "final", "closed"} => \A t \in Tasks : state[t] \notin Active
  /\ phase \in {"final", "closed"} => InFlight = {}
  /\ phase = "final" => \A t \in Tasks : runtime[t] # NoThread =>
        t \in queue[Main] \/ (arg[Main] = t /\ pc[Main] \in {"orphan", "teardown"})
  /\ phase = "closed" => \A t \in Tasks : runtime[t] = NoThread

(* A stream is being set up or has its runtime.                            *)
OpenedInv ==
  \A a \in Acts : opened[a] > 0 => pc[a] \in {"setup", "insert"} \/ runtime[a[2]] = a

(* A task is not RUNNING before its activation says so.                    *)
RunningInv ==
  \A a \in Acts : pc[a] \in {"start", "lock", "setup", "insert", "replace", "run"}
                  => state[a[2]] # "RUNNING"

(* What has been counted covers the tasks whose states were looked at, and *)
(* a request past the cap leaves room for itself.                          *)
CountInv ==
  /\ pc[Amqp] = "countPending" => Cardinality(In({"SCHEDULED"})) <= counted
  /\ pc[Amqp] = "countRunning" => Cardinality(In({"SCHEDULED", "PENDING"})) <= counted
  /\ accepting # NoTask
     /\ pc[Amqp] \notin {"countScheduled", "countPending", "countRunning", "announce"}
     => Cardinality(In(Active)) < MaxTasks
  /\ Cardinality(In(Active)) <= MaxTasks

(***************************************************************************)
(* How threads move.                                                       *)
(***************************************************************************)

(* The stages of activateTask.                                             *)
LEMMA ActivateMoves ==
  ASSUME TypeOK, NEW a \in Acts, Activate(a)
  PROVE  /\ \/ pc[a] = "start" /\ pc'[a] \in {"done", "lock"}
            \/ pc[a] = "lock" /\ pc'[a] \in {"done", "setup"}
            \/ pc[a] = "setup" /\ pc'[a] \in {"setup", "claim", "insert"}
            \/ pc[a] = "insert" /\ pc'[a] \in {"replace", "run"}
            \/ pc[a] = "replace" /\ pc'[a] = "run"
            \/ pc[a] = "run" /\ pc'[a] = "announce"
            \/ pc[a] = "announce" /\ pc'[a] = "done"
         /\ \A b \in Acts \ {a} : pc'[b] = pc[b]
         /\ \A s \in Services : pc'[s] = pc[s]
         /\ UNCHANGED <<arg, queue, accepting, counted, phase>>
<1> USE ThreadFacts DEF TypeOK, Goto, callVars, amqpVars
<1>1. CASE ActStart(a)
  BY <1>1 DEF ActStart
<1>2. CASE ActLock(a)
  BY <1>2 DEF ActLock
<1>3. CASE ActOpenStream(a)
  BY <1>3 DEF ActOpenStream
<1>4. CASE ActHwFailure(a)
  BY <1>4 DEF ActHwFailure
<1>5. CASE ActUnlock(a)
  <2>1. ExecOf(a) \notin Acts /\ ExecOf(a) \notin Services
    OBVIOUS
  <2> QED BY <1>5, <2>1 DEF ActUnlock
<1>6. CASE ActInsert(a)
  BY <1>6 DEF ActInsert
<1>7. CASE ActReplaced(a)
  BY <1>7 DEF ActReplaced
<1>8. CASE ActRun(a)
  BY <1>8 DEF ActRun
<1>9. CASE ActAnnounce(a)
  BY <1>9 DEF ActAnnounce
<1> QED BY <1>1, <1>2, <1>3, <1>4, <1>5, <1>6, <1>7, <1>8, <1>9 DEF Activate

(* The stages of deactivateTask.                                           *)
LEMMA DeactivateMoves ==
  ASSUME IInv, NEW p \in Threads, Deactivate(p)
  PROVE  /\ pc[p] \in {"each", "claim"} \cup InCall
         /\ pc'[p] \in {"done", "each", "retry", "idle"} \cup InCall
         /\ pc[p] = "each" => p \in Services
         /\ pc'[p] = "retry" => p = Amqp /\ accepting # NoTask
         /\ p \notin Services => pc'[p] \in {"done"} \cup InCall
         /\ \A q \in Threads \ {p} : pc'[q] = pc[q] /\ arg'[q] = arg[q]
         /\ UNCHANGED <<accepting, counted, phase>>
<1> USE DEF IInv, Goto, callVars, amqpVars, InCall
<1>1. ASSUME NEW t \in Tasks, ClaimTerminal(p, t) \/ ClaimLate(p, t)
      PROVE  /\ Calls(p, t) /\ pc'[p] \in {"teardown", "orphan"}
             /\ \A q \in Threads \ {p} : pc'[q] = pc[q]
             /\ UNCHANGED <<accepting, counted, phase>>
  BY <1>1 DEF ClaimTerminal, ClaimLate, TypeOK
<1>2. CASE \E t \in Tasks : ClaimTerminal(p, t) \/ ClaimLate(p, t)
  BY <1>1, <1>2, CallsFacts DEF CallsInv
<1>3. CASE Teardown(p) \/ JoinExec(p)
  BY <1>3 DEF Teardown, JoinExec, AfterTeardown, TypeOK
<1>4. CASE CheckOrphan(p) /\ ~Returned(p)
  BY <1>4 DEF CheckOrphan, TypeOK
<1>5. CASE CheckOrphan(p) /\ Returned(p)
  BY <1>5, ReturnedFacts DEF CheckOrphan
<1>6. CASE ReleaseResources(p) \/ NotifyLate(p)
  BY <1>6, ReturnedFacts DEF ReleaseResources, NotifyLate
<1> QED BY <1>2, <1>3, <1>4, <1>5, <1>6 DEF Deactivate

(* An activation thread moves in activateTask or in its deactivateTask, or *)
(* is spawned.                                                             *)
LEMMA ActMoves ==
  ASSUME IInv, [Next]_vars, NEW a \in Acts
  PROVE  \/ pc'[a] = pc[a]
         \/ Activate(a)
         \/ Deactivate(a)
         \/ pc[a] = "idle" /\ pc'[a] = "start" /\ (AcceptTask \/ SchedulerTick)
<1> USE ThreadFacts DEF IInv, TypeOK, Goto
<1>1. CASE UNCHANGED vars \/ Finished
  BY <1>1 DEF vars, Finished
<1>2. ASSUME NEW t \in Tasks, ReceiveRequest(t) \/ ReceiveStopOrCancel(t) \/ TimePasses(t)
      PROVE  pc'[a] = pc[a]
  BY <1>2 DEF ReceiveRequest, ReceiveStopOrCancel, TimePasses
<1>3. CASE AcceptStep /\ ~AcceptTask
  BY <1>3 DEF AcceptStep, CountScheduled, CountPending, CountRunning, Preempt, RejectRequest,
              AnnounceAccepted, Reject
<1>4. CASE AcceptTask
  BY <1>4 DEF AcceptTask, NextAct, Spawned
<1>5. CASE SchedulerTick
  BY <1>5 DEF SchedulerTick, NextAct, Spawned
<1>6. CASE WatchdogTick \/ StopRequested \/ MainStep
  BY <1>6 DEF WatchdogTick, StopRequested, MainStep, JoinServices, Drain, CloseDevices
<1>7. ASSUME NEW p \in Threads, Deactivate(p) PROVE pc'[a] = pc[a] \/ Deactivate(a)
  BY <1>7, DeactivateMoves
<1>8. ASSUME NEW b \in Acts, Activate(b) PROVE pc'[a] = pc[a] \/ Activate(a)
  BY <1>8, ActivateMoves
<1>9. ASSUME NEW q \in Threads, q \notin Acts, ExecDone(q) \/ StreamError(q) PROVE pc'[a] = pc[a]
  BY <1>9 DEF ExecDone, StreamError
<1> QED BY <1>1, <1>2, <1>3, <1>4, <1>5, <1>6, <1>7, <1>8, <1>9 DEF Next

(* Only a teardown and an insertion change runtimes.                       *)
LEMMA RuntimeMoves ==
  ASSUME IInv, [Next]_vars
  PROVE  \/ runtime' = runtime
         \/ \E p \in Threads : Teardown(p) /\ arg[p] \in Tasks
                               /\ runtime' = [runtime EXCEPT ![arg[p]] = NoThread]
         \/ \E a \in Acts : ActInsert(a) /\ runtime' = [runtime EXCEPT ![a[2]] = a]
<1> USE DEF hwVars
<1>1. CASE UNCHANGED vars \/ Finished
  BY <1>1 DEF vars, Finished
<1>2. ASSUME NEW t \in Tasks, ReceiveRequest(t) \/ ReceiveStopOrCancel(t) \/ TimePasses(t)
      PROVE  runtime' = runtime
  BY <1>2 DEF ReceiveRequest, ReceiveStopOrCancel, TimePasses
<1>3. CASE AcceptStep
  BY <1>3 DEF AcceptStep, CountScheduled, CountPending, CountRunning, Preempt, RejectRequest,
              AcceptTask, AnnounceAccepted
<1>4. CASE SchedulerTick \/ WatchdogTick \/ StopRequested \/ MainStep
  BY <1>4 DEF SchedulerTick, WatchdogTick, StopRequested, MainStep, JoinServices, Drain,
              CloseDevices
<1>5. ASSUME NEW p \in Threads, Deactivate(p), ~Teardown(p) PROVE runtime' = runtime
  BY <1>5 DEF Deactivate, ClaimTerminal, ClaimLate, CheckOrphan, JoinExec, ReleaseResources,
              NotifyLate
<1>6. ASSUME NEW p \in Threads, Teardown(p)
      PROVE  \/ runtime' = runtime
             \/ arg[p] \in Tasks /\ runtime' = [runtime EXCEPT ![arg[p]] = NoThread]
  <2>1. arg[p] \in Tasks
    BY <1>6 DEF Teardown, IInv, CallsInv, InCall
  <2> QED BY <1>6, <2>1 DEF Teardown
<1>7. ASSUME NEW a \in Acts, Activate(a), ~ActInsert(a) PROVE runtime' = runtime
  BY <1>7 DEF Activate, ActStart, ActLock, ActOpenStream, ActHwFailure, ActUnlock, ActReplaced,
              ActRun, ActAnnounce
<1>8. ASSUME NEW a \in Acts, ActInsert(a) PROVE runtime' = [runtime EXCEPT ![a[2]] = a]
  BY <1>8 DEF ActInsert
<1>9. ASSUME NEW q \in Threads, ExecDone(q) \/ StreamError(q) PROVE runtime' = runtime
  BY <1>9 DEF ExecDone, StreamError
<1> QED BY <1>1, <1>2, <1>3, <1>4, <1>5, <1>6, <1>7, <1>8, <1>9, ThreadFacts DEF Next

(***************************************************************************)
(* The owners of runtimes and streams.                                     *)
(***************************************************************************)
LEMMA RuntimeStep ==
  ASSUME IInv, RuntimeInv, [Next]_vars
  PROVE  RuntimeInv'
<1> SUFFICES ASSUME NEW t \in Tasks, runtime'[t] # NoThread
             PROVE  /\ runtime'[t][2] = t
                    /\ pc'[runtime'[t]] \in {"replace", "run", "announce", "done"}
  BY DEF RuntimeInv
<1>1. CASE runtime'[t] = runtime[t]
  <2>1. /\ runtime[t] \in Acts /\ runtime[t][2] = t
        /\ pc[runtime[t]] \in {"replace", "run", "announce", "done"}
    BY <1>1 DEF RuntimeInv, IInv, TypeOK
  <2>2. pc'[runtime[t]] \in {"replace", "run", "announce", "done"}
    <3>1. ~Deactivate(runtime[t])
      BY <2>1, DeactivateMoves, ThreadFacts DEF InCall
    <3>2. Activate(runtime[t]) => pc'[runtime[t]] \in {"run", "announce", "done"}
      BY <2>1, ActivateMoves DEF IInv
    <3> QED BY <2>1, <3>1, <3>2, ActMoves
  <2> QED BY <1>1, <2>1, <2>2
<1>2. ASSUME NEW a \in Acts, ActInsert(a), runtime' = [runtime EXCEPT ![a[2]] = a], t = a[2]
      PROVE  /\ runtime'[t][2] = t
             /\ pc'[runtime'[t]] \in {"replace", "run", "announce", "done"}
  <2>1. runtime'[t] = a
    BY <1>2 DEF IInv, TypeOK
  <2>2. pc[a] = "insert" /\ Activate(a)
    BY <1>2 DEF ActInsert, Activate
  <2> QED BY <1>2, <2>1, <2>2, ActivateMoves DEF IInv
<1>3. ASSUME NEW u \in Tasks, NEW x, runtime' = [runtime EXCEPT ![u] = x], t # u
      PROVE  runtime'[t] = runtime[t]
  BY <1>3 DEF IInv, TypeOK
<1>4. ASSUME NEW u \in Tasks, runtime' = [runtime EXCEPT ![u] = NoThread]
      PROVE  t # u
  BY <1>4 DEF IInv, TypeOK
<1> QED BY <1>1, <1>2, <1>3, <1>4, RuntimeMoves, ThreadFacts

(* Streams are opened while they are set up, and closed with the runtime.  *)
LEMMA OpenedMoves ==
  ASSUME IInv, [Next]_vars
  PROVE  \/ opened' = opened
         \/ \E a \in Acts : ActOpenStream(a)
         \/ \E p \in Threads : Teardown(p) /\ arg[p] \in Tasks /\ runtime[arg[p]] \in Acts
                               /\ opened' = [opened EXCEPT ![runtime[arg[p]]] = 0]
<1> USE DEF hwVars
<1>1. CASE UNCHANGED vars \/ Finished
  BY <1>1 DEF vars, Finished
<1>2. ASSUME NEW t \in Tasks, ReceiveRequest(t) \/ ReceiveStopOrCancel(t) \/ TimePasses(t)
      PROVE  opened' = opened
  BY <1>2 DEF ReceiveRequest, ReceiveStopOrCancel, TimePasses
<1>3. CASE AcceptStep
  BY <1>3 DEF AcceptStep, CountScheduled, CountPending, CountRunning, Preempt, RejectRequest,
              AcceptTask, AnnounceAccepted
<1>4. CASE SchedulerTick \/ WatchdogTick \/ StopRequested \/ MainStep
  BY <1>4 DEF SchedulerTick, WatchdogTick, StopRequested, MainStep, JoinServices, Drain,
              CloseDevices
<1>5. ASSUME NEW p \in Threads, Deactivate(p), ~Teardown(p) PROVE opened' = opened
  BY <1>5 DEF Deactivate, ClaimTerminal, ClaimLate, CheckOrphan, JoinExec, ReleaseResources,
              NotifyLate
<1>6. ASSUME NEW p \in Threads, Teardown(p)
      PROVE  \/ opened' = opened
             \/ /\ arg[p] \in Tasks /\ runtime[arg[p]] \in Acts
                /\ opened' = [opened EXCEPT ![runtime[arg[p]]] = 0]
  <2>1. arg[p] \in Tasks
    BY <1>6 DEF Teardown, IInv, CallsInv, InCall
  <2>2. runtime[arg[p]] \in Acts \cup {NoThread}
    BY <2>1 DEF IInv, TypeOK
  <2> QED BY <1>6, <2>1, <2>2 DEF Teardown
<1>7. ASSUME NEW a \in Acts, Activate(a), ~ActOpenStream(a) PROVE opened' = opened
  BY <1>7 DEF Activate, ActStart, ActLock, ActInsert, ActHwFailure, ActUnlock, ActReplaced,
              ActRun, ActAnnounce
<1>8. ASSUME NEW q \in Threads, ExecDone(q) \/ StreamError(q) PROVE opened' = opened
  BY <1>8 DEF ExecDone, StreamError
<1> QED BY <1>1, <1>2, <1>3, <1>4, <1>5, <1>6, <1>7, <1>8, ThreadFacts DEF Next

(* A failure leaves nothing open where the streams come up together.       *)
LEMMA FailureMoves ==
  ASSUME TypeOK, NEW a \in Acts, Activate(a)
  PROVE  /\ pc'[a] = "claim" => opened[a] < Streams[a[2]]
         /\ pc[a] = "insert" => ActInsert(a)
<1> USE ThreadFacts DEF TypeOK, Goto
<1>1. CASE ActHwFailure(a)
  BY <1>1 DEF ActHwFailure
<1>2. CASE ActInsert(a)
  BY <1>2 DEF ActInsert
<1>3. CASE ActUnlock(a)
  <2>1. ExecOf(a) # a
    OBVIOUS
  <2> QED BY <1>3, <2>1 DEF ActUnlock
<1>4. CASE ActStart(a) \/ ActLock(a) \/ ActOpenStream(a) \/ ActReplaced(a) \/ ActRun(a)
           \/ ActAnnounce(a)
  BY <1>4 DEF ActStart, ActLock, ActOpenStream, ActReplaced, ActRun, ActAnnounce
<1> QED BY <1>1, <1>2, <1>3, <1>4 DEF Activate

(* Every step leaves the open streams with an owner.                       *)
LEMMA OpenedStep ==
  ASSUME AtMostOneStream, StartedOnce, IInv, RuntimeInv, OpenedInv, [Next]_vars
  PROVE  OpenedInv'
<1> SUFFICES ASSUME NEW a \in Acts, opened'[a] > 0
             PROVE  pc'[a] \in {"setup", "insert"} \/ runtime'[a[2]] = a
  BY DEF OpenedInv
<1>1. a[2] \in Tasks
  BY ThreadFacts
<1>2. ASSUME NEW b \in Acts, ActOpenStream(b)
      PROVE  pc'[a] \in {"setup", "insert"} \/ runtime'[a[2]] = a
  <2>1. CASE b = a
    BY <1>2, <2>1 DEF ActOpenStream
  <2>2. CASE b # a
    <3>1. opened'[a] = opened[a] /\ pc' = pc /\ runtime' = runtime
      BY <1>2, <2>2 DEF ActOpenStream, IInv, TypeOK
    <3> QED BY <3>1 DEF OpenedInv
  <2> QED BY <2>1, <2>2
<1>3. ASSUME opened'[a] = opened[a], pc[a] \in {"setup", "insert"}
      PROVE  pc'[a] \in {"setup", "insert"} \/ runtime'[a[2]] = a
  <2>1. ~Deactivate(a)
    BY <1>3, DeactivateMoves, ThreadFacts DEF InCall
  <2>2. ASSUME Activate(a) PROVE pc'[a] \in {"setup", "insert"} \/ runtime'[a[2]] = a
    <3>1. pc'[a] # "claim"
      <4>1. Streams[a[2]] \in Nat /\ Streams[a[2]] <= 1 /\ opened[a] \in Nat
        BY <1>1, ConstantsAssumption DEF AtMostOneStream, IInv, TypeOK
      <4> QED BY <1>3, <2>2, <4>1, FailureMoves DEF IInv
    <3>2. CASE pc[a] = "setup"
      BY <2>2, <3>1, <3>2, ActivateMoves DEF IInv
    <3>3. CASE pc[a] = "insert"
      <4>1. ActInsert(a)
        BY <2>2, <3>3, FailureMoves DEF IInv
      <4> QED BY <1>1, <4>1 DEF ActInsert, IInv, TypeOK
    <3> QED BY <1>3, <3>2, <3>3
  <2> QED BY <1>3, <2>1, <2>2, ActMoves
<1>4. ASSUME opened'[a] = opened[a], runtime[a[2]] = a, runtime'[a[2]] # a,
             \A p \in Threads : ~(Teardown(p) /\ arg[p] = a[2])
      PROVE  FALSE
  <2>1. PICK b \in Acts : ActInsert(b) /\ runtime' = [runtime EXCEPT ![b[2]] = b]
    <3>1. ASSUME NEW u \in Tasks, u # a[2], runtime' = [runtime EXCEPT ![u] = NoThread]
          PROVE  FALSE
      BY <1>1, <1>4, <3>1 DEF IInv, TypeOK
    <3> QED BY <1>1, <1>4, <3>1, RuntimeMoves
  <2>2. b[2] = a[2]
    BY <1>1, <1>4, <2>1, ThreadFacts DEF IInv, TypeOK
  <2>3. pc[b] = "insert" /\ pc[a] \in {"replace", "run", "announce", "done"}
    <3>1. pc[b] = "insert"
      BY <2>1 DEF ActInsert
    <3>2. a # NoThread
      BY ThreadFacts
    <3> QED BY <1>1, <1>4, <3>1, <3>2 DEF RuntimeInv
  <2> QED BY <2>2, <2>3 DEF StartedOnce, Spawned
<1>5. ASSUME NEW p \in Threads, Teardown(p), arg[p] \in Tasks, runtime[arg[p]] \in Acts,
             opened' = [opened EXCEPT ![runtime[arg[p]]] = 0]
      PROVE  runtime[arg[p]] # a /\ opened'[a] = opened[a]
  BY <1>5 DEF IInv, TypeOK
<1>6. ASSUME NEW p \in Threads, Teardown(p), arg[p] = a[2], runtime[a[2]] = a
      PROVE  FALSE
  <2>1. a # NoThread
    BY ThreadFacts
  <2> QED BY <1>6, <2>1 DEF Teardown, IInv, TypeOK
<1>7. CASE opened'[a] = opened[a]
  BY <1>3, <1>4, <1>6, <1>7 DEF OpenedInv
<1> QED BY <1>2, <1>5, <1>7, OpenedMoves

(***************************************************************************)
(* The states of the tasks.                                                *)
(***************************************************************************)

(* Who changes a task's state, and how.                                    *)
LEMMA StateMoves ==
  ASSUME IInv, [Next]_vars, NEW t \in Tasks, state'[t] # state[t]
  PROVE  \/ /\ AcceptTask /\ t = accepting /\ state[t] = "absent"
            /\ state'[t] \in {"SCHEDULED", "PENDING"}
         \/ /\ state[t] \in Active
            /\ \E a \in Acts : a[2] = t /\ Activate(a) /\ pc[a] = "start" /\ state'[t] = "PENDING"
         \/ /\ state[t] \in Active
            /\ \E a \in Acts : a[2] = t /\ Activate(a) /\ pc[a] = "run" /\ state'[t] = "RUNNING"
         \/ \E p \in Threads : /\ ClaimTerminal(p, t)
                               /\ state[t] \in Active /\ state'[t] \in Terminal
<1> DEFINE Changed == \/ /\ AcceptTask /\ t = accepting /\ state[t] = "absent"
                         /\ state'[t] \in {"SCHEDULED", "PENDING"}
                      \/ /\ state[t] \in Active
                         /\ \E a \in Acts : a[2] = t /\ Activate(a) /\ pc[a] = "start"
                                            /\ state'[t] = "PENDING"
                      \/ /\ state[t] \in Active
                         /\ \E a \in Acts : a[2] = t /\ Activate(a) /\ pc[a] = "run"
                                            /\ state'[t] = "RUNNING"
                      \/ \E p \in Threads : /\ ClaimTerminal(p, t)
                                            /\ state[t] \in Active /\ state'[t] \in Terminal
<1>0. state[t] \in {"absent"} \cup Active \cup Terminal
  BY DEF IInv, TypeOK
<1>1. CASE UNCHANGED vars \/ Finished
  BY <1>1 DEF vars, regVars, Finished
<1>2. ASSUME NEW u \in Tasks, ReceiveRequest(u) \/ ReceiveStopOrCancel(u) \/ TimePasses(u)
      PROVE  FALSE
  BY <1>2 DEF ReceiveRequest, ReceiveStopOrCancel, TimePasses, regVars
<1>3. ASSUME AcceptStep, ~AcceptTask PROVE FALSE
  BY <1>3 DEF AcceptStep, CountScheduled, CountPending, CountRunning, Preempt, RejectRequest,
              AnnounceAccepted, regVars
<1>4. CASE AcceptTask
  <2>1. /\ accepting \in Tasks /\ state[accepting] = "absent"
        /\ state' = [state EXCEPT ![accepting] = IF Mode[accepting] = "SCHEDULED"
                                                 THEN "SCHEDULED" ELSE "PENDING"]
    <3>1. pc[Amqp] \in {"find", "retry"}
      BY <1>4 DEF AcceptTask
    <3>2. accepting \in Tasks /\ accepting # NoTask
      BY <3>1, ConstantsAssumption DEF IInv, KnownInv, Admitting
    <3>3. state[accepting] = "absent"
      BY <3>1, <3>2 DEF IInv, KnownInv
    <3> QED BY <1>4, <3>2, <3>3 DEF AcceptTask
  <2> QED BY <1>4, <2>1 DEF IInv, TypeOK
<1>5. ASSUME SchedulerTick \/ WatchdogTick \/ StopRequested \/ MainStep PROVE FALSE
  BY <1>5 DEF SchedulerTick, WatchdogTick, StopRequested, MainStep, JoinServices, Drain,
              CloseDevices, regVars
<1>6. ASSUME NEW p \in Threads, NEW u \in Tasks, ClaimTerminal(p, u) PROVE Changed
  <2>1. /\ Calls(p, u) /\ state[u] \notin Terminal
        /\ \E s \in Goals(p) : state' = [state EXCEPT ![u] = s]
    BY <1>6 DEF ClaimTerminal
  <2>2. Goals(p) \subseteq Terminal
    BY DEF Goals, Terminal
  <2>3. u = t
    BY <2>1 DEF IInv, TypeOK
  <2>4. state[t] # "absent"
    BY <2>1, <2>3, CallsFacts
  <2> QED BY <1>0, <1>6, <2>1, <2>2, <2>3, <2>4 DEF IInv, TypeOK
<1>7. ASSUME NEW p \in Threads, Deactivate(p), \A u \in Tasks : ~ClaimTerminal(p, u)
      PROVE  FALSE
  BY <1>7 DEF Deactivate, ClaimLate, CheckOrphan, Teardown, JoinExec, ReleaseResources,
              NotifyLate, regVars
<1>8. ASSUME NEW a \in Acts, ActStart(a) \/ ActRun(a) PROVE Changed
  <2>1. a \in Threads \ Services /\ a[2] \in Tasks
    BY ThreadFacts
  <2>2. pc[a] \in {"start", "run"}
    BY <1>8 DEF ActStart, ActRun
  <2>3. state[a[2]] # "absent"
    BY <2>1, <2>2 DEF IInv, KnownInv
  <2>4. a[2] = t /\ state[t] \notin Terminal
        /\ \/ pc[a] = "start" /\ state'[t] = "PENDING"
           \/ pc[a] = "run" /\ state'[t] = "RUNNING"
    BY <1>8, <2>1 DEF ActStart, ActRun, IInv, TypeOK
  <2>5. Activate(a)
    BY <1>8 DEF Activate
  <2> QED BY <1>0, <2>3, <2>4, <2>5
<1>9. ASSUME NEW a \in Acts, Activate(a), ~ActStart(a), ~ActRun(a) PROVE FALSE
  BY <1>9 DEF Activate, ActLock, ActOpenStream, ActHwFailure, ActUnlock, ActInsert, ActReplaced,
              ActAnnounce, regVars
<1>10. ASSUME NEW q \in Threads, ExecDone(q) \/ StreamError(q) PROVE FALSE
  BY <1>10 DEF ExecDone, StreamError, regVars
<1> HIDE DEF Changed
<1>11. Changed
  BY <1>1, <1>2, <1>3, <1>4, <1>5, <1>6, <1>7, <1>8, <1>9, <1>10, ThreadFacts DEF Next, Changed
<1> QED BY <1>11 DEF Changed

(* An activation is spawned for a task that is not RUNNING.                *)
LEMMA SpawnMoves ==
  ASSUME IInv, NEW a \in Acts, pc[a] = "idle", pc'[a] = "start", AcceptTask \/ SchedulerTick
  PROVE  state'[a[2]] # "RUNNING"
<1>1. CASE AcceptTask
  <2>1. a \in NextAct(accepting) /\ Mode[accepting] # "SCHEDULED"
    BY <1>1, ThreadFacts DEF AcceptTask, IInv, TypeOK
  <2>2. a[2] = accepting
    BY <2>1 DEF NextAct
  <2> QED BY <1>1, <2>1, <2>2, ThreadFacts DEF AcceptTask, IInv, TypeOK
<1>2. CASE SchedulerTick
  <2>1. a \in UNION {NextAct(t) : t \in {u \in Tasks : state[u] = "SCHEDULED" /\ clock[u] # "before"}}
    BY <1>2, ThreadFacts DEF SchedulerTick
  <2>2. state[a[2]] = "SCHEDULED"
    BY <2>1 DEF NextAct
  <2> QED BY <1>2, <2>2 DEF SchedulerTick, regVars
<1> QED BY <1>1, <1>2

(* Every step keeps RUNNING to tasks whose activation is past its work.    *)
LEMMA RunningStep ==
  ASSUME StartedOnce, IInv, RunningInv, [Next]_vars
  PROVE  RunningInv'
<1> DEFINE Before == {"start", "lock", "setup", "insert", "replace", "run"}
<1> SUFFICES ASSUME NEW a \in Acts, pc'[a] \in Before, state'[a[2]] = "RUNNING"
             PROVE  FALSE
  BY DEF RunningInv
<1>1. a[2] \in Tasks
  BY ThreadFacts
<1>2. pc[a] \in Before
  <2>1. ~(pc[a] = "idle" /\ pc'[a] = "start" /\ (AcceptTask \/ SchedulerTick))
    BY SpawnMoves
  <2>2. ~Deactivate(a)
    BY DeactivateMoves, ThreadFacts DEF InCall
  <2>3. Activate(a) => pc[a] \in Before
    BY ActivateMoves DEF IInv
  <2> QED BY <2>1, <2>2, <2>3, ActMoves
<1>3. state[a[2]] # "RUNNING"
  BY <1>2 DEF RunningInv
<1>4. PICK b \in Acts : b[2] = a[2] /\ Activate(b) /\ pc[b] = "run"
  <2>1. state'[a[2]] \notin {"SCHEDULED", "PENDING"} \cup Terminal
    BY DEF Terminal
  <2> QED BY <1>1, <1>3, <2>1, StateMoves
<1>5. a = b
  BY <1>2, <1>4 DEF StartedOnce, Spawned
<1>6. pc'[a] = "announce"
  BY <1>4, <1>5, ActivateMoves DEF IInv
<1> QED BY <1>6

(***************************************************************************)
(* The cap.                                                                *)
(***************************************************************************)

(* Fewer tasks, a smaller count.                                           *)
LEMMA CountIs ==
  ASSUME NEW A \in SUBSET Tasks, NEW B \in SUBSET Tasks
  PROVE  /\ Cardinality(A) \in Nat
         /\ A \subseteq B => Cardinality(A) <= Cardinality(B)
         /\ Cardinality(A \cup B) <= Cardinality(A) + Cardinality(B)
<1>1. IsFiniteSet(A) /\ IsFiniteSet(B)
  BY ConstantsAssumption, FS_Subset
<1>2. Cardinality(A) \in Nat /\ Cardinality(B) \in Nat /\ Cardinality(A \cap B) \in Nat
  BY <1>1, FS_CardinalityType, FS_Intersection
<1>3. Cardinality(A \cup B) = Cardinality(A) + Cardinality(B) - Cardinality(A \cap B)
  BY <1>1, FS_Union
<1>4. A \subseteq B => Cardinality(A) <= Cardinality(B)
  BY <1>1, FS_Subset
<1> QED BY <1>2, <1>3, <1>4

(* Except by an acceptance no task becomes active, none goes back to       *)
(* SCHEDULED, and a RUNNING one not to PENDING.                            *)
LEMMA CountsShrink ==
  ASSUME IInv, RunningInv, [Next]_vars, ~AcceptTask,
         NEW S \in {{"SCHEDULED"}, {"SCHEDULED", "PENDING"}, Active}
  PROVE  Cardinality(In(S)') <= Cardinality(In(S))
<1>1. ASSUME NEW t \in Tasks, state'[t] \in S PROVE state[t] \in S
  <2>1. CASE state'[t] = state[t]
    BY <1>1, <2>1
  <2>2. ASSUME NEW a \in Acts, a[2] = t, pc[a] = "start", state[t] \in Active,
               state'[t] = "PENDING"
        PROVE  state[t] \in S
    <3>1. state[t] # "RUNNING"
      BY <2>2 DEF RunningInv
    <3> QED BY <1>1, <2>2, <3>1 DEF Active
  <2>3. CASE state[t] \in Active /\ state'[t] = "RUNNING"
    BY <1>1, <2>3 DEF Active
  <2>4. CASE state'[t] \in Terminal
    BY <1>1, <2>4 DEF Active, Terminal
  <2> QED BY <2>1, <2>2, <2>3, <2>4, StateMoves
<1>2. In(S)' \subseteq In(S)
  BY <1>1 DEF In
<1>3. In(S)' \in SUBSET Tasks /\ In(S) \in SUBSET Tasks
  BY DEF In
<1> QED BY <1>2, <1>3, CountIs

(* The AMQP thread moves alone.                                            *)
LEMMA AmqpMoves ==
  ASSUME IInv, [Next]_vars
  PROVE  \/ AcceptStep
         \/ \E t \in Tasks : ReceiveRequest(t) \/ ReceiveStopOrCancel(t)
         \/ Deactivate(Amqp)
         \/ pc'[Amqp] = pc[Amqp] /\ accepting' = accepting /\ counted' = counted
<1> USE ThreadFacts DEF IInv, TypeOK, Goto, amqpVars
<1>1. CASE UNCHANGED vars \/ Finished
  BY <1>1 DEF vars, Finished
<1>2. ASSUME NEW t \in Tasks, TimePasses(t)
      PROVE  pc'[Amqp] = pc[Amqp] /\ accepting' = accepting /\ counted' = counted
  BY <1>2 DEF TimePasses
<1>3. CASE SchedulerTick
  BY <1>3 DEF SchedulerTick, NextAct
<1>4. CASE WatchdogTick \/ StopRequested \/ MainStep
  BY <1>4 DEF WatchdogTick, StopRequested, MainStep, JoinServices, Drain, CloseDevices
<1>5. ASSUME NEW p \in Threads, p # Amqp, Deactivate(p)
      PROVE  pc'[Amqp] = pc[Amqp] /\ accepting' = accepting /\ counted' = counted
  BY <1>5, DeactivateMoves
<1>6. ASSUME NEW a \in Acts, Activate(a)
      PROVE  pc'[Amqp] = pc[Amqp] /\ accepting' = accepting /\ counted' = counted
  BY <1>6, ActivateMoves
<1>7. ASSUME NEW q \in Threads, q # Amqp, ExecDone(q) \/ StreamError(q)
      PROVE  pc'[Amqp] = pc[Amqp] /\ accepting' = accepting /\ counted' = counted
  BY <1>7 DEF ExecDone, StreamError
<1> QED BY <1>1, <1>2, <1>3, <1>4, <1>5, <1>6, <1>7 DEF Next

(* An acceptance ends with its announcement.                               *)
LEMMA AcceptMoves == ASSUME AcceptTask PROVE pc'[Amqp] = "announce"
<1>1. Amqp \in Threads /\ Amqp \notin NextAct(accepting)
  BY ThreadFacts DEF NextAct
<1> QED BY <1>1 DEF AcceptTask

(* An accepted task takes the room that was left for it.                   *)
LEMMA CountAccept ==
  ASSUME IInv, CountInv, AcceptTask
  PROVE  CountInv'
<1>1. accepting \in Tasks /\ accepting # NoTask /\ pc[Amqp] \in {"find", "retry"}
  BY ConstantsAssumption DEF AcceptTask, IInv, KnownInv, Admitting
<1>2. Cardinality(In(Active)) < MaxTasks
  BY <1>1 DEF CountInv
<1>3. In(Active)' \subseteq In(Active) \cup {accepting}
  <2>1. \A t \in Tasks : t # accepting => state'[t] = state[t]
    BY DEF AcceptTask, IInv, TypeOK
  <2> QED BY <2>1 DEF In
<1>4. Cardinality(In(Active)') <= Cardinality(In(Active)) + 1
  <2>1. In(Active) \in SUBSET Tasks /\ In(Active)' \in SUBSET Tasks
    BY DEF In
  <2>2. {accepting} \in SUBSET Tasks /\ In(Active) \cup {accepting} \in SUBSET Tasks
    BY <1>1, <2>1
  <2>3. Cardinality(In(Active)') <= Cardinality(In(Active) \cup {accepting})
    BY <1>3, <2>1, <2>2, CountIs
  <2>4. Cardinality(In(Active) \cup {accepting}) <= Cardinality(In(Active)) + Cardinality({accepting})
    BY <2>1, <2>2, CountIs
  <2>5. Cardinality({accepting}) = 1
    BY FS_Singleton
  <2>6. /\ Cardinality(In(Active)') \in Nat /\ Cardinality(In(Active)) \in Nat
        /\ Cardinality(In(Active) \cup {accepting}) \in Nat
    BY <2>1, <2>2, CountIs
  <2> QED BY <2>3, <2>4, <2>5, <2>6
<1>5. pc'[Amqp] = "announce"
  BY AcceptMoves
<1>6. Cardinality(In(Active)') \in Nat /\ Cardinality(In(Active)) \in Nat /\ MaxTasks \in Nat
  <2>1. In(Active) \in SUBSET Tasks /\ In(Active)' \in SUBSET Tasks
    BY DEF In
  <2> QED BY <2>1, CountIs, ConstantsAssumption
<1> QED BY <1>2, <1>4, <1>5, <1>6 DEF CountInv, Active

(* The three counts, one after the other.                                  *)
LEMMA CountCounts ==
  ASSUME IInv, CountInv, CountScheduled \/ CountPending \/ CountRunning
  PROVE  CountInv'
<1> USE DEF Goto, regVars
<1> DEFINE Sch == In({"SCHEDULED"})
           Pen == In({"PENDING"})
           Run == In({"RUNNING"})
           Both == In({"SCHEDULED", "PENDING"})
           All == In(Active)
<1>1. state' = state /\ Amqp \in Threads /\ pc \in [Threads -> Labels]
  BY ThreadFacts DEF CountScheduled, CountPending, CountRunning, IInv, TypeOK
<1>2. Sch' = Sch /\ Both' = Both /\ All' = All
  BY <1>1 DEF In
<1>3. /\ CountByState("SCHEDULED") = Cardinality(Sch)
      /\ CountByState("PENDING") = Cardinality(Pen)
      /\ CountByState("RUNNING") = Cardinality(Run)
  BY DEF CountByState, In
<1>4. Both = Sch \cup Pen /\ All = Both \cup Run
  BY DEF In, Active
<1>5. /\ Sch \in SUBSET Tasks /\ Pen \in SUBSET Tasks /\ Run \in SUBSET Tasks
      /\ Both \in SUBSET Tasks /\ All \in SUBSET Tasks
  BY DEF In
<1>6. CountInv => Cardinality(All) <= MaxTasks
  BY DEF CountInv
<1> HIDE DEF Sch, Pen, Run, Both, All
<1>7. /\ Cardinality(Sch) \in Nat /\ Cardinality(Pen) \in Nat /\ Cardinality(Run) \in Nat
      /\ Cardinality(Both) \in Nat /\ Cardinality(All) \in Nat
      /\ Cardinality(Both) <= Cardinality(Sch) + Cardinality(Pen)
      /\ Cardinality(All) <= Cardinality(Both) + Cardinality(Run)
  BY <1>4, <1>5, CountIs
<1>8. counted \in Nat /\ MaxTasks \in Nat
  BY ConstantsAssumption DEF IInv, TypeOK
<1>9. /\ pc[Amqp] = "countPending" => Cardinality(Sch) <= counted
      /\ pc[Amqp] = "countRunning" => Cardinality(Both) <= counted
  BY DEF CountInv, Sch, Both
<1>10. /\ pc'[Amqp] = "countPending" => Cardinality(Sch) <= counted'
       /\ pc'[Amqp] = "countRunning" => Cardinality(Both) <= counted'
       /\ accepting' # NoTask
          /\ pc'[Amqp] \notin {"countScheduled", "countPending", "countRunning", "announce"}
          => Cardinality(All) < MaxTasks
  <2>1. CASE CountScheduled
    BY <1>1, <1>3, <1>7, <2>1 DEF CountScheduled
  <2>2. CASE CountPending
    <3>1. /\ counted' = counted + Cardinality(Pen) /\ pc[Amqp] = "countPending"
          /\ pc'[Amqp] = "countRunning"
      BY <1>1, <1>3, <2>2 DEF CountPending
    <3> QED BY <1>7, <1>8, <1>9, <3>1
  <2>3. CASE CountRunning
    <3>1. pc[Amqp] = "countRunning" /\ Cardinality(Both) <= counted
      BY <1>9, <2>3 DEF CountRunning
    <3>2. CASE counted + CountByState("RUNNING") >= MaxTasks
      BY <1>1, <2>3, <3>2 DEF CountRunning, Reject
    <3>3. CASE ~(counted + CountByState("RUNNING") >= MaxTasks)
      <4>1. pc'[Amqp] = "find"
        BY <1>1, <2>3, <3>3 DEF CountRunning
      <4>2. Cardinality(All) < MaxTasks
        BY <1>3, <1>7, <1>8, <3>1, <3>3
      <4> QED BY <4>1, <4>2
    <3> QED BY <3>2, <3>3
  <2> QED BY <2>1, <2>2, <2>3
<1> QED BY <1>2, <1>6, <1>10 DEF CountInv, Sch, Both, All

(* Every step keeps the counts, and the tasks within the cap.              *)
LEMMA CountStep ==
  ASSUME IInv, RunningInv, CountInv, [Next]_vars
  PROVE  CountInv'
<1>1. CASE AcceptTask
  BY <1>1, CountAccept
<1>2. CASE CountScheduled \/ CountPending \/ CountRunning
  BY <1>2, CountCounts
<1>3. ASSUME ~AcceptTask,
             \/ accepting' = NoTask
             \/ pc'[Amqp] = "countScheduled"
             \/ /\ counted' = counted /\ accepting' = accepting
                /\ \/ pc'[Amqp] = pc[Amqp]
                   \/ pc[Amqp] \notin {"countScheduled", "countPending", "countRunning", "announce"},
             pc'[Amqp] \in {"countPending", "countRunning"} => pc'[Amqp] = pc[Amqp] /\ counted' = counted
      PROVE  CountInv'
  <2> DEFINE c1 == Cardinality(In({"SCHEDULED"}))
             c2 == Cardinality(In({"SCHEDULED", "PENDING"}))
             c3 == Cardinality(In(Active))
  <2>1. c1' <= c1 /\ c2' <= c2 /\ c3' <= c3
    BY <1>3, CountsShrink
  <2>2. /\ c1 \in Nat /\ c2 \in Nat /\ c3 \in Nat
        /\ c1' \in Nat /\ c2' \in Nat /\ c3' \in Nat
    <3>1. \A S : In(S) \in SUBSET Tasks /\ In(S)' \in SUBSET Tasks
      BY DEF In
    <3> QED BY <3>1, CountIs
  <2>3. MaxTasks \in Nat /\ counted \in Nat
    BY ConstantsAssumption DEF IInv, TypeOK
  <2>4. /\ pc[Amqp] = "countPending" => c1 <= counted
        /\ pc[Amqp] = "countRunning" => c2 <= counted
        /\ accepting # NoTask
           /\ pc[Amqp] \notin {"countScheduled", "countPending", "countRunning", "announce"}
           => c3 < MaxTasks
        /\ c3 <= MaxTasks
    BY DEF CountInv
  <2> HIDE DEF c1, c2, c3
  <2>5. /\ pc'[Amqp] = "countPending" => c1' <= counted'
        /\ pc'[Amqp] = "countRunning" => c2' <= counted'
        /\ accepting' # NoTask
           /\ pc'[Amqp] \notin {"countScheduled", "countPending", "countRunning", "announce"}
           => c3' < MaxTasks
        /\ c3' <= MaxTasks
    BY <1>3, <2>1, <2>2, <2>3, <2>4
  <2> QED BY <2>5 DEF CountInv, c1, c2, c3
<1>4. ASSUME NEW t \in Tasks, ReceiveRequest(t) \/ ReceiveStopOrCancel(t) PROVE CountInv'
  <2>1. \/ pc'[Amqp] = "countScheduled"
        \/ pc[Amqp] = "idle" /\ pc'[Amqp] = "each" /\ counted' = counted /\ accepting' = accepting
    BY <1>4, ThreadFacts DEF ReceiveRequest, ReceiveStopOrCancel, Goto, amqpVars, IInv, TypeOK
  <2>2. ~AcceptTask
    BY <1>4 DEF ReceiveRequest, ReceiveStopOrCancel, AcceptTask
  <2> QED BY <1>3, <2>1, <2>2
<1>5. CASE Deactivate(Amqp)
  <2>1. /\ pc[Amqp] \in {"each", "claim"} \cup InCall
        /\ pc'[Amqp] \in {"done", "each", "retry", "idle"} \cup InCall
        /\ counted' = counted /\ accepting' = accepting
    BY <1>5, ThreadFacts, DeactivateMoves
  <2>2. ~AcceptTask
    BY <2>1 DEF AcceptTask, InCall
  <2>3. /\ pc[Amqp] \notin {"countScheduled", "countPending", "countRunning", "announce"}
        /\ pc'[Amqp] \notin {"countPending", "countRunning"}
    BY <2>1 DEF InCall
  <2> QED BY <1>3, <2>1, <2>2, <2>3
<1>6. ASSUME Preempt \/ RejectRequest \/ AnnounceAccepted PROVE CountInv'
  <2>1. \/ accepting' = NoTask /\ pc'[Amqp] = "idle"
        \/ pc[Amqp] = "find" /\ pc'[Amqp] = "each" /\ counted' = counted /\ accepting' = accepting
    BY <1>6, ThreadFacts DEF Preempt, RejectRequest, AnnounceAccepted, Reject, Goto, amqpVars,
                             IInv, TypeOK
  <2>2. ~AcceptTask
    BY <2>1, AcceptMoves
  <2> QED BY <1>3, <2>1, <2>2
<1>7. CASE pc'[Amqp] = pc[Amqp] /\ accepting' = accepting /\ counted' = counted
  BY <1>1, <1>3, <1>7
<1> QED BY <1>1, <1>2, <1>4, <1>5, <1>6, <1>7, AmqpMoves DEF AcceptStep

(***************************************************************************)
(* The shutdown.                                                           *)
(***************************************************************************)

(* How far the shutdown is.                                                *)
LEMMA PhaseMoves ==
  ASSUME [Next]_vars
  PROVE  phase' = phase \/ StopRequested \/ JoinServices \/ Drain \/ CloseDevices
<1>1. CASE UNCHANGED vars \/ Finished
  BY <1>1 DEF vars, Finished
<1>2. ASSUME NEW t \in Tasks, ReceiveRequest(t) \/ ReceiveStopOrCancel(t) \/ TimePasses(t)
      PROVE  phase' = phase
  BY <1>2 DEF ReceiveRequest, ReceiveStopOrCancel, TimePasses
<1>3. CASE AcceptStep
  BY <1>3 DEF AcceptStep, CountScheduled, CountPending, CountRunning, Preempt, RejectRequest,
              AcceptTask, AnnounceAccepted
<1>4. CASE SchedulerTick \/ WatchdogTick
  BY <1>4 DEF SchedulerTick, WatchdogTick
<1>5. ASSUME NEW p \in Threads, Deactivate(p) PROVE phase' = phase
  BY <1>5 DEF Deactivate, ClaimTerminal, ClaimLate, CheckOrphan, Teardown, JoinExec,
              ReleaseResources, NotifyLate
<1>6. ASSUME NEW a \in Acts, Activate(a) PROVE phase' = phase
  BY <1>6 DEF Activate, ActStart, ActLock, ActOpenStream, ActHwFailure, ActUnlock, ActInsert,
              ActReplaced, ActRun, ActAnnounce
<1>7. ASSUME NEW q \in Threads, ExecDone(q) \/ StreamError(q) PROVE phase' = phase
  BY <1>7 DEF ExecDone, StreamError
<1> QED BY <1>1, <1>2, <1>3, <1>4, <1>5, <1>6, <1>7, ThreadFacts DEF Next, MainStep

(* The watchdog moves alone.                                               *)
LEMMA WatchdogMoves ==
  ASSUME IInv, [Next]_vars
  PROVE  WatchdogTick \/ Deactivate(Watchdog) \/ pc'[Watchdog] = pc[Watchdog]
<1> USE ThreadFacts DEF IInv, TypeOK, Goto
<1>1. CASE UNCHANGED vars \/ Finished
  BY <1>1 DEF vars, Finished
<1>2. ASSUME NEW t \in Tasks, ReceiveRequest(t) \/ ReceiveStopOrCancel(t) \/ TimePasses(t)
      PROVE  pc'[Watchdog] = pc[Watchdog]
  BY <1>2 DEF ReceiveRequest, ReceiveStopOrCancel, TimePasses
<1>3. CASE AcceptStep /\ ~AcceptTask
  BY <1>3 DEF AcceptStep, CountScheduled, CountPending, CountRunning, Preempt, RejectRequest,
              AnnounceAccepted, Reject
<1>4. CASE AcceptTask
  <2>1. Watchdog \notin NextAct(accepting)
    BY DEF NextAct
  <2> QED BY <1>4, <2>1 DEF AcceptTask
<1>5. CASE SchedulerTick
  BY <1>5 DEF SchedulerTick, NextAct
<1>6. CASE StopRequested \/ MainStep
  BY <1>6 DEF StopRequested, MainStep, JoinServices, Drain, CloseDevices
<1>7. ASSUME NEW p \in Threads, p # Watchdog, Deactivate(p) PROVE pc'[Watchdog] = pc[Watchdog]
  BY <1>7, DeactivateMoves
<1>8. ASSUME NEW a \in Acts, Activate(a) PROVE pc'[Watchdog] = pc[Watchdog]
  BY <1>8, ActivateMoves
<1>9. ASSUME NEW q \in Threads, q # Watchdog, ExecDone(q) \/ StreamError(q)
      PROVE  pc'[Watchdog] = pc[Watchdog]
  BY <1>9 DEF ExecDone, StreamError
<1> QED BY <1>1, <1>2, <1>3, <1>4, <1>5, <1>6, <1>7, <1>8, <1>9 DEF Next

(* Services that were idle when the program stopped stay so, and with them *)
(* nothing begins any more.                                                *)
LEMMA IdleServices ==
  ASSUME IInv, [Next]_vars, phase # "run", pc[Amqp] = "idle", pc[Watchdog] = "idle"
  PROVE  /\ pc'[Amqp] = "idle" /\ pc'[Watchdog] = "idle"
         /\ ~AcceptTask /\ ~SchedulerTick
<1>1. ~AcceptStep
  BY DEF AcceptStep, CountScheduled, CountPending, CountRunning, Preempt, RejectRequest,
         AcceptTask, AnnounceAccepted
<1>2. ~SchedulerTick /\ ~WatchdogTick
  BY DEF SchedulerTick, WatchdogTick
<1>3. \A t \in Tasks : ~ReceiveRequest(t) /\ ~ReceiveStopOrCancel(t)
  BY DEF ReceiveRequest, ReceiveStopOrCancel
<1>4. ~Deactivate(Amqp) /\ ~Deactivate(Watchdog)
  BY DeactivateMoves, ThreadFacts DEF InCall
<1>5. pc'[Amqp] = "idle"
  BY <1>1, <1>3, <1>4, AmqpMoves
<1>6. pc'[Watchdog] = "idle"
  BY <1>2, <1>4, WatchdogMoves
<1> QED BY <1>1, <1>2, <1>5, <1>6 DEF AcceptStep

(* An activation that is not under way stays so when nothing begins.       *)
LEMMA NothingStarts ==
  ASSUME IInv, [Next]_vars, ~AcceptTask, ~SchedulerTick, InFlight = {}
  PROVE  InFlight' = {}
<1> SUFFICES ASSUME NEW a \in Acts PROVE pc'[a] \in {"idle", "done"}
  BY DEF InFlight
<1>1. pc[a] \in {"idle", "done"}
  BY DEF InFlight
<1>2. ~Deactivate(a)
  BY <1>1, DeactivateMoves, ThreadFacts DEF InCall
<1>3. ~Activate(a)
  BY <1>1, ActivateMoves DEF IInv
<1> QED BY <1>1, <1>2, <1>3, ActMoves

(* The main thread and its list.                                           *)
LEMMA DeactivateQueue ==
  ASSUME IInv, NEW p \in Threads, Deactivate(p), p # Main
  PROVE  queue'[Main] = queue[Main]
<1> USE ThreadFacts DEF IInv, TypeOK
<1>1. ASSUME NEW t \in Tasks, ClaimTerminal(p, t) \/ ClaimLate(p, t)
      PROVE  queue'[Main] = queue[Main]
  BY <1>1 DEF ClaimTerminal, ClaimLate, Calls
<1>2. CASE CheckOrphan(p) \/ Teardown(p) \/ JoinExec(p) \/ ReleaseResources(p) \/ NotifyLate(p)
  BY <1>2 DEF CheckOrphan, Teardown, JoinExec, ReleaseResources, NotifyLate
<1> QED BY <1>1, <1>2 DEF Deactivate

LEMMA MainMoves ==
  ASSUME IInv, [Next]_vars
  PROVE  \/ Deactivate(Main)
         \/ MainStep
         \/ pc'[Main] = pc[Main] /\ arg'[Main] = arg[Main] /\ queue'[Main] = queue[Main]
<1> DEFINE Same == pc'[Main] = pc[Main] /\ arg'[Main] = arg[Main] /\ queue'[Main] = queue[Main]
<1> USE ThreadFacts DEF IInv, TypeOK, Goto, callVars
<1>1. CASE UNCHANGED vars \/ Finished
  BY <1>1 DEF vars, Finished
<1>2. ASSUME NEW t \in Tasks, ReceiveRequest(t) \/ ReceiveStopOrCancel(t) \/ TimePasses(t)
      PROVE  Same
  BY <1>2 DEF ReceiveRequest, ReceiveStopOrCancel, TimePasses
<1>3. ASSUME AcceptStep, ~AcceptTask PROVE Same
  BY <1>3 DEF AcceptStep, CountScheduled, CountPending, CountRunning, Preempt, RejectRequest,
              AnnounceAccepted, Reject
<1>4. ASSUME AcceptTask PROVE Same
  <2>1. Main \notin NextAct(accepting)
    BY DEF NextAct
  <2> QED BY <1>4, <2>1 DEF AcceptTask
<1>5. ASSUME SchedulerTick \/ WatchdogTick \/ StopRequested PROVE Same
  BY <1>5 DEF SchedulerTick, NextAct, WatchdogTick, StopRequested
<1>6. ASSUME NEW p \in Threads, p # Main, Deactivate(p) PROVE Same
  BY <1>6, DeactivateMoves, DeactivateQueue
<1>7. ASSUME NEW a \in Acts, Activate(a) PROVE Same
  BY <1>7, ActivateMoves
<1>8. ASSUME NEW q \in Threads, q # Main, ExecDone(q) \/ StreamError(q) PROVE Same
  BY <1>8 DEF ExecDone, StreamError
<1> QED BY <1>1, <1>2, <1>3, <1>4, <1>5, <1>6, <1>7, <1>8 DEF Next

(* A task leaves the list of the main thread when its deactivation begins. *)
LEMMA MainQueue ==
  ASSUME IInv, Deactivate(Main)
  PROVE  \/ queue' = queue
         \/ \E u \in Tasks : /\ queue'[Main] = queue[Main] \ {u} /\ arg'[Main] = u
                             /\ pc'[Main] \in {"orphan", "teardown"}
                             /\ state'[u] \in Terminal
<1> USE ThreadFacts DEF IInv, TypeOK, Goto
<1>1. ASSUME NEW u \in Tasks, ClaimTerminal(Main, u) \/ ClaimLate(Main, u), queue' # queue
      PROVE  /\ queue'[Main] = queue[Main] \ {u} /\ arg'[Main] = u
             /\ pc'[Main] \in {"orphan", "teardown"}
             /\ state'[u] \in Terminal
  <2>1. /\ queue' = [queue EXCEPT ![Main] = queue[Main] \ {u}] /\ arg' = [arg EXCEPT ![Main] = u]
    BY <1>1 DEF ClaimTerminal, ClaimLate, Calls
  <2>2. pc'[Main] \in {"orphan", "teardown"}
    BY <1>1 DEF ClaimTerminal, ClaimLate
  <2>3. state'[u] \in Terminal
    BY <1>1 DEF ClaimTerminal, ClaimLate, Goals, Terminal, regVars
  <2> QED BY <2>1, <2>2, <2>3
<1>2. CASE CheckOrphan(Main) \/ Teardown(Main) \/ JoinExec(Main) \/ ReleaseResources(Main)
           \/ NotifyLate(Main)
  BY <1>2 DEF CheckOrphan, Teardown, JoinExec, ReleaseResources, NotifyLate
<1> QED BY <1>1, <1>2 DEF Deactivate

(* A runtime the main thread has come to is torn down.                     *)
LEMMA MainTearsDown ==
  ASSUME IInv, Deactivate(Main), NEW t \in Tasks, arg[Main] = t,
         pc[Main] \in {"orphan", "teardown"}, runtime[t] # NoThread, runtime'[t] # NoThread
  PROVE  arg'[Main] = t /\ pc'[Main] = "teardown"
<1> USE ThreadFacts DEF IInv, TypeOK, Goto
<1>1. ~JoinExec(Main) /\ ~ReleaseResources(Main) /\ ~NotifyLate(Main)
  BY DEF JoinExec, ReleaseResources, NotifyLate
<1>2. \A u \in Tasks : ~ClaimTerminal(Main, u) /\ ~ClaimLate(Main, u)
  BY DEF ClaimTerminal, ClaimLate, Calls
<1>3. ~Teardown(Main)
  BY DEF Teardown
<1>4. CheckOrphan(Main)
  BY <1>1, <1>2, <1>3 DEF Deactivate
<1> QED BY <1>4 DEF CheckOrphan

(* Every step keeps the order of the shutdown.                             *)
LEMMA LateStep ==
  ASSUME IInv, LateInv, [Next]_vars
  PROVE  LateInv'
<1> USE DEF Late
<1>1. phase' \in Late => phase \in Late \/ JoinServices
  BY PhaseMoves DEF StopRequested, Drain, CloseDevices
<1>2. phase \in Late => /\ pc'[Amqp] = "idle" /\ pc'[Watchdog] = "idle"
                        /\ ~AcceptTask /\ ~SchedulerTick
  BY IdleServices DEF LateInv
<1>3. JoinServices => pc'[Amqp] = "idle" /\ pc'[Watchdog] = "idle" /\ ~AcceptTask
  <2>1. JoinServices => phase # "run" /\ pc[Amqp] = "idle" /\ pc[Watchdog] = "idle"
    BY DEF JoinServices
  <2> QED BY <2>1, IdleServices
<1>4. ASSUME phase \in Late, NEW t \in Tasks, state'[t] \in Active PROVE state[t] \in Active
  BY <1>2, <1>4, StateMoves
<1>5. ASSUME phase' = "cancel", NEW t \in Tasks, state'[t] \in Active PROVE t \in queue'[Main]
  <2>1. CASE JoinServices
    BY <1>5, <2>1, ThreadFacts DEF JoinServices, regVars, IInv, TypeOK
  <2>2. CASE phase = "cancel" /\ ~MainStep
    <3>1. t \in queue[Main]
      BY <1>4, <1>5, <2>2 DEF LateInv
    <3>2. CASE Deactivate(Main)
      <4>1. state'[t] \notin Terminal
        BY <1>5 DEF Active, Terminal
      <4> QED BY <3>1, <3>2, <4>1, MainQueue
    <3> QED BY <2>2, <3>1, <3>2, MainMoves
  <2>3. phase = "cancel" \/ JoinServices
    BY <1>5, PhaseMoves DEF StopRequested, Drain, CloseDevices
  <2>4. MainStep => JoinServices
    BY <1>5 DEF MainStep, Drain, CloseDevices
  <2> QED BY <2>1, <2>2, <2>3, <2>4
<1>6. ASSUME phase' \in {"drain", "final", "closed"}, NEW t \in Tasks
      PROVE  state'[t] \notin Active
  <2>1. phase \in {"drain", "final", "closed"} \/ (phase = "cancel" /\ Drain)
    BY <1>6, PhaseMoves DEF StopRequested, JoinServices, Drain, CloseDevices
  <2>2. state[t] \notin Active
    BY <2>1 DEF LateInv, Drain
  <2> QED BY <1>4, <2>1, <2>2
<1>7. ASSUME phase' \in {"final", "closed"} PROVE InFlight' = {}
  <2>1. phase \in {"final", "closed"} \/ (Drain /\ InFlight = {})
    BY <1>7, PhaseMoves DEF StopRequested, JoinServices, Drain, CloseDevices
  <2>2. phase \in Late /\ InFlight = {}
    BY <2>1 DEF LateInv, Drain
  <2> QED BY <1>2, <2>2, NothingStarts
<1>8. ASSUME phase \in {"final", "closed"}, NEW t \in Tasks, runtime'[t] # NoThread
      PROVE  runtime[t] # NoThread
  <2>1. \A a \in Acts : ~ActInsert(a)
    BY <1>8 DEF LateInv, InFlight, ActInsert
  <2> QED BY <1>8, <2>1, RuntimeMoves DEF IInv, TypeOK
<1>9. ASSUME phase' = "final", NEW t \in Tasks, runtime'[t] # NoThread
      PROVE  t \in queue'[Main] \/ (arg'[Main] = t /\ pc'[Main] \in {"orphan", "teardown"})
  <2>1. CASE Drain
    BY <1>9, <2>1, ThreadFacts DEF Drain, Orphans, hwVars, IInv, TypeOK
  <2>2. CASE phase = "final" /\ ~MainStep
    <3>1. runtime[t] # NoThread
      BY <1>8, <1>9, <2>2
    <3>2. t \in queue[Main] \/ (arg[Main] = t /\ pc[Main] \in {"orphan", "teardown"})
      BY <2>2, <3>1 DEF LateInv
    <3>3. CASE Deactivate(Main) /\ t \in queue[Main]
      BY <3>3, MainQueue
    <3>4. CASE Deactivate(Main) /\ arg[Main] = t /\ pc[Main] \in {"orphan", "teardown"}
      BY <1>9, <3>1, <3>4, MainTearsDown
    <3> QED BY <2>2, <3>2, <3>3, <3>4, MainMoves
  <2>3. Drain \/ (phase = "final" /\ ~MainStep)
    BY <1>9, PhaseMoves DEF StopRequested, MainStep, JoinServices, CloseDevices
  <2> QED BY <2>1, <2>2, <2>3
<1>10. ASSUME phase' = "closed", NEW t \in Tasks PROVE runtime'[t] = NoThread
  <2>1. CASE CloseDevices
    BY <2>1 DEF CloseDevices, hwVars, LateInv
  <2>2. CASE phase = "closed"
    BY <1>8, <2>2 DEF LateInv
  <2> QED BY <1>10, <2>1, <2>2, PhaseMoves DEF StopRequested, JoinServices, Drain
<1> QED BY <1>1, <1>2, <1>3, <1>5, <1>6, <1>7, <1>9, <1>10 DEF LateInv

(***************************************************************************)
(* The theorems.                                                           *)
(***************************************************************************)
LEMMA InitLimits == Init => RuntimeInv /\ LateInv /\ OpenedInv /\ RunningInv /\ CountInv
<1> SUFFICES ASSUME Init PROVE RuntimeInv /\ LateInv /\ OpenedInv /\ RunningInv /\ CountInv
  OBVIOUS
<1>1. RuntimeInv /\ LateInv /\ OpenedInv /\ RunningInv
  BY ThreadFacts DEF Init, RuntimeInv, LateInv, Late, OpenedInv, RunningInv
<1>2. CountInv
  <2>1. In(Active) = {} /\ pc[Amqp] = "idle" /\ accepting = NoTask
    BY ThreadFacts DEF Init, In, Active
  <2>2. Cardinality(In(Active)) <= MaxTasks
    BY <2>1, FS_EmptySet, ConstantsAssumption
  <2> QED BY <2>1, <2>2 DEF CountInv
<1> QED BY <1>1, <1>2

(* The owner of a runtime and the order of the shutdown hold whatever the  *)
(* threads interleave, also when a task is started twice.                  *)
LEMMA ShutdownInvariant == Spec => [](IInv /\ RuntimeInv /\ LateInv)
<1>1. Init => RuntimeInv /\ LateInv
  BY InitLimits
<1>2. IInv /\ RuntimeInv /\ LateInv /\ [Next]_vars => RuntimeInv' /\ LateInv'
  BY RuntimeStep, LateStep
<1> QED BY <1>1, <1>2, InvariantHolds, PTL DEF Spec

(* When closeDevices runs no activation is in flight, none will start, no  *)
(* task is live and no runtime is left: Controller::stop has waited for    *)
(* whatever the detached threads of activateTask leave behind.             *)
THEOREM ClosedUnderNobody ==
  Spec => [](phase = "closed" => /\ InFlight = {}
                                 /\ pc[Amqp] = "idle"
                                 /\ \A t \in Tasks : runtime[t] = NoThread /\ state[t] \notin Active)
<1>1. LateInv => (phase = "closed" => /\ InFlight = {}
                                      /\ pc[Amqp] = "idle"
                                      /\ \A t \in Tasks : runtime[t] = NoThread /\ state[t] \notin Active)
  BY DEF LateInv, Late
<1> QED BY <1>1, ShutdownInvariant, PTL

(* Every open stream is being set up or is found by deactivateTask through *)
(* its runtime, provided no task is started twice.                         *)
LEMMA StreamsInvariant ==
  ASSUME AtMostOneStream
  PROVE  Spec /\ []StartedOnce => [](IInv /\ RuntimeInv /\ LateInv /\ OpenedInv)
<1>1. Init => OpenedInv
  BY InitLimits
<1>2. StartedOnce /\ IInv /\ RuntimeInv /\ OpenedInv /\ [Next]_vars => OpenedInv'
  BY OpenedStep
<1> QED BY <1>1, <1>2, ShutdownInvariant, PTL DEF Spec

(* No stream is left without an owner: a failed activation has nothing     *)
(* open, a running one has its runtime.                                    *)
THEOREM StreamsHaveOwners ==
  ASSUME AtMostOneStream
  PROVE  Spec /\ []StartedOnce => []StreamsOwned
<1>1. OpenedInv => StreamsOwned
  BY DEF OpenedInv, StreamsOwned, Building
<1> QED BY <1>1, StreamsInvariant, PTL

(* The devices are closed with no stream open on them.                     *)
THEOREM ShutdownIsClean ==
  ASSUME AtMostOneStream
  PROVE  Spec /\ []StartedOnce => []ShutdownClean
<1>1. IInv /\ LateInv /\ OpenedInv => ShutdownClean
  <2> SUFFICES ASSUME IInv, LateInv, OpenedInv, phase = "closed"
               PROVE  /\ InFlight = {}
                      /\ \A a \in Acts : opened[a] = 0
                      /\ \A t \in Tasks : runtime[t] = NoThread /\ state[t] \notin Active
    BY DEF ShutdownClean
  <2>1. InFlight = {} /\ \A t \in Tasks : runtime[t] = NoThread /\ state[t] \notin Active
    BY DEF LateInv
  <2>2. ASSUME NEW a \in Acts PROVE opened[a] = 0
    <3>1. pc[a] \in {"idle", "done"} /\ runtime[a[2]] # a
      BY <2>1, ThreadFacts DEF InFlight
    <3>2. ~(opened[a] > 0) /\ opened[a] \in Nat
      BY <3>1 DEF OpenedInv, IInv, TypeOK
    <3> QED BY <3>2
  <2> QED BY <2>1, <2>2
<1> QED BY <1>1, StreamsInvariant, PTL

(* The live tasks never exceed policy.max_concurrent_tasks, although       *)
(* doAcceptStandard counts them state by state while the scheduler, the    *)
(* watchdog and activations change them, provided no task is started twice.*)
THEOREM CapIsRespected == Spec /\ []StartedOnce => []CapRespected
<1>1. Init => RunningInv /\ CountInv
  BY InitLimits
<1>2. StartedOnce /\ IInv /\ RunningInv /\ [Next]_vars => RunningInv'
  BY RunningStep
<1>3. IInv /\ RunningInv /\ CountInv /\ [Next]_vars => CountInv'
  BY CountStep
<1>4. CountInv => CapRespected
  BY DEF CountInv, CapRespected, In
<1> QED BY <1>1, <1>2, <1>3, <1>4, InvariantHolds, PTL DEF Spec

(* Only the scheduler can start a task twice: where no request waits for a *)
(* start time, each task is started once, and the theorems above hold      *)
(* without their premise.                                                  *)
THEOREM ImmediateTasksStartOnce ==
  ASSUME \A t \in Tasks : Mode[t] # "SCHEDULED"
  PROVE  Spec => []StartedOnce
<1> DEFINE NoneWaits == \A t \in Tasks : state[t] # "SCHEDULED"
<1>1. Init => NoneWaits /\ StartedOnce
  BY ThreadFacts DEF Init, StartedOnce, Spawned
<1>2. IInv /\ NoneWaits /\ [Next]_vars => NoneWaits'
  <2> SUFFICES ASSUME IInv, NoneWaits, [Next]_vars, NEW t \in Tasks, state'[t] = "SCHEDULED"
               PROVE  FALSE
    OBVIOUS
  <2>1. AcceptTask /\ t = accepting
    BY StateMoves DEF Terminal
  <2> QED BY <2>1 DEF AcceptTask, IInv, TypeOK
<1>3. IInv /\ NoneWaits /\ StartedOnce /\ [Next]_vars => StartedOnce'
  <2> SUFFICES ASSUME IInv, NoneWaits, StartedOnce, [Next]_vars,
                      NEW a \in Acts, NEW b \in Acts, Spawned(a)', Spawned(b)', a[2] = b[2]
               PROVE  a = b
    BY DEF StartedOnce
  <2>1. ~SchedulerTick
    BY DEF SchedulerTick
  <2>2. ASSUME NEW c \in Acts, Spawned(c)', ~Spawned(c)
        PROVE  /\ c \in NextAct(accepting) /\ c[2] = accepting
               /\ \A d \in Acts : d[2] = accepting => ~Spawned(d)
    <3>1. AcceptTask
      <4>1. ~Deactivate(c)
        BY <2>2, DeactivateMoves, ThreadFacts DEF InCall, Spawned
      <4>2. ~Activate(c)
        BY <2>2, ActivateMoves DEF IInv, Spawned
      <4> QED BY <2>1, <2>2, <4>1, <4>2, ActMoves DEF Spawned
    <3>2. c \in NextAct(accepting)
      BY <2>2, <3>1, ThreadFacts DEF AcceptTask, Spawned
    <3>3. c[2] = accepting
      BY <3>2 DEF NextAct
    <3>4. state[accepting] = "absent"
      BY <3>1, <3>3, ThreadFacts, ConstantsAssumption DEF AcceptTask, IInv, KnownInv
    <3>5. \A d \in Acts : d \in Threads \ Services
      BY ThreadFacts
    <3> QED BY <3>2, <3>3, <3>4, <3>5 DEF IInv, KnownInv, Spawned
  <2>3. CASE Spawned(a) /\ Spawned(b)
    BY <2>3 DEF StartedOnce
  <2>4. CASE ~Spawned(a) /\ ~Spawned(b)
    <3>1. a \in NextAct(accepting) /\ b \in NextAct(accepting)
      BY <2>2, <2>4
    <3>2. ~(a[3] < b[3]) /\ ~(b[3] < a[3])
      BY <3>1 DEF NextAct
    <3>3. a[3] = b[3]
      BY <3>2, ConstantsAssumption DEF Acts
    <3> QED BY <3>3 DEF Acts
  <2>5. (Spawned(a) /\ ~Spawned(b)) \/ (~Spawned(a) /\ Spawned(b)) => FALSE
    BY <2>2
  <2> QED BY <2>3, <2>4, <2>5
<1> QED BY <1>1, <1>2, <1>3, InvariantHolds, PTL DEF Spec
=============================================================================
