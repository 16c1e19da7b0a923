-------------------------- MODULE Controller_proofs --------------------------
(***************************************************************************)
(* Theorems about Controller, for any number of requests, snapshots and    *)
(* lost connections.                                                       *)
(***************************************************************************)
EXTENDS Controller, TLAPS

USE ConstantsAssumption DEF Loops, After, Created

(* The parts of the invariant that an action preserves by leaving alone    *)
(* what they are about.                                                    *)
LEMMA AnswersKept ==
    ASSUME IInv, UNCHANGED <<handling, queue, threads, outbox, sent, lost>>
    PROVE  OneAnswer'
  BY DEF IInv, OneAnswer, Working

LEMMA CleanKept ==
    ASSUME IInv, UNCHANGED <<early, again, main, running, runner, client, stopping, reactor,
                             detached, loops, threads>>
    PROVE  CleanStop' /\ EarlyStop'
  BY DEF IInv, CleanStop, EarlyStop, Past

(***************************************************************************)
(* Controller::run.                                                        *)
(***************************************************************************)
LEMMA RunInv == ASSUME IInv, Run PROVE IInv'
<1> USE DEF IInv, TypeOK
<1> SUFFICES TypeOK' /\ CleanStop' /\ EarlyStop' /\ ThreadsInv' /\ OneAnswer'
  BY DEF IInv
<1>1. OneAnswer'
  BY AnswersKept DEF Run, OpenDevices, StartClient, SetRunning, SpawnLoop, RunReturns,
     clientVars, answerVars
<1>2. CASE OpenDevices
  BY <1>1, <1>2 DEF OpenDevices, clientVars, answerVars, CleanStop, EarlyStop, ThreadsInv,
     Past, Stopping, Joining, Closing
<1>3. CASE StartClient
  BY <1>1, <1>3 DEF StartClient, answerVars, CleanStop, EarlyStop, ThreadsInv, Past, Stopping,
     Joining, Closing
<1>4. CASE SetRunning
  BY <1>1, <1>4 DEF SetRunning, clientVars, answerVars, CleanStop, EarlyStop, ThreadsInv,
     Past, Stopping, Joining, Closing
<1>5. CASE SpawnLoop
  BY <1>1, <1>5 DEF SpawnLoop, clientVars, answerVars, CleanStop, EarlyStop, ThreadsInv, Past,
     Stopping, Joining, Closing
<1>6. CASE RunReturns
  BY <1>1, <1>6 DEF RunReturns, clientVars, answerVars, CleanStop, EarlyStop, ThreadsInv,
     Past, Stopping, Joining, Closing
<1> QED BY <1>2, <1>3, <1>4, <1>5, <1>6 DEF Run

(***************************************************************************)
(* The tick loops.                                                         *)
(***************************************************************************)
LEMMA LoopInv == ASSUME IInv, NEW l \in Loops, Loop(l) PROVE IInv'
<1> USE DEF IInv, TypeOK
<1>1. /\ UNCHANGED <<signal, main, again, runner, running, early, devices, clientVars, answerVars>>
      /\ \E s \in {"sleep", "tick", "over"} : loops' = [loops EXCEPT ![l] = s]
      /\ loops[l] # "none" /\ loops[l] # "over"
      /\ loops'[l] = "tick" => running
  BY DEF Loop, LoopTo, Awake
<1>2. TypeOK'
  BY <1>1 DEF clientVars, answerVars
<1>3. CleanStop' /\ EarlyStop'
  BY <1>1 DEF clientVars, answerVars, CleanStop, EarlyStop, Past, Stopping, Joining, Closing
<1>4. ThreadsInv'
  BY <1>1 DEF clientVars, answerVars, ThreadsInv, Past, Stopping, Joining
<1>5. OneAnswer'
  BY <1>1, AnswersKept DEF clientVars, answerVars
<1> QED BY <1>2, <1>3, <1>4, <1>5

(***************************************************************************)
(* AmqpClient and the handlers.  A step that leaves main() and the loops   *)
(* alone keeps CleanStop if the reactor does not come back from its end.   *)
(***************************************************************************)
LEMMA StopKept ==
    ASSUME IInv, UNCHANGED <<processVars, client, stopping, detached>>,
           reactor = "over" => reactor' = "over",
           reactor = "over" => \A r \in Snapshots : threads[r] \in {"none", "over"} =>
                                                     threads'[r] = threads[r]
    PROVE  CleanStop' /\ EarlyStop'
<1>1. EarlyStop'
  BY DEF IInv, EarlyStop, processVars
<1>2. CleanStop'
  BY DEF IInv, CleanStop, processVars, Past, Stopping, Joining, Closing
<1> QED BY <1>1, <1>2

LEMMA SendRequestInv == ASSUME IInv, NEW r \in Requests, SendRequest(r) PROVE IInv'
<1> USE DEF IInv, TypeOK, SendRequest
<1>1. TypeOK' /\ ThreadsInv'
  BY DEF processVars, answerVars, ThreadsInv, Past, Stopping, Joining
<1>2. CleanStop' /\ EarlyStop'
  BY CleanKept DEF processVars, answerVars
<1>3. OneAnswer'
  BY DEF OneAnswer, Working, answerVars
<1> QED BY <1>1, <1>2, <1>3

LEMMA ConnectInv == ASSUME IInv, Connect PROVE IInv'
<1> USE DEF IInv, TypeOK, Connect, OnConnected
<1>1. TypeOK' /\ ThreadsInv'
  BY DEF processVars, answerVars, ThreadsInv, Past, Stopping, Joining
<1>2. CleanStop' /\ EarlyStop'
  BY StopKept DEF processVars, answerVars
<1>3. OneAnswer'
  BY AnswersKept DEF answerVars
<1> QED BY <1>1, <1>2, <1>3

LEMMA DropInv == ASSUME IInv, Drop PROVE IInv'
<1> USE DEF IInv, TypeOK, Drop
<1>1. TypeOK' /\ ThreadsInv'
  <2>1. TypeOK'
    <3>1. drops' \in 0 .. MaxDrops
      OBVIOUS
    <3>2. connected' \in BOOLEAN /\ reactor' = "offline"
      OBVIOUS
    <3> QED BY <3>1, <3>2 DEF processVars, answerVars
  <2>2. ThreadsInv'
    BY DEF processVars, answerVars, ThreadsInv, Past
  <2> QED BY <2>1, <2>2
<1>2. CleanStop' /\ EarlyStop'
  BY StopKept DEF processVars, answerVars
<1>3. OneAnswer'
  BY AnswersKept DEF answerVars
<1> QED BY <1>1, <1>2, <1>3

LEMMA OnMessageInv == ASSUME IInv, NEW r \in Requests, OnMessage(r) PROVE IInv'
<1> USE DEF IInv, TypeOK, OnMessage
<1>1. TypeOK' /\ ThreadsInv'
  BY DEF processVars, answerVars, ThreadsInv, Past, Stopping, Joining
<1>2. CleanStop' /\ EarlyStop'
  BY StopKept DEF processVars, answerVars
<1>3. OneAnswer'
  BY DEF OneAnswer, Working, answerVars, ThreadsInv
<1> QED BY <1>1, <1>2, <1>3

LEMMA HandleRequestInv == ASSUME IInv, HandleRequest PROVE IInv'
<1> USE DEF IInv, TypeOK, HandleRequest, HandlerReturns, SendResponse
<1>1. TypeOK' /\ ThreadsInv'
  BY DEF processVars, ThreadsInv, Past, Stopping, Joining
<1>2. CleanStop' /\ EarlyStop'
  BY StopKept DEF processVars
<1>3. OneAnswer'
  BY DEF OneAnswer, Working, ThreadsInv
<1> QED BY <1>1, <1>2, <1>3

LEMMA HandleSnapshotInv == ASSUME IInv, HandleSnapshot PROVE IInv'
<1> USE DEF IInv, TypeOK, HandleSnapshot, HandlerReturns, IsSnapshot, Track
<1>1. TypeOK' /\ ThreadsInv'
  BY DEF processVars, ThreadsInv, Past, Stopping, Joining
<1>2. CleanStop' /\ EarlyStop'
  BY StopKept DEF processVars
<1>3. OneAnswer'
  BY DEF OneAnswer, Working, ThreadsInv
<1> QED BY <1>1, <1>2, <1>3

LEMMA RunScheduledInv == ASSUME IInv, NEW r \in Requests, RunScheduled(r) PROVE IInv'
<1> USE DEF IInv, TypeOK, RunScheduled
<1>1. TypeOK' /\ ThreadsInv'
  BY DEF processVars, clientVars, ThreadsInv, Past, Stopping, Joining
<1>2. CleanStop' /\ EarlyStop'
  BY StopKept DEF processVars, clientVars
<1>3. OneAnswer'
  BY DEF OneAnswer, Working, clientVars
<1> QED BY <1>1, <1>2, <1>3

LEMMA ReactorEndsInv == ASSUME IInv, ReactorEnds PROVE IInv'
<1> USE DEF IInv, TypeOK, ReactorEnds
<1>1. TypeOK' /\ ThreadsInv'
  <2>1. TypeOK'
    <3>1. connected' \in BOOLEAN
      OBVIOUS
    <3>2. lost' \subseteq Requests /\ outbox' \subseteq Requests
      OBVIOUS
    <3> QED BY <3>1, <3>2 DEF processVars
  <2>2. ThreadsInv'
    BY DEF processVars, ThreadsInv, Past
  <2> QED BY <2>1, <2>2
<1>2. CleanStop' /\ EarlyStop'
  BY StopKept DEF processVars
<1>3. OneAnswer'
  BY DEF OneAnswer, Working
<1> QED BY <1>1, <1>2, <1>3

LEMMA SnapshotInv == ASSUME IInv, NEW r \in Snapshots, Snapshot(r) PROVE IInv'
<1> USE DEF IInv, TypeOK, Snapshot, SnapshotDone, SnapshotAnswers, SendResponse
<1>1. TypeOK' /\ ThreadsInv'
  BY DEF processVars, clientVars, ThreadsInv, Past, Stopping, Joining
<1>2. CleanStop' /\ EarlyStop'
  BY StopKept DEF processVars, clientVars
<1>3. OneAnswer'
  BY DEF OneAnswer, Working, clientVars
<1> QED BY <1>1, <1>2, <1>3

(***************************************************************************)
(* main() and Controller::stop.                                            *)
(***************************************************************************)
LEMMA StopInv == ASSUME IInv, Stop \/ Signal PROVE IInv'
<1> USE DEF IInv
<1>1. OneAnswer'
  <2>1. CASE JoinSnapshots
    BY <2>1, AnswersKept DEF JoinSnapshots, clientVars
  <2>2. CASE ~JoinSnapshots
    BY <2>2, AnswersKept DEF Stop, Signal, SeesSignal, ClearRunning, StopClient, GraceEnds,
       JoinLoops,
       LockSnapshots, BeginClose, EndClose, JoinRunner, clientVars, answerVars
  <2> QED BY <2>1, <2>2
<1>a. StopClient => /\ client' = FALSE /\ main = "client"
                    /\ client => stopping' = TRUE /\ main' = "grace"
                    /\ ~client => main' = "loops" /\ UNCHANGED stopping
                    /\ UNCHANGED <<again, runner, running, early, loops, reactor, detached,
                                   threads>>
  BY DEF StopClient, After, answerVars
<1> USE DEF TypeOK, clientVars, answerVars, CleanStop, EarlyStop, ThreadsInv, Past, Stopping,
        Joining, Closing
<1>2. CASE Signal
  BY <1>1, <1>2 DEF Signal
<1>3. CASE SeesSignal
  BY <1>1, <1>3 DEF SeesSignal
<1>4. CASE ClearRunning
  <2>1. TypeOK'
    <3>1. running' \in BOOLEAN /\ early' \in BOOLEAN /\ main' = "client"
      BY <1>4 DEF ClearRunning, After
    <3>2. UNCHANGED <<signal, again, runner, loops, devices, clientVars, answerVars>>
      BY <1>4 DEF ClearRunning
    <3> QED BY <3>1, <3>2
  <2>2. CleanStop'
    BY <1>4 DEF ClearRunning
  <2>3. EarlyStop'
    BY <1>4 DEF ClearRunning
  <2>4. ThreadsInv'
    BY <1>4 DEF ClearRunning
  <2> QED BY <1>1, <2>1, <2>2, <2>3, <2>4
<1>5. CASE StopClient
  <2>1. TypeOK'
    <3>1. UNCHANGED <<signal, again, runner, running, early, loops, devices, reactor, detached,
                      connected, drops, handling, queue, answerVars>>
      BY <1>5 DEF StopClient
    <3>2. client' \in BOOLEAN /\ stopping' \in BOOLEAN /\ main' \in {"grace", "loops"}
      BY <1>5, <1>a
    <3> HIDE <1>a, <1>5
    <3> QED BY <3>1, <3>2
  <2>2. CleanStop'
    BY <1>5, <1>a
  <2>3. EarlyStop'
    BY <1>5 DEF StopClient
  <2>4. ThreadsInv'
    BY <1>5 DEF StopClient
  <2> QED BY <1>1, <2>1, <2>2, <2>3, <2>4
<1>6. CASE GraceEnds
  BY <1>1, <1>6 DEF GraceEnds
<1>7. CASE JoinLoops
  BY <1>1, <1>7 DEF JoinLoops
<1>8. CASE LockSnapshots
  BY <1>1, <1>8 DEF LockSnapshots
<1>9. CASE JoinSnapshots
  BY <1>1, <1>9 DEF JoinSnapshots
<1>10. CASE BeginClose
  BY <1>1, <1>10 DEF BeginClose
<1>11. CASE EndClose
  BY <1>1, <1>11 DEF EndClose
<1>12. CASE JoinRunner
  BY <1>1, <1>12 DEF JoinRunner
<1> QED BY <1>2, <1>3, <1>4, <1>5, <1>6, <1>7, <1>8, <1>9, <1>10, <1>11, <1>12 DEF Stop

(***************************************************************************)
(* Theorems.                                                               *)
(***************************************************************************)
LEMMA InitInv == ASSUME Init PROVE IInv
<1> USE DEF Init
<1>1. TypeOK
  <2>1. drops \in 0 .. MaxDrops
    OBVIOUS
  <2>2. handling \in Requests \cup {None} /\ queue \in [Requests -> {"unsent", "queued", "taken"}]
    OBVIOUS
  <2>3. /\ threads \in [Snapshots -> {"none", "work", "answer", "over"}]
        /\ loops \in [Loops -> {"none", "sleep", "tick", "over"}]
    OBVIOUS
  <2> QED BY <2>1, <2>2, <2>3 DEF TypeOK
<1>2. CleanStop /\ EarlyStop
  BY DEF CleanStop, EarlyStop, Past, Stopping, Joining, Closing
<1>3. ThreadsInv
  BY DEF ThreadsInv, Past, Stopping, Joining, Closing
<1>4. OneAnswer
  BY DEF OneAnswer, Working
<1> QED BY <1>1, <1>2, <1>3, <1>4 DEF IInv

LEMMA StepInv == ASSUME IInv, [Next]_vars PROVE IInv'
<1>1. CASE UNCHANGED vars
  <2>1. OneAnswer' /\ CleanStop' /\ EarlyStop'
    BY <1>1, AnswersKept, CleanKept DEF vars, processVars, clientVars, answerVars
  <2> QED BY <1>1, <2>1 DEF IInv, TypeOK, ThreadsInv, Past, vars, processVars, clientVars,
     answerVars
<1>2. CASE Next
  BY <1>2, StopInv, RunInv, LoopInv, SendRequestInv, OnMessageInv, ConnectInv, DropInv,
     HandleRequestInv, HandleSnapshotInv, RunScheduledInv, ReactorEndsInv, SnapshotInv
     DEF Next, Reactor
<1> QED BY <1>1, <1>2

(* The inductive invariant holds in every reachable state.                 *)
THEOREM InvariantHolds == Spec => []IInv
<1>1. Init => IInv
  BY InitInv
<1>2. IInv /\ [Next]_vars => IInv'
  BY StepInv
<1> QED BY <1>1, <1>2, PTL DEF Spec

(* Every variable keeps the type the code gives it.                        *)
THEOREM TypeCorrect == Spec => []TypeOK
<1>1. IInv => TypeOK
  BY DEF IInv
<1> QED BY <1>1, InvariantHolds, PTL

(* A request that was taken is in one place: no response is lost silently  *)
(* or sent twice by the handlers, the snapshot threads and the reactor.    *)
THEOREM AnswersAccounted == Spec => []OneAnswer
<1>1. IInv => OneAnswer
  BY DEF IInv
<1> QED BY <1>1, InvariantHolds, PTL

(* The devices are closed while nobody is in the manager, whenever the     *)
(* signal comes: the order of Controller::stop.                            *)
THEOREM ClosesQuietly == Spec => []QuietClose
<1>1. IInv => QuietClose
  BY DEF IInv, TypeOK, CleanStop, ThreadsInv, QuietClose, AtWork, Past, Stopping, Joining, Closing
<1> QED BY <1>1, InvariantHolds, PTL

(* When the controller is destroyed, all threads that use it are over.     *)
THEOREM NothingDangles == Spec => []NoDangling
<1>1. IInv => NoDangling
  BY DEF IInv, TypeOK, CleanStop, EarlyStop, ThreadsInv, NoDangling, Past, Stopping, Joining,
     Closing
<1> QED BY <1>1, InvariantHolds, PTL
=============================================================================
