------------------------------ MODULE Controller ------------------------------
(***************************************************************************)
(* The process around the resource manager: main(), the thread that runs   *)
(* Controller::run, the three tick loops, the AMQP reactor with the        *)
(* handlers it calls, the snapshot threads, and Controller::stop, which    *)
(* takes them down in an order of its own, once from main() and once more  *)
(* from the destructor.                                                    *)
(*                                                                         *)
(* What the manager does in a tick, a handler or a snapshot is             *)
(* TaskLifecycle's and Admission's; here it is at work or it is not.       *)
(* Status and health messages are sent and lost like responses and are     *)
(* left out.                                                               *)
(***************************************************************************)
EXTENDS Naturals

CONSTANTS
    Requests,    \* what clients send
    Snapshots,   \* those that are answered by a thread of their own
    MaxDrops,    \* how often the connection to the broker is lost
    None

ASSUME ConstantsAssumption ==
    /\ Snapshots \subseteq Requests
    /\ MaxDrops \in Nat
    /\ None \notin Requests

Loops == {"scheduler", "watchdog", "heartbeat"}

VARIABLES
    signal,      \* g_shutdown_requested
    main,        \* what the main thread does
    again,       \* it is in the destructor's stop()
    runner,      \* what the thread that runs run() does
    running,     \* Controller::running_
    early,       \* stop() cleared running_ before run() had set it
    loops,       \* what the tick threads do; "none" before they exist
    devices,     \* what openDevices and closeDevices have done
    client,      \* AmqpClient::running_
    stopping,    \* container::stop() was called
    reactor,     \* what the container's thread does
    detached,    \* nobody will join it
    connected,   \* AmqpClient::connected_
    drops,
    handling,    \* the request whose handler the reactor is in
    queue,       \* where each request is
    threads,     \* what each snapshot thread does
    tracked,     \* snapshot_threads_
    outbox,      \* responses scheduled on the reactor
    sent,        \* responses handed to the broker
    lost         \* responses dropped

processVars == <<signal, main, again, runner, running, early, loops, devices>>
clientVars == <<client, stopping, reactor, detached, connected, drops, handling, queue>>
answerVars == <<threads, tracked, outbox, sent, lost>>
vars == <<processVars, clientVars, answerVars>>

Init ==
    /\ signal = FALSE /\ main = "poll" /\ again = FALSE
    /\ runner = "open" /\ running = FALSE /\ early = FALSE
    /\ loops = [l \in Loops |-> "none"]
    /\ devices = "unopened"
    /\ client = FALSE /\ stopping = FALSE /\ reactor = "none" /\ detached = FALSE
    /\ connected = FALSE /\ drops = 0
    /\ handling = None
    /\ queue = [r \in Requests |-> "unsent"]
    /\ threads = [r \in Snapshots |-> "none"]
    /\ tracked = {} /\ outbox = {} /\ sent = {} /\ lost = {}

(***************************************************************************)
(* Controller::run.                                                        *)
(***************************************************************************)
OpenDevices ==
    /\ runner = "open"
    /\ devices' = "open"
    /\ runner' = "connect"
    /\ UNCHANGED <<signal, main, again, running, early, loops, clientVars, answerVars>>

StartClient ==
    /\ runner = "connect"
    /\ client' = TRUE /\ reactor' = "offline"
    /\ runner' = "flag"
    /\ UNCHANGED <<signal, main, again, running, early, loops, devices, stopping, detached,
                   connected, drops, handling, queue, answerVars>>

SetRunning ==
    /\ runner = "flag"
    /\ running' = TRUE
    /\ runner' = "scheduler"
    /\ UNCHANGED <<signal, main, again, early, loops, devices, clientVars, answerVars>>

(* The order in which the three are created; runner names the next one.    *)
Created == [scheduler |-> "watchdog", watchdog |-> "heartbeat", heartbeat |-> "poll"]

SpawnLoop ==
    /\ runner \in Loops
    /\ loops' = [loops EXCEPT ![runner] = "sleep"]
    /\ runner' = Created[runner]
    /\ UNCHANGED <<signal, main, again, running, early, devices, clientVars, answerVars>>

RunReturns ==
    /\ runner = "poll" /\ ~running
    /\ runner' = "over"
    /\ UNCHANGED <<signal, main, again, running, early, loops, devices, clientVars, answerVars>>

Run == OpenDevices \/ StartClient \/ SetRunning \/ SpawnLoop \/ RunReturns

(***************************************************************************)
(* The tick loops.                                                         *)
(***************************************************************************)

(* Bug: a loop sleeps and ticks without a look at running_.                *)
BugAwake == TRUE

(* What sleepResponsive returns.                                           *)
Awake == running

LoopTo(l, s) ==
    /\ loops' = [loops EXCEPT ![l] = s]
    /\ UNCHANGED <<signal, main, again, runner, running, early, devices, clientVars, answerVars>>

Loop(l) ==
    \/ loops[l] = "sleep" /\ Awake /\ LoopTo(l, "tick")
    \/ loops[l] = "sleep" /\ ~Awake /\ LoopTo(l, "over")
    \/ loops[l] = "tick" /\ LoopTo(l, "sleep")

(***************************************************************************)
(* AmqpClient and the handlers, on the reactor's thread.                   *)
(***************************************************************************)
SendRequest(r) ==
    /\ queue[r] = "unsent"
    /\ queue' = [queue EXCEPT ![r] = "queued"]
    /\ UNCHANGED <<processVars, client, stopping, reactor, detached, connected, drops, handling,
                   answerVars>>

(* Bug: nobody tells the client that the connection is open.               *)
BugOnConnected == UNCHANGED connected

OnConnected == connected' = TRUE

Connect ==
    /\ reactor = "offline"
    /\ reactor' = "online"
    /\ OnConnected
    /\ UNCHANGED <<processVars, client, stopping, detached, drops, handling, queue, answerVars>>

(* The connection is closed or fails; the container goes on connecting.    *)
Drop ==
    /\ reactor = "online" /\ drops < MaxDrops
    /\ drops' = drops + 1
    /\ reactor' = "offline" /\ connected' = FALSE
    /\ UNCHANGED <<processVars, client, stopping, detached, handling, queue, answerVars>>

OnMessage(r) ==
    /\ reactor = "online" /\ queue[r] = "queued"
    /\ queue' = [queue EXCEPT ![r] = "taken"]
    /\ reactor' = "handle" /\ handling' = r
    /\ UNCHANGED <<processVars, client, stopping, detached, connected, drops, answerVars>>

(* Bug: a response is sent by the thread that has it, too.                 *)
BugSendResponse(r) ==
    IF connected THEN outbox' = outbox \cup {r} /\ sent' = sent \cup {r} /\ UNCHANGED lost
                 ELSE lost' = lost \cup {r} /\ UNCHANGED <<outbox, sent>>

(* sendResponse(): dropped at once, or scheduled on the reactor's thread.  *)
SendResponse(r) ==
    IF connected THEN outbox' = outbox \cup {r} /\ UNCHANGED <<sent, lost>>
                 ELSE lost' = lost \cup {r} /\ UNCHANGED <<outbox, sent>>

(* Bug: every request is given a thread.                                   *)
BugIsSnapshot(r) == TRUE

IsSnapshot(r) == r \in Snapshots

HandlerReturns ==
    /\ reactor' = "online" /\ handling' = None
    /\ UNCHANGED <<processVars, client, stopping, detached, connected, drops, queue>>

(* The manager has answered a stop, a cancellation, a query or a request.  *)
HandleRequest ==
    /\ reactor = "handle" /\ ~IsSnapshot(handling)
    /\ SendResponse(handling)
    /\ UNCHANGED <<threads, tracked>>
    /\ HandlerReturns

(* Bug: the snapshot thread is detached.                                   *)
BugTrack(r) == UNCHANGED tracked

Track(r) == tracked' = tracked \cup {r}

(* handleSnapshotRequest() takes snapshot_mu_, which stop() holds while it *)
(* joins.                                                                  *)
HandleSnapshot ==
    /\ reactor = "handle" /\ IsSnapshot(handling)
    /\ main # "join"
    /\ threads' = [threads EXCEPT ![handling] = "work"]
    /\ Track(handling)
    /\ UNCHANGED <<outbox, sent, lost>>
    /\ HandlerReturns

(* A function that was scheduled runs.  What it sends without a connection *)
(* is lost.                                                                *)
RunScheduled(r) ==
    /\ reactor \in {"online", "offline"} /\ r \in outbox
    /\ outbox' = outbox \ {r}
    /\ IF reactor = "online" THEN sent' = sent \cup {r} /\ UNCHANGED lost
                             ELSE lost' = lost \cup {r} /\ UNCHANGED sent
    /\ UNCHANGED <<processVars, clientVars, threads, tracked>>

(* container::run() returns and what is still scheduled is lost; the       *)
(* connection may be closed in this or be found open by connected_.        *)
ReactorEnds ==
    /\ reactor \in {"online", "offline"} /\ stopping
    /\ reactor' = "over"
    /\ connected' = FALSE \/ UNCHANGED connected
    /\ outbox' = {} /\ lost' = lost \cup outbox
    /\ UNCHANGED <<processVars, client, stopping, detached, drops, handling, queue, threads,
                   tracked, sent>>

(***************************************************************************)
(* Snapshot threads.                                                       *)
(***************************************************************************)
SnapshotDone(r) ==
    /\ threads[r] = "work"
    /\ threads' = [threads EXCEPT ![r] = "answer"]
    /\ UNCHANGED <<processVars, clientVars, tracked, outbox, sent, lost>>

(* What is scheduled on a container that has ended never runs.             *)
SnapshotAnswers(r) ==
    /\ threads[r] = "answer"
    /\ threads' = [threads EXCEPT ![r] = "over"]
    /\ IF reactor = "over" THEN lost' = lost \cup {r} /\ UNCHANGED <<outbox, sent>>
                           ELSE SendResponse(r)
    /\ UNCHANGED <<processVars, clientVars, tracked>>

Snapshot(r) == SnapshotDone(r) \/ SnapshotAnswers(r)

(***************************************************************************)
(* main() and Controller::stop.                                            *)
(***************************************************************************)
Signal ==
    /\ ~signal
    /\ signal' = TRUE
    /\ UNCHANGED <<main, again, runner, running, early, loops, devices, clientVars, answerVars>>

(* Bug: the threads are joined before the messages stop.                   *)
BugAfter == [clear |-> "loops", loops |-> "snapshots", snapshots |-> "client", client |-> "close"]

(* The order of stop().                                                    *)
After == [clear |-> "client", client |-> "loops", loops |-> "snapshots", snapshots |-> "close"]

SeesSignal ==
    /\ main = "poll" /\ signal
    /\ main' = "clear"
    /\ UNCHANGED <<signal, again, runner, running, early, loops, devices, clientVars, answerVars>>

ClearRunning ==
    /\ main = "clear"
    /\ running' = FALSE
    /\ early' = (early \/ runner \in {"open", "connect", "flag"})
    /\ main' = After.clear
    /\ UNCHANGED <<signal, again, runner, loops, devices, clientVars, answerVars>>

(* AmqpClient::stop() does nothing for a client that is not running.       *)
StopClient ==
    /\ main = "client"
    /\ client' = FALSE
    /\ IF client THEN stopping' = TRUE /\ main' = "grace"
                 ELSE main' = After.client /\ UNCHANGED stopping
    /\ UNCHANGED <<signal, again, runner, running, early, loops, devices, reactor, detached,
                   connected, drops, handling, queue, answerVars>>

(* The container's thread has ended and is joined, or the three seconds    *)
(* are over and it is left to itself.                                      *)
GraceEnds ==
    /\ main = "grace"
    /\ detached' = (reactor # "over")
    /\ main' = After.client
    /\ UNCHANGED <<signal, again, runner, running, early, loops, devices, client, stopping,
                   reactor, connected, drops, handling, queue, answerVars>>

(* A loop that does not exist yet is not joined.                           *)
JoinLoops ==
    /\ main = "loops"
    /\ \A l \in Loops : loops[l] \in {"none", "over"}
    /\ main' = After.loops
    /\ UNCHANGED <<signal, again, runner, running, early, loops, devices, clientVars, answerVars>>

LockSnapshots ==
    /\ main = "snapshots"
    /\ main' = "join"
    /\ UNCHANGED <<signal, again, runner, running, early, loops, devices, clientVars, answerVars>>

JoinSnapshots ==
    /\ main = "join"
    /\ \A r \in tracked : threads[r] = "over"
    /\ tracked' = {}
    /\ main' = After.snapshots
    /\ UNCHANGED <<signal, again, runner, running, early, loops, devices, clientVars, threads,
                   outbox, sent, lost>>

(* closeDevices() begins; it ends every task before it closes a device.    *)
BeginClose ==
    /\ main = "close"
    /\ devices' = "closing"
    /\ main' = "closed"
    /\ UNCHANGED <<signal, again, runner, running, early, loops, clientVars, answerVars>>

EndClose ==
    /\ main = "closed"
    /\ devices' = "closed"
    /\ main' = IF again THEN "exit" ELSE "runner"
    /\ UNCHANGED <<signal, again, runner, running, early, loops, clientVars, answerVars>>

JoinRunner ==
    /\ main = "runner" /\ runner = "over"
    /\ again' = TRUE
    /\ main' = "clear"
    /\ UNCHANGED <<signal, runner, running, early, loops, devices, clientVars, answerVars>>

Stop ==
    \/ SeesSignal \/ ClearRunning \/ StopClient \/ GraceEnds \/ JoinLoops
    \/ LockSnapshots \/ JoinSnapshots \/ BeginClose \/ EndClose \/ JoinRunner

(***************************************************************************)
(* The specification.                                                      *)
(***************************************************************************)

(* What the reactor does without the broker's help.                        *)
Reactor == HandleRequest \/ HandleSnapshot \/ \E r \in Requests : RunScheduled(r)

Next ==
    \/ Signal \/ Stop \/ Run
    \/ \E l \in Loops : Loop(l)
    \/ \E r \in Requests : SendRequest(r) \/ OnMessage(r)
    \/ Connect \/ Drop \/ Reactor \/ ReactorEnds
    \/ \E r \in Snapshots : Snapshot(r)

(* Threads run, and ticks and snapshots end.  An idle container notices    *)
(* that it is stopped, but not while it waits to connect again; nothing    *)
(* makes a client send, the broker answer or the operator stop the         *)
(* program.                                                                *)
Fairness ==
    /\ WF_vars(Stop) /\ WF_vars(Run) /\ WF_vars(Reactor)
    /\ WF_vars(reactor = "online" /\ ReactorEnds)
    /\ \A l \in Loops : WF_vars(Loop(l))
    /\ \A r \in Snapshots : WF_vars(Snapshot(r))

Spec == Init /\ [][Next]_vars
FairSpec == Spec /\ Fairness

(***************************************************************************)
(* Properties.                                                             *)
(***************************************************************************)

(* Every variable has the type the code gives it.                          *)
TypeOK ==
    /\ signal \in BOOLEAN /\ again \in BOOLEAN /\ running \in BOOLEAN /\ early \in BOOLEAN
    /\ main \in {"poll", "clear", "client", "grace", "loops", "snapshots", "join", "close",
                "closed", "runner", "exit"}
    /\ runner \in {"open", "connect", "flag", "poll", "over"} \cup Loops
    /\ loops \in [Loops -> {"none", "sleep", "tick", "over"}]
    /\ devices \in {"unopened", "open", "closing", "closed"}
    /\ client \in BOOLEAN /\ stopping \in BOOLEAN /\ detached \in BOOLEAN
    /\ reactor \in {"none", "offline", "online", "handle", "over"}
    /\ connected \in BOOLEAN /\ drops \in 0 .. MaxDrops
    /\ handling \in Requests \cup {None}
    /\ queue \in [Requests -> {"unsent", "queued", "taken"}]
    /\ threads \in [Snapshots -> {"none", "work", "answer", "over"}]
    /\ tracked \subseteq Snapshots
    /\ outbox \subseteq Requests /\ sent \subseteq Requests /\ lost \subseteq Requests

(* The manager is at work for somebody: a tick, a handler or a snapshot.   *)
AtWork ==
    \/ \E l \in Loops : loops[l] = "tick"
    \/ reactor = "handle"
    \/ \E r \in Snapshots : threads[r] = "work"

(* From the moment closeDevices begins, no tick, handler or snapshot is in *)
(* the manager, which could open a task on a device that is being closed:  *)
(* the order of Controller::stop.  Two cases are left out, in which it is  *)
(* not so: a reactor that outlasted its grace period, and a stop() that    *)
(* came before run() had set running_.                                     *)
QuietClose ==
    devices \in {"closing", "closed"} => ~AtWork \/ detached \/ early

(* No thread outlives the controller it uses: "detach() would leave a      *)
(* dangling 'this'" (handleSnapshotRequest).  Only a reactor that is left  *)
(* to itself may.                                                          *)
NoDangling ==
    main = "exit" /\ ~detached =>
        /\ runner = "over" /\ reactor = "over"
        /\ \A l \in Loops : loops[l] = "over"
        /\ \A r \in Snapshots : threads[r] \in {"none", "over"}

(* A request that was taken from the broker is in one place always: with   *)
(* its handler, with its snapshot thread, scheduled, at the broker or      *)
(* dropped.  Nothing is answered twice or by two threads, and nothing is   *)
(* forgotten without being dropped.                                        *)
Working == {r \in Snapshots : threads[r] \in {"work", "answer"}}

OneAnswer ==
    \A r \in Requests :
        /\ queue[r] = "taken" <=> handling = r \/ r \in Working \cup outbox \cup sent \cup lost
        /\ handling = r => r \notin Working \cup outbox \cup sent \cup lost
        /\ r \in Working => r \notin outbox \cup sent \cup lost
        /\ r \in outbox => r \notin sent \cup lost
        /\ r \in sent => r \notin lost

(* What the joins rest on: running_ stays cleared, the client was running  *)
(* when it was stopped, and whatever a join has waited for stays over.     *)
Past(labels) == again \/ main \in labels

Closing == {"close", "closed", "runner", "exit"}
Joining == {"snapshots", "join"} \cup Closing
Stopping == {"loops"} \cup Joining

CleanStop ==
    ~early =>
        /\ Past({"client", "grace"} \cup Stopping) =>
              ~running /\ runner \notin {"open", "connect", "flag"}
        /\ Past({"grace"} \cup Stopping) => ~client /\ stopping
        /\ Past(Stopping) => reactor = "over" \/ detached
        /\ Past(Joining) => \A l \in Loops : loops[l] # "tick"
        /\ Past(Closing) => detached \/ \A r \in Snapshots : threads[r] \in {"none", "over"}

(* A stop() that came too early never gets past the join of the runner.    *)
EarlyStop ==
    early =>
        /\ ~again /\ main \notin {"poll", "clear", "exit"}
        /\ runner # "over"
        /\ runner \in Loops \cup {"poll"} => running

(* Where the threads are that something relies on.                         *)
ThreadsInv ==
    /\ runner \notin {"open", "connect"} => client \/ stopping
    /\ runner \in {"open", "connect"} => reactor = "none"
    /\ again => runner = "over"
    /\ runner \notin {"open", "connect", "flag", "scheduler"} => loops["scheduler"] # "none"
    /\ runner \in {"heartbeat", "poll", "over"} => loops["watchdog"] # "none"
    /\ runner \in {"poll", "over"} => loops["heartbeat"] # "none"
    /\ again /\ main \in Joining => \A l \in Loops : loops[l] = "over"
    /\ main = "exit" => again
    /\ main = "grace" => ~again
    /\ stopping => Past({"grace"} \cup Stopping)
    /\ devices \in {"closing", "closed"} => Past({"closed", "runner", "exit"})
    /\ \A r \in Snapshots : threads[r] \in {"work", "answer"} => r \in tracked
    /\ handling # None <=> reactor = "handle"

(* The inductive invariant of the proofs.                                  *)
IInv == TypeOK /\ CleanStop /\ EarlyStop /\ ThreadsInv /\ OneAnswer

(* A signal ends the process, whatever the reactor, the ticks and the      *)
(* snapshots are doing, and however long the broker is away - unless it    *)
(* came before run() had set running_.                                     *)
SignalEnds == signal ~> main = "exit" \/ early

(* A request that was taken is answered, unless the connection was lost or *)
(* the program is stopped.                                                 *)
Answered ==
    \A r \in Requests : queue[r] = "taken" ~> r \in sent \/ drops > 0 \/ stopping

(* stop() makes "run() to return.  Thread-safe." (Controller.hpp:66), at   *)
(* whatever time it is called.  The code does not keep it: a stop() that   *)
(* comes before run() sets running_ is overwritten.                        *)
StopReturns == signal ~> main = "exit"

=============================================================================
