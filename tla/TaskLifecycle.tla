--------------------------- MODULE TaskLifecycle ---------------------------
(***************************************************************************)
(* The life of a task inside ResourceManager, with every thread that acts  *)
(* on it:                                                                  *)
(*   - the AMQP reactor thread accepts, stops, cancels and preempts tasks; *)
(*   - the scheduler thread starts SCHEDULED tasks;                        *)
(*   - the watchdog thread expires RUNNING tasks;                          *)
(*   - a detached activation thread per start opens the hardware;          *)
(*   - a scan or trigger executor reports that it is done;                 *)
(*   - a detached error thread reports that a streamer failed;             *)
(*   - the main thread shuts everything down.                              *)
(* All but the scheduler call deactivateTask, which is therefore written   *)
(* once, for any thread.  Sections under reg_mu_ are single steps.         *)
(* hw_activation_mu_ is held across steps and is the variable hw; rt_mu_   *)
(* is held across steps in one place only and is the variable rt.          *)
(*                                                                         *)
(* Devices here have independent LOs, so every activation opens streams of *)
(* its own.                                                                *)
(***************************************************************************)
EXTENDS Integers, FiniteSets

CONSTANTS
    Tasks,          \* the requests that may be made, one task each
    NoTask,
    PoolPorts,      \* the ports of the UDP pool
    MaxTasks,       \* policy.max_concurrent_tasks
    Mode,           \* the schedule_mode of each task
    HasExec,        \* TRUE for a SCAN or TRIGGERED task
    Rank,           \* a task may preempt tasks of a lower rank
    Channels,       \* how many ports a task needs
    ClientPorts,    \* the dest_ports its client bound itself
    Streams,        \* how many SoapySDR streams its activation opens
    MaxActs,        \* bound: activation threads spawned per task
    Failing         \* bound: the tasks that meet a streamer error, once

Modes == {"SCHEDULED", "IMMEDIATE", "CONTINUOUS"}

ASSUME ConstantsAssumption ==
    /\ NoTask \notin Tasks
    /\ IsFiniteSet(Tasks)
    /\ IsFiniteSet(PoolPorts)
    /\ PoolPorts \subseteq Nat
    /\ MaxTasks \in Nat
    /\ Mode \in [Tasks -> Modes]
    /\ HasExec \in [Tasks -> BOOLEAN]
    /\ Rank \in [Tasks -> Nat]
    /\ Channels \in [Tasks -> Nat]
    /\ ClientPorts \in [Tasks -> SUBSET Nat]
    /\ Streams \in [Tasks -> Nat]
    /\ MaxActs \in Nat \ {0}
    /\ Failing \subseteq Tasks

Terminal == {"COMPLETED", "CANCELLED", "FAILED"}
Active == {"SCHEDULED", "PENDING", "RUNNING"}

Amqp == <<"amqp", NoTask, 0>>
Watchdog == <<"watchdog", NoTask, 0>>
Main == <<"main", NoTask, 0>>
NoThread == <<"none", NoTask, 0>>
Services == {Amqp, Watchdog, Main}
Acts == {"act"} \X Tasks \X (1..MaxActs)
Execs == {"exec"} \X Tasks \X (1..MaxActs)
Errs == {"err"} \X Failing \X {1}
Threads == Services \cup Acts \cup Execs \cup Errs

ExecOf(a) == <<"exec", a[2], a[3]>>

VARIABLES
    state,      \* registry_[t].state, or "absent"
    clock,      \* where now is relative to the task's start and stop times
    ports,      \* the ports in registry_[t].allocations
    free, used, \* the UDP pool
    slot,       \* the task has its timeline slots
    published,  \* the state in the last TASK_STATUS sent
    runtime,    \* the activation whose objects are runtimes_[t]
    opened,     \* how many streams of an activation are open on the devices
    hw, rt,     \* the owners of hw_activation_mu_ and rt_mu_
    pc,         \* what each thread does next
    arg,        \* the task it does it to
    first,      \* its deactivateTask call set the terminal state
    joins,      \* the executor it waits for
    queue,      \* the ids a service thread has yet to deactivate
    accepting,  \* the request doAcceptStandard works on
    counted,    \* the tasks countByState has counted for it
    phase       \* the progress of the shutdown

regVars == <<state, clock, published>>
poolVars == <<ports, free, used, slot>>
hwVars == <<runtime, opened, hw, rt>>
callVars == <<arg, first, joins>>
amqpVars == <<accepting, counted>>
vars == <<regVars, poolVars, hwVars, pc, callVars, queue, amqpVars, phase>>

Pool == INSTANCE UdpPortPool WITH Ports <- PoolPorts

Init ==
    /\ state = [t \in Tasks |-> "absent"]
    /\ clock = [t \in Tasks |-> "before"]
    /\ ports = [t \in Tasks |-> {}]
    /\ Pool!Init
    /\ slot = [t \in Tasks |-> FALSE]
    /\ published = [t \in Tasks |-> "absent"]
    /\ runtime = [t \in Tasks |-> NoThread]
    /\ opened = [a \in Acts |-> 0]
    /\ hw = NoThread
    /\ rt = NoThread
    /\ pc = [p \in Threads |-> "idle"]
    /\ arg = [p \in Threads |-> IF p \in Services THEN NoTask ELSE p[2]]
    /\ first = [p \in Threads |-> FALSE]
    /\ joins = [p \in Threads |-> NoThread]
    /\ queue = [p \in Services |-> {}]
    /\ accepting = NoTask
    /\ counted = 0
    /\ phase = "run"

Goto(p, label) == pc' = [pc EXCEPT ![p] = label]

(* notifyStateChange runs the callback on the current record, under reg_mu_. *)
Publish(t) == published' = [published EXCEPT ![t] = state[t]]

(* Objects an activation thread has built but not yet put into runtimes_.  *)
(* On its error paths they live until the thread returns.                  *)
Building(a) == pc[a] \notin {"idle", "start", "lock", "run", "announce", "done"}

(* Bug: the activations in flight are not counted.                         *)
BugNoneInFlight == {}

InFlight == {a \in Acts : pc[a] \notin {"idle", "done"}}

(***************************************************************************)
(* deactivateTask, called by thread p on the task arg[p].                  *)
(***************************************************************************)

(* The terminal state a caller asks for.                                   *)
Goals(p) ==
    CASE p \in {Amqp, Main} -> {"CANCELLED"}
      [] p = Watchdog -> {"COMPLETED"}
      [] p \in Execs -> {"COMPLETED", "FAILED"}
      [] OTHER -> {"FAILED"}

(* Where the caller goes on: a service thread to its next id, and after    *)
(* the last one to what it was doing.                                      *)
Caller(p) ==
    IF p \notin Services THEN "done"
    ELSE IF p = Main \/ queue[p] # {} THEN "each"
    ELSE IF p = Amqp /\ accepting # NoTask THEN "retry" ELSE "idle"

(* The caller is back: forget the call.                                    *)
Returned(p) ==
    /\ Goto(p, Caller(p))
    /\ first' = [first EXCEPT ![p] = FALSE]
    /\ arg' = [arg EXCEPT ![p] = IF p \in Services THEN NoTask ELSE @]

(* deactivateTask(t) is called: by a service thread for any id of its list, *)
(* by any other thread for its own task.                                   *)
Calls(p, t) ==
    \/ /\ pc[p] = "each"
       /\ t \in queue[p]
       /\ queue' = [queue EXCEPT ![p] = @ \ {t}]
       /\ arg' = [arg EXCEPT ![p] = t]
    \/ /\ pc[p] = "claim"
       /\ t = arg[p]
       /\ UNCHANGED <<queue, arg>>

(* Bug: the claim does not look whether the task has already ended.        *)
BugClaimAgain(p, t) ==
    /\ Calls(p, t)
    /\ \E s \in Goals(p) : state' = [state EXCEPT ![t] = s]
    /\ first' = [first EXCEPT ![p] = TRUE]
    /\ Goto(p, "teardown")
    /\ UNCHANGED <<clock, published, poolVars, hwVars, joins, amqpVars, phase>>

(* The first caller sets the terminal state, under reg_mu_.                *)
ClaimTerminal(p, t) ==
    /\ Calls(p, t)
    /\ state[t] \notin Terminal
    /\ \E s \in Goals(p) : state' = [state EXCEPT ![t] = s]
    /\ first' = [first EXCEPT ![p] = TRUE]
    /\ Goto(p, "teardown")
    /\ UNCHANGED <<clock, published, poolVars, hwVars, joins, amqpVars, phase>>

(* A later caller sees the terminal state, which no one changes any more,  *)
(* and then looks for a runtime to clean up, under rt_mu_.                 *)
ClaimLate(p, t) ==
    /\ Calls(p, t)
    /\ state[t] \in Terminal
    /\ Goto(p, "orphan")
    /\ UNCHANGED <<regVars, poolVars, hwVars, first, joins, amqpVars, phase>>

CheckOrphan(p) ==
    /\ pc[p] = "orphan"
    /\ rt = NoThread
    /\ IF runtime[arg[p]] = NoThread
       THEN Returned(p)
       ELSE Goto(p, "teardown") /\ UNCHANGED <<arg, first>>
    /\ UNCHANGED <<regVars, poolVars, hwVars, joins, queue, amqpVars, phase>>

(* Bug: every caller that got this far releases.                           *)
BugEveryoneReleases(p) == "release"

(* Bug: a task with an executor leaves before the release.                 *)
BugExecutorKeepsPorts(p) == IF first[p] /\ ~HasExec[arg[p]] THEN "release" ELSE "notify"

AfterTeardown(p) == IF first[p] THEN "release" ELSE "notify"

(* Under hw_activation_mu_ and rt_mu_: close the streams of the runtime and *)
(* erase it.  Its executor was moved out, to be stopped without the locks; *)
(* an executor that is the calling thread itself is detached, not joined.  *)
Teardown(p) ==
    /\ pc[p] = "teardown"
    /\ hw = NoThread
    /\ rt = NoThread
    /\ LET t == arg[p]
           a == runtime[t]
       IN IF a = NoThread
          THEN Goto(p, AfterTeardown(p)) /\ UNCHANGED <<runtime, opened, joins>>
          ELSE /\ runtime' = [runtime EXCEPT ![t] = NoThread]
               /\ opened' = [opened EXCEPT ![a] = 0]
               /\ IF HasExec[t] /\ ExecOf(a) # p
                  THEN joins' = [joins EXCEPT ![p] = ExecOf(a)] /\ Goto(p, "join")
                  ELSE Goto(p, AfterTeardown(p)) /\ UNCHANGED joins
    /\ UNCHANGED <<regVars, poolVars, hw, rt, arg, first, queue, amqpVars, phase>>

(* scan_exec_to_stop->stop(): wait for the executor's thread to end.       *)
JoinExec(p) ==
    /\ pc[p] = "join"
    /\ pc[joins[p]] \in {"idle", "done"}
    /\ joins' = [joins EXCEPT ![p] = NoThread]
    /\ Goto(p, AfterTeardown(p))
    /\ UNCHANGED <<regVars, poolVars, hwVars, arg, first, queue, amqpVars, phase>>

(* Only the first caller gives the slots and the ports back.  It then      *)
(* notifies; what it publishes, the terminal state, cannot change before.  *)
ReleaseResources(p) ==
    /\ pc[p] = "release"
    /\ slot' = [slot EXCEPT ![arg[p]] = FALSE]
    /\ Pool!ReleaseAll(ports[arg[p]])
    /\ Publish(arg[p])
    /\ Returned(p)
    /\ UNCHANGED <<state, clock, ports, hwVars, joins, queue, amqpVars, phase>>

NotifyLate(p) ==
    /\ pc[p] = "notify"
    /\ Publish(arg[p])
    /\ Returned(p)
    /\ UNCHANGED <<state, clock, poolVars, hwVars, joins, queue, amqpVars, phase>>

Deactivate(p) ==
    \/ \E t \in Tasks : ClaimTerminal(p, t) \/ ClaimLate(p, t)
    \/ CheckOrphan(p)
    \/ Teardown(p)
    \/ JoinExec(p)
    \/ ReleaseResources(p)
    \/ NotifyLate(p)

(***************************************************************************)
(* The AMQP reactor thread: one message at a time.                         *)
(***************************************************************************)
ReceiveRequest(t) ==
    /\ phase = "run"
    /\ pc[Amqp] = "idle"
    /\ state[t] = "absent"
    /\ accepting' = t
    /\ counted' = 0
    /\ Goto(Amqp, "countScheduled")
    /\ UNCHANGED <<regVars, poolVars, hwVars, callVars, queue, phase>>

(* Bug: the running tasks are counted first and the scheduled ones last.   *)
BugCountByState(s) ==
    LET swapped == CASE s = "SCHEDULED" -> "RUNNING" [] s = "RUNNING" -> "SCHEDULED" [] OTHER -> s
    IN  Cardinality({t \in Tasks : state[t] = swapped})

CountByState(s) == Cardinality({t \in Tasks : state[t] = s})

Reject ==
    /\ Goto(Amqp, "idle")
    /\ accepting' = NoTask
    /\ counted' = 0

(* The cap compares the sum of three countByState calls, and each of them  *)
(* takes reg_mu_ anew.                                                     *)
CountScheduled ==
    /\ pc[Amqp] = "countScheduled"
    /\ counted' = CountByState("SCHEDULED")
    /\ Goto(Amqp, "countPending")
    /\ UNCHANGED <<regVars, poolVars, hwVars, callVars, queue, accepting, phase>>

CountPending ==
    /\ pc[Amqp] = "countPending"
    /\ counted' = counted + CountByState("PENDING")
    /\ Goto(Amqp, "countRunning")
    /\ UNCHANGED <<regVars, poolVars, hwVars, callVars, queue, accepting, phase>>

CountRunning ==
    /\ pc[Amqp] = "countRunning"
    /\ IF counted + CountByState("RUNNING") >= MaxTasks
       THEN Reject
       ELSE Goto(Amqp, "find") /\ counted' = 0 /\ UNCHANGED accepting
    /\ UNCHANGED <<regVars, poolVars, hwVars, callVars, queue, phase>>

(* tryPreemptConflicting: every task in the way has a lower rank; they are *)
(* cancelled one by one, then the device is looked for again.              *)
Preempt ==
    /\ pc[Amqp] = "find"
    /\ \E V \in SUBSET {t \in Tasks : state[t] \in Active /\ Rank[t] < Rank[accepting]} :
          /\ V # {}
          /\ queue' = [queue EXCEPT ![Amqp] = V]
    /\ Goto(Amqp, "each")
    /\ UNCHANGED <<regVars, poolVars, hwVars, callVars, amqpVars, phase>>

(* The ports the client bound come first, the pool covers the rest.        *)
PoolNeed(t) ==
    IF Cardinality(ClientPorts[t]) >= Channels[t]
    THEN 0
    ELSE Channels[t] - Cardinality(ClientPorts[t])

(* No device fits (findBestDevice and tryRetuneCombined: what they decide  *)
(* is left open here), or the pool has too few ports.                      *)
RejectRequest ==
    /\ pc[Amqp] \in {"find", "retry"}
    /\ Reject
    /\ UNCHANGED <<regVars, poolVars, hwVars, callVars, queue, phase>>

Spawned(p) == pc[p] # "idle"

(* The activation thread the next start of the task would spawn.           *)
NextAct(t) == {a \in Acts : a[2] = t /\ ~Spawned(a)
                            /\ \A b \in Acts : b[2] = t /\ b[3] < a[3] => Spawned(b)}

(* A device fits: take the ports, insert the timeline slots, enter the     *)
(* record into the registry and, unless the task waits for its start time, *)
(* spawn its activation thread.  No other thread sees the task earlier.    *)
AcceptTask ==
    /\ pc[Amqp] \in {"find", "retry"}
    /\ LET t == accepting
           need == PoolNeed(t)
           waits == Mode[t] = "SCHEDULED"
       IN /\ Pool!CanAllocate(need)
          /\ Pool!AllocateN(need)
          /\ ports' = [ports EXCEPT ![t] = ClientPorts[t] \cup Pool!Lowest(free, need)]
          /\ slot' = [slot EXCEPT ![t] = TRUE]
          /\ state' = [state EXCEPT ![t] = IF waits THEN "SCHEDULED" ELSE "PENDING"]
          /\ \E c \in IF waits THEN {"before", "during"} ELSE {"during"} :
                clock' = [clock EXCEPT ![t] = c]
          /\ pc' = [p \in Threads |->
                        CASE p = Amqp -> "announce"
                          [] p \in NextAct(t) /\ ~waits -> "start"
                          [] OTHER -> pc[p]]
    /\ UNCHANGED <<published, hwVars, callVars, queue, amqpVars, phase>>

AnnounceAccepted ==
    /\ pc[Amqp] = "announce"
    /\ Publish(accepting)
    /\ Goto(Amqp, "idle")
    /\ accepting' = NoTask
    /\ UNCHANGED <<state, clock, poolVars, hwVars, callVars, queue, counted, phase>>

(* TASK_STOP and TASK_CANCEL look at the record, and then deactivate it.   *)
Stoppable(t) == state[t] \in Active /\ (Mode[t] = "SCHEDULED" => HasExec[t])

Cancellable(t) == state[t] \in Active

ReceiveStopOrCancel(t) ==
    /\ phase = "run"
    /\ pc[Amqp] = "idle"
    /\ Stoppable(t) \/ Cancellable(t)
    /\ queue' = [queue EXCEPT ![Amqp] = {t}]
    /\ Goto(Amqp, "each")
    /\ UNCHANGED <<regVars, poolVars, hwVars, callVars, amqpVars, phase>>

(***************************************************************************)
(* The scheduler and the watchdog.                                         *)
(***************************************************************************)

(* schedulerTick spawns an activation for every SCHEDULED task whose start *)
(* time has come.  It leaves the record SCHEDULED: the thread changes it.  *)
SchedulerTick ==
    /\ phase = "run"
    /\ LET due == {t \in Tasks : state[t] = "SCHEDULED" /\ clock[t] # "before"}
           started == UNION {NextAct(t) : t \in due}
       IN /\ started # {}
          /\ pc' = [p \in Threads |-> IF p \in started THEN "start" ELSE pc[p]]
    /\ UNCHANGED <<regVars, poolVars, hwVars, callVars, queue, amqpVars, phase>>

Expired(t) == state[t] = "RUNNING" /\ clock[t] = "after"

(* Bug: only tasks with a duration are looked at.                          *)
BugWatchdogTick ==
    /\ phase = "run"
    /\ pc[Watchdog] = "idle"
    /\ \E t \in Tasks : Expired(t) /\ Mode[t] = "IMMEDIATE"
    /\ queue' = [queue EXCEPT ![Watchdog] = {t \in Tasks : Expired(t) /\ Mode[t] = "IMMEDIATE"}]
    /\ Goto(Watchdog, "each")
    /\ UNCHANGED <<regVars, poolVars, hwVars, callVars, amqpVars, phase>>

WatchdogTick ==
    /\ phase = "run"
    /\ pc[Watchdog] = "idle"
    /\ \E t \in Tasks : Expired(t)
    /\ queue' = [queue EXCEPT ![Watchdog] = {t \in Tasks : Expired(t)}]
    /\ Goto(Watchdog, "each")
    /\ UNCHANGED <<regVars, poolVars, hwVars, callVars, amqpVars, phase>>

(* Time passes: the start time comes, then the stop time.                  *)
TimePasses(t) ==
    /\ state[t] \in Active
    /\ \/ clock[t] = "before" /\ clock' = [clock EXCEPT ![t] = "during"]
       \/ /\ clock[t] = "during"
          /\ Mode[t] # "CONTINUOUS"
          /\ clock' = [clock EXCEPT ![t] = "after"]
    /\ UNCHANGED <<state, published, poolVars, hwVars, pc, callVars, queue, amqpVars, phase>>

(***************************************************************************)
(* activateTask, on the detached thread a.                                 *)
(***************************************************************************)
ActStart(a) ==
    /\ pc[a] = "start"
    /\ IF state[a[2]] \in Terminal
       THEN Goto(a, "done") /\ UNCHANGED state
       ELSE Goto(a, "lock") /\ state' = [state EXCEPT ![a[2]] = "PENDING"]
    /\ UNCHANGED <<clock, published, poolVars, hwVars, callVars, queue, amqpVars, phase>>

(* Lock hw_activation_mu_, and look again at the state.                    *)
ActLock(a) ==
    /\ pc[a] = "lock"
    /\ hw = NoThread
    /\ IF state[a[2]] \in Terminal
       THEN Goto(a, "done") /\ UNCHANGED hw
       ELSE Goto(a, "setup") /\ hw' = a
    /\ UNCHANGED <<regVars, poolVars, runtime, opened, rt, callVars, queue, amqpVars, phase>>

(* One more stream: tune, open, activate, start its IQStreamer.            *)
ActOpenStream(a) ==
    /\ pc[a] = "setup"
    /\ opened[a] < Streams[a[2]]
    /\ opened' = [opened EXCEPT ![a] = @ + 1]
    /\ UNCHANGED <<regVars, poolVars, runtime, hw, rt, pc, callVars, queue, amqpVars, phase>>

(* Bug: the task is deactivated with hw_activation_mu_ still locked.       *)
BugFailLocked(a) ==
    /\ pc[a] = "setup"
    /\ opened[a] < Streams[a[2]]
    /\ Goto(a, "claim")
    /\ UNCHANGED <<regVars, poolVars, hwVars, callVars, queue, amqpVars, phase>>

(* Bug: the failed activation returns without deactivating the task.       *)
BugFailSilently(a) ==
    /\ pc[a] = "setup"
    /\ opened[a] < Streams[a[2]]
    /\ hw' = NoThread
    /\ Goto(a, "done")
    /\ UNCHANGED <<regVars, poolVars, runtime, opened, rt, callVars, queue, amqpVars, phase>>

(* One of those calls fails: unlock, then deactivate the task as FAILED.   *)
(* A stream that was opened but could not be activated is closed.          *)
ActHwFailure(a) ==
    /\ pc[a] = "setup"
    /\ opened[a] < Streams[a[2]]
    /\ hw' = NoThread
    /\ Goto(a, "claim")
    /\ UNCHANGED <<regVars, poolVars, runtime, opened, rt, callVars, queue, amqpVars, phase>>

(* All streams are up: unlock, and start the executor if there is one.     *)
ActUnlock(a) ==
    /\ pc[a] = "setup"
    /\ opened[a] = Streams[a[2]]
    /\ hw' = NoThread
    /\ pc' = [pc EXCEPT ![a] = "insert",
                        ![ExecOf(a)] = IF HasExec[a[2]] THEN "armed" ELSE @]
    /\ UNCHANGED <<regVars, poolVars, runtime, opened, rt, callVars, queue, amqpVars, phase>>

(* Bug: the runtime of a task that has ended meanwhile is not kept.        *)
BugDropLateRuntime(a) ==
    /\ pc[a] = "insert"
    /\ rt = NoThread
    /\ runtime' = IF state[a[2]] \in Terminal THEN runtime ELSE [runtime EXCEPT ![a[2]] = a]
    /\ Goto(a, "run")
    /\ UNCHANGED <<regVars, poolVars, opened, hw, rt, callVars, queue, amqpVars, phase>>

(* runtimes_[task_id] = std::move(rt), under rt_mu_.  The assignment       *)
(* destroys an older runtime, and with it joins the older executor.        *)
ActInsert(a) ==
    /\ pc[a] = "insert"
    /\ rt = NoThread
    /\ runtime' = [runtime EXCEPT ![a[2]] = a]
    /\ LET old == runtime[a[2]]
       IN IF old # NoThread /\ HasExec[a[2]]
          THEN /\ rt' = a
               /\ joins' = [joins EXCEPT ![a] = ExecOf(old)]
               /\ Goto(a, "replace")
          ELSE Goto(a, "run") /\ UNCHANGED <<rt, joins>>
    /\ UNCHANGED <<regVars, poolVars, opened, hw, arg, first, queue, amqpVars, phase>>

ActReplaced(a) ==
    /\ pc[a] = "replace"
    /\ pc[joins[a]] \in {"idle", "done"}
    /\ rt' = NoThread
    /\ joins' = [joins EXCEPT ![a] = NoThread]
    /\ Goto(a, "run")
    /\ UNCHANGED <<regVars, poolVars, runtime, opened, hw, arg, first, queue, amqpVars, phase>>

(* Bug: the last transition does not look whether the task has ended.      *)
BugRunAnyway(a) ==
    /\ pc[a] = "run"
    /\ state' = [state EXCEPT ![a[2]] = "RUNNING"]
    /\ Goto(a, "announce")
    /\ UNCHANGED <<clock, published, poolVars, hwVars, callVars, queue, amqpVars, phase>>

(* PENDING -> RUNNING, unless the task ended meanwhile.  The stop time of  *)
(* an IMMEDIATE task is counted again from here.                           *)
ActRun(a) ==
    /\ pc[a] = "run"
    /\ IF state[a[2]] \in Terminal
       THEN UNCHANGED <<state, clock>>
       ELSE /\ state' = [state EXCEPT ![a[2]] = "RUNNING"]
            /\ clock' = [clock EXCEPT ![a[2]] = IF Mode[a[2]] = "IMMEDIATE" THEN "during" ELSE @]
    /\ Goto(a, "announce")
    /\ UNCHANGED <<published, poolVars, hwVars, callVars, queue, amqpVars, phase>>

ActAnnounce(a) ==
    /\ pc[a] = "announce"
    /\ Publish(a[2])
    /\ Goto(a, "done")
    /\ UNCHANGED <<state, clock, poolVars, hwVars, callVars, queue, amqpVars, phase>>

Activate(a) ==
    \/ ActStart(a)
    \/ ActLock(a)
    \/ ActOpenStream(a)
    \/ ActHwFailure(a)
    \/ ActUnlock(a)
    \/ ActInsert(a)
    \/ ActReplaced(a)
    \/ ActRun(a)
    \/ ActAnnounce(a)

(***************************************************************************)
(* The callbacks.                                                          *)
(***************************************************************************)

(* The executor's loop has ended, of itself or because it was told to      *)
(* stop; either way its thread calls done_.                                *)
ExecDone(x) ==
    /\ pc[x] = "armed"
    /\ Goto(x, "claim")
    /\ UNCHANGED <<regVars, poolVars, hwVars, callVars, queue, amqpVars, phase>>

(* An IQStreamer lives as long as the runtime, or the local variable, that *)
(* holds it.                                                               *)
Streaming(a) == opened[a] > 0 /\ (runtime[a[2]] = a \/ Building(a))

(* A streamer gives up after its twentieth read error and spawns a         *)
(* detached thread for the callback.                                       *)
StreamError(e) ==
    /\ pc[e] = "idle"
    /\ \E a \in Acts : a[2] = e[2] /\ Streaming(a)
    /\ Goto(e, "claim")
    /\ UNCHANGED <<regVars, poolVars, hwVars, callVars, queue, amqpVars, phase>>

(***************************************************************************)
(* Shutdown: Controller::stop, then closeDevices, on the main thread.      *)
(***************************************************************************)
StopRequested ==
    /\ phase = "run"
    /\ phase' = "stopping"
    /\ UNCHANGED <<regVars, poolVars, hwVars, pc, callVars, queue, amqpVars>>

(* The service threads are joined; then the live tasks are listed.         *)
JoinServices ==
    /\ phase = "stopping"
    /\ pc[Amqp] = "idle"
    /\ pc[Watchdog] = "idle"
    /\ phase' = "cancel"
    /\ queue' = [queue EXCEPT ![Main] = {t \in Tasks : state[t] \in Active}]
    /\ Goto(Main, "each")
    /\ UNCHANGED <<regVars, poolVars, hwVars, callVars, amqpVars>>

Orphans == {t \in Tasks : runtime[t] # NoThread}

(* Activations may still be in flight: clean up whatever runtimes they     *)
(* leave, until there are none, and then once more.                        *)
Drain ==
    /\ phase \in {"cancel", "drain"}
    /\ pc[Main] = "each"
    /\ queue[Main] = {}
    /\ rt = NoThread
    /\ InFlight = {} \/ Orphans # {}
    /\ phase' = IF InFlight = {} THEN "final" ELSE "drain"
    /\ queue' = [queue EXCEPT ![Main] = Orphans]
    /\ UNCHANGED <<regVars, poolVars, hwVars, pc, callVars, amqpVars>>

CloseDevices ==
    /\ phase = "final"
    /\ pc[Main] = "each"
    /\ queue[Main] = {}
    /\ phase' = "closed"
    /\ Goto(Main, "done")
    /\ UNCHANGED <<regVars, poolVars, hwVars, callVars, queue, amqpVars>>

-----------------------------------------------------------------------------
AcceptStep ==
    \/ CountScheduled
    \/ CountPending
    \/ CountRunning
    \/ Preempt
    \/ RejectRequest
    \/ AcceptTask
    \/ AnnounceAccepted

MainStep == JoinServices \/ Drain \/ CloseDevices

(* The process exits: every thread has ended or was never needed.          *)
Finished ==
    /\ phase = "closed"
    /\ \A p \in Threads : pc[p] \in {"idle", "done"}
    /\ UNCHANGED vars

Next ==
    \/ \E t \in Tasks : ReceiveRequest(t) \/ ReceiveStopOrCancel(t) \/ TimePasses(t)
    \/ AcceptStep
    \/ SchedulerTick
    \/ WatchdogTick
    \/ \E p \in Threads : Deactivate(p)
    \/ \E a \in Acts : Activate(a)
    \/ \E x \in Execs : ExecDone(x)
    \/ \E e \in Errs : StreamError(e)
    \/ StopRequested
    \/ MainStep
    \/ Finished

Spec == Init /\ [][Next]_vars

(***************************************************************************)
(* Fairness: the operating system runs every thread that can run, and the  *)
(* ticks recur.  Nothing makes a client send a request, a streamer fail, a *)
(* scan end by itself or the operator stop the program; only an executor   *)
(* somebody waits for ends for certain.                                    *)
(***************************************************************************)
Awaited(x) == \E p \in Threads : joins[p] = x

Fairness ==
    /\ WF_vars(AcceptStep)
    /\ WF_vars(SchedulerTick)
    /\ WF_vars(WatchdogTick)
    /\ WF_vars(MainStep)
    /\ \A p \in Threads : WF_vars(Deactivate(p))
    /\ \A a \in Acts : WF_vars(Activate(a))
    /\ \A x \in Execs : WF_vars(Awaited(x) /\ ExecDone(x))
    /\ \A t \in Tasks : WF_vars(TimePasses(t))

FairSpec == Spec /\ Fairness

-----------------------------------------------------------------------------
(***************************************************************************)
(* Properties                                                              *)
(***************************************************************************)
Labels ==
    {"idle", "done", "each", "claim", "orphan", "teardown", "join", "release", "notify",
     "countScheduled", "countPending", "countRunning", "find", "retry",
     "announce", "start", "lock", "setup", "insert", "replace", "run", "armed"}

(* The variables range over the values the code gives them.                *)
TypeOK ==
    /\ state \in [Tasks -> {"absent"} \cup Active \cup Terminal]
    /\ clock \in [Tasks -> {"before", "during", "after"}]
    /\ published \in [Tasks -> {"absent"} \cup Active \cup Terminal]
    /\ ports \in [Tasks -> SUBSET Nat]
    /\ free \subseteq PoolPorts
    /\ used \subseteq PoolPorts
    /\ slot \in [Tasks -> BOOLEAN]
    /\ runtime \in [Tasks -> Acts \cup {NoThread}]
    /\ opened \in [Acts -> Nat]
    /\ hw \in Acts \cup {NoThread}
    /\ rt \in Acts \cup {NoThread}
    /\ pc \in [Threads -> Labels]
    /\ arg \in [Threads -> Tasks \cup {NoTask}]
    /\ first \in [Threads -> BOOLEAN]
    /\ joins \in [Threads -> Execs \cup {NoThread}]
    /\ queue \in [Services -> SUBSET Tasks]
    /\ accepting \in Tasks \cup {NoTask}
    /\ counted \in Nat
    /\ phase \in {"run", "stopping", "cancel", "drain", "final", "closed"}

(* No client names a port of the pool as its own.  Nothing in the code     *)
(* checks it.                                                              *)
ClientsKeepOut == \A t \in Tasks : ClientPorts[t] \cap PoolPorts = {}

(* Every pool port is either free or leased to exactly one task that still *)
(* holds its resources: whatever threads race to deactivate a task, no     *)
(* port is lost and none is given back twice (deactivateTask, UdpPortPool).*)
PortAccounting ==
    /\ free \cap used = {}
    /\ free \cup used = PoolPorts
    /\ used = UNION {ports[t] \cap PoolPorts : t \in {u \in Tasks : slot[u]}}
    /\ \A t, u \in Tasks : slot[t] /\ slot[u] /\ t # u => ports[t] \cap ports[u] \cap PoolPorts = {}

(* A task that ended stays ended in the same state, and so does the last   *)
(* status its client got: a late activation cannot report it RUNNING.      *)
EndIsFinal ==
    [][\A t \in Tasks :
          /\ state[t] \in Terminal => state'[t] = state[t]
          /\ published[t] \in Terminal => published'[t] = published[t]]_vars

(* policy.max_concurrent_tasks bounds the live tasks (docs/ICD.md 11.14),  *)
(* although the three states are counted one after the other while the     *)
(* scheduler, the watchdog and activations move tasks between them.  It    *)
(* needs that no task is started twice, which would take one from RUNNING  *)
(* back to PENDING between two of the counts.                              *)
CapRespected == Cardinality({t \in Tasks : state[t] \in Active}) <= MaxTasks

(* Every open SoapySDR stream belongs to a runtime that deactivateTask can *)
(* find, or to an activation that is still at work.                        *)
StreamsOwned ==
    \A a \in Acts : opened[a] > 0 => runtime[a[2]] = a \/ Building(a)

(* The devices are closed under nobody: no stream is open, no activation   *)
(* is in flight and none will start.                                       *)
ShutdownClean ==
    phase = "closed" =>
        /\ InFlight = {}
        /\ \A a \in Acts : opened[a] = 0
        /\ \A t \in Tasks : runtime[t] = NoThread /\ state[t] \notin Active

(* A shutdown that was requested completes.                                *)
ShutdownCompletes == phase = "stopping" ~> phase = "closed"

(* The watchdog ends a task whose stop time has passed.                    *)
ExpiryHonoured == \A t \in Tasks : Expired(t) ~> state[t] \in Terminal

(* A task that is being tuned comes up or ends: it is not PENDING for ever. *)
PendingResolved ==
    \A t \in Tasks : state[t] = "PENDING" ~> state[t] \in {"RUNNING"} \cup Terminal

(* What the threads rely on, and what makes PortAccounting inductive: a    *)
(* deactivation under way is of a task that has ended, at most one of them *)
(* is the first, and until that one has released them the task holds its   *)
(* resources (the claim in deactivateTask).                                *)
InCall == {"orphan", "teardown", "join", "release", "notify"}
Admitting == {"countScheduled", "countPending", "countRunning", "find", "retry"}

CallsInv ==
    \A p \in Threads :
        /\ pc[p] = "each" => p \in Services
        /\ pc[p] = "claim" => p \notin Services
        /\ p \notin Services => arg[p] = p[2]
        /\ pc[p] \in InCall => arg[p] \in Tasks /\ state[arg[p]] \in Terminal
        /\ first[p] => pc[p] \in {"teardown", "join", "release"} /\ slot[arg[p]]
        /\ pc[p] = "release" => first[p]

OneFirst == \A p, q \in Threads : first[p] /\ first[q] /\ arg[p] = arg[q] => p = q

KnownInv ==
    /\ \A t \in Tasks :
          /\ state[t] \in Active => slot[t]
          /\ state[t] = "absent" => ~slot[t] /\ runtime[t] = NoThread
          /\ published[t] \in Terminal => published[t] = state[t]
    /\ \A p \in Services : \A t \in queue[p] : state[t] # "absent"
    /\ \A p \in Threads \ Services : pc[p] # "idle" => state[p[2]] # "absent"
    /\ pc[Amqp] \in Admitting => accepting \in Tasks
    /\ accepting # NoTask /\ pc[Amqp] # "announce" => state[accepting] = "absent"

(* An executor is not started before the streams of its task are up, and   *)
(* the main thread sleeps until the services have been joined.             *)
Dormant ==
    /\ \A a \in Acts : pc[a] \in {"idle", "start", "lock", "setup"} => pc[ExecOf(a)] = "idle"
    /\ phase \in {"run", "stopping"} => pc[Main] = "idle"

PortsInv == ClientsKeepOut => PortAccounting

IInv == TypeOK /\ CallsInv /\ OneFirst /\ KnownInv /\ Dormant /\ PortsInv

(* The contract, seen through the registry and the timeline.               *)
Stage(t) ==
    IF slot[t]
    THEN CASE state[t] = "absent" -> "reserved"
           [] state[t] \in Active -> "live"
           [] OTHER -> "ended"
    ELSE IF state[t] = "absent" THEN "none" ELSE "over"

Contract == INSTANCE TaskContract WITH
    Ports <- PoolPorts,
    stage <- [t \in Tasks |-> Stage(t)],
    lease <- [t \in Tasks |-> IF slot[t] THEN ports[t] \cap PoolPorts ELSE {}]

(* Each task leases ports of its own, and an ended task returns them.      *)
ContractSpec == Contract!Spec
=============================================================================
