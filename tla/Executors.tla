------------------------------ MODULE Executors ------------------------------
(***************************************************************************)
(* The threads behind a running scan or triggered task, and how            *)
(* deactivateTask takes them apart: the scan's retune loop, the trigger    *)
(* monitor that hands the SoapySDR stream over to the IQStreamer and takes *)
(* it back, the IQStreamer's worker, and the callers of deactivateTask.    *)
(*                                                                         *)
(* A task begins as activateTask leaves it, RUNNING with its runtime       *)
(* inserted, and has a stream of its own.  Ports, slots and late runtimes  *)
(* are TaskLifecycle's, shared streams SharedStream's.  deactivateTask     *)
(* holds hw_activation_mu_ and rt_mu_ while it takes a runtime apart;      *)
(* locks is their owner.                                                   *)
(* A thread that uses a destroyed streamer or a closed stream, or destroys *)
(* a joinable thread, may do anything: undefined becomes TRUE and nothing  *)
(* further is said of the process.                                         *)
(***************************************************************************)
EXTENDS Naturals

CONSTANTS
    Tasks,
    Kinds,        \* which kinds of tasks clients ask for
    Entries,      \* how many steps a scan has
    MaxCaptures,  \* how many captures a trigger task makes
    NoThread

(* A scan that ends or starts over; a triggered task whose client gets the *)
(* samples as they are or from a Ddc sub-band.                             *)
ScanKinds == {"scan", "repeating"}
TriggerKinds == {"trigger", "decimated"}

(* Who may end a task: a client, the watchdog, the error callback of its   *)
(* streamer and the done-callback of its executor.                         *)
Enders == {"client", "watchdog", "error", "exec"}
Callers == Enders \X Tasks

ASSUME ConstantsAssumption ==
    /\ Kinds \subseteq ScanKinds \cup TriggerKinds
    /\ Entries \in Nat \ {0} /\ MaxCaptures \in Nat \ {0}
    /\ NoThread \notin Callers

VARIABLES
    kind,      \* what kind of task it is, chosen in Init
    reason,    \* who set the terminal state of the task, or "none"
    runtime,   \* the task has an entry in runtimes_
    open,      \* its SoapySDR stream is open
    alive,     \* its IQStreamer exists
    srunning,  \* IQStreamer::running_
    worker,    \* what its workerLoop does; "none" when it is not joinable
    fed,       \* the streamer has a consumer: destination or sub-band
    erunning,  \* running_ of the executor
    loop,      \* what the executor's loop does
    count,     \* the captures made, or the scan's steps passed
    tuned,     \* the step the hardware is tuned to, 0 before the scan
    label,     \* the step the streamer announces
    pc,        \* what each caller of deactivateTask does next
    locks,     \* the caller that owns hw_activation_mu_ and rt_mu_
    undefined

streamVars == <<open, alive, srunning, worker, fed>>
execVars == <<erunning, loop, count, tuned, label>>
callVars == <<pc, locks>>
vars == <<kind, reason, runtime, streamVars, execVars, callVars, undefined>>

Scan(t) == kind[t] \in ScanKinds

Init ==
    /\ kind \in [Tasks -> Kinds]
    /\ reason = [t \in Tasks |-> "none"]
    /\ runtime = [t \in Tasks |-> TRUE]
    /\ open = [t \in Tasks |-> TRUE]
    /\ alive = [t \in Tasks |-> TRUE]
    /\ srunning = [t \in Tasks |-> Scan(t)]
    /\ worker = [t \in Tasks |-> IF Scan(t) THEN "check" ELSE "none"]
    /\ fed = [t \in Tasks |-> kind[t] # "trigger"]
    /\ erunning = [t \in Tasks |-> TRUE]
    /\ loop = [t \in Tasks |-> IF Scan(t) THEN "retune" ELSE "check"]
    /\ count = [t \in Tasks |-> 0]
    /\ tuned = [t \in Tasks |-> 0]
    /\ label = [t \in Tasks |-> 0]
    /\ pc = [p \in Callers |-> "idle"]
    /\ locks = NoThread
    /\ undefined = FALSE

Goto(p, l) == pc' = [pc EXCEPT ![p] = l]
LoopTo(t, l) == loop' = [loop EXCEPT ![t] = l]
WorkerTo(t, l) == worker' = [worker EXCEPT ![t] = l]

(***************************************************************************)
(* IQStreamer.                                                             *)
(***************************************************************************)

(* Bug: a streamer that is started again does not register its client.     *)
BugFedByStart(t) == fed[t]

(* start() registers the client of its configuration, which a Ddc's        *)
(* streamer does not have.                                                 *)
FedByStart(t) == fed[t] \/ kind[t] # "decimated"

StartFlag(t) ==
    /\ srunning' = [srunning EXCEPT ![t] = TRUE]
    /\ fed' = [fed EXCEPT ![t] = FedByStart(t)]

(* stop() after its join: all destinations and sub-bands are dropped.      *)
Joined(t) ==
    /\ worker[t] = "over"
    /\ WorkerTo(t, "none")
    /\ fed' = [fed EXCEPT ![t] = FALSE]

WorkerCheck(t) ==
    /\ worker[t] = "check"
    /\ WorkerTo(t, IF srunning[t] THEN "read" ELSE "over")
    /\ UNCHANGED <<kind, reason, runtime, open, alive, srunning, fed, execVars, callVars,
                   undefined>>

(* readStream() returns samples or a timeout, and the loop goes on.        *)
WorkerRead(t) ==
    /\ worker[t] = "read" /\ open[t]
    /\ WorkerTo(t, IF srunning[t] THEN "check" ELSE "over")
    /\ UNCHANGED <<kind, reason, runtime, open, alive, srunning, fed, execVars, callVars,
                   undefined>>

(* The 20th error in a row: the callback gets a thread, the loop ends and  *)
(* running_ stays set.                                                     *)
WorkerError(t) ==
    /\ worker[t] = "read" /\ open[t] /\ srunning[t]
    /\ pc[<<"error", t>>] = "idle"
    /\ Goto(<<"error", t>>, "claim")
    /\ WorkerTo(t, "over")
    /\ UNCHANGED <<kind, reason, runtime, open, alive, srunning, fed, execVars, locks, undefined>>

WorkerLost(t) ==
    /\ worker[t] = "read" /\ ~open[t]
    /\ undefined' = TRUE
    /\ UNCHANGED <<kind, reason, runtime, streamVars, execVars, callVars>>

(***************************************************************************)
(* ScanExecutor::loop.                                                     *)
(***************************************************************************)

(* Where the loop is after step i: the next one, or the end of the pass.   *)
AfterStep(t, i) == IF i < Entries \/ kind[t] = "repeating" THEN "retune" ELSE "done"
NextCount(t, i) == IF i = Entries /\ kind[t] = "repeating" THEN 0 ELSE i

ScanStopped(t) ==
    /\ loop[t] = "retune" /\ ~erunning[t]
    /\ LoopTo(t, "done")
    /\ UNCHANGED <<kind, reason, runtime, streamVars, erunning, count, tuned, label, callVars,
                   undefined>>

ScanRetune(t) ==
    /\ loop[t] = "retune" /\ erunning[t]
    /\ tuned' = [tuned EXCEPT ![t] = count[t] + 1]
    /\ LoopTo(t, "announce")
    /\ UNCHANGED <<kind, reason, runtime, streamVars, erunning, count, label, callVars,
                   undefined>>

(* A step whose retune fails is skipped.                                   *)
ScanSkip(t) ==
    LET i == count[t] + 1 IN
    /\ loop[t] = "retune" /\ erunning[t]
    /\ count' = [count EXCEPT ![t] = NextCount(t, i)]
    /\ LoopTo(t, AfterStep(t, i))
    /\ UNCHANGED <<kind, reason, runtime, streamVars, erunning, tuned, label, callVars,
                   undefined>>

(* updateCenterFreq(), through a plain pointer.                            *)
ScanAnnounce(t) ==
    /\ loop[t] = "announce" /\ alive[t]
    /\ label' = IF srunning[t] THEN [label EXCEPT ![t] = tuned[t]] ELSE label
    /\ LoopTo(t, "dwell")
    /\ UNCHANGED <<kind, reason, runtime, streamVars, erunning, count, tuned, callVars,
                   undefined>>

(* The dwell ends at its deadline, or early when the scan is stopped.      *)
ScanDwelt(t) ==
    LET i == count[t] + 1 IN
    /\ loop[t] = "dwell"
    /\ IF erunning[t]
         THEN count' = [count EXCEPT ![t] = NextCount(t, i)] /\ LoopTo(t, AfterStep(t, i))
         ELSE LoopTo(t, "done") /\ UNCHANGED count
    /\ UNCHANGED <<kind, reason, runtime, streamVars, erunning, tuned, label, callVars,
                   undefined>>

(***************************************************************************)
(* TriggerMonitor::loop.                                                   *)
(***************************************************************************)
MonitorCheck(t) ==
    /\ loop[t] = "check"
    /\ LoopTo(t, IF erunning[t] THEN "read" ELSE "done")
    /\ UNCHANGED <<kind, reason, runtime, streamVars, erunning, count, tuned, label, callVars,
                   undefined>>

(* readStream() returns nothing of interest, or the level is crossed.      *)
MonitorRead(t) ==
    /\ loop[t] = "read" /\ open[t]
    /\ \E l \in {"check", "fire"} : LoopTo(t, l)
    /\ UNCHANGED <<kind, reason, runtime, streamVars, erunning, count, tuned, label, callVars,
                   undefined>>

(* streamer_->start(), if it is not running; the thread follows the flag.  *)
MonitorFires(t) ==
    /\ loop[t] = "fire" /\ alive[t]
    /\ IF srunning[t] THEN LoopTo(t, "post") /\ UNCHANGED <<srunning, fed>>
                      ELSE LoopTo(t, "spawn") /\ StartFlag(t)
    /\ UNCHANGED <<kind, reason, runtime, open, alive, worker, erunning, count, tuned, label,
                   callVars, undefined>>

MonitorSpawns(t) ==
    /\ loop[t] = "spawn" /\ alive[t] /\ worker[t] = "none"
    /\ WorkerTo(t, "check")
    /\ LoopTo(t, "post")
    /\ UNCHANGED <<kind, reason, runtime, open, alive, srunning, fed, erunning, count, tuned,
                   label, callVars, undefined>>

(* Bug: the monitor clears running_ and does not wait for the worker.      *)
BugMonitorStops(t) ==
    /\ loop[t] = "post" /\ alive[t]
    /\ srunning' = [srunning EXCEPT ![t] = FALSE]
    /\ LoopTo(t, "captured")
    /\ UNCHANGED <<kind, reason, runtime, open, alive, worker, fed, erunning, count, tuned, label,
                   callVars, undefined>>

(* The post-trigger time is over or the monitor is stopped: the streamer   *)
(* is stopped, unless somebody else has begun to.                          *)
MonitorStops(t) ==
    /\ loop[t] = "post" /\ alive[t]
    /\ srunning' = [srunning EXCEPT ![t] = FALSE]
    /\ LoopTo(t, IF srunning[t] THEN "join" ELSE "captured")
    /\ UNCHANGED <<kind, reason, runtime, open, alive, worker, fed, erunning, count, tuned, label,
                   callVars, undefined>>

MonitorJoins(t) ==
    /\ loop[t] = "join" /\ alive[t]
    /\ Joined(t)
    /\ LoopTo(t, "captured")
    /\ UNCHANGED <<kind, reason, runtime, open, alive, srunning, erunning, count, tuned, label,
                   callVars, undefined>>

(* Bug: one capture too many.                                              *)
BugEnough(n) == n > MaxCaptures

Enough(n) == n >= MaxCaptures

MonitorCounts(t) ==
    /\ loop[t] = "captured"
    /\ count' = [count EXCEPT ![t] = @ + 1]
    /\ LoopTo(t, IF Enough(count[t] + 1) THEN "done" ELSE "check")
    /\ UNCHANGED <<kind, reason, runtime, streamVars, erunning, tuned, label, callVars,
                   undefined>>

(* The executor uses what deactivateTask has closed or destroyed, or puts  *)
(* a new thread in the place of one that was not joined.                   *)
ExecLost(t) ==
    /\ \/ loop[t] \in {"announce", "fire", "spawn", "post", "join"} /\ ~alive[t]
       \/ loop[t] = "read" /\ ~open[t]
       \/ loop[t] = "spawn" /\ worker[t] # "none"
    /\ undefined' = TRUE
    /\ UNCHANGED <<kind, reason, runtime, streamVars, execVars, callVars>>

(* done_(): the callback calls deactivateTask on the executor's thread.    *)
ExecDone(t) ==
    /\ loop[t] = "done"
    /\ LoopTo(t, "calling")
    /\ Goto(<<"exec", t>>, "claim")
    /\ UNCHANGED <<kind, reason, runtime, streamVars, erunning, count, tuned, label, locks,
                   undefined>>

ExecOver(t) ==
    /\ loop[t] = "calling" /\ pc[<<"exec", t>>] = "over"
    /\ LoopTo(t, "over")
    /\ UNCHANGED <<kind, reason, runtime, streamVars, erunning, count, tuned, label, callVars,
                   undefined>>

(***************************************************************************)
(* deactivateTask.                                                         *)
(***************************************************************************)

(* stopTask, cancelTask, a preemption or the watchdog.                     *)
End(p) ==
    /\ p[1] \in {"client", "watchdog"} /\ pc[p] = "idle"
    /\ reason[p[2]] = "none"
    /\ Goto(p, "claim")
    /\ UNCHANGED <<kind, reason, runtime, streamVars, execVars, locks, undefined>>

(* Bug: whoever comes last sets the state.                                 *)
BugUnclaimed(t) == TRUE

Unclaimed(t) == reason[t] = "none"

Claim(p) ==
    LET t == p[2] IN
    /\ pc[p] = "claim"
    /\ IF Unclaimed(t)
         THEN reason' = [reason EXCEPT ![t] = p[1]] /\ Goto(p, "lock")
         ELSE Goto(p, "orphan") /\ UNCHANGED reason
    /\ UNCHANGED <<kind, runtime, streamVars, execVars, locks, undefined>>

CheckOrphan(p) ==
    /\ pc[p] = "orphan" /\ locks = NoThread
    /\ Goto(p, IF runtime[p[2]] THEN "lock" ELSE "over")
    /\ UNCHANGED <<kind, reason, runtime, streamVars, execVars, locks, undefined>>

(* The executor is taken out of the runtime, and the task's consumer out   *)
(* of its streamer.                                                        *)
Lock(p) ==
    LET t == p[2] IN
    /\ pc[p] = "lock" /\ locks = NoThread
    /\ IF runtime[t]
         THEN /\ locks' = p
              /\ fed' = [fed EXCEPT ![t] = FALSE]
              /\ Goto(p, "stop")
         ELSE Goto(p, "over") /\ UNCHANGED <<locks, fed>>
    /\ UNCHANGED <<kind, reason, runtime, open, alive, srunning, worker, execVars, undefined>>

(* streamer->stop().                                                       *)
StopStreamer(p) ==
    LET t == p[2] IN
    /\ pc[p] = "stop"
    /\ srunning' = [srunning EXCEPT ![t] = FALSE]
    /\ Goto(p, IF srunning[t] THEN "join" ELSE "close")
    /\ UNCHANGED <<kind, reason, runtime, open, alive, worker, fed, execVars, locks, undefined>>

JoinWorker(p) ==
    /\ pc[p] = "join" /\ Joined(p[2])
    /\ Goto(p, "close")
    /\ UNCHANGED <<kind, reason, runtime, open, alive, srunning, execVars, locks, undefined>>

CloseStream(p) ==
    /\ pc[p] = "close"
    /\ open' = [open EXCEPT ![p[2]] = FALSE]
    /\ Goto(p, "erase")
    /\ UNCHANGED <<kind, reason, runtime, alive, srunning, worker, fed, execVars, locks,
                   undefined>>

(* The runtime is erased and the streamer destroyed, which stops it again  *)
(* if it is running by then; a thread left joinable ends the process.      *)
Erase(p) ==
    LET t == p[2] IN
    /\ pc[p] = "erase" /\ ~srunning[t]
    /\ runtime' = [runtime EXCEPT ![t] = FALSE]
    /\ alive' = [alive EXCEPT ![t] = FALSE]
    /\ undefined' = (worker[t] # "none")
    /\ locks' = NoThread
    /\ Goto(p, "halt")
    /\ UNCHANGED <<kind, reason, open, srunning, worker, fed, execVars>>

EraseRunning(p) ==
    LET t == p[2] IN
    /\ pc[p] = "erase" /\ srunning[t]
    /\ srunning' = [srunning EXCEPT ![t] = FALSE]
    /\ Goto(p, "rejoin")
    /\ UNCHANGED <<kind, reason, runtime, open, alive, worker, fed, execVars, locks, undefined>>

Rejoin(p) ==
    /\ pc[p] = "rejoin" /\ Joined(p[2])
    /\ Goto(p, "erase")
    /\ UNCHANGED <<kind, reason, runtime, open, alive, srunning, execVars, locks, undefined>>

(* Bug: stop() of the executor only joins.                                 *)
BugHalted(t) == UNCHANGED erunning

Halted(t) == erunning' = [erunning EXCEPT ![t] = FALSE]

(* The executor's stop(): its own thread detaches instead of joining.      *)
HaltExecutor(p) ==
    /\ pc[p] = "halt"
    /\ Halted(p[2])
    /\ Goto(p, IF p[1] = "exec" THEN "over" ELSE "await")
    /\ UNCHANGED <<kind, reason, runtime, streamVars, loop, count, tuned, label, locks,
                   undefined>>

JoinExecutor(p) ==
    /\ pc[p] = "await" /\ loop[p[2]] = "over"
    /\ Goto(p, "over")
    /\ UNCHANGED <<kind, reason, runtime, streamVars, execVars, locks, undefined>>

(***************************************************************************)
(* The specification.                                                      *)
(***************************************************************************)
Worker(t) == WorkerCheck(t) \/ WorkerRead(t) \/ WorkerError(t) \/ WorkerLost(t)

Executor(t) ==
    \/ ScanStopped(t) \/ ScanRetune(t) \/ ScanSkip(t) \/ ScanAnnounce(t) \/ ScanDwelt(t)
    \/ MonitorCheck(t) \/ MonitorRead(t) \/ MonitorFires(t) \/ MonitorSpawns(t)
    \/ MonitorStops(t) \/ MonitorJoins(t) \/ MonitorCounts(t)
    \/ ExecLost(t) \/ ExecDone(t) \/ ExecOver(t)

Deactivate(p) ==
    \/ Claim(p) \/ CheckOrphan(p) \/ Lock(p) \/ StopStreamer(p) \/ JoinWorker(p) \/ CloseStream(p)
    \/ Erase(p) \/ EraseRunning(p) \/ Rejoin(p) \/ HaltExecutor(p) \/ JoinExecutor(p)

Next ==
    /\ ~undefined
    /\ \/ \E t \in Tasks : Worker(t) \/ Executor(t)
       \/ \E p \in Callers : End(p) \/ Deactivate(p)

(* Threads run: reads time out, windows and dwells end.  The locks are     *)
(* passed on (SF): a caller does not meet them taken for ever.             *)
Fairness ==
    /\ \A t \in Tasks : WF_vars(~undefined /\ Worker(t)) /\ WF_vars(~undefined /\ Executor(t))
    /\ \A p \in Callers : SF_vars(~undefined /\ Deactivate(p))

Spec == Init /\ [][Next]_vars
FairSpec == Spec /\ Fairness

(***************************************************************************)
(* Properties.                                                             *)
(***************************************************************************)

(* The steps of a task's scan, or the captures it is to make.              *)
Bound(t) == IF Scan(t) THEN Entries ELSE MaxCaptures

ScanLoop == {"retune", "announce", "dwell"}
MonitorLoop == {"check", "read", "fire", "spawn", "post", "join", "captured"}
EndLoop == {"done", "calling", "over"}

(* Every variable has the type the code gives it.                          *)
TypeOK ==
    /\ kind \in [Tasks -> Kinds]
    /\ reason \in [Tasks -> Enders \cup {"none"}]
    /\ runtime \in [Tasks -> BOOLEAN] /\ open \in [Tasks -> BOOLEAN]
    /\ alive \in [Tasks -> BOOLEAN] /\ srunning \in [Tasks -> BOOLEAN]
    /\ worker \in [Tasks -> {"none", "check", "read", "over"}]
    /\ fed \in [Tasks -> BOOLEAN] /\ erunning \in [Tasks -> BOOLEAN]
    /\ loop \in [Tasks -> ScanLoop \cup MonitorLoop \cup EndLoop]
    /\ count \in [Tasks -> Nat] /\ \A t \in Tasks : count[t] <= Bound(t)
    /\ tuned \in [Tasks -> 0 .. Entries] /\ label \in [Tasks -> 0 .. Entries]
    /\ pc \in [Callers -> {"idle", "claim", "orphan", "lock", "stop", "join", "close", "erase",
                           "rejoin", "halt", "await", "over"}]
    /\ locks \in Callers \cup {NoThread}
    /\ undefined \in BOOLEAN

(* While a task is active, the monitor and the worker never read its       *)
(* stream at the same time: the handover of the stream at a trigger and    *)
(* its return after the capture.                                           *)
OneReader ==
    \A t \in Tasks : reason[t] = "none" => ~(loop[t] = "read" /\ worker[t] = "read")

(* While a task is active, whatever its streamer reads has a consumer, in  *)
(* the first capture and in those that follow a stop().  A Ddc's sub-band  *)
(* is the exception: it is added once, and the first stop() drops it.      *)
CapturesFed ==
    \A t \in Tasks :
        reason[t] = "none" /\ worker[t] = "read" /\ kind[t] # "decimated" => fed[t]

(* A task that its executor completes has made all its captures, or passed *)
(* all steps of its scan: no stop, expiry or error makes it report more    *)
(* than it did.                                                            *)
ResultHonest ==
    \A t \in Tasks : reason[t] = "exec" => count[t] = Bound(t)

(* The loop is one of the task's kind, and has work left until its end.    *)
LoopsInv ==
    \A t \in Tasks :
        /\ loop[t] \in EndLoop \cup (IF Scan(t) THEN ScanLoop ELSE MonitorLoop)
        /\ loop[t] \notin EndLoop => count[t] < Bound(t)

(* Who is past its claim has found or made the task ended; an executor     *)
(* that was not stopped claims when its work is done.                      *)
ClaimsInv ==
    /\ \A p \in Callers : pc[p] \notin {"idle", "claim"} => reason[p[2]] # "none"
    /\ \A t \in Tasks :
        /\ ~erunning[t] => reason[t] # "none"
        /\ pc[<<"exec", t>>] # "idle" \/ reason[t] = "exec" => loop[t] \in {"calling", "over"}
        /\ loop[t] \in EndLoop /\ reason[t] \in {"none", "exec"} => count[t] = Bound(t)

(* While a triggered task is active, its streamer runs from the trigger to *)
(* the end of the capture and at no other time.                            *)
HandoverInv ==
    \A t \in Tasks : reason[t] = "none" /\ ~Scan(t) =>
        /\ worker[t] # "none" => loop[t] \in {"post", "join"}
        /\ srunning[t] <=> loop[t] \in {"spawn", "post"}

(* While a task without a Ddc is active, a running streamer has its client.*)
FedInv ==
    \A t \in Tasks : reason[t] = "none" /\ kind[t] # "decimated" =>
        fed[t] \/ (~Scan(t) /\ loop[t] \notin {"spawn", "post", "join"})

(* The inductive invariant of the proofs.                                  *)
IInv == TypeOK /\ LoopsInv /\ ClaimsInv /\ HandoverInv /\ FedInv

(* The executor of a task that has ended comes to its end, and whoever     *)
(* joins it goes on, unless the process has used what it had destroyed.    *)
ExecutorsEnd ==
    \A t \in Tasks :
        reason[t] # "none" ~>
            \/ undefined
            \/ loop[t] = "over" /\ \A k \in Enders : pc[<<k, t>>] \in {"idle", "over"}

(* In the post-trigger window "the stream is owned by IQStreamer"          *)
(* (TriggerMonitor::loop), so it is open and its streamer exists.  The     *)
(* code does not keep it: deactivateTask closes the one and destroys the   *)
(* other before it stops the monitor.                                      *)
CaptureOwned ==
    \A t \in Tasks : loop[t] = "post" => open[t] /\ alive[t]

=============================================================================
