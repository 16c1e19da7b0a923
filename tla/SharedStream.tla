---------------------------- MODULE SharedStream ----------------------------
(***************************************************************************)
(* One device with a shared LO: the SoapySDR streams that tasks open on it *)
(* or borrow from each other through channel_states_, the consumers of     *)
(* each stream's IQStreamer, and the combined-window retune that turns raw *)
(* consumers into DDC sub-bands while other threads end tasks.             *)
(*                                                                         *)
(* A stream is named after the task whose activation opened it: a task is  *)
(* started once here (TaskLifecycle has the double start).  All tasks      *)
(* overlap in time.  The readings of one admission are one step, and ranks *)
(* and other devices are left out: Admission has them.                     *)
(* Sections under reg_mu_, rt_mu_ or a streamer's dests_mu_ are single     *)
(* steps; hw_activation_mu_ is the variable hw.                            *)
(***************************************************************************)
EXTENDS SpectrumTimeline, Functions

CONSTANTS
    Tasks,       \* the tasks, one request each
    NoTask,
    Requests,    \* the combinations of requests that clients make
    Device,      \* the device: shared, rx (its channels) and srmax
    Failing      \* bound: the streams that meet a read error, once

Channels == 0 .. Device.rx - 1

(* What canFit and canCombine look at.  Requests without a bandwidth, a    *)
(* rate or a channel are rejected on arrival.  The unit is as small as one *)
(* likes, and a window reaches half a bandwidth, in integers, to each      *)
(* side: a bandwidth is at least two units.                                *)
Request == [cf : Int, bw : Nat \ {0, 1}, sr : Nat \ {0}, rx : 1 .. Device.rx, ch : Channels \cup {-1}]

ASSUME ConstantsAssumption ==
    /\ NoTask \notin Tasks
    /\ Device.shared /\ Device.rx \in Nat /\ Device.srmax \in Nat
    /\ Guard \in Nat
    /\ \A r \in Requests : r \in [Tasks -> Request]
    /\ Failing \subseteq Tasks

Amqp == <<"amqp", NoTask>>
Watchdog == <<"watchdog", NoTask>>
NoThread == <<"none", NoTask>>
Acts == {"act"} \X Tasks
Errs == {"err"} \X Failing
Threads == {Amqp, Watchdog} \cup Acts \cup Errs

(* A window of the device: its centre frequency and its rate.              *)
NoWindow == <<0, 0>>
WindowOf(x) == <<x.cf, x.sr>>
NoAllocation == [win |-> NoWindow, out |-> 0, rx |-> <<>>]
NoFit == [cf |-> 0, sr |-> 0, lo |-> 0, hi |-> 0, rx |-> {}]
NoRuntime == [uses |-> <<>>, sub |-> FALSE]

(* tryRetuneCombined's request, its fit in the combined window, the tasks  *)
(* that overlap, the consumers to convert (with their streamers) and those *)
(* converted.                                                              *)
NoWork == [req |-> NoTask, fit |-> NoFit, over |-> {}, todo |-> {}, done |-> {}]

VARIABLES
    asked,      \* the request of each task, chosen in Init
    state,      \* registry_[t].state, or "absent"
    alloc,      \* registry_[t].allocations: window, output rate, channels
    slots,      \* the slots of the device's timeline
    tuned,      \* what the hardware is tuned to
    chan,       \* channel_states_: the stream of each channel
    status,     \* "none", "open", "closed" or "twice", for each stream
    label,      \* the window its IQStreamer puts into the headers
    running,    \* its IQStreamer's running_
    dests,      \* its raw destinations: how many each task has
    subs,       \* its sub-bands: the window each task's Ddc was made for
    runtime,    \* runtimes_[t]: the streams it uses, is_subband_consumer
    built,      \* the TaskRuntime an activation has not yet inserted
    copy,       \* the allocation an activation copied when it began
    wide,       \* the rate it read from the streamer it borrows
    hw,         \* the owner of hw_activation_mu_
    pc,         \* what each thread does next
    arg,        \* the task it does it to
    first,      \* its deactivateTask call set the terminal state
    work        \* the locals of tryRetuneCombined

taskVars == <<asked, state, alloc, slots>>
streamVars == <<status, label, running, dests, subs>>
rtVars == <<chan, runtime>>
actVars == <<built, copy, wide>>
callVars == <<arg, first>>
vars == <<taskVars, tuned, streamVars, rtVars, actVars, hw, pc, callVars, work>>

Init ==
    /\ asked \in Requests
    /\ state = [t \in Tasks |-> "absent"]
    /\ alloc = [t \in Tasks |-> NoAllocation]
    /\ slots = <<>>
    /\ tuned = NoWindow
    /\ chan = [c \in Channels |-> NoTask]
    /\ status = [s \in Tasks |-> "none"]
    /\ label = [s \in Tasks |-> NoWindow]
    /\ running = [s \in Tasks |-> FALSE]
    /\ dests = [s \in Tasks |-> [t \in Tasks |-> 0]]
    /\ subs = [s \in Tasks |-> [t \in Tasks |-> NoWindow]]
    /\ runtime = [t \in Tasks |-> NoRuntime]
    /\ built = [t \in Tasks |-> NoRuntime]
    /\ copy = [t \in Tasks |-> NoAllocation]
    /\ wide = [t \in Tasks |-> 0]
    /\ hw = NoThread
    /\ pc = [p \in Threads |-> "idle"]
    /\ arg = [p \in Threads |-> p[2]]
    /\ first = [p \in Threads |-> FALSE]
    /\ work = NoWork

Goto(p, l) == pc' = [pc EXCEPT ![p] = l]

(* The rate a task wants, and whether a wider rate can be decimated to it. *)
OutputRate(a) == IF a.out > 0 THEN a.out ELSE a.win[2]
NeedsDdc(w, out) == w % out = 0 /\ w \div out >= 2

(***************************************************************************)
(* IQStreamer: its consumers.                                              *)
(***************************************************************************)

(* Bug: sub-bands are not counted as consumers.                            *)
BugTotalConsumers(d, b) == {t \in Tasks : d[t] > 0}

(* The tasks totalConsumers() counts, given a streamer's destinations and  *)
(* sub-bands.                                                              *)
TotalConsumers(d, b) == {t \in Tasks : d[t] > 0 \/ b[t] # NoWindow}

(* Bug: removeDest takes an entry away where there is none.                *)
BugRemovesNone(s, t) == dests' = [dests EXCEPT ![s][t] = @ - 1]

(* Bug: removeDest is left out of the conversion to a sub-band.            *)
BugKeepsDest(s, t) == UNCHANGED dests

(* removeDest takes one entry away, removeSubBand the only one.            *)
RemoveDest(s, t) == dests' = [dests EXCEPT ![s][t] = IF @ > 0 THEN @ - 1 ELSE 0]

(* How often a sequence of streamers has one: once for each channel.       *)
Times(uses, s) == Cardinality({i \in DOMAIN uses : uses[i] = s})

(* addDest, on each streamer of a sequence.                                *)
AddDests(uses, t) ==
    dests' = [s \in Tasks |-> [dests[s] EXCEPT ![t] = @ + Times(uses, s)]]

(* addSubBand: the Ddc gets its offset from the streamer's current centre  *)
(* and its decimation from the rate the caller passes.                     *)
AddSubBand(s, t, rate) == subs' = [subs EXCEPT ![s][t] = <<label[s][1], rate>>]

(* updateCenterFreq and updateSampleRate.                                  *)
Announce(S, win) == label' = [s \in Tasks |-> IF s \in S THEN win ELSE label[s]]

(* start: the configured destination is the first consumer.                *)
Start(t) ==
    /\ running' = [running EXCEPT ![t] = TRUE]
    /\ AddDests(<<t>>, t)

(* stop, on the streamers S of the state that a teardown works on: they    *)
(* lose their consumers, unless they were stopped before.                  *)
Stop(dev, S) ==
    LET stops == {s \in S : dev.running[s]}
    IN [dev EXCEPT
          !.running = [s \in Tasks |-> @[s] /\ s \notin stops],
          !.dests = [s \in Tasks |-> IF s \in stops THEN [t \in Tasks |-> 0] ELSE @[s]],
          !.subs = [s \in Tasks |-> IF s \in stops THEN [t \in Tasks |-> NoWindow] ELSE @[s]]]

(***************************************************************************)
(* deactivateTask, called by thread p on the task arg[p].                  *)
(***************************************************************************)
Returned(p) ==
    /\ Goto(p, IF p \in {Amqp, Watchdog} THEN "idle" ELSE "done")
    /\ first' = [first EXCEPT ![p] = FALSE]
    /\ arg' = [arg EXCEPT ![p] = p[2]]

(* The first caller sets the terminal state, a later one looks for a       *)
(* runtime to clean up.                                                    *)
Claim(p) ==
    /\ pc[p] = "claim"
    /\ IF state[arg[p]] = "ended"
       THEN Goto(p, "orphan") /\ UNCHANGED <<state, first>>
       ELSE /\ state' = [state EXCEPT ![arg[p]] = "ended"]
            /\ first' = [first EXCEPT ![p] = TRUE]
            /\ Goto(p, "teardown")
    /\ UNCHANGED <<asked, alloc, slots, tuned, streamVars, rtVars, actVars, hw, arg, work>>

CheckOrphan(p) ==
    /\ pc[p] = "orphan"
    /\ IF runtime[arg[p]] = NoRuntime
       THEN Returned(p)
       ELSE Goto(p, "teardown") /\ UNCHANGED callVars
    /\ UNCHANGED <<taskVars, tuned, streamVars, rtVars, actVars, hw, work>>

(* What a task's entries leave of dests and subs.                          *)
DestsWithout(t) ==
    [s \in Tasks |-> [dests[s] EXCEPT ![t] =
        IF runtime[t].sub \/ @ = 0 THEN @
        ELSE LET n == Times(runtime[t].uses, s)
             IN IF n > @ THEN 0 ELSE @ - n]]
SubsWithout(t) ==
    [s \in Tasks |-> [subs[s] EXCEPT ![t] =
        IF runtime[t].sub /\ s \in Range(runtime[t].uses) THEN NoWindow ELSE @]]

(* One stream of the runtime.  If channel_states_ knows it, it is stopped  *)
(* and closed once nobody consumes it; otherwise it is taken for a stream  *)
(* of its own: every streamer of the runtime stops and it is closed.       *)
CloseStream(dev, s, uses) ==
    LET found == \E c \in Channels : dev.chan[c] = s
    IN IF found /\ TotalConsumers(dev.dests[s], dev.subs[s]) # {}
       THEN dev
       ELSE [Stop(dev, IF found THEN {s} ELSE Range(uses)) EXCEPT
               !.chan = [c \in Channels |-> IF @[c] = s THEN NoTask ELSE @[c]],
               !.status[s] = IF @ = "open" THEN "closed" ELSE "twice"]

(* Bug: the streams are closed without hw_activation_mu_.                  *)
BugHwFree == TRUE

HwFree == hw = NoThread

(* The loop over the soapy_streams of a runtime.                           *)
CloseStreams(dev, uses) ==
    LET Closed[i \in 0 .. Len(uses)] ==
            IF i = 0 THEN dev ELSE CloseStream(Closed[i - 1], uses[i], uses)
    IN Closed[Len(uses)]

(* Under hw_activation_mu_ and rt_mu_: unsubscribe, close what is left     *)
(* without consumers, erase the runtime.                                   *)
Teardown(p) ==
    /\ pc[p] = "teardown"
    /\ HwFree
    /\ LET t == arg[p]
           dev == CloseStreams([chan |-> chan, status |-> status, running |-> running,
                                dests |-> DestsWithout(t), subs |-> SubsWithout(t)],
                               runtime[t].uses)
       IN /\ chan' = dev.chan
          /\ status' = dev.status
          /\ running' = dev.running
          /\ dests' = dev.dests
          /\ subs' = dev.subs
          /\ runtime' = [runtime EXCEPT ![t] = NoRuntime]
    /\ IF first[p] THEN Goto(p, "release") /\ UNCHANGED callVars ELSE Returned(p)
    /\ UNCHANGED <<taskVars, tuned, label, actVars, hw, work>>

ReleaseSlot(p) ==
    /\ pc[p] = "release"
    /\ slots' = Remove(slots, arg[p])
    /\ Returned(p)
    /\ UNCHANGED <<asked, state, alloc, tuned, streamVars, rtVars, actVars, hw, work>>

Deactivate(p) == Claim(p) \/ CheckOrphan(p) \/ Teardown(p) \/ ReleaseSlot(p)

(* The watchdog deactivates a RUNNING task whose time is up, the AMQP      *)
(* thread one that its client cancels.                                     *)
Expire(t) ==
    /\ pc[Watchdog] = "idle"
    /\ state[t] = "running"
    /\ arg' = [arg EXCEPT ![Watchdog] = t]
    /\ Goto(Watchdog, "claim")
    /\ UNCHANGED <<taskVars, tuned, streamVars, rtVars, actVars, hw, first, work>>

Cancel(t) ==
    /\ pc[Amqp] = "idle"
    /\ state[t] \in {"pending", "running"}
    /\ arg' = [arg EXCEPT ![Amqp] = t]
    /\ Goto(Amqp, "claim")
    /\ UNCHANGED <<taskVars, tuned, streamVars, rtVars, actVars, hw, first, work>>

(* After twenty failed reads a streamer's worker ends and reports to the   *)
(* task that opened the stream, from a thread of its own.                  *)
StreamError(s) ==
    /\ s \in Failing
    /\ pc[<<"err", s>>] = "idle"
    /\ running[s]
    /\ Goto(<<"err", s>>, "claim")
    /\ UNCHANGED <<taskVars, tuned, streamVars, rtVars, actVars, hw, callVars, work>>

(***************************************************************************)
(* The AMQP thread accepts a request.                                      *)
(***************************************************************************)
Owners == {slots[i].task : i \in DOMAIN slots}

(* The channels of a fit, in their order.                                  *)
InOrder(S) == [k \in 1 .. Cardinality(S) |-> CHOOSE c \in S : Cardinality({b \in S : b <= c}) = k]

(* doAcceptStandard's end: slot, record and activation thread.  The output *)
(* rate is recorded where the device runs at another.                      *)
Commit(t, f, base) ==
    /\ slots' = Insert(slots, [task |-> t, from |-> 0, to |-> 1, cf |-> f.cf, sr |-> f.sr,
                               lo |-> f.lo, hi |-> f.hi, rx |-> f.rx])
    /\ state' = [state EXCEPT ![t] = "pending"]
    /\ alloc' = [base EXCEPT ![t] = [win |-> WindowOf(f),
                                     out |-> IF f.sr = asked[t].sr THEN 0 ELSE asked[t].sr,
                                     rx  |-> InOrder(f.rx)]]
    /\ pc' = [pc EXCEPT ![Amqp] = "idle", ![<<"act", t>>] = "start"]

(* findBestDevice, and where it fails tryRetuneCombined: on the same       *)
(* frequency the preferred channel is joined, if the slice lies in the     *)
(* window; on another the window around all slices is taken, and the       *)
(* preferred channel of those in use.                                      *)
Fit(t) == CanFit(slots, Device, asked[t], 0, 1)

SameCf(t) == \A i \in DOMAIN slots : slots[i].cf = asked[t].cf

Join(t) ==
    IF Fit(t) = {} /\ SameCf(t) /\ asked[t].ch \in BusyRx(slots) /\ asked[t].bw <= slots[1].sr
    THEN {AsAsked(asked[t], slots[1].cf, slots[1].sr, {asked[t].ch})} ELSE {}

Combination(t) ==
    LET fits == CanCombine(slots, Device, asked[t], 0, 1)
        ch == asked[t].ch
    IN IF Fit(t) # {} \/ SameCf(t) THEN {}
       ELSE IF ch < 0 THEN fits
       ELSE {[f EXCEPT !.rx = {ch}] : f \in {g \in fits : ch \in g.rx}}

Accept(t, fits) ==
    /\ pc[Amqp] = "idle"
    /\ state[t] = "absent"
    /\ \E f \in fits : Commit(t, f, alloc)
    /\ UNCHANGED <<asked, tuned, streamVars, rtVars, actVars, hw, callVars, work>>

AcceptFit(t) == Accept(t, Fit(t))
AcceptJoin(t) == Accept(t, Join(t))

(* Nothing is retuned if the combined window is the one the device has.    *)
Combine(t) ==
    /\ pc[Amqp] = "idle"
    /\ state[t] = "absent"
    /\ \E f \in Combination(t) :
          /\ work' = [NoWork EXCEPT !.req = t, !.fit = f, !.over = Owners]
          /\ Goto(Amqp, IF WindowOf(f) = WindowOf(slots[1]) THEN "collect" ELSE "tune")
    /\ UNCHANGED <<taskVars, tuned, streamVars, rtVars, actVars, hw, callVars>>

(* Under hw_activation_mu_: the hardware, then every slot of the device.   *)
Tune ==
    /\ pc[Amqp] = "tune"
    /\ HwFree
    /\ tuned' = WindowOf(work.fit)
    /\ slots' = UpdateDeviceTune(slots, work.fit.cf, work.fit.sr)
    /\ Goto(Amqp, "push")
    /\ UNCHANGED <<asked, state, alloc, streamVars, rtVars, actVars, hw, callVars, work>>

TuneFails ==
    /\ pc[Amqp] = "tune"
    /\ HwFree
    /\ work' = NoWork
    /\ Goto(Amqp, "idle")
    /\ UNCHANGED <<taskVars, tuned, streamVars, rtVars, actVars, hw, callVars>>

(* Under rt_mu_: the running streamers announce the new window.            *)
Push ==
    /\ pc[Amqp] = "push"
    /\ Announce(UNION {Range(runtime[u].uses) : u \in work.over}, WindowOf(work.fit))
    /\ Goto(Amqp, "collect")
    /\ UNCHANGED <<taskVars, tuned, status, running, dests, subs, rtVars, actVars, hw, callVars, work>>

(* Step A, under rt_mu_: the raw consumers and their streamers.            *)
Collect ==
    /\ pc[Amqp] = "collect"
    /\ work' = [work EXCEPT !.todo = {<<u, runtime[u].uses[1]>> :
                    u \in {v \in work.over : runtime[v].uses # <<>> /\ ~runtime[v].sub}}]
    /\ Goto(Amqp, "plan")
    /\ UNCHANGED <<taskVars, tuned, streamVars, rtVars, actVars, hw, callVars>>

(* Step B, under reg_mu_: those that are alive and whose rate the new one  *)
(* can be decimated to; the rate is recorded.                              *)
Plan ==
    /\ pc[Amqp] = "plan"
    /\ LET chosen == {x \in work.todo : /\ state[x[1]] # "ended"
                                        /\ NeedsDdc(work.fit.sr, OutputRate(alloc[x[1]]))}
       IN /\ work' = [work EXCEPT !.todo = chosen]
          /\ alloc' = [u \in Tasks |-> IF \E x \in chosen : x[1] = u
                                       THEN [alloc[u] EXCEPT !.out = OutputRate(alloc[u])]
                                       ELSE alloc[u]]
    /\ Goto(Amqp, "convert")
    /\ UNCHANGED <<asked, state, slots, tuned, streamVars, rtVars, actVars, hw, callVars>>

(* Step C, under no lock: removeDest, then addSubBand, one task at a time. *)
Unsubscribe(x) ==
    /\ pc[Amqp] = "convert"
    /\ x \in work.todo
    /\ RemoveDest(x[2], x[1])
    /\ work' = [work EXCEPT !.done = @ \cup {x}]
    /\ Goto(Amqp, "resubscribe")
    /\ UNCHANGED <<taskVars, tuned, status, label, running, subs, rtVars, actVars, hw, callVars>>

Resubscribe(x) ==
    /\ pc[Amqp] = "resubscribe"
    /\ x \in work.todo \cap work.done
    /\ AddSubBand(x[2], x[1], work.fit.sr)
    /\ work' = [work EXCEPT !.todo = @ \ {x}]
    /\ Goto(Amqp, "convert")
    /\ UNCHANGED <<taskVars, tuned, status, label, running, dests, rtVars, actVars, hw, callVars>>

(* Step D, under rt_mu_: their runtimes say so.                            *)
Flag ==
    /\ pc[Amqp] = "convert"
    /\ work.todo = {}
    /\ runtime' = [u \in Tasks |->
                     IF (\E x \in work.done : x[1] = u) /\ runtime[u] # NoRuntime
                     THEN [runtime[u] EXCEPT !.sub = TRUE]
                     ELSE runtime[u]]
    /\ Goto(Amqp, "accept")
    /\ UNCHANGED <<taskVars, tuned, streamVars, chan, actVars, hw, callVars, work>>

(* The allocations of the overlapping tasks, then the task itself.         *)
Retuned == [u \in Tasks |-> IF u \in work.over THEN [alloc[u] EXCEPT !.win = WindowOf(work.fit)] ELSE alloc[u]]

AcceptCombined ==
    /\ pc[Amqp] = "accept"
    /\ Commit(work.req, work.fit, Retuned)
    /\ work' = NoWork
    /\ UNCHANGED <<asked, tuned, streamVars, rtVars, actVars, hw, callVars>>

(* The pool has no port for it: the others stay retuned all the same.      *)
PortsExhausted ==
    /\ pc[Amqp] = "accept"
    /\ alloc' = Retuned
    /\ work' = NoWork
    /\ Goto(Amqp, "idle")
    /\ UNCHANGED <<asked, state, slots, tuned, streamVars, rtVars, actVars, hw, callVars>>

(***************************************************************************)
(* activateTask, shared-LO branch.                                         *)
(***************************************************************************)
(* The locals of an activation that it no longer needs.                    *)
Forget(t) ==
    /\ copy' = [copy EXCEPT ![t] = NoAllocation]
    /\ wide' = [wide EXCEPT ![t] = 0]

ActStart(t) ==
    /\ pc[<<"act", t>>] = "start"
    /\ IF state[t] = "ended"
       THEN Goto(<<"act", t>>, "done") /\ UNCHANGED copy
       ELSE Goto(<<"act", t>>, "lock") /\ copy' = [copy EXCEPT ![t] = alloc[t]]
    /\ UNCHANGED <<taskVars, tuned, streamVars, rtVars, built, wide, hw, callVars, work>>

ActLock(t) ==
    /\ pc[<<"act", t>>] = "lock"
    /\ HwFree
    /\ IF state[t] = "ended"
       THEN Goto(<<"act", t>>, "done") /\ Forget(t) /\ UNCHANGED hw
       ELSE Goto(<<"act", t>>, "lookup") /\ hw' = <<"act", t>> /\ UNCHANGED <<copy, wide>>
    /\ UNCHANGED <<taskVars, tuned, streamVars, rtVars, built, callVars, work>>

(* Bug: a channel counts as live only while its streamer has raw           *)
(* destinations.                                                           *)
BugLive(c) == chan[c] # NoTask /\ \E t \in Tasks : dests[chan[c]][t] > 0

Live(c) == chan[c] # NoTask

(* Under rt_mu_: are all its channels live already?  If so it then reads   *)
(* the first streamer's rate (nobody changes channel_states_ meanwhile).   *)
ActLookup(t) ==
    /\ pc[<<"act", t>>] = "lookup"
    /\ LET uses == [i \in DOMAIN copy[t].rx |-> chan[copy[t].rx[i]]]
       IN IF \A c \in Range(copy[t].rx) : Live(c)
          THEN /\ built' = [built EXCEPT ![t].uses = uses]
               /\ wide' = [wide EXCEPT ![t] = label[uses[1]][2]]
               /\ Goto(<<"act", t>>, "borrow")
          ELSE Goto(<<"act", t>>, "open") /\ UNCHANGED <<built, wide>>
    /\ UNCHANGED <<taskVars, tuned, streamVars, rtVars, copy, hw, callVars, work>>

(* It becomes a sub-band where one channel can be decimated to its rate,   *)
(* a raw destination of each channel otherwise.  Then it unlocks.          *)
ActBorrow(t) ==
    /\ pc[<<"act", t>>] = "borrow"
    /\ LET uses == built[t].uses
       IN IF NeedsDdc(wide[t], OutputRate(copy[t])) /\ Len(uses) = 1
          THEN /\ AddSubBand(uses[1], t, wide[t])
               /\ built' = [built EXCEPT ![t].sub = TRUE]
               /\ UNCHANGED dests
          ELSE /\ AddDests(uses, t)
               /\ UNCHANGED <<subs, built>>
    /\ hw' = NoThread
    /\ Forget(t)
    /\ Goto(<<"act", t>>, "insert")
    /\ UNCHANGED <<taskVars, tuned, status, label, running, rtVars, callVars, work>>

(* Tune to the window it copied, open and activate a stream, start its     *)
(* IQStreamer and make its channels known.  Then it unlocks.               *)
ActOpen(t) ==
    /\ pc[<<"act", t>>] = "open"
    /\ tuned' = copy[t].win
    /\ status' = [status EXCEPT ![t] = "open"]
    /\ Announce({t}, copy[t].win)
    /\ Start(t)
    /\ chan' = [c \in Channels |-> IF c \in Range(copy[t].rx) THEN t ELSE chan[c]]
    /\ built' = [built EXCEPT ![t].uses = <<t>>]
    /\ hw' = NoThread
    /\ Forget(t)
    /\ Goto(<<"act", t>>, "insert")
    /\ UNCHANGED <<taskVars, subs, runtime, callVars, work>>

(* Tuning fails, or (once tuned) opening or activating the stream, which   *)
(* is closed again: unlock, then deactivate the task as FAILED.            *)
ActFails(t) ==
    /\ pc[<<"act", t>>] = "open"
    /\ tuned' \in {tuned, copy[t].win}
    /\ hw' = NoThread
    /\ Forget(t)
    /\ Goto(<<"act", t>>, "claim")
    /\ UNCHANGED <<taskVars, streamVars, rtVars, built, callVars, work>>

(* Under rt_mu_: runtimes_[task_id] = std::move(rt).                       *)
ActInsert(t) ==
    /\ pc[<<"act", t>>] = "insert"
    /\ runtime' = [runtime EXCEPT ![t] = built[t]]
    /\ built' = [built EXCEPT ![t] = NoRuntime]
    /\ Goto(<<"act", t>>, "run")
    /\ UNCHANGED <<taskVars, tuned, streamVars, chan, copy, wide, hw, callVars, work>>

ActRun(t) ==
    /\ pc[<<"act", t>>] = "run"
    /\ state' = [state EXCEPT ![t] = IF @ = "ended" THEN @ ELSE "running"]
    /\ Goto(<<"act", t>>, "done")
    /\ UNCHANGED <<asked, alloc, slots, tuned, streamVars, rtVars, actVars, hw, callVars, work>>

Activate(t) ==
    \/ ActStart(t) \/ ActLock(t) \/ ActLookup(t) \/ ActBorrow(t)
    \/ ActOpen(t) \/ ActFails(t) \/ ActInsert(t) \/ ActRun(t)

Retune ==
    \/ Tune \/ TuneFails \/ Push \/ Collect \/ Plan \/ Flag
    \/ \E x \in work.todo : Unsubscribe(x) \/ Resubscribe(x)
    \/ AcceptCombined \/ PortsExhausted

Next ==
    \/ \E t \in Tasks : AcceptFit(t) \/ AcceptJoin(t) \/ Combine(t) \/ Cancel(t) \/ Expire(t) \/ Activate(t)
    \/ Retune
    \/ \E s \in Failing : StreamError(s)
    \/ \E p \in Threads : Deactivate(p)

Spec == Init /\ [][Next]_vars

(***************************************************************************)
(* Properties.                                                             *)
(***************************************************************************)
Windows == Int \X Nat
Runtimes == [uses : Seq(Tasks), sub : BOOLEAN]
Allocations == [win : Windows, out : Nat, rx : Seq(Channels)]
Deactivating == {"idle", "claim", "orphan", "teardown", "release"}

(* Types: the watchdog only deactivates, a destination is never counted    *)
(* below zero, hw_activation_mu_ belongs to an activation between steps.   *)
TypeOK ==
    /\ asked \in Requests
    /\ state \in [Tasks -> {"absent", "pending", "running", "ended"}]
    /\ alloc \in [Tasks -> Allocations]
    /\ \A i \in DOMAIN slots : slots[i].task \in Tasks /\ WindowOf(slots[i]) \in Windows
    /\ tuned \in Windows
    /\ chan \in [Channels -> Tasks \cup {NoTask}]
    /\ status \in [Tasks -> {"none", "open", "closed", "twice"}]
    /\ label \in [Tasks -> Windows]
    /\ running \in [Tasks -> BOOLEAN]
    /\ dests \in [Tasks -> [Tasks -> Nat]]
    /\ subs \in [Tasks -> [Tasks -> Windows]]
    /\ runtime \in [Tasks -> Runtimes]
    /\ built \in [Tasks -> Runtimes]
    /\ copy \in [Tasks -> Allocations]
    /\ wide \in [Tasks -> Nat]
    /\ hw \in Acts \cup {NoThread}
    /\ first \in [Threads -> BOOLEAN]
    /\ arg \in [Threads -> Tasks \cup {NoTask}]
    /\ \A p \in Acts \cup Errs : pc[p] \in
          {"idle", "start", "lock", "lookup", "borrow", "open", "insert", "run",
           "claim", "orphan", "teardown", "release", "done"}
    /\ pc[Watchdog] \in Deactivating
    /\ pc[Amqp] \in Deactivating
                   \cup {"tune", "push", "collect", "plan", "convert", "resubscribe", "accept"}
    /\ work \in [req : Tasks \cup {NoTask}, fit : [cf : Int, sr : Nat, lo : Int, hi : Int, rx : SUBSET Channels],
                 over : SUBSET Tasks, todo : SUBSET (Tasks \X Tasks), done : SUBSET (Tasks \X Tasks)]

(* A stream is closed at most once, although each of its consumers may be  *)
(* the one to close it (the loop over soapy_streams in deactivateTask).    *)
ClosedOnce == \A s \in Tasks : status[s] # "twice"

(* No two open streams read the same channel of the device: the second     *)
(* activation finds the first in channel_states_.                          *)
OneReader ==
    \A s, u \in Tasks : s # u /\ status[s] = "open" /\ status[u] = "open"
                        => Range(alloc[s].rx) \cap Range(alloc[u].rx) = {}

(* The task is between removeDest and addSubBand.                          *)
Converting(t) == \E x \in work.todo \cap work.done : x[1] = t

(* A task with a runtime is served: its streams are open, their streamers  *)
(* not stopped, and it is among their consumers, whoever opened or leaves them.    *)
RuntimeServed ==
    \A t \in Tasks : \A s \in Range(runtime[t].uses) :
        /\ status[s] = "open" /\ running[s]
        /\ dests[s][t] > 0 \/ subs[s][t] # NoWindow \/ Converting(t)

(* A task's port is sent raw samples or those of its sub-band, never both, *)
(* whatever becomes of a conversion that overlaps with its end (Step C of  *)
(* tryRetuneCombined against deactivateTask).                              *)
OneFeed == \A t, s, u \in Tasks : dests[s][t] > 0 => subs[u][t] = NoWindow

(* Between retunes: where the device has the window of its slots and a     *)
(* running streamer announces it, the streamer's sub-bands were made for   *)
(* that window, so each Ddc shifts and decimates correctly (the upgrade of *)
(* raw consumers in tryRetuneCombined).                                    *)
SubBandsCurrent ==
    work = NoWork =>
        \A s, t \in Tasks : running[s] /\ label[s] = tuned /\ (\E i \in DOMAIN slots : tuned = WindowOf(slots[i]))
                             /\ subs[s][t] # NoWindow
                            => subs[s][t] = tuned
=============================================================================
