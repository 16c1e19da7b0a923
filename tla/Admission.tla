------------------------------ MODULE Admission ------------------------------
(***************************************************************************)
(* How ResourceManager::tryAccept places a request on the devices: the     *)
(* single-device path with its preemption and its combined window, the     *)
(* coherent path and the calibration path, on the AMQP thread, while other *)
(* threads end tasks and release their slots.  The life of an accepted     *)
(* task, its ports and its hardware are in TaskLifecycle; here a task is   *)
(* live from its acceptance to its terminal state.                         *)
(***************************************************************************)
EXTENDS SpectrumTimeline

CONSTANTS
    Tasks,          \* the requests that may be made, one task each
    NoTask,
    Devices,        \* all of them online
    NoDevice,       \* no preferred, or no required, device
    Dev,            \* the config of a device: shared, rx, freqs, bwmax, srmin, srmax
    Group,          \* the devices of the coherency group
    Req,            \* a request: path, mode, from, to, cf, bw, sr, rx, ch, rank, prefer, require
    Horizon,        \* bound: the last instant
    MaxRequests     \* bound: how many requests are made

Forever == Horizon + 100

Configs ==
    [shared : BOOLEAN, rx : Nat, freqs : SUBSET Int, bwmax : Int, srmin : Int, srmax : Int]

Requests ==
    [path : {"find", "coherent", "calibration"}, mode : {"SCHEDULED", "IMMEDIATE", "CONTINUOUS"},
     from : Int, to : Int, cf : Int, bw : Int, sr : Int, rx : Nat, ch : Int, rank : Int,
     prefer : Devices \cup {NoDevice}, require : Devices \cup {NoDevice}]

(* Requests without a bandwidth, a rate or a channel are rejected on       *)
(* arrival; calibrations are taken to have them too.                       *)
ASSUME ConstantsAssumption ==
    /\ NoTask \notin Tasks /\ NoDevice \notin Devices
    /\ Group \subseteq Devices
    /\ Guard \in Nat /\ Horizon \in Nat
    /\ Dev \in [Devices -> Configs]
    /\ Req \in [Tasks -> Requests]
    /\ \A t \in Tasks : Req[t].bw >= 2 /\ Req[t].sr > 0 /\ Req[t].rx > 0

VARIABLES
    now,        \* nowMs()
    timeline,   \* the slots of each device
    state,      \* registry_[t].state: live, ended (terminal), over (and released)
    alloc,      \* registry_[t].allocations
    pc,         \* what the AMQP thread does next
    work        \* its locals, NoWork between two requests

taskVars == <<timeline, state, alloc>>
vars == <<now, taskVars, pc, work>>

NoWork ==
    [cur |-> NoTask,            \* the request
     window |-> <<0, 0>>,       \* its interval [t_start, t_stop)
     plan |-> {},               \* the allocations chosen for it
     tried |-> {},              \* the devices that a loop has done with
     victims |-> {},            \* the tasks to preempt
     cancelled |-> {},          \* those of them it is through with
     device |-> NoDevice]       \* the device they are in the way on, or the one to widen

Init ==
    /\ now = 0
    /\ timeline = [d \in Devices |-> <<>>]
    /\ state = [t \in Tasks |-> "none"]
    /\ alloc = [t \in Tasks |-> {}]
    /\ pc = "idle"
    /\ work = NoWork

Proceed(label, w) == pc' = label /\ work' = w /\ UNCHANGED <<now, taskVars>>

Skip(d) == Proceed(pc, [work EXCEPT !.tried = @ \cup {d}])

Choose(P) == Proceed("commit", [work EXCEPT !.plan = P])

Reject ==
    /\ state' = [state EXCEPT ![work.cur] = "rejected"]
    /\ pc' = "idle"
    /\ work' = NoWork
    /\ UNCHANGED <<now, timeline, alloc>>

R == Req[work.cur]

(* The slots of device d in the way of the request, and its live tasks.    *)
Over(d) == SlotsOverlapping(timeline[d], work.window[1], work.window[2])

OwnersOf(slots) == {slots[i].task : i \in DOMAIN slots}

LiveOn(d) == {t \in OwnersOf(Over(d)) : state[t] = "live"}

(***************************************************************************)
(* A request arrives: its interval is fixed.                               *)
(***************************************************************************)
Interval(r) ==
    CASE r.mode = "SCHEDULED" -> <<r.from, r.to>>
      [] r.mode = "IMMEDIATE" -> <<now, now + r.to>>
      [] r.mode = "CONTINUOUS" -> <<now, Forever>>

Receive(t) ==
    /\ pc = "idle"
    /\ state[t] = "none"
    /\ Cardinality({u \in Tasks : state[u] # "none"}) < MaxRequests
    /\ LET i == Interval(Req[t])
       IN IF i[1] >= i[2] \/ i[2] <= now
          THEN state' = [state EXCEPT ![t] = "rejected"] /\ UNCHANGED <<now, timeline, alloc, pc, work>>
          ELSE Proceed(Req[t].path, [work EXCEPT !.cur = t, !.window = i])

(* The allocation of a fit f on device d.                                  *)
On(d, f) == [dev |-> d, cf |-> f.cf, sr |-> f.sr, lo |-> f.lo, hi |-> f.hi, rx |-> f.rx]

(***************************************************************************)
(* findBestDevice: the named device first, or alone if it is required, the *)
(* others by the bandwidth allocated at the moment, here in any order.     *)
(***************************************************************************)
Tunable(d, r) == r.cf \in Dev[d].freqs /\ r.bw <= Dev[d].bwmax /\ r.rx <= Dev[d].rx

(* Below the floor of the device: the least multiple that clears it.       *)
DeviceRate(d, r) ==
    IF r.sr >= Dev[d].srmin THEN r.sr ELSE r.sr * ((Dev[d].srmin + r.sr - 1) \div r.sr)

Fits(d) ==
    IF Tunable(d, R) /\ DeviceRate(d, R) <= Dev[d].srmax
    THEN CanFit(timeline[d], Dev[d], [R EXCEPT !.sr = DeviceRate(d, R)], work.window[1], work.window[2])
    ELSE {}

Candidates == (IF R.require # NoDevice THEN {R.require} ELSE Devices) \ work.tried

FindDevice(d) ==
    /\ pc \in {"find", "again"}
    /\ d \in Candidates
    /\ R.prefer \in Candidates => d = R.prefer
    /\ IF Fits(d) = {} THEN Skip(d) ELSE \E f \in Fits(d) : Choose({On(d, f)})

FindNone ==
    /\ pc \in {"find", "again"}
    /\ Candidates = {}
    /\ Proceed(IF pc = "find" /\ R.rank > 0 THEN "preempt" ELSE "combine", [work EXCEPT !.tried = {}])

(***************************************************************************)
(* tryPreemptConflicting                                                   *)
(***************************************************************************)

(* Bug: one task of a lower rank is enough.                                *)
BugPreemptable(d) ==
    /\ Tunable(d, R) /\ R.sr <= Dev[d].srmax
    /\ \E t \in LiveOn(d) : Req[t].rank < R.rank

(* Live tasks are in the way on d, and all of them have a lower rank.      *)
Preemptable(d) ==
    /\ Tunable(d, R) /\ R.sr <= Dev[d].srmax
    /\ LiveOn(d) # {}
    /\ \A t \in LiveOn(d) : Req[t].rank < R.rank

Preempt(d) ==
    /\ pc = "preempt"
    /\ d \notin work.tried
    /\ IF Preemptable(d)
       THEN Proceed("cancel", [work EXCEPT !.victims = {t \in LiveOn(d) : Req[t].rank < R.rank},
                                           !.device = d])
       ELSE Skip(d)

PreemptNone ==
    /\ pc = "preempt"
    /\ work.tried = Devices
    /\ Proceed("combine", [work EXCEPT !.tried = {}])

(* Bug: only the slot on the first device is removed.                      *)
BugReleased(t) ==
    LET first == CHOOSE a \in alloc[t] : TRUE
    IN timeline' = [timeline EXCEPT ![first.dev] = Remove(@, t)]

Released(t) ==
    timeline' = [d \in Devices |->
        IF \E a \in alloc[t] : a.dev = d THEN Remove(timeline[d], t) ELSE timeline[d]]

(* deactivateTask on a victim, which another thread may have ended first.  *)
CancelVictim(t) ==
    /\ pc = "cancel"
    /\ t \in work.victims \ work.cancelled
    /\ IF state[t] = "live"
       THEN state' = [state EXCEPT ![t] = "over"] /\ Released(t)
       ELSE UNCHANGED <<state, timeline>>
    /\ work' = [work EXCEPT !.cancelled = @ \cup {t}, !.tried = {}]
    /\ pc' = IF work'.cancelled = work.victims THEN "again" ELSE "cancel"
    /\ UNCHANGED <<now, alloc>>

(***************************************************************************)
(* tryRetuneCombined.  The slots of a device are read anew for each step.  *)
(***************************************************************************)
SameCf(d) == Over(d) # <<>> /\ \A i \in DOMAIN Over(d) : Over(d)[i].cf = R.cf

(* Bug: the guard looks at the first overlapping task only.                *)
BugRankOk(d) == Over(d) # <<>> => Req[Over(d)[1].task].rank <= R.rank

RankOk(d) == \A t \in LiveOn(d) : Req[t].rank <= R.rank

(* The same centre frequency: join the channel the request prefers, if the *)
(* slice fits the window as it is.                                         *)
Subscription(d) ==
    LET first == Over(d)[1]
    IN IF R.ch \in BusyRx(Over(d)) /\ R.bw <= first.sr /\ RankOk(d)
       THEN {AsAsked(R, first.cf, first.sr, {R.ch})} ELSE {}

CompareCf(d) ==
    /\ pc = "combine"
    /\ d \notin work.tried
    /\ IF ~Dev[d].shared \/ ~Tunable(d, R)
       THEN Skip(d)
       ELSE IF ~SameCf(d)
            THEN Proceed("widen", [work EXCEPT !.tried = @ \cup {d}, !.device = d])
            ELSE IF Subscription(d) = {} THEN Skip(d) ELSE \E f \in Subscription(d) : Choose({On(d, f)})

CombineNone ==
    /\ pc = "combine"
    /\ work.tried = Devices
    /\ Reject

(* Another centre frequency: a wider window, on the preferred channel if   *)
(* there is one.                                                           *)
Combination(d) ==
    LET fits == CanCombine(timeline[d], Dev[d], R, work.window[1], work.window[2])
    IN IF R.ch >= 0 THEN {[f EXCEPT !.rx = {R.ch}] : f \in {g \in fits : R.ch \in g.rx}} ELSE fits

GiveUp == Proceed("combine", [work EXCEPT !.plan = {}])

Widen ==
    /\ pc = "widen"
    /\ LET fits == Combination(work.device)
       IN IF fits = {} THEN GiveUp
          ELSE \E f \in fits : Proceed("guard", [work EXCEPT !.plan = {On(work.device, f)}])

GuardRank ==
    /\ pc = "guard"
    /\ IF RankOk(work.device) THEN Proceed("retune", work) ELSE GiveUp

Planned == CHOOSE a \in work.plan : TRUE

HwChanged ==
    LET over == Over(work.device)
    IN over # <<>> /\ (Planned.cf # over[1].cf \/ Planned.sr # over[1].sr)

(* The device is tuned: all its slots, and the allocations of the tasks    *)
(* that overlap, get the new window.                                       *)
Retune ==
    /\ pc = "retune"
    /\ LET d == work.device
       IN /\ timeline' = IF HwChanged
                         THEN [timeline EXCEPT ![d] = UpdateDeviceTune(@, Planned.cf, Planned.sr)]
                         ELSE timeline
          /\ alloc' = [t \in Tasks |->
                IF t \in OwnersOf(Over(d))
                THEN {IF b.dev = d THEN [b EXCEPT !.cf = Planned.cf, !.sr = Planned.sr] ELSE b : b \in alloc[t]}
                ELSE alloc[t]]
    /\ pc' = "commit"
    /\ UNCHANGED <<now, state, work>>

TuneFails ==
    /\ pc = "retune"
    /\ HwChanged
    /\ GiveUp

(***************************************************************************)
(* The coherent path: the channels are taken from the group's devices, in  *)
(* any order, each one filled before the next.                             *)
(***************************************************************************)
Shares(n) ==
    {s \in [Group -> 0 .. n] :
        /\ \A d \in Group : s[d] <= Dev[d].rx
        /\ Cardinality({d \in Group : s[d] \in 1 .. Dev[d].rx - 1}) <= 1
        /\ n = FSX!MapThenSumSet(LAMBDA d : s[d], Group)}

Share(d, n) ==
    CanFit(timeline[d], Dev[d], [R EXCEPT !.rx = n, !.ch = -1], work.window[1], work.window[2])

Coherent ==
    /\ pc = "coherent"
    /\ IF Shares(R.rx) = {}
       THEN Reject
       ELSE \E s \in Shares(R.rx) :
               LET used == {d \in Group : s[d] > 0}
               IN IF \E d \in used : Share(d, s[d]) = {}
                  THEN Reject
                  ELSE Choose(UNION {{On(d, f) : f \in Share(d, s[d])} : d \in used})

(* The calibration path checks that the devices of the group can fit, but  *)
(* takes the first channels and the requested slice.                       *)
Calibrate ==
    /\ pc = "calibration"
    /\ IF Group = {} \/ \E d \in Group : Share(d, R.rx) = {}
       THEN Reject
       ELSE Choose({On(d, AsAsked(R, R.cf, R.sr, 0 .. R.rx - 1)) : d \in Group})

(***************************************************************************)
(* The end of every path: the slots are inserted and the task registered,  *)
(* unless there are no ports left.                                         *)
(***************************************************************************)
Slot(a) ==
    [task |-> work.cur, from |-> work.window[1], to |-> work.window[2],
     cf |-> a.cf, sr |-> a.sr, lo |-> a.lo, hi |-> a.hi, rx |-> a.rx]

Commit ==
    /\ pc = "commit"
    /\ timeline' = [d \in Devices |->
          LET here == {a \in work.plan : a.dev = d}
          IN IF here = {} THEN timeline[d] ELSE Insert(timeline[d], Slot(CHOOSE a \in here : TRUE))]
    /\ alloc' = [alloc EXCEPT ![work.cur] = work.plan]
    /\ state' = [state EXCEPT ![work.cur] = "live"]
    /\ pc' = "idle"
    /\ work' = NoWork
    /\ UNCHANGED now

PortsExhausted ==
    /\ pc = "commit"
    /\ Reject

(***************************************************************************)
(* Other threads: deactivateTask in two steps, the terminal state and the  *)
(* release, and the clock.                                                 *)
(***************************************************************************)
End(t) ==
    /\ state[t] = "live"
    /\ state' = [state EXCEPT ![t] = "ended"]
    /\ UNCHANGED <<now, timeline, alloc, pc, work>>

Release(t) ==
    /\ state[t] = "ended"
    /\ state' = [state EXCEPT ![t] = "over"]
    /\ Released(t)
    /\ UNCHANGED <<now, alloc, pc, work>>

Tick ==
    /\ now < Horizon
    /\ now' = now + 1
    /\ UNCHANGED <<taskVars, pc, work>>

Next ==
    \/ \E t \in Tasks : Receive(t) \/ CancelVictim(t) \/ End(t) \/ Release(t)
    \/ \E d \in Devices : FindDevice(d) \/ Preempt(d) \/ CompareCf(d)
    \/ FindNone \/ PreemptNone \/ CombineNone
    \/ Widen \/ GuardRank \/ Retune \/ TuneFails
    \/ Coherent \/ Calibrate
    \/ Commit \/ PortsExhausted
    \/ Tick

Spec == Init /\ [][Next]_vars

(***************************************************************************)
(* Properties.                                                             *)
(***************************************************************************)

Slots ==
    [task : Tasks, from : Int, to : Int, cf : Int, sr : Int, lo : Int, hi : Int, rx : SUBSET Int]

Allocs == [dev : Devices, cf : Int, sr : Int, lo : Int, hi : Int, rx : SUBSET Int]

Locals ==
    [cur : Tasks \cup {NoTask}, window : Int \X Int, plan : SUBSET Allocs, tried : SUBSET Devices,
     victims : SUBSET Tasks, cancelled : SUBSET Tasks, device : Devices \cup {NoDevice}]

(* The state has its shape, and only channels that a device has are given. *)
TypeOK ==
    /\ now \in 0 .. Horizon
    /\ timeline \in [Devices -> Seq(Slots)]
    /\ state \in [Tasks -> {"none", "rejected", "live", "ended", "over"}]
    /\ alloc \in [Tasks -> SUBSET Allocs]
    /\ pc \in {"idle", "find", "preempt", "cancel", "again", "combine", "widen", "guard",
              "retune", "coherent", "calibration", "commit"}
    /\ work \in Locals
    /\ work.cur = NoTask <=> pc = "idle"
    /\ work.cancelled \subseteq work.victims
    /\ \A d \in Devices : \A i \in DOMAIN timeline[d] :
          LET s == timeline[d][i]
          IN s.from < s.to /\ s.lo < s.hi /\ s.rx \subseteq 0 .. Dev[d].rx - 1

(* Devices with independent LOs give a channel to one task at a time: two  *)
(* slots that overlap in time share no RX channel, whichever paths put     *)
(* them there ("for independent-LO devices the channel must be free",      *)
(* SpectrumTimeline.hpp).                                                  *)
ChannelsExclusive ==
    \A d \in Devices : \A i, j \in DOMAIN timeline[d] :
        LET s == timeline[d][i]
            u == timeline[d][j]
        IN ~Dev[d].shared /\ i # j /\ TimeOverlap(s.from, s.to, u.from, u.to) => s.rx \cap u.rx = {}

(* The timelines hold what the registry has given and not yet taken back:  *)
(* one slot for each device of an unreleased task, on its channels and its *)
(* slice, and none for a rejected or a released task, whichever thread     *)
(* released it and however many devices it had.                            *)
SlotsAccounted ==
    \A d \in Devices :
        /\ \A t \in Tasks :
              t \in OwnersOf(timeline[d]) <=> state[t] \in {"live", "ended"} /\ \E a \in alloc[t] : a.dev = d
        /\ \A i \in DOMAIN timeline[d] :
              LET s == timeline[d][i]
              IN \E a \in alloc[s.task] : a.dev = d /\ a.rx = s.rx /\ a.lo = s.lo /\ a.hi = s.hi
        /\ \A i, j \in DOMAIN timeline[d] : timeline[d][i].task = timeline[d][j].task => i = j

(* The left-to-right packing of canFit finds a place exactly if there is   *)
(* one, and the lowest: at no lower position would the padded slice lie in *)
(* the window clear of every padded slice that overlaps it in time.        *)
PackingExact ==
    pc = "find" => \A d \in {e \in Devices : Dev[e].shared} :
        LET over == Over(d)
            lo == R.cf - R.sr \div 2
            hi == R.cf + R.sr \div 2
            w == R.bw + 2 * InnerGuard(over)
            free == {x \in lo .. hi - w : \A i \in DOMAIN over :
                        x >= over[i].hi + Guard \/ x + w <= over[i].lo - Guard}
        IN Packed(over, lo, hi, w) = {x \in free : \A y \in free : x <= y}

(* Preemption is all or nothing on a device: when the AMQP thread looks    *)
(* for a place again, no live task is left in the way on the device that   *)
(* it preempted on, although other threads end tasks meanwhile.            *)
DeviceCleared == pc = "again" => LiveOn(work.device) = {}

(* A window that is about to be tuned, computed from a reading of the      *)
(* slots some steps ago, still covers the slice of the request and of      *)
(* every task it is shared with.                                           *)
WindowCovers ==
    pc \in {"guard", "retune"} =>
        \A s \in {Planned} \cup {Over(work.device)[i] : i \in DOMAIN Over(work.device)} :
            Planned.cf - Planned.sr \div 2 <= s.lo /\ s.hi <= Planned.cf + Planned.sr \div 2

(* The window recorded for a live task is only ever changed by a request   *)
(* of at least its rank.                                                   *)
RankRespected ==
    [][\A t \in Tasks : state[t] = "live" /\ alloc'[t] # alloc[t] => Req[t].rank <= R.rank]_vars

=============================================================================
