-------------------------- MODULE Admission_proofs --------------------------
(***************************************************************************)
(* Proofs of the safety properties of Admission, for any requests, devices *)
(* and guard band.                                                         *)
(***************************************************************************)
EXTENDS Admission, SpectrumTimeline_proofs

(***************************************************************************)
(* The inductive invariant.                                                *)
(***************************************************************************)
Typed ==
  /\ now \in 0 .. Horizon
  /\ timeline \in [Devices -> Seq(Slots)]
  /\ state \in [Tasks -> {"none", "rejected", "live", "ended", "over"}]
  /\ alloc \in [Tasks -> SUBSET Allocs]
  /\ pc \in {"idle", "find", "preempt", "cancel", "again", "combine", "widen", "guard",
            "retune", "coherent", "calibration", "commit"}
  /\ work \in Locals

SoundSlots(slots, d) ==
  \A i \in DOMAIN slots :
     /\ slots[i].from < slots[i].to /\ slots[i].lo < slots[i].hi
     /\ slots[i].rx \subseteq 0 .. Dev[d].rx - 1

SoundInv == \A d \in Devices : SoundSlots(timeline[d], d)

(* The slots in the way of an interval: what SlotsOverlapping selects.     *)
Met(slots, w) ==
  {slots[i] : i \in {j \in DOMAIN slots : TimeOverlap(w[1], w[2], slots[j].from, slots[j].to)}}

InWay(d) == Met(timeline[d], work.window)

(* The request at hand is neither accepted nor rejected yet.               *)
CurrentInv ==
  /\ work.cur = NoTask <=> pc = "idle"
  /\ pc \in {"idle", "find", "preempt"} => work.plan = {} /\ work.cancelled = {}
  /\ pc # "idle" => state[work.cur] = "none" /\ work.window[1] < work.window[2]
  /\ pc = "calibration" => Req[work.cur].path = "calibration"
  /\ work.cancelled \subseteq work.victims

(* What is planned can be inserted.                                        *)
PlanInv ==
  \A a \in work.plan : a.lo < a.hi /\ a.rx \subseteq 0 .. Dev[a.dev].rx - 1

(* A channel planned on independent LOs is free, whatever the path.        *)
ApartInv ==
  \A a \in work.plan : ~Dev[a.dev].shared => \A s \in InWay(a.dev) : a.rx \cap s.rx = {}

(* Only the victims that remain are live in the way, and none in the end.  *)
ClearInv ==
  pc \in {"cancel", "again"} =>
    /\ work.device \in Devices
    /\ \A s \in InWay(work.device) :
          state[s.task] = "live" => pc = "cancel" /\ s.task \in work.victims \ work.cancelled

Covers(a, s) ==
  /\ a.cf - a.sr \div 2 <= s.lo
  /\ Guard > 0 => s.hi <= a.cf + a.sr \div 2

(* A window is planned on one device with a shared LO, and covers what is  *)
(* in the way there.                                                       *)
WideInv ==
  /\ pc \in {"widen", "guard", "retune"} => work.device \in Devices /\ Dev[work.device].shared
  /\ pc \in {"guard", "retune"} =>
       \E a \in work.plan : /\ work.plan = {a} /\ a.dev = work.device
                         /\ Covers(a, a) /\ \A s \in InWay(work.device) : Covers(a, s)

(* Nobody of a higher rank is live in the way of a window about to be      *)
(* tuned.                                                                  *)
RankInv ==
  pc = "retune" => \A s \in InWay(work.device) :
                      state[s.task] = "live" => Req[s.task].rank <= R.rank

(* Calibration takes the first channels of each device without a look at   *)
(* those in use: it is exclusive when it asks for all of them.             *)
CalibratesAll ==
  \A t \in Tasks : \A d \in Group :
     Req[t].path = "calibration" /\ ~Dev[d].shared => Req[t].rx >= Dev[d].rx

WorkInv ==
  /\ CurrentInv /\ PlanInv /\ ClearInv /\ WideInv /\ RankInv
  /\ CalibratesAll => ApartInv

IInv ==
  /\ Typed /\ WorkInv
  /\ SoundInv /\ SlotsAccounted
  /\ CalibratesAll => ChannelsExclusive

(***************************************************************************)
(* Facts of a state.                                                       *)
(***************************************************************************)

(* A request and a device have what the constants' assumption gives them.  *)
LEMMA RequestIs ==
  ASSUME NEW t \in Tasks
  PROVE  /\ Req[t] \in Requests
         /\ Req[t].cf \in Int /\ Req[t].bw \in Int /\ Req[t].sr \in Int /\ Req[t].ch \in Int
         /\ Req[t].rx \in Nat /\ Req[t].rank \in Int
         /\ Req[t].bw >= 2 /\ Req[t].sr > 0 /\ Req[t].rx > 0
BY ConstantsAssumption DEF Requests

(* A device has what the constants' assumption gives it.                   *)
LEMMA DeviceIs ==
  ASSUME NEW d \in Devices
  PROVE  Dev[d].rx \in Nat /\ Dev[d].shared \in BOOLEAN /\ Dev[d].srmin \in Int
BY ConstantsAssumption DEF Configs

(* Met has the elements of SlotsOverlapping.                               *)
LEMMA MetIs ==
  ASSUME NEW slots \in Seq(Slots), NEW w
  PROVE  /\ SlotsOverlapping(slots, w[1], w[2]) \in Seq(Slots)
         /\ \A k \in DOMAIN SlotsOverlapping(slots, w[1], w[2]) :
               SlotsOverlapping(slots, w[1], w[2])[k] \in Met(slots, w)
         /\ \A s \in Met(slots, w) :
               \E k \in DOMAIN SlotsOverlapping(slots, w[1], w[2]) :
                  SlotsOverlapping(slots, w[1], w[2])[k] = s
         /\ Met(slots, w) \subseteq Slots
<1> DEFINE over == SlotsOverlapping(slots, w[1], w[2])
<1>1. /\ over \in Seq(Slots)
      /\ \A k \in DOMAIN over : \E i \in DOMAIN slots :
            over[k] = slots[i] /\ TimeOverlap(w[1], w[2], slots[i].from, slots[i].to)
      /\ \A i \in DOMAIN slots :
            TimeOverlap(w[1], w[2], slots[i].from, slots[i].to)
            => \E k \in DOMAIN over : over[k] = slots[i]
  <2>1. over \in Seq(Slots)
    BY OverlappingIs
  <2>2. \A k \in DOMAIN over : \E i \in DOMAIN slots :
            over[k] = slots[i] /\ TimeOverlap(w[1], w[2], slots[i].from, slots[i].to)
    BY OverlappingIs
  <2>3. \A from, to : \A i \in DOMAIN slots :
            TimeOverlap(from, to, slots[i].from, slots[i].to)
            => \E k \in DOMAIN SlotsOverlapping(slots, from, to) :
                  SlotsOverlapping(slots, from, to)[k] = slots[i]
    BY OverlappingIs
  <2> QED
    BY <2>1, <2>2, <2>3
<1>2. \A s : s \in Met(slots, w) <=>
                \E i \in DOMAIN slots :
                   s = slots[i] /\ TimeOverlap(w[1], w[2], slots[i].from, slots[i].to)
  BY DEF Met
<1>3. Met(slots, w) \subseteq Slots
  BY <1>2
<1> HIDE DEF over
<1>4. /\ \A k \in DOMAIN over : over[k] \in Met(slots, w)
      /\ \A s \in Met(slots, w) : \E k \in DOMAIN over : over[k] = s
  BY <1>1, <1>2
<1> QED
  BY <1>1, <1>3, <1>4 DEF over

(* What the code reads of a device is what is in the way there.            *)
LEMMA OverIs ==
  ASSUME Typed, NEW d \in Devices
  PROVE  /\ Over(d) \in Seq(Slots)
         /\ \A k \in DOMAIN Over(d) : Over(d)[k] \in InWay(d)
         /\ \A s \in InWay(d) : \E k \in DOMAIN Over(d) : Over(d)[k] = s
         /\ InWay(d) \subseteq Slots
<1>1. timeline[d] \in Seq(Slots)
  BY DEF Typed
<1> QED
  BY <1>1, MetIs DEF Over, InWay

(* The owners of the slots in the way, and the live ones of them.          *)
LEMMA OwnersIs ==
  ASSUME Typed, NEW d \in Devices
  PROVE  /\ \A t : t \in OwnersOf(Over(d)) <=> \E s \in InWay(d) : s.task = t
         /\ \A t : t \in LiveOn(d) <=> \E s \in InWay(d) : s.task = t /\ state[t] = "live"
<1>1. \A t : t \in OwnersOf(Over(d)) <=> \E s \in InWay(d) : s.task = t
  BY OverIs DEF OwnersOf
<1> QED
  BY <1>1 DEF LiveOn

(* A channel is busy if a slot in the way has it.                          *)
LEMMA BusyIs ==
  ASSUME Typed, NEW d \in Devices
  PROVE  \A c : c \in BusyRx(Over(d)) <=> \E s \in InWay(d) : c \in s.rx
BY OverIs DEF BusyRx

(* The slots in the way are sound.                                         *)
LEMMA InWaySound ==
  ASSUME Typed, SoundInv, NEW d \in Devices
  PROVE  \A s \in InWay(d) : s.lo < s.hi /\ s.rx \subseteq 0 .. Dev[d].rx - 1
BY DEF InWay, Met, SoundInv, SoundSlots

(***************************************************************************)
(* What is planned.                                                        *)
(***************************************************************************)

(* An allocation that can be inserted where it is planned.                 *)
Good(a) ==
  /\ a \in Allocs
  /\ a.lo < a.hi /\ a.rx \subseteq 0 .. Dev[a.dev].rx - 1
  /\ CalibratesAll => (~Dev[a.dev].shared => \A s \in InWay(a.dev) : a.rx \cap s.rx = {})

(* The slots of a device have numbers for bounds.                          *)
LEMMA TimelineIs ==
  ASSUME Typed, NEW d \in Devices
  PROVE  /\ timeline[d] \in Seq(Slots)
         /\ \A i \in DOMAIN timeline[d] : /\ timeline[d][i] \in Slots
                                          /\ timeline[d][i].lo \in Int /\ timeline[d][i].hi \in Int
<1>1. timeline[d] \in Seq(Slots)
  BY DEF Typed
<1>2. \A i \in DOMAIN timeline[d] : timeline[d][i] \in Slots
  BY <1>1
<1> QED
  BY <1>1, <1>2 DEF Slots

(* A fit of canFit makes a good allocation.                                *)
LEMMA FitGood ==
  ASSUME Typed, NEW d \in Devices, NEW r \in Requests, r.bw >= 2,
         NEW f \in CanFit(timeline[d], Dev[d], r, work.window[1], work.window[2])
  PROVE  /\ Good(On(d, f))
         /\ r.ch < 0 => Enough(Over(d), Dev[d], r)
<1>1. /\ r.cf \in Int /\ r.bw \in Int /\ r.sr \in Int /\ r.rx \in Int /\ r.ch \in Int
  BY DEF Requests
<1>2. Dev[d].rx \in Nat /\ Guard \in Nat
  BY DeviceIs, ConstantsAssumption
<1>3. timeline[d] \in Seq(Slots) /\ \A i \in DOMAIN timeline[d] : /\ timeline[d][i].lo \in Int
                                                                  /\ timeline[d][i].hi \in Int
  BY TimelineIs
<1>4. /\ f = [cf |-> r.cf, sr |-> r.sr, lo |-> f.lo, hi |-> f.hi, rx |-> f.rx]
      /\ f.lo \in Int /\ f.hi \in Int /\ f.lo < f.hi
      /\ f.rx \subseteq 0 .. Dev[d].rx - 1
      /\ ~Dev[d].shared => f.rx \cap BusyRx(Over(d)) = {}
      /\ r.ch < 0 => Enough(Over(d), Dev[d], r)
  BY <1>1, <1>2, <1>3, FitIs DEF Over
<1>5. f.cf \in Int /\ f.sr \in Int /\ f.rx \in SUBSET Int
  <2>1. f.cf = r.cf /\ f.sr = r.sr
    BY <1>4
  <2>2. 0 .. Dev[d].rx - 1 \subseteq Int
    OBVIOUS
  <2> QED
    BY <1>1, <1>4, <2>1, <2>2
<1>6. On(d, f) \in Allocs /\ On(d, f).dev = d /\ On(d, f).lo = f.lo /\ On(d, f).hi = f.hi
      /\ On(d, f).rx = f.rx
  BY <1>4, <1>5 DEF On, Allocs
<1>7. ~Dev[d].shared => \A s \in InWay(d) : f.rx \cap s.rx = {}
  BY <1>4, BusyIs
<1> QED
  BY <1>4, <1>6, <1>7 DEF Good

(* findBestDevice passes its device over, or plans a good allocation.      *)
LEMMA FindDeviceDoes ==
  ASSUME Typed, CurrentInv, NEW d \in Devices, FindDevice(d)
  PROVE  \/ Skip(d)
         \/ \E a : Good(a) /\ Choose({a})
<1>1. work.cur \in Tasks
  BY DEF FindDevice, Typed, Locals, CurrentInv
<1> DEFINE r == [R EXCEPT !.sr = DeviceRate(d, R)]
<1>2. r \in Requests /\ r.bw >= 2
  <2>1. R \in Requests /\ R.sr \in Int /\ R.sr > 0 /\ R.bw >= 2
    BY <1>1, RequestIs DEF R
  <2>2. DeviceRate(d, R) \in Int
    <3>1. Dev[d].srmin \in Int
      BY DeviceIs
    <3>2. (Dev[d].srmin + R.sr - 1) \div R.sr \in Int
      BY <2>1, <3>1
    <3> QED
      BY <2>1, <3>2 DEF DeviceRate
  <2> QED
    BY <2>1, <2>2 DEF Requests
<1>3. CASE Fits(d) = {}
  BY <1>3 DEF FindDevice
<1>4. CASE Fits(d) # {}
  <2>1. PICK f \in Fits(d) : Choose({On(d, f)})
    BY <1>4 DEF FindDevice
  <2>2. f \in CanFit(timeline[d], Dev[d], r, work.window[1], work.window[2])
    BY <2>1 DEF Fits
  <2> HIDE DEF r
  <2>3. Good(On(d, f))
    BY <1>2, <2>2, FitGood
  <2> QED
    BY <2>1, <2>3
<1> QED
  BY <1>3, <1>4

(* The request with other channels, as the coherent path asks for them.    *)
LEMMA ShareGood ==
  ASSUME Typed, work.cur \in Tasks, NEW d \in Devices, NEW n \in Nat, NEW f \in Share(d, n)
  PROVE  Good(On(d, f)) /\ UsedRx(Over(d)) + n <= Dev[d].rx
<1> DEFINE r == [R EXCEPT !.rx = n, !.ch = -1]
<1>1. r \in Requests /\ r.bw >= 2 /\ r.ch < 0 /\ r.rx = n
  <2>1. R \in Requests /\ R.bw >= 2
    BY RequestIs DEF R
  <2>2. -1 \in Int /\ -1 < 0
    OBVIOUS
  <2> QED
    BY <2>1, <2>2 DEF Requests
<1>2. f \in CanFit(timeline[d], Dev[d], r, work.window[1], work.window[2])
  BY DEF Share
<1> HIDE DEF r
<1>3. Good(On(d, f)) /\ Enough(Over(d), Dev[d], r)
  BY <1>1, <1>2, FitGood
<1> QED
  BY <1>1, <1>3 DEF Enough

(* The coherent path rejects, or plans good allocations.                   *)
LEMMA CoherentDoes ==
  ASSUME Typed, CurrentInv, Coherent
  PROVE  Reject \/ \E P : (\A a \in P : Good(a)) /\ Choose(P)
<1>1. work.cur \in Tasks
  BY DEF Coherent, Typed, Locals, CurrentInv
<1>2. CASE Reject
  BY <1>2
<1>3. CASE ~Reject
  <2>1. PICK s \in Shares(R.rx) :
           LET used == {d \in Group : s[d] > 0}
           IN Choose(UNION {{On(d, f) : f \in Share(d, s[d])} : d \in used})
    BY <1>3 DEF Coherent
  <2> DEFINE used == {d \in Group : s[d] > 0}
             P == UNION {{On(d, f) : f \in Share(d, s[d])} : d \in used}
  <2>2. \A d \in used : d \in Devices /\ s[d] \in Nat
    <3>1. s \in [Group -> 0 .. R.rx] /\ Group \subseteq Devices
      BY ConstantsAssumption DEF Shares
    <3>2. \A n \in 0 .. R.rx : n \in Nat
      BY <1>1, RequestIs DEF R
    <3> QED
      BY <3>1, <3>2
  <2>3. \A a \in P : Good(a)
    BY <1>1, <2>2, ShareGood
  <2>4. Choose(P)
    BY <2>1
  <2> HIDE DEF P
  <2> QED
    BY <2>3, <2>4
<1> QED
  BY <1>2, <1>3

(* The calibration path rejects, or plans good allocations: where it asks  *)
(* for all channels of a device with independent LOs none is in use.       *)
LEMMA CalibrateDoes ==
  ASSUME Typed, CurrentInv, SoundInv, Calibrate
  PROVE  Reject \/ \E P : (\A a \in P : Good(a)) /\ Choose(P)
<1>1. work.cur \in Tasks /\ Req[work.cur].path = "calibration"
  BY DEF Calibrate, Typed, Locals, CurrentInv
<1>2. CASE Reject
  BY <1>2
<1>3. CASE ~Reject
  <2> DEFINE f == AsAsked(R, R.cf, R.sr, 0 .. R.rx - 1)
             P == {On(d, f) : d \in Group}
  <2>1. Choose(P) /\ \A d \in Group : Share(d, R.rx) # {}
    BY <1>3 DEF Calibrate
  <2>2. /\ R.cf \in Int /\ R.sr \in Int /\ R.rx \in Nat
        /\ SliceLo(R) \in Int /\ SliceHi(R) \in Int /\ SliceLo(R) < SliceHi(R)
    BY <1>1, RequestIs, SliceIs DEF R
  <2>3. ASSUME NEW d \in Group PROVE Good(On(d, f))
    <3>1. d \in Devices /\ Dev[d].rx \in Nat
      BY ConstantsAssumption, DeviceIs
    <3>2. UsedRx(Over(d)) + R.rx <= Dev[d].rx
      BY <1>1, <2>1, <2>2, <2>3, <3>1, ShareGood
    <3>3. UsedRx(Over(d)) \in Nat /\ (UsedRx(Over(d)) = 0 => BusyRx(Over(d)) = {})
      <4>1. /\ Over(d) \in Seq(Slots)
            /\ \A i \in DOMAIN Over(d) : Over(d)[i].rx \subseteq 0 .. Dev[d].rx - 1
        BY <3>1, OverIs, InWaySound
      <4> QED
        BY <3>1, <4>1, UsedRxIs
    <3>4. 0 .. R.rx - 1 \subseteq 0 .. Dev[d].rx - 1
      BY <2>2, <3>1, <3>2, <3>3
    <3>5. CalibratesAll /\ ~Dev[d].shared => BusyRx(Over(d)) = {}
      <4> SUFFICES ASSUME CalibratesAll, ~Dev[d].shared PROVE UsedRx(Over(d)) = 0
        BY <3>3
      <4>1. R.rx >= Dev[d].rx
        BY <1>1 DEF CalibratesAll, R
      <4> QED
        BY <2>2, <3>1, <3>2, <3>3, <4>1
    <3>6. CalibratesAll /\ ~Dev[d].shared => \A s \in InWay(d) : s.rx = {}
      BY <3>1, <3>5, BusyIs
    <3>7. /\ On(d, f) \in Allocs /\ On(d, f).dev = d /\ On(d, f).rx = 0 .. R.rx - 1
          /\ On(d, f).lo = SliceLo(R) /\ On(d, f).hi = SliceHi(R)
      <4>1. 0 .. R.rx - 1 \in SUBSET Int
        BY <2>2
      <4> QED
        BY <2>2, <3>1, <4>1 DEF On, AsAsked, Allocs
    <3> HIDE DEF f
    <3> QED
      BY <2>2, <3>4, <3>6, <3>7 DEF Good
  <2>4. \A a \in P : Good(a)
    BY <2>3
  <2> HIDE DEF P
  <2> QED
    BY <2>1, <2>4
<1> QED
  BY <1>2, <1>3

(* A shared window is joined on a channel in use, as it is.                *)
LEMMA CompareCfDoes ==
  ASSUME Typed, CurrentInv, SoundInv, NEW d \in Devices, CompareCf(d)
  PROVE  \/ Skip(d)
         \/ /\ Dev[d].shared
            /\ Proceed("widen", [work EXCEPT !.tried = @ \cup {d}, !.device = d])
         \/ \E a : Good(a) /\ Choose({a})
<1>1. work.cur \in Tasks
  BY DEF CompareCf, Typed, Locals, CurrentInv
<1>2. CASE ~Dev[d].shared \/ ~Tunable(d, R)
  BY <1>2 DEF CompareCf
<1>3. CASE Dev[d].shared /\ Tunable(d, R) /\ ~SameCf(d)
  BY <1>3 DEF CompareCf
<1>4. CASE Dev[d].shared /\ Tunable(d, R) /\ SameCf(d) /\ Subscription(d) = {}
  BY <1>4 DEF CompareCf
<1>5. CASE Dev[d].shared /\ Tunable(d, R) /\ SameCf(d) /\ Subscription(d) # {}
  <2>1. PICK f \in Subscription(d) : Choose({On(d, f)})
    BY <1>5 DEF CompareCf
  <2>2. f = AsAsked(R, Over(d)[1].cf, Over(d)[1].sr, {R.ch}) /\ R.ch \in BusyRx(Over(d))
    BY <2>1 DEF Subscription
  <2>3. Over(d) \in Seq(Slots) /\ Over(d) # <<>>
    BY <1>5, OverIs DEF SameCf
  <2>4. Over(d)[1] \in Slots
    BY <2>3
  <2>5. Over(d)[1].cf \in Int /\ Over(d)[1].sr \in Int
    BY <2>4 DEF Slots
  <2>6. R.ch \in Int /\ SliceLo(R) \in Int /\ SliceHi(R) \in Int /\ SliceLo(R) < SliceHi(R)
    BY <1>1, RequestIs, SliceIs DEF R
  <2>7. {R.ch} \subseteq 0 .. Dev[d].rx - 1
    BY <2>2, BusyIs, InWaySound
  <2>8. /\ On(d, f) \in Allocs /\ On(d, f).dev = d /\ On(d, f).rx = {R.ch}
        /\ On(d, f).lo = SliceLo(R) /\ On(d, f).hi = SliceHi(R)
    BY <2>2, <2>5, <2>6 DEF On, AsAsked, Allocs
  <2>9. Good(On(d, f))
    BY <1>5, <2>6, <2>7, <2>8 DEF Good
  <2> QED
    BY <2>1, <2>9
<1> QED
  BY <1>2, <1>3, <1>4, <1>5

(* A window is planned, which covers the request and what is in the way.   *)
LEMMA WidenDoes ==
  ASSUME Typed, CurrentInv, WideInv, SoundInv, Widen
  PROVE  \/ GiveUp
         \/ \E a : /\ Good(a) /\ a.dev = work.device
                   /\ Covers(a, a) /\ \A s \in InWay(work.device) : Covers(a, s)
                   /\ Proceed("guard", [work EXCEPT !.plan = {a}])
<1> DEFINE d == work.device
<1>1. work.cur \in Tasks /\ d \in Devices /\ Dev[d].shared
  BY DEF Widen, Typed, Locals, CurrentInv, WideInv
<1> HIDE DEF d
<1>2. CASE Combination(d) = {}
  BY <1>2 DEF Widen, d
<1>3. CASE Combination(d) # {}
  <2>1. PICK f \in Combination(d) : Proceed("guard", [work EXCEPT !.plan = {On(d, f)}])
    BY <1>3 DEF Widen, d
  <2>2. PICK g \in CanCombine(timeline[d], Dev[d], R, work.window[1], work.window[2]) :
           f = g \/ (R.ch \in g.rx /\ f = [g EXCEPT !.rx = {R.ch}])
    BY <2>1 DEF Combination
  <2>3. /\ timeline[d] \in Seq(Slots)
        /\ \A i \in DOMAIN timeline[d] : /\ timeline[d][i].lo \in Int
                                         /\ timeline[d][i].hi \in Int
    BY <1>1, TimelineIs
  <2>4. /\ Guard \in Nat /\ R.cf \in Int /\ R.bw \in Int /\ R.bw >= 2
        /\ SliceLo(R) \in Int /\ SliceHi(R) \in Int /\ SliceLo(R) < SliceHi(R)
    BY <1>1, RequestIs, SliceIs, ConstantsAssumption DEF R
  <2>5. /\ g = [cf |-> g.cf, sr |-> g.sr, lo |-> SliceLo(R), hi |-> SliceHi(R), rx |-> g.rx]
        /\ g.cf \in Int /\ g.sr \in Int
        /\ g.rx \subseteq BusyRx(Over(d))
        /\ g.cf - g.sr \div 2 <= SliceLo(R)
        /\ Guard > 0 => SliceHi(R) <= g.cf + g.sr \div 2
        /\ \A i \in DOMAIN Over(d) :
              /\ g.cf - g.sr \div 2 <= Over(d)[i].lo
              /\ Guard > 0 => Over(d)[i].hi <= g.cf + g.sr \div 2
    BY <2>3, <2>4, CombineIs DEF Over
  <2> DEFINE a == On(d, f)
  <2>6. /\ f.cf = g.cf /\ f.sr = g.sr /\ f.lo = SliceLo(R) /\ f.hi = SliceHi(R)
        /\ f.rx \subseteq g.rx
    BY <2>2, <2>5
  <2>7. /\ a.dev = d /\ a.cf = g.cf /\ a.sr = g.sr /\ a.lo = SliceLo(R) /\ a.hi = SliceHi(R)
        /\ a.rx = f.rx
    BY <2>6 DEF On
  <2>8. f.rx \subseteq 0 .. Dev[d].rx - 1
    BY <1>1, <2>5, <2>6, BusyIs, InWaySound
  <2>9. a \in Allocs
    <3>1. f.rx \in SUBSET Int
      BY <2>8
    <3> QED
      BY <1>1, <2>4, <2>5, <2>6, <3>1 DEF On, Allocs
  <2>10. Covers(a, a)
    BY <2>5, <2>7 DEF Covers
  <2>11. \A s \in InWay(d) : Covers(a, s)
    <3>1. \A s \in InWay(d) : \E i \in DOMAIN Over(d) : Over(d)[i] = s
      BY <1>1, OverIs
    <3> HIDE DEF a
    <3> QED
      BY <2>5, <2>7, <3>1 DEF Covers
  <2> HIDE DEF a
  <2>12. Good(a)
    BY <1>1, <2>4, <2>7, <2>8, <2>9 DEF Good
  <2> QED
    BY <2>1, <2>7, <2>10, <2>11, <2>12 DEF a, d
<1> QED
  BY <1>2, <1>3

(***************************************************************************)
(* The types.                                                              *)
(***************************************************************************)

(* An interval has numbers for bounds, whatever the schedule mode.         *)
LEMMA IntervalIs ==
  ASSUME Typed, NEW t \in Tasks
  PROVE  Interval(Req[t]) \in Int \X Int
<1>1. Req[t].from \in Int /\ Req[t].to \in Int
      /\ Req[t].mode \in {"SCHEDULED", "IMMEDIATE", "CONTINUOUS"}
  BY RequestIs DEF Requests
<1>2. now \in Int /\ Forever \in Int
  BY ConstantsAssumption DEF Typed, Forever
<1>3. CASE Req[t].mode = "SCHEDULED"
  BY <1>1, <1>3 DEF Interval
<1>4. CASE Req[t].mode = "IMMEDIATE"
  BY <1>1, <1>2, <1>4 DEF Interval
<1>5. CASE Req[t].mode = "CONTINUOUS"
  BY <1>2, <1>5 DEF Interval
<1> QED
  BY <1>1, <1>3, <1>4, <1>5

Labels == {"idle", "find", "preempt", "cancel", "again", "combine", "widen", "guard",
           "retune", "coherent", "calibration", "commit"}

(* A step of the AMQP thread alone keeps the types, if its locals do.      *)
LEMMA ProceedTyped ==
  ASSUME Typed, NEW label \in Labels, NEW w \in Locals, Proceed(label, w)
  PROVE  Typed'
BY DEF Typed, Labels, Proceed, taskVars

(* The steps that keep the tables keep the types.                          *)
LEMMA SkipTyped ==
  ASSUME Typed, NEW d \in Devices, Skip(d)
  PROVE  Typed'
<1>1. [work EXCEPT !.tried = @ \cup {d}] \in Locals /\ pc \in Labels
  BY DEF Typed, Locals, Labels
<1> QED
  BY <1>1, ProceedTyped DEF Skip

(* So does the choice of a plan.                                           *)
LEMMA ChooseTyped ==
  ASSUME Typed, NEW P, \A a \in P : Good(a), Choose(P)
  PROVE  Typed'
<1>1. [work EXCEPT !.plan = P] \in Locals
  BY DEF Typed, Locals, Good
<1>2. "commit" \in Labels
  BY DEF Labels
<1> QED
  BY <1>1, <1>2, ProceedTyped DEF Choose

(* So does giving up the plan.                                             *)
LEMMA GiveUpTyped ==
  ASSUME Typed, GiveUp
  PROVE  Typed'
<1>1. [work EXCEPT !.plan = {}] \in Locals
  BY DEF Typed, Locals
<1>2. "combine" \in Labels
  BY DEF Labels
<1> QED
  BY <1>1, <1>2, ProceedTyped DEF GiveUp

(* Between two requests the locals have their types.                       *)
LEMMA NoWorkTyped ==
  NoWork \in Locals
<1>1. <<0, 0>> \in Int \X Int
  OBVIOUS
<1> QED
  BY <1>1 DEF NoWork, Locals

(* So does a rejection.                                                    *)
LEMMA RejectTyped ==
  ASSUME Typed, Reject
  PROVE  Typed'
BY NoWorkTyped DEF Typed, Reject

(* The slots that are left, or retuned, are slots.                         *)
LEMMA ReleasedTyped ==
  ASSUME Typed, NEW t, Released(t)
  PROVE  timeline' \in [Devices -> Seq(Slots)]
<1>1. \A d \in Devices : timeline[d] \in Seq(Slots) /\ Remove(timeline[d], t) \in Seq(Slots)
  BY TimelineIs, RemoveIs
<1> QED
  BY <1>1 DEF Released

(* The window about to be tuned is an allocation.                          *)
LEMMA PlannedIs ==
  ASSUME Typed, WideInv, pc \in {"guard", "retune"}
  PROVE  /\ Planned \in Allocs /\ work.plan = {Planned} /\ Planned.dev = work.device
         /\ Planned.cf \in Int /\ Planned.sr \in Int
         /\ Covers(Planned, Planned) /\ \A s \in InWay(work.device) : Covers(Planned, s)
         /\ work.device \in Devices /\ Dev[work.device].shared
<1>1. PICK a \in work.plan : /\ work.plan = {a} /\ a.dev = work.device
                             /\ Covers(a, a) /\ \A s \in InWay(work.device) : Covers(a, s)
  BY DEF WideInv
<1>2. Planned = a
  BY <1>1 DEF Planned
<1>3. a \in Allocs
  BY DEF Typed, Locals
<1>4. a.cf \in Int /\ a.sr \in Int
  BY <1>3 DEF Allocs
<1> QED
  BY <1>1, <1>2, <1>3, <1>4 DEF WideInv

(* Two slots that differ in their centre frequency and their rate only.    *)
Alike(s, u) ==
  /\ u.task = s.task /\ u.from = s.from /\ u.to = s.to
  /\ u.lo = s.lo /\ u.hi = s.hi /\ u.rx = s.rx

(* A tuned slot is a slot, with another window only.                       *)
LEMMA TunedSlot ==
  ASSUME NEW s \in Slots, NEW cf \in Int, NEW sr \in Int
  PROVE  /\ [s EXCEPT !.cf = cf, !.sr = sr] \in Slots
         /\ Alike(s, [s EXCEPT !.cf = cf, !.sr = sr])
BY DEF Slots, Alike

(* updateDeviceTune keeps the slots, in their order.                       *)
LEMMA TunedSlots ==
  ASSUME NEW slots \in Seq(Slots), NEW cf \in Int, NEW sr \in Int
  PROVE  /\ UpdateDeviceTune(slots, cf, sr) \in Seq(Slots)
         /\ DOMAIN UpdateDeviceTune(slots, cf, sr) = DOMAIN slots
         /\ \A i \in DOMAIN slots : Alike(slots[i], UpdateDeviceTune(slots, cf, sr)[i])
<1> DEFINE us == UpdateDeviceTune(slots, cf, sr)
           Tuned(i) == [slots[i] EXCEPT !.cf = cf, !.sr = sr]
<1>1. us = [i \in DOMAIN slots |-> Tuned(i)]
  BY DEF UpdateDeviceTune
<1>2. \A i \in DOMAIN slots : Tuned(i) \in Slots /\ Alike(slots[i], Tuned(i))
  <2>1. \A i \in DOMAIN slots : slots[i] \in Slots
    OBVIOUS
  <2> QED
    BY <2>1, TunedSlot
<1>3. DOMAIN slots = 1 .. Len(slots) /\ Len(slots) \in Nat
  OBVIOUS
<1> HIDE DEF us, Tuned
<1>4. us \in [1 .. Len(slots) -> Slots]
  BY <1>1, <1>2, <1>3
<1>5. us \in Seq(Slots)
  BY <1>3, <1>4
<1>6. DOMAIN us = DOMAIN slots /\ \A i \in DOMAIN slots : Alike(slots[i], us[i])
  BY <1>1, <1>2
<1> QED
  BY <1>5, <1>6 DEF us

(* What Commit does to each timeline.                                      *)
LEMMA CommitDoes ==
  ASSUME Typed, Commit, NEW d \in Devices
  PROVE  \/ (\A a \in work.plan : a.dev # d) /\ timeline'[d] = timeline[d]
         \/ \E a \in work.plan : a.dev = d /\ timeline'[d] = Append(timeline[d], Slot(a))
<1> DEFINE here == {a \in work.plan : a.dev = d}
           first == CHOOSE a \in here : TRUE
<1>1. timeline'[d] = IF here = {} THEN timeline[d] ELSE Append(timeline[d], Slot(first))
  BY DEF Commit, Insert
<1>2. CASE here = {}
  BY <1>1, <1>2
<1>3. CASE here # {}
  <2>1. first \in here
    BY <1>3
  <2> HIDE DEF first
  <2> QED
    BY <1>1, <1>3, <2>1
<1> QED
  BY <1>2, <1>3

(* A planned allocation makes a slot.                                      *)
LEMMA SlotIs ==
  ASSUME Typed, CurrentInv, pc # "idle", NEW a \in work.plan
  PROVE  /\ Slot(a) \in Slots /\ a \in Allocs
         /\ Slot(a).task = work.cur /\ Slot(a).rx = a.rx
         /\ Slot(a).lo = a.lo /\ Slot(a).hi = a.hi
         /\ Slot(a).from = work.window[1] /\ Slot(a).to = work.window[2]
<1>1. /\ work.cur \in Tasks /\ work.window[1] \in Int /\ work.window[2] \in Int
      /\ a \in Allocs
  BY DEF Typed, Locals, CurrentInv
<1> QED
  BY <1>1 DEF Slot, Slots, Allocs

(* What Retune does to each timeline.                                      *)
LEMMA RetuneDoes ==
  ASSUME Typed, WideInv, Retune, NEW d \in Devices
  PROVE  /\ timeline'[d] \in Seq(Slots)
         /\ DOMAIN timeline'[d] = DOMAIN timeline[d]
         /\ \A i \in DOMAIN timeline[d] : Alike(timeline[d][i], timeline'[d][i])
<1>1. Planned.cf \in Int /\ Planned.sr \in Int
  BY PlannedIs DEF Retune
<1>2. timeline[d] \in Seq(Slots)
  BY TimelineIs
<1>3. CASE timeline'[d] = timeline[d]
  BY <1>2, <1>3 DEF Alike
<1>4. CASE timeline'[d] # timeline[d]
  <2>1. timeline'[d] = UpdateDeviceTune(timeline[d], Planned.cf, Planned.sr)
    BY <1>4 DEF Retune, Typed
  <2> QED
    BY <1>1, <1>2, <2>1, TunedSlots
<1> QED
  BY <1>3, <1>4

(* An allocation that is retuned keeps its device, its slice and channels. *)
LEMMA RetunedAlloc ==
  ASSUME Typed, WideInv, Retune, NEW t \in Tasks
  PROVE  /\ alloc'[t] \in SUBSET Allocs
         /\ \A a \in alloc[t] : \E b \in alloc'[t] : /\ b.dev = a.dev /\ b.rx = a.rx
                                                     /\ b.lo = a.lo /\ b.hi = a.hi
         /\ \A b \in alloc'[t] : \E a \in alloc[t] : b.dev = a.dev
<1> DEFINE d == work.device
           Tuned(b) == IF b.dev = d THEN [b EXCEPT !.cf = Planned.cf, !.sr = Planned.sr] ELSE b
<1>1. Planned.cf \in Int /\ Planned.sr \in Int
  BY PlannedIs DEF Retune
<1>2. alloc[t] \in SUBSET Allocs
  BY DEF Typed
<1>3. \A b \in alloc[t] : /\ Tuned(b) \in Allocs /\ Tuned(b).dev = b.dev
                          /\ Tuned(b).rx = b.rx /\ Tuned(b).lo = b.lo /\ Tuned(b).hi = b.hi
  <2> SUFFICES ASSUME NEW b \in Allocs
               PROVE  /\ Tuned(b) \in Allocs /\ Tuned(b).dev = b.dev
                      /\ Tuned(b).rx = b.rx /\ Tuned(b).lo = b.lo /\ Tuned(b).hi = b.hi
    BY <1>2
  <2> QED
    BY <1>1 DEF Allocs
<1>4. alloc'[t] = {Tuned(b) : b \in alloc[t]} \/ alloc'[t] = alloc[t]
  BY DEF Retune
<1> HIDE DEF Tuned
<1> QED
  BY <1>2, <1>3, <1>4

(* Every step keeps the types.                                             *)
LEMMA TypedStep ==
  ASSUME Typed, CurrentInv, WideInv, SoundInv, [Next]_vars
  PROVE  Typed'
<1>1. CASE UNCHANGED vars
  BY <1>1 DEF Typed, vars, taskVars
<1>2. ASSUME NEW t \in Tasks, Receive(t) PROVE Typed'
  <2> DEFINE i == Interval(Req[t])
             w == [work EXCEPT !.cur = t, !.window = i]
  <2>1. CASE Proceed(Req[t].path, w)
    <3>1. w \in Locals
      BY IntervalIs DEF Typed, Locals
    <3>2. Req[t].path \in Labels
      BY RequestIs DEF Requests, Labels
    <3> HIDE DEF w
    <3> QED
      BY <2>1, <3>1, <3>2, ProceedTyped
  <2>2. CASE /\ state' = [state EXCEPT ![t] = "rejected"]
             /\ UNCHANGED <<now, timeline, alloc, pc, work>>
    BY <2>2 DEF Typed
  <2> QED
    BY <1>2, <2>1, <2>2 DEF Receive
<1>3. ASSUME NEW t \in Tasks, CancelVictim(t) PROVE Typed'
  <2>1. timeline' \in [Devices -> Seq(Slots)]
    BY <1>3, ReleasedTyped DEF CancelVictim, Typed
  <2>2. work' = [work EXCEPT !.cancelled = @ \cup {t}, !.tried = {}]
    BY <1>3 DEF CancelVictim
  <2>3. work' \in Locals
    BY <2>2 DEF Typed, Locals
  <2>4. state' \in [Tasks -> {"none", "rejected", "live", "ended", "over"}]
    BY <1>3 DEF CancelVictim, Typed
  <2>5. pc' \in {"again", "cancel"} /\ now' = now /\ alloc' = alloc
    BY <1>3 DEF CancelVictim
  <2> QED
    BY <2>1, <2>3, <2>4, <2>5 DEF Typed
<1>4. ASSUME NEW t \in Tasks, End(t) PROVE Typed'
  BY <1>4 DEF Typed, End
<1>5. ASSUME NEW t \in Tasks, Release(t) PROVE Typed'
  <2>1. timeline' \in [Devices -> Seq(Slots)]
    BY <1>5, ReleasedTyped DEF Release
  <2> QED
    BY <1>5, <2>1 DEF Typed, Release
<1>6. ASSUME NEW d \in Devices, FindDevice(d) PROVE Typed'
  <2>1. CASE Skip(d)
    BY <2>1, SkipTyped
  <2>2. ASSUME NEW a, Good(a), Choose({a}) PROVE Typed'
    <3>1. \A b \in {a} : Good(b)
      BY <2>2
    <3> QED
      BY <2>2, <3>1, ChooseTyped
  <2> QED
    BY <1>6, <2>1, <2>2, FindDeviceDoes
<1>7. ASSUME NEW d \in Devices, Preempt(d) PROVE Typed'
  <2> DEFINE w == [work EXCEPT !.victims = {t \in LiveOn(d) : Req[t].rank < R.rank}, !.device = d]
  <2>1. CASE Skip(d)
    BY <2>1, SkipTyped
  <2>2. CASE Proceed("cancel", w)
    <3>1. LiveOn(d) \subseteq Tasks
      <4>1. \A s \in InWay(d) : s.task \in Tasks
        BY OverIs DEF Slots
      <4> QED
        BY <4>1, OwnersIs
    <3>2. w \in Locals
      BY <3>1 DEF Typed, Locals
    <3>3. "cancel" \in Labels
      BY DEF Labels
    <3> HIDE DEF w
    <3> QED
      BY <2>2, <3>2, <3>3, ProceedTyped
  <2> QED
    BY <1>7, <2>1, <2>2 DEF Preempt
<1>8. ASSUME NEW d \in Devices, CompareCf(d) PROVE Typed'
  <2> DEFINE w == [work EXCEPT !.tried = @ \cup {d}, !.device = d]
  <2>1. CASE Skip(d)
    BY <2>1, SkipTyped
  <2>2. CASE Proceed("widen", w)
    <3>1. w \in Locals
      BY DEF Typed, Locals
    <3>2. "widen" \in Labels
      BY DEF Labels
    <3> HIDE DEF w
    <3> QED
      BY <2>2, <3>1, <3>2, ProceedTyped
  <2>3. ASSUME NEW a, Good(a), Choose({a}) PROVE Typed'
    <3>1. \A b \in {a} : Good(b)
      BY <2>3
    <3> QED
      BY <2>3, <3>1, ChooseTyped
  <2> QED
    BY <1>8, <2>1, <2>2, <2>3, CompareCfDoes
<1>9. CASE FindNone \/ PreemptNone
  <2> DEFINE w == [work EXCEPT !.tried = {}]
  <2>1. w \in Locals
    BY DEF Typed, Locals
  <2>2. Proceed("preempt", w) \/ Proceed("combine", w)
    BY <1>9 DEF FindNone, PreemptNone
  <2>3. "preempt" \in Labels /\ "combine" \in Labels
    BY DEF Labels
  <2> HIDE DEF w
  <2> QED
    BY <2>1, <2>2, <2>3, ProceedTyped
<1>10. CASE CombineNone \/ PortsExhausted
  BY <1>10, RejectTyped DEF CombineNone, PortsExhausted
<1>11. CASE Widen
  <2>1. CASE GiveUp
    BY <2>1, GiveUpTyped
  <2>2. ASSUME NEW a, Good(a), Proceed("guard", [work EXCEPT !.plan = {a}]) PROVE Typed'
    <3> DEFINE w == [work EXCEPT !.plan = {a}]
    <3>1. w \in Locals
      BY <2>2 DEF Typed, Locals, Good
    <3>2. "guard" \in Labels
      BY DEF Labels
    <3> HIDE DEF w
    <3>3. Proceed("guard", w)
      BY <2>2 DEF w
    <3> QED
      BY <3>1, <3>2, <3>3, ProceedTyped
  <2> QED
    BY <1>11, <2>1, <2>2, WidenDoes
<1>12. CASE GuardRank \/ TuneFails
  <2>1. CASE GiveUp
    BY <2>1, GiveUpTyped
  <2>2. CASE Proceed("retune", work)
    <3>1. work \in Locals /\ "retune" \in Labels
      BY DEF Typed, Labels
    <3> QED
      BY <2>2, <3>1, ProceedTyped
  <2> QED
    BY <1>12, <2>1, <2>2 DEF GuardRank, TuneFails
<1>13. CASE Retune
  <2>1. timeline' \in [Devices -> Seq(Slots)]
    <3>1. \A d \in Devices : timeline'[d] \in Seq(Slots)
      BY <1>13, RetuneDoes
    <3>2. timeline' = [d \in Devices |-> timeline'[d]]
      BY <1>13 DEF Retune, Typed
    <3> QED
      BY <3>1, <3>2
  <2>2. alloc' \in [Tasks -> SUBSET Allocs]
    <3>1. \A t \in Tasks : alloc'[t] \in SUBSET Allocs
      BY <1>13, RetunedAlloc
    <3>2. alloc' = [t \in Tasks |-> alloc'[t]]
      BY <1>13 DEF Retune
    <3> QED
      BY <3>1, <3>2
  <2> QED
    BY <1>13, <2>1, <2>2 DEF Retune, Typed
<1>14. CASE Coherent \/ Calibrate
  BY <1>14, CoherentDoes, CalibrateDoes, RejectTyped, ChooseTyped
<1>15. CASE Commit
  <2>1. timeline' \in [Devices -> Seq(Slots)]
    <3>1. ASSUME NEW d \in Devices PROVE timeline'[d] \in Seq(Slots)
      <4>1. timeline[d] \in Seq(Slots) /\ pc # "idle"
        BY <1>15, TimelineIs DEF Commit
      <4>2. \A a \in work.plan : Append(timeline[d], Slot(a)) \in Seq(Slots)
        BY <4>1, SlotIs
      <4> QED
        BY <1>15, <4>1, <4>2, CommitDoes
    <3>2. timeline' = [d \in Devices |-> timeline'[d]]
      BY <1>15 DEF Commit
    <3> QED
      BY <3>1, <3>2
  <2>2. alloc' \in [Tasks -> SUBSET Allocs]
    BY <1>15 DEF Commit, Typed, Locals
  <2>3. state' \in [Tasks -> {"none", "rejected", "live", "ended", "over"}]
    BY <1>15 DEF Commit, Typed
  <2> QED
    BY <1>15, <2>1, <2>2, <2>3, NoWorkTyped DEF Commit, Typed
<1>16. CASE Tick
  BY <1>16, ConstantsAssumption DEF Tick, Typed, taskVars
<1> QED
  BY <1>1, <1>2, <1>3, <1>4, <1>5, <1>6, <1>7, <1>8, <1>9, <1>10, <1>11, <1>12, <1>13, <1>14,
     <1>15, <1>16 DEF Next

(***************************************************************************)
(* What a step does to the timelines and the registry.                     *)
(***************************************************************************)
Quiet == UNCHANGED taskVars

Rejects(t) ==
  /\ state[t] = "none" /\ state' = [state EXCEPT ![t] = "rejected"]
  /\ UNCHANGED <<timeline, alloc>>

Ends(t) ==
  /\ state[t] = "live" /\ state' = [state EXCEPT ![t] = "ended"]
  /\ UNCHANGED <<timeline, alloc>>

Frees(t) ==
  /\ state[t] \in {"live", "ended"} /\ state' = [state EXCEPT ![t] = "over"]
  /\ Released(t) /\ UNCHANGED alloc

(* What a rejection does to the registry.                                  *)
LEMMA RejectKind ==
  ASSUME Typed, CurrentInv, pc # "idle", Reject
  PROVE  \E t \in Tasks : Rejects(t)
<1>1. work.cur \in Tasks /\ state[work.cur] = "none"
  BY DEF Typed, Locals, CurrentInv
<1> QED
  BY <1>1 DEF Reject, Rejects

(* Every step is of one of these kinds.                                    *)
LEMMA StepKinds ==
  ASSUME Typed, CurrentInv, [Next]_vars
  PROVE  \/ Quiet
         \/ \E t \in Tasks : Rejects(t) \/ Ends(t) \/ Frees(t)
         \/ Retune
         \/ Commit
<1>1. CASE UNCHANGED vars
  BY <1>1 DEF Quiet, vars
<1>2. ASSUME NEW t \in Tasks, Receive(t) PROVE Quiet \/ Rejects(t)
  BY <1>2 DEF Receive, Proceed, Quiet, Rejects
<1>3. ASSUME NEW t \in Tasks, CancelVictim(t) PROVE Quiet \/ Frees(t)
  BY <1>3 DEF CancelVictim, Quiet, Frees, taskVars
<1>4. ASSUME NEW t \in Tasks, End(t) \/ Release(t) PROVE Ends(t) \/ Frees(t)
  BY <1>4 DEF End, Release, Ends, Frees
<1>5. ASSUME NEW d \in Devices, FindDevice(d) \/ Preempt(d) \/ CompareCf(d) PROVE Quiet
  BY <1>5 DEF FindDevice, Preempt, CompareCf, Skip, Choose, Proceed, Quiet
<1>6. CASE FindNone \/ PreemptNone \/ Widen \/ GuardRank \/ TuneFails \/ Tick
  BY <1>6 DEF FindNone, PreemptNone, Widen, GuardRank, TuneFails, Tick, GiveUp, Proceed, Quiet
<1>7. CASE CombineNone \/ PortsExhausted
  BY <1>7, RejectKind DEF CombineNone, PortsExhausted
<1>8. CASE Coherent
  <2>1. Reject \/ \E P : Choose(P)
    BY <1>8, CoherentDoes
  <2>2. pc # "idle"
    BY <1>8 DEF Coherent
  <2> QED
    BY <2>1, <2>2, RejectKind DEF Choose, Proceed, Quiet
<1>9. CASE Calibrate
  <2>1. Reject \/ \E P : Choose(P)
    BY <1>9 DEF Calibrate
  <2>2. pc # "idle"
    BY <1>9 DEF Calibrate
  <2> QED
    BY <2>1, <2>2, RejectKind DEF Choose, Proceed, Quiet
<1> QED
  BY <1>1, <1>2, <1>3, <1>4, <1>5, <1>6, <1>7, <1>8, <1>9 DEF Next

(* A release takes the slots of its task, and leaves the others.           *)
LEMMA ReleasedIs ==
  ASSUME Typed, NEW t, Released(t), NEW d \in Devices
  PROVE  /\ \A k \in DOMAIN timeline'[d] : \E i \in DOMAIN timeline[d] :
               /\ timeline'[d][k] = timeline[d][i]
               /\ (\E a \in alloc[t] : a.dev = d) => timeline[d][i].task # t
         /\ \A i \in DOMAIN timeline[d] :
               timeline[d][i].task # t
               => \E k \in DOMAIN timeline'[d] : timeline'[d][k] = timeline[d][i]
         /\ \A k, l \in DOMAIN timeline'[d] :
               k # l => \E i, j \in DOMAIN timeline[d] :
                           /\ i # j
                           /\ timeline'[d][k] = timeline[d][i]
                           /\ timeline'[d][l] = timeline[d][j]
<1>1. timeline[d] \in Seq(Slots)
  BY TimelineIs
<1>2. CASE \E a \in alloc[t] : a.dev = d
  <2>1. \A slots \in Seq(Slots) :
           /\ \A k \in DOMAIN Remove(slots, t) : \E i \in DOMAIN slots :
                 Remove(slots, t)[k] = slots[i] /\ slots[i].task # t
           /\ \A i \in DOMAIN slots :
                 slots[i].task # t
                 => \E k \in DOMAIN Remove(slots, t) : Remove(slots, t)[k] = slots[i]
           /\ \A k, l \in DOMAIN Remove(slots, t) :
                 k # l => \E i, j \in DOMAIN slots : /\ i # j
                                                     /\ Remove(slots, t)[k] = slots[i]
                                                     /\ Remove(slots, t)[l] = slots[j]
    BY RemoveIs
  <2>2. timeline'[d] = Remove(timeline[d], t)
    BY <1>2 DEF Released
  <2> DEFINE slots == timeline[d]
             left == timeline'[d]
  <2>3. slots \in Seq(Slots) /\ left = Remove(slots, t)
    BY <1>1, <2>2
  <2> HIDE DEF slots, left
  <2>4. /\ \A k \in DOMAIN left : \E i \in DOMAIN slots : left[k] = slots[i] /\ slots[i].task # t
        /\ \A i \in DOMAIN slots : slots[i].task # t => \E k \in DOMAIN left : left[k] = slots[i]
        /\ \A k, l \in DOMAIN left :
              k # l => \E i, j \in DOMAIN slots : i # j /\ left[k] = slots[i] /\ left[l] = slots[j]
    BY <2>1, <2>3
  <2> QED
    BY <2>4 DEF slots, left
<1>3. CASE ~\E a \in alloc[t] : a.dev = d
  <2>1. timeline'[d] = timeline[d]
    BY <1>3 DEF Released
  <2> QED
    BY <1>3, <2>1
<1> QED
  BY <1>2, <1>3

(* A slot is appended behind the others.                                   *)
LEMMA AppendIs ==
  ASSUME NEW slots \in Seq(Slots), NEW s \in Slots
  PROVE  /\ DOMAIN Append(slots, s) = DOMAIN slots \cup {Len(slots) + 1}
         /\ Len(slots) + 1 \notin DOMAIN slots
         /\ \A i \in DOMAIN slots : Append(slots, s)[i] = slots[i]
         /\ Append(slots, s)[Len(slots) + 1] = s
OBVIOUS

(***************************************************************************)
(* The slots.                                                              *)
(***************************************************************************)
LEMMA SoundStep ==
  ASSUME Typed, CurrentInv, PlanInv, WideInv, SoundInv, [Next]_vars
  PROVE  SoundInv'
<1> SUFFICES ASSUME NEW d \in Devices PROVE SoundSlots(timeline'[d], d)
  BY DEF SoundInv
<1>1. SoundSlots(timeline[d], d)
  BY DEF SoundInv
<1>2. CASE timeline'[d] = timeline[d]
  BY <1>1, <1>2
<1>3. ASSUME NEW t \in Tasks, Frees(t) PROVE SoundSlots(timeline'[d], d)
  <2>1. \A k \in DOMAIN timeline'[d] : \E i \in DOMAIN timeline[d] :
           timeline'[d][k] = timeline[d][i]
    BY <1>3, ReleasedIs DEF Frees
  <2> QED
    BY <1>1, <2>1 DEF SoundSlots
<1>4. CASE Retune
  <2>1. /\ DOMAIN timeline'[d] = DOMAIN timeline[d]
        /\ \A i \in DOMAIN timeline[d] : Alike(timeline[d][i], timeline'[d][i])
    BY <1>4, RetuneDoes
  <2> QED
    BY <1>1, <2>1 DEF SoundSlots, Alike
<1>5. CASE Commit /\ timeline'[d] # timeline[d]
  <2>1. PICK a \in work.plan : a.dev = d /\ timeline'[d] = Append(timeline[d], Slot(a))
    BY <1>5, CommitDoes
  <2>2. /\ Slot(a) \in Slots /\ Slot(a).lo = a.lo /\ Slot(a).hi = a.hi /\ Slot(a).rx = a.rx
        /\ Slot(a).from = work.window[1] /\ Slot(a).to = work.window[2]
    BY <1>5, SlotIs DEF Commit
  <2>3. work.window[1] < work.window[2]
    BY <1>5 DEF Commit, CurrentInv
  <2>4. a.lo < a.hi /\ a.rx \subseteq 0 .. Dev[d].rx - 1
    BY <2>1 DEF PlanInv
  <2>5. timeline[d] \in Seq(Slots)
    BY TimelineIs
  <2> DEFINE u == Slot(a)
  <2> HIDE DEF u
  <2>6. /\ u \in Slots /\ u.lo < u.hi /\ u.from < u.to /\ u.rx \subseteq 0 .. Dev[d].rx - 1
    BY <2>2, <2>3, <2>4 DEF u
  <2>7. /\ DOMAIN timeline'[d] = DOMAIN timeline[d] \cup {Len(timeline[d]) + 1}
        /\ \A i \in DOMAIN timeline[d] : timeline'[d][i] = timeline[d][i]
        /\ timeline'[d][Len(timeline[d]) + 1] = u
    BY <2>1, <2>5, <2>6, AppendIs DEF u
  <2> QED
    BY <1>1, <2>6, <2>7 DEF SoundSlots
<1> QED
  BY <1>2, <1>3, <1>4, <1>5, StepKinds DEF Quiet, taskVars, Rejects, Ends

(***************************************************************************)
(* The slots and the registry.                                             *)
(***************************************************************************)
Owns(slots, t) == \E i \in DOMAIN slots : slots[i].task = t

Owned(d) ==
  \A t \in Tasks :
     Owns(timeline[d], t) <=> state[t] \in {"live", "ended"} /\ \E a \in alloc[t] : a.dev = d

Given(d) ==
  \A i \in DOMAIN timeline[d] :
     \E a \in alloc[timeline[d][i].task] :
        /\ a.dev = d /\ a.rx = timeline[d][i].rx
        /\ a.lo = timeline[d][i].lo /\ a.hi = timeline[d][i].hi

Single(d) ==
  \A i, j \in DOMAIN timeline[d] : timeline[d][i].task = timeline[d][j].task => i = j

(* SlotsAccounted by device and by part.                                   *)
LEMMA AccountedIs ==
  SlotsAccounted <=> \A d \in Devices : Owned(d) /\ Given(d) /\ Single(d)
<1>1. \A slots, t : t \in OwnersOf(slots) <=> Owns(slots, t)
  BY DEF OwnersOf, Owns
<1> QED
  BY <1>1 DEF SlotsAccounted, Owned, Given, Single

(* The same in the next state.                                             *)
LEMMA AccountedIsNext ==
  (SlotsAccounted <=> \A d \in Devices : Owned(d) /\ Given(d) /\ Single(d))'
<1>1. \A slots, t : t \in OwnersOf(slots) <=> Owns(slots, t)
  BY DEF OwnersOf, Owns
<1> QED
  BY <1>1 DEF SlotsAccounted, Owned, Given, Single

(* The slots of a device belong to tasks.                                  *)
LEMMA TaskIs ==
  ASSUME Typed, NEW d \in Devices, NEW i \in DOMAIN timeline[d]
  PROVE  timeline[d][i].task \in Tasks
BY TimelineIs DEF Slots

(* A release takes the slots of one task from all of its devices.          *)
LEMMA AccountedFrees ==
  ASSUME Typed, SlotsAccounted, NEW u \in Tasks, Frees(u)
  PROVE  SlotsAccounted'
<1> SUFFICES ASSUME NEW d \in Devices PROVE Owned(d)' /\ Given(d)' /\ Single(d)'
  BY AccountedIsNext
<1>1. Owned(d) /\ Given(d) /\ Single(d)
  BY AccountedIs
<1>2. alloc' = alloc /\ state' = [state EXCEPT ![u] = "over"] /\ state[u] \in {"live", "ended"}
  BY DEF Frees
<1> DEFINE left == timeline'[d]
           slots == timeline[d]
<1>3. /\ \A k \in DOMAIN left : \E i \in DOMAIN slots :
            left[k] = slots[i] /\ ((\E a \in alloc[u] : a.dev = d) => slots[i].task # u)
      /\ \A i \in DOMAIN slots : slots[i].task # u => \E k \in DOMAIN left : left[k] = slots[i]
      /\ \A k, l \in DOMAIN left :
            k # l => \E i, j \in DOMAIN slots : i # j /\ left[k] = slots[i] /\ left[l] = slots[j]
  BY ReleasedIs DEF Frees
<1> HIDE DEF left
<1>4. ~Owns(left, u)
  <2>1. Owns(slots, u) => \E a \in alloc[u] : a.dev = d
    BY <1>1 DEF Owned
  <2> HIDE DEF slots
  <2> QED
    BY <1>3, <2>1 DEF Owns
<1>5. Owned(d)'
  <2>1. \A t \in Tasks : t # u => (Owns(left, t) <=> Owns(slots, t))
    <3> HIDE DEF slots
    <3> QED
      BY <1>3 DEF Owns
  <2>2. \A t \in Tasks : state'[t] = IF t = u THEN "over" ELSE state[t]
    BY <1>2 DEF Typed
  <2>3. \A t \in Tasks : Owns(left, t) <=> state'[t] \in {"live", "ended"}
                                            /\ \E a \in alloc[t] : a.dev = d
    BY <1>1, <1>4, <2>1, <2>2 DEF Owned
  <2> QED
    BY <1>2, <2>3 DEF Owned, left, Owns
<1>6. Given(d)'
  BY <1>1, <1>2, <1>3 DEF Given, left
<1>7. Single(d)'
  <2>1. \A i, j \in DOMAIN slots : slots[i].task = slots[j].task => i = j
    BY <1>1 DEF Single
  <2> HIDE DEF slots
  <2>2. \A k, l \in DOMAIN left : left[k].task = left[l].task => k = l
    BY <1>3, <2>1
  <2> QED
    BY <2>2 DEF Single, left
<1> QED
  BY <1>5, <1>6, <1>7

(* A new window changes neither owner, channels nor slice, in the slots or *)
(* in the registry.                                                        *)
LEMMA AccountedRetune ==
  ASSUME Typed, WideInv, SlotsAccounted, Retune
  PROVE  SlotsAccounted'
<1> SUFFICES ASSUME NEW d \in Devices PROVE Owned(d)' /\ Given(d)' /\ Single(d)'
  BY AccountedIsNext
<1>1. Owned(d) /\ Given(d) /\ Single(d)
  BY AccountedIs
<1> DEFINE us == timeline'[d]
           slots == timeline[d]
<1>2. DOMAIN us = DOMAIN slots /\ \A i \in DOMAIN slots : Alike(slots[i], us[i])
  BY RetuneDoes
<1>3. \A t \in Tasks :
         /\ \A a \in alloc[t] : \E b \in alloc'[t] : /\ b.dev = a.dev /\ b.rx = a.rx
                                                     /\ b.lo = a.lo /\ b.hi = a.hi
         /\ \A b \in alloc'[t] : \E a \in alloc[t] : b.dev = a.dev
  BY RetunedAlloc
<1>4. state' = state
  BY DEF Retune
<1> HIDE DEF us
<1>5. Owned(d)'
  <2>1. \A t \in Tasks : Owns(us, t) <=> Owns(slots, t)
    BY <1>2 DEF Owns, Alike
  <2>2. \A t \in Tasks : (\E b \in alloc'[t] : b.dev = d) <=> \E a \in alloc[t] : a.dev = d
    BY <1>3
  <2> QED
    BY <1>1, <1>4, <2>1, <2>2 DEF Owned, us
<1>6. Given(d)'
  <2> SUFFICES ASSUME NEW i \in DOMAIN us
               PROVE  \E b \in alloc'[us[i].task] : /\ b.dev = d /\ b.rx = us[i].rx
                                                    /\ b.lo = us[i].lo /\ b.hi = us[i].hi
    BY DEF Given, us
  <2>1. i \in DOMAIN slots /\ slots[i].task \in Tasks /\ Alike(slots[i], us[i])
    BY <1>2, TaskIs
  <2>2. PICK a \in alloc[slots[i].task] : /\ a.dev = d /\ a.rx = slots[i].rx
                                          /\ a.lo = slots[i].lo /\ a.hi = slots[i].hi
    BY <1>1, <2>1 DEF Given
  <2> HIDE DEF slots
  <2> QED
    BY <1>3, <2>1, <2>2 DEF Alike
<1>7. Single(d)'
  <2>1. \A i, j \in DOMAIN us : us[i].task = us[j].task => i = j
    BY <1>1, <1>2 DEF Single, Alike
  <2> QED
    BY <2>1 DEF Single, us
<1> QED
  BY <1>5, <1>6, <1>7

(* An accepted task gets a slot on each device of its allocations.         *)
LEMMA AccountedCommit ==
  ASSUME Typed, CurrentInv, SlotsAccounted, Commit
  PROVE  SlotsAccounted'
<1> SUFFICES ASSUME NEW d \in Devices PROVE Owned(d)' /\ Given(d)' /\ Single(d)'
  BY AccountedIsNext
<1>1. Owned(d) /\ Given(d) /\ Single(d)
  BY AccountedIs
<1> DEFINE c == work.cur
           us == timeline'[d]
           slots == timeline[d]
<1>2. c \in Tasks /\ state[c] = "none" /\ pc # "idle"
  BY DEF Commit, Typed, Locals, CurrentInv
<1>3. \A t \in Tasks : /\ alloc'[t] = IF t = c THEN work.plan ELSE alloc[t]
                       /\ state'[t] = IF t = c THEN "live" ELSE state[t]
  BY DEF Commit, Typed
<1>4. \A i \in DOMAIN slots : slots[i].task \in Tasks /\ slots[i].task # c
  BY <1>1, <1>2, TaskIs DEF Owned, Owns
<1>5. CASE us = slots /\ \A a \in work.plan : a.dev # d
  <2>1. Owned(d)'
    <3>1. \A t \in Tasks : Owns(slots, t) <=> state'[t] \in {"live", "ended"}
                                               /\ \E a \in alloc'[t] : a.dev = d
      BY <1>1, <1>2, <1>3, <1>5 DEF Owned
    <3> QED
      BY <1>5, <3>1 DEF Owned
  <2>2. Given(d)'
    BY <1>1, <1>3, <1>4, <1>5 DEF Given
  <2>3. Single(d)'
    BY <1>1, <1>5 DEF Single
  <2> QED
    BY <2>1, <2>2, <2>3
<1>6. ASSUME NEW a \in work.plan, a.dev = d, us = Append(slots, Slot(a))
      PROVE  Owned(d)' /\ Given(d)' /\ Single(d)'
  <2> DEFINE u == Slot(a)
             n == Len(slots) + 1
  <2>1. /\ u \in Slots /\ u.task = c /\ u.rx = a.rx /\ u.lo = a.lo /\ u.hi = a.hi
    BY <1>2, SlotIs
  <2>2. slots \in Seq(Slots)
    BY TimelineIs
  <2> HIDE DEF u
  <2>3. /\ DOMAIN us = DOMAIN slots \cup {n} /\ n \notin DOMAIN slots
        /\ \A i \in DOMAIN slots : us[i] = slots[i]
        /\ us[n] = u
    BY <1>6, <2>1, <2>2, AppendIs DEF u
  <2> HIDE DEF n, us
  <2>4. Owned(d)'
    <3>1. Owns(us, c) /\ \A t \in Tasks : t # c => (Owns(us, t) <=> Owns(slots, t))
      BY <2>1, <2>3 DEF Owns
    <3>2. \A t \in Tasks : Owns(us, t) <=> state'[t] \in {"live", "ended"}
                                            /\ \E b \in alloc'[t] : b.dev = d
      BY <1>1, <1>2, <1>3, <1>6, <3>1 DEF Owned
    <3> QED
      BY <3>2 DEF Owned, us
  <2>5. Given(d)'
    <3>1. ASSUME NEW i \in DOMAIN us
          PROVE  \E b \in alloc'[us[i].task] : /\ b.dev = d /\ b.rx = us[i].rx
                                               /\ b.lo = us[i].lo /\ b.hi = us[i].hi
      <4>1. CASE i = n
        BY <1>2, <1>3, <1>6, <2>1, <2>3, <4>1
      <4>2. CASE i \in DOMAIN slots
        BY <1>1, <1>3, <1>4, <2>3, <4>2 DEF Given
      <4> QED
        BY <2>3, <4>1, <4>2
    <3> QED
      BY <3>1 DEF Given, us
  <2>6. Single(d)'
    <3>1. \A i, j \in DOMAIN us : us[i].task = us[j].task => i = j
      BY <1>1, <1>4, <2>1, <2>3 DEF Single
    <3> QED
      BY <3>1 DEF Single, us
  <2> QED
    BY <2>4, <2>5, <2>6
<1> QED
  BY <1>5, <1>6, CommitDoes

(* Every step keeps the slots and the registry in agreement.               *)
LEMMA AccountedStep ==
  ASSUME Typed, CurrentInv, WideInv, SlotsAccounted, [Next]_vars
  PROVE  SlotsAccounted'
<1>1. CASE Quiet
  BY <1>1 DEF Quiet, taskVars, SlotsAccounted, OwnersOf
<1>2. ASSUME NEW u \in Tasks, Rejects(u) \/ Ends(u) PROVE SlotsAccounted'
  <2> SUFFICES ASSUME NEW d \in Devices PROVE Owned(d)' /\ Given(d)' /\ Single(d)'
    BY AccountedIsNext
  <2>1. Owned(d) /\ Given(d) /\ Single(d)
    BY AccountedIs
  <2>2. timeline' = timeline /\ alloc' = alloc
    BY <1>2 DEF Rejects, Ends
  <2>3. \A t \in Tasks : state'[t] \in {"live", "ended"} <=> state[t] \in {"live", "ended"}
    BY <1>2 DEF Rejects, Ends, Typed
  <2>4. Owned(d)'
    BY <2>1, <2>2, <2>3 DEF Owned, Owns
  <2>5. Given(d)' /\ Single(d)'
    BY <2>1, <2>2 DEF Given, Single
  <2> QED
    BY <2>4, <2>5
<1>3. ASSUME NEW u \in Tasks, Frees(u) PROVE SlotsAccounted'
  BY <1>3, AccountedFrees
<1>4. CASE Retune
  BY <1>4, AccountedRetune
<1>5. CASE Commit
  BY <1>5, AccountedCommit
<1> QED
  BY <1>1, <1>2, <1>3, <1>4, <1>5, StepKinds

(***************************************************************************)
(* The channels of independent LOs.                                        *)
(***************************************************************************)
Exclusive(slots) ==
  \A i, j \in DOMAIN slots :
     i # j /\ TimeOverlap(slots[i].from, slots[i].to, slots[j].from, slots[j].to)
     => slots[i].rx \cap slots[j].rx = {}

(* ChannelsExclusive by device.                                            *)
LEMMA ExclusiveIs ==
  ChannelsExclusive <=> \A d \in Devices : ~Dev[d].shared => Exclusive(timeline[d])
BY DEF ChannelsExclusive, Exclusive

(* The same in the next state.                                             *)
LEMMA ExclusiveIsNext ==
  ChannelsExclusive' <=> \A d \in Devices : ~Dev[d].shared => Exclusive(timeline'[d])
BY DEF ChannelsExclusive, Exclusive

(* Every step keeps the channels of independent LOs exclusive: the one     *)
(* slot that is inserted has the channels that ApartInv says are free.     *)
LEMMA ExclusiveStep ==
  ASSUME Typed, CurrentInv, WideInv, ApartInv, ChannelsExclusive, [Next]_vars
  PROVE  ChannelsExclusive'
<1> SUFFICES ASSUME NEW d \in Devices, ~Dev[d].shared PROVE Exclusive(timeline'[d])
  BY ExclusiveIsNext
<1> DEFINE slots == timeline[d]
           us == timeline'[d]
<1>1. Exclusive(slots)
  BY ExclusiveIs
<1>2. CASE us = slots
  BY <1>1, <1>2
<1>3. ASSUME NEW t \in Tasks, Frees(t) PROVE Exclusive(us)
  <2>1. \A k, l \in DOMAIN us :
           k # l => \E i, j \in DOMAIN slots : i # j /\ us[k] = slots[i] /\ us[l] = slots[j]
    BY <1>3, ReleasedIs DEF Frees
  <2> HIDE DEF slots, us
  <2> QED
    BY <1>1, <2>1 DEF Exclusive
<1>4. CASE Retune
  <2>1. DOMAIN us = DOMAIN slots /\ \A i \in DOMAIN slots : Alike(slots[i], us[i])
    BY <1>4, RetuneDoes
  <2> HIDE DEF slots, us
  <2>2. Exclusive(us)
    BY <1>1, <2>1 DEF Exclusive, Alike
  <2> QED
    BY <2>2 DEF us
<1>5. CASE Commit /\ us # slots
  <2>1. PICK a \in work.plan : a.dev = d /\ us = Append(slots, Slot(a))
    BY <1>5, CommitDoes
  <2> DEFINE u == Slot(a)
             n == Len(slots) + 1
  <2>2. /\ u \in Slots /\ u.rx = a.rx
        /\ u.from = work.window[1] /\ u.to = work.window[2]
    BY <1>5, SlotIs DEF Commit
  <2>3. slots \in Seq(Slots)
    BY TimelineIs
  <2>4. \A i \in DOMAIN slots :
           TimeOverlap(work.window[1], work.window[2], slots[i].from, slots[i].to)
           => a.rx \cap slots[i].rx = {}
    BY <2>1 DEF ApartInv, InWay, Met
  <2> HIDE DEF u
  <2>5. /\ DOMAIN us = DOMAIN slots \cup {n} /\ n \notin DOMAIN slots
        /\ \A i \in DOMAIN slots : us[i] = slots[i]
        /\ us[n] = u
    BY <2>1, <2>2, <2>3, AppendIs DEF u
  <2> HIDE DEF n, us, slots
  <2>6. \A i \in DOMAIN slots :
           /\ TimeOverlap(u.from, u.to, slots[i].from, slots[i].to)
              <=> TimeOverlap(slots[i].from, slots[i].to, u.from, u.to)
           /\ TimeOverlap(u.from, u.to, slots[i].from, slots[i].to) => u.rx \cap slots[i].rx = {}
    BY <2>2, <2>4 DEF TimeOverlap
  <2>7. Exclusive(us)
    BY <1>1, <2>5, <2>6 DEF Exclusive
  <2> QED
    BY <2>7 DEF us
<1> QED
  BY <1>2, <1>3, <1>4, <1>5, StepKinds DEF Quiet, taskVars, Rejects, Ends

(***************************************************************************)
(* The locals of the AMQP thread.                                          *)
(***************************************************************************)

(* Without a commit, what is in the way of the request can only be         *)
(* retuned or leave.                                                       *)
LEMMA InWayShrinks ==
  ASSUME Typed, CurrentInv, WideInv, [Next]_vars, ~Commit, work'.window = work.window,
         NEW d \in Devices
  PROVE  \A u \in InWay(d)' : \E s \in InWay(d) : Alike(s, u)
<1>1. \A k \in DOMAIN timeline'[d] : \E i \in DOMAIN timeline[d] :
         Alike(timeline[d][i], timeline'[d][k])
  <2>1. CASE timeline'[d] = timeline[d]
    BY <2>1 DEF Alike
  <2>2. ASSUME NEW t \in Tasks, Frees(t)
        PROVE  \A k \in DOMAIN timeline'[d] : \E i \in DOMAIN timeline[d] :
                  timeline'[d][k] = timeline[d][i]
    BY <2>2, ReleasedIs DEF Frees
  <2>3. CASE Retune
    BY <2>3, RetuneDoes
  <2> QED
    BY <2>1, <2>2, <2>3, StepKinds DEF Quiet, taskVars, Rejects, Ends, Alike
<1>2. \A u \in InWay(d)' : \E s \in InWay(d) : Alike(s, u)
  <2> SUFFICES ASSUME NEW k \in DOMAIN timeline'[d],
                      TimeOverlap(work.window[1], work.window[2],
                                  timeline'[d][k].from, timeline'[d][k].to)
               PROVE  \E s \in InWay(d) : Alike(s, timeline'[d][k])
    BY DEF InWay, Met
  <2>1. PICK i \in DOMAIN timeline[d] : Alike(timeline[d][i], timeline'[d][k])
    BY <1>1
  <2>2. TimeOverlap(work.window[1], work.window[2], timeline[d][i].from, timeline[d][i].to)
    BY <2>1 DEF Alike
  <2> QED
    BY <2>1, <2>2 DEF InWay, Met
<1> QED
  BY <1>2

(* Without a commit, no task becomes live.                                 *)
LEMMA NoneRevives ==
  ASSUME Typed, CurrentInv, [Next]_vars, ~Commit, NEW t \in Tasks, state'[t] = "live"
  PROVE  state[t] = "live"
BY StepKinds DEF Typed, Quiet, taskVars, Rejects, Ends, Frees, Retune

(* Between two requests there is nothing to keep.                          *)
LEMMA IdleWork ==
  ASSUME pc' = "idle", work' = NoWork
  PROVE  WorkInv'
BY DEF WorkInv, CurrentInv, PlanInv, ApartInv, ClearInv, WideInv, RankInv, NoWork

(* The other threads, and a request that is rejected on arrival, leave the *)
(* locals alone; what is in the way of the request shrinks.                *)
LEMMA BackgroundWork ==
  ASSUME Typed, WorkInv, [Next]_vars, ~Commit, work' = work, pc' = pc,
         pc # "idle" => state'[work.cur] = state[work.cur]
  PROVE  WorkInv'
<1>1. /\ \A d \in Devices : \A u \in InWay(d)' : \E s \in InWay(d) : Alike(s, u)
      /\ \A t \in Tasks : state'[t] = "live" => state[t] = "live"
  BY InWayShrinks, NoneRevives DEF WorkInv
<1>2. \A d \in Devices : \A s \in InWay(d) : s.task \in Tasks
  BY OverIs DEF Slots
<1>3. \A a \in work.plan : a.dev \in Devices
  BY DEF Typed, Locals, Allocs
<1>4. CurrentInv' /\ PlanInv'
  BY DEF WorkInv, CurrentInv, PlanInv
<1>5. CalibratesAll => ApartInv'
  BY <1>1, <1>3 DEF WorkInv, ApartInv, Alike
<1>6. ClearInv'
  <2> SUFFICES ASSUME pc \in {"cancel", "again"}
               PROVE  /\ work.device \in Devices
                      /\ \A u \in InWay(work.device)' :
                            state'[u.task] = "live"
                            => pc = "cancel" /\ u.task \in work.victims \ work.cancelled
    BY DEF ClearInv
  <2>1. /\ work.device \in Devices
        /\ \A s \in InWay(work.device) :
              state[s.task] = "live"
              => pc = "cancel" /\ s.task \in work.victims \ work.cancelled
    BY DEF WorkInv, ClearInv
  <2> QED
    BY <1>1, <1>2, <2>1 DEF Alike
<1>7. WideInv'
  <2>1. pc \in {"widen", "guard", "retune"} => work.device \in Devices /\ Dev[work.device].shared
    BY DEF WorkInv, WideInv
  <2>2. ASSUME pc \in {"guard", "retune"}
        PROVE  \E a \in work.plan : /\ work.plan = {a} /\ a.dev = work.device
                                    /\ Covers(a, a)
                                    /\ \A u \in InWay(work.device)' : Covers(a, u)
    <3>1. PICK a \in work.plan : /\ work.plan = {a} /\ a.dev = work.device
                                 /\ Covers(a, a) /\ \A s \in InWay(work.device) : Covers(a, s)
      BY <2>2 DEF WorkInv, WideInv
    <3>2. \A u \in InWay(work.device)' : Covers(a, u)
      BY <1>1, <2>1, <2>2, <3>1 DEF Covers, Alike
    <3> QED
      BY <3>1, <3>2
  <2> QED
    BY <2>1, <2>2 DEF WideInv, Covers
<1>8. RankInv'
  <2> SUFFICES ASSUME pc = "retune", NEW u \in InWay(work.device)', state'[u.task] = "live"
               PROVE  Req[u.task].rank <= R.rank
    BY DEF RankInv, R
  <2>1. work.device \in Devices
    BY DEF WorkInv, WideInv
  <2>2. PICK s \in InWay(work.device) : Alike(s, u)
    BY <1>1, <2>1
  <2>3. state[s.task] = "live" /\ s.task = u.task
    BY <1>1, <1>2, <2>1, <2>2 DEF Alike
  <2> QED
    BY <2>3 DEF WorkInv, RankInv
<1> QED
  BY <1>4, <1>5, <1>6, <1>7, <1>8 DEF WorkInv

(* Passing a device over changes only which devices are left.              *)
LEMMA SkipWork ==
  ASSUME Typed, WorkInv, NEW d \in Devices, Skip(d)
  PROVE  WorkInv'
<1>1. /\ work' = [work EXCEPT !.tried = @ \cup {d}]
      /\ pc' = pc /\ timeline' = timeline /\ state' = state
  BY DEF Skip, Proceed, taskVars
<1>2. /\ work'.cur = work.cur /\ work'.window = work.window /\ work'.plan = work.plan
      /\ work'.victims = work.victims /\ work'.cancelled = work.cancelled
      /\ work'.device = work.device
  BY <1>1 DEF Typed, Locals
<1>3. \A e : InWay(e)' = InWay(e)
  BY <1>1, <1>2 DEF InWay
<1>4. CurrentInv' /\ PlanInv' /\ (CalibratesAll => ApartInv')
  BY <1>1, <1>2, <1>3 DEF WorkInv, CurrentInv, PlanInv, ApartInv
<1>5. ClearInv' /\ RankInv'
  BY <1>1, <1>2, <1>3 DEF WorkInv, ClearInv, RankInv, R
<1>6. WideInv'
  BY <1>1, <1>2, <1>3 DEF WorkInv, WideInv, Covers
<1> QED
  BY <1>4, <1>5, <1>6 DEF WorkInv

(* A good plan is ready to be inserted.                                    *)
LEMMA ChooseWork ==
  ASSUME Typed, WorkInv, pc # "idle", NEW P, \A a \in P : Good(a), Choose(P)
  PROVE  WorkInv'
<1>1. /\ work' = [work EXCEPT !.plan = P]
      /\ pc' = "commit" /\ timeline' = timeline /\ state' = state
  BY DEF Choose, Proceed, taskVars
<1>2. /\ work'.cur = work.cur /\ work'.window = work.window /\ work'.plan = P
      /\ work'.victims = work.victims /\ work'.cancelled = work.cancelled
      /\ work'.device = work.device
  BY <1>1 DEF Typed, Locals
<1>3. \A e : InWay(e)' = InWay(e)
  BY <1>1, <1>2 DEF InWay
<1>4. CurrentInv' /\ PlanInv'
  BY <1>1, <1>2 DEF WorkInv, CurrentInv, PlanInv, Good
<1>5. CalibratesAll => ApartInv'
  BY <1>2, <1>3 DEF ApartInv, Good
<1>6. ClearInv' /\ RankInv' /\ WideInv'
  BY <1>1 DEF ClearInv, RankInv, WideInv
<1> QED
  BY <1>4, <1>5, <1>6 DEF WorkInv

(* A window that is given up leaves nothing planned.                       *)
LEMMA GiveUpWork ==
  ASSUME Typed, WorkInv, pc # "idle", GiveUp
  PROVE  WorkInv'
<1>1. /\ work' = [work EXCEPT !.plan = {}]
      /\ pc' = "combine" /\ timeline' = timeline /\ state' = state
  BY DEF GiveUp, Proceed, taskVars
<1>2. /\ work'.cur = work.cur /\ work'.window = work.window /\ work'.plan = {}
      /\ work'.victims = work.victims /\ work'.cancelled = work.cancelled
  BY <1>1 DEF Typed, Locals
<1>3. CurrentInv' /\ PlanInv' /\ ApartInv'
  BY <1>1, <1>2 DEF WorkInv, CurrentInv, PlanInv, ApartInv
<1>4. ClearInv' /\ RankInv' /\ WideInv'
  BY <1>1 DEF ClearInv, RankInv, WideInv
<1> QED
  BY <1>3, <1>4 DEF WorkInv

(* A request is taken up with nothing planned and nobody cancelled.        *)
LEMMA ReceiveWork ==
  ASSUME Typed, WorkInv, NEW t \in Tasks, Receive(t), pc' # "idle"
  PROVE  WorkInv'
<1> DEFINE i == Interval(Req[t])
<1>1. /\ pc = "idle" /\ state[t] = "none" /\ i[1] < i[2]
      /\ pc' = Req[t].path /\ work' = [work EXCEPT !.cur = t, !.window = i]
      /\ state' = state
  <2>1. i[1] \in Int /\ i[2] \in Int
    BY IntervalIs
  <2> HIDE DEF i
  <2>2. ~(i[1] >= i[2]) => i[1] < i[2]
    BY <2>1
  <2> QED
    BY <2>2 DEF Receive, Proceed, taskVars, i
<1>2. pc' \in {"find", "coherent", "calibration"}
  BY <1>1, RequestIs DEF Requests
<1>3. /\ work'.cur = t /\ work'.window = i /\ work'.plan = {}
      /\ work'.cancelled = {} /\ work'.victims = work.victims
  BY <1>1 DEF Typed, Locals, WorkInv, CurrentInv
<1> HIDE DEF i
<1>4. CurrentInv' /\ PlanInv' /\ ApartInv'
  BY <1>1, <1>2, <1>3, ConstantsAssumption DEF CurrentInv, PlanInv, ApartInv
<1>5. ClearInv' /\ WideInv' /\ RankInv'
  BY <1>2 DEF ClearInv, WideInv, RankInv
<1> QED
  BY <1>4, <1>5 DEF WorkInv

(* One loop over the devices ends and the next begins.                     *)
LEMMA RestartWork ==
  ASSUME Typed, WorkInv, FindNone \/ PreemptNone
  PROVE  WorkInv'
<1>1. /\ pc \in {"find", "again", "preempt"}
      /\ pc' = "combine" \/ (pc = "find" /\ pc' = "preempt")
      /\ work' = [work EXCEPT !.tried = {}] /\ timeline' = timeline /\ state' = state
  BY DEF FindNone, PreemptNone, Proceed, taskVars
<1>2. /\ work'.cur = work.cur /\ work'.window = work.window /\ work'.plan = work.plan
      /\ work'.victims = work.victims /\ work'.cancelled = work.cancelled
  BY <1>1 DEF Typed, Locals
<1>3. \A e : InWay(e)' = InWay(e)
  BY <1>1, <1>2 DEF InWay
<1>4. CurrentInv' /\ PlanInv' /\ (CalibratesAll => ApartInv')
  BY <1>1, <1>2, <1>3 DEF WorkInv, CurrentInv, PlanInv, ApartInv
<1>5. ClearInv' /\ WideInv' /\ RankInv'
  BY <1>1 DEF ClearInv, WideInv, RankInv
<1> QED
  BY <1>4, <1>5 DEF WorkInv

(* The victims are all the live tasks in the way on the device.            *)
LEMMA PreemptWork ==
  ASSUME Typed, WorkInv, NEW d \in Devices, Preempt(d)
  PROVE  WorkInv'
<1> DEFINE V == {t \in LiveOn(d) : Req[t].rank < R.rank}
<1>1. CASE Skip(d)
  BY <1>1, SkipWork
<1>2. CASE ~Skip(d)
  <2>1. /\ pc = "preempt" /\ pc' = "cancel" /\ timeline' = timeline /\ state' = state
        /\ work' = [work EXCEPT !.victims = V, !.device = d]
        /\ \A t \in LiveOn(d) : Req[t].rank < R.rank
    BY <1>2 DEF Preempt, Preemptable, Proceed, taskVars
  <2>2. V = LiveOn(d)
    BY <2>1
  <2> HIDE DEF V
  <2>3. /\ work'.cur = work.cur /\ work'.window = work.window /\ work'.plan = work.plan
        /\ work'.victims = V /\ work'.cancelled = {} /\ work'.device = d
    BY <2>1 DEF Typed, Locals, WorkInv, CurrentInv
  <2>4. \A e : InWay(e)' = InWay(e)
    BY <2>1, <2>3 DEF InWay
  <2>5. CurrentInv' /\ PlanInv' /\ (CalibratesAll => ApartInv')
    BY <2>1, <2>3, <2>4 DEF WorkInv, CurrentInv, PlanInv, ApartInv
  <2>6. ClearInv'
    <3>1. \A s \in InWay(d) : state[s.task] = "live" => s.task \in V
      BY <2>2, OwnersIs
    <3> QED
      BY <2>1, <2>3, <2>4, <3>1 DEF ClearInv
  <2>7. WideInv' /\ RankInv'
    BY <2>1 DEF WideInv, RankInv
  <2> QED
    BY <2>5, <2>6, <2>7 DEF WorkInv
<1> QED
  BY <1>1, <1>2

(* A victim that the thread is through with is not live, whoever ended it. *)
LEMMA CancelWork ==
  ASSUME Typed, WorkInv, NEW t \in Tasks, CancelVictim(t)
  PROVE  WorkInv'
<1>1. /\ pc = "cancel" /\ pc' \in {"again", "cancel"}
      /\ work' = [work EXCEPT !.cancelled = @ \cup {t}, !.tried = {}]
      /\ pc' = "again" => work'.cancelled = work.victims
      /\ t \in work.victims \ work.cancelled
      /\ state' = IF state[t] = "live" THEN [state EXCEPT ![t] = "over"] ELSE state
  BY DEF CancelVictim
<1>2. /\ work'.cur = work.cur /\ work'.window = work.window /\ work'.plan = work.plan
      /\ work'.victims = work.victims /\ work'.cancelled = work.cancelled \cup {t}
      /\ work'.device = work.device
  BY <1>1 DEF Typed, Locals
<1>3. \A d \in Devices : \A u \in InWay(d)' : \E s \in InWay(d) : Alike(s, u)
  <2>1. [Next]_vars /\ ~Commit
    BY <1>1 DEF Next, Commit
  <2> QED
    BY <1>2, <2>1, InWayShrinks DEF WorkInv
<1>4. /\ state'[t] # "live" /\ state'[work.cur] = state[work.cur]
      /\ \A u \in Tasks : state'[u] = "live" => state[u] = "live"
  <2>1. state[work.cur] = "none"
    BY <1>1 DEF WorkInv, CurrentInv
  <2> QED
    BY <1>1, <2>1 DEF Typed
<1>5. CurrentInv' /\ PlanInv'
  BY <1>1, <1>2, <1>4 DEF WorkInv, CurrentInv, PlanInv
<1>6. CalibratesAll => ApartInv'
  <2>1. \A a \in work.plan : a.dev \in Devices
    BY DEF Typed, Locals, Allocs
  <2> QED
    BY <1>2, <1>3, <2>1 DEF WorkInv, ApartInv, Alike
<1>7. ClearInv'
  <2>1. /\ work.device \in Devices
        /\ \A s \in InWay(work.device) :
              /\ s.task \in Tasks
              /\ state[s.task] = "live" => s.task \in work.victims \ work.cancelled
    BY <1>1, OverIs DEF WorkInv, ClearInv, Slots
  <2>2. \A u \in InWay(work.device)' :
           state'[u.task] = "live" => u.task \in work.victims \ work'.cancelled
    BY <1>2, <1>3, <1>4, <2>1 DEF Alike
  <2> QED
    BY <1>1, <1>2, <2>1, <2>2 DEF ClearInv
<1>8. WideInv' /\ RankInv'
  BY <1>1 DEF WideInv, RankInv
<1> QED
  BY <1>5, <1>6, <1>7, <1>8 DEF WorkInv

(* A device with a shared LO is to be widened.                             *)
LEMMA WidenWork ==
  ASSUME Typed, WorkInv, pc = "combine", NEW d \in Devices, Dev[d].shared,
         Proceed("widen", [work EXCEPT !.tried = @ \cup {d}, !.device = d])
  PROVE  WorkInv'
<1>1. /\ pc' = "widen" /\ timeline' = timeline /\ state' = state
      /\ work' = [work EXCEPT !.tried = @ \cup {d}, !.device = d]
  BY DEF Proceed, taskVars
<1>2. /\ work'.cur = work.cur /\ work'.window = work.window /\ work'.plan = work.plan
      /\ work'.victims = work.victims /\ work'.cancelled = work.cancelled
      /\ work'.device = d
  BY <1>1 DEF Typed, Locals
<1>3. \A e : InWay(e)' = InWay(e)
  BY <1>1, <1>2 DEF InWay
<1>4. CurrentInv' /\ PlanInv' /\ (CalibratesAll => ApartInv')
  BY <1>1, <1>2, <1>3 DEF WorkInv, CurrentInv, PlanInv, ApartInv
<1>5. ClearInv' /\ WideInv' /\ RankInv'
  BY <1>1, <1>2 DEF ClearInv, WideInv, RankInv
<1> QED
  BY <1>4, <1>5 DEF WorkInv

(* The planned window covers what is in the way.                           *)
LEMMA PlanWindowWork ==
  ASSUME Typed, WorkInv, pc = "widen", NEW a, Good(a), a.dev = work.device,
         Covers(a, a), \A s \in InWay(work.device) : Covers(a, s),
         Proceed("guard", [work EXCEPT !.plan = {a}])
  PROVE  WorkInv'
<1>1. /\ pc' = "guard" /\ timeline' = timeline /\ state' = state
      /\ work' = [work EXCEPT !.plan = {a}]
  BY DEF Proceed, taskVars
<1>2. /\ work'.cur = work.cur /\ work'.window = work.window /\ work'.plan = {a}
      /\ work'.victims = work.victims /\ work'.cancelled = work.cancelled
      /\ work'.device = work.device
  BY <1>1 DEF Typed, Locals
<1>3. \A e : InWay(e)' = InWay(e)
  BY <1>1, <1>2 DEF InWay
<1>4. CurrentInv' /\ PlanInv' /\ (CalibratesAll => ApartInv')
  BY <1>1, <1>2, <1>3 DEF WorkInv, CurrentInv, PlanInv, ApartInv, Good
<1>5. WideInv'
  <2>1. work.device \in Devices /\ Dev[work.device].shared
    BY DEF WorkInv, WideInv
  <2> QED
    BY <1>1, <1>2, <1>3, <2>1 DEF WideInv, Covers
<1>6. ClearInv' /\ RankInv'
  BY <1>1 DEF ClearInv, RankInv
<1> QED
  BY <1>4, <1>5, <1>6 DEF WorkInv

(* The guard has looked at every live task in the way.                     *)
LEMMA GuardWork ==
  ASSUME Typed, WorkInv, pc = "guard", RankOk(work.device), Proceed("retune", work)
  PROVE  WorkInv'
<1>1. /\ pc' = "retune" /\ work' = work /\ timeline' = timeline /\ state' = state
  BY DEF Proceed, taskVars
<1>2. \A e : InWay(e)' = InWay(e)
  BY <1>1 DEF InWay
<1>3. CurrentInv' /\ PlanInv' /\ (CalibratesAll => ApartInv')
  BY <1>1, <1>2 DEF WorkInv, CurrentInv, PlanInv, ApartInv
<1>4. WideInv' /\ ClearInv'
  BY <1>1, <1>2 DEF WorkInv, WideInv, ClearInv, Covers
<1>5. RankInv'
  <2>1. work.device \in Devices
    BY DEF WorkInv, WideInv
  <2>2. \A s \in InWay(work.device) : state[s.task] = "live" => Req[s.task].rank <= R.rank
    BY <2>1, OwnersIs DEF RankOk
  <2> QED
    BY <1>1, <1>2, <2>2 DEF RankInv, R
<1> QED
  BY <1>3, <1>4, <1>5 DEF WorkInv

(* The window is tuned, and the plan is to be inserted.                    *)
LEMMA RetuneWork ==
  ASSUME Typed, WorkInv, Retune
  PROVE  WorkInv'
<1>1. pc = "retune" /\ pc' = "commit" /\ work' = work /\ state' = state
  BY DEF Retune
<1>2. CurrentInv' /\ PlanInv'
  BY <1>1 DEF WorkInv, CurrentInv, PlanInv
<1>3. ApartInv'
  <2>1. \A a \in work.plan : Dev[a.dev].shared
    BY <1>1 DEF WorkInv, WideInv
  <2> QED
    BY <1>1, <2>1 DEF ApartInv
<1>4. ClearInv' /\ WideInv' /\ RankInv'
  BY <1>1 DEF ClearInv, WideInv, RankInv
<1> QED
  BY <1>2, <1>3, <1>4 DEF WorkInv

(* Every step keeps the locals right.                                      *)
LEMMA WorkStep ==
  ASSUME Typed, WorkInv, SoundInv, [Next]_vars
  PROVE  WorkInv'
<1>1. CASE UNCHANGED vars
  <2>1. ~Commit
    BY <1>1 DEF Commit, vars, CurrentInv, WorkInv
  <2> QED
    BY <1>1, <2>1, BackgroundWork DEF vars, taskVars
<1>2. ASSUME NEW t \in Tasks, Receive(t) PROVE WorkInv'
  <2>1. CASE pc' # "idle"
    BY <1>2, <2>1, ReceiveWork
  <2>2. CASE pc' = "idle"
    <3>1. pc = "idle" /\ work' = work
      <4>1. Req[t].path # "idle"
        BY RequestIs DEF Requests
      <4> QED
        BY <1>2, <2>2, <4>1 DEF Receive, Proceed
    <3>2. ~Commit
      BY <3>1 DEF Commit
    <3> QED
      BY <1>2, <2>2, <3>1, <3>2, BackgroundWork
  <2> QED
    BY <2>1, <2>2
<1>3. ASSUME NEW t \in Tasks, CancelVictim(t) PROVE WorkInv'
  BY <1>3, CancelWork
<1>4. ASSUME NEW t \in Tasks, End(t) \/ Release(t) PROVE WorkInv'
  <2>1. pc' = pc /\ work' = work /\ state[t] \in {"live", "ended"}
    BY <1>4 DEF End, Release
  <2>2. ~Commit
    <3>1. Commit => work'.cur = NoTask /\ pc # "idle"
      BY DEF Commit, NoWork
    <3> QED
      BY <2>1, <3>1 DEF WorkInv, CurrentInv
  <2>3. pc # "idle" => state'[work.cur] = state[work.cur]
    <3>1. pc # "idle" => state[work.cur] = "none"
      BY DEF WorkInv, CurrentInv
    <3>2. \A u \in Tasks : u # t => state'[u] = state[u]
      BY <1>4 DEF End, Release, Typed
    <3>3. pc # "idle" => work.cur \in Tasks
      BY DEF Typed, Locals, WorkInv, CurrentInv
    <3> QED
      BY <2>1, <3>1, <3>2, <3>3
  <2> QED
    BY <2>1, <2>2, <2>3, BackgroundWork
<1>5. ASSUME NEW d \in Devices, FindDevice(d) PROVE WorkInv'
  <2>1. CASE Skip(d)
    BY <2>1, SkipWork
  <2>2. ASSUME NEW a, Good(a), Choose({a}) PROVE WorkInv'
    <3>1. \A b \in {a} : Good(b)
      BY <2>2
    <3>2. pc # "idle"
      BY <1>5 DEF FindDevice
    <3> QED
      BY <2>2, <3>1, <3>2, ChooseWork
  <2> QED
    BY <1>5, <2>1, <2>2, FindDeviceDoes DEF WorkInv
<1>6. ASSUME NEW d \in Devices, Preempt(d) PROVE WorkInv'
  BY <1>6, PreemptWork
<1>7. ASSUME NEW d \in Devices, CompareCf(d) PROVE WorkInv'
  <2>1. pc = "combine"
    BY <1>7 DEF CompareCf
  <2>2. CASE Skip(d)
    BY <2>2, SkipWork
  <2>3. ASSUME NEW a, Good(a), Choose({a}) PROVE WorkInv'
    <3>1. \A b \in {a} : Good(b)
      BY <2>3
    <3> QED
      BY <2>1, <2>3, <3>1, ChooseWork
  <2> QED
    BY <1>7, <2>1, <2>2, <2>3, CompareCfDoes, WidenWork DEF WorkInv
<1>8. CASE FindNone \/ PreemptNone
  BY <1>8, RestartWork
<1>9. CASE CombineNone \/ PortsExhausted \/ Commit
  BY <1>9, IdleWork DEF CombineNone, PortsExhausted, Reject, Commit
<1>10. CASE Widen
  <2>1. pc = "widen"
    BY <1>10 DEF Widen
  <2>2. CASE GiveUp
    BY <2>1, <2>2, GiveUpWork
  <2> QED
    BY <1>10, <2>1, <2>2, WidenDoes, PlanWindowWork DEF WorkInv
<1>11. CASE GuardRank
  <2>1. pc = "guard"
    BY <1>11 DEF GuardRank
  <2>2. CASE RankOk(work.device)
    BY <1>11, <2>1, <2>2, GuardWork DEF GuardRank
  <2>3. CASE ~RankOk(work.device)
    BY <1>11, <2>1, <2>3, GiveUpWork DEF GuardRank
  <2> QED
    BY <2>2, <2>3
<1>12. CASE TuneFails
  BY <1>12, GiveUpWork DEF TuneFails
<1>13. CASE Retune
  BY <1>13, RetuneWork
<1>14. CASE Coherent
  <2>1. pc # "idle"
    BY <1>14 DEF Coherent
  <2>2. CASE Reject
    BY <2>2, IdleWork DEF Reject
  <2> QED
    BY <1>14, <2>1, <2>2, CoherentDoes, ChooseWork DEF WorkInv
<1>15. CASE Calibrate
  <2>1. pc # "idle"
    BY <1>15 DEF Calibrate
  <2>2. CASE Reject
    BY <2>2, IdleWork DEF Reject
  <2> QED
    BY <1>15, <2>1, <2>2, CalibrateDoes, ChooseWork DEF WorkInv
<1>16. CASE Tick
  <2>1. pc' = pc /\ work' = work /\ state' = state
    BY <1>16 DEF Tick, taskVars
  <2>2. ~Commit
    <3>1. Commit => work'.cur = NoTask /\ pc # "idle"
      BY DEF Commit, NoWork
    <3> QED
      BY <2>1, <3>1 DEF WorkInv, CurrentInv
  <2> QED
    BY <2>1, <2>2, BackgroundWork
<1> QED
  BY <1>1, <1>2, <1>3, <1>4, <1>5, <1>6, <1>7, <1>8, <1>9, <1>10, <1>11, <1>12, <1>13, <1>14,
     <1>15, <1>16 DEF Next

(***************************************************************************)
(* The theorems.                                                           *)
(***************************************************************************)
LEMMA InitInv ==
  ASSUME Init
  PROVE  IInv
<1>1. Typed
  <2>1. 0 \in 0 .. Horizon
    BY ConstantsAssumption
  <2> QED
    BY <2>1, NoWorkTyped DEF Init, Typed
<1>2. WorkInv
  BY DEF Init, WorkInv, CurrentInv, PlanInv, ApartInv, ClearInv, WideInv, RankInv, NoWork
<1>3. \A d \in Devices : timeline[d] = <<>> /\ DOMAIN timeline[d] = {}
  BY DEF Init
<1>4. SoundInv /\ ChannelsExclusive
  BY <1>3 DEF SoundInv, SoundSlots, ChannelsExclusive
<1>5. SlotsAccounted
  BY <1>3 DEF Init, SlotsAccounted, OwnersOf
<1> QED
  BY <1>1, <1>2, <1>4, <1>5 DEF IInv

(* The invariant is inductive.                                             *)
LEMMA StepInv ==
  ASSUME IInv, [Next]_vars
  PROVE  IInv'
<1>1. Typed'
  BY TypedStep DEF IInv, WorkInv
<1>2. WorkInv'
  BY WorkStep DEF IInv
<1>3. SoundInv'
  BY SoundStep DEF IInv, WorkInv
<1>4. SlotsAccounted'
  BY AccountedStep DEF IInv, WorkInv
<1>5. CalibratesAll => ChannelsExclusive'
  BY ExclusiveStep DEF IInv, WorkInv
<1> QED
  BY <1>1, <1>2, <1>3, <1>4, <1>5 DEF IInv

(* The inductive invariant holds in every reachable state: the AMQP        *)
(* thread's locals, read some steps ago, still agree with the slots and    *)
(* the registry that other threads change meanwhile.                       *)
THEOREM Invariance == Spec => []IInv
<1>1. Init => IInv
  BY InitInv
<1>2. IInv /\ [Next]_vars => IInv'
  BY StepInv
<1> QED
  BY <1>1, <1>2, PTL DEF Spec

(* The state has its shape, and tryAccept gives only channels that the     *)
(* device has.                                                             *)
THEOREM TypeCorrect == Spec => []TypeOK
<1>1. IInv => TypeOK
  BY DEF IInv, Typed, WorkInv, CurrentInv, SoundInv, SoundSlots, TypeOK
<1> QED
  BY <1>1, Invariance, PTL

(* The timelines hold what the registry has given and not taken back,      *)
(* whichever thread releases a task and however many devices it had.       *)
THEOREM Accounted == Spec => []SlotsAccounted
<1>1. IInv => SlotsAccounted
  BY DEF IInv
<1> QED
  BY <1>1, Invariance, PTL

(* A channel of a device with independent LOs is given to one task at a    *)
(* time, on every path but a calibration that asks for some channels only. *)
THEOREM ChannelsAreExclusive ==
  ASSUME CalibratesAll
  PROVE  Spec => []ChannelsExclusive
<1>1. IInv => ChannelsExclusive
  BY DEF IInv
<1> QED
  BY <1>1, Invariance, PTL

(* canFit's search finds the lowest free place of a shared window, and     *)
(* rejects only if there is none.                                          *)
THEOREM PackingIsExact == Spec => []PackingExact
<1>1. IInv => PackingExact
  <2> SUFFICES ASSUME IInv, pc = "find", NEW d \in Devices
               PROVE  LET over == Over(d)
                          lo == R.cf - R.sr \div 2
                          hi == R.cf + R.sr \div 2
                          w == R.bw + 2 * InnerGuard(over)
                          free == {x \in lo .. hi - w : \A i \in DOMAIN over :
                                      x >= over[i].hi + Guard \/ x + w <= over[i].lo - Guard}
                      IN Packed(over, lo, hi, w) = {x \in free : \A y \in free : x <= y}
    BY DEF PackingExact
  <2> DEFINE over == Over(d)
             lo == R.cf - R.sr \div 2
             hi == R.cf + R.sr \div 2
             w == R.bw + 2 * InnerGuard(over)
  <2>1. over \in Seq(Slots)
    BY OverIs DEF IInv
  <2>2. \A i \in DOMAIN over : over[i].lo \in Int /\ over[i].hi \in Int
    <3> HIDE DEF over
    <3>1. \A i \in DOMAIN over : over[i] \in Slots
      BY <2>1
    <3> QED
      BY <3>1 DEF Slots
  <2>3. Guard \in Nat /\ InnerGuard(over) \in Int
    BY ConstantsAssumption DEF InnerGuard
  <2>4. lo \in Int /\ hi \in Int /\ w \in Int
    <3>1. work.cur \in Tasks
      BY DEF IInv, Typed, Locals, WorkInv, CurrentInv
    <3>2. R.cf \in Int /\ R.sr \in Int /\ R.bw \in Int
      BY <3>1, RequestIs DEF R
    <3> HIDE DEF over
    <3> QED
      BY <2>3, <3>2
  <2> HIDE DEF over, lo, hi, w
  <2>5. Packed(over, lo, hi, w) = Lowest(Roomy(over, lo, hi, w))
    BY <2>1, <2>2, <2>3, <2>4, PackedIs
  <2> QED
    BY <2>5 DEF over, lo, hi, w, Lowest, Roomy
<1> QED
  BY <1>1, Invariance, PTL

(* When the AMQP thread looks for a place again, no live task is in the    *)
(* way on the device that it preempted on, whoever ended the victims.      *)
THEOREM DeviceIsCleared == Spec => []DeviceCleared
<1>1. IInv => DeviceCleared
  <2> SUFFICES ASSUME IInv, pc = "again" PROVE LiveOn(work.device) = {}
    BY DEF DeviceCleared
  <2>1. work.device \in Devices /\ \A s \in InWay(work.device) : state[s.task] # "live"
    BY DEF IInv, WorkInv, ClearInv
  <2> QED
    BY <2>1, OwnersIs DEF IInv
<1> QED
  BY <1>1, Invariance, PTL

(* The window about to be tuned covers the request and every task that is  *)
(* in the way by then.  (Without a guard band a window of an odd width     *)
(* would lose half a unit to the division of the model.)                   *)
THEOREM WindowAlwaysCovers ==
  ASSUME Guard > 0
  PROVE  Spec => []WindowCovers
<1>1. IInv => WindowCovers
  <2> SUFFICES ASSUME IInv, pc \in {"guard", "retune"},
                      NEW s \in {Planned}
                              \cup {Over(work.device)[i] : i \in DOMAIN Over(work.device)}
               PROVE  Planned.cf - Planned.sr \div 2 <= s.lo
                      /\ s.hi <= Planned.cf + Planned.sr \div 2
    BY DEF WindowCovers
  <2>1. /\ Covers(Planned, Planned) /\ \A u \in InWay(work.device) : Covers(Planned, u)
        /\ work.device \in Devices
    BY PlannedIs DEF IInv, WorkInv
  <2>2. \A i \in DOMAIN Over(work.device) : Over(work.device)[i] \in InWay(work.device)
    BY <2>1, OverIs DEF IInv
  <2>3. Covers(Planned, s)
    BY <2>1, <2>2
  <2> QED
    BY <2>3 DEF Covers
<1> QED
  BY <1>1, Invariance, PTL

(* The window recorded for a live task is only changed by a request of at  *)
(* least its rank.                                                         *)
THEOREM RankIsRespected == Spec => RankRespected
<1>1. ASSUME IInv, [Next]_vars, NEW t \in Tasks, state[t] = "live", alloc'[t] # alloc[t]
      PROVE  Req[t].rank <= R.rank
  <2>1. CASE Retune
    <3>1. work.device \in Devices /\ pc = "retune"
      <4>1. pc = "retune"
        BY <2>1 DEF Retune
      <4> QED
        BY <1>1, <4>1 DEF IInv, WorkInv, WideInv
    <3>2. t \in OwnersOf(Over(work.device))
      BY <1>1, <2>1 DEF Retune
    <3>3. PICK s \in InWay(work.device) : s.task = t
      <4>1. Typed
        BY <1>1 DEF IInv
      <4> QED
        BY <3>1, <3>2, <4>1, OwnersIs
    <3> QED
      BY <1>1, <3>1, <3>3 DEF IInv, WorkInv, RankInv
  <2>2. CASE Commit
    <3>1. state[work.cur] = "none"
      <4>1. pc = "commit"
        BY <2>2 DEF Commit
      <4> QED
        BY <1>1, <4>1 DEF IInv, WorkInv, CurrentInv
    <3>2. t # work.cur
      BY <1>1, <3>1
    <3> QED
      BY <1>1, <2>2, <3>2 DEF Commit, IInv, Typed
  <2>3. CASE alloc' = alloc
    BY <1>1, <2>3
  <2> QED
    BY <1>1, <2>1, <2>2, <2>3, StepKinds DEF IInv, WorkInv, Quiet, taskVars, Rejects, Ends, Frees
<1>2. IInv /\ [Next]_vars
      => [\A t \in Tasks : state[t] = "live" /\ alloc'[t] # alloc[t] => Req[t].rank <= R.rank]_vars
  BY <1>1
<1> QED
  BY <1>2, Invariance, PTL DEF Spec, RankRespected
=============================================================================
