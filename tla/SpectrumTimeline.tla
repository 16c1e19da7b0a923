-------------------------- MODULE SpectrumTimeline --------------------------
(***************************************************************************)
(* The reservations of one device in time and frequency                    *)
(* (src/SpectrumTimeline.cpp), as operators on the sequence of its slots:  *)
(* every method runs under the timeline's own mutex.  Frequencies are in   *)
(* units of a slice's smallest step; bandwidths and rates are even.  A fit *)
(* is a set of at most one result, empty where the code rejects.  TX       *)
(* channels, which are counted like RX channels, are left out.             *)
(***************************************************************************)
EXTENDS Integers, Sequences, FiniteSets

CONSTANT Guard      \* policy.guard_band_hz

FSX == INSTANCE FiniteSetsExt

TimeOverlap(from1, to1, from2, to2) == from1 < to2 /\ from2 < to1

(* The slots at the positions I, in the order of their insertion.          *)
Kept(slots, I) ==
    [k \in 1 .. Cardinality(I) |-> slots[CHOOSE i \in I : Cardinality({j \in I : j <= i}) = k]]

SlotsOverlapping(slots, from, to) ==
    Kept(slots, {i \in DOMAIN slots : TimeOverlap(from, to, slots[i].from, slots[i].to)})

(* Every slot counts, also one on a channel that another slot has.         *)
UsedRx(slots) == Cardinality(UNION {{i} \X slots[i].rx : i \in DOMAIN slots})

BusyRx(slots) == UNION {slots[i].rx : i \in DOMAIN slots}

(* The n lowest channels of a set.                                         *)
FirstChannels(S, n) == {c \in S : Cardinality({b \in S : b < c}) < n}

(***************************************************************************)
(* canFit.  A request r has cf, bw, sr, rx and ch, the preferred channel   *)
(* or -1; a device has shared (its LO), rx and its capabilities.           *)
(***************************************************************************)

(* The slice of a request, centred on its frequency.                       *)
SliceLo(r) == r.cf - r.bw \div 2
SliceHi(r) == r.cf + r.bw \div 2

(* A fit on the requested slice.                                           *)
AsAsked(r, cf, sr, rx) == [cf |-> cf, sr |-> sr, lo |-> SliceLo(r), hi |-> SliceHi(r), rx |-> rx]

(* The preferred channel, or the first idle ones.                          *)
Pinned(r) == r.ch >= 0 /\ r.rx = 1

IdleRx(over, dev) == (0 .. dev.rx - 1) \ BusyRx(over)

Picked(over, dev, r) == IF Pinned(r) THEN {r.ch} ELSE FirstChannels(IdleRx(over, dev), r.rx)

Enough(over, dev, r) == UsedRx(over) + r.rx <= dev.rx

(* Bug: a preferred channel is granted although it is in use.              *)
BugIndependentFit(over, dev, r) ==
    IF Enough(over, dev, r) /\ (Pinned(r) => r.ch < dev.rx)
    THEN {AsAsked(r, r.cf, r.sr, Picked(over, dev, r))} ELSE {}

IndependentFit(over, dev, r) ==
    IF Enough(over, dev, r) /\ Picked(over, dev, r) \subseteq IdleRx(over, dev)
    THEN {AsAsked(r, r.cf, r.sr, Picked(over, dev, r))} ELSE {}

(* Bug: the guard below an occupied slice is forgotten.                    *)
BugClashing(over, lo, hi) ==
    {i \in DOMAIN over : lo < over[i].hi + Guard /\ over[i].lo < hi}

(* The slices, widened by the guard, that meet [lo, hi).                   *)
Clashing(over, lo, hi) ==
    {i \in DOMAIN over : lo < over[i].hi + Guard /\ over[i].lo - Guard < hi}

(* They are sorted by their lower, then their upper end.                   *)
Below(s, u) == s.lo < u.lo \/ (s.lo = u.lo /\ s.hi <= u.hi)

(* Left to right from lo: behind the first slice in the way, until nothing *)
(* of width w clashes or the window ends at hi.                            *)
FirstOf(over, clash) == CHOOSE i \in clash : \A k \in clash : Below(over[i], over[k])

Tries(over, hi, w) ==
    LET Try[x \in Int] ==
            LET clash == Clashing(over, x, x + w)
            IN IF x + w > hi THEN {}
               ELSE IF clash = {} THEN {x}
               ELSE Try[over[FirstOf(over, clash)].hi + Guard]
    IN Try

Packed(over, lo, hi, w) == Tries(over, hi, w)[lo]

(* The guard pads a slice only when there are others.                      *)
InnerGuard(over) == IF over = <<>> THEN 0 ELSE Guard

(* Bug: the channel one past the last is in range.                         *)
BugInRange(dev, ch) == ch <= dev.rx

InRange(dev, ch) == ch < dev.rx

(* The window of a shared LO is the one of the first overlapping slot, and *)
(* the request must have its centre frequency and its rate.  A preferred   *)
(* channel may be in use.                                                  *)
SharedFit(over, dev, r) ==
    LET g == InnerGuard(over)
        at == Packed(over, r.cf - r.sr \div 2, r.cf + r.sr \div 2, r.bw + 2 * g)
    IN IF /\ over # <<>> => over[1].cf = r.cf /\ over[1].sr = r.sr
          /\ r.bw <= r.sr
          /\ IF Pinned(r) THEN InRange(dev, r.ch) ELSE Enough(over, dev, r)
       THEN {[cf |-> r.cf, sr |-> r.sr, lo |-> x + g, hi |-> x + g + r.bw, rx |-> Picked(over, dev, r)] : x \in at}
       ELSE {}

CanFit(slots, dev, r, from, to) ==
    LET over == SlotsOverlapping(slots, from, to)
    IN IF dev.shared THEN SharedFit(over, dev, r) ELSE IndependentFit(over, dev, r)

(***************************************************************************)
(* canCombine, as its only caller uses it: with the channels of the slots  *)
(* that are already there (reuse_channels).                                *)
(***************************************************************************)
MinLo(over, lo) == FSX!Min({lo} \cup {over[i].lo : i \in DOMAIN over})
MaxHi(over, hi) == FSX!Max({hi} \cup {over[i].hi : i \in DOMAIN over})

(* The first n channels met, slot by slot.                                 *)
FirstAt(over, c) == FSX!Min({i \in DOMAIN over : c \in over[i].rx})

MetBefore(over, c) ==
    {b \in BusyRx(over) : \/ FirstAt(over, b) < FirstAt(over, c)
                          \/ FirstAt(over, b) = FirstAt(over, c) /\ b < c}

ExistingRx(over, n) == {c \in BusyRx(over) : Cardinality(MetBefore(over, c)) < n}

(* Bug: the window reaches up to the request only.                         *)
BugWindow(over, r) ==
    LET lo == MinLo(over, SliceLo(r))
        hi == SliceHi(r)
    IN [cf |-> (lo + hi) \div 2, sr |-> hi - lo + 2 * Guard]

(* The window around the request and every overlapping slice.              *)
Window(over, r) ==
    LET lo == MinLo(over, SliceLo(r))
        hi == MaxHi(over, SliceHi(r))
    IN [cf |-> (lo + hi) \div 2, sr |-> hi - lo + 2 * Guard]

CanCombine(slots, dev, r, from, to) ==
    LET over == SlotsOverlapping(slots, from, to)
        w == Window(over, r)
        rx == ExistingRx(over, r.rx)
    IN IF over # <<>> /\ w.sr <= dev.srmax /\ rx # {}
       THEN {AsAsked(r, w.cf, w.sr, rx)} ELSE {}

(***************************************************************************)
(* The mutating methods.                                                   *)
(***************************************************************************)

(* All slots, whatever their time.                                         *)
UpdateDeviceTune(slots, cf, sr) ==
    [i \in DOMAIN slots |-> [slots[i] EXCEPT !.cf = cf, !.sr = sr]]

Insert(slots, s) == Append(slots, s)

Remove(slots, task) == Kept(slots, {i \in DOMAIN slots : slots[i].task # task})
=============================================================================
