------------------------- MODULE SharedStream_proofs -------------------------
(***************************************************************************)
(* Theorems about SharedStream, for every value of its constants: the      *)
(* types, and for requests of one channel each what activations, teardowns *)
(* and the combined-window retune keep of the streams they share.          *)
(***************************************************************************)
EXTENDS SharedStream, SpectrumTimeline_proofs

(* Every request is for one channel.                                       *)
OneChannel == \A r \in Requests : \A t \in Tasks : r[t].rx = 1

(* Nobody else leaves a stream while a task is moved on it from its raw    *)
(* destination to its sub-band.                                            *)
Undisturbed ==
  \A p \in Threads : Teardown(p) =>
     \A x \in work.todo \cap work.done :
        x[1] = arg[p] \/ x[2] \notin Range(runtime[arg[p]].uses)

Labels ==
  {"idle", "start", "lock", "lookup", "borrow", "open", "insert", "run", "done",
   "claim", "orphan", "teardown", "release",
   "tune", "push", "collect", "plan", "convert", "resubscribe", "accept"}

Retuning == {"tune", "push", "collect", "plan", "convert", "resubscribe", "accept"}
Calling == {"claim", "orphan", "teardown", "release"}
Holding == {"lookup", "borrow", "open"}
Inserted == {"run", "done"}

Act(t) == <<"act", t>>

Slots ==
  [task : Tasks, from : {0}, to : {1}, cf : Int, sr : Nat \ {0}, lo : Int, hi : Int,
   rx : (SUBSET Channels) \ {{}}]

(* A fit, which names channels, and one if the requests do.                *)
Fits == [cf : Int, sr : Nat \ {0}, lo : Int, hi : Int, rx : (SUBSET Channels) \ {{}}]
Single(S) == OneChannel => \E c \in Channels : S = {c}

(* The labels of each thread.                                              *)
ActLabels == {"idle", "start", "lock", "lookup", "borrow", "open", "insert", "run", "done"} \cup Calling
LabelsOf(p) ==
  IF p = Watchdog THEN Deactivating
  ELSE IF p = Amqp THEN Deactivating \cup Retuning ELSE ActLabels

TaskTypes ==
  /\ asked \in Requests
  /\ state \in [Tasks -> {"absent", "pending", "running", "ended"}]
  /\ alloc \in [Tasks -> Allocations]
  /\ slots \in Seq(Slots)

StreamTypes ==
  /\ tuned \in Windows
  /\ chan \in [Channels -> Tasks \cup {NoTask}]
  /\ status \in [Tasks -> {"none", "open", "closed", "twice"}]
  /\ label \in [Tasks -> Windows]
  /\ running \in [Tasks -> BOOLEAN]
  /\ dests \in [Tasks -> [Tasks -> Nat]]
  /\ subs \in [Tasks -> [Tasks -> Windows]]
  /\ runtime \in [Tasks -> Runtimes]

ActTypes ==
  /\ built \in [Tasks -> Runtimes]
  /\ copy \in [Tasks -> Allocations]
  /\ wide \in [Tasks -> Nat]
  /\ hw \in Acts \cup {NoThread}

(* Each thread is where it can be, and deactivates a task that the         *)
(* registry has; a task's activation begins when it is accepted.           *)
ThreadInv ==
  /\ pc \in [Threads -> Labels]
  /\ \A p \in Threads : pc[p] \in LabelsOf(p)
  /\ first \in [Threads -> BOOLEAN]
  /\ arg \in [Threads -> Tasks \cup {NoTask}]
  /\ \A p \in Acts \cup Errs : arg[p] = p[2]
  /\ \A p \in Threads : pc[p] \in Calling => arg[p] \in Tasks /\ state[arg[p]] # "absent"
  /\ \A t \in Tasks : state[t] = "absent" <=> pc[Act(t)] = "idle"
  /\ \A s \in Tasks : running[s] => state[s] # "absent"

(* The locals of tryRetuneCombined are those of a request that the         *)
(* registry does not have yet.                                             *)
WorkInv ==
  /\ work \in [req : Tasks \cup {NoTask}, fit : [cf : Int, sr : Nat, lo : Int, hi : Int, rx : SUBSET Channels],
                over : SUBSET Tasks, todo : SUBSET (Tasks \X Tasks), done : SUBSET (Tasks \X Tasks)]
  /\ pc[Amqp] \notin Retuning => work = NoWork
  /\ pc[Amqp] \in Retuning => /\ work.req \in Tasks /\ state[work.req] = "absent"
                              /\ work.fit \in Fits /\ Single(work.fit.rx)

(* What an accepted task is to use.                                        *)
AllocInv ==
  /\ \A t \in Tasks : state[t] # "absent" =>
        /\ alloc[t].rx # <<>> /\ alloc[t].win[2] > 0
        /\ OneChannel => Len(alloc[t].rx) = 1
  /\ \A t \in Tasks : pc[Act(t)] \in {"lock"} \cup Holding =>
        copy[t].rx = alloc[t].rx /\ copy[t].win[2] > 0

KnownInv == TaskTypes /\ StreamTypes /\ ActTypes /\ ThreadInv /\ WorkInv /\ AllocInv

(* hw_activation_mu_ is with the activation that is between its lock and   *)
(* its unlock.                                                             *)
HwInv == \A t \in Tasks : hw = Act(t) <=> pc[Act(t)] \in Holding

(* What an activation has built is inserted once.                          *)
RuntimeInv ==
  /\ \A t \in Tasks : pc[Act(t)] \in {"borrow", "insert"} <=> built[t] # NoRuntime
  /\ \A t \in Tasks : pc[Act(t)] = "borrow" => ~built[t].sub
  /\ \A t \in Tasks : runtime[t] # NoRuntime => pc[Act(t)] \in Inserted
  /\ \A t \in Tasks : built[t].uses = <<>> => built[t] = NoRuntime
  /\ \A t \in Tasks : runtime[t].uses = <<>> => runtime[t] = NoRuntime
  /\ OneChannel => \A t \in Tasks : Len(built[t].uses) <= 1 /\ Len(runtime[t].uses) <= 1

(* channel_states_ knows the open streams, and each is running.            *)
ChanInv ==
  /\ \A s \in Tasks : status[s] # "none" => pc[Act(s)] \in {"insert"} \cup Inserted
  /\ \A s \in Tasks : running[s] => status[s] = "open"
  /\ \A c \in Channels : chan[c] # NoTask => status[chan[c]] = "open" /\ alloc[chan[c]].rx = <<c>>
  /\ \A s \in Tasks : status[s] = "open" => chan[alloc[s].rx[1]] = s /\ running[s]
  /\ \A t \in Tasks : pc[Act(t)] = "open" => chan[copy[t].rx[1]] = NoTask
  /\ \A t \in Tasks : pc[Act(t)] = "borrow" => built[t].uses = <<chan[copy[t].rx[1]]>>
                                               /\ chan[copy[t].rx[1]] # NoTask
  /\ \A t \in Tasks : \A s \in Range(runtime[t].uses) \cup Range(built[t].uses) : status[s] # "none"

(* Whose destination a streamer has, and whose sub-bands: a task is never  *)
(* among both.                                                             *)
ConsumerInv ==
  /\ \A s, t \in Tasks : dests[s][t] > 0 =>
        /\ dests[s][t] = 1
        /\ \/ built[t] = [uses |-> <<s>>, sub |-> FALSE]
           \/ runtime[t] = [uses |-> <<s>>, sub |-> FALSE]
        /\ pc[Act(t)] \in {"insert"} \cup Inserted
  /\ \A s, t \in Tasks : subs[s][t] # NoWindow =>
        /\ pc[Act(t)] \in {"insert"} \cup Inserted
        /\ \A u \in Tasks : dests[u][t] = 0

(* A conversion concerns a stream that the task uses, if it still uses     *)
(* one; one task at a time is between its destination and its sub-band.    *)
MoveInv ==
  /\ \A x \in work.todo \cup work.done :
        /\ pc[Act(x[1])] \in Inserted
        /\ runtime[x[1]] # NoRuntime => runtime[x[1]].uses = <<x[2]>>
  /\ \A x \in work.done : \A u \in Tasks : dests[u][x[1]] = 0
  /\ pc[Amqp] # "resubscribe" => work.todo \cap work.done = {}
  /\ pc[Amqp] = "resubscribe" => \E x \in work.done : work.todo \cap work.done = {x}
  /\ pc[Amqp] \in {"tune", "push", "collect", "plan"} => work.done = {}

(* A stream is in use.                                                     *)
Feeds(s, t) == dests[s][t] > 0 \/ subs[s][t] # NoWindow

ServedInv ==
  /\ \A t \in Tasks : \A s \in Range(runtime[t].uses) :
        status[s] = "open" /\ (Feeds(s, t) \/ Converting(t))
  /\ \A t \in Tasks : pc[Act(t)] = "insert" => \A s \in Range(built[t].uses) :
        status[s] = "open" /\ Feeds(s, t)
  /\ ClosedOnce

(***************************************************************************)
(* The threads.                                                            *)
(***************************************************************************)
LEMMA ThreadFacts ==
  /\ Amqp \in Threads /\ Watchdog \in Threads /\ Amqp # Watchdog
  /\ \A t \in Tasks : Act(t) \in Threads /\ Act(t) \in Acts /\ Act(t)[2] = t
  /\ \A t, u \in Tasks : Act(t) = Act(u) => t = u
  /\ \A a \in Acts : a \in Threads /\ a[2] \in Tasks /\ a = Act(a[2])
  /\ \A e \in Errs : e \in Threads /\ e[2] \in Tasks /\ e[2] \in Failing
  /\ \A s \in Failing : <<"err", s>> \in Errs
  /\ Amqp \notin Acts /\ Watchdog \notin Acts /\ Amqp \notin Errs /\ Watchdog \notin Errs
  /\ \A a \in Acts : a \notin Errs
  /\ \A p \in Threads : p \in {Amqp, Watchdog} \/ p \in Acts \/ p \in Errs
  /\ NoThread \notin Threads
BY ConstantsAssumption DEF Threads, Acts, Errs, Act, Amqp, Watchdog, NoThread

(***************************************************************************)
(* The operators.                                                          *)
(***************************************************************************)

(* If fewer channels are in use than the device has, one is idle.          *)
LEMMA IdleExists ==
  ASSUME NEW A, NEW over \in Seq(A), NEW n \in Nat,
         \A i \in DOMAIN over : over[i].rx \subseteq 0 .. n - 1,
         UsedRx(over) < n
  PROVE  (0 .. n - 1) \ BusyRx(over) # {}
<1> DEFINE N == 0 .. n - 1
           U == UNION {{i} \X over[i].rx : i \in DOMAIN over}
           f == [c \in N |-> CHOOSE p \in U : p[2] = c]
<1>1. IsFiniteSet(N) /\ Cardinality(N) = n
  <2>1. 0 \in Int /\ n - 1 \in Int
    OBVIOUS
  <2>2. /\ IsFiniteSet(0 .. n - 1)
        /\ Cardinality(0 .. n - 1) = IF 0 > n - 1 THEN 0 ELSE (n - 1) - 0 + 1
    BY ONLY <2>1, FS_Interval
  <2>3. (IF 0 > n - 1 THEN 0 ELSE (n - 1) - 0 + 1) = n
    OBVIOUS
  <2> QED
    BY <2>2, <2>3
<1>2. IsFiniteSet(U)
  <2>1. DOMAIN over = 1 .. Len(over) /\ Len(over) \in Int /\ 1 \in Int
    OBVIOUS
  <2>2. IsFiniteSet(1 .. Len(over))
    BY ONLY <2>1, FS_Interval
  <2> HIDE DEF N
  <2>4. IsFiniteSet((DOMAIN over) \X N)
    BY ONLY <1>1, <2>1, <2>2, FS_Product
  <2> USE DEF N
  <2>3. U \in SUBSET ((DOMAIN over) \X N)
    OBVIOUS
  <2> HIDE DEF U
  <2> QED
    BY <2>4, <2>3, FS_Subset
<1>3. Cardinality(U) < Cardinality(N)
  BY <1>1 DEF UsedRx
<1>4. SUFFICES ASSUME N \subseteq BusyRx(over) PROVE FALSE
  OBVIOUS
<1>5. \A c \in N : \E p \in U : p[2] = c
  <2> SUFFICES ASSUME NEW c \in N PROVE \E p \in U : p[2] = c
    OBVIOUS
  <2>1. PICK i \in DOMAIN over : c \in over[i].rx
    BY <1>4 DEF BusyRx
  <2>2. <<i, c>> \in U /\ <<i, c>>[2] = c
    BY <2>1
  <2> HIDE DEF U
  <2> QED
    BY <2>2
<1> HIDE DEF U, N
<1>6. \A c \in N : f[c] \in U /\ f[c][2] = c
  BY <1>5
<1>7. f \in [N -> U]
  BY <1>6
<1> HIDE DEF f
<1>8. PICK c, d \in N : c # d /\ f[c] = f[d]
  BY <1>1, <1>2, <1>3, <1>7, FS_PigeonHole
<1> QED
  BY <1>6, <1>8

(* The first channel of a set of channels is one, unless the set is empty. *)
LEMMA FirstChannelsIs ==
  ASSUME NEW n \in Nat, NEW S \in SUBSET (0 .. n - 1), S # {}, NEW k \in Nat \ {0}
  PROVE  /\ FirstChannels(S, k) \subseteq S
         /\ FirstChannels(S, k) # {}
         /\ k = 1 => \E c \in S : FirstChannels(S, k) = {c}
<1> DEFINE Under(c) == {b \in S : b < c}
<1>0. S \subseteq Int
  OBVIOUS
<1>1. PICK m \in S : \A c \in S : m <= c
  <2>1. S \in SUBSET Nat
    OBVIOUS
  <2> QED
    BY <2>1, Least
<1>2. \A c \in S : IsFiniteSet(Under(c)) /\ Cardinality(Under(c)) \in Nat
  <2>1. IsFiniteSet(0 .. n - 1)
    <3>1. 0 \in Int /\ n - 1 \in Int
      OBVIOUS
    <3> QED
      BY <3>1, FS_Interval
  <2>2. \A c \in S : Under(c) \in SUBSET (0 .. n - 1)
    OBVIOUS
  <2> HIDE DEF Under
  <2> QED
    BY <2>1, <2>2, FS_Subset, FS_CardinalityType
<1>3. Under(m) = {}
  <2> SUFFICES ASSUME NEW b \in S, b < m PROVE FALSE
    OBVIOUS
  <2>1. b \in Int /\ m \in Int /\ m <= b
    BY <1>0, <1>1
  <2> QED
    BY <2>1
<1>4. \A c \in S : c # m => m \in Under(c)
  <2> SUFFICES ASSUME NEW c \in S, c # m PROVE m < c
    OBVIOUS
  <2>1. c \in Int /\ m \in Int /\ m <= c
    BY <1>0, <1>1
  <2> QED
    BY <2>1
<1>5. FirstChannels(S, k) = {c \in S : Cardinality(Under(c)) < k}
  BY DEF FirstChannels
<1> HIDE DEF Under
<1>6. m \in FirstChannels(S, k)
  BY <1>3, <1>5, FS_EmptySet
<1>7. \A c \in S : c # m => Cardinality(Under(c)) # 0
  BY <1>2, <1>4, FS_EmptySet
<1>8. k = 1 => FirstChannels(S, k) = {m}
  <2> SUFFICES ASSUME k = 1, NEW c \in FirstChannels(S, k) PROVE c = m
    BY <1>6
  <2>1. c \in S /\ Cardinality(Under(c)) < 1
    BY <1>5
  <2> QED
    BY <1>2, <1>7, <2>1
<1> QED
  BY <1>5, <1>6, <1>8

(* What the operators ask of a request and of the slots.                   *)
LEMMA AskedIs ==
  ASSUME asked \in Requests, NEW t \in Tasks
  PROVE  /\ asked[t].cf \in Int /\ asked[t].bw \in Int /\ asked[t].bw >= 2
         /\ asked[t].sr \in Nat \ {0} /\ asked[t].rx \in Nat \ {0} /\ asked[t].ch \in Int
         /\ asked[t].ch >= 0 => asked[t].ch \in Channels
         /\ OneChannel => asked[t].rx = 1
         /\ Guard \in Nat /\ Device.rx \in Nat
<1>1. asked[t] \in Request /\ Device.rx \in Nat
  BY ConstantsAssumption
<1> QED
  BY <1>1, ConstantsAssumption DEF Request, Channels, OneChannel

LEMMA OverIs ==
  ASSUME slots \in Seq(Slots), NEW over, over = SlotsOverlapping(slots, 0, 1)
  PROVE  /\ over \in Seq(Slots)
         /\ \A i \in DOMAIN over : over[i].lo \in Int /\ over[i].hi \in Int
         /\ \A i \in DOMAIN over : over[i].rx \subseteq 0 .. Device.rx - 1
<1>1. over \in Seq(Slots)
  BY OverlappingIs
<1>2. \A i \in DOMAIN over : over[i] \in Slots
  BY <1>1
<1> QED
  BY <1>1, <1>2 DEF Slots, Channels

(* A fit on the shared LO names a channel, and no other where the request  *)
(* is for one.                                                             *)
LEMMA FitFits ==
  ASSUME slots \in Seq(Slots), asked \in Requests, NEW t \in Tasks, NEW f \in Fit(t)
  PROVE  f \in Fits /\ Single(f.rx)
<1> DEFINE r == asked[t]
           over == SlotsOverlapping(slots, 0, 1)
           idle == (0 .. Device.rx - 1) \ BusyRx(over)
<1>1. /\ r.cf \in Int /\ r.bw \in Int /\ r.bw >= 2
      /\ r.sr \in Nat \ {0} /\ r.rx \in Nat \ {0} /\ r.ch \in Int
      /\ r.ch >= 0 => r.ch \in Channels
      /\ OneChannel => r.rx = 1
      /\ Guard \in Nat /\ Device.rx \in Nat
  BY AskedIs
<1>2. \A i \in DOMAIN slots : slots[i].lo \in Int /\ slots[i].hi \in Int
  <2>1. \A i \in DOMAIN slots : slots[i] \in Slots
    OBVIOUS
  <2> QED
    BY <2>1 DEF Slots
<1>3. f \in CanFit(slots, Device, r, 0, 1)
  BY DEF Fit
<1>4. f \in SharedFit(over, Device, r)
  BY <1>3, ConstantsAssumption DEF CanFit
<1>5. /\ f.rx = Picked(over, Device, r)
      /\ Pinned(r) \/ Enough(over, Device, r)
  BY <1>4 DEF SharedFit
<1>6. /\ over \in Seq(Slots)
      /\ \A i \in DOMAIN over : over[i].rx \subseteq 0 .. Device.rx - 1
  BY OverIs
<1> HIDE DEF r, over
<1>7. /\ f = [cf |-> r.cf, sr |-> r.sr, lo |-> f.lo, hi |-> f.hi, rx |-> f.rx]
      /\ f.lo \in Int /\ f.hi \in Int
      /\ f.rx \subseteq 0 .. Device.rx - 1
  <2>1. r.sr \in Int /\ r.rx \in Int
    BY <1>1
  <2> QED
    BY <1>1, <1>2, <1>3, <2>1, FitIs
<1>8. f.rx # {} /\ (r.rx = 1 => \E c \in Channels : f.rx = {c})
  <2>1. CASE Pinned(r)
    BY <1>1, <1>5, <2>1 DEF Picked, Pinned
  <2>2. CASE ~Pinned(r)
    <3>1. UsedRx(over) \in Nat
      BY <1>1, <1>6, UsedRxIs
    <3>2. UsedRx(over) < Device.rx
      BY <1>1, <1>5, <2>2, <3>1 DEF Enough
    <3>3. idle # {}
      BY <1>1, <1>6, <3>2, IdleExists
    <3>4. idle \in SUBSET (0 .. Device.rx - 1) /\ idle \subseteq Channels
      BY DEF Channels
    <3>5. f.rx = FirstChannels(idle, r.rx)
      BY <1>5, <2>2 DEF Picked, IdleRx
    <3> HIDE DEF idle
    <3> QED
      BY <1>1, <3>3, <3>4, <3>5, FirstChannelsIs
  <2> QED
    BY <2>1, <2>2
<1>9. Single(f.rx)
  BY <1>1, <1>8 DEF Single
<1>10. f.rx \in (SUBSET Channels) \ {{}}
  BY <1>7, <1>8 DEF Channels
<1>11. f.sr \in Nat \ {0} /\ f.cf \in Int
  BY <1>1, <1>7
<1> QED
  BY <1>7, <1>9, <1>10, <1>11 DEF Fits

(* So does a join of a channel that is in use.                             *)
LEMMA JoinFits ==
  ASSUME slots \in Seq(Slots), asked \in Requests, NEW t \in Tasks, NEW f \in Join(t)
  PROVE  f \in Fits /\ Single(f.rx)
<1>1. /\ f = AsAsked(asked[t], slots[1].cf, slots[1].sr, {asked[t].ch})
      /\ asked[t].ch \in BusyRx(slots)
  BY DEF Join
<1>2. PICK i \in DOMAIN slots : asked[t].ch \in slots[i].rx
  BY <1>1 DEF BusyRx
<1>3. slots[1] \in Slots /\ slots[i] \in Slots
  BY <1>2
<1>4. asked[t].ch \in Channels
  BY <1>2, <1>3 DEF Slots
<1>5. SliceLo(asked[t]) \in Int /\ SliceHi(asked[t]) \in Int
  BY AskedIs, SliceIs
<1>6. f = [cf |-> slots[1].cf, sr |-> slots[1].sr, lo |-> SliceLo(asked[t]),
           hi |-> SliceHi(asked[t]), rx |-> {asked[t].ch}]
  BY <1>1 DEF AsAsked
<1>7. slots[1].cf \in Int /\ slots[1].sr \in Nat \ {0}
  BY <1>3 DEF Slots
<1>8. {asked[t].ch} \in (SUBSET Channels) \ {{}}
  BY <1>4
<1>9. f \in Fits
  BY <1>5, <1>6, <1>7, <1>8 DEF Fits
<1>10. Single(f.rx)
  BY <1>4, <1>6 DEF Single
<1> QED
  BY <1>9, <1>10

(* So does a combination.                                                  *)
LEMMA CombinationFits ==
  ASSUME slots \in Seq(Slots), asked \in Requests, NEW t \in Tasks, NEW f \in Combination(t)
  PROVE  f \in Fits /\ Single(f.rx)
<1> DEFINE r == asked[t]
           over == SlotsOverlapping(slots, 0, 1)
<1>1. /\ r.cf \in Int /\ r.bw \in Int /\ r.bw >= 2
      /\ r.rx \in Nat \ {0} /\ r.ch \in Int
      /\ OneChannel => r.rx = 1
      /\ Guard \in Nat /\ Device.rx \in Nat
  BY AskedIs
<1>2. \A i \in DOMAIN slots : slots[i].lo \in Int /\ slots[i].hi \in Int
  <2>1. \A i \in DOMAIN slots : slots[i] \in Slots
    OBVIOUS
  <2> QED
    BY <2>1 DEF Slots
<1>3. /\ over \in Seq(Slots)
      /\ \A i \in DOMAIN over : over[i].rx \subseteq 0 .. Device.rx - 1
  BY OverIs
<1>4. SliceLo(r) \in Int /\ SliceHi(r) \in Int
  BY <1>1, SliceIs
<1>5. \A g \in CanCombine(slots, Device, r, 0, 1) : g \in Fits /\ Single(g.rx)
  <2> SUFFICES ASSUME NEW g \in CanCombine(slots, Device, r, 0, 1)
               PROVE  g \in Fits /\ Single(g.rx)
    OBVIOUS
  <2>1. g.rx = ExistingRx(over, r.rx) /\ g.rx # {}
    BY DEF CanCombine, AsAsked
  <2> HIDE DEF r
  <2>2. /\ g = [cf |-> g.cf, sr |-> g.sr, lo |-> SliceLo(r), hi |-> SliceHi(r), rx |-> g.rx]
        /\ g.cf \in Int /\ g.sr \in Int /\ 0 < g.sr
        /\ g.rx \subseteq BusyRx(over)
    BY <1>1, <1>2, CombineIs
  <2> HIDE DEF over
  <2>3. BusyRx(over) \subseteq Channels
    BY <1>3 DEF BusyRx, Channels
  <2>4. r.rx = 1 => \A b, c \in g.rx : b = c
    <3> SUFFICES ASSUME r.rx = 1, NEW b \in g.rx, NEW c \in g.rx PROVE b = c
      OBVIOUS
    <3>1. b \in ExistingRx(over, 1) /\ c \in ExistingRx(over, 1)
      BY <2>1
    <3> QED
      BY <1>1, <1>3, <3>1, ExistingIs
  <2>5. OneChannel => \E c \in Channels : g.rx = {c}
    BY <1>1, <2>1, <2>2, <2>3, <2>4
  <2>6. g.rx \in (SUBSET Channels) \ {{}}
    BY <2>1, <2>2, <2>3
  <2>7. g.sr \in Nat \ {0}
    BY <2>2
  <2>8. g \in Fits
    BY <1>4, <2>2, <2>6, <2>7 DEF Fits
  <2> QED
    BY <2>5, <2>8 DEF Single
<1>6. CASE f \in CanCombine(slots, Device, r, 0, 1)
  BY <1>5, <1>6
<1>7. CASE \E g \in CanCombine(slots, Device, r, 0, 1) : r.ch \in g.rx /\ f = [g EXCEPT !.rx = {r.ch}]
  <2>1. PICK g \in CanCombine(slots, Device, r, 0, 1) : r.ch \in g.rx /\ f = [g EXCEPT !.rx = {r.ch}]
    BY <1>7
  <2>2. g \in Fits /\ r.ch \in Channels
    BY <1>5, <2>1 DEF Fits
  <2>3. f.rx = {r.ch}
    BY <2>1, <2>2 DEF Fits
  <2>4. f \in Fits
    <3>1. {r.ch} \in (SUBSET Channels) \ {{}}
      BY <2>2
    <3> QED
      BY <2>1, <2>2, <3>1 DEF Fits
  <2> QED
    BY <2>2, <2>3, <2>4 DEF Single
<1> QED
  BY <1>6, <1>7 DEF Combination

(* A fit's channels in their order: a sequence with one for each.          *)
LEMMA InOrderIs ==
  ASSUME NEW S \in SUBSET Channels, S # {}, Device.rx \in Nat
  PROVE  /\ InOrder(S) \in Seq(Channels) /\ InOrder(S) # <<>>
         /\ (\E c \in Channels : S = {c}) => Len(InOrder(S)) = 1
<1>1. IsFiniteSet(S)
  <2>1. 0 \in Int /\ Device.rx - 1 \in Int
    OBVIOUS
  <2>2. IsFiniteSet(0 .. Device.rx - 1)
    BY ONLY <2>1, FS_Interval
  <2> QED
    BY <2>2, FS_Subset DEF Channels
<1>2. S \in SUBSET Int
  BY DEF Channels
<1>3. /\ Cardinality(S) \in Nat
      /\ \A n \in 1 .. Cardinality(S) : \E c \in S : Rank(S, c) = n
  BY <1>1, <1>2, Ranks
<1>4. \A k \in 1 .. Cardinality(S) : (CHOOSE c \in S : Rank(S, c) = k) \in S
  BY <1>3
<1>5. InOrder(S) = [k \in 1 .. Cardinality(S) |-> CHOOSE c \in S : Rank(S, c) = k]
  BY DEF InOrder, Rank
<1>6. Cardinality(S) # 0
  BY <1>1, FS_EmptySet
<1>7. (\E c \in Channels : S = {c}) => Cardinality(S) = 1
  BY FS_Singleton
<1>8. InOrder(S) \in Seq(Channels) /\ Len(InOrder(S)) = Cardinality(S)
  BY <1>3, <1>4, <1>5
<1> QED
  BY <1>3, <1>6, <1>7, <1>8

(***************************************************************************)
(* The streams of a runtime that is torn down.                             *)
(***************************************************************************)
Devs ==
  [chan : [Channels -> Tasks \cup {NoTask}], status : [Tasks -> {"none", "open", "closed", "twice"}],
   running : [Tasks -> BOOLEAN], dests : [Tasks -> [Tasks -> Nat]], subs : [Tasks -> [Tasks -> Windows]]]

LEMMA StopType ==
  ASSUME NEW dev \in Devs, NEW S PROVE Stop(dev, S) \in Devs
<1>1. /\ dev.running \in [Tasks -> BOOLEAN]
      /\ dev.dests \in [Tasks -> [Tasks -> Nat]]
      /\ dev.subs \in [Tasks -> [Tasks -> Windows]]
  BY DEF Devs
<1>2. NoWindow \in Windows
  BY DEF NoWindow, Windows
<1>3. ASSUME NEW run \in [Tasks -> BOOLEAN], NEW dst \in [Tasks -> [Tasks -> Nat]],
             NEW sub \in [Tasks -> [Tasks -> Windows]]
      PROVE  [dev EXCEPT !.running = run, !.dests = dst, !.subs = sub] \in Devs
  BY DEF Devs
<1> DEFINE stops == {u \in S : dev.running[u]}
<1>4. [u \in Tasks |-> dev.running[u] /\ u \notin stops] \in [Tasks -> BOOLEAN]
  OBVIOUS
<1>5. [u \in Tasks |-> IF u \in stops THEN [t \in Tasks |-> 0] ELSE dev.dests[u]]
         \in [Tasks -> [Tasks -> Nat]]
  BY <1>1
<1>6. [u \in Tasks |-> IF u \in stops THEN [t \in Tasks |-> NoWindow] ELSE dev.subs[u]]
         \in [Tasks -> [Tasks -> Windows]]
  BY <1>1, <1>2
<1> QED
  BY <1>3, <1>4, <1>5, <1>6 DEF Stop

LEMMA CloseStreamType ==
  ASSUME NEW dev \in Devs, NEW s \in Tasks, NEW uses
  PROVE  /\ CloseStream(dev, s, uses) \in Devs
         /\ \A u \in Tasks : CloseStream(dev, s, uses).running[u] => dev.running[u]
<1>5. ASSUME NEW d \in Devs
      PROVE  [d EXCEPT
               !.chan = [c \in Channels |-> IF @[c] = s THEN NoTask ELSE @[c]],
               !.status[s] = IF @ = "open" THEN "closed" ELSE "twice"] \in Devs
  <2>1. d.chan \in [Channels -> Tasks \cup {NoTask}]
        /\ d.status \in [Tasks -> {"none", "open", "closed", "twice"}]
    BY DEF Devs
  <2>2. [c \in Channels |-> IF d.chan[c] = s THEN NoTask ELSE d.chan[c]] \in [Channels -> Tasks \cup {NoTask}]
    BY <2>1
  <2>3. [d.status EXCEPT ![s] = IF d.status[s] = "open" THEN "closed" ELSE "twice"]
          \in [Tasks -> {"none", "open", "closed", "twice"}]
    BY <2>1
  <2> QED
    BY <2>2, <2>3 DEF Devs
<1>6. ASSUME NEW S, NEW u \in Tasks PROVE Stop(dev, S).running[u] => dev.running[u]
  BY DEF Stop, Devs
<1>7. ASSUME NEW d \in Devs
      PROVE  [d EXCEPT
               !.chan = [c \in Channels |-> IF @[c] = s THEN NoTask ELSE @[c]],
               !.status[s] = IF @ = "open" THEN "closed" ELSE "twice"].running = d.running
  BY DEF Devs
<1> DEFINE found == \E c \in Channels : dev.chan[c] = s
           d == Stop(dev, IF found THEN {s} ELSE Range(uses))
           closed == [d EXCEPT
               !.chan = [c \in Channels |-> IF @[c] = s THEN NoTask ELSE @[c]],
               !.status[s] = IF @ = "open" THEN "closed" ELSE "twice"]
<1>8. CloseStream(dev, s, uses) = dev \/ CloseStream(dev, s, uses) = closed
  BY DEF CloseStream
<1>9. d \in Devs /\ \A u \in Tasks : d.running[u] => dev.running[u]
  BY StopType, <1>6
<1> HIDE DEF d
<1>10. closed \in Devs /\ closed.running = d.running
  BY <1>5, <1>7, <1>9
<1> QED
  BY <1>8, <1>9, <1>10

(* They are closed one after the other: the recursion is well defined.     *)
LEMMA CloseStreamsType ==
  ASSUME NEW dev \in Devs, NEW uses \in Seq(Tasks)
  PROVE  /\ CloseStreams(dev, uses) \in Devs
         /\ \A u \in Tasks : CloseStreams(dev, uses).running[u] => dev.running[u]
         /\ Len(uses) = 0 => CloseStreams(dev, uses) = dev
         /\ Len(uses) = 1 => CloseStreams(dev, uses) = CloseStream(dev, uses[1], uses)
<1> DEFINE Step(f, i) == IF i = 0 THEN dev ELSE CloseStream(f[i - 1], uses[i], uses)
           Is(f, n) == f = [i \in 0 .. n |-> Step(f, i)]
           Bad == {n \in 0 .. Len(uses) : ~ \E f \in [0 .. n -> Devs] : Is(f, n)}
<1>1. Bad = {}
  <2> SUFFICES ASSUME Bad # {} PROVE FALSE
    OBVIOUS
  <2>1. PICK n \in Bad : \A m \in Bad : n <= m
    <3>1. Bad \in SUBSET Nat
      OBVIOUS
    <3> HIDE DEF Bad
    <3> QED
      BY <3>1, Least
  <2>2. n \in 0 .. Len(uses) /\ ~ \E f \in [0 .. n -> Devs] : Is(f, n)
    BY <2>1
  <2>3. CASE n = 0
    <3>1. [i \in 0 .. 0 |-> dev] \in [0 .. 0 -> Devs]
      OBVIOUS
    <3>2. Is([i \in 0 .. 0 |-> dev], 0)
      OBVIOUS
    <3> HIDE DEF Is
    <3> QED
      BY <2>2, <2>3, <3>1, <3>2
  <2>4. CASE n # 0
    <3>0. n - 1 \in 0 .. Len(uses)
      BY <2>2, <2>4
    <3>1. n - 1 \in 0 .. Len(uses) /\ n - 1 \notin Bad
      <4> HIDE DEF Bad
      <4>1. n \in Int
        BY <2>2
      <4> QED
        BY <2>1, <3>0, <4>1
    <3>2. PICK f \in [0 .. n - 1 -> Devs] : Is(f, n - 1)
      BY <3>1
    <3> DEFINE last == CloseStream(f[n - 1], uses[n], uses)
               g == [i \in 0 .. n |-> IF i = n THEN last ELSE f[i]]
    <3>3. last \in Devs
      <4>1. f[n - 1] \in Devs /\ uses[n] \in Tasks
        BY <2>2, <2>4
      <4> QED
        BY <4>1, CloseStreamType
    <3> HIDE DEF last
    <3>4. g \in [0 .. n -> Devs]
      BY <2>2, <2>4, <3>3
    <3>5. Is(g, n)
      <4>1. SUFFICES ASSUME NEW i \in 0 .. n PROVE g[i] = Step(g, i)
        OBVIOUS
      <4>2. CASE i = n
        BY <2>2, <2>4, <4>2 DEF last
      <4>3. CASE i # n
        <5>1. i \in 0 .. n - 1 /\ f[i] = Step(f, i)
          BY <2>2, <3>2, <4>3
        <5>2. g[i] = f[i] /\ (i # 0 => g[i - 1] = f[i - 1])
          BY <2>2, <4>3
        <5> QED
          BY <5>1, <5>2
      <4> QED
        BY <4>2, <4>3
    <3> HIDE DEF g, Is
    <3> QED
      BY <2>2, <3>4, <3>5
  <2> QED
    BY <2>3, <2>4
<1>2. Len(uses) \in 0 .. Len(uses)
  OBVIOUS
<1>3. \E f \in [0 .. Len(uses) -> Devs] : Is(f, Len(uses))
  BY <1>1, <1>2
<1> DEFINE Closed[i \in 0 .. Len(uses)] ==
             IF i = 0 THEN dev ELSE CloseStream(Closed[i - 1], uses[i], uses)
<1>4. CloseStreams(dev, uses) = Closed[Len(uses)]
  BY DEF CloseStreams
<1>5. Closed = CHOOSE f : Is(f, Len(uses))
  OBVIOUS
<1>6. Is(Closed, Len(uses))
  BY <1>3, <1>5
<1> HIDE DEF Closed
<1> DEFINE Right(d) == d \in Devs /\ \A u \in Tasks : d.running[u] => dev.running[u]
           Wrong == {n \in 0 .. Len(uses) : ~Right(Closed[n])}
<1>7. Wrong = {}
  <2> SUFFICES ASSUME Wrong # {} PROVE FALSE
    OBVIOUS
  <2>1. PICK n \in Wrong : \A m \in Wrong : n <= m
    <3>1. Wrong \in SUBSET Nat
      OBVIOUS
    <3> HIDE DEF Wrong
    <3> QED
      BY <3>1, Least
  <2>2. n \in 0 .. Len(uses) /\ ~Right(Closed[n]) /\ Closed[n] = Step(Closed, n)
    BY <1>6, <2>1
  <2>3. n # 0
    BY <2>2
  <2>4. n - 1 \in 0 .. Len(uses) /\ uses[n] \in Tasks
    BY <2>2, <2>3
  <2>5. Right(Closed[n - 1])
    <3> HIDE DEF Right
    <3> QED
      BY <2>1, <2>2, <2>4
  <2> QED
    BY <2>2, <2>3, <2>4, <2>5, CloseStreamType
<1>8. Right(Closed[Len(uses)])
  <2> HIDE DEF Right
  <2> QED
    BY <1>2, <1>7
<1>9. Len(uses) = 0 => Closed[Len(uses)] = dev
  BY <1>6
<1>10. Len(uses) = 1 => Closed[Len(uses)] = CloseStream(dev, uses[1], uses)
  <2> SUFFICES ASSUME Len(uses) = 1 PROVE Closed[1] = CloseStream(dev, uses[1], uses)
    OBVIOUS
  <2>1. 0 \in 0 .. 1 /\ 1 \in 0 .. 1 /\ 1 # 0 /\ 1 - 1 = 0
    OBVIOUS
  <2>2. Closed[0] = dev /\ Closed[1] = CloseStream(Closed[0], uses[1], uses)
    BY <1>6, <2>1
  <2> QED
    BY <2>2
<1> QED
  BY <1>4, <1>8, <1>9, <1>10

(* A streamer occurs in a sequence of at most one as often as it should.   *)
LEMMA TimesIs ==
  ASSUME NEW uses \in Seq(Tasks), NEW s \in Tasks
  PROVE  /\ Times(uses, s) \in Nat
         /\ uses = <<>> => Times(uses, s) = 0
         /\ \A u \in Tasks : uses = <<u>> => Times(uses, s) = IF u = s THEN 1 ELSE 0
<1> DEFINE I == {i \in DOMAIN uses : uses[i] = s}
<1>1. DOMAIN uses = 1 .. Len(uses) /\ Len(uses) \in Int /\ 1 \in Int
  OBVIOUS
<1>2. IsFiniteSet(1 .. Len(uses))
  BY ONLY <1>1, FS_Interval
<1>3. I \in SUBSET (1 .. Len(uses))
  BY <1>1
<1>4. uses = <<>> => I = {}
  BY <1>1
<1>5. ASSUME NEW u \in Tasks, uses = <<u>> PROVE I = IF u = s THEN {1} ELSE {}
  <2>1. Len(uses) = 1 /\ uses[1] = u
    BY <1>5
  <2> QED
    BY <1>1, <2>1
<1>6. Times(uses, s) = Cardinality(I)
  BY DEF Times
<1> HIDE DEF I
<1>7. Cardinality(I) \in Nat
  BY <1>2, <1>3, FS_Subset, FS_CardinalityType
<1>8. Cardinality({}) = 0 /\ Cardinality({1}) = 1
  BY FS_EmptySet, FS_Singleton
<1> QED
  BY <1>4, <1>5, <1>6, <1>7, <1>8

(***************************************************************************)
(* What the steps have in common.                                          *)
(***************************************************************************)

(* A move of one thread.                                                   *)
LEMMA GotoIs ==
  ASSUME ThreadInv, NEW p \in Threads, NEW l, Goto(p, l)
  PROVE  /\ pc'[p] = l
         /\ \A q \in Threads : q # p => pc'[q] = pc[q]
BY DEF ThreadInv, Goto

LEMMA LabelFacts ==
  /\ \A p \in Threads : LabelsOf(p) \subseteq Labels
  /\ \A t \in Tasks : LabelsOf(Act(t)) = ActLabels
  /\ \A e \in Errs : LabelsOf(e) = ActLabels
  /\ LabelsOf(Amqp) = Deactivating \cup Retuning /\ LabelsOf(Watchdog) = Deactivating
<1>1. \A t \in Tasks : Act(t) # Amqp /\ Act(t) # Watchdog
  BY ThreadFacts
<1>2. \A e \in Errs : e # Amqp /\ e # Watchdog
  BY ThreadFacts
<1> QED
  BY <1>1, <1>2, ThreadFacts
  DEF LabelsOf, Labels, ActLabels, Deactivating, Retuning, Calling

(* A thread moves, and no task enters the registry.                        *)
LEMMA Moved ==
  ASSUME ThreadInv, NEW p \in Threads, NEW l \in LabelsOf(p), Goto(p, l),
         p \in Acts => pc[p] # "idle" /\ l # "idle",
         \A t \in Tasks : state'[t] = "absent" <=> state[t] = "absent",
         first' \in [Threads -> BOOLEAN],
         arg' \in [Threads -> Tasks \cup {NoTask}],
         \A q \in Threads : q # p => arg'[q] = arg[q],
         p \in Acts \cup Errs => arg'[p] = p[2],
         l \in Calling => arg'[p] \in Tasks /\ state[arg'[p]] # "absent",
         \A s \in Tasks : running'[s] => state[s] # "absent"
  PROVE  ThreadInv'
<1>1. /\ pc'[p] = l
      /\ \A q \in Threads : q # p => pc'[q] = pc[q]
  BY GotoIs
<1>2. pc' \in [Threads -> Labels]
  BY LabelFacts DEF ThreadInv, Goto
<1>3. \A q \in Threads : pc'[q] \in LabelsOf(q)
  BY <1>1 DEF ThreadInv
<1>4. \A q \in Acts \cup Errs : arg'[q] = q[2]
  BY ThreadFacts DEF ThreadInv
<1>5. \A q \in Threads : pc'[q] \in Calling => arg'[q] \in Tasks /\ state'[arg'[q]] # "absent"
  BY <1>1 DEF ThreadInv
<1>6. \A t \in Tasks : state'[t] = "absent" <=> pc'[Act(t)] = "idle"
  <2> SUFFICES ASSUME NEW t \in Tasks PROVE state'[t] = "absent" <=> pc'[Act(t)] = "idle"
    OBVIOUS
  <2>1. Act(t) \in Threads /\ Act(t) \in Acts
    BY ThreadFacts
  <2> QED
    BY <1>1, <2>1 DEF ThreadInv
<1>7. \A s \in Tasks : running'[s] => state'[s] # "absent"
  OBVIOUS
<1> QED
  BY <1>2, <1>3, <1>4, <1>5, <1>6, <1>7 DEF ThreadInv

(* It moves where it needs no task, or within a call about the one it has. *)
LEMMA MovedOn ==
  ASSUME ThreadInv, NEW p \in Threads, NEW l \in LabelsOf(p), Goto(p, l),
         p \in Acts => pc[p] # "idle" /\ l # "idle",
         \A t \in Tasks : state'[t] = "absent" <=> state[t] = "absent",
         UNCHANGED callVars,
         l \in Calling => \/ pc[p] \in Calling
                          \/ arg[p] \in Tasks /\ state[arg[p]] # "absent",
         \A s \in Tasks : running'[s] => state[s] # "absent"
  PROVE  ThreadInv'
<1>1. /\ arg' = arg /\ first' = first
      /\ first \in [Threads -> BOOLEAN] /\ arg \in [Threads -> Tasks \cup {NoTask}]
      /\ \A q \in Acts \cup Errs : arg[q] = q[2]
      /\ l \in Calling => arg[p] \in Tasks /\ state[arg[p]] # "absent"
  BY DEF ThreadInv, callVars
<1> QED
  BY <1>1, Moved

(* A call ends.                                                            *)
LEMMA MovedBack ==
  ASSUME ThreadInv, NEW p \in Threads, pc[p] \in Calling, Returned(p),
         state' = state, \A s \in Tasks : running'[s] => state[s] # "absent"
  PROVE  ThreadInv' /\ \E l \in LabelsOf(p) \ Retuning : l \notin Calling /\ Goto(p, l)
<1> DEFINE l == IF p \in {Amqp, Watchdog} THEN "idle" ELSE "done"
<1>1. l \in LabelsOf(p) /\ l \notin Calling /\ l \notin Retuning /\ Goto(p, l)
  BY DEF Returned, LabelsOf, Deactivating, ActLabels, Calling, Retuning
<1>2. p \in Acts => pc[p] # "idle" /\ l # "idle"
  BY ThreadFacts DEF Calling
<1>3. p[2] \in Tasks \cup {NoTask}
  BY ThreadFacts DEF Amqp, Watchdog
<1>4. /\ first' = [first EXCEPT ![p] = FALSE] /\ arg' = [arg EXCEPT ![p] = p[2]]
      /\ first \in [Threads -> BOOLEAN] /\ arg \in [Threads -> Tasks \cup {NoTask}]
  BY DEF Returned, ThreadInv
<1>5. /\ first' \in [Threads -> BOOLEAN] /\ arg' \in [Threads -> Tasks \cup {NoTask}]
      /\ \A q \in Threads : q # p => arg'[q] = arg[q]
      /\ arg'[p] = p[2]
  BY <1>3, <1>4
<1> HIDE DEF l
<1>6. ThreadInv'
  BY <1>1, <1>2, <1>5, Moved
<1> QED
  BY <1>1, <1>6

(* The AMQP thread is where it was, or where it retunes as little.         *)
LEMMA WorkKept ==
  ASSUME WorkInv, work' = work, pc'[Amqp] \in Retuning <=> pc[Amqp] \in Retuning,
         \A t \in Tasks : state'[t] = "absent" <=> state[t] = "absent"
  PROVE  WorkInv'
BY DEF WorkInv, Single, OneChannel

LEMMA AllocKept ==
  ASSUME AllocInv, alloc' = alloc, copy' = copy,
         \A t \in Tasks : state'[t] = "absent" <=> state[t] = "absent",
         \A t \in Tasks : pc'[Act(t)] \in {"lock"} \cup Holding => pc[Act(t)] \in {"lock"} \cup Holding
  PROVE  AllocInv'
BY DEF AllocInv, OneChannel

(* A move of a thread that is neither retuning nor about to: its work      *)
(* and that of the activations are as they were.                           *)
LEMMA MovedApart ==
  ASSUME ThreadInv, WorkInv, AllocInv,
         NEW p \in Threads, NEW l \in LabelsOf(p), Goto(p, l),
         p = Amqp => (pc[p] \in Retuning <=> l \in Retuning),
         p \in Acts /\ l \in {"lock"} \cup Holding => pc[p] \in {"lock"} \cup Holding,
         work' = work, alloc' = alloc, copy' = copy,
         \A t \in Tasks : state'[t] = "absent" <=> state[t] = "absent"
  PROVE  WorkInv' /\ AllocInv'
<1>1. /\ pc'[p] = l
      /\ \A q \in Threads : q # p => pc'[q] = pc[q]
  BY GotoIs
<1>2. pc'[Amqp] \in Retuning <=> pc[Amqp] \in Retuning
  BY <1>1, ThreadFacts
<1>3. \A t \in Tasks : pc'[Act(t)] \in {"lock"} \cup Holding => pc[Act(t)] \in {"lock"} \cup Holding
  BY <1>1, ThreadFacts
<1> QED
  BY <1>2, <1>3, WorkKept, AllocKept

(* What a step leaves alone keeps its type.                                *)
LEMMA TypesKept ==
  /\ TaskTypes /\ UNCHANGED taskVars => TaskTypes'
  /\ StreamTypes /\ UNCHANGED <<tuned, streamVars, rtVars>> => StreamTypes'
  /\ ActTypes /\ UNCHANGED <<actVars, hw>> => ActTypes'
<1>1. TaskTypes /\ UNCHANGED taskVars => TaskTypes'
  BY DEF TaskTypes, taskVars
<1>2. StreamTypes /\ UNCHANGED <<tuned, streamVars, rtVars>> => StreamTypes'
  BY DEF StreamTypes, streamVars, rtVars
<1>3. ActTypes /\ UNCHANGED <<actVars, hw>> => ActTypes'
  BY DEF ActTypes, actVars
<1> QED
  BY <1>1, <1>2, <1>3

(***************************************************************************)
(* KnownInv is inductive.                                                  *)
(***************************************************************************)
LEMMA KnownInit ==
  ASSUME Init PROVE KnownInv
<1>1. TaskTypes /\ StreamTypes /\ ActTypes
  <2>1. NoWindow \in Windows /\ NoAllocation \in Allocations /\ NoRuntime \in Runtimes
    BY DEF NoWindow, Windows, NoAllocation, Allocations, NoRuntime, Runtimes
  <2> QED
    BY <2>1 DEF Init, TaskTypes, StreamTypes, ActTypes
<1>2. \A p \in Threads : p[2] \in Tasks \cup {NoTask}
  BY ThreadFacts DEF Amqp, Watchdog
<1>3. \A p \in Threads : "idle" \in LabelsOf(p) /\ "idle" \in Labels
  BY DEF LabelsOf, Deactivating, ActLabels, Labels
<1>4. ThreadInv
  BY <1>2, <1>3, ThreadFacts DEF Init, ThreadInv, Calling
<1>5. WorkInv
  <2>1. pc[Amqp] = "idle" /\ work = NoWork
    BY ThreadFacts DEF Init
  <2> QED
    BY <2>1 DEF WorkInv, NoWork, NoFit, Retuning
<1>6. AllocInv
  BY ThreadFacts DEF Init, AllocInv, Holding
<1> QED
  BY <1>1, <1>4, <1>5, <1>6 DEF KnownInv

LEMMA ClaimKnown ==
  ASSUME KnownInv, NEW p \in Threads, Claim(p) PROVE KnownInv'
<1> DEFINE t == arg[p]
<1>1. /\ ThreadInv /\ WorkInv /\ AllocInv /\ TaskTypes /\ StreamTypes /\ ActTypes
      /\ t \in Tasks /\ state[t] # "absent"
  BY DEF KnownInv, ThreadInv, Claim, Calling
<1>2. PICK l \in {"orphan", "teardown"} : Goto(p, l)
  BY DEF Claim
<1>3. /\ state' \in [Tasks -> {"absent", "pending", "running", "ended"}]
      /\ \A u \in Tasks : state'[u] = "absent" <=> state[u] = "absent"
      /\ first' \in [Threads -> BOOLEAN]
  BY <1>1 DEF Claim, TaskTypes, ThreadInv
<1>4. l \in LabelsOf(p) /\ l \in Calling /\ pc[p] = "claim" /\ l # "idle" /\ l \notin {"lock"} \cup Holding
      /\ (pc[p] \in Retuning <=> l \in Retuning)
  BY DEF LabelsOf, Deactivating, ActLabels, Calling, Claim, Holding, Retuning
<1>5. /\ UNCHANGED <<asked, alloc, slots, tuned, streamVars, rtVars, actVars, hw, arg, work>>
      /\ alloc' = alloc /\ copy' = copy /\ running' = running /\ arg' = arg /\ work' = work
  BY DEF Claim, actVars, streamVars
<1>6. /\ arg \in [Threads -> Tasks \cup {NoTask}]
      /\ \A q \in Acts \cup Errs : arg[q] = q[2]
      /\ \A s \in Tasks : running[s] => state[s] # "absent"
  BY <1>1 DEF ThreadInv
<1> HIDE DEF t
<1>7. ThreadInv'
  <2>1. arg' \in [Threads -> Tasks \cup {NoTask}] /\ \A q \in Threads : q # p => arg'[q] = arg[q]
    BY <1>5, <1>6
  <2>2. p \in Acts \cup Errs => arg'[p] = p[2]
    BY <1>5, <1>6
  <2>3. arg'[p] \in Tasks /\ state[arg'[p]] # "absent"
    BY <1>1, <1>5 DEF t
  <2>4. p \in Acts => pc[p] # "idle" /\ l # "idle"
    BY <1>4
  <2>5. \A s \in Tasks : running'[s] => state[s] # "absent"
    BY <1>5, <1>6
  <2>6. l \in LabelsOf(p)
    BY <1>4
  <2> QED
    BY <1>1, <1>2, <1>3, <2>1, <2>2, <2>3, <2>4, <2>5, <2>6, Moved
<1>8. WorkInv' /\ AllocInv'
  BY <1>1, <1>2, <1>3, <1>4, <1>5, MovedApart
<1>9. TaskTypes' /\ StreamTypes' /\ ActTypes'
  <2>1. TaskTypes'
    BY <1>1, <1>3, <1>5 DEF TaskTypes
  <2> QED
    BY <1>1, <1>5, <2>1, TypesKept
<1> QED
  BY <1>7, <1>8, <1>9 DEF KnownInv

(* A call that only moves on, or returns.                                  *)
LEMMA CallKnown ==
  ASSUME KnownInv, NEW p \in Threads, pc[p] \in Calling,
         Returned(p) \/ \E l \in Calling : Goto(p, l) /\ UNCHANGED callVars,
         TaskTypes', StreamTypes', ActTypes',
         state' = state, alloc' = alloc, copy' = copy, work' = work,
         \A s \in Tasks : running'[s] => running[s]
  PROVE  KnownInv'
<1>1. ThreadInv /\ WorkInv /\ AllocInv
  BY DEF KnownInv
<1>2. \A s \in Tasks : running'[s] => state[s] # "absent"
  BY <1>1 DEF ThreadInv
<1>3. pc[p] \notin Retuning
  BY DEF Calling, Retuning
<1>4. \A l \in Calling : l \in LabelsOf(p) /\ l # "idle" /\ l \notin Retuning /\ l \notin {"lock"} \cup Holding
  BY DEF Calling, LabelsOf, Deactivating, ActLabels, Retuning, Holding
<1>5. pc[p] # "idle"
  BY DEF Calling
<1>6. CASE Returned(p)
  <2>1. PICK l \in LabelsOf(p) \ Retuning : l \notin Calling /\ Goto(p, l) /\ ThreadInv'
    BY <1>1, <1>2, <1>6, MovedBack
  <2>2. l \notin {"lock"} \cup Holding
    <3>1. pc'[p] = IF p \in {Amqp, Watchdog} THEN "idle" ELSE "done"
      BY <1>1, <1>6 DEF Returned, Goto, ThreadInv
    <3>2. pc'[p] = l
      BY <1>1, <2>1, GotoIs
    <3> QED
      BY <3>1, <3>2 DEF Holding
  <2>3. WorkInv' /\ AllocInv'
    BY <1>1, <1>3, <2>1, <2>2, MovedApart
  <2> QED
    BY <2>1, <2>3 DEF KnownInv
<1>7. CASE \E l \in Calling : Goto(p, l) /\ UNCHANGED callVars
  <2>1. PICK l \in Calling : Goto(p, l) /\ UNCHANGED callVars
    BY <1>7
  <2>2. ThreadInv'
    <3>1. l \in LabelsOf(p) /\ l # "idle"
      BY <1>4
    <3>2. \A t \in Tasks : state'[t] = "absent" <=> state[t] = "absent"
      OBVIOUS
    <3>3. pc[p] \in Calling /\ Goto(p, l) /\ UNCHANGED callVars
      BY <2>1
    <3> QED
      BY <1>1, <1>2, <1>5, <3>1, <3>2, <3>3, MovedOn
  <2>3. WorkInv' /\ AllocInv'
    BY <1>1, <1>3, <1>4, <2>1, MovedApart
  <2> QED
    BY <2>2, <2>3 DEF KnownInv
<1> QED
  BY <1>6, <1>7

LEMMA CheckOrphanKnown ==
  ASSUME KnownInv, NEW p \in Threads, CheckOrphan(p) PROVE KnownInv'
<1>1. /\ pc[p] \in Calling
      /\ Returned(p) \/ \E l \in Calling : Goto(p, l) /\ UNCHANGED callVars
  BY DEF CheckOrphan, Calling
<1>2. UNCHANGED <<taskVars, tuned, streamVars, rtVars, actVars, hw, work>>
  BY DEF CheckOrphan
<1>3. TaskTypes' /\ StreamTypes' /\ ActTypes'
  BY <1>2, TypesKept DEF KnownInv
<1>4. state' = state /\ alloc' = alloc /\ copy' = copy /\ work' = work /\ running' = running
  BY <1>2 DEF taskVars, actVars, streamVars
<1> QED
  BY <1>1, <1>3, <1>4, CallKnown

LEMMA ReleaseSlotKnown ==
  ASSUME KnownInv, NEW p \in Threads, ReleaseSlot(p) PROVE KnownInv'
<1>1. pc[p] \in Calling /\ Returned(p)
  BY DEF ReleaseSlot, Calling
<1>2. UNCHANGED <<asked, state, alloc, tuned, streamVars, rtVars, actVars, hw, work>>
  BY DEF ReleaseSlot
<1>3. TaskTypes'
  <2>1. slots \in Seq(Slots)
    BY DEF KnownInv, TaskTypes
  <2>2. slots' \in Seq(Slots)
    BY <2>1, RemoveIs DEF ReleaseSlot
  <2> QED
    BY <1>2, <2>2 DEF KnownInv, TaskTypes
<1>4. StreamTypes' /\ ActTypes'
  BY <1>2, TypesKept DEF KnownInv
<1>5. state' = state /\ alloc' = alloc /\ copy' = copy /\ work' = work /\ running' = running
  BY <1>2 DEF actVars, streamVars
<1> QED
  BY <1>1, <1>3, <1>4, <1>5, CallKnown

(* What a teardown works on, and leaves.                                   *)
Left(t) ==
  [chan |-> chan, status |-> status, running |-> running,
   dests |-> DestsWithout(t), subs |-> SubsWithout(t)]

LEMMA LeftType ==
  ASSUME StreamTypes, NEW t \in Tasks PROVE Left(t) \in Devs
<1>1. DestsWithout(t) \in [Tasks -> [Tasks -> Nat]]
  <2> DEFINE D(s) == [dests[s] EXCEPT ![t] =
                 IF runtime[t].sub \/ @ = 0 THEN @
                 ELSE LET n == Times(runtime[t].uses, s)
                      IN IF n > @ THEN 0 ELSE @ - n]
  <2>1. ASSUME NEW s \in Tasks PROVE D(s) \in [Tasks -> Nat]
    <3>1. runtime[t].uses \in Seq(Tasks)
      BY DEF StreamTypes, Runtimes
    <3>2. Times(runtime[t].uses, s) \in Nat
      BY <3>1, TimesIs
    <3>3. dests[s] \in [Tasks -> Nat] /\ dests[s][t] \in Nat
      BY DEF StreamTypes
    <3> QED
      BY <3>2, <3>3
  <2> HIDE DEF D
  <2>2. [s \in Tasks |-> D(s)] \in [Tasks -> [Tasks -> Nat]]
    BY <2>1
  <2> QED
    BY <2>2 DEF DestsWithout, D
<1>2. SubsWithout(t) \in [Tasks -> [Tasks -> Windows]]
  <2> DEFINE S(s) == [subs[s] EXCEPT ![t] =
                 IF runtime[t].sub /\ s \in Range(runtime[t].uses) THEN NoWindow ELSE @]
  <2>1. ASSUME NEW s \in Tasks PROVE S(s) \in [Tasks -> Windows]
    BY DEF StreamTypes, NoWindow, Windows
  <2> HIDE DEF S
  <2>2. [s \in Tasks |-> S(s)] \in [Tasks -> [Tasks -> Windows]]
    BY <2>1
  <2> QED
    BY <2>2 DEF SubsWithout, S
<1> QED
  BY <1>1, <1>2 DEF Left, Devs, StreamTypes

LEMMA TeardownIs ==
  ASSUME StreamTypes, NEW p \in Threads, arg[p] \in Tasks, Teardown(p)
  PROVE  LET dev == CloseStreams(Left(arg[p]), runtime[arg[p]].uses)
         IN /\ dev \in Devs
            /\ \A s \in Tasks : dev.running[s] => running[s]
            /\ chan' = dev.chan /\ status' = dev.status /\ running' = dev.running
            /\ dests' = dev.dests /\ subs' = dev.subs
            /\ runtime' = [runtime EXCEPT ![arg[p]] = NoRuntime]
<1>1. runtime[arg[p]].uses \in Seq(Tasks)
  BY DEF StreamTypes, Runtimes
<1>2. /\ CloseStreams(Left(arg[p]), runtime[arg[p]].uses) \in Devs
      /\ \A s \in Tasks : CloseStreams(Left(arg[p]), runtime[arg[p]].uses).running[s] => running[s]
  <2>1. Left(arg[p]).running = running
    BY DEF Left
  <2> QED
    BY <1>1, <2>1, LeftType, CloseStreamsType
<1> QED
  BY <1>2 DEF Teardown, Left

LEMMA TeardownKnown ==
  ASSUME KnownInv, NEW p \in Threads, Teardown(p) PROVE KnownInv'
<1> DEFINE t == arg[p]
           dev == CloseStreams(Left(t), runtime[t].uses)
<1>1. /\ StreamTypes /\ ThreadInv /\ WorkInv /\ AllocInv
      /\ t \in Tasks /\ pc[p] \in Calling
  BY DEF KnownInv, ThreadInv, Teardown, Calling
<1>2. UNCHANGED <<taskVars, tuned, label, actVars, hw, work>>
  BY DEF Teardown
<1>3. /\ dev \in Devs
      /\ \A s \in Tasks : dev.running[s] => running[s]
      /\ chan' = dev.chan /\ status' = dev.status /\ running' = dev.running
      /\ dests' = dev.dests /\ subs' = dev.subs
      /\ runtime' = [runtime EXCEPT ![t] = NoRuntime]
  BY <1>1, TeardownIs
<1> HIDE DEF dev
<1>4. StreamTypes'
  <2>1. NoRuntime \in Runtimes
    BY DEF NoRuntime, Runtimes
  <2>2. runtime' \in [Tasks -> Runtimes]
    BY <1>1, <1>3, <2>1 DEF StreamTypes
  <2> QED
    BY <1>1, <1>2, <1>3, <2>2 DEF StreamTypes, Devs
<1>5. TaskTypes' /\ ActTypes'
  BY <1>2, TypesKept DEF KnownInv
<1>6. state' = state /\ alloc' = alloc /\ copy' = copy /\ work' = work
  BY <1>2 DEF taskVars, actVars
<1>7. Returned(p) \/ \E l \in Calling : Goto(p, l) /\ UNCHANGED callVars
  BY DEF Teardown, Calling
<1>8. \A s \in Tasks : running'[s] => running[s]
  BY <1>3
<1> QED
  BY <1>1, <1>4, <1>5, <1>6, <1>7, <1>8, CallKnown

(* The watchdog, a client's cancellation and a failed stream call           *)
(* deactivateTask on a task that the registry has.                         *)
LEMMA BeginKnown ==
  ASSUME KnownInv, NEW p \in {Amqp, Watchdog} \cup Errs, NEW t \in Tasks,
         pc[p] = "idle", Goto(p, "claim"), state[t] # "absent",
         arg' = [arg EXCEPT ![p] = t] \/ (arg' = arg /\ t = p[2]),
         p \in Errs => t = p[2],
         UNCHANGED <<taskVars, tuned, streamVars, rtVars, actVars, hw, first, work>>
  PROVE  KnownInv'
<1>1. ThreadInv /\ WorkInv /\ AllocInv
  BY DEF KnownInv
<1>2. /\ p \in Threads /\ p \notin Acts
      /\ p \notin Errs => p \in {Amqp, Watchdog}
  BY ThreadFacts
<1>3. "claim" \in LabelsOf(p) /\ "claim" \in Calling /\ pc[p] \notin Retuning /\ "claim" \notin Retuning
  BY DEF LabelsOf, Deactivating, ActLabels, Calling, Retuning
<1>4. /\ state' = state /\ alloc' = alloc /\ copy' = copy /\ work' = work
      /\ running' = running /\ first' = first
  BY DEF taskVars, actVars, streamVars
<1>5. /\ arg' \in [Threads -> Tasks \cup {NoTask}]
      /\ \A q \in Threads : q # p => arg'[q] = arg[q]
      /\ p \in Errs => arg'[p] = p[2]
  BY <1>1, <1>2 DEF ThreadInv
<1>6. arg'[p] = t
  <2>1. CASE arg' = [arg EXCEPT ![p] = t]
    BY <1>1, <1>2, <2>1 DEF ThreadInv
  <2>2. CASE arg' = arg /\ p \in Errs
    BY <1>1, <1>2, <2>2 DEF ThreadInv
  <2>3. CASE arg' = arg /\ t = p[2] /\ p \notin Errs
    BY <1>2, <2>3, ConstantsAssumption DEF Amqp, Watchdog
  <2> QED
    BY <2>1, <2>2, <2>3
<1>7. /\ first' \in [Threads -> BOOLEAN]
      /\ \A s \in Tasks : running'[s] => state[s] # "absent"
  BY <1>1, <1>4 DEF ThreadInv
<1>8. ThreadInv'
  BY <1>1, <1>2, <1>3, <1>4, <1>5, <1>6, <1>7, Moved
<1>9. WorkInv' /\ AllocInv'
  BY <1>1, <1>2, <1>3, <1>4, MovedApart
<1>10. TaskTypes' /\ StreamTypes' /\ ActTypes'
  BY TypesKept DEF KnownInv
<1> QED
  BY <1>8, <1>9, <1>10 DEF KnownInv

LEMMA CallsKnown ==
  ASSUME KnownInv, NEW t \in Tasks, Expire(t) \/ Cancel(t) PROVE KnownInv'
<1>1. CASE Expire(t)
  <2>1. /\ state[t] # "absent" /\ pc[Watchdog] = "idle" /\ Goto(Watchdog, "claim")
        /\ arg' = [arg EXCEPT ![Watchdog] = t]
        /\ UNCHANGED <<taskVars, tuned, streamVars, rtVars, actVars, hw, first, work>>
    BY <1>1 DEF Expire
  <2> QED
    BY <2>1, ThreadFacts, BeginKnown
<1>2. CASE Cancel(t)
  <2>1. /\ state[t] # "absent" /\ pc[Amqp] = "idle" /\ Goto(Amqp, "claim")
        /\ arg' = [arg EXCEPT ![Amqp] = t]
        /\ UNCHANGED <<taskVars, tuned, streamVars, rtVars, actVars, hw, first, work>>
    BY <1>2 DEF Cancel
  <2> QED
    BY <2>1, ThreadFacts, BeginKnown
<1> QED
  BY <1>1, <1>2

LEMMA StreamErrorKnown ==
  ASSUME KnownInv, NEW s \in Failing, StreamError(s) PROVE KnownInv'
<1>1. <<"err", s>> \in Errs /\ s = <<"err", s>>[2] /\ s \in Tasks
  BY ThreadFacts, ConstantsAssumption
<1>2. state[s] # "absent"
  BY <1>1 DEF KnownInv, ThreadInv, StreamError
<1>3. arg' = arg /\ UNCHANGED <<taskVars, tuned, streamVars, rtVars, actVars, hw, first, work>>
  BY DEF StreamError, callVars
<1> QED
  BY <1>1, <1>2, <1>3, BeginKnown DEF StreamError

(***************************************************************************)
(* KnownInv and the AMQP thread.                                           *)
(***************************************************************************)

(* A task enters the registry, with those that are retuned for it or none. *)
LEMMA CommitKnown ==
  ASSUME KnownInv, NEW t \in Tasks, NEW f \in Fits, Single(f.rx), state[t] = "absent",
         NEW base \in [Tasks -> Allocations],
         \A u \in Tasks : base[u].rx = alloc[u].rx /\ (alloc[u].win[2] > 0 => base[u].win[2] > 0),
         Commit(t, f, base), work' = NoWork,
         UNCHANGED <<asked, tuned, streamVars, rtVars, actVars, hw, callVars>>
  PROVE  KnownInv'
<1>1. /\ ThreadInv /\ AllocInv /\ TaskTypes
      /\ Device.rx \in Nat
  BY ConstantsAssumption DEF KnownInv
<1>2. f.rx \in SUBSET Channels /\ f.rx # {} /\ f.cf \in Int /\ f.sr \in Nat /\ f.sr > 0
  BY DEF Fits
<1>3. /\ InOrder(f.rx) \in Seq(Channels) /\ InOrder(f.rx) # <<>>
      /\ OneChannel => Len(InOrder(f.rx)) = 1
  BY <1>1, <1>2, InOrderIs DEF Single
<1>4. PICK a \in Allocations :
         /\ a.win = WindowOf(f) /\ a.rx = InOrder(f.rx)
         /\ alloc' = [base EXCEPT ![t] = a]
  <2> DEFINE out == IF f.sr = asked[t].sr THEN 0 ELSE asked[t].sr
  <2>1. out \in Nat
    BY <1>1, AskedIs DEF TaskTypes
  <2>2. WindowOf(f) \in Windows
    BY <1>2 DEF WindowOf, Windows
  <2>3. [win |-> WindowOf(f), out |-> out, rx |-> InOrder(f.rx)] \in Allocations
    BY <1>3, <2>1, <2>2 DEF Allocations
  <2> QED
    BY <2>3 DEF Commit
<1>5. /\ state' = [state EXCEPT ![t] = "pending"]
      /\ pc' = [pc EXCEPT ![Amqp] = "idle", ![Act(t)] = "start"]
  BY DEF Commit, Act
<1>6. TaskTypes'
  <2>1. slots' \in Seq(Slots)
    <3> DEFINE s == [task |-> t, from |-> 0, to |-> 1, cf |-> f.cf, sr |-> f.sr,
                     lo |-> f.lo, hi |-> f.hi, rx |-> f.rx]
    <3>1. s \in Slots
      BY DEF Fits, Slots
    <3>2. slots' = Append(slots, s)
      BY DEF Commit, Insert
    <3> HIDE DEF s
    <3> QED
      BY <1>1, <3>1, <3>2 DEF TaskTypes
  <2>2. alloc' \in [Tasks -> Allocations]
    BY <1>4
  <2>3. state' \in [Tasks -> {"absent", "pending", "running", "ended"}]
    BY <1>1, <1>5 DEF TaskTypes
  <2> QED
    BY <1>1, <2>1, <2>2, <2>3 DEF TaskTypes
<1>7. StreamTypes' /\ ActTypes'
  BY TypesKept DEF KnownInv
<1>8. /\ Act(t) \in Threads /\ Amqp \in Threads /\ Act(t) # Amqp
      /\ pc'[Amqp] = "idle" /\ pc'[Act(t)] = "start"
      /\ \A q \in Threads : q # Amqp /\ q # Act(t) => pc'[q] = pc[q]
  BY <1>1, <1>5, ThreadFacts DEF ThreadInv
<1>9. \A u \in Tasks : u # t => Act(u) # Act(t) /\ Act(u) # Amqp /\ pc'[Act(u)] = pc[Act(u)]
  BY <1>8, ThreadFacts
<1>10. /\ state'[t] = "pending"
       /\ \A u \in Tasks : u # t => state'[u] = state[u]
  BY <1>1, <1>5 DEF TaskTypes
<1>11. ThreadInv'
  <2>1. pc' \in [Threads -> Labels]
    BY <1>1, <1>5 DEF ThreadInv, Labels
  <2>2. \A q \in Threads : pc'[q] \in LabelsOf(q)
    <3>1. "idle" \in LabelsOf(Amqp) /\ "start" \in LabelsOf(Act(t))
      BY LabelFacts DEF Deactivating, ActLabels
    <3> QED
      BY <1>1, <1>8, <3>1 DEF ThreadInv
  <2>3. arg' = arg /\ first' = first /\ running' = running
    BY DEF callVars, streamVars
  <2>4. \A q \in Threads : pc'[q] \in Calling => arg'[q] \in Tasks /\ state'[arg'[q]] # "absent"
    BY <1>1, <1>8, <1>10, <2>3 DEF ThreadInv, Calling
  <2>5. \A u \in Tasks : state'[u] = "absent" <=> pc'[Act(u)] = "idle"
    BY <1>1, <1>8, <1>9, <1>10 DEF ThreadInv
  <2>6. \A s \in Tasks : running'[s] => state'[s] # "absent"
    BY <1>1, <1>10, <2>3 DEF ThreadInv
  <2> QED
    BY <1>1, <2>1, <2>2, <2>3, <2>4, <2>5, <2>6 DEF ThreadInv
<1>12. WorkInv'
  BY <1>8 DEF WorkInv, NoWork, NoFit, Retuning
<1>13. AllocInv'
  <2>1. alloc'[t] = a /\ \A u \in Tasks : u # t => alloc'[u] = base[u]
    BY <1>4
  <2>2. a.win[2] = f.sr
    BY <1>4 DEF WindowOf
  <2>3. copy' = copy
    BY DEF actVars
  <2>4. \A u \in Tasks : state'[u] # "absent" =>
           /\ alloc'[u].rx # <<>> /\ alloc'[u].win[2] > 0
           /\ OneChannel => Len(alloc'[u].rx) = 1
    BY <1>1, <1>2, <1>3, <1>4, <1>10, <2>1, <2>2 DEF AllocInv
  <2>5. \A u \in Tasks : pc'[Act(u)] \in {"lock"} \cup Holding =>
           copy'[u].rx = alloc'[u].rx /\ copy'[u].win[2] > 0
    BY <1>1, <1>8, <1>9, <2>1, <2>3 DEF AllocInv, Holding
  <2> QED
    BY <2>4, <2>5 DEF AllocInv, OneChannel
<1> QED
  BY <1>6, <1>7, <1>11, <1>12, <1>13 DEF KnownInv

LEMMA AcceptKnown ==
  ASSUME KnownInv, NEW t \in Tasks, AcceptFit(t) \/ AcceptJoin(t) PROVE KnownInv'
<1>1. slots \in Seq(Slots) /\ asked \in Requests /\ alloc \in [Tasks -> Allocations]
  BY DEF KnownInv, TaskTypes
<1>2. PICK f : f \in Fits /\ Single(f.rx) /\ Commit(t, f, alloc)
  <2>1. CASE AcceptFit(t)
    BY <1>1, <2>1, FitFits DEF AcceptFit, Accept
  <2>2. CASE AcceptJoin(t)
    BY <1>1, <2>2, JoinFits DEF AcceptJoin, Accept
  <2> QED
    BY <2>1, <2>2
<1>3. /\ state[t] = "absent" /\ pc[Amqp] = "idle" /\ work' = work
      /\ UNCHANGED <<asked, tuned, streamVars, rtVars, actVars, hw, callVars>>
  BY DEF AcceptFit, AcceptJoin, Accept
<1>4. work' = NoWork
  BY <1>3 DEF KnownInv, WorkInv, Retuning
<1> QED
  BY <1>1, <1>2, <1>3, <1>4, CommitKnown

(* A step of tryRetuneCombined that is not its last.                       *)
LEMMA RetuneKnown ==
  ASSUME KnownInv, NEW l \in Retuning, Goto(Amqp, l),
         pc[Amqp] \in Retuning \/ pc[Amqp] = "idle",
         TaskTypes', StreamTypes', ActTypes',
         work'.req \in Tasks, state[work'.req] = "absent",
         work'.fit \in Fits, Single(work'.fit.rx),
         work' \in [req : Tasks \cup {NoTask}, fit : [cf : Int, sr : Nat, lo : Int, hi : Int, rx : SUBSET Channels],
                    over : SUBSET Tasks, todo : SUBSET (Tasks \X Tasks), done : SUBSET (Tasks \X Tasks)],
         state' = state, copy' = copy, running' = running, UNCHANGED callVars,
         \A u \in Tasks : alloc'[u].rx = alloc[u].rx /\ alloc'[u].win = alloc[u].win
  PROVE  KnownInv'
<1>1. ThreadInv /\ AllocInv /\ Amqp \in Threads /\ Amqp \notin Acts
  BY ThreadFacts DEF KnownInv
<1>2. l \in LabelsOf(Amqp) /\ l \notin Calling
  BY LabelFacts DEF Retuning, Calling
<1>3. \A s \in Tasks : running'[s] => state[s] # "absent"
  BY <1>1 DEF ThreadInv
<1>4. ThreadInv'
  BY <1>1, <1>2, <1>3, MovedOn
<1>5. pc'[Amqp] = l /\ \A q \in Threads : q # Amqp => pc'[q] = pc[q]
  BY <1>1, GotoIs
<1>6. WorkInv'
  BY <1>5 DEF WorkInv, Single, OneChannel
<1>7. \A u \in Tasks : pc'[Act(u)] = pc[Act(u)]
  BY <1>5, ThreadFacts
<1>8. AllocInv'
  BY <1>1, <1>7 DEF AllocInv, OneChannel
<1> QED
  BY <1>4, <1>6, <1>8 DEF KnownInv

LEMMA CombineKnown ==
  ASSUME KnownInv, NEW t \in Tasks, Combine(t) PROVE KnownInv'
<1>1. slots \in Seq(Slots) /\ asked \in Requests
  BY DEF KnownInv, TaskTypes
<1>2. PICK f \in Combination(t) :
         /\ work' = [NoWork EXCEPT !.req = t, !.fit = f, !.over = Owners]
         /\ Goto(Amqp, IF WindowOf(f) = WindowOf(slots[1]) THEN "collect" ELSE "tune")
  BY DEF Combine
<1>3. f \in Fits /\ Single(f.rx)
  BY <1>1, CombinationFits
<1>4. Owners \subseteq Tasks
  <2>1. \A i \in DOMAIN slots : slots[i] \in Slots
    BY <1>1
  <2> QED
    BY <2>1 DEF Owners, Slots
<1>5. /\ work'.req = t /\ work'.fit = f
      /\ work' \in [req : Tasks \cup {NoTask}, fit : [cf : Int, sr : Nat, lo : Int, hi : Int, rx : SUBSET Channels],
                    over : SUBSET Tasks, todo : SUBSET (Tasks \X Tasks), done : SUBSET (Tasks \X Tasks)]
  BY <1>2, <1>3, <1>4 DEF NoWork, NoFit, Fits
<1>6. PICK l \in Retuning : Goto(Amqp, l)
  BY <1>2 DEF Retuning
<1>7. /\ pc[Amqp] = "idle" /\ state[t] = "absent"
      /\ UNCHANGED <<taskVars, tuned, streamVars, rtVars, actVars, hw, callVars>>
  BY DEF Combine
<1>8. TaskTypes' /\ StreamTypes' /\ ActTypes'
  BY <1>7, TypesKept DEF KnownInv
<1>9. state' = state /\ copy' = copy /\ alloc' = alloc /\ running' = running
  BY <1>7 DEF taskVars, actVars, streamVars
<1> QED
  BY <1>3, <1>5, <1>6, <1>7, <1>8, <1>9, RetuneKnown

(* Retuning, the AMQP thread works on a request of its own.                *)
LEMMA RetuningFacts ==
  ASSUME KnownInv, pc[Amqp] \in Retuning
  PROVE  /\ work.req \in Tasks /\ state[work.req] = "absent"
         /\ work.fit \in Fits /\ Single(work.fit.rx)
         /\ WindowOf(work.fit) \in Windows /\ WindowOf(work.fit)[2] > 0
         /\ work.fit.cf \in Int /\ work.fit.sr \in Nat \ {0}
         /\ work.over \subseteq Tasks
         /\ work.todo \subseteq Tasks \X Tasks /\ work.done \subseteq Tasks \X Tasks
<1>1. /\ work.req \in Tasks /\ state[work.req] = "absent"
      /\ work.fit \in Fits /\ Single(work.fit.rx)
      /\ work.over \subseteq Tasks
      /\ work.todo \subseteq Tasks \X Tasks /\ work.done \subseteq Tasks \X Tasks
  BY DEF KnownInv, WorkInv
<1>2. work.fit.cf \in Int /\ work.fit.sr \in Nat \ {0}
  BY <1>1 DEF Fits
<1>3. WindowOf(work.fit) \in Windows /\ WindowOf(work.fit)[2] > 0
  BY <1>2 DEF WindowOf, Windows
<1> QED
  BY <1>1, <1>2, <1>3

(* A step of it that leaves the request.                                   *)
LEMMA RetuneStepKnown ==
  ASSUME KnownInv, NEW l \in Retuning, Goto(Amqp, l), pc[Amqp] \in Retuning,
         TaskTypes', StreamTypes', ActTypes',
         NEW todo \in SUBSET (Tasks \X Tasks), NEW done \in SUBSET (Tasks \X Tasks),
         work' = [work EXCEPT !.todo = todo, !.done = done],
         state' = state, copy' = copy, running' = running, UNCHANGED callVars,
         \A u \in Tasks : alloc'[u].rx = alloc[u].rx /\ alloc'[u].win = alloc[u].win
  PROVE  KnownInv'
<1>1. work.req \in Tasks /\ state[work.req] = "absent" /\ work.fit \in Fits /\ Single(work.fit.rx)
  BY RetuningFacts
<1>2. /\ work'.req = work.req /\ work'.fit = work.fit
      /\ work' \in [req : Tasks \cup {NoTask}, fit : [cf : Int, sr : Nat, lo : Int, hi : Int, rx : SUBSET Channels],
                    over : SUBSET Tasks, todo : SUBSET (Tasks \X Tasks), done : SUBSET (Tasks \X Tasks)]
  BY DEF KnownInv, WorkInv
<1> QED
  BY <1>1, <1>2, RetuneKnown

(* It gives up, or the last of it: the AMQP thread is idle again.          *)
LEMMA RetuneEndKnown ==
  ASSUME KnownInv, pc[Amqp] \in Retuning, Goto(Amqp, "idle"), work' = NoWork,
         TaskTypes', StreamTypes', ActTypes',
         state' = state, copy' = copy, running' = running, UNCHANGED callVars,
         \A u \in Tasks : alloc'[u].rx = alloc[u].rx /\ (alloc[u].win[2] > 0 => alloc'[u].win[2] > 0)
  PROVE  KnownInv'
<1>1. ThreadInv /\ AllocInv /\ Amqp \in Threads /\ Amqp \notin Acts
  BY ThreadFacts DEF KnownInv
<1>2. "idle" \in LabelsOf(Amqp) /\ "idle" \notin Calling
  BY LabelFacts DEF Deactivating, Calling
<1>3. \A s \in Tasks : running'[s] => state[s] # "absent"
  BY <1>1 DEF ThreadInv
<1>4. ThreadInv'
  BY <1>1, <1>2, <1>3, MovedOn
<1>5. pc'[Amqp] = "idle" /\ \A q \in Threads : q # Amqp => pc'[q] = pc[q]
  BY <1>1, GotoIs
<1>6. WorkInv'
  BY <1>5 DEF WorkInv, Retuning, NoWork, NoFit
<1>7. \A u \in Tasks : pc'[Act(u)] = pc[Act(u)]
  BY <1>5, ThreadFacts
<1>8. AllocInv'
  BY <1>1, <1>7 DEF AllocInv, OneChannel
<1> QED
  BY <1>4, <1>6, <1>8 DEF KnownInv

LEMMA TuneKnown ==
  ASSUME KnownInv, Tune PROVE KnownInv'
<1>1. /\ pc[Amqp] \in Retuning /\ "push" \in Retuning /\ Goto(Amqp, "push")
      /\ UNCHANGED <<asked, state, alloc, streamVars, rtVars, actVars, hw, callVars, work>>
      /\ tuned' = WindowOf(work.fit)
      /\ slots' = UpdateDeviceTune(slots, work.fit.cf, work.fit.sr)
  BY DEF Tune, Retuning
<1>2. /\ WindowOf(work.fit) \in Windows
      /\ work.fit.cf \in Int /\ work.fit.sr \in Nat \ {0}
  BY <1>1, RetuningFacts
<1>3. TaskTypes'
  <2>1. slots \in Seq(Slots)
    BY DEF KnownInv, TaskTypes
  <2>2. \A i \in DOMAIN slots : [slots[i] EXCEPT !.cf = work.fit.cf, !.sr = work.fit.sr] \in Slots
    <3> SUFFICES ASSUME NEW i \in DOMAIN slots
                 PROVE  [slots[i] EXCEPT !.cf = work.fit.cf, !.sr = work.fit.sr] \in Slots
      OBVIOUS
    <3>1. slots[i] \in Slots
      BY <2>1
    <3> QED
      BY <1>2, <3>1 DEF Slots
  <2>3. slots' \in Seq(Slots)
    <3> DEFINE S(i) == [slots[i] EXCEPT !.cf = work.fit.cf, !.sr = work.fit.sr]
    <3>1. slots' = [i \in DOMAIN slots |-> S(i)]
      BY <1>1 DEF UpdateDeviceTune
    <3>2. DOMAIN slots = 1 .. Len(slots) /\ Len(slots) \in Nat
      BY <2>1
    <3>3. \A i \in DOMAIN slots : S(i) \in Slots
      BY <2>2
    <3> HIDE DEF S
    <3> QED
      BY <3>1, <3>2, <3>3
  <2> QED
    BY <1>1, <2>3 DEF KnownInv, TaskTypes
<1>4. StreamTypes'
  BY <1>1, <1>2 DEF KnownInv, StreamTypes, streamVars, rtVars
<1>5. ActTypes'
  BY <1>1, TypesKept DEF KnownInv
<1>6. state' = state /\ copy' = copy /\ running' = running /\ alloc' = alloc
  BY <1>1 DEF actVars, streamVars
<1>7. work.req \in Tasks /\ state[work.req] = "absent" /\ work.fit \in Fits /\ Single(work.fit.rx)
  BY <1>1, RetuningFacts
<1>8. work' = work /\ UNCHANGED callVars
  BY <1>1
<1>9. work \in [req : Tasks \cup {NoTask}, fit : [cf : Int, sr : Nat, lo : Int, hi : Int, rx : SUBSET Channels],
                over : SUBSET Tasks, todo : SUBSET (Tasks \X Tasks), done : SUBSET (Tasks \X Tasks)]
  BY DEF KnownInv, WorkInv
<1> QED
  BY <1>1, <1>3, <1>4, <1>5, <1>6, <1>7, <1>8, <1>9, RetuneKnown

LEMMA TuneFailsKnown ==
  ASSUME KnownInv, TuneFails PROVE KnownInv'
<1>1. /\ pc[Amqp] \in Retuning /\ Goto(Amqp, "idle") /\ work' = NoWork
      /\ UNCHANGED <<taskVars, tuned, streamVars, rtVars, actVars, hw, callVars>>
  BY DEF TuneFails, Retuning
<1>2. TaskTypes' /\ StreamTypes' /\ ActTypes'
  BY <1>1, TypesKept DEF KnownInv
<1>3. state' = state /\ copy' = copy /\ running' = running /\ alloc' = alloc
  BY <1>1 DEF taskVars, actVars, streamVars
<1> QED
  BY <1>1, <1>2, <1>3, RetuneEndKnown

LEMMA PushKnown ==
  ASSUME KnownInv, Push PROVE KnownInv'
<1>1. /\ pc[Amqp] \in Retuning /\ "collect" \in Retuning /\ Goto(Amqp, "collect")
      /\ UNCHANGED <<taskVars, tuned, status, running, dests, subs, rtVars, actVars, hw, callVars, work>>
  BY DEF Push, Retuning
<1>2. /\ WindowOf(work.fit) \in Windows
      /\ work.req \in Tasks /\ state[work.req] = "absent" /\ work.fit \in Fits /\ Single(work.fit.rx)
  BY <1>1, RetuningFacts
<1>3. StreamTypes'
  <2>1. label' \in [Tasks -> Windows]
    BY <1>2 DEF Push, Announce, KnownInv, StreamTypes
  <2> QED
    BY <1>1, <2>1 DEF KnownInv, StreamTypes, rtVars
<1>4. TaskTypes' /\ ActTypes'
  BY <1>1, TypesKept DEF KnownInv
<1>5. state' = state /\ copy' = copy /\ running' = running /\ alloc' = alloc /\ work' = work
  BY <1>1 DEF taskVars, actVars
<1>6. work \in [req : Tasks \cup {NoTask}, fit : [cf : Int, sr : Nat, lo : Int, hi : Int, rx : SUBSET Channels],
                over : SUBSET Tasks, todo : SUBSET (Tasks \X Tasks), done : SUBSET (Tasks \X Tasks)]
  BY DEF KnownInv, WorkInv
<1> QED
  BY <1>1, <1>2, <1>3, <1>4, <1>5, <1>6, RetuneKnown

LEMMA CollectKnown ==
  ASSUME KnownInv, Collect PROVE KnownInv'
<1> DEFINE todo == {<<u, runtime[u].uses[1]>> :
                       u \in {v \in work.over : runtime[v].uses # <<>> /\ ~runtime[v].sub}}
<1>1. /\ pc[Amqp] \in Retuning /\ "plan" \in Retuning /\ Goto(Amqp, "plan")
      /\ UNCHANGED <<taskVars, tuned, streamVars, rtVars, actVars, hw, callVars>>
      /\ work' = [work EXCEPT !.todo = todo]
  BY DEF Collect, Retuning
<1>2. work.over \subseteq Tasks /\ work.done \in SUBSET (Tasks \X Tasks)
  BY <1>1, RetuningFacts
<1>3. todo \in SUBSET (Tasks \X Tasks)
  <2> SUFFICES ASSUME NEW u \in work.over, runtime[u].uses # <<>>
               PROVE  <<u, runtime[u].uses[1]>> \in Tasks \X Tasks
    OBVIOUS
  <2>1. u \in Tasks /\ runtime[u].uses \in Seq(Tasks)
    BY <1>2 DEF KnownInv, StreamTypes, Runtimes
  <2>2. runtime[u].uses[1] \in Tasks
    BY <2>1
  <2> QED
    BY <2>1, <2>2
<1> HIDE DEF todo
<1>4. work' = [work EXCEPT !.todo = todo, !.done = work.done]
  BY <1>1 DEF KnownInv, WorkInv
<1>5. TaskTypes' /\ StreamTypes' /\ ActTypes'
  BY <1>1, TypesKept DEF KnownInv
<1>6. state' = state /\ copy' = copy /\ running' = running /\ alloc' = alloc
  BY <1>1 DEF taskVars, actVars, streamVars
<1> QED
  BY <1>1, <1>2, <1>3, <1>4, <1>5, <1>6, RetuneStepKnown

LEMMA PlanKnown ==
  ASSUME KnownInv, Plan PROVE KnownInv'
<1> DEFINE chosen == {x \in work.todo : /\ state[x[1]] # "ended"
                                        /\ NeedsDdc(work.fit.sr, OutputRate(alloc[x[1]]))}
<1>1. /\ pc[Amqp] \in Retuning /\ "convert" \in Retuning /\ Goto(Amqp, "convert")
      /\ UNCHANGED <<asked, state, slots, tuned, streamVars, rtVars, actVars, hw, callVars>>
      /\ work' = [work EXCEPT !.todo = chosen]
      /\ alloc' = [u \in Tasks |-> IF \E x \in chosen : x[1] = u
                                   THEN [alloc[u] EXCEPT !.out = OutputRate(alloc[u])]
                                   ELSE alloc[u]]
  BY DEF Plan, Retuning
<1>2. work.todo \subseteq Tasks \X Tasks /\ work.done \in SUBSET (Tasks \X Tasks)
  BY <1>1, RetuningFacts
<1>3. chosen \in SUBSET (Tasks \X Tasks)
  BY <1>2
<1> HIDE DEF chosen
<1>4. work' = [work EXCEPT !.todo = chosen, !.done = work.done]
  BY <1>1 DEF KnownInv, WorkInv
<1>5. \A u \in Tasks : /\ alloc[u] \in Allocations
                       /\ [alloc[u] EXCEPT !.out = OutputRate(alloc[u])] \in Allocations
                       /\ [alloc[u] EXCEPT !.out = OutputRate(alloc[u])].rx = alloc[u].rx
                       /\ [alloc[u] EXCEPT !.out = OutputRate(alloc[u])].win = alloc[u].win
  <2> SUFFICES ASSUME NEW u \in Tasks
               PROVE  /\ alloc[u] \in Allocations
                      /\ [alloc[u] EXCEPT !.out = OutputRate(alloc[u])] \in Allocations
                      /\ [alloc[u] EXCEPT !.out = OutputRate(alloc[u])].rx = alloc[u].rx
                      /\ [alloc[u] EXCEPT !.out = OutputRate(alloc[u])].win = alloc[u].win
    OBVIOUS
  <2>1. alloc[u] \in Allocations
    BY DEF KnownInv, TaskTypes
  <2>2. OutputRate(alloc[u]) \in Nat
    BY <2>1 DEF OutputRate, Allocations, Windows
  <2> QED
    BY <2>1, <2>2 DEF Allocations
<1>6. alloc' \in [Tasks -> Allocations]
  BY <1>1, <1>5
<1>7. \A u \in Tasks : alloc'[u].rx = alloc[u].rx /\ alloc'[u].win = alloc[u].win
  BY <1>1, <1>5
<1>8. TaskTypes'
  BY <1>1, <1>6 DEF KnownInv, TaskTypes
<1>9. StreamTypes' /\ ActTypes'
  BY <1>1, TypesKept DEF KnownInv
<1>10. state' = state /\ copy' = copy /\ running' = running
  BY <1>1 DEF actVars, streamVars
<1> QED
  BY <1>1, <1>2, <1>3, <1>4, <1>7, <1>8, <1>9, <1>10, RetuneStepKnown

LEMMA UnsubscribeKnown ==
  ASSUME KnownInv, NEW x \in work.todo, Unsubscribe(x) PROVE KnownInv'
<1>1. /\ pc[Amqp] \in Retuning /\ "resubscribe" \in Retuning /\ Goto(Amqp, "resubscribe")
      /\ UNCHANGED <<taskVars, tuned, status, label, running, subs, rtVars, actVars, hw, callVars>>
      /\ work' = [work EXCEPT !.done = @ \cup {x}]
      /\ RemoveDest(x[2], x[1])
  BY DEF Unsubscribe, Retuning
<1>2. /\ x \in Tasks \X Tasks /\ work.todo \in SUBSET (Tasks \X Tasks)
      /\ work.done \in SUBSET (Tasks \X Tasks)
  BY <1>1, RetuningFacts
<1>3. work' = [work EXCEPT !.todo = work.todo, !.done = work.done \cup {x}]
  BY <1>1 DEF KnownInv, WorkInv
<1>4. StreamTypes'
  <2>1. dests' \in [Tasks -> [Tasks -> Nat]]
    BY <1>1, <1>2 DEF RemoveDest, KnownInv, StreamTypes
  <2> QED
    BY <1>1, <2>1 DEF KnownInv, StreamTypes, rtVars
<1>5. TaskTypes' /\ ActTypes'
  BY <1>1, TypesKept DEF KnownInv
<1>6. state' = state /\ copy' = copy /\ running' = running /\ alloc' = alloc
  BY <1>1 DEF taskVars, actVars
<1>7. work.done \cup {x} \in SUBSET (Tasks \X Tasks)
  BY <1>2
<1> QED
  BY <1>1, <1>2, <1>3, <1>4, <1>5, <1>6, <1>7, RetuneStepKnown

LEMMA ResubscribeKnown ==
  ASSUME KnownInv, NEW x \in work.todo, Resubscribe(x) PROVE KnownInv'
<1>1. /\ pc[Amqp] \in Retuning /\ "convert" \in Retuning /\ Goto(Amqp, "convert")
      /\ UNCHANGED <<taskVars, tuned, status, label, running, dests, rtVars, actVars, hw, callVars>>
      /\ work' = [work EXCEPT !.todo = @ \ {x}]
      /\ AddSubBand(x[2], x[1], work.fit.sr)
  BY DEF Resubscribe, Retuning
<1>2. /\ x \in Tasks \X Tasks /\ work.todo \in SUBSET (Tasks \X Tasks)
      /\ work.done \in SUBSET (Tasks \X Tasks) /\ work.fit.sr \in Nat
  BY <1>1, RetuningFacts
<1>3. work' = [work EXCEPT !.todo = work.todo \ {x}, !.done = work.done]
  BY <1>1 DEF KnownInv, WorkInv
<1>4. StreamTypes'
  <2>1. <<label[x[2]][1], work.fit.sr>> \in Windows
    BY <1>2 DEF KnownInv, StreamTypes, Windows
  <2>2. subs' \in [Tasks -> [Tasks -> Windows]]
    BY <1>1, <1>2, <2>1 DEF AddSubBand, KnownInv, StreamTypes
  <2> QED
    BY <1>1, <2>2 DEF KnownInv, StreamTypes, rtVars
<1>5. TaskTypes' /\ ActTypes'
  BY <1>1, TypesKept DEF KnownInv
<1>6. state' = state /\ copy' = copy /\ running' = running /\ alloc' = alloc
  BY <1>1 DEF taskVars, actVars
<1>7. work.todo \ {x} \in SUBSET (Tasks \X Tasks)
  BY <1>2
<1> QED
  BY <1>1, <1>2, <1>3, <1>4, <1>5, <1>6, <1>7, RetuneStepKnown

LEMMA FlagKnown ==
  ASSUME KnownInv, Flag PROVE KnownInv'
<1>1. /\ pc[Amqp] \in Retuning /\ "accept" \in Retuning /\ Goto(Amqp, "accept")
      /\ UNCHANGED <<taskVars, tuned, streamVars, chan, actVars, hw, callVars, work>>
  BY DEF Flag, Retuning
<1>2. StreamTypes'
  <2>1. runtime' \in [Tasks -> Runtimes]
    BY DEF Flag, KnownInv, StreamTypes, Runtimes
  <2> QED
    BY <1>1, <2>1 DEF KnownInv, StreamTypes, streamVars
<1>3. TaskTypes' /\ ActTypes'
  BY <1>1, TypesKept DEF KnownInv
<1>4. state' = state /\ copy' = copy /\ running' = running /\ alloc' = alloc /\ work' = work
  BY <1>1 DEF taskVars, actVars, streamVars
<1>5. work.req \in Tasks /\ state[work.req] = "absent" /\ work.fit \in Fits /\ Single(work.fit.rx)
  BY <1>1, RetuningFacts
<1>6. work \in [req : Tasks \cup {NoTask}, fit : [cf : Int, sr : Nat, lo : Int, hi : Int, rx : SUBSET Channels],
                over : SUBSET Tasks, todo : SUBSET (Tasks \X Tasks), done : SUBSET (Tasks \X Tasks)]
  BY DEF KnownInv, WorkInv
<1> QED
  BY <1>1, <1>2, <1>3, <1>4, <1>5, <1>6, RetuneKnown

LEMMA RetunedIs ==
  ASSUME KnownInv, pc[Amqp] \in Retuning
  PROVE  /\ Retuned \in [Tasks -> Allocations]
         /\ \A u \in Tasks : /\ Retuned[u].rx = alloc[u].rx
                             /\ alloc[u].win[2] > 0 => Retuned[u].win[2] > 0
<1>1. WindowOf(work.fit) \in Windows /\ WindowOf(work.fit)[2] > 0
  BY RetuningFacts
<1>2. \A u \in Tasks : alloc[u] \in Allocations
  BY DEF KnownInv, TaskTypes
<1>3. \A u \in Tasks : /\ [alloc[u] EXCEPT !.win = WindowOf(work.fit)] \in Allocations
                       /\ [alloc[u] EXCEPT !.win = WindowOf(work.fit)].rx = alloc[u].rx
                       /\ [alloc[u] EXCEPT !.win = WindowOf(work.fit)].win = WindowOf(work.fit)
  BY <1>1, <1>2 DEF Allocations
<1> QED
  BY <1>1, <1>2, <1>3 DEF Retuned

LEMMA AcceptCombinedKnown ==
  ASSUME KnownInv, AcceptCombined \/ PortsExhausted PROVE KnownInv'
<1>1. pc[Amqp] \in Retuning
  BY DEF AcceptCombined, PortsExhausted, Retuning
<1>2. /\ Retuned \in [Tasks -> Allocations]
      /\ \A u \in Tasks : /\ Retuned[u].rx = alloc[u].rx
                          /\ alloc[u].win[2] > 0 => Retuned[u].win[2] > 0
  BY <1>1, RetunedIs
<1>3. CASE AcceptCombined
  <2>1. /\ Commit(work.req, work.fit, Retuned) /\ work' = NoWork
        /\ UNCHANGED <<asked, tuned, streamVars, rtVars, actVars, hw, callVars>>
    BY <1>3 DEF AcceptCombined
  <2>2. work.req \in Tasks /\ state[work.req] = "absent" /\ work.fit \in Fits /\ Single(work.fit.rx)
    BY <1>1, RetuningFacts
  <2> QED
    BY <1>2, <2>1, <2>2, CommitKnown
<1>4. CASE PortsExhausted
  <2>1. /\ alloc' = Retuned /\ work' = NoWork /\ Goto(Amqp, "idle")
        /\ UNCHANGED <<asked, state, slots, tuned, streamVars, rtVars, actVars, hw, callVars>>
    BY <1>4 DEF PortsExhausted
  <2>2. TaskTypes'
    BY <1>2, <2>1 DEF KnownInv, TaskTypes
  <2>3. StreamTypes' /\ ActTypes'
    BY <2>1, TypesKept DEF KnownInv
  <2>4. state' = state /\ copy' = copy /\ running' = running
    BY <2>1 DEF actVars, streamVars
  <2> QED
    BY <1>1, <1>2, <2>1, <2>2, <2>3, <2>4, RetuneEndKnown
<1> QED
  BY <1>3, <1>4

(***************************************************************************)
(* KnownInv and an activation.                                             *)
(***************************************************************************)
LEMMA ActKnown ==
  ASSUME KnownInv, NEW t \in Tasks, NEW l \in ActLabels \ {"idle"}, Goto(Act(t), l),
         pc[Act(t)] # "idle",
         l \in {"lock"} \cup Holding =>
            /\ pc[Act(t)] \in {"lock"} \cup Holding => copy'[t] = copy[t]
            /\ pc[Act(t)] \notin {"lock"} \cup Holding => copy'[t] = alloc[t] /\ state[t] # "absent",
         \A u \in Tasks : u # t => copy'[u] = copy[u],
         TaskTypes', StreamTypes', ActTypes',
         alloc' = alloc, work' = work, UNCHANGED callVars,
         \A u \in Tasks : state'[u] = "absent" <=> state[u] = "absent",
         \A s \in Tasks : running'[s] => running[s] \/ s = t
  PROVE  KnownInv'
<1> DEFINE p == Act(t)
<1>1. /\ ThreadInv /\ WorkInv /\ AllocInv /\ p \in Threads /\ p \in Acts /\ p[2] = t
      /\ p # Amqp
  BY ThreadFacts DEF KnownInv
<1>2. state[t] # "absent" /\ arg[p] = t
  BY <1>1 DEF ThreadInv
<1>3. l \in LabelsOf(p) /\ l # "idle"
  BY LabelFacts
<1>4. \A s \in Tasks : running'[s] => state[s] # "absent"
  BY <1>1, <1>2 DEF ThreadInv
<1>5. \A u \in Tasks : u # t => Act(u) # p /\ Act(u) \in Threads
  BY ThreadFacts
<1> HIDE DEF p
<1>6. ThreadInv'
  BY <1>1, <1>2, <1>3, <1>4, MovedOn DEF p
<1>7. pc'[p] = l /\ \A q \in Threads : q # p => pc'[q] = pc[q]
  BY <1>1, GotoIs DEF p
<1>8. WorkInv'
  BY <1>1, <1>7, ThreadFacts, WorkKept
<1>9. AllocInv'
  <2>1. \A u \in Tasks : state'[u] # "absent" =>
           /\ alloc'[u].rx # <<>> /\ alloc'[u].win[2] > 0
           /\ OneChannel => Len(alloc'[u].rx) = 1
    BY <1>1 DEF AllocInv
  <2>2. ASSUME NEW u \in Tasks, pc'[Act(u)] \in {"lock"} \cup Holding
        PROVE  copy'[u].rx = alloc'[u].rx /\ copy'[u].win[2] > 0
    <3>1. CASE u = t
      BY <1>1, <1>2, <1>7, <2>2, <3>1 DEF p, AllocInv
    <3>2. CASE u # t
      BY <1>1, <1>5, <1>7, <2>2, <3>2 DEF AllocInv
    <3> QED
      BY <3>1, <3>2
  <2> QED
    BY <2>1, <2>2 DEF AllocInv, OneChannel
<1> QED
  BY <1>6, <1>8, <1>9 DEF KnownInv

(* It forgets its locals.                                                  *)
LEMMA ForgetIs ==
  ASSUME KnownInv, NEW t \in Tasks, Forget(t)
  PROVE  /\ copy' \in [Tasks -> Allocations] /\ wide' \in [Tasks -> Nat]
         /\ \A u \in Tasks : u # t => copy'[u] = copy[u]
<1>1. NoAllocation \in Allocations
  BY DEF NoAllocation, Allocations, NoWindow, Windows
<1> QED
  BY <1>1 DEF KnownInv, ActTypes, Forget

LEMMA ActStartKnown ==
  ASSUME KnownInv, NEW t \in Tasks, ActStart(t) PROVE KnownInv'
<1>1. /\ pc[Act(t)] = "start"
      /\ UNCHANGED <<taskVars, tuned, streamVars, rtVars, built, wide, hw, callVars, work>>
  BY DEF ActStart, Act
<1>2. \/ Goto(Act(t), "done") /\ UNCHANGED copy
      \/ Goto(Act(t), "lock") /\ copy' = [copy EXCEPT ![t] = alloc[t]]
  BY DEF ActStart, Act
<1>3. alloc \in [Tasks -> Allocations] /\ copy \in [Tasks -> Allocations] /\ state[t] # "absent"
  BY <1>1 DEF KnownInv, TaskTypes, ActTypes, ThreadInv
<1>4. copy' \in [Tasks -> Allocations] /\ \A u \in Tasks : u # t => copy'[u] = copy[u]
  BY <1>2, <1>3
<1>5. ActTypes'
  BY <1>1, <1>4 DEF KnownInv, ActTypes
<1>6. TaskTypes' /\ StreamTypes'
  BY <1>1, TypesKept DEF KnownInv
<1>7. /\ "done" \in ActLabels \ {"idle"} /\ "lock" \in ActLabels \ {"idle"} /\ "done" \notin {"lock"} \cup Holding
      /\ pc[Act(t)] \notin {"lock"} \cup Holding /\ pc[Act(t)] # "idle"
  BY <1>1 DEF ActLabels, Holding
<1>8. state' = state /\ alloc' = alloc /\ running' = running /\ work' = work /\ UNCHANGED callVars
  BY <1>1 DEF taskVars, streamVars
<1>9. CASE Goto(Act(t), "done")
  BY <1>4, <1>5, <1>6, <1>7, <1>8, <1>9, ActKnown
<1>10. CASE Goto(Act(t), "lock") /\ copy' = [copy EXCEPT ![t] = alloc[t]]
  <2>1. copy'[t] = alloc[t]
    BY <1>3, <1>10
  <2> QED
    BY <1>3, <1>4, <1>5, <1>6, <1>7, <1>8, <1>10, <2>1, ActKnown
<1> QED
  BY <1>2, <1>9, <1>10

LEMMA ActLockKnown ==
  ASSUME KnownInv, NEW t \in Tasks, ActLock(t) PROVE KnownInv'
<1>1. /\ pc[Act(t)] = "lock"
      /\ UNCHANGED <<taskVars, tuned, streamVars, rtVars, built, callVars, work>>
  BY DEF ActLock, Act
<1>2. \/ Goto(Act(t), "done") /\ Forget(t) /\ UNCHANGED hw
      \/ Goto(Act(t), "lookup") /\ hw' = Act(t) /\ UNCHANGED <<copy, wide>>
  BY DEF ActLock, Act
<1>3. /\ copy' \in [Tasks -> Allocations] /\ wide' \in [Tasks -> Nat]
      /\ \A u \in Tasks : u # t => copy'[u] = copy[u]
  BY <1>2, ForgetIs DEF KnownInv, ActTypes
<1>4. ActTypes'
  BY <1>1, <1>2, <1>3, ThreadFacts DEF KnownInv, ActTypes
<1>5. TaskTypes' /\ StreamTypes'
  BY <1>1, TypesKept DEF KnownInv
<1>6. /\ "done" \in ActLabels \ {"idle"} /\ "lookup" \in ActLabels \ {"idle"} /\ "done" \notin {"lock"} \cup Holding
      /\ pc[Act(t)] \in {"lock"} \cup Holding /\ pc[Act(t)] # "idle"
  BY <1>1 DEF ActLabels, Holding
<1>7. state' = state /\ alloc' = alloc /\ running' = running /\ work' = work /\ UNCHANGED callVars
  BY <1>1 DEF taskVars, streamVars
<1>8. CASE Goto(Act(t), "done")
  BY <1>3, <1>4, <1>5, <1>6, <1>7, <1>8, ActKnown
<1>9. CASE Goto(Act(t), "lookup") /\ copy' = copy
  BY <1>3, <1>4, <1>5, <1>6, <1>7, <1>9, ActKnown
<1> QED
  BY <1>2, <1>8, <1>9

(* A lookup that finds its channels live names a stream for each.          *)
LEMMA LookupIs ==
  ASSUME KnownInv, NEW t \in Tasks, ActLookup(t)
  PROVE  LET uses == [i \in DOMAIN copy[t].rx |-> chan[copy[t].rx[i]]]
         IN \/ /\ uses \in Seq(Tasks) /\ uses # <<>> /\ Len(uses) = Len(alloc[t].rx)
               /\ chan[copy[t].rx[1]] # NoTask /\ uses[1] = chan[copy[t].rx[1]]
               /\ built' = [built EXCEPT ![t].uses = uses]
               /\ wide' = [wide EXCEPT ![t] = label[uses[1]][2]]
               /\ Goto(Act(t), "borrow")
            \/ /\ \E c \in Range(copy[t].rx) : chan[c] = NoTask
               /\ Goto(Act(t), "open") /\ UNCHANGED <<built, wide>>
<1> DEFINE uses == [i \in DOMAIN copy[t].rx |-> chan[copy[t].rx[i]]]
<1>1. /\ copy[t].rx \in Seq(Channels) /\ copy[t].rx # <<>> /\ copy[t].rx = alloc[t].rx
      /\ chan \in [Channels -> Tasks \cup {NoTask}]
  <2>1. pc[Act(t)] = "lookup" /\ copy[t] \in Allocations
    BY DEF KnownInv, ActTypes, ActLookup, Act
  <2>2. copy[t].rx = alloc[t].rx
    BY <2>1 DEF KnownInv, AllocInv, Holding
  <2>3. state[t] # "absent"
    BY <2>1 DEF KnownInv, ThreadInv
  <2>4. alloc[t].rx # <<>>
    BY <2>3 DEF KnownInv, AllocInv
  <2> QED
    BY <2>1, <2>2, <2>4 DEF KnownInv, StreamTypes, Allocations
<1>2. CASE \A c \in Range(copy[t].rx) : Live(c)
  <2>1. \A i \in DOMAIN copy[t].rx : chan[copy[t].rx[i]] \in Tasks
    BY <1>1, <1>2 DEF Live, Range
  <2>2. uses \in Seq(Tasks) /\ uses # <<>> /\ Len(uses) = Len(copy[t].rx) /\ 1 \in DOMAIN copy[t].rx
    BY <1>1, <2>1
  <2>3. uses[1] = chan[copy[t].rx[1]] /\ chan[copy[t].rx[1]] # NoTask
    BY <2>1, <2>2, ConstantsAssumption
  <2>4. /\ built' = [built EXCEPT ![t].uses = uses]
        /\ wide' = [wide EXCEPT ![t] = label[uses[1]][2]]
        /\ Goto(Act(t), "borrow")
    BY <1>2 DEF ActLookup, Act
  <2> QED
    BY <1>1, <2>2, <2>3, <2>4
<1>3. CASE ~ \A c \in Range(copy[t].rx) : Live(c)
  <2>1. \E c \in Range(copy[t].rx) : chan[c] = NoTask
    BY <1>3 DEF Live
  <2>2. Goto(Act(t), "open") /\ UNCHANGED <<built, wide>>
    BY <1>3 DEF ActLookup, Act
  <2> QED
    BY <2>1, <2>2
<1> QED
  BY <1>2, <1>3

LEMMA ActLookupKnown ==
  ASSUME KnownInv, NEW t \in Tasks, ActLookup(t) PROVE KnownInv'
<1> DEFINE uses == [i \in DOMAIN copy[t].rx |-> chan[copy[t].rx[i]]]
<1>1. /\ pc[Act(t)] = "lookup"
      /\ UNCHANGED <<taskVars, tuned, streamVars, rtVars, copy, hw, callVars, work>>
  BY DEF ActLookup, Act
<1>2. \/ /\ uses \in Seq(Tasks) /\ uses # <<>>
         /\ built' = [built EXCEPT ![t].uses = uses]
         /\ wide' = [wide EXCEPT ![t] = label[uses[1]][2]]
         /\ Goto(Act(t), "borrow")
      \/ Goto(Act(t), "open") /\ UNCHANGED <<built, wide>>
  BY LookupIs
<1> HIDE DEF uses
<1>3. ActTypes'
  <2>1. CASE UNCHANGED <<built, wide>>
    BY <1>1, <2>1 DEF KnownInv, ActTypes
  <2>2. CASE /\ uses \in Seq(Tasks) /\ uses # <<>>
             /\ built' = [built EXCEPT ![t].uses = uses]
             /\ wide' = [wide EXCEPT ![t] = label[uses[1]][2]]
    <3>1. uses[1] \in Tasks
      BY <2>2
    <3>2. label[uses[1]][2] \in Nat
      BY <3>1 DEF KnownInv, StreamTypes, Windows
    <3>3. wide' \in [Tasks -> Nat]
      BY <2>2, <3>2 DEF KnownInv, ActTypes
    <3>4. built' \in [Tasks -> Runtimes]
      BY <2>2 DEF KnownInv, ActTypes, Runtimes
    <3> QED
      BY <1>1, <3>3, <3>4 DEF KnownInv, ActTypes
  <2> QED
    BY <1>2, <2>1, <2>2
<1>4. TaskTypes' /\ StreamTypes'
  BY <1>1, TypesKept DEF KnownInv
<1>5. PICK l \in {"borrow", "open"} : Goto(Act(t), l)
  BY <1>2
<1>6. l \in ActLabels \ {"idle"} /\ pc[Act(t)] \in {"lock"} \cup Holding /\ pc[Act(t)] # "idle"
  BY <1>1 DEF ActLabels, Holding
<1>7. state' = state /\ alloc' = alloc /\ running' = running /\ work' = work /\ copy' = copy /\ UNCHANGED callVars
  BY <1>1 DEF taskVars, streamVars
<1> QED
  BY <1>3, <1>4, <1>5, <1>6, <1>7, ActKnown

LEMMA ActBorrowKnown ==
  ASSUME KnownInv, NEW t \in Tasks, ActBorrow(t) PROVE KnownInv'
<1> DEFINE uses == built[t].uses
<1>1. /\ pc[Act(t)] = "borrow" /\ hw' = NoThread /\ Forget(t) /\ Goto(Act(t), "insert")
      /\ UNCHANGED <<taskVars, tuned, status, label, running, rtVars, callVars, work>>
  BY DEF ActBorrow, Act
<1>2. uses \in Seq(Tasks) /\ built[t] \in Runtimes
  BY DEF KnownInv, ActTypes, Runtimes
<1>3. \/ /\ Len(uses) = 1 /\ AddSubBand(uses[1], t, wide[t])
         /\ built' = [built EXCEPT ![t].sub = TRUE]
         /\ UNCHANGED dests
      \/ AddDests(uses, t) /\ UNCHANGED <<subs, built>>
  BY DEF ActBorrow
<1>4. /\ copy' \in [Tasks -> Allocations] /\ wide' \in [Tasks -> Nat]
      /\ \A u \in Tasks : u # t => copy'[u] = copy[u]
  BY <1>1, ForgetIs
<1>5. StreamTypes' /\ built' \in [Tasks -> Runtimes]
  <2>1. CASE /\ Len(uses) = 1 /\ AddSubBand(uses[1], t, wide[t])
             /\ built' = [built EXCEPT ![t].sub = TRUE]
             /\ UNCHANGED dests
    <3>1. uses[1] \in Tasks /\ wide[t] \in Nat
      BY <1>2, <2>1 DEF KnownInv, ActTypes
    <3>2. <<label[uses[1]][1], wide[t]>> \in Windows
      BY <3>1 DEF KnownInv, StreamTypes, Windows
    <3>3. subs' \in [Tasks -> [Tasks -> Windows]]
      BY <2>1, <3>1, <3>2 DEF AddSubBand, KnownInv, StreamTypes
    <3>4. built' \in [Tasks -> Runtimes]
      BY <2>1 DEF KnownInv, ActTypes, Runtimes
    <3> QED
      BY <1>1, <2>1, <3>3, <3>4 DEF KnownInv, StreamTypes, rtVars
  <2>2. CASE AddDests(uses, t) /\ UNCHANGED <<subs, built>>
    <3>1. \A s \in Tasks : [dests[s] EXCEPT ![t] = @ + Times(uses, s)] \in [Tasks -> Nat]
      BY <1>2, TimesIs DEF KnownInv, StreamTypes
    <3>2. dests' \in [Tasks -> [Tasks -> Nat]]
      BY <2>2, <3>1 DEF AddDests
    <3> QED
      BY <1>1, <2>2, <3>2 DEF KnownInv, StreamTypes, ActTypes, rtVars
  <2> QED
    BY <1>3, <2>1, <2>2
<1>6. TaskTypes' /\ ActTypes'
  BY <1>1, <1>4, <1>5, TypesKept DEF KnownInv, ActTypes
<1>7. "insert" \in ActLabels \ {"idle"} /\ "insert" \notin {"lock"} \cup Holding /\ pc[Act(t)] # "idle"
  BY <1>1 DEF ActLabels, Holding
<1>8. state' = state /\ alloc' = alloc /\ running' = running /\ work' = work /\ UNCHANGED callVars
  BY <1>1 DEF taskVars
<1> QED
  BY <1>1, <1>4, <1>5, <1>6, <1>7, <1>8, ActKnown

LEMMA ActOpenKnown ==
  ASSUME KnownInv, NEW t \in Tasks, ActOpen(t) PROVE KnownInv'
<1>1. /\ pc[Act(t)] = "open" /\ hw' = NoThread /\ Forget(t) /\ Goto(Act(t), "insert")
      /\ UNCHANGED <<taskVars, subs, runtime, callVars, work>>
      /\ tuned' = copy[t].win /\ status' = [status EXCEPT ![t] = "open"]
      /\ Announce({t}, copy[t].win) /\ Start(t)
      /\ chan' = [c \in Channels |-> IF c \in Range(copy[t].rx) THEN t ELSE chan[c]]
      /\ built' = [built EXCEPT ![t].uses = <<t>>]
  BY DEF ActOpen, Act
<1>2. /\ copy' \in [Tasks -> Allocations] /\ wide' \in [Tasks -> Nat]
      /\ \A u \in Tasks : u # t => copy'[u] = copy[u]
  BY <1>1, ForgetIs
<1>3. copy[t].win \in Windows
  BY DEF KnownInv, ActTypes, Allocations
<1>4. StreamTypes'
  <2>1. status' \in [Tasks -> {"none", "open", "closed", "twice"}]
    BY <1>1 DEF KnownInv, StreamTypes
  <2>2. label' \in [Tasks -> Windows]
    BY <1>1, <1>3 DEF KnownInv, StreamTypes, Announce
  <2>3. running' \in [Tasks -> BOOLEAN]
    BY <1>1 DEF KnownInv, StreamTypes, Start
  <2>4. dests' \in [Tasks -> [Tasks -> Nat]]
    <3> DEFINE uses == <<t>>
    <3>1. uses \in Seq(Tasks)
      OBVIOUS
    <3>2. AddDests(uses, t)
      BY <1>1 DEF Start
    <3> HIDE DEF uses
    <3>3. \A s \in Tasks : [dests[s] EXCEPT ![t] = @ + Times(uses, s)] \in [Tasks -> Nat]
      BY <3>1, TimesIs DEF KnownInv, StreamTypes
    <3> QED
      BY <3>2, <3>3 DEF AddDests
  <2>5. chan' \in [Channels -> Tasks \cup {NoTask}]
    BY <1>1 DEF KnownInv, StreamTypes
  <2> QED
    BY <1>1, <1>3, <2>1, <2>2, <2>3, <2>4, <2>5 DEF KnownInv, StreamTypes
<1>5. ActTypes'
  <2>1. built' \in [Tasks -> Runtimes]
    <3>1. <<t>> \in Seq(Tasks)
      OBVIOUS
    <3> QED
      BY <1>1, <3>1 DEF KnownInv, ActTypes, Runtimes
  <2> QED
    BY <1>1, <1>2, <2>1 DEF ActTypes
<1>6. TaskTypes'
  BY <1>1, TypesKept DEF KnownInv
<1>7. "insert" \in ActLabels \ {"idle"} /\ "insert" \notin {"lock"} \cup Holding /\ pc[Act(t)] # "idle"
  BY <1>1 DEF ActLabels, Holding
<1>8. state' = state /\ alloc' = alloc /\ work' = work /\ UNCHANGED callVars
  BY <1>1 DEF taskVars
<1>9. \A s \in Tasks : running'[s] => running[s] \/ s = t
  BY <1>1 DEF Start, KnownInv, StreamTypes
<1> QED
  BY <1>1, <1>2, <1>4, <1>5, <1>6, <1>7, <1>8, <1>9, ActKnown

LEMMA ActFailsKnown ==
  ASSUME KnownInv, NEW t \in Tasks, ActFails(t) PROVE KnownInv'
<1>1. /\ pc[Act(t)] = "open" /\ hw' = NoThread /\ Forget(t) /\ Goto(Act(t), "claim")
      /\ UNCHANGED <<taskVars, streamVars, rtVars, built, callVars, work>>
      /\ tuned' \in {tuned, copy[t].win}
  BY DEF ActFails, Act
<1>2. /\ copy' \in [Tasks -> Allocations] /\ wide' \in [Tasks -> Nat]
      /\ \A u \in Tasks : u # t => copy'[u] = copy[u]
  BY <1>1, ForgetIs
<1>3. copy[t].win \in Windows /\ tuned \in Windows
  BY DEF KnownInv, ActTypes, StreamTypes, Allocations
<1>4. StreamTypes'
  BY <1>1, <1>3 DEF KnownInv, StreamTypes, streamVars, rtVars
<1>5. TaskTypes' /\ ActTypes'
  BY <1>1, <1>2, TypesKept DEF KnownInv, ActTypes
<1>6. "claim" \in ActLabels \ {"idle"} /\ "claim" \notin {"lock"} \cup Holding /\ pc[Act(t)] # "idle"
  BY <1>1 DEF ActLabels, Holding, Calling
<1>7. state' = state /\ alloc' = alloc /\ running' = running /\ work' = work /\ UNCHANGED callVars
  BY <1>1 DEF taskVars, streamVars
<1> QED
  BY <1>1, <1>2, <1>4, <1>5, <1>6, <1>7, ActKnown

LEMMA ActInsertKnown ==
  ASSUME KnownInv, NEW t \in Tasks, ActInsert(t) PROVE KnownInv'
<1>1. /\ pc[Act(t)] = "insert" /\ Goto(Act(t), "run")
      /\ runtime' = [runtime EXCEPT ![t] = built[t]]
      /\ built' = [built EXCEPT ![t] = NoRuntime]
      /\ UNCHANGED <<taskVars, tuned, streamVars, chan, copy, wide, hw, callVars, work>>
  BY DEF ActInsert, Act
<1>2. NoRuntime \in Runtimes
  BY DEF NoRuntime, Runtimes
<1>3. StreamTypes'
  BY <1>1 DEF KnownInv, StreamTypes, ActTypes, streamVars
<1>4. TaskTypes' /\ ActTypes'
  BY <1>1, <1>2, TypesKept DEF KnownInv, ActTypes
<1>5. "run" \in ActLabels \ {"idle"} /\ "run" \notin {"lock"} \cup Holding /\ pc[Act(t)] # "idle"
  BY <1>1 DEF ActLabels, Holding
<1>6. state' = state /\ alloc' = alloc /\ running' = running /\ work' = work /\ copy' = copy /\ UNCHANGED callVars
  BY <1>1 DEF taskVars, streamVars
<1> QED
  BY <1>1, <1>3, <1>4, <1>5, <1>6, ActKnown

LEMMA ActRunKnown ==
  ASSUME KnownInv, NEW t \in Tasks, ActRun(t) PROVE KnownInv'
<1>1. /\ pc[Act(t)] = "run" /\ Goto(Act(t), "done")
      /\ state' = [state EXCEPT ![t] = IF @ = "ended" THEN @ ELSE "running"]
      /\ UNCHANGED <<asked, alloc, slots, tuned, streamVars, rtVars, actVars, hw, callVars, work>>
  BY DEF ActRun, Act
<1>2. state[t] # "absent"
  BY <1>1 DEF KnownInv, ThreadInv
<1>3. /\ state' \in [Tasks -> {"absent", "pending", "running", "ended"}]
      /\ \A u \in Tasks : state'[u] = "absent" <=> state[u] = "absent"
  BY <1>1, <1>2 DEF KnownInv, TaskTypes
<1>4. TaskTypes'
  BY <1>1, <1>3 DEF KnownInv, TaskTypes
<1>5. StreamTypes' /\ ActTypes'
  BY <1>1, TypesKept DEF KnownInv
<1>6. "done" \in ActLabels \ {"idle"} /\ "done" \notin {"lock"} \cup Holding /\ pc[Act(t)] # "idle"
  BY <1>1 DEF ActLabels, Holding
<1>7. alloc' = alloc /\ running' = running /\ work' = work /\ copy' = copy /\ UNCHANGED callVars
  BY <1>1 DEF streamVars, actVars
<1> QED
  BY <1>1, <1>3, <1>4, <1>5, <1>6, <1>7, ActKnown

LEMMA KnownStutters ==
  ASSUME KnownInv, UNCHANGED vars PROVE KnownInv'
<1>1. /\ UNCHANGED <<taskVars, tuned, streamVars, rtVars, actVars, hw, callVars>>
      /\ pc' = pc /\ work' = work
  BY DEF vars
<1>2. TaskTypes' /\ StreamTypes' /\ ActTypes'
  BY <1>1, TypesKept DEF KnownInv
<1>3. state' = state /\ alloc' = alloc /\ copy' = copy /\ running' = running /\ arg' = arg /\ first' = first
  BY <1>1 DEF taskVars, actVars, streamVars, callVars
<1>4. ThreadInv'
  BY <1>1, <1>3 DEF KnownInv, ThreadInv
<1>5. WorkInv' /\ AllocInv'
  BY <1>1, <1>3, WorkKept, AllocKept DEF KnownInv
<1> QED
  BY <1>2, <1>4, <1>5 DEF KnownInv

LEMMA ActivateKnown ==
  ASSUME KnownInv, NEW t \in Tasks, Activate(t) PROVE KnownInv'
BY ActStartKnown, ActLockKnown, ActLookupKnown, ActBorrowKnown, ActOpenKnown, ActFailsKnown,
   ActInsertKnown, ActRunKnown DEF Activate

LEMMA RetuneStepsKnown ==
  ASSUME KnownInv, Retune PROVE KnownInv'
BY TuneKnown, TuneFailsKnown, PushKnown, CollectKnown, PlanKnown, FlagKnown,
   UnsubscribeKnown, ResubscribeKnown, AcceptCombinedKnown DEF Retune

LEMMA DeactivateKnown ==
  ASSUME KnownInv, NEW p \in Threads, Deactivate(p) PROVE KnownInv'
BY ClaimKnown, CheckOrphanKnown, TeardownKnown, ReleaseSlotKnown DEF Deactivate

LEMMA KnownNext ==
  ASSUME KnownInv, [Next]_vars PROVE KnownInv'
BY AcceptKnown, CombineKnown, CallsKnown, ActivateKnown, RetuneStepsKnown, StreamErrorKnown,
   DeactivateKnown, KnownStutters DEF Next

LEMMA KnownTypes ==
  ASSUME KnownInv PROVE TypeOK
<1>1. \A i \in DOMAIN slots : slots[i].task \in Tasks /\ WindowOf(slots[i]) \in Windows
  <2> SUFFICES ASSUME NEW i \in DOMAIN slots
               PROVE  slots[i].task \in Tasks /\ WindowOf(slots[i]) \in Windows
    OBVIOUS
  <2>1. slots[i] \in Slots
    BY DEF KnownInv, TaskTypes
  <2> QED
    BY <2>1 DEF Slots, WindowOf, Windows
<1>2. /\ \A p \in Acts \cup Errs : pc[p] \in ActLabels
      /\ pc[Watchdog] \in Deactivating
      /\ pc[Amqp] \in Deactivating \cup Retuning
  <2>1. \A p \in Threads : pc[p] \in LabelsOf(p)
    BY DEF KnownInv, ThreadInv
  <2> QED
    BY <2>1, LabelFacts, ThreadFacts
<1>3. /\ \A p \in Acts \cup Errs : pc[p] \in
           {"idle", "start", "lock", "lookup", "borrow", "open", "insert", "run",
            "claim", "orphan", "teardown", "release", "done"}
      /\ pc[Amqp] \in Deactivating
           \cup {"tune", "push", "collect", "plan", "convert", "resubscribe", "accept"}
  BY <1>2 DEF ActLabels, Calling, Retuning
<1> QED
  BY <1>1, <1>2, <1>3 DEF TypeOK, KnownInv, TaskTypes, StreamTypes, ActTypes, ThreadInv, WorkInv

(* Types: the watchdog only deactivates, a destination is never counted    *)
(* below zero, hw_activation_mu_ belongs to an activation between steps.   *)
THEOREM TypeCorrect == Spec => []TypeOK
<1>1. Init => KnownInv
  BY KnownInit
<1>2. KnownInv /\ [Next]_vars => KnownInv'
  BY KnownNext
<1>3. KnownInv => TypeOK
  BY KnownTypes
<1> QED
  BY <1>1, <1>2, <1>3, PTL DEF Spec

(***************************************************************************)
(* The steps that leave the activations where they are.                    *)
(***************************************************************************)

(* Thread by thread: an activation stays, begins, or deactivates its task. *)
Quiet(t) ==
  \/ pc'[Act(t)] = pc[Act(t)]
  \/ pc[Act(t)] \in Calling /\ pc'[Act(t)] \in Calling \cup {"done"}
  \/ pc[Act(t)] = "idle" /\ pc'[Act(t)] = "start"

(* What such a step leaves alone, too: the locals, the mutex, and what the *)
(* registered tasks were given.                                            *)
Aside ==
  /\ \A t \in Tasks : Quiet(t)
  /\ built' = built /\ copy' = copy /\ wide' = wide /\ hw' = hw
  /\ \A t \in Tasks : state[t] # "absent" => alloc'[t].rx = alloc[t].rx

LEMMA QuietMove ==
  ASSUME ThreadInv, NEW p \in Threads, NEW l, Goto(p, l),
         p \in Acts => pc[p] \in Calling /\ l \in Calling \cup {"done"}
  PROVE  \A t \in Tasks : Quiet(t)
BY GotoIs, ThreadFacts DEF Quiet

LEMMA CallAside ==
  ASSUME KnownInv, NEW p \in Threads, Deactivate(p) PROVE Aside
<1>1. ThreadInv
  BY DEF KnownInv
<1>2. PICK l \in Calling \cup {"idle", "done"} : Goto(p, l) /\ pc[p] \in Calling /\ (l = "idle" => p \in {Amqp, Watchdog})
  BY DEF Deactivate, Claim, CheckOrphan, Teardown, ReleaseSlot, Returned, Calling
<1>3. \A t \in Tasks : Quiet(t)
  BY <1>1, <1>2, ThreadFacts, QuietMove
<1>4. alloc' = alloc /\ UNCHANGED <<actVars, hw>>
  BY DEF Deactivate, Claim, CheckOrphan, Teardown, ReleaseSlot, taskVars
<1> QED
  BY <1>3, <1>4 DEF Aside, actVars

LEMMA BeginAside ==
  ASSUME KnownInv, NEW t, NEW s, Expire(t) \/ Cancel(t) \/ StreamError(s)
  PROVE  Aside
<1>1. ThreadInv
  BY DEF KnownInv
<1>2. \E p \in Threads \ Acts : Goto(p, "claim")
  BY ThreadFacts DEF Expire, Cancel, StreamError
<1>3. \A u \in Tasks : Quiet(u)
  BY <1>1, <1>2, QuietMove
<1>4. UNCHANGED <<taskVars, actVars, hw>>
  BY DEF Expire, Cancel, StreamError
<1> QED
  BY <1>3, <1>4 DEF Aside, taskVars, actVars

LEMMA CommitAside ==
  ASSUME KnownInv, NEW t \in Tasks, state[t] = "absent", NEW f, NEW base \in [Tasks -> Allocations],
         \A u \in Tasks : base[u].rx = alloc[u].rx, Commit(t, f, base), UNCHANGED <<actVars, hw>>
  PROVE  Aside
<1>1. /\ pc' = [pc EXCEPT ![Amqp] = "idle", ![Act(t)] = "start"] /\ pc \in [Threads -> Labels]
      /\ pc[Act(t)] = "idle"
  BY DEF KnownInv, ThreadInv, Commit, Act
<1>2. ASSUME NEW u \in Tasks PROVE Quiet(u)
  <2>1. /\ Act(u) \in Threads /\ Act(u) # Amqp
        /\ u # t => Act(u) # Act(t)
    BY ThreadFacts
  <2> QED
    BY <1>1, <2>1 DEF Quiet
<1>3. \A u \in Tasks : u # t => alloc'[u] = base[u]
  BY DEF Commit
<1> QED
  BY <1>2, <1>3 DEF Aside, actVars

LEMMA AcceptAside ==
  ASSUME KnownInv, NEW t \in Tasks, AcceptFit(t) \/ AcceptJoin(t) PROVE Aside
<1>1. /\ state[t] = "absent" /\ UNCHANGED <<actVars, hw>>
      /\ \E f : Commit(t, f, alloc)
      /\ alloc \in [Tasks -> Allocations]
  BY DEF AcceptFit, AcceptJoin, Accept, KnownInv, TaskTypes
<1> QED
  BY <1>1, CommitAside

LEMMA AmqpAside ==
  ASSUME KnownInv, UNCHANGED <<actVars, hw>>, NEW l, Goto(Amqp, l),
         \A t \in Tasks : alloc'[t].rx = alloc[t].rx
  PROVE  Aside
<1>1. ThreadInv /\ Amqp \in Threads /\ Amqp \notin Acts
  BY ThreadFacts DEF KnownInv
<1>2. \A t \in Tasks : Quiet(t)
  BY <1>1, QuietMove
<1> QED
  BY <1>2 DEF Aside, actVars

LEMMA RetuneAside ==
  ASSUME KnownInv, NEW t, Combine(t) \/ Retune PROVE Aside
<1>1. CASE AcceptCombined
  <2>1. pc[Amqp] \in Retuning
    BY <1>1 DEF AcceptCombined, Retuning
  <2>2. /\ Retuned \in [Tasks -> Allocations]
        /\ \A u \in Tasks : Retuned[u].rx = alloc[u].rx
    BY <2>1, RetunedIs
  <2>3. work.req \in Tasks /\ state[work.req] = "absent"
    BY <2>1, RetuningFacts
  <2>4. Commit(work.req, work.fit, Retuned) /\ UNCHANGED <<actVars, hw>>
    BY <1>1 DEF AcceptCombined
  <2> QED
    BY <2>2, <2>3, <2>4, CommitAside
<1>2. CASE PortsExhausted
  <2>1. pc[Amqp] \in Retuning
    BY <1>2 DEF PortsExhausted, Retuning
  <2>2. \A u \in Tasks : Retuned[u].rx = alloc[u].rx
    BY <2>1, RetunedIs
  <2>3. alloc' = Retuned /\ UNCHANGED <<actVars, hw>> /\ Goto(Amqp, "idle")
    BY <1>2 DEF PortsExhausted
  <2> QED
    BY <2>2, <2>3, AmqpAside
<1>3. CASE Plan
  <2>1. \A u \in Tasks : alloc[u] \in Allocations
    BY DEF KnownInv, TaskTypes
  <2>2. \A u \in Tasks : [alloc[u] EXCEPT !.out = OutputRate(alloc[u])].rx = alloc[u].rx
    BY <2>1 DEF Allocations
  <2>3. \A u \in Tasks : alloc'[u].rx = alloc[u].rx
    BY <1>3, <2>2 DEF Plan
  <2>4. Goto(Amqp, "convert") /\ UNCHANGED <<actVars, hw>>
    BY <1>3 DEF Plan
  <2> QED
    BY <2>3, <2>4, AmqpAside
<1>4. CASE \/ Combine(t) \/ Tune \/ TuneFails \/ Push \/ Collect \/ Flag
           \/ \E x \in work.todo : Unsubscribe(x) \/ Resubscribe(x)
  <2>1. (\E l : Goto(Amqp, l)) /\ alloc' = alloc /\ UNCHANGED <<actVars, hw>>
    BY <1>4 DEF Combine, Tune, TuneFails, Push, Collect, Flag, Unsubscribe, Resubscribe, taskVars
  <2> QED
    BY <2>1, AmqpAside
<1> QED
  BY <1>1, <1>2, <1>3, <1>4 DEF Retune

LEMMA StutterAside ==
  ASSUME UNCHANGED vars PROVE Aside
BY DEF vars, taskVars, actVars, Aside, Quiet

(* All of them.                                                            *)
Others ==
  \/ \E t \in Tasks : AcceptFit(t) \/ AcceptJoin(t) \/ Combine(t) \/ Cancel(t) \/ Expire(t)
  \/ Retune
  \/ \E s \in Failing : StreamError(s)
  \/ \E p \in Threads : Deactivate(p)
  \/ UNCHANGED vars

(* They leave the runtimes as they are, erase them or flag them.           *)
RuntimesLess ==
  \A t \in Tasks : \/ runtime'[t] = runtime[t]
                   \/ runtime'[t] = NoRuntime
                   \/ runtime[t] # NoRuntime /\ runtime'[t] = [runtime[t] EXCEPT !.sub = TRUE]

LEMMA OthersAside ==
  ASSUME KnownInv, Others
  PROVE  /\ Aside /\ RuntimesLess
         /\ \/ chan' = chan /\ status' = status /\ running' = running
            \/ \E p \in Threads : Teardown(p)
<1>1. CASE \E t \in Tasks : AcceptFit(t) \/ AcceptJoin(t)
  BY <1>1, AcceptAside
  DEF AcceptFit, AcceptJoin, Accept, rtVars, streamVars, RuntimesLess
<1>2. CASE \E t \in Tasks : Combine(t)
  BY <1>2, RetuneAside DEF Combine, rtVars, streamVars, RuntimesLess
<1>3. CASE \E t \in Tasks : Cancel(t) \/ Expire(t)
  BY <1>3, BeginAside DEF Cancel, Expire, rtVars, streamVars, RuntimesLess
<1>4. CASE \E s \in Failing : StreamError(s)
  BY <1>4, BeginAside DEF StreamError, rtVars, streamVars, RuntimesLess
<1>5. CASE Retune
  <2>1. Aside
    BY <1>5, RetuneAside
  <2>2. RuntimesLess
    <3>1. CASE Flag
      BY <3>1 DEF Flag, RuntimesLess
    <3>2. CASE runtime' = runtime
      BY <3>2 DEF RuntimesLess
    <3> QED
      BY <1>5, <3>1, <3>2
      DEF Retune, Tune, TuneFails, Push, Collect, Plan, Unsubscribe, Resubscribe,
          AcceptCombined, PortsExhausted, rtVars
  <2>3. chan' = chan /\ status' = status /\ running' = running
    BY <1>5
    DEF Retune, Tune, TuneFails, Push, Collect, Plan, Unsubscribe, Resubscribe, Flag,
        AcceptCombined, PortsExhausted, rtVars, streamVars
  <2> QED
    BY <2>1, <2>2, <2>3
<1>6. CASE \E p \in Threads : Deactivate(p)
  <2>1. PICK p \in Threads : Deactivate(p)
    BY <1>6
  <2>2. CASE Teardown(p)
    <3>1. runtime' = [runtime EXCEPT ![arg[p]] = NoRuntime]
      BY <2>2 DEF Teardown
    <3>2. RuntimesLess
      BY <3>1 DEF RuntimesLess, KnownInv, StreamTypes
    <3> QED
      BY <2>1, <2>2, <3>2, CallAside
  <2>3. CASE Claim(p) \/ CheckOrphan(p) \/ ReleaseSlot(p)
    <3>1. UNCHANGED <<streamVars, rtVars>>
      BY <2>3 DEF Claim, CheckOrphan, ReleaseSlot
    <3> QED
      BY <2>1, <3>1, CallAside DEF streamVars, rtVars, RuntimesLess
  <2> QED
    BY <2>1, <2>2, <2>3 DEF Deactivate
<1>7. CASE UNCHANGED vars
  BY <1>7, StutterAside DEF vars, rtVars, streamVars, RuntimesLess
<1> QED
  BY <1>1, <1>2, <1>3, <1>4, <1>5, <1>6, <1>7 DEF Others

LEMMA NextSplits ==
  ASSUME [Next]_vars PROVE Others \/ \E t \in Tasks : Activate(t)
BY DEF Next, Others

(* A step of one activation.                                               *)
LEMMA ActMoves ==
  ASSUME KnownInv, NEW t \in Tasks, NEW l, Goto(Act(t), l)
  PROVE  /\ pc'[Act(t)] = l
         /\ \A u \in Tasks : u # t => pc'[Act(u)] = pc[Act(u)]
         /\ pc'[Amqp] = pc[Amqp]
<1>1. ThreadInv /\ Act(t) \in Threads /\ Act(t) # Amqp /\ Amqp \in Threads
  BY ThreadFacts DEF KnownInv
<1>2. \A u \in Tasks : Act(u) \in Threads /\ (u # t => Act(u) # Act(t))
  BY ThreadFacts
<1> QED
  BY <1>1, <1>2, GotoIs

(***************************************************************************)
(* The mutex and the runtimes.                                             *)
(***************************************************************************)
LEMMA HwAside ==
  ASSUME HwInv, Aside PROVE HwInv'
<1> SUFFICES ASSUME NEW t \in Tasks PROVE hw' = Act(t) <=> pc'[Act(t)] \in Holding
  BY DEF HwInv
<1>1. Quiet(t) /\ hw' = hw /\ (hw = Act(t) <=> pc[Act(t)] \in Holding)
  BY DEF Aside, HwInv
<1> QED
  BY <1>1 DEF Quiet, Calling, Holding

LEMMA RuntimeAside ==
  ASSUME KnownInv, RuntimeInv, Aside, RuntimesLess PROVE RuntimeInv'
<1>1. ASSUME NEW t \in Tasks
      PROVE  /\ pc'[Act(t)] \in {"borrow", "insert"} <=> built'[t] # NoRuntime
             /\ pc'[Act(t)] = "borrow" => ~built'[t].sub
             /\ runtime'[t] # NoRuntime => pc'[Act(t)] \in Inserted
             /\ built'[t].uses = <<>> => built'[t] = NoRuntime
             /\ runtime'[t].uses = <<>> => runtime'[t] = NoRuntime
             /\ OneChannel => Len(built'[t].uses) <= 1 /\ Len(runtime'[t].uses) <= 1
  <2>1. Quiet(t) /\ built'[t] = built[t]
    BY DEF Aside
  <2>2. pc'[Act(t)] \in {"borrow", "insert"} <=> pc[Act(t)] \in {"borrow", "insert"}
    BY <2>1 DEF Quiet, Calling
  <2>3. pc'[Act(t)] = "borrow" => pc[Act(t)] = "borrow"
    BY <2>1 DEF Quiet, Calling
  <2>4. pc[Act(t)] \in Inserted => pc'[Act(t)] \in Inserted
    BY <2>1 DEF Quiet, Calling, Inserted
  <2>5. runtime[t] \in Runtimes
    BY DEF KnownInv, StreamTypes
  <2>6. /\ runtime'[t] # NoRuntime => runtime[t] # NoRuntime
        /\ runtime'[t].uses = <<>> => runtime'[t] = NoRuntime
        /\ OneChannel => Len(runtime'[t].uses) <= 1
    <3>1. CASE runtime'[t] = runtime[t]
      BY <3>1 DEF RuntimeInv
    <3>2. CASE runtime'[t] = NoRuntime
      BY <3>2 DEF NoRuntime
    <3>3. CASE runtime[t] # NoRuntime /\ runtime'[t] = [runtime[t] EXCEPT !.sub = TRUE]
      <4>1. runtime'[t].uses = runtime[t].uses
        BY <2>5, <3>3 DEF Runtimes
      <4> QED
        BY <3>3, <4>1 DEF RuntimeInv
    <3> QED
      BY <3>1, <3>2, <3>3 DEF RuntimesLess
  <2> QED
    BY <2>1, <2>2, <2>3, <2>4, <2>6 DEF RuntimeInv
<1> QED
  BY <1>1 DEF RuntimeInv, OneChannel

LEMMA HwMoves ==
  ASSUME KnownInv, HwInv, NEW t \in Tasks, NEW l, Goto(Act(t), l),
         \/ hw' = hw /\ (pc[Act(t)] \in Holding <=> l \in Holding)
         \/ hw = NoThread /\ hw' = Act(t) /\ l \in Holding
         \/ hw' = NoThread /\ pc[Act(t)] \in Holding /\ l \notin Holding
  PROVE  HwInv'
<1>1. pc'[Act(t)] = l /\ \A u \in Tasks : u # t => pc'[Act(u)] = pc[Act(u)]
  BY ActMoves
<1>2. \A u \in Tasks : NoThread # Act(u) /\ (Act(u) = Act(t) => u = t)
  BY ThreadFacts
<1> SUFFICES ASSUME NEW u \in Tasks PROVE hw' = Act(u) <=> pc'[Act(u)] \in Holding
  BY DEF HwInv
<1>3. /\ hw = Act(u) <=> pc[Act(u)] \in Holding
      /\ hw = Act(t) <=> pc[Act(t)] \in Holding
  BY DEF HwInv
<1>4. CASE u = t
  BY <1>1, <1>2, <1>3, <1>4
<1>5. CASE u # t
  BY <1>1, <1>2, <1>3, <1>5
<1> QED
  BY <1>4, <1>5

LEMMA HwActivate ==
  ASSUME KnownInv, HwInv, NEW t \in Tasks, Activate(t) PROVE HwInv'
<1>1. /\ "lookup" \in Holding /\ "borrow" \in Holding /\ "open" \in Holding
      /\ \A l \in {"start", "lock", "insert", "run", "done", "claim"} : l \notin Holding
  BY DEF Holding
<1>2. CASE ActStart(t)
  <2>1. pc[Act(t)] = "start" /\ hw' = hw /\ \E l \in {"done", "lock"} : Goto(Act(t), l)
    BY <1>2 DEF ActStart, Act
  <2> QED
    BY <1>1, <2>1, HwMoves
<1>3. CASE ActLock(t)
  <2>1. /\ pc[Act(t)] = "lock"
        /\ \/ Goto(Act(t), "done") /\ hw' = hw
           \/ Goto(Act(t), "lookup") /\ hw = NoThread /\ hw' = Act(t)
    BY <1>3 DEF ActLock, Act, HwFree
  <2> QED
    BY <1>1, <2>1, HwMoves
<1>4. CASE ActLookup(t)
  <2>1. pc[Act(t)] = "lookup" /\ hw' = hw /\ \E l \in {"borrow", "open"} : Goto(Act(t), l)
    BY <1>4 DEF ActLookup, Act
  <2> QED
    BY <1>1, <2>1, HwMoves
<1>5. CASE ActBorrow(t) \/ ActOpen(t) \/ ActFails(t)
  <2>1. /\ pc[Act(t)] \in {"borrow", "open"} /\ hw' = NoThread
        /\ \E l \in {"insert", "claim"} : Goto(Act(t), l)
    BY <1>5 DEF ActBorrow, ActOpen, ActFails, Act
  <2> QED
    BY <1>1, <2>1, HwMoves
<1>6. CASE ActInsert(t) \/ ActRun(t)
  <2>1. pc[Act(t)] \in {"insert", "run"} /\ hw' = hw /\ \E l \in {"run", "done"} : Goto(Act(t), l)
    BY <1>6 DEF ActInsert, ActRun, Act
  <2> QED
    BY <1>1, <2>1, HwMoves
<1> QED
  BY <1>2, <1>3, <1>4, <1>5, <1>6 DEF Activate

LEMMA RuntimeMoves ==
  ASSUME KnownInv, RuntimeInv, NEW t \in Tasks, NEW l, Goto(Act(t), l),
         \A u \in Tasks : u # t => built'[u] = built[u] /\ runtime'[u] = runtime[u],
         l \in {"borrow", "insert"} <=> built'[t] # NoRuntime,
         l = "borrow" => ~built'[t].sub,
         runtime'[t] # NoRuntime => l \in Inserted,
         built'[t].uses = <<>> => built'[t] = NoRuntime,
         runtime'[t].uses = <<>> => runtime'[t] = NoRuntime,
         OneChannel => Len(built'[t].uses) <= 1 /\ Len(runtime'[t].uses) <= 1
  PROVE  RuntimeInv'
<1>1. pc'[Act(t)] = l /\ \A u \in Tasks : u # t => pc'[Act(u)] = pc[Act(u)]
  BY ActMoves
<1>2. ASSUME NEW u \in Tasks
      PROVE  /\ pc'[Act(u)] \in {"borrow", "insert"} <=> built'[u] # NoRuntime
             /\ pc'[Act(u)] = "borrow" => ~built'[u].sub
             /\ runtime'[u] # NoRuntime => pc'[Act(u)] \in Inserted
             /\ built'[u].uses = <<>> => built'[u] = NoRuntime
             /\ runtime'[u].uses = <<>> => runtime'[u] = NoRuntime
             /\ OneChannel => Len(built'[u].uses) <= 1 /\ Len(runtime'[u].uses) <= 1
  <2>1. CASE u = t
    BY <1>1, <2>1
  <2>2. CASE u # t
    BY <1>1, <2>2 DEF RuntimeInv
  <2> QED
    BY <2>1, <2>2
<1> QED
  BY <1>2 DEF RuntimeInv, OneChannel

(* A step that leaves what it has built.                                   *)
LEMMA RuntimeStays ==
  ASSUME KnownInv, RuntimeInv, NEW t \in Tasks, NEW l, Goto(Act(t), l),
         built' = built, runtime' = runtime,
         l \in {"borrow", "insert"} <=> pc[Act(t)] \in {"borrow", "insert"},
         l = "borrow" => pc[Act(t)] = "borrow",
         pc[Act(t)] \in Inserted => l \in Inserted
  PROVE  RuntimeInv'
<1>1. /\ pc[Act(t)] \in {"borrow", "insert"} <=> built[t] # NoRuntime
      /\ pc[Act(t)] = "borrow" => ~built[t].sub
      /\ runtime[t] # NoRuntime => pc[Act(t)] \in Inserted
      /\ built[t].uses = <<>> => built[t] = NoRuntime
      /\ runtime[t].uses = <<>> => runtime[t] = NoRuntime
      /\ OneChannel => Len(built[t].uses) <= 1 /\ Len(runtime[t].uses) <= 1
  BY DEF RuntimeInv
<1> QED
  BY <1>1, RuntimeMoves

(* Before it has built anything, or after it has inserted it.              *)
LEMMA NothingBuilt ==
  ASSUME KnownInv, RuntimeInv, NEW t \in Tasks
  PROVE  /\ pc[Act(t)] \notin {"borrow", "insert"} => built[t] = [uses |-> <<>>, sub |-> FALSE]
         /\ pc[Act(t)] \notin Inserted => runtime[t] = [uses |-> <<>>, sub |-> FALSE]
BY DEF RuntimeInv, NoRuntime

LEMMA RuntimeActivate ==
  ASSUME KnownInv, RuntimeInv, NEW t \in Tasks, Activate(t) PROVE RuntimeInv'
<1>0. /\ built \in [Tasks -> Runtimes] /\ runtime \in [Tasks -> Runtimes]
      /\ built[t] \in Runtimes /\ built[t].uses \in Seq(Tasks)
  BY DEF KnownInv, ActTypes, StreamTypes, Runtimes
<1>1. CASE ActStart(t) \/ ActLock(t) \/ ActFails(t) \/ ActRun(t)
  <2>1. /\ built' = built /\ runtime' = runtime
        /\ pc[Act(t)] \in {"start", "lock", "open", "run"}
        /\ \E l \in {"done", "lock", "lookup", "claim"} : Goto(Act(t), l) /\ (pc[Act(t)] = "run" => l = "done")
    BY <1>1 DEF ActStart, ActLock, ActFails, ActRun, Act, rtVars, actVars
  <2> QED
    BY <2>1, RuntimeStays DEF Inserted
<1>2. CASE ActLookup(t)
  <2> DEFINE uses == [i \in DOMAIN copy[t].rx |-> chan[copy[t].rx[i]]]
  <2>1. /\ pc[Act(t)] = "lookup" /\ runtime' = runtime
        /\ \/ /\ uses \in Seq(Tasks) /\ uses # <<>> /\ Len(uses) = Len(alloc[t].rx)
              /\ built' = [built EXCEPT ![t].uses = uses]
              /\ Goto(Act(t), "borrow")
           \/ Goto(Act(t), "open") /\ built' = built
    BY <1>2, LookupIs DEF ActLookup, Act, rtVars
  <2> HIDE DEF uses
  <2>2. /\ built[t] = [uses |-> <<>>, sub |-> FALSE] /\ runtime[t] = [uses |-> <<>>, sub |-> FALSE]
        /\ runtime[t] = NoRuntime
    BY <2>1, NothingBuilt DEF Inserted, NoRuntime
  <2>3. CASE Goto(Act(t), "open") /\ built' = built
    BY <2>1, <2>3, RuntimeStays DEF Inserted
  <2>4. CASE /\ uses \in Seq(Tasks) /\ uses # <<>> /\ Len(uses) = Len(alloc[t].rx)
             /\ built' = [built EXCEPT ![t].uses = uses]
             /\ Goto(Act(t), "borrow")
    <3>1. built'[t].uses = uses /\ ~built'[t].sub
      <4>1. built'[t] = [built[t] EXCEPT !.uses = uses]
        BY <1>0, <2>4
      <4>2. built'[t].uses = uses /\ built'[t].sub = built[t].sub
        BY <1>0, <4>1 DEF Runtimes
      <4> QED
        BY <2>2, <4>2
    <3>2. \A u \in Tasks : u # t => built'[u] = built[u] /\ runtime'[u] = runtime[u]
      BY <1>0, <2>1, <2>4
    <3>3. OneChannel => Len(uses) <= 1
      <4>1. state[t] # "absent"
        BY <2>1 DEF KnownInv, ThreadInv
      <4>2. OneChannel => Len(alloc[t].rx) = 1
        BY <4>1 DEF KnownInv, AllocInv
      <4> QED
        BY <2>4, <4>2
    <3>4. built'[t] # NoRuntime /\ built'[t].uses # <<>> /\ ~built'[t].sub
      BY <2>4, <3>1 DEF NoRuntime
    <3>5. Len(runtime'[t].uses) <= 1 /\ runtime'[t] = NoRuntime
      BY <2>1, <2>2
    <3> QED
      BY <2>4, <3>1, <3>2, <3>3, <3>4, <3>5, RuntimeMoves
  <2> QED
    BY <2>1, <2>3, <2>4
<1>3. CASE ActBorrow(t)
  <2>1. /\ pc[Act(t)] = "borrow" /\ runtime' = runtime /\ Goto(Act(t), "insert")
        /\ built' = built \/ built' = [built EXCEPT ![t].sub = TRUE]
    BY <1>3 DEF ActBorrow, Act, rtVars
  <2>2. CASE built' = built
    BY <2>1, <2>2, RuntimeStays DEF Inserted
  <2>3. CASE built' = [built EXCEPT ![t].sub = TRUE]
    <3>1. built'[t].uses = built[t].uses /\ built'[t].sub
      BY <1>0, <2>3 DEF Runtimes
    <3>2. \A u \in Tasks : u # t => built'[u] = built[u] /\ runtime'[u] = runtime[u]
      BY <1>0, <2>1, <2>3
    <3>3. built[t] # NoRuntime /\ built[t].uses # <<>>
      BY <2>1 DEF RuntimeInv
    <3>4. built'[t] # NoRuntime
      BY <3>1 DEF NoRuntime
    <3>5. runtime'[t] = runtime[t] /\ runtime[t] = NoRuntime
      BY <2>1, NothingBuilt DEF Inserted, NoRuntime
    <3>6. OneChannel => Len(built[t].uses) <= 1 /\ Len(runtime[t].uses) <= 1
      BY DEF RuntimeInv
    <3> QED
      BY <2>1, <3>1, <3>2, <3>3, <3>4, <3>5, <3>6, RuntimeMoves
  <2> QED
    BY <2>1, <2>2, <2>3
<1>4. CASE ActOpen(t)
  <2>1. /\ pc[Act(t)] = "open" /\ runtime' = runtime /\ Goto(Act(t), "insert")
        /\ built' = [built EXCEPT ![t].uses = <<t>>]
    BY <1>4 DEF ActOpen, Act
  <2>2. runtime[t] = NoRuntime
    BY <2>1, NothingBuilt DEF Inserted, NoRuntime
  <2>3. built'[t].uses = <<t>>
    BY <1>0, <2>1 DEF Runtimes
  <2>4. \A u \in Tasks : u # t => built'[u] = built[u] /\ runtime'[u] = runtime[u]
    BY <1>0, <2>1
  <2>5. built'[t] # NoRuntime /\ built'[t].uses # <<>> /\ Len(built'[t].uses) <= 1
    BY <2>3 DEF NoRuntime
  <2>6. runtime'[t] = NoRuntime /\ Len(runtime'[t].uses) <= 1
    BY <2>1, <2>2 DEF NoRuntime
  <2> QED
    BY <2>1, <2>4, <2>5, <2>6, RuntimeMoves
<1>5. CASE ActInsert(t)
  <2>1. /\ pc[Act(t)] = "insert" /\ Goto(Act(t), "run")
        /\ runtime' = [runtime EXCEPT ![t] = built[t]]
        /\ built' = [built EXCEPT ![t] = NoRuntime]
    BY <1>5 DEF ActInsert, Act
  <2>2. /\ runtime'[t] = built[t] /\ built'[t] = NoRuntime
        /\ \A u \in Tasks : u # t => built'[u] = built[u] /\ runtime'[u] = runtime[u]
    BY <1>0, <2>1
  <2>3. /\ built[t].uses = <<>> => built[t] = NoRuntime
        /\ OneChannel => Len(built[t].uses) <= 1
    BY DEF RuntimeInv
  <2>4. Len(NoRuntime.uses) <= 1 /\ "run" \in Inserted
    BY DEF NoRuntime, Inserted
  <2> QED
    BY <2>1, <2>2, <2>3, <2>4, RuntimeMoves
<1> QED
  BY <1>1, <1>2, <1>3, <1>4, <1>5 DEF Activate

(***************************************************************************)
(* A teardown where requests are for one channel each.                     *)
(***************************************************************************)

(* What it leaves of the consumers of a stream, before it closes any.      *)
LEMMA WithoutIs ==
  ASSUME StreamTypes, NEW t \in Tasks
  PROVE  /\ runtime[t].uses = <<>> =>
               DestsWithout(t) = dests /\ SubsWithout(t) = subs
         /\ \A s \in Tasks : runtime[t].uses = <<s>> =>
               \A u, v \in Tasks :
                  /\ DestsWithout(t)[u][v] = IF v = t /\ u = s /\ ~runtime[t].sub /\ dests[u][v] > 0
                                             THEN dests[u][v] - 1 ELSE dests[u][v]
                  /\ SubsWithout(t)[u][v] = IF v = t /\ u = s /\ runtime[t].sub
                                            THEN NoWindow ELSE subs[u][v]
<1> DEFINE D(u) == [dests[u] EXCEPT ![t] =
                 IF runtime[t].sub \/ @ = 0 THEN @
                 ELSE LET n == Times(runtime[t].uses, u)
                      IN IF n > @ THEN 0 ELSE @ - n]
           S(u) == [subs[u] EXCEPT ![t] =
                 IF runtime[t].sub /\ u \in Range(runtime[t].uses) THEN NoWindow ELSE @]
<1>1. /\ runtime[t].uses \in Seq(Tasks) /\ runtime[t].sub \in BOOLEAN
      /\ dests \in [Tasks -> [Tasks -> Nat]] /\ subs \in [Tasks -> [Tasks -> Windows]]
  BY DEF StreamTypes, Runtimes
<1>2. DestsWithout(t) = [u \in Tasks |-> D(u)] /\ SubsWithout(t) = [u \in Tasks |-> S(u)]
  BY DEF DestsWithout, SubsWithout
<1>3. ASSUME runtime[t].uses = <<>>
      PROVE  DestsWithout(t) = dests /\ SubsWithout(t) = subs
  <2>1. \A u \in Tasks : Times(runtime[t].uses, u) = 0
    BY <1>1, <1>3, TimesIs
  <2>2. Range(runtime[t].uses) = {}
    BY <1>3 DEF Range
  <2>3. \A u \in Tasks : D(u) = dests[u]
    BY <1>1, <2>1
  <2>4. \A u \in Tasks : S(u) = subs[u]
    BY <1>1, <2>2
  <2> HIDE DEF D, S
  <2> QED
    BY <1>1, <1>2, <2>3, <2>4
<1>4. ASSUME NEW s \in Tasks, runtime[t].uses = <<s>>, NEW u \in Tasks, NEW v \in Tasks
      PROVE  /\ DestsWithout(t)[u][v] = IF v = t /\ u = s /\ ~runtime[t].sub /\ dests[u][v] > 0
                                        THEN dests[u][v] - 1 ELSE dests[u][v]
             /\ SubsWithout(t)[u][v] = IF v = t /\ u = s /\ runtime[t].sub
                                       THEN NoWindow ELSE subs[u][v]
  <2>1. Times(runtime[t].uses, u) = IF u = s THEN 1 ELSE 0
    BY <1>1, <1>4, TimesIs
  <2>2. u \in Range(runtime[t].uses) <=> u = s
    BY <1>4 DEF Range
  <2>3. dests[u] \in [Tasks -> Nat] /\ subs[u] \in [Tasks -> Windows]
    BY <1>1
  <2>4. D(u)[v] = IF v = t /\ u = s /\ ~runtime[t].sub /\ dests[u][v] > 0
                  THEN dests[u][v] - 1 ELSE dests[u][v]
    BY <2>1, <2>3
  <2>5. S(u)[v] = IF v = t /\ u = s /\ runtime[t].sub THEN NoWindow ELSE subs[u][v]
    BY <2>2, <2>3
  <2> HIDE DEF D, S
  <2> QED
    BY <1>2, <2>4, <2>5
<1> QED
  BY <1>3, <1>4

(* The stream has a consumer left.                                         *)
StillConsumed(t, s) == \E v \in Tasks : DestsWithout(t)[s][v] > 0 \/ SubsWithout(t)[s][v] # NoWindow

LEMMA TeardownOne ==
  ASSUME StreamTypes, NEW p \in Threads, arg[p] \in Tasks, Teardown(p),
         Len(runtime[arg[p]].uses) <= 1
  PROVE  \/ /\ runtime[arg[p]].uses = <<>>
            /\ UNCHANGED <<chan, status, running, dests, subs>>
         \/ \E s \in Tasks :
               /\ runtime[arg[p]].uses = <<s>>
               /\ \/ /\ \E c \in Channels : chan[c] = s
                     /\ StillConsumed(arg[p], s)
                     /\ UNCHANGED <<chan, status, running>>
                     /\ dests' = DestsWithout(arg[p]) /\ subs' = SubsWithout(arg[p])
                  \/ /\ ~ ((\E c \in Channels : chan[c] = s) /\ StillConsumed(arg[p], s))
                     /\ chan' = [c \in Channels |-> IF chan[c] = s THEN NoTask ELSE chan[c]]
                     /\ status' = [status EXCEPT ![s] = IF @ = "open" THEN "closed" ELSE "twice"]
                     /\ running' = [u \in Tasks |-> running[u] /\ ~(u = s /\ running[s])]
                     /\ \A u, v \in Tasks :
                           /\ dests'[u][v] \in {0, DestsWithout(arg[p])[u][v]}
                           /\ subs'[u][v] \in {NoWindow, SubsWithout(arg[p])[u][v]}
                           /\ u # s => /\ dests'[u][v] = DestsWithout(arg[p])[u][v]
                                       /\ subs'[u][v] = SubsWithout(arg[p])[u][v]
<1> DEFINE t == arg[p]
           uses == runtime[t].uses
           dev == CloseStreams(Left(t), uses)
<1>1. /\ uses \in Seq(Tasks)
      /\ Left(t) \in Devs
      /\ chan' = dev.chan /\ status' = dev.status /\ running' = dev.running
      /\ dests' = dev.dests /\ subs' = dev.subs
  BY LeftType, TeardownIs DEF StreamTypes, Runtimes
<1>2. /\ Left(t).chan = chan /\ Left(t).status = status /\ Left(t).running = running
      /\ Left(t).dests = DestsWithout(t) /\ Left(t).subs = SubsWithout(t)
  BY DEF Left
<1>3. CASE Len(uses) = 0
  <2>1. dev = Left(t) /\ uses = <<>>
    BY <1>1, <1>3, CloseStreamsType
  <2> QED
    BY <1>1, <1>2, <2>1, WithoutIs
<1>4. CASE Len(uses) = 1
  <2> DEFINE s == uses[1]
             one == Left(t)
             found == \E c \in Channels : chan[c] = s
             stops == {u \in {s} : running[u]}
             d == Stop(one, IF found THEN {s} ELSE Range(uses))
             closed == [d EXCEPT
               !.chan = [c \in Channels |-> IF @[c] = s THEN NoTask ELSE @[c]],
               !.status[s] = IF @ = "open" THEN "closed" ELSE "twice"]
  <2>1. s \in Tasks /\ uses = <<s>> /\ dev = CloseStream(one, s, uses)
    <3>1. s \in Tasks
      BY <1>1, <1>4
    <3>2. uses = <<s>>
      BY <1>1, <1>4
    <3> HIDE DEF uses
    <3>3. dev = CloseStream(one, uses[1], uses)
      BY <1>1, <1>4, CloseStreamsType
    <3> QED
      BY <3>1, <3>2, <3>3
  <2>2. Range(uses) = {s}
    BY <2>1 DEF Range
  <2>3. TotalConsumers(one.dests[s], one.subs[s]) # {} <=> StillConsumed(t, s)
    BY <1>2 DEF TotalConsumers, StillConsumed
  <2>4. dev = IF found /\ StillConsumed(t, s) THEN one ELSE closed
    BY <1>2, <2>1, <2>3 DEF CloseStream
  <2>5. CASE found /\ StillConsumed(t, s)
    BY <1>1, <1>2, <2>1, <2>4, <2>5
  <2>6. CASE ~(found /\ StillConsumed(t, s))
    <3>1. d = Stop(one, {s})
      BY <2>2
    <3>2. d = [one EXCEPT
                 !.running = [u \in Tasks |-> @[u] /\ u \notin stops],
                 !.dests = [u \in Tasks |-> IF u \in stops THEN [v \in Tasks |-> 0] ELSE @[u]],
                 !.subs = [u \in Tasks |-> IF u \in stops THEN [v \in Tasks |-> NoWindow] ELSE @[u]]]
      BY <1>2, <3>1 DEF Stop
    <3>9. ASSUME NEW run, NEW dst, NEW sub
          PROVE  LET e == [one EXCEPT !.running = run, !.dests = dst, !.subs = sub]
                 IN e.chan = one.chan /\ e.status = one.status /\ e.running = run
                    /\ e.dests = dst /\ e.subs = sub
      BY <1>1 DEF Devs
    <3>10. /\ d.chan = one.chan /\ d.status = one.status
           /\ d.running = [u \in Tasks |-> one.running[u] /\ u \notin stops]
           /\ d.dests = [u \in Tasks |-> IF u \in stops THEN [v \in Tasks |-> 0] ELSE one.dests[u]]
           /\ d.subs = [u \in Tasks |-> IF u \in stops THEN [v \in Tasks |-> NoWindow] ELSE one.subs[u]]
      <4> DEFINE run == [u \in Tasks |-> one.running[u] /\ u \notin stops]
                 dst == [u \in Tasks |-> IF u \in stops THEN [v \in Tasks |-> 0] ELSE one.dests[u]]
                 sub == [u \in Tasks |-> IF u \in stops THEN [v \in Tasks |-> NoWindow] ELSE one.subs[u]]
      <4>1. d = [one EXCEPT !.running = run, !.dests = dst, !.subs = sub]
        BY <3>2
      <4> HIDE DEF d, run, dst, sub
      <4>2. /\ d.chan = one.chan /\ d.status = one.status /\ d.running = run
            /\ d.dests = dst /\ d.subs = sub
        BY <3>9, <4>1
      <4> QED
        BY <4>2 DEF run, dst, sub
    <3>3. /\ d.chan = chan /\ d.status = status
          /\ d.running = [u \in Tasks |-> running[u] /\ u \notin stops]
          /\ d.dests = [u \in Tasks |-> IF u \in stops THEN [v \in Tasks |-> 0] ELSE DestsWithout(t)[u]]
          /\ d.subs = [u \in Tasks |-> IF u \in stops THEN [v \in Tasks |-> NoWindow] ELSE SubsWithout(t)[u]]
      BY <1>2, <3>10
    <3>11. d \in Devs
      BY <1>1, <2>1, <3>1, StopType
    <3> HIDE DEF d
    <3>12. ASSUME NEW ch, NEW st
           PROVE  LET e == [d EXCEPT !.chan = ch, !.status = st]
                  IN e.chan = ch /\ e.status = st /\ e.running = d.running
                     /\ e.dests = d.dests /\ e.subs = d.subs
      BY <3>11 DEF Devs
    <3>4. /\ closed.chan = [c \in Channels |-> IF chan[c] = s THEN NoTask ELSE chan[c]]
          /\ closed.status = [status EXCEPT ![s] = IF @ = "open" THEN "closed" ELSE "twice"]
          /\ closed.running = d.running /\ closed.dests = d.dests /\ closed.subs = d.subs
      <4> DEFINE ch == [c \in Channels |-> IF d.chan[c] = s THEN NoTask ELSE d.chan[c]]
                 st == [d.status EXCEPT ![s] = IF @ = "open" THEN "closed" ELSE "twice"]
      <4>3. [d EXCEPT !.chan = ch].status = d.status
        BY <3>11 DEF Devs
      <4>1. closed = [d EXCEPT !.chan = ch, !.status = st]
        BY <4>3
      <4> HIDE DEF closed, ch, st
      <4>2. /\ closed.chan = ch /\ closed.status = st /\ closed.running = d.running
            /\ closed.dests = d.dests /\ closed.subs = d.subs
        BY <3>12, <4>1
      <4> QED
        BY <3>3, <4>2 DEF ch, st
    <3> HIDE DEF closed
    <3>5. dev = closed
      BY <2>4, <2>6
    <3>6. /\ running' = d.running /\ dests' = d.dests /\ subs' = d.subs
          /\ chan' = closed.chan /\ status' = closed.status
      BY <1>1, <3>4, <3>5
    <3>7. running' = [u \in Tasks |-> running[u] /\ ~(u = s /\ running[s])]
      BY <3>3, <3>6
    <3>8. \A u, v \in Tasks :
             /\ dests'[u][v] \in {0, DestsWithout(t)[u][v]}
             /\ subs'[u][v] \in {NoWindow, SubsWithout(t)[u][v]}
             /\ u # s => /\ dests'[u][v] = DestsWithout(t)[u][v]
                         /\ subs'[u][v] = SubsWithout(t)[u][v]
      BY <3>3, <3>6
    <3> QED
      BY <2>1, <2>6, <3>4, <3>6, <3>7, <3>8
  <2> QED
    BY <2>5, <2>6
<1>5. Len(uses) = 0 \/ Len(uses) = 1
  <2> DEFINE n == Len(uses)
  <2>1. n \in Nat /\ n <= 1
    BY <1>1
  <2> HIDE DEF n
  <2>2. n = 0 \/ n = 1
    BY <2>1
  <2> QED
    BY <2>2 DEF n
<1> QED
  BY <1>3, <1>4, <1>5

(***************************************************************************)
(* channel_states_, where requests are for one channel each.               *)
(***************************************************************************)
(* A stream that is open has a channel, the first of its task.             *)
LEMMA OpenChannel ==
  ASSUME KnownInv, ChanInv, NEW s \in Tasks, status[s] = "open"
  PROVE  /\ alloc[s].rx[1] \in Channels /\ state[s] # "absent"
         /\ alloc[s].rx \in Seq(Channels) /\ alloc[s].rx # <<>>
<1>1. state[s] # "absent"
  BY DEF ChanInv, Inserted, KnownInv, ThreadInv
<1>2. alloc[s].rx \in Seq(Channels) /\ alloc[s].rx # <<>>
  BY <1>1 DEF KnownInv, AllocInv, TaskTypes, Allocations
<1> QED
  BY <1>1, <1>2

LEMMA UsesLess ==
  ASSUME KnownInv, RuntimesLess, NEW t \in Tasks
  PROVE  runtime'[t].uses = runtime[t].uses \/ runtime'[t].uses = <<>>
<1>1. PICK r \in Runtimes : r = runtime[t]
  BY DEF KnownInv, StreamTypes
<1>2. [r EXCEPT !.sub = TRUE].uses = r.uses
  BY DEF Runtimes
<1>3. NoRuntime.uses = <<>>
  BY DEF NoRuntime
<1> QED
  BY <1>1, <1>2, <1>3 DEF RuntimesLess

LEMMA ChanAside ==
  ASSUME KnownInv, RuntimeInv, ChanInv, Aside, RuntimesLess,
         chan' = chan, status' = status, running' = running
  PROVE  ChanInv'
<1>1. \A t \in Tasks : /\ pc[Act(t)] \in {"insert"} \cup Inserted => pc'[Act(t)] = pc[Act(t)]
                       /\ pc'[Act(t)] \in {"open", "borrow"} => pc'[Act(t)] = pc[Act(t)]
                       /\ pc[Act(t)] # "idle" => alloc'[t].rx = alloc[t].rx
                       /\ built'[t] = built[t] /\ copy'[t] = copy[t]
  BY DEF Aside, Quiet, Calling, Inserted, KnownInv, ThreadInv
<1>2. \A s \in Tasks : status'[s] # "none" => pc'[Act(s)] \in {"insert"} \cup Inserted
  BY <1>1 DEF ChanInv
<1>3. \A s \in Tasks : status[s] # "none" => alloc'[s].rx = alloc[s].rx
  BY <1>1 DEF ChanInv, Inserted
<1>4. \A c \in Channels : chan[c] # NoTask => chan[c] \in Tasks
  BY DEF KnownInv, StreamTypes
<1>5. \A c \in Channels : chan'[c] # NoTask => status'[chan'[c]] = "open" /\ alloc'[chan'[c]].rx = <<c>>
  BY <1>3, <1>4 DEF ChanInv
<1>6. \A s \in Tasks : status'[s] = "open" => chan'[alloc'[s].rx[1]] = s /\ running'[s]
  BY <1>3 DEF ChanInv
<1>7. \A t \in Tasks : pc'[Act(t)] = "open" => chan'[copy'[t].rx[1]] = NoTask
  BY <1>1 DEF ChanInv
<1>8. \A t \in Tasks : pc'[Act(t)] = "borrow" => built'[t].uses = <<chan'[copy'[t].rx[1]]>>
                                                 /\ chan'[copy'[t].rx[1]] # NoTask
  BY <1>1 DEF ChanInv
<1>9. ASSUME NEW t \in Tasks
      PROVE  \A s \in Range(runtime'[t].uses) \cup Range(built'[t].uses) : status'[s] # "none"
  <2>1. runtime'[t].uses = runtime[t].uses \/ runtime'[t].uses = <<>>
    BY UsesLess
  <2>2. Range(<<>>) = {}
    BY DEF Range
  <2> QED
    BY <1>1, <2>1, <2>2 DEF ChanInv
<1>10. \A s \in Tasks : running'[s] => status'[s] = "open"
  BY DEF ChanInv
<1> QED
  BY <1>2, <1>5, <1>6, <1>7, <1>8, <1>9, <1>10 DEF ChanInv

(* An activation that holds the mutex keeps teardowns out.                 *)
LEMMA TeardownAlone ==
  ASSUME KnownInv, HwInv, NEW p \in Threads, Teardown(p)
  PROVE  /\ arg[p] \in Tasks
         /\ \A t \in Tasks : pc[Act(t)] \notin Holding
<1>1. pc[p] = "teardown" /\ hw = NoThread
  BY DEF Teardown, HwFree
<1>2. \A t \in Tasks : Act(t) # NoThread
  BY ThreadFacts
<1> QED
  BY <1>1, <1>2 DEF KnownInv, ThreadInv, Calling, HwInv

LEMMA ChanTeardown ==
  ASSUME KnownInv, HwInv, RuntimeInv, ChanInv, OneChannel, NEW p \in Threads, Teardown(p)
  PROVE  ChanInv'
<1>1. Aside
  BY CallAside DEF Deactivate
<1>2. /\ arg[p] \in Tasks /\ Len(runtime[arg[p]].uses) <= 1
      /\ \A t \in Tasks : pc[Act(t)] \notin Holding
  BY TeardownAlone DEF RuntimeInv
<1>3. RuntimesLess
  BY DEF Teardown, RuntimesLess, KnownInv, StreamTypes
<1>4. StreamTypes
  BY DEF KnownInv
<1>5. CASE UNCHANGED <<chan, status, running>>
  BY <1>1, <1>3, <1>5, ChanAside
<1>6. ASSUME NEW s \in Tasks, runtime[arg[p]].uses = <<s>>,
             chan' = [c \in Channels |-> IF chan[c] = s THEN NoTask ELSE chan[c]],
             status' = [status EXCEPT ![s] = IF @ = "open" THEN "closed" ELSE "twice"],
             running' = [u \in Tasks |-> running[u] /\ ~(u = s /\ running[s])]
      PROVE  ChanInv'
  <2>1. \A u \in Tasks : /\ running'[u] => running[u] /\ u # s
                         /\ u # s => status'[u] = status[u] /\ running'[u] = running[u]
    BY <1>4, <1>6 DEF StreamTypes
  <2>2. status'[s] \in {"closed", "twice"} /\ status[s] # "none"
    <3>1. s \in Range(runtime[arg[p]].uses)
      BY <1>6 DEF Range
    <3>2. status[s] # "none"
      BY <1>2, <3>1 DEF ChanInv
    <3> QED
      BY <1>4, <1>6, <3>2 DEF StreamTypes
  <2>3. \A t \in Tasks : /\ pc[Act(t)] \in {"insert"} \cup Inserted => pc'[Act(t)] = pc[Act(t)]
                         /\ pc'[Act(t)] \notin {"open", "borrow"}
                         /\ pc[Act(t)] # "idle" => alloc'[t].rx = alloc[t].rx
                         /\ built'[t] = built[t]
    BY <1>1, <1>2 DEF Aside, Quiet, Calling, Inserted, Holding, KnownInv, ThreadInv
  <2>4. \A u \in Tasks : status'[u] # "none" => pc'[Act(u)] \in {"insert"} \cup Inserted
    BY <2>1, <2>2, <2>3 DEF ChanInv
  <2>5. \A u \in Tasks : running'[u] => status'[u] = "open"
    BY <2>1 DEF ChanInv
  <2>6. \A u \in Tasks : status[u] # "none" => alloc'[u].rx = alloc[u].rx
    BY <2>3 DEF ChanInv, Inserted
  <2>7. ASSUME NEW c \in Channels, chan'[c] # NoTask
        PROVE  status'[chan'[c]] = "open" /\ alloc'[chan'[c]].rx = <<c>>
    <3>1. chan'[c] = chan[c] /\ chan[c] # s /\ chan[c] \in Tasks
      BY <1>4, <1>6, <2>7 DEF StreamTypes
    <3>2. status[chan[c]] = "open" /\ alloc[chan[c]].rx = <<c>>
      BY <2>7, <3>1 DEF ChanInv
    <3>3. status'[chan[c]] = "open" /\ alloc'[chan[c]].rx = <<c>>
      BY <2>1, <2>6, <3>1, <3>2
    <3> QED
      BY <3>1, <3>3
  <2>8. ASSUME NEW u \in Tasks, status'[u] = "open"
        PROVE  chan'[alloc'[u].rx[1]] = u /\ running'[u]
    <3>1. u # s /\ status[u] = "open"
      BY <2>1, <2>2, <2>8
    <3>2. chan[alloc[u].rx[1]] = u /\ running[u] /\ alloc'[u].rx = alloc[u].rx
      BY <2>6, <3>1 DEF ChanInv
    <3>3. alloc[u].rx[1] \in Channels
      BY <3>1, OpenChannel
    <3> QED
      BY <1>6, <2>1, <3>1, <3>2, <3>3
  <2>9. ASSUME NEW t \in Tasks
        PROVE  \A u \in Range(runtime'[t].uses) \cup Range(built'[t].uses) : status'[u] # "none"
    <3>1. runtime'[t].uses = runtime[t].uses \/ runtime'[t].uses = <<>>
      BY <1>3, UsesLess
    <3>2. Range(<<>>) = {}
      BY DEF Range
    <3>3. \A u \in Range(runtime[t].uses) \cup Range(built[t].uses) : u \in Tasks
      BY DEF KnownInv, StreamTypes, ActTypes, Runtimes, Range
    <3> QED
      BY <2>1, <2>2, <2>3, <3>1, <3>2, <3>3 DEF ChanInv
  <2> QED
    BY <2>3, <2>4, <2>5, <2>7, <2>8, <2>9 DEF ChanInv
<1> QED
  BY <1>2, <1>4, <1>5, <1>6, TeardownOne


(* A step of an activation that opens and looks up nothing.                *)
LEMMA ChanStays ==
  ASSUME KnownInv, ChanInv, NEW t \in Tasks, NEW l, Goto(Act(t), l),
         UNCHANGED <<chan, status, running, alloc>>,
         l \notin {"open", "borrow"},
         pc[Act(t)] \in {"insert"} \cup Inserted => l \in {"insert"} \cup Inserted,
         \A u \in Tasks : u # t => copy'[u] = copy[u] /\ built'[u].uses = built[u].uses,
         \A u \in Tasks : Range(runtime'[u].uses) \cup Range(built'[u].uses)
                             \subseteq Range(runtime[u].uses) \cup Range(built[u].uses)
  PROVE  ChanInv'
<1>1. pc'[Act(t)] = l /\ \A u \in Tasks : u # t => pc'[Act(u)] = pc[Act(u)]
  BY ActMoves
<1>2. \A u \in Tasks : pc'[Act(u)] \in {"open", "borrow"} => u # t /\ pc'[Act(u)] = pc[Act(u)]
  BY <1>1
<1>3. \A s \in Tasks : status'[s] # "none" => pc'[Act(s)] \in {"insert"} \cup Inserted
  BY <1>1 DEF ChanInv
<1>4. \A u \in Tasks : pc'[Act(u)] = "open" => chan'[copy'[u].rx[1]] = NoTask
  BY <1>2 DEF ChanInv
<1>5. \A u \in Tasks : pc'[Act(u)] = "borrow" => built'[u].uses = <<chan'[copy'[u].rx[1]]>>
                                                 /\ chan'[copy'[u].rx[1]] # NoTask
  BY <1>2 DEF ChanInv
<1>6. \A u \in Tasks : \A s \in Range(runtime'[u].uses) \cup Range(built'[u].uses) : status'[s] # "none"
  BY DEF ChanInv
<1> QED
  BY <1>3, <1>4, <1>5, <1>6 DEF ChanInv

(* A task of one channel gives up a stream or takes it.                    *)
LEMMA ChanLookup ==
  ASSUME KnownInv, RuntimeInv, ChanInv, OneChannel, NEW t \in Tasks, ActLookup(t)
  PROVE  ChanInv'
<1> DEFINE uses == [i \in DOMAIN copy[t].rx |-> chan[copy[t].rx[i]]]
<1>1. /\ pc[Act(t)] = "lookup"
      /\ UNCHANGED <<chan, status, running, alloc, copy, runtime>>
  BY DEF ActLookup, Act, taskVars, streamVars, rtVars
<1>2. /\ copy[t].rx \in Seq(Channels) /\ Len(copy[t].rx) = 1 /\ copy[t].rx = alloc[t].rx
      /\ chan[copy[t].rx[1]] \in Tasks \cup {NoTask}
  <2>1. state[t] # "absent"
    BY <1>1 DEF KnownInv, ThreadInv
  <2>2. copy[t].rx = alloc[t].rx /\ Len(alloc[t].rx) = 1
    BY <1>1, <2>1 DEF KnownInv, AllocInv, Holding
  <2>3. copy[t].rx \in Seq(Channels)
    BY DEF KnownInv, ActTypes, Allocations
  <2>4. copy[t].rx[1] \in Channels
    BY <2>2, <2>3
  <2> QED
    BY <2>2, <2>3, <2>4 DEF KnownInv, StreamTypes
<1>3. CASE /\ uses \in Seq(Tasks) /\ Len(uses) = Len(alloc[t].rx)
           /\ chan[copy[t].rx[1]] # NoTask /\ uses[1] = chan[copy[t].rx[1]]
           /\ built' = [built EXCEPT ![t].uses = uses]
           /\ Goto(Act(t), "borrow")
  <2> HIDE DEF uses
  <2>1. uses = <<chan[copy[t].rx[1]]>>
    BY <1>2, <1>3
  <2>2. built'[t].uses = uses /\ \A u \in Tasks : u # t => built'[u] = built[u]
    BY <1>3 DEF KnownInv, ActTypes, Runtimes
  <2>3. pc'[Act(t)] = "borrow" /\ \A u \in Tasks : u # t => pc'[Act(u)] = pc[Act(u)]
    BY <1>3, ActMoves
  <2>4. \A s \in Tasks : status'[s] # "none" => pc'[Act(s)] \in {"insert"} \cup Inserted
    BY <1>1, <2>3 DEF ChanInv, Inserted
  <2>5. \A u \in Tasks : pc'[Act(u)] = "open" => chan'[copy'[u].rx[1]] = NoTask
    BY <1>1, <2>3 DEF ChanInv
  <2>6. \A u \in Tasks : pc'[Act(u)] = "borrow" => built'[u].uses = <<chan'[copy'[u].rx[1]]>>
                                                   /\ chan'[copy'[u].rx[1]] # NoTask
    BY <1>1, <1>3, <2>1, <2>2, <2>3 DEF ChanInv
  <2>7. status[chan[copy[t].rx[1]]] = "open"
    BY <1>2, <1>3 DEF ChanInv
  <2>8. Range(uses) = {chan[copy[t].rx[1]]}
    BY <2>1 DEF Range
  <2>9. \A u \in Tasks : \A s \in Range(runtime'[u].uses) \cup Range(built'[u].uses) : status'[s] # "none"
    BY <1>1, <2>2, <2>7, <2>8 DEF ChanInv
  <2> QED
    BY <1>1, <2>4, <2>5, <2>6, <2>9 DEF ChanInv
<1>4. CASE (\E c \in Range(copy[t].rx) : chan[c] = NoTask) /\ Goto(Act(t), "open") /\ built' = built
  <2>1. chan[copy[t].rx[1]] = NoTask
    BY <1>2, <1>4 DEF Range
  <2>2. pc'[Act(t)] = "open" /\ \A u \in Tasks : u # t => pc'[Act(u)] = pc[Act(u)]
    BY <1>4, ActMoves
  <2>3. \A s \in Tasks : status'[s] # "none" => pc'[Act(s)] \in {"insert"} \cup Inserted
    BY <1>1, <2>2 DEF ChanInv, Inserted
  <2>4. \A u \in Tasks : pc'[Act(u)] = "open" => chan'[copy'[u].rx[1]] = NoTask
    BY <1>1, <2>1, <2>2 DEF ChanInv
  <2>5. \A u \in Tasks : pc'[Act(u)] = "borrow" => built'[u].uses = <<chan'[copy'[u].rx[1]]>>
                                                   /\ chan'[copy'[u].rx[1]] # NoTask
    BY <1>1, <1>4, <2>2 DEF ChanInv
  <2> QED
    BY <1>1, <1>4, <2>3, <2>4, <2>5 DEF ChanInv
<1> QED
  BY <1>3, <1>4, LookupIs

LEMMA ChanOpen ==
  ASSUME KnownInv, HwInv, RuntimeInv, ChanInv, OneChannel, NEW t \in Tasks, ActOpen(t)
  PROVE  ChanInv'
<1>1. /\ pc[Act(t)] = "open" /\ Goto(Act(t), "insert")
      /\ status' = [status EXCEPT ![t] = "open"]
      /\ running' = [running EXCEPT ![t] = TRUE]
      /\ chan' = [c \in Channels |-> IF c \in Range(copy[t].rx) THEN t ELSE chan[c]]
      /\ built' = [built EXCEPT ![t].uses = <<t>>]
      /\ alloc' = alloc /\ runtime' = runtime
      /\ \A u \in Tasks : u # t => copy'[u] = copy[u]
  BY ForgetIs DEF ActOpen, Act, Start, taskVars
<1>2. PICK c0 \in Channels : copy[t].rx = <<c0>> /\ alloc[t].rx = <<c0>>
  <2>1. state[t] # "absent"
    BY <1>1 DEF KnownInv, ThreadInv
  <2>2. copy[t].rx = alloc[t].rx /\ Len(alloc[t].rx) = 1
    BY <1>1, <2>1 DEF KnownInv, AllocInv, Holding
  <2>3. copy[t].rx \in Seq(Channels)
    BY DEF KnownInv, ActTypes, Allocations
  <2>4. copy[t].rx[1] \in Channels /\ copy[t].rx = <<copy[t].rx[1]>>
    BY <2>2, <2>3
  <2> QED
    BY <2>2, <2>4
<1>3. chan[c0] = NoTask
  BY <1>1, <1>2 DEF ChanInv
<1>4. Range(copy[t].rx) = {c0}
  BY <1>2 DEF Range
<1>5. \A c \in Channels : chan'[c] = IF c = c0 THEN t ELSE chan[c]
  BY <1>1, <1>4
<1>6. /\ status'[t] = "open" /\ running'[t]
      /\ \A u \in Tasks : u # t => status'[u] = status[u] /\ running'[u] = running[u]
  BY <1>1 DEF KnownInv, StreamTypes
<1>7. /\ pc'[Act(t)] = "insert" /\ \A u \in Tasks : u # t => pc'[Act(u)] = pc[Act(u)]
      /\ \A u \in Tasks : u # t => pc[Act(u)] \notin Holding
  <2>1. hw = Act(t)
    BY <1>1 DEF HwInv, Holding
  <2> QED
    BY <1>1, <2>1, ActMoves, ThreadFacts DEF HwInv
<1>8. \A u \in Tasks : pc'[Act(u)] \notin {"open", "borrow"}
  BY <1>7 DEF Holding
<1>9. \A s \in Tasks : status'[s] # "none" => pc'[Act(s)] \in {"insert"} \cup Inserted
  BY <1>6, <1>7 DEF ChanInv
<1>10. \A s \in Tasks : running'[s] => status'[s] = "open"
  BY <1>6 DEF ChanInv
<1>11. ASSUME NEW c \in Channels, chan'[c] # NoTask
       PROVE  status'[chan'[c]] = "open" /\ alloc'[chan'[c]].rx = <<c>>
  <2>1. CASE c = c0
    BY <1>1, <1>2, <1>5, <1>6, <2>1
  <2>2. CASE c # c0
    <3>1. chan'[c] = chan[c] /\ chan[c] \in Tasks
      BY <1>5, <1>11, <2>2 DEF KnownInv, StreamTypes
    <3>2. status[chan[c]] = "open" /\ alloc[chan[c]].rx = <<c>>
      BY <1>11, <3>1 DEF ChanInv
    <3> QED
      BY <1>1, <1>6, <3>1, <3>2
  <2> QED
    BY <2>1, <2>2
<1>12. ASSUME NEW s \in Tasks, status'[s] = "open"
       PROVE  chan'[alloc'[s].rx[1]] = s /\ running'[s]
  <2>1. CASE s = t
    BY <1>1, <1>2, <1>5, <1>6, <2>1
  <2>2. CASE s # t
    <3>1. status[s] = "open" /\ running'[s] = running[s]
      BY <1>6, <1>12, <2>2
    <3>2. alloc[s].rx[1] \in Channels
      BY <3>1, OpenChannel
    <3>3. chan[alloc[s].rx[1]] = s /\ running[s]
      BY <3>1 DEF ChanInv
    <3>4. alloc[s].rx[1] # c0
      BY <1>3, <3>3, ConstantsAssumption
    <3> QED
      BY <1>1, <1>5, <3>1, <3>2, <3>3, <3>4
  <2> QED
    BY <2>1, <2>2
<1>13. ASSUME NEW u \in Tasks
       PROVE  \A s \in Range(runtime'[u].uses) \cup Range(built'[u].uses) : status'[s] # "none"
  <2>1. /\ runtime'[u].uses = runtime[u].uses
        /\ u # t => built'[u].uses = built[u].uses
        /\ built'[t].uses = <<t>>
    BY <1>1 DEF KnownInv, ActTypes, Runtimes
  <2>2. \A s \in Range(runtime[u].uses) \cup Range(built[u].uses) : s \in Tasks
    BY DEF KnownInv, StreamTypes, ActTypes, Runtimes, Range
  <2>3. Range(<<t>>) = {t}
    BY DEF Range
  <2> QED
    BY <1>6, <2>1, <2>2, <2>3 DEF ChanInv
<1> QED
  BY <1>8, <1>9, <1>10, <1>11, <1>12, <1>13 DEF ChanInv

LEMMA ChanActivate ==
  ASSUME KnownInv, HwInv, RuntimeInv, ChanInv, OneChannel, NEW t \in Tasks, Activate(t)
  PROVE  ChanInv'
<1>1. CASE ActStart(t) \/ ActLock(t)
  <2>1. PICK l \in {"lock", "lookup", "done"} : Goto(Act(t), l)
    BY <1>1 DEF ActStart, ActLock, Act
  <2>2. UNCHANGED <<chan, status, running, alloc, runtime, built>>
    BY <1>1 DEF ActStart, ActLock, Act, taskVars, streamVars, rtVars
  <2>3. \A u \in Tasks : u # t => copy'[u] = copy[u]
    BY <1>1, ForgetIs DEF ActStart, ActLock, KnownInv, ActTypes
  <2>4. pc[Act(t)] \notin {"insert"} \cup Inserted
    BY <1>1 DEF ActStart, ActLock, Act, Inserted
  <2> QED
    BY <2>1, <2>2, <2>3, <2>4, ChanStays
<1>2. CASE ActLookup(t)
  BY <1>2, ChanLookup
<1>3. CASE ActBorrow(t)
  <2>1. /\ pc[Act(t)] = "borrow" /\ Goto(Act(t), "insert")
        /\ UNCHANGED <<chan, status, running, alloc, runtime>>
    BY <1>3 DEF ActBorrow, Act, taskVars, streamVars, rtVars
  <2>2. \A u \in Tasks : built'[u].uses = built[u].uses
    <3>1. built' = built \/ built' = [built EXCEPT ![t].sub = TRUE]
      BY <1>3 DEF ActBorrow
    <3>2. PICK r \in Runtimes : r = built[t]
      BY DEF KnownInv, ActTypes
    <3>3. [r EXCEPT !.sub = TRUE].uses = r.uses
      BY DEF Runtimes
    <3>4. built \in [Tasks -> Runtimes]
      BY DEF KnownInv, ActTypes
    <3> QED
      BY <3>1, <3>2, <3>3, <3>4
  <2>3. \A u \in Tasks : u # t => copy'[u] = copy[u]
    BY <1>3, ForgetIs DEF ActBorrow
  <2>4. "insert" \in {"insert"} \cup Inserted
    OBVIOUS
  <2> QED
    BY <2>1, <2>2, <2>3, <2>4, ChanStays
<1>4. CASE ActOpen(t)
  BY <1>4, ChanOpen
<1>5. CASE ActFails(t)
  <2>1. /\ pc[Act(t)] = "open" /\ Goto(Act(t), "claim")
        /\ UNCHANGED <<chan, status, running, alloc, runtime, built>>
    BY <1>5 DEF ActFails, Act, taskVars, streamVars, rtVars
  <2>2. \A u \in Tasks : u # t => copy'[u] = copy[u]
    BY <1>5, ForgetIs DEF ActFails
  <2>3. pc[Act(t)] \notin {"insert"} \cup Inserted
    BY <2>1 DEF Inserted
  <2> QED
    BY <2>1, <2>2, <2>3, ChanStays
<1>6. CASE ActInsert(t)
  <2>1. /\ pc[Act(t)] = "insert" /\ Goto(Act(t), "run")
        /\ runtime' = [runtime EXCEPT ![t] = built[t]]
        /\ built' = [built EXCEPT ![t] = NoRuntime]
        /\ UNCHANGED <<chan, status, running, alloc, copy>>
    BY <1>6 DEF ActInsert, Act, taskVars, streamVars
  <2>2. /\ runtime'[t] = built[t] /\ built'[t] = NoRuntime
        /\ \A u \in Tasks : u # t => runtime'[u] = runtime[u] /\ built'[u] = built[u]
    BY <2>1 DEF KnownInv, StreamTypes, ActTypes
  <2>3. Range(NoRuntime.uses) = {}
    BY DEF NoRuntime, Range
  <2>4. "run" \in Inserted
    BY DEF Inserted
  <2> QED
    BY <2>1, <2>2, <2>3, <2>4, ChanStays
<1>7. CASE ActRun(t)
  <2>1. /\ Goto(Act(t), "done")
        /\ UNCHANGED <<chan, status, running, alloc, runtime, built, copy>>
    BY <1>7 DEF ActRun, Act, streamVars, rtVars, actVars
  <2>2. "done" \in Inserted
    BY DEF Inserted
  <2> QED
    BY <2>1, <2>2, ChanStays
<1> QED
  BY <1>1, <1>2, <1>3, <1>4, <1>5, <1>6, <1>7 DEF Activate


(***************************************************************************)
(* One reader of a channel.                                                *)
(***************************************************************************)
ReaderInv == KnownInv /\ HwInv /\ RuntimeInv /\ ChanInv

LEMMA ReaderInit ==
  ASSUME Init PROVE ReaderInv
<1>1. KnownInv
  BY KnownInit
<1>2. /\ \A t \in Tasks : pc[Act(t)] = "idle" /\ built[t] = NoRuntime /\ runtime[t] = NoRuntime
      /\ \A s \in Tasks : status[s] = "none" /\ ~running[s]
      /\ \A c \in Channels : chan[c] = NoTask
      /\ hw = NoThread
  BY ThreadFacts DEF Init
<1>3. HwInv
  BY <1>2, ThreadFacts DEF HwInv, Holding
<1>4. NoRuntime.uses = <<>> /\ ~NoRuntime.sub /\ Len(NoRuntime.uses) <= 1
  BY DEF NoRuntime
<1>5. RuntimeInv
  BY <1>2, <1>4 DEF RuntimeInv
<1>6. Range(<<>>) = {}
  BY DEF Range
<1>7. ChanInv
  BY <1>2, <1>4, <1>6 DEF ChanInv
<1> QED
  BY <1>1, <1>3, <1>5, <1>7 DEF ReaderInv

LEMMA ReaderNext ==
  ASSUME OneChannel, ReaderInv, [Next]_vars PROVE ReaderInv'
<1>1. KnownInv /\ HwInv /\ RuntimeInv /\ ChanInv
  BY DEF ReaderInv
<1>2. KnownInv'
  BY <1>1, KnownNext
<1>3. CASE Others
  <2>1. Aside /\ RuntimesLess
    BY <1>1, <1>3, OthersAside
  <2>2. ChanInv'
    <3>1. CASE chan' = chan /\ status' = status /\ running' = running
      BY <1>1, <2>1, <3>1, ChanAside
    <3>2. CASE \E p \in Threads : Teardown(p)
      BY <1>1, <3>2, ChanTeardown
    <3> QED
      BY <1>1, <1>3, <3>1, <3>2, OthersAside
  <2> QED
    BY <1>1, <1>2, <2>1, <2>2, HwAside, RuntimeAside DEF ReaderInv
<1>4. CASE \E t \in Tasks : Activate(t)
  BY <1>1, <1>2, <1>4, HwActivate, RuntimeActivate, ChanActivate DEF ReaderInv
<1> QED
  BY <1>3, <1>4, NextSplits

LEMMA ReaderIs ==
  ASSUME ReaderInv PROVE OneReader
<1> SUFFICES ASSUME NEW s \in Tasks, NEW u \in Tasks, s # u, status[s] = "open", status[u] = "open"
             PROVE  Range(alloc[s].rx) \cap Range(alloc[u].rx) = {}
  BY DEF OneReader
<1>1. KnownInv /\ ChanInv
  BY DEF ReaderInv
<1>2. ASSUME NEW v \in Tasks, status[v] = "open"
      PROVE  \E c \in Channels : Range(alloc[v].rx) = {c} /\ chan[c] = v
  <2>1. PICK c \in Channels : c = alloc[v].rx[1]
    BY <1>1, <1>2, OpenChannel
  <2>2. chan[c] = v
    BY <1>1, <1>2, <2>1 DEF ChanInv
  <2>3. alloc[v].rx = <<c>>
    BY <1>1, <2>2, ConstantsAssumption DEF ChanInv
  <2> QED
    BY <2>2, <2>3 DEF Range
<1>3. PICK c \in Channels : Range(alloc[s].rx) = {c} /\ chan[c] = s
  BY <1>2
<1>4. PICK d \in Channels : Range(alloc[u].rx) = {d} /\ chan[d] = u
  BY <1>2
<1> QED
  BY <1>3, <1>4

(* Where every request is for one channel, no channel of the device has    *)
(* two open streams: activateTask's look at channel_states_ and the entry  *)
(* it adds are both made under hw_activation_mu_, and a teardown takes the *)
(* entry away only with the stream.                                        *)
THEOREM ReadersApart == OneChannel => (Spec => []OneReader)
<1>1. Init => ReaderInv
  BY ReaderInit
<1>2. ASSUME OneChannel PROVE ReaderInv /\ [Next]_vars => ReaderInv'
  BY <1>2, ReaderNext
<1>3. ReaderInv => OneReader
  BY ReaderIs
<1> SUFFICES ASSUME OneChannel PROVE Spec => []OneReader
  OBVIOUS
<1>4. ReaderInv /\ [Next]_vars => ReaderInv'
  BY <1>2
<1> QED
  BY <1>1, <1>3, <1>4, PTL DEF Spec


(***************************************************************************)
(* The consumers of the streams, and their conversion.                     *)
(***************************************************************************)
LEMMA SomeRuntime ==
  /\ NoRuntime.uses = <<>> /\ ~NoRuntime.sub
  /\ \A r, s : r.uses = <<s>> => r # NoRuntime
  /\ \A s, b : [uses |-> <<s>>, sub |-> b] # NoRuntime
<1>1. NoRuntime.uses = <<>> /\ ~NoRuntime.sub
  BY DEF NoRuntime
<1>2. \A s : <<s>> # <<>>
  OBVIOUS
<1>3. \A s, b : [uses |-> <<s>>, sub |-> b].uses = <<s>>
  OBVIOUS
<1> QED
  BY <1>1, <1>2, <1>3

LEMMA AsideMoves ==
  ASSUME KnownInv, Aside, NEW t \in Tasks
  PROVE  pc[Act(t)] \in {"insert"} \cup Inserted => pc'[Act(t)] = pc[Act(t)]
BY DEF Aside, Quiet, Calling, Inserted

(* Consumers leave, and nobody's runtime changes that is a destination.    *)
LEMMA ConsumersLeave ==
  ASSUME KnownInv, ConsumerInv, Aside,
         \A s, t \in Tasks : /\ dests'[s][t] \in {0, dests[s][t]}
                             /\ subs'[s][t] \in {NoWindow, subs[s][t]}
                             /\ dests'[s][t] > 0 => runtime'[t] = runtime[t]
  PROVE  ConsumerInv'
<1>1. built' = built
  BY DEF Aside
<1>2. ASSUME NEW s \in Tasks, NEW t \in Tasks, dests'[s][t] > 0
      PROVE  /\ dests'[s][t] = 1
             /\ \/ built'[t] = [uses |-> <<s>>, sub |-> FALSE]
                \/ runtime'[t] = [uses |-> <<s>>, sub |-> FALSE]
             /\ pc'[Act(t)] \in {"insert"} \cup Inserted
  <2>1. dests'[s][t] = dests[s][t] /\ runtime'[t] = runtime[t]
    BY <1>2
  <2> QED
    BY <1>1, <1>2, <2>1, AsideMoves DEF ConsumerInv
<1>3. ASSUME NEW s \in Tasks, NEW t \in Tasks, subs'[s][t] # NoWindow
      PROVE  /\ pc'[Act(t)] \in {"insert"} \cup Inserted
             /\ \A u \in Tasks : dests'[u][t] = 0
  <2>1. subs[s][t] # NoWindow
    BY <1>3
  <2> QED
    BY <2>1, AsideMoves DEF ConsumerInv
<1> QED
  BY <1>2, <1>3 DEF ConsumerInv

(* A teardown takes away the destination and the sub-band of its task, and *)
(* those of others only with the streamer.                                 *)
LEMMA TeardownLeaves ==
  ASSUME KnownInv, RuntimeInv, ConsumerInv, OneChannel, NEW p \in Threads, Teardown(p)
  PROVE  \A u, v \in Tasks :
            /\ dests'[u][v] \in {0, dests[u][v]}
            /\ subs'[u][v] \in {NoWindow, subs[u][v]}
            /\ dests'[u][v] > 0 => runtime'[v] = runtime[v]
<1>1. arg[p] \in Tasks /\ Len(runtime[arg[p]].uses) <= 1 /\ StreamTypes
  <2>1. pc[p] = "teardown"
    BY DEF Teardown
  <2> QED
    BY <2>1 DEF RuntimeInv, KnownInv, ThreadInv, Calling
<1>2. runtime' = [runtime EXCEPT ![arg[p]] = NoRuntime]
  BY DEF Teardown
<1>3. \A v \in Tasks : /\ v # arg[p] => runtime'[v] = runtime[v]
                       /\ runtime[v] = NoRuntime => runtime'[v] = runtime[v]
  BY <1>1, <1>2 DEF StreamTypes
<1>4. \A u, v \in Tasks : dests[u][v] \in Nat /\ (dests[u][v] > 0 => dests[u][v] = 1)
  BY <1>1 DEF StreamTypes, ConsumerInv
<1>5. ASSUME runtime[arg[p]].uses = <<>>, UNCHANGED <<dests, subs>>
      PROVE  \A u, v \in Tasks : runtime'[v] = runtime[v]
  BY <1>1, <1>3, <1>5 DEF RuntimeInv
<1>6. ASSUME NEW s \in Tasks, runtime[arg[p]].uses = <<s>>, NEW u \in Tasks, NEW v \in Tasks
      PROVE  /\ DestsWithout(arg[p])[u][v] \in {0, dests[u][v]}
             /\ SubsWithout(arg[p])[u][v] \in {NoWindow, subs[u][v]}
             /\ DestsWithout(arg[p])[u][v] > 0 => runtime'[v] = runtime[v]
  <2>1. /\ DestsWithout(arg[p])[u][v] = IF v = arg[p] /\ u = s /\ ~runtime[arg[p]].sub /\ dests[u][v] > 0
                                        THEN dests[u][v] - 1 ELSE dests[u][v]
        /\ SubsWithout(arg[p])[u][v] = IF v = arg[p] /\ u = s /\ runtime[arg[p]].sub
                                       THEN NoWindow ELSE subs[u][v]
    BY <1>1, <1>6, WithoutIs
  <2>2. DestsWithout(arg[p])[u][v] \in {0, dests[u][v]}
    BY <1>4, <2>1
  <2>3. SubsWithout(arg[p])[u][v] \in {NoWindow, subs[u][v]}
    BY <2>1
  <2>4. ASSUME DestsWithout(arg[p])[u][v] > 0, v = arg[p]
        PROVE  FALSE
    <3>1. dests[u][v] > 0
      BY <1>4, <2>2, <2>4
    <3>2. CASE built[v] = [uses |-> <<u>>, sub |-> FALSE]
      <4>1. built[v] # NoRuntime /\ runtime[v] # NoRuntime
        BY <1>6, <2>4, <3>2, SomeRuntime
      <4> QED
        BY <4>1 DEF RuntimeInv, Inserted
    <3>3. CASE runtime[v] = [uses |-> <<u>>, sub |-> FALSE]
      <4>1. u = s /\ ~runtime[arg[p]].sub
        BY <1>6, <2>4, <3>3
      <4> QED
        BY <1>4, <2>1, <2>4, <3>1, <4>1
    <3> QED
      BY <3>1, <3>2, <3>3 DEF ConsumerInv
  <2> QED
    BY <1>3, <2>2, <2>3, <2>4
<1>7. CASE runtime[arg[p]].uses = <<>> /\ UNCHANGED <<dests, subs>>
  BY <1>5, <1>7
<1>8. ASSUME NEW s \in Tasks, runtime[arg[p]].uses = <<s>>,
             \A u, v \in Tasks : /\ dests'[u][v] \in {0, DestsWithout(arg[p])[u][v]}
                                 /\ subs'[u][v] \in {NoWindow, SubsWithout(arg[p])[u][v]},
             NEW u \in Tasks, NEW v \in Tasks
      PROVE  /\ dests'[u][v] \in {0, dests[u][v]}
             /\ subs'[u][v] \in {NoWindow, subs[u][v]}
             /\ dests'[u][v] > 0 => runtime'[v] = runtime[v]
  BY <1>6, <1>8
<1> QED
  BY <1>1, <1>7, <1>8, TeardownOne

(* A conversion that goes on while others do something else.               *)
LEMMA MoveWaits ==
  ASSUME KnownInv, MoveInv, Aside, RuntimesLess, work' = work,
         \/ pc'[Amqp] = pc[Amqp]
         \/ work = NoWork /\ pc'[Amqp] # "resubscribe",
         \A s, t \in Tasks : dests'[s][t] \in {0, dests[s][t]}
  PROVE  MoveInv'
<1>1. \A x \in work.todo \cup work.done : x[1] \in Tasks
  BY DEF KnownInv, WorkInv
<1>2. ASSUME NEW x \in work'.todo \cup work'.done
      PROVE  /\ pc'[Act(x[1])] \in Inserted
             /\ runtime'[x[1]] # NoRuntime => runtime'[x[1]].uses = <<x[2]>>
  <2>1. x[1] \in Tasks /\ pc[Act(x[1])] \in Inserted
        /\ (runtime[x[1]] # NoRuntime => runtime[x[1]].uses = <<x[2]>>)
    BY <1>1 DEF MoveInv
  <2>2. pc'[Act(x[1])] = pc[Act(x[1])]
    BY <2>1, AsideMoves
  <2>3. runtime'[x[1]] # NoRuntime => runtime[x[1]] # NoRuntime
    BY <2>1 DEF RuntimesLess
  <2>4. runtime'[x[1]] # NoRuntime => runtime'[x[1]].uses = runtime[x[1]].uses
    <3>1. PICK r \in Runtimes : r = runtime[x[1]]
      BY <2>1 DEF KnownInv, StreamTypes
    <3>2. [r EXCEPT !.sub = TRUE].uses = r.uses
      BY DEF Runtimes
    <3> QED
      BY <2>1, <3>1, <3>2 DEF RuntimesLess
  <2> QED
    BY <2>1, <2>2, <2>3, <2>4
<1>3. \A x \in work'.done : \A u \in Tasks : dests'[u][x[1]] = 0
  BY <1>1 DEF MoveInv
<1>4. /\ pc'[Amqp] # "resubscribe" => work'.todo \cap work'.done = {}
      /\ pc'[Amqp] = "resubscribe" => \E x \in work'.done : work'.todo \cap work'.done = {x}
      /\ pc'[Amqp] \in {"tune", "push", "collect", "plan"} => work'.done = {}
  BY DEF MoveInv, NoWork
<1> QED
  BY <1>2, <1>3, <1>4 DEF MoveInv

(* One that has converted nobody yet, or is over.                          *)
LEMMA MoveBegins ==
  ASSUME NEW l, pc'[Amqp] = l, l # "resubscribe", work'.done = {},
         \A x \in work'.todo :
            /\ pc'[Act(x[1])] \in Inserted
            /\ runtime'[x[1]] # NoRuntime => runtime'[x[1]].uses = <<x[2]>>
  PROVE  MoveInv'
BY DEF MoveInv


(* The steps of tryRetuneCombined.                                         *)
LEMMA MoveUnsubscribe ==
  ASSUME KnownInv, RuntimeInv, ConsumerInv, MoveInv, NEW x \in work.todo, Unsubscribe(x), Aside
  PROVE  /\ MoveInv'
         /\ \A s, t \in Tasks : dests'[s][t] \in {0, dests[s][t]}
<1>1. /\ pc[Amqp] = "convert" /\ Goto(Amqp, "resubscribe")
      /\ dests' = [dests EXCEPT ![x[2]][x[1]] = IF @ > 0 THEN @ - 1 ELSE 0]
      /\ work' = [work EXCEPT !.done = @ \cup {x}]
      /\ runtime' = runtime
  BY DEF Unsubscribe, RemoveDest, rtVars
<1>2. /\ x[1] \in Tasks /\ x[2] \in Tasks
      /\ work'.todo = work.todo /\ work'.done = work.done \cup {x}
      /\ dests \in [Tasks -> [Tasks -> Nat]]
      /\ \A y \in work.todo \cup work.done : y[1] \in Tasks
      /\ pc'[Amqp] = "resubscribe"
  BY <1>1, GotoIs, ThreadFacts DEF KnownInv, WorkInv, StreamTypes
<1>3. \A s, t \in Tasks : dests'[s][t] = IF s = x[2] /\ t = x[1]
                                         THEN IF dests[s][t] > 0 THEN dests[s][t] - 1 ELSE 0
                                         ELSE dests[s][t]
  BY <1>1, <1>2
<1>4. \A s, t \in Tasks : dests[s][t] \in Nat /\ (dests[s][t] > 0 => dests[s][t] = 1)
  BY <1>2 DEF ConsumerInv
<1>5. \A s, t \in Tasks : dests'[s][t] \in {0, dests[s][t]}
  BY <1>3, <1>4
<1>6. /\ pc[Act(x[1])] \in Inserted
      /\ runtime[x[1]] # NoRuntime => runtime[x[1]].uses = <<x[2]>>
  BY DEF MoveInv
<1>7. ASSUME NEW u \in Tasks PROVE dests'[u][x[1]] = 0
  <2>1. CASE u = x[2]
    BY <1>2, <1>3, <1>4, <2>1
  <2>2. CASE u # x[2]
    <3>1. SUFFICES ASSUME dests[u][x[1]] > 0 PROVE FALSE
      BY <1>2, <1>3, <1>4, <2>2
    <3>2. built[x[1]] = NoRuntime
      BY <1>2, <1>6 DEF RuntimeInv, Inserted
    <3>3. runtime[x[1]] = [uses |-> <<u>>, sub |-> FALSE]
      BY <1>2, <3>1, <3>2, SomeRuntime DEF ConsumerInv
    <3>4. runtime[x[1]] # NoRuntime /\ runtime[x[1]].uses = <<u>>
      BY <3>3, SomeRuntime
    <3> QED
      BY <1>6, <2>2, <3>4
  <2> QED
    BY <2>1, <2>2
<1>8. \A y \in work'.todo \cup work'.done :
         /\ pc'[Act(y[1])] \in Inserted
         /\ runtime'[y[1]] # NoRuntime => runtime'[y[1]].uses = <<y[2]>>
  BY <1>1, <1>2, AsideMoves DEF MoveInv
<1>9. \A y \in work'.done : \A u \in Tasks : dests'[u][y[1]] = 0
  BY <1>2, <1>5, <1>7 DEF MoveInv
<1>10. work.todo \cap work.done = {}
  BY <1>1 DEF MoveInv
<1>11. x \in work'.done /\ work'.todo \cap work'.done = {x}
  BY <1>2, <1>10
<1>12. MoveInv'
  BY <1>2, <1>8, <1>9, <1>11 DEF MoveInv
<1> QED
  BY <1>5, <1>12

LEMMA MoveResubscribe ==
  ASSUME KnownInv, ConsumerInv, MoveInv, NEW x \in work.todo, Resubscribe(x), Aside
  PROVE  MoveInv' /\ ConsumerInv'
<1>1. /\ pc[Amqp] = "resubscribe" /\ Goto(Amqp, "convert")
      /\ x \in work.todo \cap work.done
      /\ subs' = [subs EXCEPT ![x[2]][x[1]] = <<label[x[2]][1], work.fit.sr>>]
      /\ work' = [work EXCEPT !.todo = @ \ {x}]
      /\ runtime' = runtime /\ dests' = dests
  BY DEF Resubscribe, AddSubBand, rtVars
<1>2. /\ x[1] \in Tasks /\ x[2] \in Tasks
      /\ work'.todo = work.todo \ {x} /\ work'.done = work.done
      /\ subs \in [Tasks -> [Tasks -> Windows]]
      /\ \A y \in work.todo \cup work.done : y[1] \in Tasks
      /\ pc'[Amqp] = "convert"
  BY <1>1, GotoIs, ThreadFacts DEF KnownInv, WorkInv, StreamTypes
<1>3. work'.todo \cap work'.done = {}
  <2>1. PICK y \in work.done : work.todo \cap work.done = {y}
    BY <1>1 DEF MoveInv
  <2> QED
    BY <1>1, <1>2, <2>1
<1>4. \A y \in work'.todo \cup work'.done :
         /\ pc'[Act(y[1])] \in Inserted
         /\ runtime'[y[1]] # NoRuntime => runtime'[y[1]].uses = <<y[2]>>
  BY <1>1, <1>2, AsideMoves DEF MoveInv
<1>5. \A y \in work'.done : \A u \in Tasks : dests'[u][y[1]] = 0
  BY <1>1, <1>2 DEF MoveInv
<1>6. MoveInv'
  BY <1>2, <1>3, <1>4, <1>5 DEF MoveInv
<1>7. \A s, t \in Tasks : t # x[1] => subs'[s][t] = subs[s][t]
  BY <1>1, <1>2
<1>8. ASSUME NEW s \in Tasks, NEW t \in Tasks, subs'[s][t] # NoWindow
      PROVE  /\ pc'[Act(t)] \in {"insert"} \cup Inserted
             /\ \A u \in Tasks : dests'[u][t] = 0
  <2>1. CASE t = x[1]
    BY <1>1, <1>2, <1>4, <1>5, <2>1
  <2>2. CASE t # x[1]
    <3>1. subs[s][t] # NoWindow
      BY <1>7, <1>8, <2>2
    <3> QED
      BY <1>1, <3>1, AsideMoves DEF ConsumerInv
  <2> QED
    BY <2>1, <2>2
<1>9. \A s, t \in Tasks : dests'[s][t] > 0 =>
         /\ dests'[s][t] = 1
         /\ \/ built'[t] = [uses |-> <<s>>, sub |-> FALSE]
            \/ runtime'[t] = [uses |-> <<s>>, sub |-> FALSE]
         /\ pc'[Act(t)] \in {"insert"} \cup Inserted
  <2>1. built' = built
    BY DEF Aside
  <2> QED
    BY <1>1, <2>1, AsideMoves DEF ConsumerInv
<1>10. ConsumerInv'
  BY <1>8, <1>9 DEF ConsumerInv
<1> QED
  BY <1>6, <1>10

LEMMA MoveFlag ==
  ASSUME KnownInv, ConsumerInv, MoveInv, Flag, Aside, RuntimesLess
  PROVE  MoveInv' /\ ConsumerInv'
<1>1. /\ pc[Amqp] = "convert" /\ work.todo = {} /\ Goto(Amqp, "accept")
      /\ runtime' = [u \in Tasks |->
                       IF (\E x \in work.done : x[1] = u) /\ runtime[u] # NoRuntime
                       THEN [runtime[u] EXCEPT !.sub = TRUE]
                       ELSE runtime[u]]
      /\ UNCHANGED <<dests, subs, work>>
  BY DEF Flag, streamVars
<1>2. \A s, t \in Tasks : dests'[s][t] > 0 => runtime'[t] = runtime[t]
  BY <1>1 DEF MoveInv
<1>3. ConsumerInv'
  BY <1>1, <1>2, ConsumersLeave
<1>4. pc'[Amqp] = "accept" /\ \A y \in work.done : y[1] \in Tasks
  BY <1>1, GotoIs, ThreadFacts DEF KnownInv, WorkInv
<1>5. ASSUME NEW y \in work'.todo \cup work'.done
      PROVE  /\ pc'[Act(y[1])] \in Inserted
             /\ runtime'[y[1]] # NoRuntime => runtime'[y[1]].uses = <<y[2]>>
  <2>1. y \in work.done /\ y[1] \in Tasks
    BY <1>1, <1>4
  <2>2. runtime'[y[1]].uses = runtime[y[1]].uses \/ runtime'[y[1]] = NoRuntime
    <3>1. PICK r \in Runtimes : r = runtime[y[1]]
      BY <2>1 DEF KnownInv, StreamTypes
    <3>2. [r EXCEPT !.sub = TRUE].uses = r.uses
      BY DEF Runtimes
    <3> QED
      BY <2>1, <3>1, <3>2 DEF RuntimesLess
  <2>3. runtime'[y[1]] # NoRuntime => runtime[y[1]] # NoRuntime
    BY <2>1 DEF RuntimesLess
  <2> QED
    BY <2>1, <2>2, <2>3, AsideMoves DEF MoveInv
<1>6. \A y \in work'.done : \A u \in Tasks : dests'[u][y[1]] = 0
  BY <1>1 DEF MoveInv
<1>7. MoveInv'
  BY <1>1, <1>4, <1>5, <1>6 DEF MoveInv
<1> QED
  BY <1>3, <1>7

LEMMA MoveCollect ==
  ASSUME KnownInv, RuntimeInv, MoveInv, OneChannel, Collect, Aside
  PROVE  MoveInv'
<1>1. /\ pc[Amqp] = "collect" /\ Goto(Amqp, "plan") /\ runtime' = runtime
      /\ work' = [work EXCEPT !.todo = {<<u, runtime[u].uses[1]>> :
                    u \in {v \in work.over : runtime[v].uses # <<>> /\ ~runtime[v].sub}}]
  BY DEF Collect, rtVars
<1>2. /\ work'.todo = {<<u, runtime[u].uses[1]>> :
                    u \in {v \in work.over : runtime[v].uses # <<>> /\ ~runtime[v].sub}}
      /\ work'.done = {} /\ work.over \subseteq Tasks
  <2>1. work.done = {}
    BY <1>1 DEF MoveInv
  <2> QED
    BY <1>1, <2>1 DEF KnownInv, WorkInv
<1>3. pc'[Amqp] = "plan"
  BY <1>1, GotoIs, ThreadFacts DEF KnownInv
<1>4. ASSUME NEW x \in work'.todo
      PROVE  /\ pc'[Act(x[1])] \in Inserted
             /\ runtime'[x[1]] # NoRuntime => runtime'[x[1]].uses = <<x[2]>>
  <2>1. PICK u \in Tasks : x = <<u, runtime[u].uses[1]>> /\ runtime[u].uses # <<>>
    BY <1>2
  <2>2. runtime[u] # NoRuntime
    BY <2>1, SomeRuntime
  <2>3. pc'[Act(u)] \in Inserted
    BY <2>2, AsideMoves DEF RuntimeInv
  <2>4. runtime[u].uses = <<runtime[u].uses[1]>>
    <3> DEFINE q == runtime[u].uses
    <3>1. q \in Seq(Tasks) /\ q # <<>> /\ Len(q) <= 1
      BY <2>1 DEF KnownInv, StreamTypes, Runtimes, RuntimeInv
    <3> HIDE DEF q
    <3>2. Len(q) \in Nat /\ Len(q) # 0
      BY <3>1
    <3>3. \A n \in Nat : n # 0 /\ n <= 1 => n = 1
      OBVIOUS
    <3>5. Len(q) = 1
      BY <3>1, <3>2, <3>3
    <3>4. q = <<q[1]>>
      BY <3>1, <3>5
    <3> QED
      BY <3>4 DEF q
  <2> QED
    BY <1>1, <2>1, <2>3, <2>4
<1> QED
  BY <1>2, <1>3, <1>4, MoveBegins

LEMMA MoveRetune ==
  ASSUME KnownInv, RuntimeInv, MoveInv, Aside, runtime' = runtime, NEW l, Goto(Amqp, l),
         l # "resubscribe",
         \/ work'.todo \subseteq work.todo /\ work'.done = {}
         \/ work' = NoWork
  PROVE  MoveInv'
<1>1. pc'[Amqp] = l
  BY GotoIs, ThreadFacts DEF KnownInv
<1>2. work'.done = {} /\ work'.todo \subseteq work.todo
  BY DEF NoWork
<1>3. \A x \in work.todo : x[1] \in Tasks
  BY DEF KnownInv, WorkInv
<1>4. \A x \in work'.todo : /\ pc'[Act(x[1])] \in Inserted
                            /\ runtime'[x[1]] # NoRuntime => runtime'[x[1]].uses = <<x[2]>>
  BY <1>2, <1>3, AsideMoves DEF MoveInv
<1> QED
  BY <1>1, <1>2, <1>4, MoveBegins


(* Every step of the others.                                               *)
LEMMA FeedOthers ==
  ASSUME KnownInv, RuntimeInv, ConsumerInv, MoveInv, OneChannel, Others
  PROVE  ConsumerInv' /\ MoveInv'
<1>1. Aside /\ RuntimesLess
  BY OthersAside
<1>2. \A s, t \in Tasks : dests[s][t] \in Nat
  BY DEF KnownInv, StreamTypes
<1>3. ASSUME UNCHANGED <<dests, subs, runtime, work>>,
             \/ pc'[Amqp] = pc[Amqp]
             \/ pc[Amqp] \notin Retuning /\ pc'[Amqp] # "resubscribe"
      PROVE  ConsumerInv' /\ MoveInv'
  <2>1. pc[Amqp] \notin Retuning => work = NoWork
    BY DEF KnownInv, WorkInv
  <2>2. ConsumerInv'
    BY <1>1, <1>3, ConsumersLeave
  <2>3. MoveInv'
    BY <1>1, <1>3, <2>1, MoveWaits
  <2> QED
    BY <2>2, <2>3
<1>4. CASE \E t \in Tasks : AcceptFit(t) \/ AcceptJoin(t)
  <2>1. PICK t, f, base :
           /\ t \in Tasks /\ Commit(t, f, base) /\ pc[Amqp] = "idle"
           /\ UNCHANGED <<dests, subs, runtime, work>>
    BY <1>4 DEF AcceptFit, AcceptJoin, Accept, streamVars, rtVars
  <2>2. pc'[Amqp] = "idle"
    BY <2>1, ThreadFacts DEF Commit, KnownInv, ThreadInv, Act
  <2> QED
    BY <1>3, <2>1, <2>2
<1>5. CASE \E t \in Tasks : Combine(t)
  <2>1. PICK t \in Tasks : Combine(t)
    BY <1>5
  <2>2. PICK l \in {"collect", "tune"} : Goto(Amqp, l)
    BY <2>1 DEF Combine
  <2>3. UNCHANGED <<dests, subs, runtime>>
    BY <2>1 DEF Combine, streamVars, rtVars
  <2>4. work'.todo = {} /\ work'.done = {}
    BY <2>1 DEF Combine, NoWork
  <2>5. MoveInv'
    BY <1>1, <2>2, <2>3, <2>4, MoveRetune
  <2>6. ConsumerInv'
    BY <1>1, <2>3, ConsumersLeave
  <2> QED
    BY <2>5, <2>6
<1>6. CASE \E t \in Tasks : Cancel(t) \/ Expire(t)
  <2>1. UNCHANGED <<dests, subs, runtime, work>>
    BY <1>6 DEF Cancel, Expire, streamVars, rtVars
  <2>2. pc'[Amqp] = pc[Amqp] \/ (pc[Amqp] = "idle" /\ pc'[Amqp] = "claim")
    BY <1>6, GotoIs, ThreadFacts DEF Cancel, Expire, KnownInv
  <2>3. "idle" \notin Retuning /\ "claim" # "resubscribe"
    BY DEF Retuning
  <2> QED
    BY <1>3, <2>1, <2>2, <2>3
<1>7. CASE \E s \in Failing : StreamError(s)
  <2>1. PICK s \in Failing : StreamError(s)
    BY <1>7
  <2>2. UNCHANGED <<dests, subs, runtime, work>>
    BY <2>1 DEF StreamError, streamVars, rtVars
  <2>3. <<"err", s>> \in Threads /\ <<"err", s>> # Amqp
    BY ThreadFacts
  <2>4. pc'[Amqp] = pc[Amqp]
    BY <2>1, <2>3, GotoIs, ThreadFacts DEF StreamError, KnownInv
  <2> QED
    BY <1>3, <2>2, <2>4
<1>8. CASE UNCHANGED vars
  BY <1>3, <1>8 DEF vars, streamVars, rtVars
<1>9. ASSUME NEW p \in Threads, Deactivate(p)
      PROVE  ConsumerInv' /\ MoveInv'
  <2>1. pc[p] \in Calling /\ \E l \in Calling \cup {"idle", "done"} : Goto(p, l)
    BY <1>9 DEF Deactivate, Claim, CheckOrphan, Teardown, ReleaseSlot, Returned, Calling
  <2>2. \/ pc'[Amqp] = pc[Amqp]
        \/ pc[Amqp] \notin Retuning /\ pc'[Amqp] # "resubscribe"
    <3>1. CASE p = Amqp
      BY <2>1, <3>1, GotoIs, ThreadFacts DEF KnownInv, Calling, Retuning
    <3>2. CASE p # Amqp
      BY <2>1, <3>2, GotoIs, ThreadFacts DEF KnownInv
    <3> QED
      BY <3>1, <3>2
  <2>3. CASE Claim(p) \/ CheckOrphan(p) \/ ReleaseSlot(p)
    <3>1. UNCHANGED <<dests, subs, runtime, work>>
      BY <2>3 DEF Claim, CheckOrphan, ReleaseSlot, streamVars, rtVars
    <3> QED
      BY <1>3, <2>2, <3>1
  <2>4. CASE Teardown(p)
    <3>1. work' = work
      BY <2>4 DEF Teardown
    <3>2. pc[Amqp] \notin Retuning => work = NoWork
      BY DEF KnownInv, WorkInv
    <3>3. ConsumerInv'
      BY <1>1, <2>4, ConsumersLeave, TeardownLeaves
    <3>4. MoveInv'
      BY <1>1, <2>2, <2>4, <3>1, <3>2, MoveWaits, TeardownLeaves
    <3> QED
      BY <3>3, <3>4
  <2> QED
    BY <1>9, <2>3, <2>4 DEF Deactivate
<1>10. CASE Tune \/ TuneFails \/ Push \/ Plan \/ AcceptCombined \/ PortsExhausted
  <2>1. UNCHANGED <<dests, subs, runtime>>
    BY <1>10 DEF Tune, TuneFails, Push, Plan, AcceptCombined, PortsExhausted, streamVars, rtVars
  <2>2. ConsumerInv'
    BY <1>1, <2>1, ConsumersLeave
  <2>3. CASE Tune \/ Push
    <3>1. PICK l \in {"push", "collect"} : Goto(Amqp, l)
      BY <2>3 DEF Tune, Push
    <3>2. work' = work /\ work.done = {}
      BY <2>3 DEF Tune, Push, MoveInv
    <3> QED
      BY <1>1, <2>1, <2>2, <3>1, <3>2, MoveRetune
  <2>4. CASE Plan
    <3>1. Goto(Amqp, "convert") /\ work.done = {}
      BY <2>4 DEF Plan, MoveInv
    <3>2. PICK chosen \in SUBSET work.todo : work' = [work EXCEPT !.todo = chosen]
      BY <2>4 DEF Plan
    <3>3. work'.todo \subseteq work.todo /\ work'.done = {}
      BY <3>1, <3>2 DEF KnownInv, WorkInv
    <3> QED
      BY <1>1, <2>1, <2>2, <3>1, <3>3, MoveRetune
  <2>5. CASE TuneFails \/ PortsExhausted
    <3>1. Goto(Amqp, "idle") /\ work' = NoWork
      BY <2>5 DEF TuneFails, PortsExhausted
    <3> QED
      BY <1>1, <2>1, <2>2, <3>1, MoveRetune
  <2>6. CASE AcceptCombined
    <3>1. work' = NoWork /\ pc'[Amqp] = "idle"
      <4>1. work.req \in Tasks
        BY <2>6, RetuningFacts DEF AcceptCombined, Retuning
      <4> QED
        BY <2>6, <4>1, ThreadFacts DEF AcceptCombined, Commit, KnownInv, ThreadInv, Act
    <3>2. work'.todo = {} /\ work'.done = {}
      BY <3>1 DEF NoWork
    <3>3. MoveInv'
      BY <3>1, <3>2, MoveBegins
    <3> QED
      BY <2>2, <3>3
  <2> QED
    BY <1>10, <2>3, <2>4, <2>5, <2>6
<1>11. CASE Collect
  <2>1. UNCHANGED <<dests, subs, runtime>>
    BY <1>11 DEF Collect, streamVars, rtVars
  <2> QED
    BY <1>1, <1>11, <2>1, ConsumersLeave, MoveCollect
<1>12. CASE Flag
  BY <1>1, <1>12, MoveFlag
<1>13. CASE \E x \in work.todo : Unsubscribe(x)
  <2>1. PICK x \in work.todo : Unsubscribe(x)
    BY <1>13
  <2>2. subs' = subs /\ runtime' = runtime
    BY <2>1 DEF Unsubscribe, rtVars
  <2>3. MoveInv' /\ \A s, t \in Tasks : dests'[s][t] \in {0, dests[s][t]}
    BY <1>1, <2>1, MoveUnsubscribe
  <2> QED
    BY <1>1, <2>2, <2>3, ConsumersLeave
<1>14. CASE \E x \in work.todo : Resubscribe(x)
  BY <1>1, <1>14, MoveResubscribe
<1>15. CASE Retune
  BY <1>10, <1>11, <1>12, <1>13, <1>14, <1>15 DEF Retune
<1> QED
  BY <1>4, <1>5, <1>6, <1>7, <1>8, <1>9, <1>15 DEF Others


(* A step of an activation that makes its task no consumer, where the task *)
(* is none yet.                                                            *)
LEMMA ConsumersStay ==
  ASSUME KnownInv, ConsumerInv, NEW t \in Tasks, NEW l, Goto(Act(t), l),
         \A u \in Tasks : u # t => built'[u] = built[u] /\ runtime'[u] = runtime[u],
         UNCHANGED <<dests, subs>>,
         pc[Act(t)] \notin {"insert"} \cup Inserted
  PROVE  ConsumerInv'
<1>1. \A u \in Tasks : u # t => pc'[Act(u)] = pc[Act(u)]
  BY ActMoves
<1>2. \A s \in Tasks : ~(dests[s][t] > 0) /\ subs[s][t] = NoWindow
  BY DEF ConsumerInv
<1>3. ASSUME NEW s \in Tasks, NEW u \in Tasks, dests'[s][u] > 0
      PROVE  /\ dests'[s][u] = 1
             /\ \/ built'[u] = [uses |-> <<s>>, sub |-> FALSE]
                \/ runtime'[u] = [uses |-> <<s>>, sub |-> FALSE]
             /\ pc'[Act(u)] \in {"insert"} \cup Inserted
  <2>1. u # t /\ dests[s][u] > 0
    BY <1>2, <1>3
  <2> QED
    BY <1>1, <2>1 DEF ConsumerInv
<1>4. ASSUME NEW s \in Tasks, NEW u \in Tasks, subs'[s][u] # NoWindow
      PROVE  /\ pc'[Act(u)] \in {"insert"} \cup Inserted
             /\ \A v \in Tasks : dests'[v][u] = 0
  <2>1. u # t /\ subs[s][u] # NoWindow
    BY <1>2, <1>4
  <2> QED
    BY <1>1, <2>1 DEF ConsumerInv
<1> QED
  BY <1>3, <1>4 DEF ConsumerInv

(* An activation takes no part in a conversion.                            *)
LEMMA MoveActs ==
  ASSUME KnownInv, MoveInv, NEW t \in Tasks, NEW l, Goto(Act(t), l), work' = work,
         \A u \in Tasks : u # t => runtime'[u] = runtime[u],
         \A s, u \in Tasks : u # t => dests'[s][u] = dests[s][u],
         pc[Act(t)] \in Inserted => l \in Inserted /\ UNCHANGED <<runtime, dests>>
  PROVE  MoveInv'
<1>1. pc'[Act(t)] = l /\ (\A u \in Tasks : u # t => pc'[Act(u)] = pc[Act(u)]) /\ pc'[Amqp] = pc[Amqp]
  BY ActMoves
<1>2. \A x \in work.todo \cup work.done : x[1] \in Tasks /\ pc[Act(x[1])] \in Inserted
  BY DEF KnownInv, WorkInv, MoveInv
<1>3. \A x \in work.todo \cup work.done :
         /\ runtime'[x[1]] = runtime[x[1]]
         /\ \A s \in Tasks : dests'[s][x[1]] = dests[s][x[1]]
         /\ pc'[Act(x[1])] \in Inserted
  BY <1>1, <1>2
<1> QED
  BY <1>1, <1>3 DEF MoveInv

(* What an activation that borrows has built.                              *)
LEMMA UsesOne ==
  ASSUME KnownInv, RuntimeInv, OneChannel, NEW t \in Tasks, pc[Act(t)] = "borrow"
  PROVE  \E s \in Tasks : built[t].uses = <<s>>
<1> DEFINE q == built[t].uses
<1>1. q \in Seq(Tasks) /\ Len(q) <= 1 /\ q # <<>>
  BY DEF KnownInv, ActTypes, Runtimes, RuntimeInv
<1> HIDE DEF q
<1>2. Len(q) \in Nat /\ Len(q) # 0
  BY <1>1
<1>3. \A n \in Nat : n # 0 /\ n <= 1 => n = 1
  OBVIOUS
<1>4. Len(q) = 1
  BY <1>1, <1>2, <1>3
<1>5. q = <<q[1]>> /\ q[1] \in Tasks
  BY <1>1, <1>4
<1> QED
  BY <1>5 DEF q

LEMMA FeedBorrow ==
  ASSUME KnownInv, RuntimeInv, ConsumerInv, OneChannel, NEW t \in Tasks, ActBorrow(t)
  PROVE  /\ ConsumerInv'
         /\ \A s, u \in Tasks : u # t => dests'[s][u] = dests[s][u]
<1> DEFINE uses == built[t].uses
           ddc == NeedsDdc(wide[t], OutputRate(copy[t])) /\ Len(uses) = 1
<1>1. /\ pc[Act(t)] = "borrow" /\ Goto(Act(t), "insert") /\ runtime' = runtime
      /\ ddc => /\ AddSubBand(uses[1], t, wide[t])
                /\ built' = [built EXCEPT ![t].sub = TRUE] /\ dests' = dests
      /\ ~ddc => AddDests(uses, t) /\ UNCHANGED <<subs, built>>
  BY DEF ActBorrow, Act, rtVars
<1>2. PICK s0 \in Tasks : uses = <<s0>>
  BY <1>1, UsesOne
<1>3. built[t] = [uses |-> <<s0>>, sub |-> FALSE]
  BY <1>1, <1>2 DEF KnownInv, ActTypes, Runtimes, RuntimeInv
<1> HIDE DEF ddc
<1>4. pc'[Act(t)] = "insert" /\ \A u \in Tasks : u # t => pc'[Act(u)] = pc[Act(u)]
  BY <1>1, ActMoves
<1>5. \A s \in Tasks : dests[s][t] = 0 /\ subs[s][t] = NoWindow
  <2>1. pc[Act(t)] \notin {"insert"} \cup Inserted
    BY <1>1 DEF Inserted
  <2>2. \A s \in Tasks : dests[s][t] \in Nat
    BY DEF KnownInv, StreamTypes
  <2>3. \A s \in Tasks : ~(dests[s][t] > 0) /\ subs[s][t] = NoWindow
    BY <2>1 DEF ConsumerInv
  <2> QED
    BY <2>2, <2>3
<1>6. \A u \in Tasks : u # t => built'[u] = built[u]
  BY <1>1 DEF KnownInv, ActTypes
<1>7. \A s, u \in Tasks : dests'[s][u] = IF u = t /\ s = s0 /\ ~ddc THEN 1 ELSE dests[s][u]
  <2>1. CASE ddc
    BY <1>1, <2>1
  <2>2. CASE ~ddc
    <3>1. \A s \in Tasks : Times(uses, s) = IF s = s0 THEN 1 ELSE 0
      <4>1. uses \in Seq(Tasks)
        BY DEF KnownInv, ActTypes, Runtimes
      <4> HIDE DEF uses
      <4> QED
        BY <1>2, <4>1, TimesIs
    <3>2. dests' = [s \in Tasks |-> [dests[s] EXCEPT ![t] = @ + Times(uses, s)]]
      BY <1>1, <2>2 DEF AddDests
    <3>3. \A s \in Tasks : dests[s] \in [Tasks -> Nat]
      BY DEF KnownInv, StreamTypes
    <3> HIDE DEF uses
    <3> QED
      BY <1>5, <2>2, <3>1, <3>2, <3>3
  <2> QED
    BY <2>1, <2>2
<1>8. \A s, u \in Tasks : u # t => subs'[s][u] = subs[s][u]
  <2>1. CASE ddc
    <3>1. subs' = [subs EXCEPT ![s0][t] = <<label[s0][1], wide[t]>>]
      BY <1>1, <1>2, <2>1 DEF AddSubBand
    <3> QED
      BY <3>1 DEF KnownInv, StreamTypes
  <2>2. CASE ~ddc
    BY <1>1, <2>2
  <2> QED
    BY <2>1, <2>2
<1>9. ASSUME NEW s \in Tasks, NEW u \in Tasks, dests'[s][u] > 0
      PROVE  /\ dests'[s][u] = 1
             /\ \/ built'[u] = [uses |-> <<s>>, sub |-> FALSE]
                \/ runtime'[u] = [uses |-> <<s>>, sub |-> FALSE]
             /\ pc'[Act(u)] \in {"insert"} \cup Inserted
  <2>1. CASE u = t
    <3>1. s = s0 /\ ~ddc
      BY <1>5, <1>7, <1>9, <2>1
    <3> QED
      BY <1>1, <1>3, <1>4, <1>7, <2>1, <3>1
  <2>2. CASE u # t
    <3>1. dests[s][u] > 0 /\ dests'[s][u] = dests[s][u]
      BY <1>7, <1>9, <2>2
    <3> QED
      BY <1>1, <1>4, <1>6, <2>2, <3>1 DEF ConsumerInv
  <2> QED
    BY <2>1, <2>2
<1>10. ASSUME NEW s \in Tasks, NEW u \in Tasks, subs'[s][u] # NoWindow
       PROVE  /\ pc'[Act(u)] \in {"insert"} \cup Inserted
              /\ \A v \in Tasks : dests'[v][u] = 0
  <2>1. CASE u = t
    <3>1. ddc
      BY <1>1, <1>5, <1>10, <2>1
    <3> QED
      BY <1>4, <1>5, <1>7, <2>1, <3>1
  <2>2. CASE u # t
    <3>1. subs[s][u] # NoWindow
      BY <1>8, <1>10, <2>2
    <3> QED
      BY <1>4, <1>7, <2>2, <3>1 DEF ConsumerInv
  <2> QED
    BY <2>1, <2>2
<1>11. ConsumerInv'
  BY <1>9, <1>10 DEF ConsumerInv
<1> QED
  BY <1>7, <1>11

LEMMA FeedOpen ==
  ASSUME KnownInv, RuntimeInv, ConsumerInv, NEW t \in Tasks, ActOpen(t)
  PROVE  /\ ConsumerInv'
         /\ \A s, u \in Tasks : dests'[s][u] = IF u = t /\ s = t THEN 1 ELSE dests[s][u]
<1>1. /\ pc[Act(t)] = "open" /\ Goto(Act(t), "insert") /\ runtime' = runtime /\ subs' = subs
      /\ AddDests(<<t>>, t)
      /\ built' = [built EXCEPT ![t].uses = <<t>>]
  BY DEF ActOpen, Act, Start
<1>2. pc'[Act(t)] = "insert" /\ \A u \in Tasks : u # t => pc'[Act(u)] = pc[Act(u)]
  BY <1>1, ActMoves
<1>3. built'[t] = [uses |-> <<t>>, sub |-> FALSE]
  <2> DEFINE b == built[t]
             v == <<t>>
  <2>1. b \in Runtimes /\ b.sub = FALSE
    <3>1. b = [uses |-> <<>>, sub |-> FALSE]
      BY <1>1, NothingBuilt
    <3>2. b \in Runtimes
      BY DEF KnownInv, ActTypes
    <3> HIDE DEF b
    <3> QED
      BY <3>1, <3>2
  <2>2. built'[t] = [b EXCEPT !.uses = v]
    BY <1>1 DEF KnownInv, ActTypes
  <2> HIDE DEF b, v
  <2>3. [b EXCEPT !.uses = v] = [uses |-> v, sub |-> b.sub]
    BY <2>1 DEF Runtimes
  <2> QED
    BY <2>1, <2>2, <2>3 DEF v
<1>4. \A u \in Tasks : u # t => built'[u] = built[u]
  BY <1>1 DEF KnownInv, ActTypes
<1>5. \A s \in Tasks : dests[s][t] = 0 /\ subs[s][t] = NoWindow
  <2>1. pc[Act(t)] \notin {"insert"} \cup Inserted
    BY <1>1 DEF Inserted
  <2>2. \A s \in Tasks : dests[s][t] \in Nat
    BY DEF KnownInv, StreamTypes
  <2>3. \A s \in Tasks : ~(dests[s][t] > 0) /\ subs[s][t] = NoWindow
    BY <2>1 DEF ConsumerInv
  <2> QED
    BY <2>2, <2>3
<1>6. \A s, u \in Tasks : dests'[s][u] = IF u = t /\ s = t THEN 1 ELSE dests[s][u]
  <2> DEFINE uses == <<t>>
  <2>1. uses \in Seq(Tasks) /\ uses = <<t>>
    OBVIOUS
  <2>2. dests' = [s \in Tasks |-> [dests[s] EXCEPT ![t] = @ + Times(uses, s)]]
    BY <1>1 DEF AddDests
  <2> HIDE DEF uses
  <2>3. \A s \in Tasks : Times(uses, s) = IF s = t THEN 1 ELSE 0
    BY <2>1, TimesIs
  <2>4. \A s \in Tasks : dests[s] \in [Tasks -> Nat]
    BY DEF KnownInv, StreamTypes
  <2> QED
    BY <1>5, <2>2, <2>3, <2>4
<1>7. ASSUME NEW s \in Tasks, NEW u \in Tasks, dests'[s][u] > 0
      PROVE  /\ dests'[s][u] = 1
             /\ \/ built'[u] = [uses |-> <<s>>, sub |-> FALSE]
                \/ runtime'[u] = [uses |-> <<s>>, sub |-> FALSE]
             /\ pc'[Act(u)] \in {"insert"} \cup Inserted
  <2>1. CASE u = t
    <3>1. s = t
      BY <1>5, <1>6, <1>7, <2>1
    <3> QED
      BY <1>2, <1>3, <1>6, <2>1, <3>1
  <2>2. CASE u # t
    <3>1. dests[s][u] > 0 /\ dests'[s][u] = dests[s][u]
      BY <1>6, <1>7, <2>2
    <3> QED
      BY <1>1, <1>2, <1>4, <2>2, <3>1 DEF ConsumerInv
  <2> QED
    BY <2>1, <2>2
<1>8. ASSUME NEW s \in Tasks, NEW u \in Tasks, subs'[s][u] # NoWindow
      PROVE  /\ pc'[Act(u)] \in {"insert"} \cup Inserted
             /\ \A v \in Tasks : dests'[v][u] = 0
  <2>1. u # t /\ subs[s][u] # NoWindow
    BY <1>1, <1>5, <1>8
  <2> QED
    BY <1>2, <1>6, <2>1 DEF ConsumerInv
<1>9. ConsumerInv'
  BY <1>7, <1>8 DEF ConsumerInv
<1> QED
  BY <1>6, <1>9

LEMMA FeedInsert ==
  ASSUME KnownInv, RuntimeInv, ConsumerInv, NEW t \in Tasks, ActInsert(t)
  PROVE  ConsumerInv'
<1>1. /\ pc[Act(t)] = "insert" /\ Goto(Act(t), "run")
      /\ runtime' = [runtime EXCEPT ![t] = built[t]]
      /\ built' = [built EXCEPT ![t] = NoRuntime]
      /\ dests' = dests /\ subs' = subs
  BY DEF ActInsert, Act, streamVars
<1>2. /\ runtime'[t] = built[t]
      /\ \A u \in Tasks : u # t => runtime'[u] = runtime[u] /\ built'[u] = built[u]
  BY <1>1 DEF KnownInv, StreamTypes, ActTypes
<1>3. pc'[Act(t)] = "run" /\ \A u \in Tasks : u # t => pc'[Act(u)] = pc[Act(u)]
  BY <1>1, ActMoves
<1>4. runtime[t] = NoRuntime
  BY <1>1 DEF RuntimeInv, Inserted
<1>5. \A s \in Tasks : dests[s][t] > 0 => built[t] = [uses |-> <<s>>, sub |-> FALSE]
  BY <1>4, SomeRuntime DEF ConsumerInv
<1>6. \A s, u \in Tasks : dests'[s][u] > 0 =>
             /\ dests'[s][u] = 1
             /\ \/ built'[u] = [uses |-> <<s>>, sub |-> FALSE]
                \/ runtime'[u] = [uses |-> <<s>>, sub |-> FALSE]
             /\ pc'[Act(u)] \in {"insert"} \cup Inserted
  BY <1>1, <1>2, <1>3, <1>5 DEF ConsumerInv, Inserted
<1>7. \A s, u \in Tasks : subs'[s][u] # NoWindow =>
             /\ pc'[Act(u)] \in {"insert"} \cup Inserted
             /\ \A v \in Tasks : dests'[v][u] = 0
  BY <1>1, <1>3 DEF ConsumerInv, Inserted
<1> QED
  BY <1>6, <1>7 DEF ConsumerInv

LEMMA FeedActivate ==
  ASSUME KnownInv, RuntimeInv, ConsumerInv, MoveInv, OneChannel, NEW t \in Tasks, Activate(t)
  PROVE  ConsumerInv' /\ MoveInv'
<1>1. CASE ActStart(t) \/ ActLock(t) \/ ActLookup(t) \/ ActFails(t)
  <2>1. PICK l : Goto(Act(t), l)
    BY <1>1 DEF ActStart, ActLock, ActLookup, ActFails, Act
  <2>2. UNCHANGED <<dests, subs, runtime, work>>
    BY <1>1 DEF ActStart, ActLock, ActLookup, ActFails, streamVars, rtVars
  <2>3. \A u \in Tasks : u # t => built'[u] = built[u]
    <3>1. built' = built \/ \E v : built' = [built EXCEPT ![t].uses = v]
      BY <1>1 DEF ActStart, ActLock, ActLookup, ActFails
    <3> QED
      BY <3>1 DEF KnownInv, ActTypes
  <2>4. pc[Act(t)] \notin {"insert"} \cup Inserted
    BY <1>1 DEF ActStart, ActLock, ActLookup, ActFails, Act, Inserted
  <2>5. ConsumerInv'
    BY <2>1, <2>2, <2>3, <2>4, ConsumersStay
  <2>6. MoveInv'
    BY <2>1, <2>2, <2>4, MoveActs
  <2> QED
    BY <2>5, <2>6
<1>2. CASE ActBorrow(t)
  <2>1. /\ pc[Act(t)] = "borrow" /\ Goto(Act(t), "insert") /\ runtime' = runtime /\ work' = work
    BY <1>2 DEF ActBorrow, Act, rtVars
  <2>2. pc[Act(t)] \notin Inserted
    BY <2>1 DEF Inserted
  <2>3. ConsumerInv' /\ \A s, u \in Tasks : u # t => dests'[s][u] = dests[s][u]
    BY <1>2, FeedBorrow
  <2>4. MoveInv'
    BY <2>1, <2>2, <2>3, MoveActs
  <2> QED
    BY <2>3, <2>4
<1>3. CASE ActOpen(t)
  <2>1. /\ pc[Act(t)] = "open" /\ Goto(Act(t), "insert") /\ runtime' = runtime /\ work' = work
    BY <1>3 DEF ActOpen, Act
  <2>2. pc[Act(t)] \notin Inserted
    BY <2>1 DEF Inserted
  <2>3. ConsumerInv' /\ \A s, u \in Tasks : u # t => dests'[s][u] = dests[s][u]
    BY <1>3, FeedOpen
  <2>4. MoveInv'
    BY <2>1, <2>2, <2>3, MoveActs
  <2> QED
    BY <2>3, <2>4
<1>4. CASE ActInsert(t)
  <2>1. /\ pc[Act(t)] = "insert" /\ Goto(Act(t), "run") /\ dests' = dests /\ work' = work
        /\ \A u \in Tasks : u # t => runtime'[u] = runtime[u]
    BY <1>4 DEF ActInsert, Act, streamVars, KnownInv, StreamTypes
  <2>2. pc[Act(t)] \notin Inserted
    BY <2>1 DEF Inserted
  <2>3. MoveInv'
    BY <2>1, <2>2, MoveActs
  <2> QED
    BY <1>4, <2>3, FeedInsert
<1>5. CASE ActRun(t)
  <2>1. /\ pc[Act(t)] = "run" /\ Goto(Act(t), "done")
        /\ UNCHANGED <<dests, subs, runtime, built, work>>
    BY <1>5 DEF ActRun, Act, streamVars, rtVars, actVars
  <2>2. pc'[Act(t)] = "done" /\ \A u \in Tasks : u # t => pc'[Act(u)] = pc[Act(u)]
    BY <2>1, ActMoves
  <2>3. \A u \in Tasks : pc[Act(u)] \in {"insert"} \cup Inserted => pc'[Act(u)] \in {"insert"} \cup Inserted
    BY <2>2 DEF Inserted
  <2>4. ConsumerInv'
    BY <2>1, <2>3 DEF ConsumerInv
  <2>5. "done" \in Inserted
    BY DEF Inserted
  <2>6. MoveInv'
    BY <2>1, <2>5, MoveActs
  <2> QED
    BY <2>4, <2>6
<1> QED
  BY <1>1, <1>2, <1>3, <1>4, <1>5 DEF Activate


(***************************************************************************)
(* One feed of a task.                                                     *)
(***************************************************************************)
FeedInv == ReaderInv /\ ConsumerInv /\ MoveInv

LEMMA FeedInit ==
  ASSUME Init PROVE FeedInv
<1>1. ReaderInv
  BY ReaderInit
<1>2. /\ \A s, t \in Tasks : dests[s][t] = 0 /\ subs[s][t] = NoWindow
      /\ work = NoWork /\ pc[Amqp] = "idle"
  BY ThreadFacts DEF Init
<1>3. ConsumerInv
  BY <1>2 DEF ConsumerInv
<1>4. MoveInv
  BY <1>2 DEF MoveInv, NoWork
<1> QED
  BY <1>1, <1>3, <1>4 DEF FeedInv

LEMMA FeedNext ==
  ASSUME OneChannel, FeedInv, [Next]_vars PROVE FeedInv'
<1>1. KnownInv /\ RuntimeInv /\ ReaderInv /\ ConsumerInv /\ MoveInv
  BY DEF FeedInv, ReaderInv
<1>2. ReaderInv'
  BY <1>1, ReaderNext
<1>3. ConsumerInv' /\ MoveInv'
  BY <1>1, NextSplits, FeedOthers, FeedActivate
<1> QED
  BY <1>2, <1>3 DEF FeedInv

(* Where every request is for one channel, no task is ever a raw           *)
(* destination and a sub-band at once, of one streamer or of two, however  *)
(* the conversion by tryRetuneCombined and the task's end overlap: it is   *)
(* removed as a destination before it becomes a sub-band, and              *)
(* deactivateTask never makes it a destination again.                      *)
THEOREM FedOnce == OneChannel => (Spec => []OneFeed)
<1>1. Init => FeedInv
  BY FeedInit
<1>2. ASSUME OneChannel PROVE FeedInv /\ [Next]_vars => FeedInv'
  BY <1>2, FeedNext
<1>3. FeedInv => OneFeed
  BY DEF FeedInv, ConsumerInv, OneFeed
<1> SUFFICES ASSUME OneChannel PROVE Spec => []OneFeed
  OBVIOUS
<1>4. FeedInv /\ [Next]_vars => FeedInv'
  BY <1>2
<1> QED
  BY <1>1, <1>3, <1>4, PTL DEF Spec

(***************************************************************************)
(* Streams in use are open.                                                *)
(***************************************************************************)
LEMMA NoneConverting ==
  ASSUME MoveInv, pc[Amqp] # "resubscribe" PROVE \A t \in Tasks : ~Converting(t)
BY DEF MoveInv, Converting

(* What a step must keep, task by task.                                    *)
LEMMA ServedStays ==
  ASSUME \A s \in Tasks : status'[s] # "twice",
         \A t \in Tasks : \A s \in Range(runtime'[t].uses) :
            /\ status'[s] = "open"
            /\ dests'[s][t] > 0 \/ subs'[s][t] # NoWindow \/ Converting(t)',
         \A t \in Tasks : pc'[Act(t)] = "insert" => \A s \in Range(built'[t].uses) :
            /\ status'[s] = "open"
            /\ dests'[s][t] > 0 \/ subs'[s][t] # NoWindow
  PROVE  ServedInv'
BY DEF ServedInv, ClosedOnce, Feeds

(* The users of a stream that is closed: its last consumer's teardown.     *)
LEMMA ServedTeardown ==
  ASSUME FeedInv, ServedInv, OneChannel, Undisturbed, NEW p \in Threads, Teardown(p)
  PROVE  ServedInv'
<1> DEFINE t == arg[p]
<1>1. KnownInv /\ RuntimeInv /\ ChanInv /\ ConsumerInv /\ MoveInv /\ HwInv
  BY DEF FeedInv, ReaderInv
<1>2. t \in Tasks /\ Len(runtime[t].uses) <= 1 /\ StreamTypes
  BY <1>1, TeardownAlone DEF RuntimeInv, KnownInv
<1>3. /\ runtime' = [runtime EXCEPT ![t] = NoRuntime] /\ work' = work
  BY DEF Teardown
<1>4. Aside
  BY <1>1, CallAside DEF Deactivate
<1>5. \A v \in Tasks : /\ v # t => runtime'[v] = runtime[v]
                       /\ Converting(v)' <=> Converting(v)
                       /\ pc'[Act(v)] = "insert" => pc[Act(v)] = "insert"
                       /\ built'[v] = built[v]
  BY <1>2, <1>3, <1>4 DEF StreamTypes, Converting, Aside, Quiet, Calling
<1>6. Range(runtime'[t].uses) = {}
  BY <1>2, <1>3 DEF StreamTypes, NoRuntime, Range
<1>7. \A v \in Tasks : status[v] # "twice"
  BY DEF ServedInv, ClosedOnce
<1>8. /\ \A v \in Tasks : \A u \in Range(runtime[v].uses) :
            u \in Tasks /\ status[u] = "open" /\ (dests[u][v] > 0 \/ subs[u][v] # NoWindow \/ Converting(v))
      /\ \A v \in Tasks : pc[Act(v)] = "insert" => \A u \in Range(built[v].uses) :
            u \in Tasks /\ status[u] = "open" /\ (dests[u][v] > 0 \/ subs[u][v] # NoWindow)
  <2>1. \A v \in Tasks : runtime[v].uses \in Seq(Tasks) /\ built[v].uses \in Seq(Tasks)
    BY <1>1, <1>2 DEF KnownInv, StreamTypes, ActTypes, Runtimes
  <2>2. \A q \in Seq(Tasks) : \A u \in Range(q) : u \in Tasks
    BY DEF Range
  <2> QED
    BY <2>1, <2>2 DEF ServedInv, Feeds
<1>9. CASE runtime[t].uses = <<>> /\ UNCHANGED <<chan, status, running, dests, subs>>
  <2>1. \A v \in Tasks : runtime'[v] = runtime[v] \/ Range(runtime'[v].uses) = {}
    BY <1>5, <1>6
  <2> QED
    BY <1>5, <1>7, <1>8, <1>9, <2>1, ServedStays
<1>10. ASSUME NEW s \in Tasks, runtime[t].uses = <<s>>,
              \/ /\ UNCHANGED <<chan, status, running>>
                 /\ dests' = DestsWithout(t) /\ subs' = SubsWithout(t)
              \/ /\ ~ ((\E c \in Channels : chan[c] = s) /\ StillConsumed(t, s))
                 /\ status' = [status EXCEPT ![s] = IF @ = "open" THEN "closed" ELSE "twice"]
                 /\ \A u, v \in Tasks :
                       u # s => /\ dests'[u][v] = DestsWithout(t)[u][v]
                                /\ subs'[u][v] = SubsWithout(t)[u][v]
       PROVE  ServedInv'
  <2>1. \A u, v \in Tasks : v # t => DestsWithout(t)[u][v] = dests[u][v] /\ SubsWithout(t)[u][v] = subs[u][v]
    BY <1>2, <1>10, WithoutIs
  <2>2. s \in Range(runtime[t].uses) /\ Range(runtime[t].uses) = {s}
    BY <1>10 DEF Range
  <2>3. pc[Act(t)] # "insert"
    <3>1. runtime[t] # NoRuntime
      BY <1>10, SomeRuntime
    <3> QED
      BY <1>1, <1>2, <3>1 DEF RuntimeInv, Inserted
  <2>4. CASE UNCHANGED <<chan, status, running>> /\ dests' = DestsWithout(t) /\ subs' = SubsWithout(t)
    <3>1. \A v \in Tasks : \A u \in Range(runtime'[v].uses) :
             /\ status'[u] = "open"
             /\ dests'[u][v] > 0 \/ subs'[u][v] # NoWindow \/ Converting(v)'
      <4>1. ASSUME NEW v \in Tasks, v # t, NEW u \in Range(runtime'[v].uses)
            PROVE  /\ status'[u] = "open"
                   /\ dests'[u][v] > 0 \/ subs'[u][v] # NoWindow \/ Converting(v)'
        <5>1. /\ u \in Tasks /\ status[u] = "open"
              /\ dests[u][v] > 0 \/ subs[u][v] # NoWindow \/ Converting(v)
          BY <1>5, <1>8, <4>1
        <5>2. dests'[u][v] = dests[u][v] /\ subs'[u][v] = subs[u][v]
          BY <2>1, <2>4, <4>1, <5>1
        <5> QED
          BY <1>5, <2>4, <5>1, <5>2
      <4> QED
        BY <1>6, <4>1
    <3>2. \A v \in Tasks : pc'[Act(v)] = "insert" => \A u \in Range(built'[v].uses) :
             /\ status'[u] = "open"
             /\ dests'[u][v] > 0 \/ subs'[u][v] # NoWindow
      BY <1>5, <1>8, <2>1, <2>3, <2>4
    <3> QED
      BY <1>7, <2>4, <3>1, <3>2, ServedStays
  <2>5. CASE /\ ~ ((\E c \in Channels : chan[c] = s) /\ StillConsumed(t, s))
             /\ status' = [status EXCEPT ![s] = IF @ = "open" THEN "closed" ELSE "twice"]
             /\ \A u, v \in Tasks :
                   u # s => /\ dests'[u][v] = DestsWithout(t)[u][v]
                            /\ subs'[u][v] = SubsWithout(t)[u][v]
    <3>1. status[s] = "open"
      BY <1>2, <1>8, <2>2
    <3>2. \E c \in Channels : chan[c] = s
      BY <1>1, <3>1, OpenChannel DEF ChanInv
    <3>3. \A v \in Tasks : v # t => ~(dests[s][v] > 0) /\ subs[s][v] = NoWindow
      BY <2>1, <2>5, <3>2 DEF StillConsumed
    <3>4. /\ \A v \in Tasks : status'[v] # "twice"
          /\ \A v \in Tasks : v # s => status'[v] = status[v]
      BY <1>2, <1>7, <2>5, <3>1 DEF StreamTypes
    <3>5. \A v \in Tasks : v # t => \A u \in Range(runtime[v].uses) : u # s
      <4> SUFFICES ASSUME NEW v \in Tasks, v # t, s \in Range(runtime[v].uses) PROVE FALSE
        OBVIOUS
      <4>1. PICK x \in work.todo \cap work.done : x[1] = v
        BY <1>8, <3>3 DEF Converting
      <4>2. runtime[v] # NoRuntime
        BY SomeRuntime DEF Range
      <4>3. runtime[v].uses = <<x[2]>>
        BY <1>1, <4>1, <4>2 DEF MoveInv
      <4>4. x[2] = s
        BY <4>3 DEF Range
      <4> QED
        BY <2>2, <4>1, <4>4 DEF Undisturbed
    <3>6. \A v \in Tasks : \A u \in Range(runtime'[v].uses) :
             /\ status'[u] = "open"
             /\ dests'[u][v] > 0 \/ subs'[u][v] # NoWindow \/ Converting(v)'
      BY <1>5, <1>6, <1>8, <2>1, <2>5, <3>4, <3>5
    <3>7. \A v \in Tasks : pc'[Act(v)] = "insert" => \A u \in Range(built'[v].uses) :
             /\ status'[u] = "open"
             /\ dests'[u][v] > 0 \/ subs'[u][v] # NoWindow
      BY <1>5, <1>8, <2>1, <2>3, <2>5, <3>3, <3>4
    <3> QED
      BY <3>4, <3>6, <3>7, ServedStays
  <2> QED
    BY <1>10, <2>4, <2>5
<1> QED
  BY <1>2, <1>9, <1>10, TeardownOne


(* A step that leaves the streams, and takes nobody off one but a task     *)
(* that is being moved.                                                    *)
LEMMA ServedMoves ==
  ASSUME FeedInv, ServedInv, Aside, RuntimesLess, status' = status,
         \A s, t \in Tasks :
            /\ dests[s][t] > 0 => dests'[s][t] > 0 \/ Converting(t)'
            /\ subs[s][t] # NoWindow => subs'[s][t] # NoWindow,
         \A s, t \in Tasks : dests'[s][t] # dests[s][t] => pc[Act(t)] # "insert",
         \A t \in Tasks : Converting(t) => \/ Converting(t)'
                                           \/ \A s \in Range(runtime[t].uses) : subs'[s][t] # NoWindow
  PROVE  ServedInv'
<1>1. KnownInv /\ ClosedOnce
  BY DEF FeedInv, ReaderInv, ServedInv
<1>2. \A t \in Tasks : /\ pc'[Act(t)] = "insert" => pc[Act(t)] = "insert"
                       /\ built'[t] = built[t]
  BY DEF Aside, Quiet, Calling
<1>3. \A q \in Seq(Tasks) : \A u \in Range(q) : u \in Tasks
  BY DEF Range
<1>4. \A t \in Tasks : runtime[t].uses \in Seq(Tasks) /\ built[t].uses \in Seq(Tasks)
  BY <1>1 DEF KnownInv, StreamTypes, ActTypes, Runtimes
<1>5. \A t \in Tasks : \A s \in Range(runtime'[t].uses) : s \in Range(runtime[t].uses)
  <2>1. Range(<<>>) = {}
    BY DEF Range
  <2> QED
    BY <1>1, <2>1, UsesLess
<1>6. ASSUME NEW t \in Tasks, NEW s \in Range(runtime'[t].uses)
      PROVE  /\ status'[s] = "open"
             /\ dests'[s][t] > 0 \/ subs'[s][t] # NoWindow \/ Converting(t)'
  <2>1. s \in Range(runtime[t].uses) /\ s \in Tasks
    BY <1>3, <1>4, <1>5
  <2>2. status[s] = "open" /\ (dests[s][t] > 0 \/ subs[s][t] # NoWindow \/ Converting(t))
    BY <2>1 DEF ServedInv, Feeds
  <2> QED
    BY <2>1, <2>2
<1>7. ASSUME NEW t \in Tasks, pc'[Act(t)] = "insert", NEW s \in Range(built'[t].uses)
      PROVE  /\ status'[s] = "open"
             /\ dests'[s][t] > 0 \/ subs'[s][t] # NoWindow
  <2>1. s \in Tasks /\ status[s] = "open" /\ (dests[s][t] > 0 \/ subs[s][t] # NoWindow)
    BY <1>2, <1>3, <1>4, <1>7 DEF ServedInv, Feeds
  <2>2. dests'[s][t] = dests[s][t]
    BY <1>2, <1>7, <2>1
  <2> QED
    BY <2>1, <2>2
<1> QED
  BY <1>1, <1>6, <1>7, ServedStays DEF ClosedOnce

LEMMA ServedUnsubscribe ==
  ASSUME FeedInv, ServedInv, Aside, RuntimesLess, NEW x \in work.todo, Unsubscribe(x)
  PROVE  ServedInv'
<1>1. /\ pc[Amqp] = "convert"
      /\ dests' = [dests EXCEPT ![x[2]][x[1]] = IF @ > 0 THEN @ - 1 ELSE 0]
      /\ work' = [work EXCEPT !.done = @ \cup {x}]
      /\ subs' = subs /\ status' = status
  BY DEF Unsubscribe, RemoveDest
<1>2. KnownInv /\ MoveInv
  BY DEF FeedInv, ReaderInv
<1>3. work'.todo = work.todo /\ work'.done = work.done \cup {x}
  BY <1>1, <1>2 DEF KnownInv, WorkInv
<1>4. Converting(x[1])'
  BY <1>3 DEF Converting
<1>5. x[1] \in Tasks /\ x[2] \in Tasks /\ pc[Act(x[1])] # "insert"
  BY <1>2 DEF KnownInv, WorkInv, MoveInv, Inserted
<1>6. \A s, t \in Tasks : t # x[1] => dests'[s][t] = dests[s][t]
  BY <1>1, <1>2, <1>5 DEF KnownInv, StreamTypes
<1>7. \A t \in Tasks : ~Converting(t)
  BY <1>1, <1>2, NoneConverting
<1> QED
  BY <1>1, <1>4, <1>5, <1>6, <1>7, ServedMoves

LEMMA ServedResubscribe ==
  ASSUME FeedInv, ServedInv, Aside, RuntimesLess, NEW x \in work.todo, Resubscribe(x)
  PROVE  ServedInv'
<1>1. /\ pc[Amqp] = "resubscribe"
      /\ x \in work.todo \cap work.done
      /\ subs' = [subs EXCEPT ![x[2]][x[1]] = <<label[x[2]][1], work.fit.sr>>]
      /\ dests' = dests /\ status' = status
  BY DEF Resubscribe, AddSubBand
<1>2. KnownInv /\ MoveInv
  BY DEF FeedInv, ReaderInv
<1>3. work.fit.sr # 0
  BY <1>1, <1>2, RetuningFacts DEF Retuning
<1>4. x[1] \in Tasks /\ x[2] \in Tasks /\ subs \in [Tasks -> [Tasks -> Windows]]
  BY <1>2 DEF KnownInv, WorkInv, StreamTypes
<1>5. \A a : <<a, work.fit.sr>> # NoWindow
  BY <1>3 DEF NoWindow
<1>6. subs'[x[2]][x[1]] # NoWindow
  BY <1>1, <1>4, <1>5
<1>7. \A s, t \in Tasks : subs'[s][t] = subs[s][t] \/ (s = x[2] /\ t = x[1])
  BY <1>1, <1>4
<1>8. \A t \in Tasks : Converting(t) => t = x[1]
  <2>1. PICK y \in work.done : work.todo \cap work.done = {y}
    BY <1>1, <1>2 DEF MoveInv
  <2> QED
    BY <1>1, <2>1 DEF Converting
<1>9. \A s \in Range(runtime[x[1]].uses) : s = x[2]
  <2>1. CASE runtime[x[1]] = NoRuntime
    BY <2>1, SomeRuntime DEF Range
  <2>2. CASE runtime[x[1]] # NoRuntime
    <3>1. runtime[x[1]].uses = <<x[2]>>
      BY <1>1, <1>2, <2>2 DEF MoveInv
    <3> QED
      BY <3>1 DEF Range
  <2> QED
    BY <2>1, <2>2
<1>10. \A t \in Tasks : Converting(t) => \A s \in Range(runtime[t].uses) : subs'[s][t] # NoWindow
  BY <1>6, <1>8, <1>9
<1>11. \A s, t \in Tasks : subs[s][t] # NoWindow => subs'[s][t] # NoWindow
  BY <1>6, <1>7
<1> QED
  BY <1>1, <1>10, <1>11, ServedMoves

LEMMA ServedOthers ==
  ASSUME FeedInv, ServedInv, OneChannel, Undisturbed, Others
  PROVE  ServedInv'
<1>1. KnownInv /\ MoveInv
  BY DEF FeedInv, ReaderInv
<1>2. Aside /\ RuntimesLess
  BY <1>1, OthersAside
<1>3. ASSUME UNCHANGED <<status, dests, subs>>, pc[Amqp] # "resubscribe" \/ work' = work
      PROVE  ServedInv'
  <2>1. \A t \in Tasks : Converting(t) => Converting(t)'
    BY <1>1, <1>3, NoneConverting DEF Converting
  <2> QED
    BY <1>2, <1>3, <2>1, ServedMoves
<1>4. CASE \E t \in Tasks : AcceptFit(t) \/ AcceptJoin(t) \/ Combine(t) \/ Cancel(t) \/ Expire(t)
  <2>1. UNCHANGED <<status, dests, subs>> /\ (pc[Amqp] = "idle" \/ work' = work)
    BY <1>4 DEF AcceptFit, AcceptJoin, Accept, Combine, Cancel, Expire, streamVars
  <2> QED
    BY <1>3, <2>1
<1>5. CASE (\E s \in Failing : StreamError(s)) \/ UNCHANGED vars
  <2>1. UNCHANGED <<status, dests, subs>> /\ work' = work
    BY <1>5 DEF StreamError, vars, streamVars
  <2> QED
    BY <1>3, <2>1
<1>6. ASSUME NEW p \in Threads, Deactivate(p) PROVE ServedInv'
  <2>1. CASE Teardown(p)
    BY <2>1, ServedTeardown
  <2>2. CASE Claim(p) \/ CheckOrphan(p) \/ ReleaseSlot(p)
    <3>1. UNCHANGED <<status, dests, subs>> /\ work' = work
      BY <2>2 DEF Claim, CheckOrphan, ReleaseSlot, streamVars
    <3> QED
      BY <1>3, <3>1
  <2> QED
    BY <1>6, <2>1, <2>2 DEF Deactivate
<1>7. CASE Tune \/ TuneFails \/ Push \/ Collect \/ Plan \/ Flag \/ AcceptCombined \/ PortsExhausted
  <2>1. UNCHANGED <<status, dests, subs>> /\ pc[Amqp] # "resubscribe"
    BY <1>7 DEF Tune, TuneFails, Push, Collect, Plan, Flag, AcceptCombined, PortsExhausted, streamVars
  <2> QED
    BY <1>3, <2>1
<1>8. CASE \E x \in work.todo : Unsubscribe(x) \/ Resubscribe(x)
  BY <1>2, <1>8, ServedUnsubscribe, ServedResubscribe
<1>9. CASE Retune
  BY <1>7, <1>8, <1>9 DEF Retune
<1> QED
  BY <1>4, <1>5, <1>6, <1>9 DEF Others


(* A step of an activation.                                                *)
LEMMA ServedActs ==
  ASSUME FeedInv, ServedInv, NEW t \in Tasks, NEW l, Goto(Act(t), l), work' = work,
         \A s \in Tasks : status'[s] # "twice" /\ (status[s] = "open" => status'[s] = "open"),
         \A s, u \in Tasks : /\ dests[s][u] > 0 => dests'[s][u] > 0
                             /\ subs[s][u] # NoWindow => subs'[s][u] # NoWindow,
         \A u \in Tasks : u # t => built'[u] = built[u] /\ runtime'[u] = runtime[u],
         \/ runtime'[t] = runtime[t]
         \/ pc[Act(t)] = "insert" /\ runtime'[t] = built[t],
         l = "insert" => \A s \in Range(built'[t].uses) :
            /\ status'[s] = "open"
            /\ dests'[s][t] > 0 \/ subs'[s][t] # NoWindow
  PROVE  ServedInv'
<1>1. KnownInv
  BY DEF FeedInv, ReaderInv
<1>2. pc'[Act(t)] = l /\ \A u \in Tasks : u # t => pc'[Act(u)] = pc[Act(u)]
  BY <1>1, ActMoves
<1>3. \A q \in Seq(Tasks) : \A u \in Range(q) : u \in Tasks
  BY DEF Range
<1>4. \A u \in Tasks : runtime[u].uses \in Seq(Tasks) /\ built[u].uses \in Seq(Tasks)
  BY <1>1 DEF KnownInv, StreamTypes, ActTypes, Runtimes
<1>5. \A u \in Tasks : Converting(u)' <=> Converting(u)
  BY DEF Converting
<1>6. ASSUME NEW u \in Tasks, NEW s \in Range(runtime'[u].uses)
      PROVE  /\ status'[s] = "open"
             /\ dests'[s][u] > 0 \/ subs'[s][u] # NoWindow \/ Converting(u)'
  <2>1. CASE runtime'[u] = runtime[u]
    <3>1. s \in Range(runtime[u].uses) /\ s \in Tasks
      BY <1>3, <1>4, <2>1
    <3>2. status[s] = "open" /\ (dests[s][u] > 0 \/ subs[s][u] # NoWindow \/ Converting(u))
      BY <3>1 DEF ServedInv, Feeds
    <3> QED
      BY <1>5, <3>1, <3>2
  <2>2. CASE u = t /\ pc[Act(t)] = "insert" /\ runtime'[t] = built[t]
    <3>1. s \in Range(built[t].uses) /\ s \in Tasks
      BY <1>3, <1>4, <2>2
    <3>2. status[s] = "open" /\ (dests[s][t] > 0 \/ subs[s][t] # NoWindow)
      BY <2>2, <3>1 DEF ServedInv, Feeds
    <3> QED
      BY <2>2, <3>1, <3>2
  <2> QED
    BY <2>1, <2>2
<1>7. ASSUME NEW u \in Tasks, pc'[Act(u)] = "insert", NEW s \in Range(built'[u].uses)
      PROVE  /\ status'[s] = "open"
             /\ dests'[s][u] > 0 \/ subs'[s][u] # NoWindow
  <2>1. CASE u = t
    BY <1>2, <1>7, <2>1
  <2>2. CASE u # t
    <3>1. s \in Tasks /\ status[s] = "open" /\ (dests[s][u] > 0 \/ subs[s][u] # NoWindow)
      BY <1>2, <1>3, <1>4, <1>7, <2>2 DEF ServedInv, Feeds
    <3> QED
      BY <3>1
  <2> QED
    BY <2>1, <2>2
<1> QED
  BY <1>6, <1>7, ServedStays

LEMMA ServedBorrow ==
  ASSUME FeedInv, ServedInv, OneChannel, NEW t \in Tasks, ActBorrow(t)
  PROVE  ServedInv'
<1> DEFINE uses == built[t].uses
           ddc == NeedsDdc(wide[t], OutputRate(copy[t])) /\ Len(uses) = 1
<1>1. KnownInv /\ RuntimeInv /\ ChanInv /\ ConsumerInv
  BY DEF FeedInv, ReaderInv
<1>2. /\ pc[Act(t)] = "borrow" /\ Goto(Act(t), "insert") /\ runtime' = runtime
      /\ status' = status /\ work' = work
      /\ ddc => /\ AddSubBand(uses[1], t, wide[t])
                /\ built' = [built EXCEPT ![t].sub = TRUE] /\ dests' = dests
      /\ ~ddc => AddDests(uses, t) /\ UNCHANGED <<subs, built>>
  BY DEF ActBorrow, Act, rtVars
<1>3. PICK s0 \in Tasks : uses = <<s0>> /\ status[s0] = "open"
  <2>1. PICK s \in Tasks : uses = <<s>>
    BY <1>1, <1>2, UsesOne
  <2>2. s = chan[copy[t].rx[1]] /\ s # NoTask
    BY <1>1, <1>2, <2>1 DEF ChanInv
  <2>3. copy[t].rx[1] \in Channels
    <3>1. state[t] # "absent"
      BY <1>1, <1>2 DEF KnownInv, ThreadInv
    <3>2. copy[t].rx = alloc[t].rx /\ alloc[t].rx \in Seq(Channels) /\ alloc[t].rx # <<>>
      BY <1>1, <1>2, <3>1 DEF KnownInv, AllocInv, TaskTypes, Allocations, Holding
    <3> QED
      BY <3>2
  <2> QED
    BY <1>1, <2>1, <2>2, <2>3 DEF ChanInv
<1>4. wide[t] # 0 \/ ~ddc
  <2>1. OutputRate(copy[t]) \in Nat /\ OutputRate(copy[t]) > 0
    BY <1>1, <1>2 DEF OutputRate, KnownInv, AllocInv, ActTypes, Allocations, Windows, Holding
  <2> DEFINE o == OutputRate(copy[t])
  <2> HIDE DEF o
  <2>2. ASSUME o \in Nat, o > 0 PROVE ~(0 \div o >= 2)
    BY <2>2
  <2> QED
    BY <2>1, <2>2 DEF NeedsDdc, o
<1>5. built'[t].uses = <<s0>> /\ \A u \in Tasks : u # t => built'[u] = built[u]
  <2>1. CASE ddc
    <3> DEFINE b == built[t]
    <3>1. b \in Runtimes /\ b.uses = <<s0>>
      BY <1>1, <1>3 DEF KnownInv, ActTypes
    <3>2. built'[t] = [b EXCEPT !.sub = TRUE] /\ \A u \in Tasks : u # t => built'[u] = built[u]
      BY <1>1, <1>2, <2>1 DEF KnownInv, ActTypes
    <3> HIDE DEF b
    <3>3. [b EXCEPT !.sub = TRUE].uses = <<s0>>
      BY <3>1 DEF Runtimes
    <3> QED
      BY <3>2, <3>3
  <2>2. CASE ~ddc
    BY <1>2, <1>3, <2>2
  <2> QED
    BY <2>1, <2>2
<1>6. /\ dests'[s0][t] > 0 \/ subs'[s0][t] # NoWindow
      /\ \A s, u \in Tasks : /\ dests[s][u] > 0 => dests'[s][u] > 0
                             /\ subs[s][u] # NoWindow => subs'[s][u] # NoWindow
  <2>1. CASE ddc
    <3>1. subs' = [subs EXCEPT ![s0][t] = <<label[s0][1], wide[t]>>]
      BY <1>2, <1>3, <2>1 DEF AddSubBand
    <3>2. <<label[s0][1], wide[t]>> # NoWindow
      BY <1>4, <2>1 DEF NoWindow
    <3>3. subs \in [Tasks -> [Tasks -> Windows]] /\ dests' = dests
      BY <1>1, <1>2, <2>1 DEF KnownInv, StreamTypes
    <3> QED
      BY <3>1, <3>2, <3>3
  <2>2. CASE ~ddc
    <3>1. \A s \in Tasks : Times(uses, s) \in Nat /\ (s = s0 => Times(uses, s) = 1)
      <4>1. uses \in Seq(Tasks)
        BY <1>1 DEF KnownInv, ActTypes, Runtimes
      <4> HIDE DEF uses
      <4> QED
        BY <1>3, <4>1, TimesIs
    <3>2. dests' = [s \in Tasks |-> [dests[s] EXCEPT ![t] = @ + Times(uses, s)]] /\ subs' = subs
      BY <1>2, <2>2 DEF AddDests
    <3>3. \A s \in Tasks : dests[s] \in [Tasks -> Nat]
      BY <1>1 DEF KnownInv, StreamTypes
    <3> HIDE DEF uses
    <3>4. \A s, u \in Tasks : dests'[s][u] = IF u = t THEN dests[s][u] + Times(uses, s) ELSE dests[s][u]
      BY <3>2, <3>3
    <3>5. \A s, u \in Tasks : dests[s][u] \in Nat
      BY <3>3
    <3>6. dests'[s0][t] > 0
      BY <3>1, <3>4, <3>5
    <3>7. \A s, u \in Tasks : dests[s][u] > 0 => dests'[s][u] > 0
      BY <3>1, <3>4, <3>5
    <3> QED
      BY <3>2, <3>6, <3>7
  <2> QED
    BY <2>1, <2>2
<1>7. \A s \in Range(built'[t].uses) : s = s0
  BY <1>5 DEF Range
<1>8. \A s \in Tasks : status[s] # "twice"
  BY DEF ServedInv, ClosedOnce
<1> HIDE DEF ddc, uses
<1> QED
  BY <1>2, <1>3, <1>5, <1>6, <1>7, <1>8, ServedActs

LEMMA ServedActivate ==
  ASSUME FeedInv, ServedInv, OneChannel, NEW t \in Tasks, Activate(t)
  PROVE  ServedInv'
<1>1. KnownInv /\ RuntimeInv /\ ChanInv /\ ConsumerInv
  BY DEF FeedInv, ReaderInv
<1>2. \A s \in Tasks : status[s] # "twice"
  BY DEF ServedInv, ClosedOnce
<1>3. CASE ActStart(t) \/ ActLock(t) \/ ActLookup(t) \/ ActFails(t) \/ ActRun(t)
  <2>1. PICK l \in {"lock", "lookup", "borrow", "open", "claim", "done"} : Goto(Act(t), l)
    BY <1>3 DEF ActStart, ActLock, ActLookup, ActFails, ActRun, Act
  <2>2. UNCHANGED <<status, dests, subs, runtime, work>>
    BY <1>3 DEF ActStart, ActLock, ActLookup, ActFails, ActRun, streamVars, rtVars
  <2>3. \A u \in Tasks : u # t => built'[u] = built[u]
    <3>1. built' = built \/ \E v : built' = [built EXCEPT ![t].uses = v]
      BY <1>3 DEF ActStart, ActLock, ActLookup, ActFails, ActRun, actVars
    <3> QED
      BY <1>1, <3>1 DEF KnownInv, ActTypes
  <2> QED
    BY <1>2, <2>1, <2>2, <2>3, ServedActs
<1>4. CASE ActBorrow(t)
  BY <1>4, ServedBorrow
<1>5. CASE ActOpen(t)
  <2>1. /\ Goto(Act(t), "insert") /\ runtime' = runtime /\ subs' = subs /\ work' = work
        /\ status' = [status EXCEPT ![t] = "open"]
        /\ built' = [built EXCEPT ![t].uses = <<t>>]
    BY <1>5 DEF ActOpen, Act
  <2>2. \A s, u \in Tasks : dests'[s][u] = IF u = t /\ s = t THEN 1 ELSE dests[s][u]
    BY <1>1, <1>5, FeedOpen
  <2>3. /\ \A s \in Tasks : status'[s] = IF s = t THEN "open" ELSE status[s]
        /\ built'[t].uses = <<t>>
        /\ \A u \in Tasks : u # t => built'[u] = built[u]
    BY <1>1, <2>1 DEF KnownInv, StreamTypes, ActTypes, Runtimes
  <2>4. \A s \in Range(built'[t].uses) : s = t
    BY <2>3 DEF Range
  <2>5. \A s, u \in Tasks : dests[s][u] > 0 => dests'[s][u] > 0
    BY <2>2
  <2>6. \A s \in Range(built'[t].uses) : status'[s] = "open" /\ (dests'[s][t] > 0 \/ subs'[s][t] # NoWindow)
    BY <2>2, <2>3, <2>4
  <2> QED
    BY <1>2, <2>1, <2>3, <2>5, <2>6, ServedActs
<1>6. CASE ActInsert(t)
  <2>1. /\ pc[Act(t)] = "insert" /\ Goto(Act(t), "run")
        /\ runtime' = [runtime EXCEPT ![t] = built[t]]
        /\ built' = [built EXCEPT ![t] = NoRuntime]
        /\ UNCHANGED <<status, dests, subs, work>>
    BY <1>6 DEF ActInsert, Act, streamVars
  <2>2. /\ runtime'[t] = built[t]
        /\ \A u \in Tasks : u # t => built'[u] = built[u] /\ runtime'[u] = runtime[u]
    BY <1>1, <2>1 DEF KnownInv, StreamTypes, ActTypes
  <2> QED
    BY <1>2, <2>1, <2>2, ServedActs
<1> QED
  BY <1>3, <1>4, <1>5, <1>6 DEF Activate

LEMMA ServedInit ==
  ASSUME Init PROVE FeedInv /\ ServedInv
<1>1. /\ \A t \in Tasks : runtime[t].uses = <<>> /\ pc[Act(t)] = "idle"
      /\ \A s \in Tasks : status[s] = "none"
  BY ThreadFacts DEF Init, NoRuntime
<1>2. Range(<<>>) = {}
  BY DEF Range
<1> QED
  BY <1>1, <1>2, FeedInit DEF ServedInv, ClosedOnce

LEMMA ServedNext ==
  ASSUME OneChannel, FeedInv, ServedInv, [Next]_vars, [Undisturbed]_vars
  PROVE  FeedInv' /\ ServedInv'
<1>1. FeedInv'
  BY FeedNext
<1>2. CASE UNCHANGED vars
  <2>1. UNCHANGED <<status, dests, subs, runtime, work>>
    BY <1>2 DEF vars, streamVars, rtVars
  <2>2. Aside /\ RuntimesLess
    BY <1>2, <2>1, StutterAside DEF RuntimesLess
  <2>3. \A t \in Tasks : Converting(t) => Converting(t)'
    BY <2>1 DEF Converting
  <2>4. ServedInv'
    BY <2>1, <2>2, <2>3, ServedMoves
  <2> QED
    BY <1>1, <2>4
<1>3. CASE Undisturbed
  <2>1. CASE Others
    BY <1>1, <1>3, <2>1, ServedOthers
  <2>2. CASE \E t \in Tasks : Activate(t)
    BY <1>1, <2>2, ServedActivate
  <2> QED
    BY <2>1, <2>2, NextSplits
<1> QED
  BY <1>2, <1>3

LEMMA ServedIs ==
  ASSUME FeedInv, ServedInv PROVE RuntimeServed /\ ClosedOnce
<1>1. ChanInv /\ KnownInv
  BY DEF FeedInv, ReaderInv
<1>2. \A t \in Tasks : \A s \in Range(runtime[t].uses) : s \in Tasks
  BY <1>1 DEF KnownInv, StreamTypes, Runtimes, Range
<1> QED
  BY <1>1, <1>2 DEF ServedInv, RuntimeServed, Feeds, ChanInv

(* Where every request is for one channel, and nobody else leaves the      *)
(* stream that a task is just being moved on, every task with a runtime is *)
(* served: deactivateTask closes a stream only as its last user leaves.    *)
THEOREM EveryoneServed == OneChannel => (Spec /\ [][Undisturbed]_vars => []RuntimeServed)
<1> SUFFICES ASSUME OneChannel PROVE Spec /\ [][Undisturbed]_vars => []RuntimeServed
  OBVIOUS
<1>1. Init => FeedInv /\ ServedInv
  BY ServedInit
<1>2. FeedInv /\ ServedInv /\ [Next]_vars /\ [Undisturbed]_vars => FeedInv' /\ ServedInv'
  BY ServedNext
<1>3. FeedInv /\ ServedInv => RuntimeServed
  BY ServedIs
<1> QED
  BY <1>1, <1>2, <1>3, PTL DEF Spec

(* Under the same conditions no stream is closed twice.                    *)
THEOREM StreamsClosedOnce == OneChannel => (Spec /\ [][Undisturbed]_vars => []ClosedOnce)
<1> SUFFICES ASSUME OneChannel PROVE Spec /\ [][Undisturbed]_vars => []ClosedOnce
  OBVIOUS
<1>1. Init => FeedInv /\ ServedInv
  BY ServedInit
<1>2. FeedInv /\ ServedInv /\ [Next]_vars /\ [Undisturbed]_vars => FeedInv' /\ ServedInv'
  BY ServedNext
<1>3. FeedInv /\ ServedInv => ClosedOnce
  BY ServedIs
<1> QED
  BY <1>1, <1>2, <1>3, PTL DEF Spec

=============================================================================
