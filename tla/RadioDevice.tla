----------------------------- MODULE RadioDevice -----------------------------
(***************************************************************************)
(* The connections of the configured devices to their hardware: open(),    *)
(* with the discovery and the process-wide claims of entries that have no  *)
(* uri, close(), and the reopening after consecutive stream failures, as   *)
(* the start-up, the watchdog and the threads that open streams call them. *)
(*                                                                         *)
(* A session is one stream of a task or of a snapshot: opened and later    *)
(* closed under hw_activation_mu_, read in between with no lock.  A device *)
(* may have several: its channels are not told apart (Admission has them). *)
(* open() holds mu_ over several steps, for it enumerates and connects;    *)
(* every other section under mu_ is one step.                              *)
(* SoapySDR is external: make() gives all callers the same pointer for a   *)
(* unit that is open, and unmake() destroys it when the last one returns   *)
(* it.  Which of its calls throw is the choice of the environment.         *)
(***************************************************************************)
EXTENDS Naturals, FiniteSets

CONSTANTS
    Devices,     \* the entries of devices.xml
    Units,       \* the radios that may be plugged in
    NoUnit,
    Uri,         \* the unit an entry's uri names, NoUnit if it is empty
    Sessions,    \* the streams that are opened, once each
    DeviceOf,    \* the device of each
    Main,        \* the thread of openDevices and closeDevices
    Watchdog,
    Nobody,
    NoHandle,
    MaxFlakes,   \* bound: calls that throw although the unit is there
    MaxUnplugs   \* bound: how often a unit is unplugged

Threads == Sessions \cup {Main, Watchdog}

ASSUME ConstantsAssumption ==
    /\ Devices # {} /\ IsFiniteSet(Devices)
    /\ NoUnit \notin Units
    /\ NoHandle \notin Units \X Nat
    /\ Uri \in [Devices -> Units \cup {NoUnit}]
    /\ DeviceOf \in [Sessions -> Devices]
    /\ Main \notin Sessions /\ Watchdog \notin Sessions /\ Main # Watchdog
    /\ Nobody \notin Threads
    /\ MaxFlakes \in Nat /\ MaxUnplugs \in Nat

VARIABLES
    plugged,   \* the units that answer
    refs,      \* SoapySDR: how many make() calls hold each unit
    gen,       \* SoapySDR: how often each unit was created anew
    dev,       \* dev_
    online,    \* online_
    key,       \* claimed_key_
    claimed,   \* claimedUris()
    failures,  \* consecutive_stream_failures_
    mu,        \* the owner of mu_, between the steps of open()
    hw,        \* the owner of hw_activation_mu_
    stream,    \* the pointer each session's stream was set up on
    pc,        \* what each thread does next
    at,        \* on which device
    found,     \* open(): what enumerate() returned
    want,      \* open(): the unit its args name
    todo,      \* the devices Main has yet to open or to close
    flakes,    \* how many of the bounded faults have happened
    unplugs

worldVars == <<plugged, flakes, unplugs>>
libVars == <<refs, gen>>
devVars == <<dev, online, key, claimed, failures>>
openVars == <<found, want>>
vars == <<worldVars, libVars, devVars, mu, hw, stream, pc, at, openVars, todo>>

Init ==
    /\ plugged \in SUBSET Units
    /\ refs = [u \in Units |-> 0]
    /\ gen = [u \in Units |-> 0]
    /\ dev = [d \in Devices |-> NoHandle]
    /\ online = [d \in Devices |-> FALSE]
    /\ key = [d \in Devices |-> NoUnit]
    /\ claimed = {}
    /\ failures = [d \in Devices |-> 0]
    /\ mu = [d \in Devices |-> Nobody]
    /\ hw = Nobody
    /\ stream = [s \in Sessions |-> NoHandle]
    /\ pc = [p \in Threads |-> IF p = Main THEN "opening" ELSE "idle"]
    /\ at = [p \in Threads |-> IF p \in Sessions THEN DeviceOf[p] ELSE CHOOSE d \in Devices : TRUE]
    /\ found = [p \in Threads |-> {}]
    /\ want = [p \in Threads |-> NoUnit]
    /\ todo = Devices
    /\ flakes = 0
    /\ unplugs = 0

Goto(p, l) == pc' = [pc EXCEPT ![p] = l]
Free(d) == mu[d] = Nobody

(* A pointer that make() returned and whose unit was not destroyed since.  *)
Live(h) == h # NoHandle /\ refs[h[1]] > 0 /\ gen[h[1]] = h[2]

(* A call fails because the unit is gone, or for a reason of its own.      *)
Fails(u) ==
    \/ u \notin plugged /\ UNCHANGED flakes
    \/ flakes < MaxFlakes /\ flakes' = flakes + 1

(* make() of a unit.                                                       *)
Make(u) ==
    /\ refs' = [refs EXCEPT ![u] = @ + 1]
    /\ gen' = IF refs[u] = 0 THEN [gen EXCEPT ![u] = @ + 1] ELSE gen
Handle(u) == <<u, IF refs[u] = 0 THEN gen[u] + 1 ELSE gen[u]>>

(***************************************************************************)
(* open().                                                                 *)
(***************************************************************************)

(* Where a caller goes on when open() has returned.                        *)
Return(p) == Goto(p, IF p = Main THEN "opening" ELSE IF p = Watchdog THEN "idle" ELSE "failed")

(* Bug: the device is opened without a look at online_.                    *)
BugAlreadyOpen(d) == FALSE

AlreadyOpen(d) == online[d]

OpenEnter(p) ==
    LET d == at[p] IN
    /\ pc[p] = "open" /\ Free(d)
    /\ IF AlreadyOpen(d)
         THEN Return(p) /\ UNCHANGED <<mu, openVars>>
         ELSE /\ mu' = [mu EXCEPT ![d] = p]
              /\ want' = [want EXCEPT ![p] = Uri[d]]
              /\ Goto(p, IF Uri[d] = NoUnit THEN "enumerate" ELSE "make")
              /\ UNCHANGED found
    /\ UNCHANGED <<worldVars, libVars, devVars, hw, stream, at, todo>>

OpenEnumerate(p) ==
    /\ pc[p] = "enumerate"
    /\ found' = [found EXCEPT ![p] = plugged]
    /\ Goto(p, "claim")
    /\ UNCHANGED <<worldVars, libVars, devVars, mu, hw, stream, at, want, todo>>

(* Bug: the candidates are compared with the device's own claim only.      *)
BugUnclaimed(p) == found[p] \ {key[at[p]]}

Unclaimed(p) == found[p] \ claimed

(* The first candidate that nobody has claimed; if there is none, the args *)
(* name the driver alone.                                                  *)
OpenClaim(p) ==
    /\ pc[p] = "claim"
    /\ \/ \E u \in Unclaimed(p) :
            /\ key' = [key EXCEPT ![at[p]] = u]
            /\ claimed' = claimed \cup {u}
            /\ want' = [want EXCEPT ![p] = u]
       \/ Unclaimed(p) = {} /\ UNCHANGED <<key, claimed, want>>
    /\ found' = [found EXCEPT ![p] = {}]
    /\ Goto(p, "make")
    /\ UNCHANGED <<worldVars, libVars, dev, online, failures, mu, hw, stream, at, todo>>

(* The units that args with or without a uri may connect to.               *)
Reachable(u) == IF u = NoUnit THEN Units ELSE {u}
Targets(p) == Reachable(want[p])

OpenMake(p) ==
    LET d == at[p] IN
    /\ pc[p] = "make"
    /\ \E u \in Targets(p) \cap plugged :
         /\ Make(u)
         /\ dev' = [dev EXCEPT ![d] = Handle(u)]
    /\ online' = [online EXCEPT ![d] = TRUE]
    /\ mu' = [mu EXCEPT ![d] = Nobody]
    /\ want' = [want EXCEPT ![p] = NoUnit]
    /\ Return(p)
    /\ UNCHANGED <<worldVars, key, claimed, failures, hw, stream, at, found, todo>>

(* make() throws or finds nothing: the claim stays.                        *)
OpenFails(p) ==
    LET d == at[p] IN
    /\ pc[p] = "make"
    /\ \E u \in Targets(p) : Fails(u)
    /\ dev' = [dev EXCEPT ![d] = NoHandle]
    /\ mu' = [mu EXCEPT ![d] = Nobody]
    /\ want' = [want EXCEPT ![p] = NoUnit]
    /\ Return(p)
    /\ UNCHANGED <<plugged, unplugs, libVars, online, key, claimed, failures, hw, stream, at,
                   found, todo>>

(* getNumChannels throws: the pointer is dropped and the unit stays made.  *)
OpenThrows(p) ==
    LET d == at[p] IN
    /\ pc[p] = "make"
    /\ \E u \in Targets(p) \cap plugged : Make(u) /\ Fails(u)
    /\ dev' = [dev EXCEPT ![d] = NoHandle]
    /\ mu' = [mu EXCEPT ![d] = Nobody]
    /\ want' = [want EXCEPT ![p] = NoUnit]
    /\ Return(p)
    /\ UNCHANGED <<plugged, unplugs, online, key, claimed, failures, hw, stream, at, found,
                   todo>>

(***************************************************************************)
(* close().                                                                *)
(***************************************************************************)

(* Bug: online_ stays set.                                                 *)
BugClosed(d) == UNCHANGED online

Closed(d) == online' = [online EXCEPT ![d] = FALSE]

Close(d) ==
    IF ~online[d] THEN UNCHANGED <<libVars, dev, online, key, claimed>>
    ELSE /\ refs' = IF dev[d] = NoHandle THEN refs ELSE [refs EXCEPT ![dev[d][1]] = @ - 1]
         /\ dev' = [dev EXCEPT ![d] = NoHandle]
         /\ Closed(d)
         /\ claimed' = claimed \ {key[d]}
         /\ key' = [key EXCEPT ![d] = NoUnit]
         /\ UNCHANGED gen

(***************************************************************************)
(* Start-up, watchdog and shutdown.                                        *)
(***************************************************************************)
OpenDevice(d) ==
    /\ pc[Main] = "opening" /\ d \in todo
    /\ todo' = todo \ {d}
    /\ at' = [at EXCEPT ![Main] = d]
    /\ Goto(Main, "open")
    /\ UNCHANGED <<worldVars, libVars, devVars, mu, hw, stream, openVars>>

AllOpened ==
    /\ pc[Main] = "opening" /\ todo = {}
    /\ Goto(Main, "running")
    /\ UNCHANGED <<worldVars, libVars, devVars, mu, hw, stream, at, openVars, todo>>

(* Bug: a device that still has a claim is not tried again.                *)
BugToRetry(d) == ~online[d] /\ key[d] = NoUnit

ToRetry(d) == ~online[d]

(* isOnline() is read before open() takes mu_.                             *)
WatchdogRetry(d) ==
    /\ pc[Watchdog] = "idle" /\ pc[Main] = "running"
    /\ ToRetry(d)
    /\ at' = [at EXCEPT ![Watchdog] = d]
    /\ Goto(Watchdog, "open")
    /\ UNCHANGED <<worldVars, libVars, devVars, mu, hw, stream, openVars, todo>>

(* stop() joins the watchdog, closeDevices waits for the activations.      *)
StartClosing ==
    /\ pc[Main] = "running"
    /\ pc[Watchdog] = "idle"
    /\ \A s \in Sessions : pc[s] \in {"idle", "over"}
    /\ todo' = Devices
    /\ Goto(Main, "closing")
    /\ UNCHANGED <<worldVars, libVars, devVars, mu, hw, stream, at, openVars>>

CloseDevice(d) ==
    /\ pc[Main] = "closing" /\ d \in todo /\ Free(d)
    /\ Close(d)
    /\ todo' = todo \ {d}
    /\ UNCHANGED <<worldVars, failures, mu, hw, stream, pc, at, openVars>>

(***************************************************************************)
(* Streams.                                                                *)
(***************************************************************************)
Begin(s) ==
    /\ pc[s] = "idle" /\ pc[Main] = "running"
    /\ hw = Nobody /\ hw' = s
    /\ Goto(s, "setup")
    /\ UNCHANGED <<worldVars, libVars, devVars, mu, stream, at, openVars, todo>>

(* tune() refuses or throws; so does openRxStream() of an offline device.  *)
TuneFails(s) ==
    LET d == at[s] IN
    /\ pc[s] = "setup" /\ Free(d)
    /\ IF online[d] THEN Fails(dev[d][1]) ELSE UNCHANGED flakes
    /\ Goto(s, "failed")
    /\ UNCHANGED <<plugged, unplugs, libVars, devVars, mu, hw, stream, at, openVars, todo>>

SetupStream(s) ==
    LET d == at[s] IN
    /\ pc[s] = "setup" /\ Free(d)
    /\ online[d] /\ dev[d][1] \in plugged
    /\ stream' = [stream EXCEPT ![s] = dev[d]]
    /\ failures' = [failures EXCEPT ![d] = 0]
    /\ Goto(s, "activate")
    /\ UNCHANGED <<worldVars, libVars, dev, online, key, claimed, mu, hw, at, openVars, todo>>

(* Bug: the count is not reset when the device is reopened.                *)
BugCounted(n) == n + 1

Counted(n) == IF n + 1 >= 2 THEN 0 ELSE n + 1

(* setupStream throws: the second failure in a row reopens the device.     *)
SetupFails(s) ==
    LET d == at[s] IN
    /\ pc[s] = "setup" /\ Free(d)
    /\ online[d] /\ Fails(dev[d][1])
    /\ failures' = [failures EXCEPT ![d] = Counted(@)]
    /\ Goto(s, IF failures[d] + 1 >= 2 THEN "reopen" ELSE "failed")
    /\ UNCHANGED <<plugged, unplugs, libVars, dev, online, key, claimed, mu, hw, stream, at,
                   openVars, todo>>

(* reopen(): close() and open() take mu_ one after the other.              *)
Reopen(s) ==
    /\ pc[s] = "reopen" /\ Free(at[s])
    /\ Close(at[s])
    /\ Goto(s, "open")
    /\ UNCHANGED <<worldVars, failures, mu, hw, stream, at, openVars, todo>>

(* activateStream; the IQStreamer gets the pointer and is started.         *)
Activate(s) ==
    LET d == at[s] IN
    /\ pc[s] = "activate" /\ Free(d)
    /\ dev[d] # NoHandle /\ dev[d][1] \in plugged
    /\ hw' = Nobody
    /\ Goto(s, "streaming")
    /\ UNCHANGED <<worldVars, libVars, devVars, mu, stream, at, openVars, todo>>

ActivateFails(s) ==
    LET d == at[s] IN
    /\ pc[s] = "activate" /\ Free(d)
    /\ IF dev[d] = NoHandle THEN UNCHANGED flakes ELSE Fails(dev[d][1])
    /\ stream' = [stream EXCEPT ![s] = NoHandle]
    /\ Goto(s, "failed")
    /\ UNCHANGED <<plugged, unplugs, libVars, devVars, mu, hw, at, openVars, todo>>

GiveUp(s) ==
    /\ pc[s] = "failed"
    /\ hw' = Nobody
    /\ Goto(s, "over")
    /\ UNCHANGED <<worldVars, libVars, devVars, mu, stream, at, openVars, todo>>

(* The streamer is joined, the stream deactivated and closed.              *)
EndStream(s) ==
    /\ pc[s] = "streaming" /\ hw = Nobody /\ Free(at[s])
    /\ stream' = [stream EXCEPT ![s] = NoHandle]
    /\ Goto(s, "over")
    /\ UNCHANGED <<worldVars, libVars, devVars, mu, hw, at, openVars, todo>>

(***************************************************************************)
(* The environment, and the specification.                                 *)
(***************************************************************************)
Plug(u) ==
    /\ u \notin plugged
    /\ plugged' = plugged \cup {u}
    /\ UNCHANGED <<flakes, unplugs, libVars, devVars, mu, hw, stream, pc, at, openVars, todo>>

Unplug(u) ==
    /\ u \in plugged /\ unplugs < MaxUnplugs
    /\ plugged' = plugged \ {u}
    /\ unplugs' = unplugs + 1
    /\ UNCHANGED <<flakes, libVars, devVars, mu, hw, stream, pc, at, openVars, todo>>

Open(p) ==
    OpenEnter(p) \/ OpenEnumerate(p) \/ OpenClaim(p) \/ OpenMake(p) \/ OpenFails(p) \/ OpenThrows(p)

Session(s) ==
    \/ Begin(s) \/ TuneFails(s) \/ SetupStream(s) \/ SetupFails(s) \/ Reopen(s)
    \/ Activate(s) \/ ActivateFails(s) \/ GiveUp(s) \/ EndStream(s)

Next ==
    \/ \E p \in Threads : Open(p)
    \/ \E d \in Devices : OpenDevice(d) \/ WatchdogRetry(d) \/ CloseDevice(d)
    \/ AllOpened \/ StartClosing
    \/ \E s \in Sessions : Session(s)
    \/ \E u \in Units : Plug(u) \/ Unplug(u)

(* Threads go on with what they have begun; the watchdog ticks.  Nothing   *)
(* has to be plugged in, started, ended or stopped.                        *)
Fairness ==
    /\ \A p \in Threads : WF_vars(Open(p))
    /\ \A d \in Devices : WF_vars(OpenDevice(d)) /\ SF_vars(WatchdogRetry(d))
    /\ WF_vars(AllOpened)
    /\ \A s \in Sessions : WF_vars(Session(s) /\ pc[s] \notin {"idle", "streaming"})

Spec == Init /\ [][Next]_vars
FairSpec == Spec /\ Fairness

(***************************************************************************)
(* Properties.                                                             *)
(***************************************************************************)
OpenSteps == {"enumerate", "claim", "make"}

Labels == {"idle", "opening", "running", "closing", "open", "setup", "reopen", "activate",
           "failed", "streaming", "over"} \cup OpenSteps

(* Every variable has the type the code gives it.                          *)
TypeOK ==
    /\ plugged \subseteq Units
    /\ refs \in [Units -> Nat] /\ gen \in [Units -> Nat]
    /\ dev \in [Devices -> (Units \X Nat) \cup {NoHandle}]
    /\ online \in [Devices -> BOOLEAN]
    /\ key \in [Devices -> Units \cup {NoUnit}]
    /\ claimed \subseteq Units
    /\ failures \in [Devices -> 0 .. 1]
    /\ mu \in [Devices -> Threads \cup {Nobody}]
    /\ hw \in Sessions \cup {Nobody}
    /\ stream \in [Sessions -> (Units \X Nat) \cup {NoHandle}]
    /\ pc \in [Threads -> Labels]
    /\ at \in [Threads -> Devices]
    /\ found \in [Threads -> SUBSET Units]
    /\ want \in [Threads -> Units \cup {NoUnit}]
    /\ todo \subseteq Devices
    /\ flakes \in Nat /\ unplugs \in Nat

(* No two devices hold the claim of one unit, and a held claim is in the   *)
(* process-wide set: what the comparison in open() and the release in      *)
(* close() are for, whichever threads open devices and whatever fails.     *)
ClaimsExclusive ==
    \A d \in Devices : key[d] # NoUnit =>
        /\ key[d] \in claimed
        /\ \A e \in Devices \ {d} : key[e] # key[d]

(* mu_ is held across steps by the thread that is in open() of the device. *)
OpenerInv ==
    /\ \A d \in Devices : mu[d] # Nobody => at[mu[d]] = d /\ pc[mu[d]] \in OpenSteps
    /\ \A p \in Threads : pc[p] \in OpenSteps => mu[at[p]] = p

(* A device that is online is never made again: the watchdog and a reopen  *)
(* both find it offline before they take mu_, and open() looks once more.  *)
(* A second make() would leave a reference that no close() returns.        *)
OpenedOnce ==
    \A d \in Devices : mu[d] # Nobody => ~online[d]

(* A device that is online has a connection, and one that nobody else's    *)
(* close() has destroyed: tune, setupStream and the sensors rely on it.    *)
OnlineLive ==
    \A d \in Devices : online[d] => Live(dev[d])

(* dev_ is set while the device is online; it is the newest connection of  *)
(* its unit, and SoapySDR counts at least the devices that have one.       *)
Holders(u) == {d \in Devices : dev[d] # NoHandle /\ dev[d][1] = u}

ConnectionInv ==
    /\ \A d \in Devices : online[d] <=> dev[d] # NoHandle
    /\ \A d \in Devices : dev[d] # NoHandle => dev[d][2] = gen[dev[d][1]]
    /\ \A u \in Units : Cardinality(Holders(u)) <= refs[u]

(* The inductive invariant of the proofs.                                  *)
IInv == TypeOK /\ OpenerInv /\ OpenedOnce /\ ConnectionInv /\ ClaimsExclusive

(* While no shutdown begins, a device whose unit stays plugged in ends up  *)
(* online, whatever failed before: the watchdog's retries see to it.       *)
DevicesRecover ==
    \A d \in Devices :
        <>[](pc[Main] # "closing" /\ Reachable(Uri[d]) \subseteq plugged)
            => <>[](online[d] /\ Live(dev[d]))

(* A stream that is being read belongs to a connection that exists: "The   *)
(* device pointer is stable for the lifetime of RadioDevice" (readStream). *)
(* The code does not keep it: a reopen after two failures of other streams *)
(* of the device destroys the connection under its readers.                *)
ReadersValid ==
    \A s \in Sessions : pc[s] = "streaming" => Live(stream[s])

=============================================================================
