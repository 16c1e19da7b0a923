------------------------- MODULE RadioDevice_proofs -------------------------
(***************************************************************************)
(* Theorems about RadioDevice, for every value of its constants.           *)
(***************************************************************************)
EXTENDS RadioDevice, FiniteSetTheorems, TLAPS

USE ConstantsAssumption DEF Threads

(***************************************************************************)
(* The devices that have a connection to a unit.                           *)
(***************************************************************************)
LEMMA HoldersFinite == ASSUME NEW u PROVE IsFiniteSet(Holders(u)) /\ Cardinality(Holders(u)) \in Nat
<1>1. IsFiniteSet(Holders(u))
  BY FS_Subset DEF Holders
<1> QED BY <1>1, FS_CardinalityType

(* A connection whose unit is counted for one holder at least.             *)
LEMMA HoldersCount ==
    ASSUME NEW d \in Devices, dev[d] # NoHandle
    PROVE  Cardinality(Holders(dev[d][1])) >= 1
<1> DEFINE H == Holders(dev[d][1])
<1>1. d \in H
  BY DEF Holders
<1>2. Cardinality(H) # 0
  BY <1>1, HoldersFinite, FS_EmptySet
<1> QED BY <1>2, HoldersFinite

(* A unit that nobody counts has no holder.                                *)
LEMMA NoHolder ==
    ASSUME IInv, NEW u \in Units, refs[u] = 0, NEW d \in Devices, dev[d] # NoHandle
    PROVE  dev[d][1] # u
<1> SUFFICES ASSUME dev[d][1] = u PROVE FALSE
  OBVIOUS
<1>1. Cardinality(Holders(u)) >= 1 /\ Cardinality(Holders(u)) \in Nat
  BY HoldersCount, HoldersFinite
<1> QED BY <1>1 DEF IInv, ConnectionInv

(* A device without a connection gets one.                                 *)
LEMMA HoldersAdd ==
    ASSUME TypeOK, NEW d \in Devices, dev[d] = NoHandle, NEW u \in Units, NEW g \in Nat,
           dev' = [dev EXCEPT ![d] = <<u, g>>], NEW v \in Units
    PROVE  Cardinality(Holders(v)') = Cardinality(Holders(v)) + (IF v = u THEN 1 ELSE 0)
<1>1. dev' \in [Devices -> (Units \X Nat) \cup {NoHandle}] /\ dev'[d] # NoHandle /\ dev'[d][1] = u
  BY DEF TypeOK
<1>2. \A e \in Devices \ {d} : dev'[e] = dev[e]
  BY DEF TypeOK
<1>3. CASE v = u
  <2>1. Holders(v)' = Holders(v) \cup {d} /\ d \notin Holders(v)
    BY <1>1, <1>2, <1>3 DEF Holders
  <2> QED BY <2>1, <1>3, HoldersFinite, FS_AddElement
<1>4. CASE v # u
  <2>1. Holders(v)' = Holders(v)
    BY <1>1, <1>2, <1>4 DEF Holders
  <2> QED BY <2>1, <1>4, HoldersFinite
<1> QED BY <1>3, <1>4

(* A device gives its connection up.                                       *)
LEMMA HoldersRemove ==
    ASSUME TypeOK, NEW d \in Devices, dev[d] # NoHandle,
           dev' = [dev EXCEPT ![d] = NoHandle], NEW v \in Units
    PROVE  Cardinality(Holders(v)') = Cardinality(Holders(v)) - (IF v = dev[d][1] THEN 1 ELSE 0)
<1>1. dev'[d] = NoHandle /\ \A e \in Devices \ {d} : dev'[e] = dev[e]
  BY DEF TypeOK
<1>2. CASE v = dev[d][1]
  <2>1. Holders(v)' = Holders(v) \ {d} /\ d \in Holders(v)
    BY <1>1, <1>2 DEF Holders
  <2>2. IsFiniteSet(Holders(v))
    BY HoldersFinite
  <2>3. Cardinality(Holders(v) \ {d}) = Cardinality(Holders(v)) - 1
    BY <2>1, <2>2, FS_RemoveElement
  <2> QED BY <2>1, <2>3, <1>2
<1>3. CASE v # dev[d][1]
  <2>1. Holders(v)' = Holders(v)
    BY <1>1, <1>3 DEF Holders
  <2> QED BY <2>1, <1>3, HoldersFinite
<1> QED BY <1>2, <1>3

(***************************************************************************)
(* The parts of the invariant.                                             *)
(***************************************************************************)

(* The program starts in a state that satisfies the invariant.             *)
LEMMA InitInv == Init => IInv
<1> SUFFICES ASSUME Init PROVE IInv
  OBVIOUS
<1> USE DEF Init
<1>1. TypeOK
  <2>1. at \in [Threads -> Devices]
    <3>1. (CHOOSE d \in Devices : TRUE) \in Devices
      OBVIOUS
    <3> QED BY <3>1
  <2>2. pc \in [Threads -> Labels]
    BY DEF Labels
  <2> QED BY <2>1, <2>2 DEF TypeOK
<1>2. OpenerInv
  BY DEF OpenerInv, OpenSteps
<1>3. OpenedOnce
  BY DEF OpenedOnce
<1>4. ConnectionInv
  <2>1. \A u \in Units : Holders(u) = {}
    BY DEF Holders
  <2>2. \A u \in Units : Cardinality(Holders(u)) = 0 /\ refs[u] = 0
    BY <2>1, FS_EmptySet
  <2>3. \A d \in Devices : dev[d] = NoHandle /\ ~online[d]
    OBVIOUS
  <2> HIDE DEF Init
  <2> QED BY <2>2, <2>3 DEF ConnectionInv
<1>5. ClaimsExclusive
  BY DEF ClaimsExclusive
<1> QED BY <1>1, <1>2, <1>3, <1>4, <1>5 DEF IInv

(* A step that leaves the connections, the claims and mu_ alone, and that  *)
(* no thread in open() takes.                                              *)
LEMMA QuietStep ==
    ASSUME IInv, TypeOK', UNCHANGED <<refs, gen, dev, online, key, claimed, mu>>,
           \A p \in Threads : \/ pc'[p] = pc[p] /\ at'[p] = at[p]
                              \/ pc[p] \notin OpenSteps /\ pc'[p] \notin OpenSteps
    PROVE  IInv'
<1>1. OpenerInv'
  BY DEF IInv, OpenerInv, TypeOK
<1>2. OpenedOnce'
  BY DEF IInv, OpenedOnce
<1>3. ConnectionInv'
  BY DEF IInv, ConnectionInv, Holders
<1>4. ClaimsExclusive'
  BY DEF IInv, ClaimsExclusive
<1> QED BY <1>1, <1>2, <1>3, <1>4 DEF IInv

(* The caller of open() owns mu_, its device is offline and unconnected.   *)
LEMMA Opening ==
    ASSUME IInv, NEW p \in Threads, pc[p] \in OpenSteps
    PROVE  /\ at[p] \in Devices /\ mu[at[p]] = p /\ mu[at[p]] # Nobody
           /\ ~online[at[p]] /\ dev[at[p]] = NoHandle
BY DEF IInv, TypeOK, OpenerInv, OpenedOnce, ConnectionInv

(* The end of open() gives mu_ back.                                       *)
LEMMA LeaveOpen ==
    ASSUME IInv, NEW p \in Threads, pc[p] \in OpenSteps, Return(p),
           mu' = [mu EXCEPT ![at[p]] = Nobody], at' = at,
           \A d \in Devices \ {at[p]} : online'[d] = online[d]
    PROVE  OpenerInv' /\ OpenedOnce'
<1>1. /\ pc' \in [Threads -> Labels] /\ pc'[p] \notin OpenSteps
      /\ \A q \in Threads \ {p} : pc'[q] = pc[q]
  BY DEF Return, Goto, IInv, TypeOK, Labels, OpenSteps
<1>2. at[p] \in Devices /\ mu[at[p]] = p
  BY Opening
<1>3. mu'[at[p]] = Nobody /\ \A d \in Devices \ {at[p]} : mu'[d] = mu[d]
  BY <1>2 DEF IInv, TypeOK
<1>4. OpenerInv'
  BY <1>1, <1>2, <1>3 DEF IInv, OpenerInv, TypeOK
<1>5. OpenedOnce'
  BY <1>2, <1>3 DEF IInv, OpenedOnce
<1> QED BY <1>4, <1>5

(* make() counts one more user and returns the newest connection.          *)
LEMMA MakeFacts ==
    ASSUME IInv, NEW u \in Units, Make(u)
    PROVE  /\ refs' \in [Units -> Nat] /\ gen' \in [Units -> Nat]
           /\ refs'[u] = refs[u] + 1 /\ \A v \in Units \ {u} : refs'[v] = refs[v] /\ gen'[v] = gen[v]
           /\ Handle(u) = <<u, gen'[u]>>
           /\ \A d \in Devices : dev[d] # NoHandle => gen'[dev[d][1]] = gen[dev[d][1]]
<1>1. /\ refs' \in [Units -> Nat] /\ gen' \in [Units -> Nat]
      /\ refs'[u] = refs[u] + 1 /\ \A v \in Units \ {u} : refs'[v] = refs[v] /\ gen'[v] = gen[v]
      /\ Handle(u) = <<u, gen'[u]>>
  BY DEF IInv, TypeOK, Make, Handle
<1>2. ASSUME NEW d \in Devices, dev[d] # NoHandle PROVE gen'[dev[d][1]] = gen[dev[d][1]]
  <2>1. CASE refs[u] = 0
    <3>1. dev[d][1] # u
      BY <2>1, <1>2, NoHolder
    <3> QED BY <3>1, <1>1, <1>2 DEF IInv, TypeOK
  <2>2. CASE refs[u] # 0
    BY <2>2 DEF Make
  <2> QED BY <2>1, <2>2
<1> QED BY <1>1, <1>2

(***************************************************************************)
(* One lemma per action, or per group of actions that change the same:     *)
(* it preserves the inductive invariant.                                   *)
(***************************************************************************)
USE DEF vars, worldVars, libVars, devVars, openVars

LEMMA OpenEnterInv == ASSUME IInv, NEW p \in Threads, OpenEnter(p) PROVE IInv'
<1> DEFINE d == at[p]
<1> USE DEF IInv, Goto
<1>1. d \in Devices /\ pc[p] = "open" /\ mu[d] = Nobody
  BY DEF OpenEnter, Free, TypeOK
<1>2. CASE online[d]
  <2>1. TypeOK'
    BY <1>2 DEF OpenEnter, AlreadyOpen, Return, TypeOK, Labels
  <2>2. \A q \in Threads : \/ pc'[q] = pc[q] /\ at'[q] = at[q]
                           \/ pc[q] \notin OpenSteps /\ pc'[q] \notin OpenSteps
    BY <1>2 DEF OpenEnter, AlreadyOpen, Return, TypeOK, OpenSteps
  <2>3. UNCHANGED <<refs, gen, dev, online, key, claimed, mu>>
    BY <1>2 DEF OpenEnter, AlreadyOpen
  <2> QED BY <2>1, <2>2, <2>3, QuietStep
<1>3. CASE ~online[d]
  <2>1. /\ mu' = [mu EXCEPT ![d] = p] /\ at' = at
        /\ want' = [want EXCEPT ![p] = Uri[d]]
        /\ \E l \in {"enumerate", "make"} : pc' = [pc EXCEPT ![p] = l]
        /\ UNCHANGED <<plugged, flakes, unplugs, refs, gen, dev, online, key, claimed, failures,
                       hw, stream, found, todo>>
    BY <1>3 DEF OpenEnter, AlreadyOpen
  <2>2. TypeOK'
    BY <1>1, <2>1 DEF TypeOK, Labels, OpenSteps
  <2>3. pc'[p] \in OpenSteps /\ \A q \in Threads \ {p} : pc'[q] = pc[q]
    BY <2>1 DEF TypeOK, OpenSteps
  <2>4. mu'[d] = p /\ \A e \in Devices \ {d} : mu'[e] = mu[e]
    BY <1>1, <2>1 DEF TypeOK
  <2>5. OpenerInv'
    <3>1. \A q \in Threads \ {p} : pc[q] \in OpenSteps => at[q] # d
      BY <1>1 DEF OpenerInv
    <3>2. \A e \in Devices \ {d} : mu[e] # p
      BY <1>1 DEF OpenerInv
    <3> QED BY <1>1, <2>1, <2>3, <2>4, <3>1, <3>2 DEF OpenerInv, TypeOK
  <2>6. OpenedOnce'
    BY <1>3, <2>1, <2>4 DEF OpenedOnce
  <2>7. ConnectionInv' /\ ClaimsExclusive'
    BY <2>1 DEF ConnectionInv, Holders, ClaimsExclusive
  <2> QED BY <2>2, <2>5, <2>6, <2>7
<1> QED BY <1>2, <1>3

(* enumerate() and the claim: the thread stays in open().                  *)
LEMMA OpenEnumerateInv == ASSUME IInv, NEW p \in Threads, OpenEnumerate(p) PROVE IInv'
<1> USE DEF IInv, OpenEnumerate, Goto
<1>1. TypeOK'
  BY DEF TypeOK, Labels, OpenSteps
<1>2. OpenerInv'
  BY DEF OpenerInv, OpenSteps, TypeOK
<1>3. OpenedOnce' /\ ConnectionInv' /\ ClaimsExclusive'
  BY DEF OpenedOnce, ConnectionInv, Holders, ClaimsExclusive
<1> QED BY <1>1, <1>2, <1>3

LEMMA OpenClaimInv == ASSUME IInv, NEW p \in Threads, OpenClaim(p) PROVE IInv'
<1> USE DEF IInv, OpenClaim, Goto
<1>1. TypeOK'
  BY DEF TypeOK, Labels, OpenSteps, Unclaimed
<1>2. OpenerInv'
  BY DEF OpenerInv, OpenSteps, TypeOK
<1>3. OpenedOnce' /\ ConnectionInv'
  BY DEF OpenedOnce, ConnectionInv, Holders
<1>4. ClaimsExclusive'
  <2>1. CASE UNCHANGED <<key, claimed>>
    BY <2>1 DEF ClaimsExclusive
  <2>2. ASSUME NEW u \in Unclaimed(p), key' = [key EXCEPT ![at[p]] = u], claimed' = claimed \cup {u}
        PROVE  ClaimsExclusive'
    <3>1. at[p] \in Devices /\ u \notin claimed
      BY DEF TypeOK, Unclaimed
    <3>2. \A d \in Devices : key'[d] = IF d = at[p] THEN u ELSE key[d]
      BY <2>2, <3>1 DEF TypeOK
    <3>3. \A d \in Devices : key[d] # u
      BY <3>1 DEF ClaimsExclusive, Unclaimed, TypeOK
    <3> QED BY <2>2, <3>1, <3>2, <3>3 DEF ClaimsExclusive
  <2> QED BY <2>1, <2>2
<1> QED BY <1>1, <1>2, <1>3, <1>4

LEMMA OpenMakeInv == ASSUME IInv, NEW p \in Threads, OpenMake(p) PROVE IInv'
<1> DEFINE d == at[p]
<1> USE DEF IInv
<1>1. PICK u \in Units : Make(u) /\ dev' = [dev EXCEPT ![d] = Handle(u)]
  BY DEF OpenMake, Targets, Reachable, TypeOK
<1>2. pc[p] \in OpenSteps
  BY DEF OpenMake, OpenSteps
<1>3. d \in Devices /\ dev[d] = NoHandle
  BY <1>2, Opening
<1>4. /\ refs' \in [Units -> Nat] /\ gen' \in [Units -> Nat]
      /\ refs'[u] = refs[u] + 1 /\ \A v \in Units \ {u} : refs'[v] = refs[v] /\ gen'[v] = gen[v]
      /\ dev' = [dev EXCEPT ![d] = <<u, gen'[u]>>] /\ gen'[u] \in Nat
      /\ \A e \in Devices : dev[e] # NoHandle => gen'[dev[e][1]] = gen[dev[e][1]]
  BY <1>1, MakeFacts
<1>5. /\ online' = [online EXCEPT ![d] = TRUE] /\ mu' = [mu EXCEPT ![d] = Nobody] /\ Return(p)
      /\ want' = [want EXCEPT ![p] = NoUnit]
      /\ UNCHANGED <<plugged, flakes, unplugs, key, claimed, failures, hw, stream, at, found, todo>>
  BY DEF OpenMake
<1>6. TypeOK'
  <2>1. pc' \in [Threads -> Labels]
    BY <1>5 DEF TypeOK, Return, Goto, Labels
  <2>2. dev' \in [Devices -> (Units \X Nat) \cup {NoHandle}]
    BY <1>4 DEF TypeOK
  <2> QED BY <1>4, <1>5, <2>1, <2>2 DEF TypeOK
<1>7. OpenerInv' /\ OpenedOnce'
  BY <1>2, <1>5, LeaveOpen DEF TypeOK
<1>8. ConnectionInv'
  <2>1. <<u, gen'[u]>> # NoHandle /\ dev'[d] = <<u, gen'[u]>> /\ online'[d]
    BY <1>3, <1>4, <1>5 DEF TypeOK
  <2>2. \A e \in Devices \ {d} : dev'[e] = dev[e] /\ online'[e] = online[e]
    BY <1>4, <1>5 DEF TypeOK
  <2>3. ASSUME NEW v \in Units PROVE Cardinality(Holders(v)') <= refs'[v]
    <3>1. Cardinality(Holders(v)') = Cardinality(Holders(v)) + (IF v = u THEN 1 ELSE 0)
      BY <1>3, <1>4, HoldersAdd
    <3>2. refs'[v] = refs[v] + (IF v = u THEN 1 ELSE 0)
      BY <1>4 DEF TypeOK
    <3>3. Cardinality(Holders(v)) <= refs[v]
      BY DEF ConnectionInv
    <3> QED BY <3>1, <3>2, <3>3, HoldersFinite DEF TypeOK
  <2>4. \A e \in Devices : (online'[e] <=> dev'[e] # NoHandle)
    BY <2>1, <2>2 DEF ConnectionInv
  <2>5. \A e \in Devices : dev'[e] # NoHandle => dev'[e][2] = gen'[dev'[e][1]]
    BY <1>4, <2>1, <2>2 DEF ConnectionInv
  <2> QED BY <2>3, <2>4, <2>5 DEF ConnectionInv
<1>9. ClaimsExclusive'
  BY <1>5 DEF ClaimsExclusive
<1> QED BY <1>6, <1>7, <1>8, <1>9

LEMMA OpenFailsInv == ASSUME IInv, NEW p \in Threads, OpenFails(p) PROVE IInv'
<1> USE DEF IInv
<1>1. pc[p] \in OpenSteps /\ flakes' \in Nat
  BY DEF OpenFails, OpenSteps, Fails, TypeOK
<1>2. dev' = dev /\ at[p] \in Devices
  BY <1>1, Opening DEF OpenFails, TypeOK
<1>3. TypeOK'
  BY <1>1, <1>2 DEF OpenFails, Return, Goto, TypeOK, Labels
<1>4. OpenerInv' /\ OpenedOnce'
  BY <1>1, LeaveOpen DEF OpenFails
<1>5. ConnectionInv'
  <2>1. \A u \in Units : Holders(u)' = Holders(u)
    BY <1>2 DEF Holders
  <2>2. UNCHANGED <<refs, gen, online>>
    BY DEF OpenFails
  <2> QED BY <1>2, <2>1, <2>2 DEF ConnectionInv
<1>6. ClaimsExclusive'
  BY DEF OpenFails, ClaimsExclusive
<1> QED BY <1>3, <1>4, <1>5, <1>6

LEMMA OpenThrowsInv == ASSUME IInv, NEW p \in Threads, OpenThrows(p) PROVE IInv'
<1> USE DEF IInv
<1>1. pc[p] \in OpenSteps /\ flakes' \in Nat
  BY DEF OpenThrows, OpenSteps, Fails, TypeOK
<1>2. dev' = dev /\ at[p] \in Devices
  BY <1>1, Opening DEF OpenThrows, TypeOK
<1>3. PICK u \in Units : Make(u)
  BY DEF OpenThrows, Targets, Reachable, TypeOK
<1>4. TypeOK'
  BY <1>1, <1>2, <1>3, MakeFacts DEF OpenThrows, Return, Goto, TypeOK, Labels
<1>5. OpenerInv' /\ OpenedOnce'
  BY <1>1, LeaveOpen DEF OpenThrows
<1>6. ConnectionInv'
  <2>1. ASSUME NEW v \in Units PROVE Cardinality(Holders(v)') <= refs'[v]
    <3>1. Holders(v)' = Holders(v) /\ refs'[v] >= refs[v]
      BY <1>2, <1>3, MakeFacts DEF Holders, TypeOK
    <3>2. Cardinality(Holders(v)) <= refs[v] /\ refs[v] \in Nat /\ refs'[v] \in Nat
      BY <1>4 DEF ConnectionInv, TypeOK
    <3> QED BY <3>1, <3>2, HoldersFinite
  <2>2. online' = online
    BY DEF OpenThrows
  <2> QED BY <1>2, <1>3, <2>1, <2>2, MakeFacts DEF ConnectionInv
<1>7. ClaimsExclusive'
  BY DEF OpenThrows, ClaimsExclusive
<1> QED BY <1>4, <1>5, <1>6, <1>7

(* close() of a device that nobody opens.                                  *)
LEMMA CloseInv ==
    ASSUME IInv, NEW d \in Devices, Close(d), UNCHANGED <<mu>>
    PROVE  /\ refs' \in [Units -> Nat] /\ gen' \in [Units -> Nat]
           /\ dev' \in [Devices -> (Units \X Nat) \cup {NoHandle}]
           /\ online' \in [Devices -> BOOLEAN]
           /\ key' \in [Devices -> Units \cup {NoUnit}] /\ claimed' \subseteq Units
           /\ OpenedOnce' /\ ConnectionInv' /\ ClaimsExclusive'
<1> USE DEF IInv
<1>1. CASE ~online[d]
  BY <1>1 DEF Close, TypeOK, OpenedOnce, ConnectionInv, Holders, ClaimsExclusive
<1>2. CASE online[d]
  <2> DEFINE u == dev[d][1]
  <2>1. dev[d] # NoHandle /\ u \in Units
    BY <1>2 DEF ConnectionInv, TypeOK
  <2>2. Cardinality(Holders(u)) >= 1 /\ Cardinality(Holders(u)) <= refs[u] /\ refs[u] \in Nat
        /\ Cardinality(Holders(u)) \in Nat
    BY <2>1, HoldersCount, HoldersFinite DEF ConnectionInv, TypeOK
  <2>3. /\ refs' = [refs EXCEPT ![u] = @ - 1] /\ gen' = gen
        /\ dev' = [dev EXCEPT ![d] = NoHandle]
        /\ online' = [online EXCEPT ![d] = FALSE]
        /\ claimed' = claimed \ {key[d]} /\ key' = [key EXCEPT ![d] = NoUnit]
    BY <1>2, <2>1 DEF Close, Closed
  <2>4. refs' \in [Units -> Nat] /\ gen' \in [Units -> Nat]
    <3>1. refs[u] - 1 \in Nat
      BY <2>2
    <3>2. refs \in [Units -> Nat] /\ gen \in [Units -> Nat]
      BY DEF TypeOK
    <3> QED BY <2>3, <3>1, <3>2
  <2>5. /\ dev' \in [Devices -> (Units \X Nat) \cup {NoHandle}]
        /\ online' \in [Devices -> BOOLEAN]
        /\ key' \in [Devices -> Units \cup {NoUnit}] /\ claimed' \subseteq Units
    BY <2>3 DEF TypeOK
  <2>6. OpenedOnce'
    BY <2>3 DEF OpenedOnce, TypeOK
  <2>7. ConnectionInv'
    <3>1. ASSUME NEW v \in Units PROVE Cardinality(Holders(v)') <= refs'[v]
      <4>1. Cardinality(Holders(v)') = Cardinality(Holders(v)) - (IF v = u THEN 1 ELSE 0)
        BY <2>1, <2>3, HoldersRemove
      <4>2. refs'[v] = refs[v] - (IF v = u THEN 1 ELSE 0)
        BY <2>3 DEF TypeOK
      <4>3. Cardinality(Holders(v)) <= refs[v]
        BY DEF ConnectionInv
      <4> QED BY <4>1, <4>2, <4>3, HoldersFinite DEF TypeOK
    <3>2. dev'[d] = NoHandle /\ ~online'[d]
          /\ \A e \in Devices \ {d} : dev'[e] = dev[e] /\ online'[e] = online[e]
      BY <2>3 DEF TypeOK
    <3> QED BY <2>3, <3>1, <3>2 DEF ConnectionInv
  <2>8. ClaimsExclusive'
    <3>1. key'[d] = NoUnit /\ \A e \in Devices \ {d} : key'[e] = key[e]
      BY <2>3 DEF TypeOK
    <3> QED BY <2>3, <3>1 DEF ClaimsExclusive
  <2> QED BY <2>4, <2>5, <2>6, <2>7, <2>8
<1> QED BY <1>1, <1>2

LEMMA CloseDeviceInv == ASSUME IInv, NEW d \in Devices, CloseDevice(d) PROVE IInv'
<1> USE DEF CloseDevice
<1>1. TypeOK'
  BY CloseInv DEF IInv, TypeOK
<1>2. OpenerInv'
  BY DEF IInv, OpenerInv
<1> QED BY <1>1, <1>2, CloseInv DEF IInv

LEMMA ReopenInv == ASSUME IInv, NEW s \in Sessions, Reopen(s) PROVE IInv'
<1> USE DEF Reopen, Goto
<1>1. at[s] \in Devices
  BY DEF IInv, TypeOK
<1>2. TypeOK'
  BY <1>1, CloseInv DEF IInv, TypeOK, Labels
<1>3. OpenerInv'
  BY DEF IInv, OpenerInv, TypeOK, OpenSteps
<1> QED BY <1>1, <1>2, <1>3, CloseInv DEF IInv

(* The steps of the main thread and of the watchdog that open nothing yet. *)
LEMMA ServiceInv ==
    ASSUME IInv, AllOpened \/ StartClosing \/ \E d \in Devices : OpenDevice(d) \/ WatchdogRetry(d)
    PROVE  IInv'
<1> USE DEF IInv, AllOpened, StartClosing, OpenDevice, WatchdogRetry, Goto
<1>1. TypeOK'
  BY DEF TypeOK, Labels
<1>2. \A p \in Threads : \/ pc'[p] = pc[p] /\ at'[p] = at[p]
                         \/ pc[p] \notin OpenSteps /\ pc'[p] \notin OpenSteps
  BY DEF TypeOK, OpenSteps
<1>3. UNCHANGED <<refs, gen, dev, online, key, claimed, mu>>
  OBVIOUS
<1> QED BY <1>1, <1>2, <1>3, QuietStep

(* The steps of a stream that leave the connection alone.                  *)
LEMMA StreamInv ==
    ASSUME IInv, NEW s \in Sessions,
           \/ Begin(s) \/ TuneFails(s) \/ SetupStream(s) \/ SetupFails(s)
           \/ Activate(s) \/ ActivateFails(s) \/ GiveUp(s) \/ EndStream(s)
    PROVE  IInv'
<1> USE DEF IInv, Goto
<1> USE DEF Begin, TuneFails, SetupStream, SetupFails, Activate, ActivateFails, GiveUp, EndStream
<1>1. TypeOK'
  <2>1. s \in Threads /\ at[s] \in Devices
    BY DEF TypeOK
  <2>2. flakes' \in Nat
    BY DEF TypeOK, Fails
  <2>3. failures' \in [Devices -> 0 .. 1]
    BY <2>1 DEF TypeOK, Counted
  <2>4. pc' \in [Threads -> Labels]
    BY <2>1 DEF TypeOK, Labels
  <2>5. stream' \in [Sessions -> (Units \X Nat) \cup {NoHandle}]
    BY <2>1 DEF TypeOK
  <2>6. hw' \in Sessions \cup {Nobody}
    BY DEF TypeOK
  <2>7. UNCHANGED <<plugged, unplugs, refs, gen, dev, online, key, claimed, mu, at, found, want, todo>>
    OBVIOUS
  <2> QED BY <2>2, <2>3, <2>4, <2>5, <2>6, <2>7 DEF TypeOK
<1>2. \A p \in Threads : \/ pc'[p] = pc[p] /\ at'[p] = at[p]
                         \/ pc[p] \notin OpenSteps /\ pc'[p] \notin OpenSteps
  BY DEF TypeOK, OpenSteps
<1>3. UNCHANGED <<refs, gen, dev, online, key, claimed, mu>>
  OBVIOUS
<1> QED BY <1>1, <1>2, <1>3, QuietStep

LEMMA WorldInv == ASSUME IInv, NEW u \in Units, Plug(u) \/ Unplug(u) PROVE IInv'
<1> USE DEF IInv, Plug, Unplug
<1>1. TypeOK'
  BY DEF TypeOK
<1>2. UNCHANGED <<refs, gen, dev, online, key, claimed, mu, pc, at>>
  OBVIOUS
<1> QED BY <1>1, <1>2, QuietStep

(* No step leaves the invariant.                                           *)
LEMMA NextInv == ASSUME IInv, [Next]_vars PROVE IInv'
<1>1. ASSUME NEW p \in Threads, Open(p) PROVE IInv'
  BY <1>1, OpenEnterInv, OpenEnumerateInv, OpenClaimInv, OpenMakeInv, OpenFailsInv, OpenThrowsInv
     DEF Open
<1>2. ASSUME NEW d \in Devices, OpenDevice(d) \/ WatchdogRetry(d) \/ CloseDevice(d) PROVE IInv'
  BY <1>2, ServiceInv, CloseDeviceInv
<1>3. CASE AllOpened \/ StartClosing
  BY <1>3, ServiceInv
<1>4. ASSUME NEW s \in Sessions, Session(s) PROVE IInv'
  BY <1>4, StreamInv, ReopenInv DEF Session
<1>5. ASSUME NEW u \in Units, Plug(u) \/ Unplug(u) PROVE IInv'
  BY <1>5, WorldInv
<1>6. CASE UNCHANGED vars
  BY <1>6, QuietStep DEF IInv, TypeOK
<1> QED BY <1>1, <1>2, <1>3, <1>4, <1>5, <1>6 DEF Next

(* The connections that the invariant counts exist.                        *)
LEMMA InvGivesLive == IInv => OnlineLive
<1> SUFFICES ASSUME IInv, NEW d \in Devices, online[d] PROVE Live(dev[d])
  BY DEF OnlineLive
<1>1. dev[d] # NoHandle /\ dev[d][1] \in Units /\ dev[d][2] = gen[dev[d][1]]
  BY DEF IInv, ConnectionInv, TypeOK
<1>2. Cardinality(Holders(dev[d][1])) >= 1 /\ Cardinality(Holders(dev[d][1])) \in Nat
  BY <1>1, HoldersCount, HoldersFinite
<1>3. refs[dev[d][1]] > 0
  BY <1>1, <1>2 DEF IInv, ConnectionInv, TypeOK
<1> QED BY <1>1, <1>3 DEF Live

(***************************************************************************)
(* The theorems.                                                           *)
(***************************************************************************)

(* The inductive invariant holds in every reachable state.                 *)
THEOREM InvariantHolds == Spec => []IInv
<1>1. IInv /\ [Next]_vars => IInv'
  BY NextInv
<1> QED BY InitInv, <1>1, PTL DEF Spec

(* Every variable keeps its type; SoapySDR's counts never go below zero.   *)
THEOREM TypeCorrect == Spec => []TypeOK
<1>1. IInv => TypeOK
  BY DEF IInv
<1> QED BY InvariantHolds, <1>1, PTL

(* Claims are exclusive, for any number of devices, units and threads.     *)
THEOREM ClaimsAreExclusive == Spec => []ClaimsExclusive
<1>1. IInv => ClaimsExclusive
  BY DEF IInv
<1> QED BY InvariantHolds, <1>1, PTL

(* No thread is past open()'s check of a device that is online.            *)
THEOREM OpenedOnlyOnce == Spec => []OpenedOnce
<1>1. IInv => OpenedOnce
  BY DEF IInv
<1> QED BY InvariantHolds, <1>1, PTL

(* An online device has a live connection, however many entries share a    *)
(* unit and whatever was leaked.                                           *)
THEOREM OnlineIsLive == Spec => []OnlineLive
BY InvariantHolds, InvGivesLive, PTL

=============================================================================
