----------------------- MODULE TaskLifecycle_proofs -----------------------
(***************************************************************************)
(* Theorems about TaskLifecycle, for every value of its constants.         *)
(***************************************************************************)
EXTENDS TaskLifecycle, FiniteSetTheorems, TLAPS

(* The threads are told apart by their kind.                               *)
LEMMA ThreadFacts ==
    /\ Amqp \in Services /\ Watchdog \in Services /\ Main \in Services
    /\ Amqp # Watchdog /\ Amqp # Main /\ Watchdog # Main
    /\ Services \subseteq Threads /\ Acts \subseteq Threads
    /\ Execs \subseteq Threads /\ Errs \subseteq Threads
    /\ NoThread \notin Threads
    /\ \A p \in Services : p \notin Acts /\ p \notin Execs /\ p \notin Errs
    /\ \A a \in Acts : a[2] \in Tasks /\ a \notin Execs /\ a \notin Errs /\ a \notin Services
    /\ \A a \in Acts : ExecOf(a) \in Execs /\ ExecOf(a)[2] = a[2]
    /\ \A x \in Execs : x[2] \in Tasks /\ x \notin Services
    /\ \A e \in Errs : e[2] \in Tasks /\ e \notin Services /\ e \notin Acts /\ e \notin Execs
<1> USE ConstantsAssumption DEF Threads, Services, Acts, Execs, Errs, Amqp, Watchdog, Main, NoThread
<1>1. /\ Amqp \in Services /\ Watchdog \in Services /\ Main \in Services
      /\ Amqp # Watchdog /\ Amqp # Main /\ Watchdog # Main
      /\ Services \subseteq Threads /\ Acts \subseteq Threads
      /\ Execs \subseteq Threads /\ Errs \subseteq Threads
  OBVIOUS
<1>2. NoThread \notin Threads
  OBVIOUS
<1>3. \A p \in Services : p \notin Acts /\ p \notin Execs /\ p \notin Errs
  OBVIOUS
<1>4. \A a \in Acts : a[2] \in Tasks /\ a \notin Execs /\ a \notin Errs /\ a \notin Services
  OBVIOUS
<1>5. \A a \in Acts : ExecOf(a) \in Execs /\ ExecOf(a)[2] = a[2]
  BY DEF ExecOf
<1>6. \A x \in Execs : x[2] \in Tasks /\ x \notin Services
  OBVIOUS
<1>7. \A e \in Errs : e[2] \in Tasks /\ e \notin Services /\ e \notin Acts /\ e \notin Execs
  OBVIOUS
<1> QED BY <1>1, <1>2, <1>3, <1>4, <1>5, <1>6, <1>7

(* The program starts in a state that satisfies the invariant.             *)
LEMMA InitInv == Init => IInv
<1> SUFFICES ASSUME Init PROVE IInv
  OBVIOUS
<1> USE ThreadFacts, ConstantsAssumption DEF Init, Pool!Init
<1>1. TypeOK
  <2>1. arg \in [Threads -> Tasks \cup {NoTask}]
    BY DEF Threads
  <2>2. pc \in [Threads -> Labels]
    BY DEF Labels
  <2> QED BY <2>1, <2>2 DEF TypeOK
<1>2. CallsInv
  BY DEF CallsInv, InCall
<1>3. OneFirst
  BY DEF OneFirst
<1>4. KnownInv
  BY DEF KnownInv, Active, Terminal, Admitting
<1>5. Dormant
  BY DEF Dormant
<1>6. PortsInv
  BY DEF PortsInv, PortAccounting
<1> QED BY <1>1, <1>2, <1>3, <1>4, <1>5, <1>6 DEF IInv

(* countByState returns a number.                                         *)
LEMMA CountType == ASSUME NEW s PROVE CountByState(s) \in Nat
<1>1. IsFiniteSet({t \in Tasks : state[t] = s})
  BY ConstantsAssumption, FS_Subset
<1> QED BY <1>1, FS_CardinalityType DEF CountByState

(* What a thread has done when its deactivateTask call returns.            *)
LEMMA ReturnedFacts ==
    ASSUME TypeOK, NEW p \in Threads, Returned(p)
    PROVE  /\ pc' \in [Threads -> Labels] /\ pc'[p] = Caller(p)
           /\ arg' \in [Threads -> Tasks \cup {NoTask}]
           /\ arg'[p] = IF p \in Services THEN NoTask ELSE arg[p]
           /\ first' \in [Threads -> BOOLEAN] /\ ~first'[p]
           /\ \A q \in Threads \ {p} : pc'[q] = pc[q] /\ arg'[q] = arg[q] /\ first'[q] = first[q]
           /\ Caller(p) \in {"done", "each", "retry", "idle"}
           /\ Caller(p) = "done" <=> p \notin Services
           /\ Caller(p) = "retry" => p = Amqp /\ accepting # NoTask
<1>1. /\ Caller(p) \in {"done", "each", "retry", "idle"}
      /\ Caller(p) = "retry" => p = Amqp /\ accepting # NoTask
  BY DEF Caller
<1>2. Caller(p) = "done" <=> p \notin Services
  BY DEF Caller
<1>3. pc' = [pc EXCEPT ![p] = Caller(p)] /\ first' = [first EXCEPT ![p] = FALSE]
  BY DEF Returned, Goto
<1>4. arg' = [arg EXCEPT ![p] = IF p \in Services THEN NoTask ELSE arg[p]]
  BY DEF Returned
<1>5. pc' \in [Threads -> Labels] /\ first' \in [Threads -> BOOLEAN]
  BY <1>1, <1>3 DEF TypeOK, Labels
<1>6. CASE p \in Services
  BY <1>1, <1>3, <1>4, <1>5, <1>6, <1>2 DEF TypeOK
<1>7. CASE p \notin Services
  BY <1>1, <1>3, <1>4, <1>5, <1>7, <1>2 DEF TypeOK
<1> QED BY <1>6, <1>7

(* What is known when a thread calls deactivateTask.                       *)
LEMMA CallsFacts ==
    ASSUME IInv, NEW p \in Threads, NEW t \in Tasks, Calls(p, t)
    PROVE  /\ pc[p] \in {"each", "claim"} /\ ~first[p] /\ state[t] # "absent"
           /\ arg' \in [Threads -> Tasks \cup {NoTask}]
           /\ arg'[p] = t /\ (p \notin Services => p[2] = t)
           /\ \A q \in Threads \ {p} : arg'[q] = arg[q]
           /\ queue' \in [Services -> SUBSET Tasks]
           /\ \A q \in Services : queue'[q] \subseteq queue[q]
<1> USE DEF IInv
<1>1. pc[p] \in {"each", "claim"} /\ ~first[p]
  BY DEF Calls, CallsInv
<1>2. CASE /\ pc[p] = "each" /\ t \in queue[p]
           /\ queue' = [queue EXCEPT ![p] = @ \ {t}] /\ arg' = [arg EXCEPT ![p] = t]
  <2>1. p \in Services /\ state[t] # "absent"
    BY <1>2 DEF CallsInv, KnownInv
  <2> QED BY <1>1, <1>2, <2>1 DEF TypeOK
<1>3. CASE pc[p] = "claim" /\ t = arg[p] /\ UNCHANGED <<queue, arg>>
  <2>1. p \notin Services /\ p[2] = t
    BY <1>3 DEF CallsInv
  <2>2. state[t] # "absent"
    BY <1>3, <2>1 DEF KnownInv
  <2> QED BY <1>1, <1>3, <2>1, <2>2 DEF TypeOK
<1> QED BY <1>2, <1>3 DEF Calls

(* Each activation has an executor of its own.                             *)
LEMMA ExecOfInjective == \A a, b \in Acts : ExecOf(a) = ExecOf(b) => a = b
BY DEF Acts, ExecOf

(***************************************************************************)
(* One lemma per action: it preserves the inductive invariant.             *)
(***************************************************************************)
USE ThreadFacts DEF IInv, Goto, regVars, poolVars, hwVars, callVars, amqpVars, Active, Terminal

(* deactivateTask, the first caller claims the task.                       *)
LEMMA ClaimTerminalInv == ASSUME IInv, NEW p \in Threads, NEW t \in Tasks, ClaimTerminal(p, t) PROVE IInv'
<1>1. TypeOK'
  <2>1. state' \in [Tasks -> {"absent"} \cup Active \cup Terminal]
    BY DEF ClaimTerminal, Goals, TypeOK
  <2>2. pc' \in [Threads -> Labels] /\ first' \in [Threads -> BOOLEAN]
    BY DEF ClaimTerminal, TypeOK, Labels
  <2>3. Calls(p, t)
    BY DEF ClaimTerminal
  <2> QED BY <2>1, <2>2, <2>3, CallsFacts DEF ClaimTerminal, TypeOK
<1>2. CallsInv'
  <2>1. Calls(p, t) /\ slot' = slot /\ slot[t]
    BY CallsFacts DEF ClaimTerminal, KnownInv, TypeOK
  <2>2. state'[t] \in Terminal /\ \A u \in Tasks \ {t} : state'[u] = state[u]
    BY DEF ClaimTerminal, Goals, TypeOK
  <2>3. /\ pc'[p] = "teardown" /\ first'[p]
        /\ \A q \in Threads \ {p} : pc'[q] = pc[q] /\ first'[q] = first[q]
    BY DEF ClaimTerminal, TypeOK
  <2> QED BY <2>1, <2>2, <2>3, CallsFacts DEF CallsInv, InCall
<1>3. OneFirst'
  <2>1. \A q \in Threads : first[q] => arg[q] # t
    BY DEF ClaimTerminal, CallsInv, InCall
  <2>2. Calls(p, t) /\ \A q \in Threads \ {p} : first'[q] = first[q]
    BY DEF ClaimTerminal, TypeOK
  <2> QED BY <2>1, <2>2, CallsFacts DEF OneFirst
<1>4. KnownInv'
  <2>1. Calls(p, t) /\ state[t] \notin Terminal
    BY DEF ClaimTerminal
  <2>2. state'[t] \in Terminal /\ \A u \in Tasks \ {t} : state'[u] = state[u]
    BY DEF ClaimTerminal, Goals, TypeOK
  <2>3. pc'[p] = "teardown" /\ \A q \in Threads \ {p} : pc'[q] = pc[q]
    BY DEF ClaimTerminal, TypeOK
  <2>4. UNCHANGED <<slot, runtime, published, accepting>>
    BY DEF ClaimTerminal
  <2>5. \A u \in Tasks :
          /\ state'[u] \in Active => slot'[u]
          /\ state'[u] = "absent" => ~slot'[u] /\ runtime'[u] = NoThread
          /\ published'[u] \in Terminal => published'[u] = state'[u]
    BY <2>1, <2>2, <2>4 DEF KnownInv, TypeOK
  <2>6. \A u \in Tasks : state'[u] = "absent" <=> state[u] = "absent"
    BY <2>1, <2>2, CallsFacts
  <2>7. /\ \A q \in Services : \A u \in queue'[q] : state'[u] # "absent"
        /\ \A q \in Threads \ Services : pc'[q] # "idle" => state'[q[2]] # "absent"
    <3>1. \A q \in Threads : pc'[q] # "idle" => pc[q] # "idle"
      BY <2>1, <2>3, CallsFacts
    <3>2. \A q \in Threads \ Services : q[2] \in Tasks
      BY DEF Threads
    <3> QED BY <2>1, <2>6, <3>1, <3>2, CallsFacts DEF KnownInv, TypeOK
  <2>8. /\ pc'[Amqp] \in Admitting => accepting' \in Tasks
        /\ accepting' # NoTask /\ pc'[Amqp] # "announce" => state'[accepting'] = "absent"
    BY <2>1, <2>3, <2>4, <2>6, CallsFacts DEF KnownInv, TypeOK, Admitting
  <2> QED BY <2>5, <2>7, <2>8 DEF KnownInv
<1>5. Dormant'
  BY DEF ClaimTerminal, Calls, Goals, TypeOK, Dormant
<1>6. PortsInv'
  BY DEF ClaimTerminal, PortsInv, ClientsKeepOut, PortAccounting
<1> QED BY <1>1, <1>2, <1>3, <1>4, <1>5, <1>6

(* deactivateTask, a later caller finds it ended.                          *)
LEMMA ClaimLateInv == ASSUME IInv, NEW p \in Threads, NEW t \in Tasks, ClaimLate(p, t) PROVE IInv'
<1>1. TypeOK'
  <2>1. pc' \in [Threads -> Labels] /\ Calls(p, t)
    BY DEF ClaimLate, TypeOK, Labels
  <2> QED BY <2>1, CallsFacts DEF ClaimLate, TypeOK
<1>2. CallsInv'
  <2>1. Calls(p, t) /\ state[t] \in Terminal /\ UNCHANGED <<state, slot, runtime, published, first, accepting>>
    BY DEF ClaimLate
  <2>2. pc'[p] = "orphan" /\ \A q \in Threads \ {p} : pc'[q] = pc[q]
    BY DEF ClaimLate, TypeOK
  <2> QED BY <2>1, <2>2, CallsFacts DEF CallsInv, InCall
<1>3. OneFirst'
  <2>1. Calls(p, t) /\ state[t] \in Terminal /\ UNCHANGED <<state, slot, runtime, published, first, accepting>>
    BY DEF ClaimLate
  <2>2. pc'[p] = "orphan" /\ \A q \in Threads \ {p} : pc'[q] = pc[q]
    BY DEF ClaimLate, TypeOK
  <2> QED BY <2>1, <2>2, CallsFacts DEF OneFirst
<1>4. KnownInv'
  <2>1. Calls(p, t) /\ UNCHANGED <<state, slot, runtime, published, accepting>>
    BY DEF ClaimLate
  <2>2. pc'[p] = "orphan" /\ \A q \in Threads \ {p} : pc'[q] = pc[q]
    BY DEF ClaimLate, TypeOK
  <2>3. \A q \in Threads : pc'[q] # "idle" => pc[q] # "idle"
    BY <2>1, <2>2, CallsFacts
  <2>4. \A q \in Services : \A u \in queue'[q] : state'[u] # "absent"
    BY <2>1, CallsFacts DEF KnownInv
  <2>5. /\ pc'[Amqp] \in Admitting => accepting' \in Tasks
        /\ accepting' # NoTask /\ pc'[Amqp] # "announce" => state'[accepting'] = "absent"
    BY <2>1, <2>2, CallsFacts DEF KnownInv, Admitting
  <2> QED BY <2>1, <2>3, <2>4, <2>5 DEF KnownInv
<1>5. Dormant'
  BY DEF ClaimLate, Calls, TypeOK, Dormant
<1>6. PortsInv'
  BY DEF ClaimLate, PortsInv, ClientsKeepOut, PortAccounting
<1> QED BY <1>1, <1>2, <1>3, <1>4, <1>5, <1>6

(* deactivateTask, a later caller looks for a runtime.                     *)
LEMMA CheckOrphanInv == ASSUME IInv, NEW p \in Threads, CheckOrphan(p) PROVE IInv'
<1>1. TypeOK'
  <2>1. CASE Returned(p)
    BY <2>1, ReturnedFacts DEF CheckOrphan, TypeOK
  <2>2. CASE Goto(p, "teardown") /\ UNCHANGED <<arg, first>>
    BY <2>2 DEF CheckOrphan, TypeOK, Labels
  <2> QED BY <2>1, <2>2 DEF CheckOrphan
<1>2. CallsInv'
  <2>1. pc[p] = "orphan" /\ state' = state /\ slot' = slot /\ arg[p] \in Tasks /\ state[arg[p]] \in Terminal /\ ~first[p]
    BY DEF CheckOrphan, CallsInv, InCall
  <2>2. CASE Returned(p)
    BY <2>1, <2>2, ReturnedFacts DEF CallsInv, InCall
  <2>3. CASE Goto(p, "teardown") /\ UNCHANGED <<arg, first>>
    BY <2>1, <2>3 DEF CallsInv, InCall, TypeOK
  <2> QED BY <2>2, <2>3 DEF CheckOrphan
<1>3. OneFirst'
  BY DEF CheckOrphan, Returned, TypeOK, OneFirst
<1>4. KnownInv'
  <2>1. pc[p] = "orphan" /\ \A q \in Threads \ {p} : pc'[q] = pc[q]
    BY DEF CheckOrphan, Returned, TypeOK
  <2>2. pc'[p] \in {"teardown", Caller(p)}
    BY DEF CheckOrphan, Returned, TypeOK
  <2>3. UNCHANGED <<state, slot, runtime, published, accepting, queue>>
    BY DEF CheckOrphan
  <2>4. \A u \in Tasks :
          /\ state'[u] \in Active => slot'[u]
          /\ state'[u] = "absent" => ~slot'[u] /\ runtime'[u] = NoThread
          /\ published'[u] \in Terminal => published'[u] = state'[u]
    BY <2>3 DEF KnownInv
  <2>5. /\ \A q \in Services : \A u \in queue'[q] : state'[u] # "absent"
        /\ \A q \in Threads \ Services : pc'[q] # "idle" => state'[q[2]] # "absent"
    BY <2>1, <2>3 DEF KnownInv
  <2>6. p = Amqp => pc'[p] \in {"teardown", "each", "idle", "retry"} /\ (pc'[p] = "retry" => accepting # NoTask)
    BY <2>2 DEF Caller
  <2>7. /\ pc'[Amqp] \in Admitting => accepting' \in Tasks
        /\ accepting' # NoTask /\ pc'[Amqp] # "announce" => state'[accepting'] = "absent"
    BY <2>1, <2>3, <2>6 DEF KnownInv, TypeOK, Admitting
  <2> QED BY <2>4, <2>5, <2>7 DEF KnownInv
<1>5. Dormant'
  BY DEF CheckOrphan, Returned, Caller, TypeOK, Dormant
<1>6. PortsInv'
  BY DEF CheckOrphan, PortsInv, ClientsKeepOut, PortAccounting
<1> QED BY <1>1, <1>2, <1>3, <1>4, <1>5, <1>6

(* deactivateTask, the runtime is closed and erased.                       *)
LEMMA TeardownInv == ASSUME IInv, NEW p \in Threads, Teardown(p) PROVE IInv'
<1>1. TypeOK'
  <2>1. AfterTeardown(p) \in Labels /\ "join" \in Labels
    BY DEF AfterTeardown, Labels
  <2>2. pc' \in [Threads -> Labels]
    BY <2>1 DEF Teardown, TypeOK
  <2>3. runtime[arg[p]] \in Acts \cup {NoThread}
    BY DEF Teardown, CallsInv, InCall, TypeOK
  <2>4. CASE runtime[arg[p]] = NoThread
    BY <2>2, <2>4 DEF Teardown, TypeOK
  <2>5. CASE runtime[arg[p]] \in Acts
    <3> DEFINE a == runtime[arg[p]]
    <3>1. /\ runtime' = [runtime EXCEPT ![arg[p]] = NoThread]
          /\ opened' = [opened EXCEPT ![a] = 0]
          /\ joins' = joins \/ joins' = [joins EXCEPT ![p] = ExecOf(a)]
      BY <2>5 DEF Teardown
    <3>2. runtime' \in [Tasks -> Acts \cup {NoThread}] /\ opened' \in [Acts -> Nat]
      BY <3>1 DEF TypeOK
    <3>3. joins' \in [Threads -> Execs \cup {NoThread}]
      BY <2>5, <3>1 DEF TypeOK
    <3> QED BY <2>2, <3>2, <3>3 DEF Teardown, TypeOK
  <2> QED BY <2>3, <2>4, <2>5
<1>2. CallsInv'
  BY DEF Teardown, AfterTeardown, TypeOK, CallsInv, InCall
<1>3. OneFirst'
  BY DEF Teardown, OneFirst
<1>4. KnownInv'
  BY DEF Teardown, AfterTeardown, TypeOK, KnownInv, Admitting
<1>5. Dormant'
  <2>1. pc[p] = "teardown" /\ phase' = phase /\ \A q \in Threads \ {p} : pc'[q] = pc[q]
    BY DEF Teardown, TypeOK
  <2>2. pc'[p] \in {"join", "release", "notify"}
    BY DEF Teardown, AfterTeardown, TypeOK
  <2>3. \A a \in Acts : pc[ExecOf(a)] = "idle" => ExecOf(a) # p
    BY <2>1
  <2> QED BY <2>1, <2>2, <2>3 DEF Dormant
<1>6. PortsInv'
  BY DEF Teardown, PortsInv, ClientsKeepOut, PortAccounting
<1> QED BY <1>1, <1>2, <1>3, <1>4, <1>5, <1>6

(* deactivateTask, the executor has been joined.                           *)
LEMMA JoinExecInv == ASSUME IInv, NEW p \in Threads, JoinExec(p) PROVE IInv'
<1>1. TypeOK'
  BY DEF JoinExec, AfterTeardown, TypeOK, Labels
<1>2. CallsInv'
  BY DEF JoinExec, AfterTeardown, TypeOK, CallsInv, InCall
<1>3. OneFirst'
  BY DEF JoinExec, OneFirst
<1>4. KnownInv'
  BY DEF JoinExec, AfterTeardown, TypeOK, KnownInv, Admitting
<1>5. Dormant'
  BY DEF JoinExec, AfterTeardown, TypeOK, Dormant
<1>6. PortsInv'
  BY DEF JoinExec, PortsInv, ClientsKeepOut, PortAccounting
<1> QED BY <1>1, <1>2, <1>3, <1>4, <1>5, <1>6

(* deactivateTask, slots and ports go back: the step OneFirst is for.      *)
LEMMA ReleaseResourcesInv == ASSUME IInv, NEW p \in Threads, ReleaseResources(p) PROVE IInv'
<1>1. TypeOK'
  BY DEF ReleaseResources, Returned, Caller, Publish, Pool!ReleaseAll, TypeOK, Labels
<1>2. CallsInv'
  <2>1. pc[p] = "release" /\ Returned(p) /\ first[p] /\ arg[p] \in Tasks
    BY DEF ReleaseResources, CallsInv, InCall
  <2>2. state' = state /\ slot' = [slot EXCEPT ![arg[p]] = FALSE]
    BY DEF ReleaseResources
  <2>3. \A q \in Threads \ {p} : first[q] => arg[q] # arg[p]
    BY <2>1 DEF OneFirst
  <2>4. \A q \in Threads : first'[q] => slot'[arg'[q]]
    BY <2>1, <2>2, <2>3, ReturnedFacts DEF CallsInv, InCall, TypeOK
  <2> QED BY <2>1, <2>2, <2>4, ReturnedFacts DEF CallsInv, InCall
<1>3. OneFirst'
  BY DEF ReleaseResources, Returned, TypeOK, OneFirst
<1>4. KnownInv'
  <2>1. pc[p] = "release" /\ pc'[p] = Caller(p) /\ \A q \in Threads \ {p} : pc'[q] = pc[q]
    BY DEF ReleaseResources, Returned, TypeOK
  <2>2. arg[p] \in Tasks /\ state[arg[p]] \in Terminal
    BY <2>1 DEF CallsInv, InCall
  <2>3. UNCHANGED <<state, runtime, accepting, queue>>
    BY DEF ReleaseResources
  <2>4. /\ slot' = [slot EXCEPT ![arg[p]] = FALSE]
        /\ published' = [published EXCEPT ![arg[p]] = state[arg[p]]]
    BY DEF ReleaseResources, Publish
  <2>5. \A u \in Tasks :
          /\ state'[u] \in Active => slot'[u]
          /\ state'[u] = "absent" => ~slot'[u] /\ runtime'[u] = NoThread
          /\ published'[u] \in Terminal => published'[u] = state'[u]
    BY <2>2, <2>3, <2>4 DEF KnownInv, TypeOK
  <2>6. /\ \A q \in Services : \A u \in queue'[q] : state'[u] # "absent"
        /\ \A q \in Threads \ Services : pc'[q] # "idle" => state'[q[2]] # "absent"
    BY <2>1, <2>3 DEF KnownInv
  <2>7. p = Amqp => pc'[p] \in {"each", "idle", "retry"} /\ (pc'[p] = "retry" => accepting # NoTask)
    BY <2>1 DEF Caller
  <2>8. /\ pc'[Amqp] \in Admitting => accepting' \in Tasks
        /\ accepting' # NoTask /\ pc'[Amqp] # "announce" => state'[accepting'] = "absent"
    BY <2>1, <2>3, <2>7 DEF KnownInv, TypeOK, Admitting
  <2> QED BY <2>5, <2>6, <2>8 DEF KnownInv
<1>5. Dormant'
  BY DEF ReleaseResources, Returned, Caller, Publish, Pool!ReleaseAll, TypeOK, Dormant
<1>6. PortsInv'
  <2> SUFFICES ASSUME ClientsKeepOut PROVE PortAccounting'
    BY DEF PortsInv, ClientsKeepOut
  <2> PortAccounting
    BY DEF PortsInv
  <2> DEFINE v == arg[p]
             mine == ports[v] \cap PoolPorts
  <2>1. v \in Tasks /\ slot[v] /\ ports \in [Tasks -> SUBSET Nat]
    BY DEF ReleaseResources, CallsInv, InCall, TypeOK
  <2>2. /\ ports' = ports
        /\ slot' = [slot EXCEPT ![v] = FALSE]
        /\ free' = free \cup (ports[v] \cap used)
        /\ used' = used \ ports[v]
    BY DEF ReleaseResources, Pool!ReleaseAll
  <2>3. free' \cap used' = {} /\ free' \cup used' = PoolPorts
    BY <2>2 DEF PortAccounting
  <2>4. \A u \in Tasks : slot'[u] <=> slot[u] /\ u # v
    BY <2>1, <2>2 DEF TypeOK
  <2>5. \A u \in Tasks : slot[u] /\ u # v => ports[u] \cap mine = {}
    BY <2>1 DEF PortAccounting
  <2>6. used' = UNION {ports'[u] \cap PoolPorts : u \in {w \in Tasks : slot'[w]}}
    <3>1. used = UNION {ports[u] \cap PoolPorts : u \in {w \in Tasks : slot[w]}}
      BY DEF PortAccounting
    <3>2. ASSUME NEW x PROVE x \in used' <=> \E u \in Tasks : slot'[u] /\ x \in ports[u] \cap PoolPorts
      BY <2>1, <2>2, <2>4, <2>5, <3>1
    <3> QED BY <2>2, <3>2
  <2>7. \A u, w \in Tasks : slot'[u] /\ slot'[w] /\ u # w => ports'[u] \cap ports'[w] \cap PoolPorts = {}
    BY <2>2, <2>4 DEF PortAccounting
  <2> QED BY <2>3, <2>6, <2>7 DEF PortAccounting
<1> QED BY <1>1, <1>2, <1>3, <1>4, <1>5, <1>6

(* deactivateTask, a later caller notifies.                                *)
LEMMA NotifyLateInv == ASSUME IInv, NEW p \in Threads, NotifyLate(p) PROVE IInv'
<1>1. TypeOK'
  BY DEF NotifyLate, Returned, Caller, Publish, TypeOK, Labels
<1>2. CallsInv'
  <2>1. pc[p] = "notify" /\ Returned(p) /\ ~first[p] /\ UNCHANGED <<state, slot>>
    BY DEF NotifyLate, CallsInv
  <2> QED BY <2>1, ReturnedFacts DEF CallsInv, InCall
<1>3. OneFirst'
  BY DEF NotifyLate, Returned, TypeOK, OneFirst
<1>4. KnownInv'
  <2>1. pc[p] = "notify" /\ pc'[p] = Caller(p) /\ \A q \in Threads \ {p} : pc'[q] = pc[q]
    BY DEF NotifyLate, Returned, TypeOK
  <2>2. arg[p] \in Tasks /\ state[arg[p]] \in Terminal
    BY <2>1 DEF CallsInv, InCall
  <2>3. UNCHANGED <<state, slot, runtime, accepting, queue>>
    BY DEF NotifyLate
  <2>4. published' = [published EXCEPT ![arg[p]] = state[arg[p]]]
    BY DEF NotifyLate, Publish
  <2>5. \A u \in Tasks :
          /\ state'[u] \in Active => slot'[u]
          /\ state'[u] = "absent" => ~slot'[u] /\ runtime'[u] = NoThread
          /\ published'[u] \in Terminal => published'[u] = state'[u]
    BY <2>2, <2>3, <2>4 DEF KnownInv, TypeOK
  <2>6. /\ \A q \in Services : \A u \in queue'[q] : state'[u] # "absent"
        /\ \A q \in Threads \ Services : pc'[q] # "idle" => state'[q[2]] # "absent"
    BY <2>1, <2>3 DEF KnownInv
  <2>7. p = Amqp => pc'[p] \in {"each", "idle", "retry"} /\ (pc'[p] = "retry" => accepting # NoTask)
    BY <2>1 DEF Caller
  <2>8. /\ pc'[Amqp] \in Admitting => accepting' \in Tasks
        /\ accepting' # NoTask /\ pc'[Amqp] # "announce" => state'[accepting'] = "absent"
    BY <2>1, <2>3, <2>7 DEF KnownInv, TypeOK, Admitting
  <2> QED BY <2>5, <2>6, <2>8 DEF KnownInv
<1>5. Dormant'
  BY DEF NotifyLate, Returned, Caller, Publish, TypeOK, Dormant
<1>6. PortsInv'
  BY DEF NotifyLate, PortsInv, ClientsKeepOut, PortAccounting
<1> QED BY <1>1, <1>2, <1>3, <1>4, <1>5, <1>6

(* tryAccept begins.                                                       *)
LEMMA ReceiveRequestInv == ASSUME IInv, NEW t \in Tasks, ReceiveRequest(t) PROVE IInv'
<1>1. TypeOK'
  BY DEF ReceiveRequest, TypeOK, Labels
<1>2. CallsInv'
  BY DEF ReceiveRequest, TypeOK, CallsInv, InCall
<1>3. OneFirst'
  BY DEF ReceiveRequest, OneFirst
<1>4. KnownInv'
  BY DEF ReceiveRequest, TypeOK, KnownInv, Admitting
<1>5. Dormant'
  BY DEF ReceiveRequest, TypeOK, Dormant
<1>6. PortsInv'
  BY DEF ReceiveRequest, PortsInv, ClientsKeepOut, PortAccounting
<1> QED BY <1>1, <1>2, <1>3, <1>4, <1>5, <1>6

(* the cap, first count.                                                   *)
LEMMA CountScheduledInv == ASSUME IInv, CountScheduled PROVE IInv'
<1>1. TypeOK'
  BY CountType DEF CountScheduled, TypeOK, Labels
<1>2. CallsInv'
  BY DEF CountScheduled, TypeOK, CallsInv, InCall
<1>3. OneFirst'
  BY DEF CountScheduled, OneFirst
<1>4. KnownInv'
  BY DEF CountScheduled, TypeOK, KnownInv, Admitting
<1>5. Dormant'
  BY DEF CountScheduled, TypeOK, Dormant
<1>6. PortsInv'
  BY DEF CountScheduled, PortsInv, ClientsKeepOut, PortAccounting
<1> QED BY <1>1, <1>2, <1>3, <1>4, <1>5, <1>6

(* the cap, second count.                                                  *)
LEMMA CountPendingInv == ASSUME IInv, CountPending PROVE IInv'
<1>1. TypeOK'
  BY CountType DEF CountPending, TypeOK, Labels
<1>2. CallsInv'
  BY DEF CountPending, TypeOK, CallsInv, InCall
<1>3. OneFirst'
  BY DEF CountPending, OneFirst
<1>4. KnownInv'
  BY DEF CountPending, TypeOK, KnownInv, Admitting
<1>5. Dormant'
  BY DEF CountPending, TypeOK, Dormant
<1>6. PortsInv'
  BY DEF CountPending, PortsInv, ClientsKeepOut, PortAccounting
<1> QED BY <1>1, <1>2, <1>3, <1>4, <1>5, <1>6

(* the cap, third count.                                                   *)
LEMMA CountRunningInv == ASSUME IInv, CountRunning PROVE IInv'
<1>1. TypeOK'
  <2>1. pc' \in [Threads -> Labels] /\ accepting' \in Tasks \cup {NoTask} /\ counted' \in Nat
    BY DEF CountRunning, Reject, TypeOK, Labels
  <2> QED BY <2>1 DEF CountRunning, TypeOK
<1>2. CallsInv'
  BY DEF CountRunning, Reject, TypeOK, CallsInv, InCall
<1>3. OneFirst'
  BY DEF CountRunning, OneFirst
<1>4. KnownInv'
  BY DEF CountRunning, Reject, TypeOK, KnownInv, Admitting
<1>5. Dormant'
  BY DEF CountRunning, Reject, TypeOK, Dormant
<1>6. PortsInv'
  BY DEF CountRunning, PortsInv, ClientsKeepOut, PortAccounting
<1> QED BY <1>1, <1>2, <1>3, <1>4, <1>5, <1>6

(* tryPreemptConflicting.                                                  *)
LEMMA PreemptInv == ASSUME IInv, Preempt PROVE IInv'
<1>1. TypeOK'
  BY DEF Preempt, TypeOK, Labels
<1>2. CallsInv'
  BY DEF Preempt, TypeOK, CallsInv, InCall
<1>3. OneFirst'
  BY DEF Preempt, OneFirst
<1>4. KnownInv'
  BY DEF Preempt, TypeOK, KnownInv, Admitting
<1>5. Dormant'
  BY DEF Preempt, TypeOK, Dormant
<1>6. PortsInv'
  BY DEF Preempt, PortsInv, ClientsKeepOut, PortAccounting
<1> QED BY <1>1, <1>2, <1>3, <1>4, <1>5, <1>6

(* a request is rejected.                                                  *)
LEMMA RejectRequestInv == ASSUME IInv, RejectRequest PROVE IInv'
<1>1. TypeOK'
  BY DEF RejectRequest, Reject, TypeOK, Labels
<1>2. CallsInv'
  BY DEF RejectRequest, Reject, TypeOK, CallsInv, InCall
<1>3. OneFirst'
  BY DEF RejectRequest, OneFirst
<1>4. KnownInv'
  BY DEF RejectRequest, Reject, TypeOK, KnownInv, Admitting
<1>5. Dormant'
  BY DEF RejectRequest, Reject, TypeOK, Dormant
<1>6. PortsInv'
  BY DEF RejectRequest, PortsInv, ClientsKeepOut, PortAccounting
<1> QED BY <1>1, <1>2, <1>3, <1>4, <1>5, <1>6

(* a request is accepted: the step ClientsKeepOut is for.                  *)
LEMMA AcceptTaskInv == ASSUME IInv, AcceptTask PROVE IInv'
<1> USE ConstantsAssumption
<1>1. TypeOK'
  <2>1. accepting \in Tasks
    BY DEF AcceptTask, KnownInv, Admitting, TypeOK
  <2>2. /\ state' \in [Tasks -> {"absent"} \cup Active \cup Terminal]
        /\ clock' \in [Tasks -> {"before", "during", "after"}]
        /\ slot' \in [Tasks -> BOOLEAN]
    BY <2>1 DEF AcceptTask, TypeOK
  <2>3. Pool!Lowest(free, PoolNeed(accepting)) \subseteq free
    BY DEF Pool!Lowest
  <2>4. free' \subseteq PoolPorts /\ used' \subseteq PoolPorts
    BY <2>3 DEF AcceptTask, Pool!AllocateN, TypeOK
  <2>5. ports' \in [Tasks -> SUBSET Nat]
    BY <2>1, <2>3 DEF AcceptTask, TypeOK
  <2>6. pc' \in [Threads -> Labels]
    BY DEF AcceptTask, TypeOK, Labels
  <2> QED BY <2>2, <2>4, <2>5, <2>6 DEF AcceptTask, TypeOK
<1>2. CallsInv'
  <2>1. accepting \in Tasks /\ state[accepting] = "absent" /\ pc[Amqp] \in {"find", "retry"}
    BY DEF AcceptTask, KnownInv, Admitting
  <2>2. \A q \in Threads : pc'[q] \in {pc[q], "announce", "start"} /\ (first[q] => pc'[q] = pc[q])
    BY <2>1 DEF AcceptTask, CallsInv, NextAct, Spawned, TypeOK
  <2>3. \A u \in Tasks \ {accepting} : state'[u] = state[u] /\ slot'[u] = slot[u]
    BY <2>1 DEF AcceptTask, TypeOK
  <2>4. \A q \in Threads : pc'[q] \in InCall => pc[q] \in InCall /\ arg[q] # accepting
    BY <2>1, <2>2 DEF CallsInv, InCall
  <2>5. UNCHANGED <<arg, first>>
    BY DEF AcceptTask
  <2>6. \A q \in Threads : first[q] => arg[q] \in Tasks \ {accepting} /\ slot[arg[q]]
    BY <2>1 DEF CallsInv, InCall
  <2> QED BY <2>2, <2>3, <2>4, <2>5, <2>6 DEF CallsInv, InCall
<1>3. OneFirst'
  BY DEF AcceptTask, OneFirst
<1>4. KnownInv'
  <2>1. accepting \in Tasks /\ state[accepting] = "absent"
    BY DEF AcceptTask, KnownInv, Admitting
  <2>2. /\ \A u \in Tasks \ {accepting} : state'[u] = state[u] /\ slot'[u] = slot[u]
        /\ state'[accepting] \in Active /\ slot'[accepting]
    BY <2>1 DEF AcceptTask, TypeOK
  <2>3. /\ pc'[Amqp] = "announce"
        /\ \A q \in Threads \ Services : pc'[q] = pc[q] \/ q[2] = accepting
    BY DEF AcceptTask, NextAct, TypeOK
  <2>4. UNCHANGED <<published, runtime, queue, accepting>>
    BY DEF AcceptTask
  <2>5. \A u \in Tasks :
          /\ state'[u] \in Active => slot'[u]
          /\ state'[u] = "absent" => ~slot'[u] /\ runtime'[u] = NoThread
          /\ published'[u] \in Terminal => published'[u] = state'[u]
    BY <2>1, <2>2, <2>4 DEF KnownInv, TypeOK
  <2>6. /\ \A q \in Services : \A u \in queue'[q] : state'[u] # "absent"
        /\ \A q \in Threads \ Services : pc'[q] # "idle" => state'[q[2]] # "absent"
    <3>1. \A q \in Threads \ Services : q[2] \in Tasks
      BY DEF Threads
    <3>2. \A u \in Tasks : state[u] # "absent" => state'[u] # "absent"
      BY <2>1, <2>2
    <3> QED BY <2>2, <2>3, <2>4, <3>1, <3>2 DEF KnownInv, TypeOK
  <2>7. pc'[Amqp] \notin Admitting
    BY <2>3 DEF Admitting
  <2> QED BY <2>3, <2>5, <2>6, <2>7 DEF KnownInv
<1>5. Dormant'
  <2>1. /\ phase' = phase /\ pc'[Main] = pc[Main]
        /\ \A x \in Execs : pc'[x] = pc[x]
    BY DEF AcceptTask, NextAct, TypeOK
  <2>2. \A a \in Acts : pc'[a] = pc[a] \/ pc[a] = "idle"
    BY DEF AcceptTask, NextAct, Spawned, TypeOK
  <2> QED BY <2>1, <2>2 DEF Dormant
<1>6. PortsInv'
  <2> SUFFICES ASSUME ClientsKeepOut PROVE PortAccounting'
    BY DEF PortsInv, ClientsKeepOut
  <2> PortAccounting
    BY DEF PortsInv
  <2> DEFINE t == accepting
             need == PoolNeed(t)
             mine == Pool!Lowest(free, need)
  <2>1. t \in Tasks /\ ~slot[t]
    BY DEF AcceptTask, KnownInv, Admitting, TypeOK
  <2>2. mine \subseteq free /\ ClientPorts[t] \cap PoolPorts = {}
    BY <2>1 DEF Pool!Lowest, ClientsKeepOut
  <2>3. /\ free' = free \ mine
        /\ used' = used \cup mine
        /\ ports' = [ports EXCEPT ![t] = ClientPorts[t] \cup mine]
        /\ slot' = [slot EXCEPT ![t] = TRUE]
    BY DEF AcceptTask, Pool!AllocateN
  <2>4. free' \cap used' = {} /\ free' \cup used' = PoolPorts
    BY <2>2, <2>3 DEF PortAccounting
  <2>5. ports'[t] \cap PoolPorts = mine
    BY <2>1, <2>2, <2>3 DEF TypeOK
  <2>6. \A u \in Tasks \ {t} : ports'[u] = ports[u] /\ slot'[u] = slot[u]
    BY <2>3 DEF TypeOK
  <2>7. slot'[t]
    BY <2>1, <2>3 DEF TypeOK
  <2>8. \A u \in Tasks \ {t} : slot[u] => ports[u] \cap PoolPorts \cap mine = {}
    BY <2>2 DEF PortAccounting
  <2>9. used' = UNION {ports'[u] \cap PoolPorts : u \in {w \in Tasks : slot'[w]}}
    <3>1. used = UNION {ports[u] \cap PoolPorts : u \in {w \in Tasks : slot[w]}}
      BY DEF PortAccounting
    <3>2. ASSUME NEW x PROVE x \in used' <=> \E u \in Tasks : slot'[u] /\ x \in ports'[u] \cap PoolPorts
      BY <2>1, <2>3, <2>5, <2>6, <2>7, <3>1
    <3> QED BY <3>2
  <2>10. \A u, w \in Tasks : slot'[u] /\ slot'[w] /\ u # w => ports'[u] \cap ports'[w] \cap PoolPorts = {}
    BY <2>5, <2>6, <2>8 DEF PortAccounting
  <2> QED BY <2>4, <2>9, <2>10 DEF PortAccounting
<1> QED BY <1>1, <1>2, <1>3, <1>4, <1>5, <1>6

(* the accepted task is announced.                                         *)
LEMMA AnnounceAcceptedInv == ASSUME IInv, AnnounceAccepted PROVE IInv'
<1>1. TypeOK'
  BY DEF AnnounceAccepted, Publish, TypeOK, Labels
<1>2. CallsInv'
  BY DEF AnnounceAccepted, Publish, TypeOK, CallsInv, InCall
<1>3. OneFirst'
  BY DEF AnnounceAccepted, OneFirst
<1>4. KnownInv'
  BY DEF AnnounceAccepted, Publish, TypeOK, KnownInv, Admitting
<1>5. Dormant'
  BY DEF AnnounceAccepted, Publish, TypeOK, Dormant
<1>6. PortsInv'
  BY DEF AnnounceAccepted, PortsInv, ClientsKeepOut, PortAccounting
<1> QED BY <1>1, <1>2, <1>3, <1>4, <1>5, <1>6

(* stopTask and cancelTask.                                                *)
LEMMA ReceiveStopOrCancelInv == ASSUME IInv, NEW t \in Tasks, ReceiveStopOrCancel(t) PROVE IInv'
<1>1. TypeOK'
  BY DEF ReceiveStopOrCancel, Stoppable, Cancellable, TypeOK, Labels
<1>2. CallsInv'
  BY DEF ReceiveStopOrCancel, Stoppable, Cancellable, TypeOK, CallsInv, InCall
<1>3. OneFirst'
  BY DEF ReceiveStopOrCancel, OneFirst
<1>4. KnownInv'
  BY DEF ReceiveStopOrCancel, Stoppable, Cancellable, TypeOK, KnownInv, Admitting
<1>5. Dormant'
  BY DEF ReceiveStopOrCancel, Stoppable, Cancellable, TypeOK, Dormant
<1>6. PortsInv'
  BY DEF ReceiveStopOrCancel, PortsInv, ClientsKeepOut, PortAccounting
<1> QED BY <1>1, <1>2, <1>3, <1>4, <1>5, <1>6

(* schedulerTick.                                                          *)
LEMMA SchedulerTickInv == ASSUME IInv, SchedulerTick PROVE IInv'
<1>1. TypeOK'
  BY DEF SchedulerTick, NextAct, Spawned, TypeOK, Labels
<1>2. CallsInv'
  BY DEF SchedulerTick, NextAct, Spawned, TypeOK, CallsInv, InCall
<1>3. OneFirst'
  BY DEF SchedulerTick, OneFirst
<1>4. KnownInv'
  BY DEF SchedulerTick, NextAct, Spawned, TypeOK, KnownInv, Admitting
<1>5. Dormant'
  BY DEF SchedulerTick, NextAct, Spawned, TypeOK, Dormant
<1>6. PortsInv'
  BY DEF SchedulerTick, PortsInv, ClientsKeepOut, PortAccounting
<1> QED BY <1>1, <1>2, <1>3, <1>4, <1>5, <1>6

(* watchdogTick.                                                           *)
LEMMA WatchdogTickInv == ASSUME IInv, WatchdogTick PROVE IInv'
<1>1. TypeOK'
  BY DEF WatchdogTick, Expired, TypeOK, Labels
<1>2. CallsInv'
  BY DEF WatchdogTick, Expired, TypeOK, CallsInv, InCall
<1>3. OneFirst'
  BY DEF WatchdogTick, OneFirst
<1>4. KnownInv'
  BY DEF WatchdogTick, Expired, TypeOK, KnownInv, Admitting
<1>5. Dormant'
  BY DEF WatchdogTick, Expired, TypeOK, Dormant
<1>6. PortsInv'
  BY DEF WatchdogTick, Expired, TypeOK, PortsInv, ClientsKeepOut, PortAccounting
<1> QED BY <1>1, <1>2, <1>3, <1>4, <1>5, <1>6

(* the clock.                                                              *)
LEMMA TimePassesInv == ASSUME IInv, NEW t \in Tasks, TimePasses(t) PROVE IInv'
<1>1. TypeOK'
  BY DEF TimePasses, TypeOK, Labels
<1>2. CallsInv'
  BY DEF TimePasses, TypeOK, CallsInv, InCall
<1>3. OneFirst'
  BY DEF TimePasses, OneFirst
<1>4. KnownInv'
  BY DEF TimePasses, TypeOK, KnownInv, Admitting
<1>5. Dormant'
  BY DEF TimePasses, TypeOK, Dormant
<1>6. PortsInv'
  BY DEF TimePasses, PortsInv, ClientsKeepOut, PortAccounting
<1> QED BY <1>1, <1>2, <1>3, <1>4, <1>5, <1>6

(* activateTask, SCHEDULED to PENDING.                                     *)
LEMMA ActStartInv == ASSUME IInv, NEW a \in Acts, ActStart(a) PROVE IInv'
<1>1. TypeOK'
  BY DEF ActStart, TypeOK, Labels
<1>2. CallsInv'
  BY DEF ActStart, TypeOK, CallsInv, InCall
<1>3. OneFirst'
  BY DEF ActStart, OneFirst
<1>4. KnownInv'
  <2>1. pc[a] = "start" /\ pc'[a] \notin {"idle"} /\ \A q \in Threads \ {a} : pc'[q] = pc[q]
    BY DEF ActStart, TypeOK
  <2>2. a[2] \in Tasks /\ state[a[2]] # "absent"
    BY <2>1 DEF KnownInv
  <2>3. \/ state' = state
        \/ /\ state[a[2]] \notin Terminal
           /\ state' = [state EXCEPT ![a[2]] = "PENDING"]
    BY DEF ActStart
  <2>4. UNCHANGED <<slot, runtime, published, accepting, queue>>
    BY DEF ActStart
  <2>5. \A u \in Tasks : state'[u] = "absent" <=> state[u] = "absent"
    BY <2>2, <2>3 DEF TypeOK
  <2>6. \A u \in Tasks :
          /\ state'[u] \in Active => slot'[u]
          /\ state'[u] = "absent" => ~slot'[u] /\ runtime'[u] = NoThread
          /\ published'[u] \in Terminal => published'[u] = state'[u]
    BY <2>2, <2>3, <2>4, <2>5 DEF KnownInv, TypeOK
  <2>7. /\ \A q \in Services : \A u \in queue'[q] : state'[u] # "absent"
        /\ \A q \in Threads \ Services : pc'[q] # "idle" => state'[q[2]] # "absent"
    BY <2>1, <2>4, <2>5 DEF KnownInv, TypeOK, Threads
  <2>8. /\ pc'[Amqp] \in Admitting => accepting' \in Tasks
        /\ accepting' # NoTask /\ pc'[Amqp] # "announce" => state'[accepting'] = "absent"
    BY <2>1, <2>4, <2>5 DEF KnownInv, TypeOK
  <2> QED BY <2>6, <2>7, <2>8 DEF KnownInv
<1>5. Dormant'
  BY DEF ActStart, TypeOK, Dormant
<1>6. PortsInv'
  BY DEF ActStart, PortsInv, ClientsKeepOut, PortAccounting
<1> QED BY <1>1, <1>2, <1>3, <1>4, <1>5, <1>6

(* activateTask, lock hw_activation_mu_.                                   *)
LEMMA ActLockInv == ASSUME IInv, NEW a \in Acts, ActLock(a) PROVE IInv'
<1>1. TypeOK'
  BY DEF ActLock, TypeOK, Labels
<1>2. CallsInv'
  BY DEF ActLock, TypeOK, CallsInv, InCall
<1>3. OneFirst'
  BY DEF ActLock, OneFirst
<1>4. KnownInv'
  BY DEF ActLock, TypeOK, KnownInv, Admitting
<1>5. Dormant'
  <2>1. pc[a] = "lock" /\ phase' = phase /\ \A q \in Threads \ {a} : pc'[q] = pc[q]
    BY DEF ActLock, TypeOK
  <2>2. \A b \in Acts : pc'[ExecOf(b)] = pc[ExecOf(b)] /\ pc'[Main] = pc[Main]
    BY <2>1
  <2> QED BY <2>1, <2>2 DEF Dormant
<1>6. PortsInv'
  BY DEF ActLock, PortsInv, ClientsKeepOut, PortAccounting
<1> QED BY <1>1, <1>2, <1>3, <1>4, <1>5, <1>6

(* activateTask, a stream is opened.                                       *)
LEMMA ActOpenStreamInv == ASSUME IInv, NEW a \in Acts, ActOpenStream(a) PROVE IInv'
<1>1. TypeOK'
  BY DEF ActOpenStream, TypeOK, Labels
<1>2. CallsInv'
  BY DEF ActOpenStream, TypeOK, CallsInv, InCall
<1>3. OneFirst'
  BY DEF ActOpenStream, OneFirst
<1>4. KnownInv'
  BY DEF ActOpenStream, TypeOK, KnownInv, Admitting
<1>5. Dormant'
  BY DEF ActOpenStream, TypeOK, Dormant
<1>6. PortsInv'
  BY DEF ActOpenStream, PortsInv, ClientsKeepOut, PortAccounting
<1> QED BY <1>1, <1>2, <1>3, <1>4, <1>5, <1>6

(* activateTask, the hardware fails.                                       *)
LEMMA ActHwFailureInv == ASSUME IInv, NEW a \in Acts, ActHwFailure(a) PROVE IInv'
<1>1. TypeOK'
  BY DEF ActHwFailure, TypeOK, Labels
<1>2. CallsInv'
  BY DEF ActHwFailure, TypeOK, CallsInv, InCall
<1>3. OneFirst'
  BY DEF ActHwFailure, OneFirst
<1>4. KnownInv'
  BY DEF ActHwFailure, TypeOK, KnownInv, Admitting
<1>5. Dormant'
  BY DEF ActHwFailure, TypeOK, Dormant
<1>6. PortsInv'
  BY DEF ActHwFailure, PortsInv, ClientsKeepOut, PortAccounting
<1> QED BY <1>1, <1>2, <1>3, <1>4, <1>5, <1>6

(* activateTask, unlock and start the executor: the step Dormant is for.   *)
LEMMA ActUnlockInv == ASSUME IInv, NEW a \in Acts, ActUnlock(a) PROVE IInv'
<1>1. TypeOK'
  BY DEF ActUnlock, TypeOK, Labels
<1>2. CallsInv'
  <2>1. /\ pc[a] = "setup" /\ pc[ExecOf(a)] = "idle"
        /\ UNCHANGED <<state, slot, arg, first>>
    BY DEF ActUnlock, Dormant
  <2>2. \A q \in Threads : pc'[q] = pc[q] \/ (q = a /\ pc'[q] = "insert") \/ (q = ExecOf(a) /\ pc'[q] \in {"idle", "armed"})
    BY <2>1 DEF ActUnlock, TypeOK
  <2>3. \A q \in Threads : first[q] => pc'[q] = pc[q]
    BY <2>1, <2>2 DEF CallsInv
  <2> QED BY <2>1, <2>2, <2>3 DEF CallsInv, InCall
<1>3. OneFirst'
  BY DEF ActUnlock, OneFirst
<1>4. KnownInv'
  <2>1. pc[a] = "setup" /\ state[a[2]] # "absent"
    BY DEF ActUnlock, KnownInv
  <2>2. \A q \in Threads : pc'[q] # "idle" => pc[q] # "idle" \/ q = ExecOf(a)
    BY <2>1 DEF ActUnlock, TypeOK
  <2>3. \A q \in Threads \ Services : pc'[q] # "idle" => state[q[2]] # "absent"
    BY <2>1, <2>2 DEF KnownInv
  <2>4. pc'[Amqp] = pc[Amqp]
    BY DEF ActUnlock, TypeOK
  <2> QED BY <2>3, <2>4 DEF ActUnlock, KnownInv
<1>5. Dormant'
  <2>1. pc'[a] = "insert" /\ \A q \in Threads \ {a, ExecOf(a)} : pc'[q] = pc[q]
    BY DEF ActUnlock, TypeOK
  <2> QED BY <2>1, ExecOfInjective DEF ActUnlock, Dormant
<1>6. PortsInv'
  BY DEF ActUnlock, PortsInv, ClientsKeepOut, PortAccounting
<1> QED BY <1>1, <1>2, <1>3, <1>4, <1>5, <1>6

(* activateTask, the runtime is stored.                                    *)
LEMMA ActInsertInv == ASSUME IInv, NEW a \in Acts, ActInsert(a) PROVE IInv'
<1>1. TypeOK'
  <2>1. pc' \in [Threads -> Labels] /\ rt' \in Acts \cup {NoThread} /\ runtime' \in [Tasks -> Acts \cup {NoThread}]
    BY DEF ActInsert, TypeOK, Labels
  <2>2. joins' \in [Threads -> Execs \cup {NoThread}]
    <3>1. runtime[a[2]] \in Acts \cup {NoThread}
      BY DEF TypeOK
    <3> QED BY <3>1 DEF ActInsert, TypeOK
  <2> QED BY <2>1, <2>2 DEF ActInsert, TypeOK
<1>2. CallsInv'
  BY DEF ActInsert, TypeOK, CallsInv, InCall
<1>3. OneFirst'
  BY DEF ActInsert, OneFirst
<1>4. KnownInv'
  BY DEF ActInsert, TypeOK, KnownInv, Admitting
<1>5. Dormant'
  BY DEF ActInsert, TypeOK, Dormant
<1>6. PortsInv'
  BY DEF ActInsert, PortsInv, ClientsKeepOut, PortAccounting
<1> QED BY <1>1, <1>2, <1>3, <1>4, <1>5, <1>6

(* activateTask, the older executor has been joined.                       *)
LEMMA ActReplacedInv == ASSUME IInv, NEW a \in Acts, ActReplaced(a) PROVE IInv'
<1>1. TypeOK'
  BY DEF ActReplaced, TypeOK, Labels
<1>2. CallsInv'
  BY DEF ActReplaced, TypeOK, CallsInv, InCall
<1>3. OneFirst'
  BY DEF ActReplaced, OneFirst
<1>4. KnownInv'
  BY DEF ActReplaced, TypeOK, KnownInv, Admitting
<1>5. Dormant'
  BY DEF ActReplaced, TypeOK, Dormant
<1>6. PortsInv'
  BY DEF ActReplaced, PortsInv, ClientsKeepOut, PortAccounting
<1> QED BY <1>1, <1>2, <1>3, <1>4, <1>5, <1>6

(* activateTask, PENDING to RUNNING.                                       *)
LEMMA ActRunInv == ASSUME IInv, NEW a \in Acts, ActRun(a) PROVE IInv'
<1>1. TypeOK'
  BY DEF ActRun, TypeOK, Labels
<1>2. CallsInv'
  BY DEF ActRun, TypeOK, CallsInv, InCall
<1>3. OneFirst'
  BY DEF ActRun, OneFirst
<1>4. KnownInv'
  <2>1. pc[a] = "run" /\ pc'[a] \notin {"idle"} /\ \A q \in Threads \ {a} : pc'[q] = pc[q]
    BY DEF ActRun, TypeOK
  <2>2. a[2] \in Tasks /\ state[a[2]] # "absent"
    BY <2>1 DEF KnownInv
  <2>3. \/ state' = state
        \/ /\ state[a[2]] \notin Terminal
           /\ state' = [state EXCEPT ![a[2]] = "RUNNING"]
    BY DEF ActRun
  <2>4. UNCHANGED <<slot, runtime, published, accepting, queue>>
    BY DEF ActRun
  <2>5. \A u \in Tasks : state'[u] = "absent" <=> state[u] = "absent"
    BY <2>2, <2>3 DEF TypeOK
  <2>6. \A u \in Tasks :
          /\ state'[u] \in Active => slot'[u]
          /\ state'[u] = "absent" => ~slot'[u] /\ runtime'[u] = NoThread
          /\ published'[u] \in Terminal => published'[u] = state'[u]
    BY <2>2, <2>3, <2>4, <2>5 DEF KnownInv, TypeOK
  <2>7. /\ \A q \in Services : \A u \in queue'[q] : state'[u] # "absent"
        /\ \A q \in Threads \ Services : pc'[q] # "idle" => state'[q[2]] # "absent"
    BY <2>1, <2>4, <2>5 DEF KnownInv, TypeOK, Threads
  <2>8. /\ pc'[Amqp] \in Admitting => accepting' \in Tasks
        /\ accepting' # NoTask /\ pc'[Amqp] # "announce" => state'[accepting'] = "absent"
    BY <2>1, <2>4, <2>5 DEF KnownInv, TypeOK
  <2> QED BY <2>6, <2>7, <2>8 DEF KnownInv
<1>5. Dormant'
  BY DEF ActRun, TypeOK, Dormant
<1>6. PortsInv'
  BY DEF ActRun, PortsInv, ClientsKeepOut, PortAccounting
<1> QED BY <1>1, <1>2, <1>3, <1>4, <1>5, <1>6

(* activateTask, the last notification.                                    *)
LEMMA ActAnnounceInv == ASSUME IInv, NEW a \in Acts, ActAnnounce(a) PROVE IInv'
<1>1. TypeOK'
  BY DEF ActAnnounce, Publish, TypeOK, Labels
<1>2. CallsInv'
  BY DEF ActAnnounce, Publish, TypeOK, CallsInv, InCall
<1>3. OneFirst'
  BY DEF ActAnnounce, OneFirst
<1>4. KnownInv'
  BY DEF ActAnnounce, Publish, TypeOK, KnownInv, Admitting
<1>5. Dormant'
  BY DEF ActAnnounce, Publish, TypeOK, Dormant
<1>6. PortsInv'
  BY DEF ActAnnounce, PortsInv, ClientsKeepOut, PortAccounting
<1> QED BY <1>1, <1>2, <1>3, <1>4, <1>5, <1>6

(* an executor reports that it is done.                                    *)
LEMMA ExecDoneInv == ASSUME IInv, NEW x \in Execs, ExecDone(x) PROVE IInv'
<1>1. TypeOK'
  BY DEF ExecDone, TypeOK, Labels
<1>2. CallsInv'
  BY DEF ExecDone, TypeOK, CallsInv, InCall
<1>3. OneFirst'
  BY DEF ExecDone, OneFirst
<1>4. KnownInv'
  BY DEF ExecDone, TypeOK, KnownInv, Admitting
<1>5. Dormant'
  BY DEF ExecDone, TypeOK, Dormant
<1>6. PortsInv'
  BY DEF ExecDone, PortsInv, ClientsKeepOut, PortAccounting
<1> QED BY <1>1, <1>2, <1>3, <1>4, <1>5, <1>6

(* a streamer reports that it failed.                                      *)
LEMMA StreamErrorInv == ASSUME IInv, NEW e \in Errs, StreamError(e) PROVE IInv'
<1>1. TypeOK'
  BY DEF StreamError, Streaming, Building, TypeOK, Labels
<1>2. CallsInv'
  BY DEF StreamError, Streaming, Building, TypeOK, CallsInv, InCall
<1>3. OneFirst'
  BY DEF StreamError, OneFirst
<1>4. KnownInv'
  BY DEF StreamError, Streaming, Building, TypeOK, KnownInv, Admitting
<1>5. Dormant'
  <2>1. \A q \in Threads \ {e} : pc'[q] = pc[q]
    BY DEF StreamError, TypeOK
  <2>2. \A a \in Acts : pc'[a] = pc[a] /\ pc'[ExecOf(a)] = pc[ExecOf(a)]
    BY <2>1
  <2>3. pc'[Main] = pc[Main] /\ phase' = phase
    BY <2>1 DEF StreamError
  <2> QED BY <2>2, <2>3 DEF Dormant
<1>6. PortsInv'
  BY DEF StreamError, PortsInv, ClientsKeepOut, PortAccounting
<1> QED BY <1>1, <1>2, <1>3, <1>4, <1>5, <1>6

(* Controller::stop begins.                                                *)
LEMMA StopRequestedInv == ASSUME IInv, StopRequested PROVE IInv'
<1>1. TypeOK'
  BY DEF StopRequested, TypeOK, Labels
<1>2. CallsInv'
  BY DEF StopRequested, TypeOK, CallsInv, InCall
<1>3. OneFirst'
  BY DEF StopRequested, OneFirst
<1>4. KnownInv'
  BY DEF StopRequested, TypeOK, KnownInv, Admitting
<1>5. Dormant'
  BY DEF StopRequested, TypeOK, Dormant
<1>6. PortsInv'
  BY DEF StopRequested, PortsInv, ClientsKeepOut, PortAccounting
<1> QED BY <1>1, <1>2, <1>3, <1>4, <1>5, <1>6

(* the service threads are joined.                                         *)
LEMMA JoinServicesInv == ASSUME IInv, JoinServices PROVE IInv'
<1>1. TypeOK'
  BY DEF JoinServices, TypeOK, Labels
<1>2. CallsInv'
  <2>1. /\ pc[Main] = "idle" /\ UNCHANGED <<state, slot, arg, first>>
        /\ \A q \in Threads : pc'[q] = pc[q] \/ (q = Main /\ pc'[q] = "each")
    BY DEF JoinServices, Dormant, TypeOK
  <2> QED BY <2>1 DEF CallsInv, InCall
<1>3. OneFirst'
  BY DEF JoinServices, OneFirst
<1>4. KnownInv'
  <2>1. \A u \in queue'[Main] : state[u] # "absent"
    BY DEF JoinServices, TypeOK
  <2>2. \A q \in Services \ {Main} : queue'[q] = queue[q]
    BY DEF JoinServices, TypeOK
  <2>3. \A q \in Threads \ {Main} : pc'[q] = pc[q]
    BY DEF JoinServices, TypeOK
  <2> QED BY <2>1, <2>2, <2>3 DEF JoinServices, KnownInv
<1>5. Dormant'
  BY DEF JoinServices, TypeOK, Dormant
<1>6. PortsInv'
  BY DEF JoinServices, PortsInv, ClientsKeepOut, PortAccounting
<1> QED BY <1>1, <1>2, <1>3, <1>4, <1>5, <1>6

(* closeDevices drains the runtimes.                                       *)
LEMMA DrainInv == ASSUME IInv, Drain PROVE IInv'
<1>1. TypeOK'
  BY DEF Drain, Orphans, TypeOK, Labels
<1>2. CallsInv'
  BY DEF Drain, Orphans, TypeOK, CallsInv, InCall
<1>3. OneFirst'
  BY DEF Drain, OneFirst
<1>4. KnownInv'
  BY DEF Drain, Orphans, TypeOK, KnownInv, Admitting
<1>5. Dormant'
  BY DEF Drain, Orphans, TypeOK, Dormant
<1>6. PortsInv'
  BY DEF Drain, PortsInv, ClientsKeepOut, PortAccounting
<1> QED BY <1>1, <1>2, <1>3, <1>4, <1>5, <1>6

(* closeDevices ends.                                                      *)
LEMMA CloseDevicesInv == ASSUME IInv, CloseDevices PROVE IInv'
<1>1. TypeOK'
  BY DEF CloseDevices, TypeOK, Labels
<1>2. CallsInv'
  BY DEF CloseDevices, TypeOK, CallsInv, InCall
<1>3. OneFirst'
  BY DEF CloseDevices, OneFirst
<1>4. KnownInv'
  BY DEF CloseDevices, TypeOK, KnownInv, Admitting
<1>5. Dormant'
  BY DEF CloseDevices, TypeOK, Dormant
<1>6. PortsInv'
  BY DEF CloseDevices, PortsInv, ClientsKeepOut, PortAccounting
<1> QED BY <1>1, <1>2, <1>3, <1>4, <1>5, <1>6

HIDE ThreadFacts DEF IInv, Goto, regVars, poolVars, hwVars, callVars, amqpVars, Active, Terminal

(* Every step preserves it.                                                *)
LEMMA NextInv == ASSUME IInv, [Next]_vars PROVE IInv'
<1>1. CASE UNCHANGED vars
  BY <1>1 DEF IInv, TypeOK, CallsInv, OneFirst, KnownInv, Dormant, PortsInv,
              ClientsKeepOut, PortAccounting,
              vars, regVars, poolVars, hwVars, callVars, amqpVars
<1>2. ASSUME NEW t \in Tasks, ReceiveRequest(t) \/ ReceiveStopOrCancel(t) \/ TimePasses(t)
      PROVE  IInv'
  BY <1>2, ReceiveRequestInv, ReceiveStopOrCancelInv, TimePassesInv
<1>3. CASE AcceptStep
  BY <1>3, CountScheduledInv, CountPendingInv, CountRunningInv, PreemptInv, RejectRequestInv,
     AcceptTaskInv, AnnounceAcceptedInv DEF AcceptStep
<1>4. CASE SchedulerTick \/ WatchdogTick
  BY <1>4, SchedulerTickInv, WatchdogTickInv
<1>5. ASSUME NEW p \in Threads, Deactivate(p) PROVE IInv'
  BY <1>5, ClaimTerminalInv, ClaimLateInv, CheckOrphanInv, TeardownInv, JoinExecInv,
     ReleaseResourcesInv, NotifyLateInv DEF Deactivate
<1>6. ASSUME NEW a \in Acts, Activate(a) PROVE IInv'
  BY <1>6, ActStartInv, ActLockInv, ActOpenStreamInv, ActHwFailureInv, ActUnlockInv,
     ActInsertInv, ActReplacedInv, ActRunInv, ActAnnounceInv DEF Activate
<1>7. ASSUME NEW x \in Execs, ExecDone(x) PROVE IInv'
  BY <1>7, ExecDoneInv
<1>8. ASSUME NEW e \in Errs, StreamError(e) PROVE IInv'
  BY <1>8, StreamErrorInv
<1>9. CASE StopRequested \/ MainStep
  BY <1>9, StopRequestedInv, JoinServicesInv, DrainInv, CloseDevicesInv DEF MainStep
<1>10. CASE Finished
  BY <1>1, <1>10 DEF Finished
<1> QED BY <1>1, <1>2, <1>3, <1>4, <1>5, <1>6, <1>7, <1>8, <1>9, <1>10 DEF Next

(* The inductive invariant holds for any number of tasks, ports, streams   *)
(* and activation threads, and whatever the threads interleave.            *)
THEOREM InvariantHolds == Spec => []IInv
<1>1. Init => IInv
  BY InitInv
<1>2. IInv /\ [Next]_vars => IInv'
  BY NextInv
<1> QED BY <1>1, <1>2, PTL DEF Spec

(* Every variable keeps to the values the code gives it.                   *)
THEOREM TypeCorrect == Spec => []TypeOK
<1>1. IInv => TypeOK
  BY DEF IInv
<1> QED BY <1>1, InvariantHolds, PTL

(* No port is lost and none is given back twice, although the AMQP thread, *)
(* the watchdog, activations, executors and error callbacks may all        *)
(* deactivate a task at once.                                              *)
THEOREM PortsAccounted == ASSUME ClientsKeepOut PROVE Spec => []PortAccounting
<1>1. IInv => PortAccounting
  BY DEF IInv, PortsInv
<1> QED BY <1>1, InvariantHolds, PTL

(* Only a task that has not ended changes its state.                       *)
LEMMA StateSteps ==
    ASSUME IInv, [Next]_vars
    PROVE  state' = state \/ \E u \in Tasks : \E s : state[u] \notin Terminal /\ state' = [state EXCEPT ![u] = s]
<1> USE DEF regVars
<1>1. CASE UNCHANGED vars \/ Finished
  BY <1>1 DEF vars, Finished
<1>2. ASSUME NEW t \in Tasks, ReceiveRequest(t) \/ ReceiveStopOrCancel(t) \/ TimePasses(t)
      PROVE  state' = state
  BY <1>2 DEF ReceiveRequest, ReceiveStopOrCancel, TimePasses
<1>3. CASE AcceptStep /\ ~AcceptTask
  BY <1>3 DEF AcceptStep, CountScheduled, CountPending, CountRunning, Preempt, RejectRequest, AnnounceAccepted
<1>4. CASE AcceptTask
  BY <1>4, ConstantsAssumption DEF AcceptTask, IInv, KnownInv, Admitting, Terminal
<1>5. CASE SchedulerTick \/ WatchdogTick \/ StopRequested \/ MainStep
  BY <1>5 DEF SchedulerTick, WatchdogTick, StopRequested, MainStep, JoinServices, Drain, CloseDevices
<1>6. ASSUME NEW p \in Threads, NEW t \in Tasks, ClaimTerminal(p, t)
      PROVE  \E u \in Tasks : \E s : state[u] \notin Terminal /\ state' = [state EXCEPT ![u] = s]
  BY <1>6 DEF ClaimTerminal
<1>7. ASSUME NEW p \in Threads, Deactivate(p), \A t \in Tasks : ~ClaimTerminal(p, t)
      PROVE  state' = state
  BY <1>7 DEF Deactivate, ClaimLate, CheckOrphan, Teardown, JoinExec, ReleaseResources, NotifyLate
<1>8. ASSUME NEW a \in Acts, ActStart(a) \/ ActRun(a)
      PROVE  state' = state \/ \E u \in Tasks : \E s : state[u] \notin Terminal /\ state' = [state EXCEPT ![u] = s]
  BY <1>8, ThreadFacts DEF ActStart, ActRun
<1>9. ASSUME NEW a \in Acts, Activate(a), ~ActStart(a), ~ActRun(a)
      PROVE  state' = state
  BY <1>9 DEF Activate, ActLock, ActOpenStream, ActHwFailure, ActUnlock, ActInsert, ActReplaced, ActAnnounce
<1>10. ASSUME NEW q \in Threads, ExecDone(q) \/ StreamError(q) PROVE state' = state
  BY <1>10 DEF ExecDone, StreamError
<1> QED BY <1>1, <1>2, <1>3, <1>4, <1>5, <1>6, <1>7, <1>8, <1>9, <1>10, ThreadFacts DEF Next

(* notifyStateChange sends the state the record has at that moment.        *)
LEMMA StatusSteps ==
    ASSUME IInv, [Next]_vars
    PROVE  published' = published \/ \E u \in Tasks : published' = [published EXCEPT ![u] = state[u]]
<1> USE DEF regVars, Publish
<1>1. CASE UNCHANGED vars \/ Finished
  BY <1>1 DEF vars, Finished
<1>2. ASSUME NEW t \in Tasks, ReceiveRequest(t) \/ ReceiveStopOrCancel(t) \/ TimePasses(t)
      PROVE  published' = published
  BY <1>2 DEF ReceiveRequest, ReceiveStopOrCancel, TimePasses
<1>3. CASE AcceptStep /\ ~AnnounceAccepted
  BY <1>3 DEF AcceptStep, CountScheduled, CountPending, CountRunning, Preempt, RejectRequest, AcceptTask
<1>4. CASE AnnounceAccepted
  <2>1. CASE accepting \in Tasks
    BY <1>4, <2>1 DEF AnnounceAccepted
  <2>2. CASE accepting \notin Tasks
    BY <1>4, <2>2 DEF AnnounceAccepted, IInv, TypeOK
  <2> QED BY <2>1, <2>2
<1>5. CASE SchedulerTick \/ WatchdogTick \/ StopRequested \/ MainStep
  BY <1>5 DEF SchedulerTick, WatchdogTick, StopRequested, MainStep, JoinServices, Drain, CloseDevices
<1>6. ASSUME NEW p \in Threads, ReleaseResources(p) \/ NotifyLate(p)
      PROVE  \E u \in Tasks : published' = [published EXCEPT ![u] = state[u]]
  BY <1>6 DEF ReleaseResources, NotifyLate, IInv, CallsInv, InCall
<1>7. ASSUME NEW p \in Threads, Deactivate(p), ~ReleaseResources(p), ~NotifyLate(p)
      PROVE  published' = published
  BY <1>7 DEF Deactivate, ClaimTerminal, ClaimLate, CheckOrphan, Teardown, JoinExec
<1>8. ASSUME NEW a \in Acts, ActAnnounce(a)
      PROVE  \E u \in Tasks : published' = [published EXCEPT ![u] = state[u]]
  BY <1>8, ThreadFacts DEF ActAnnounce
<1>9. ASSUME NEW a \in Acts, Activate(a), ~ActAnnounce(a)
      PROVE  published' = published
  BY <1>9 DEF Activate, ActStart, ActLock, ActOpenStream, ActHwFailure, ActUnlock, ActInsert, ActReplaced, ActRun
<1>10. ASSUME NEW q \in Threads, ExecDone(q) \/ StreamError(q) PROVE published' = published
  BY <1>10 DEF ExecDone, StreamError
<1> QED BY <1>1, <1>2, <1>3, <1>4, <1>5, <1>6, <1>7, <1>8, <1>9, <1>10, ThreadFacts DEF Next

(* A task that has ended keeps its state, and the last status its client   *)
(* got is never taken back, whichever thread runs late.                    *)
THEOREM EndsAreFinal == Spec => EndIsFinal
<1> DEFINE Final == \A t \in Tasks :
             /\ state[t] \in Terminal => state'[t] = state[t]
             /\ published[t] \in Terminal => published'[t] = published[t]
<1>1. ASSUME IInv, [Next]_vars PROVE Final
  <2>1. /\ state \in [Tasks -> {"absent"} \cup Active \cup Terminal]
        /\ published \in [Tasks -> {"absent"} \cup Active \cup Terminal]
        /\ \A t \in Tasks : published[t] \in Terminal => published[t] = state[t]
    BY <1>1 DEF IInv, TypeOK, KnownInv
  <2>2. state' = state \/ \E u \in Tasks : \E s : state[u] \notin Terminal /\ state' = [state EXCEPT ![u] = s]
    BY <1>1, StateSteps
  <2>3. published' = published \/ \E u \in Tasks : published' = [published EXCEPT ![u] = state[u]]
    BY <1>1, StatusSteps
  <2>4. ASSUME NEW t \in Tasks, state[t] \in Terminal PROVE state'[t] = state[t]
    BY <2>1, <2>2, <2>4
  <2>5. ASSUME NEW t \in Tasks, published[t] \in Terminal PROVE published'[t] = published[t]
    BY <2>1, <2>3, <2>5
  <2> QED BY <2>4, <2>5
<1>2. IInv /\ [Next]_vars => [Final]_vars
  BY <1>1
<1> QED BY <1>2, InvariantHolds, PTL DEF Spec, EndIsFinal

(* The steps that the contract sees: a task is accepted, ends, or returns  *)
(* what it leased.  Accepting it leases the ports taken from the pool.     *)
LEMMA ContractBegin ==
    ASSUME ClientsKeepOut, IInv, NEW t \in Tasks, t = accepting, AcceptTask PROVE Contract!Begin(t)
<1> DEFINE mine == Pool!Lowest(free, PoolNeed(t))
<1> USE DEF Active, Terminal
<1>1. t \in Tasks /\ state[t] = "absent" /\ ~slot[t]
  BY ConstantsAssumption DEF AcceptTask, IInv, KnownInv, Admitting
<1>2. /\ state' \in [Tasks -> {"absent"} \cup Active \cup Terminal] /\ slot' \in [Tasks -> BOOLEAN]
      /\ ports' \in [Tasks -> SUBSET Nat]
  BY AcceptTaskInv DEF IInv, TypeOK
<1>3. /\ state'[t] \in Active /\ slot'[t] /\ ports'[t] = ClientPorts[t] \cup mine
      /\ \A u \in Tasks \ {t} : state'[u] = state[u] /\ slot'[u] = slot[u] /\ ports'[u] = ports[u]
  BY <1>1 DEF AcceptTask, IInv, TypeOK
<1>4. mine \subseteq free /\ free \subseteq PoolPorts /\ free \cap used = {}
  BY DEF Pool!Lowest, IInv, TypeOK, PortsInv, PortAccounting
<1>5. ports'[t] \cap PoolPorts = mine
  BY <1>1, <1>3, <1>4 DEF ClientsKeepOut
<1>6. \A u \in Tasks : slot[u] => (ports[u] \cap PoolPorts) \cap mine = {}
  BY <1>4 DEF IInv, PortsInv, PortAccounting
<1> DEFINE stage0 == [u \in Tasks |-> Stage(u)]
           lease0 == [u \in Tasks |-> IF slot[u] THEN ports[u] \cap PoolPorts ELSE {}]
<1>7. mine \in SUBSET (PoolPorts \ UNION {lease0[u] : u \in Tasks})
  BY <1>4, <1>6
<1>8. stage0[t] = "none"
  BY <1>1 DEF Stage
<1>9. stage0' = [stage0 EXCEPT ![t] = "live"]
  BY <1>1, <1>3 DEF Stage
<1>10. lease0' = [lease0 EXCEPT ![t] = mine]
  BY <1>1, <1>3, <1>5
<1> QED BY <1>7, <1>8, <1>9, <1>10 DEF Contract!Begin

(* The first deactivateTask call ends the task.                            *)
LEMMA ContractEnd ==
    ASSUME IInv, NEW p \in Threads, NEW t \in Tasks, ClaimTerminal(p, t) PROVE Contract!End(t)
<1> USE DEF Active, Terminal
<1> DEFINE stage0 == [u \in Tasks |-> Stage(u)]
           lease0 == [u \in Tasks |-> IF slot[u] THEN ports[u] \cap PoolPorts ELSE {}]
<1>1. state[t] \in Active /\ slot[t]
  BY CallsFacts DEF ClaimTerminal, IInv, TypeOK, KnownInv
<1>2. /\ state'[t] \in Terminal /\ \A u \in Tasks \ {t} : state'[u] = state[u]
      /\ UNCHANGED <<slot, ports>>
  BY DEF ClaimTerminal, Goals, poolVars, IInv, TypeOK
<1>3. stage0[t] = "live"
  BY <1>1 DEF Stage
<1>4. stage0' = [stage0 EXCEPT ![t] = "ended"]
  BY <1>1, <1>2 DEF Stage
<1>5. lease0' = lease0
  BY <1>2
<1> QED BY <1>3, <1>4, <1>5 DEF Contract!End

(* The release returns the lease.                                          *)
LEMMA ContractReturn ==
    ASSUME IInv, NEW p \in Threads, NEW t \in Tasks, t = arg[p], ReleaseResources(p) PROVE Contract!Return(t)
<1> USE DEF Active, Terminal
<1> DEFINE stage0 == [u \in Tasks |-> Stage(u)]
           lease0 == [u \in Tasks |-> IF slot[u] THEN ports[u] \cap PoolPorts ELSE {}]
<1>1. t \in Tasks /\ state[t] \in Terminal /\ slot[t]
  BY DEF ReleaseResources, IInv, CallsInv, InCall
<1>2. /\ UNCHANGED <<state, ports>>
      /\ ~slot'[t] /\ \A u \in Tasks \ {t} : slot'[u] = slot[u]
  BY <1>1 DEF ReleaseResources, IInv, TypeOK
<1>3. stage0[t] = "ended"
  BY <1>1 DEF Stage
<1>4. stage0' = [stage0 EXCEPT ![t] = "over"]
  BY <1>1, <1>2 DEF Stage
<1>5. lease0' = [lease0 EXCEPT ![t] = {}]
  BY <1>1, <1>2
<1> QED BY <1>1, <1>3, <1>4, <1>5 DEF Contract!Return

(* Every other step moves a task between the live states at most.          *)
LEMMA ContractStutter ==
    ASSUME IInv, UNCHANGED <<slot, ports>>,
           \A u \in Tasks : state'[u] = state[u] \/ (state[u] \in Active /\ state'[u] \in Active)
    PROVE  UNCHANGED Contract!cvars
<1> USE DEF Active, Terminal
<1> DEFINE stage0 == [u \in Tasks |-> Stage(u)]
           lease0 == [u \in Tasks |-> IF slot[u] THEN ports[u] \cap PoolPorts ELSE {}]
<1>1. stage0' = stage0
  BY DEF Stage
<1>2. lease0' = lease0
  OBVIOUS
<1> QED BY <1>1, <1>2 DEF Contract!cvars

(* ResourceManager keeps the port contract of docs/ICD.md 9.1: a task gets *)
(* ports no other task has, keeps them while it lives and returns them     *)
(* once, after it has ended.                                               *)
THEOREM ImplementsContract == ASSUME ClientsKeepOut PROVE Spec => Contract!SafeSpec
<1>1. Init => Contract!Init
  BY DEF Init, Contract!Init, Stage
<1>2. ASSUME IInv, [Next]_vars PROVE [Contract!Next]_(Contract!cvars)
  <2> USE DEF regVars, poolVars
  <2> DEFINE Still == /\ UNCHANGED <<slot, ports>>
                      /\ \A u \in Tasks : state'[u] = state[u] \/ (state[u] \in Active /\ state'[u] \in Active)
  <2>1. CASE UNCHANGED vars \/ Finished
    <3>1. Still
      BY <2>1 DEF vars, Finished
    <3> QED BY <1>2, <3>1, ContractStutter
  <2>2. ASSUME NEW t \in Tasks, ReceiveRequest(t) \/ ReceiveStopOrCancel(t) \/ TimePasses(t) PROVE Still
    BY <2>2 DEF ReceiveRequest, ReceiveStopOrCancel, TimePasses
  <2>3. ASSUME AcceptStep, ~AcceptTask PROVE Still
    BY <2>3 DEF AcceptStep, CountScheduled, CountPending, CountRunning, Preempt, RejectRequest, AnnounceAccepted
  <2>4. CASE AcceptTask
    <3>1. PICK t \in Tasks : t = accepting
      BY <1>2, <2>4 DEF AcceptTask, IInv, KnownInv, Admitting
    <3> QED BY <1>2, <2>4, <3>1, ContractBegin DEF Contract!Next
  <2>5. ASSUME SchedulerTick \/ WatchdogTick \/ StopRequested \/ MainStep PROVE Still
    BY <2>5 DEF SchedulerTick, WatchdogTick, StopRequested, MainStep, JoinServices, Drain, CloseDevices
  <2>6. ASSUME NEW p \in Threads, NEW t \in Tasks, ClaimTerminal(p, t) PROVE [Contract!Next]_(Contract!cvars)
    BY <1>2, <2>6, ContractEnd DEF Contract!Next
  <2>7. ASSUME NEW p \in Threads, ReleaseResources(p) PROVE [Contract!Next]_(Contract!cvars)
    <3>1. PICK t \in Tasks : t = arg[p]
      BY <1>2, <2>7 DEF ReleaseResources, IInv, CallsInv, InCall
    <3> QED BY <1>2, <2>7, <3>1, ContractReturn DEF Contract!Next
  <2>8. ASSUME NEW p \in Threads, Deactivate(p), ~ReleaseResources(p), \A t \in Tasks : ~ClaimTerminal(p, t)
        PROVE  Still
    BY <2>8 DEF Deactivate, ClaimLate, CheckOrphan, Teardown, JoinExec, NotifyLate
  <2>9. ASSUME NEW a \in Acts, ActStart(a) \/ ActRun(a) PROVE Still
    <3>1. a[2] \in Tasks /\ state[a[2]] # "absent" /\ state \in [Tasks -> {"absent"} \cup Active \cup Terminal]
      BY <1>2, <2>9, ThreadFacts DEF ActStart, ActRun, IInv, KnownInv, TypeOK
    <3> QED BY <2>9, <3>1 DEF ActStart, ActRun, Active
  <2>10. ASSUME NEW a \in Acts, Activate(a), ~ActStart(a), ~ActRun(a) PROVE Still
    BY <2>10 DEF Activate, ActLock, ActOpenStream, ActHwFailure, ActUnlock, ActInsert, ActReplaced, ActAnnounce
  <2>11. ASSUME NEW q \in Threads, ExecDone(q) \/ StreamError(q) PROVE Still
    BY <2>11 DEF ExecDone, StreamError
  <2>12. Still => [Contract!Next]_(Contract!cvars)
    BY <1>2, ContractStutter
  <2> HIDE DEF Still
  <2> QED BY <1>2, <2>1, <2>2, <2>3, <2>4, <2>5, <2>6, <2>7, <2>8, <2>9, <2>10, <2>11, <2>12, ThreadFacts DEF Next
<1>3. IInv /\ [Next]_vars => [Contract!Next]_(Contract!cvars)
  BY <1>2
<1> QED BY <1>1, <1>3, InvariantHolds, PTL DEF Spec, Contract!SafeSpec
=============================================================================
