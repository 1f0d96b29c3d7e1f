---------------------------- MODULE SandboxProofs ----------------------------
(***************************************************************************)
(* Theorems about Sandbox, for every set of processes, every keep-alive    *)
(* interval, timeout and margin and any number of commands and faults: its *)
(* types with the lock of the backend, that a running command's sandbox is *)
(* not expired however long responses take, that a container unknown to    *)
(* the reaper has one of three causes, and that a command is sent to the   *)
(* container that runs.                                                    *)
(***************************************************************************)
EXTENDS Sandbox, TLAPS

LEMMA IdleTimeoutType == IdleTimeout \in Nat \ {0}
  BY SandboxAssumption DEF IdleTimeout

\* Time grows by one up to its bound.
LEMMA OlderType ==
    ASSUME NEW most \in Nat, NEW age \in 0..most
    PROVE  /\ Older(age, most) \in 0..most
           /\ Older(age, most) <= age + 1
           /\ Older(age, most) < most => Older(age, most) = age + 1
  BY DEF Older

\* A race or a failure that happened stays recorded.
LEMMA HarmStays ==
    ASSUME [Next]_vars
    PROVE  harm \subseteq harm'
  BY DEF Next, vars, server, client, Tick, Reap, Release, Collect, ReapDelete, ReapForget, Forget,
         ReleaseDelete, ReleaseForget, Get, Call, EndCommand, Discover, Touch, TouchReturns, Ask, Connect,
         Serve, Create, Launch, Ready, NotReady, Answer, TouchFails, GiveUp, ProcessRestarts, Shutdown,
         ContainerDies, ProvisionerRestarts, Harm

-----------------------------------------------------------------------------
(* Type correctness *)

Request == [at : {"none", "queued", "starting", "made"}, got : Nat]

LEMMA NoRequestType == NoRequest \in Request /\ NoRequest.at = "none"
  BY DEF NoRequest, Request

LEMMA TypeInit == Init => TypeOK
  <1> SUFFICES ASSUME Init PROVE TypeOK
    OBVIOUS
  <1>1. req \in [Processes -> Request] /\ \A p \in Processes : req[p].at # "starting"
    BY NoRequestType DEF Init
  <1>2. idle \in 0..IdleTimeout /\ since \in [Processes -> 0..KeepAlive]
        /\ left \in [Processes -> Nat]
        /\ \A p \in Processes : left[p] <= IF pc[p] = "run" THEN ExecTimeout ELSE Latency
    BY SandboxAssumption, IdleTimeoutType DEF Init
  <1>3. pc \in [Processes -> Places]
    BY DEF Init, Places
  <1> QED BY <1>1, <1>2, <1>3 DEF Init, TypeOK, Request

LEMMA TypeStep == TypeOK /\ [Next]_vars => TypeOK'
  <1> SUFFICES ASSUME TypeOK, [Next]_vars PROVE TypeOK'
    OBVIOUS
  <1> USE SandboxAssumption, IdleTimeoutType DEF TypeOK, server, client
  <1>1. CASE Tick
    <2>1. idle' \in 0..IdleTimeout
      BY <1>1, OlderType DEF Tick
    <2>2. since' \in [Processes -> 0..KeepAlive]
      BY <1>1, OlderType DEF Tick
    <2>3. /\ left' \in [Processes -> Nat]
          /\ \A p \in Processes : left'[p] <= left[p]
      BY <1>1 DEF Tick
    <2> QED BY <1>1, <2>1, <2>2, <2>3 DEF Tick
  <1>2. CASE Reap
    <2>1. tracked' = FALSE \/ tracked' = tracked
      BY <1>2 DEF Reap, Collect, ReapDelete, ReapForget, Forget
    <2>2. tracked' \in BOOLEAN
      BY <2>1, Zenon
    <2> QED BY <1>2, <2>2 DEF Reap, Collect, ReapDelete, ReapForget
  <1>3. CASE Release
    <2>1. tracked' = FALSE \/ tracked' = tracked
      BY <1>3 DEF Release, ReleaseDelete, ReleaseForget, Forget
    <2>2. tracked' \in BOOLEAN
      BY <2>1, Zenon
    <2> QED BY <1>3, <2>2 DEF Release, ReleaseDelete, ReleaseForget
  <1>4. ASSUME NEW p \in Processes, Get(p) PROVE TypeOK'
    <2>1. CASE Run(p, url[p]) /\ url[p] # 0
      BY <1>4, <2>1 DEF Get, Run, Goto, Places
    <2>2. CASE Goto(p, "discover") /\ use' = [use EXCEPT ![p] = url[p]] /\ UNCHANGED left
      BY <1>4, <2>2 DEF Get, Goto, Places
    <2>3. CASE Goto(p, "create") /\ NoRun
      BY <1>4, <2>3 DEF Get, Goto, NoRun, Places
    <2> QED BY <1>4, <2>1, <2>2, <2>3 DEF Get
  <1>5. ASSUME NEW p \in Processes, Call(p) PROVE TypeOK'
    <2>1. CASE EndCommand(p)
      BY <2>1 DEF EndCommand, Goto, Places
    <2>2. CASE Discover(p)
      BY <2>2 DEF Discover, Goto, NoRun, Pop, AfterMissing, Places
    <2>3. CASE Touch(p)
      BY <2>3 DEF Touch, Goto, Places
    <2>4. CASE TouchReturns(p)
      BY <2>4 DEF TouchReturns, Run, Goto, Places
    <2>5. CASE Ask(p)
      BY <2>5 DEF Ask, Goto, NoRun, Places
    <2>6. CASE Connect(p)
      BY <2>6 DEF Connect, Run, Goto, Places
    <2> QED BY <1>5, <2>1, <2>2, <2>3, <2>4, <2>5, <2>6 DEF Call
  <1>6. ASSUME NEW p \in Processes, Serve(p) PROVE TypeOK'
    <2>1. CASE Create(p)
      <3>1. CASE req' = [req EXCEPT ![p] = [at |-> "made", got |-> cont]]
                 /\ UNCHANGED <<cont, launches>>
        <4>1. [at |-> "made", got |-> cont] \in Request
          BY DEF Request
        <4>2. req' \in [Processes -> Request] /\ req'[p].at = "made"
              /\ \A q \in Processes : q # p => req'[q] = req[q]
          BY <3>1, <4>1 DEF Request
        <4> QED BY <2>1, <3>1, <4>2 DEF Create, Request
      <3>2. CASE Launch(p)
        BY <2>1, <3>2 DEF Create, Launch, LockFree
      <3> QED BY <2>1, <3>1, <3>2 DEF Create
    <2>2. CASE Ready(p)
      BY <2>2 DEF Ready
    <2>3. CASE NotReady(p)
      BY <2>3 DEF NotReady, Fails, NoRequest, Places
    <2>4. CASE Answer(p)
      <3>1. tracked' \in BOOLEAN
        BY <2>4, Zenon DEF Answer, Announced
      <3>2. req' \in [Processes -> Request] /\ \A q \in Processes : q # p => req'[q] = req[q]
        BY <2>4, NoRequestType DEF Answer, Request
      <3>3. req'[p].at # "starting"
        BY <2>4, NoRequestType DEF Answer
      <3>4. /\ use' \in [Processes -> Nat] /\ left' \in [Processes -> Nat]
            /\ pc' \in [Processes -> Places]
            /\ \A q \in Processes :
                  left'[q] <= IF pc'[q] = "run" THEN ExecTimeout ELSE Latency
        <4>1. req[p].got \in Nat
          OBVIOUS
        <4>2. CASE pc[p] = "await"
          <5>1. /\ use' = [use EXCEPT ![p] = req[p].got] /\ left' = [left EXCEPT ![p] = Latency]
                /\ Goto(p, "created")
            BY <2>4, <4>2, Zenon DEF Answer
          <5> QED BY <4>1, <5>1 DEF Goto, Places
        <4>3. CASE pc[p] # "await"
          BY <2>4, <4>3 DEF Answer
        <4> QED BY <4>2, <4>3
      <3> QED BY <2>4, <3>1, <3>2, <3>3, <3>4 DEF Answer, Request
    <2> QED BY <1>6, <2>1, <2>2, <2>3, <2>4 DEF Serve
  <1>7. ASSUME NEW p \in Processes, TouchFails(p) PROVE TypeOK'
    BY <1>7 DEF TouchFails, Run, Goto, Places
  <1>8. ASSUME NEW p \in Processes, GiveUp(p) PROVE TypeOK'
    BY <1>8 DEF GiveUp, Goto, Places
  <1>9. ASSUME NEW p \in Processes, ProcessRestarts(p) PROVE TypeOK'
    BY <1>9 DEF ProcessRestarts, Goto, Pop, Places
  <1>10. CASE Shutdown
    BY <1>10 DEF Shutdown, Pop
  <1>11. CASE ContainerDies
    BY <1>11 DEF ContainerDies
  <1>12. CASE ProvisionerRestarts
    <2>1. tracked' \in BOOLEAN
      BY <1>12, Zenon DEF ProvisionerRestarts, Seed
    <2>2. req' \in [Processes -> Request] /\ \A p \in Processes : req'[p].at # "starting"
      BY <1>12, NoRequestType DEF ProvisionerRestarts
    <2>3. /\ pc' \in [Processes -> Places]
          /\ \A p \in Processes : pc'[p] = "run" <=> pc[p] = "run"
      BY <1>12 DEF ProvisionerRestarts, Places
    <2> QED BY <1>12, <2>1, <2>2, <2>3 DEF ProvisionerRestarts, Request
  <1>13. CASE UNCHANGED vars
    BY <1>13 DEF vars
  <1> QED BY <1>1, <1>2, <1>3, <1>4, <1>5, <1>6, <1>7, <1>8, <1>9, <1>10, <1>11, <1>12, <1>13
          DEF Next

\* Every variable keeps its type and, create being serialised by the backend's
\* lock, at most one container is being started.
THEOREM TypeCorrect == Spec => []TypeOK
  <1>1. Init => TypeOK
    BY TypeInit
  <1>2. TypeOK /\ [Next]_vars => TypeOK'
    BY TypeStep
  <1> QED BY <1>1, <1>2, PTL DEF Spec

-----------------------------------------------------------------------------
(* A running command's sandbox is not expired *)

\* While a cached URL may still be used without asking, the sandbox was touched
\* at most the time of a response longer ago than that process remembers; it was
\* touched no longer ago than a response on its way has taken; and a command
\* started at most a keep-alive interval and a response after the last touch.
TouchedSince(p) == url[p] # 0 /\ since[p] < KeepAlive => idle <= since[p] + Latency
InFlight(p) == pc[p] \in {"touched", "created"} => idle + left[p] <= Latency
StartedInTime(p) == pc[p] = "run" => idle + left[p] <= KeepAlive - 1 + Latency + ExecTimeout
TimeInv == "blind" \notin harm =>
               \A p \in Processes : TouchedSince(p) /\ InFlight(p) /\ StartedInTime(p)

LEMMA TimeInit == Init => TimeInv
  BY DEF Init, TimeInv, TouchedSince, InFlight, StartedInTime

LEMMA TimeStep == TypeOK /\ TimeInv /\ [Next]_vars => TimeInv'
  <1> SUFFICES ASSUME TypeOK, TimeInv, [Next]_vars, "blind" \notin harm', NEW q \in Processes
               PROVE  (TouchedSince(q) /\ InFlight(q) /\ StartedInTime(q))'
    BY DEF TimeInv
  <1> DEFINE Goal == (TouchedSince(q) /\ InFlight(q) /\ StartedInTime(q))'
  <1>0. \A p \in Processes : TouchedSince(p) /\ InFlight(p) /\ StartedInTime(p)
    BY HarmStays DEF TimeInv
  <1> HIDE DEF TimeInv
  <1>t. /\ idle \in Nat /\ since \in [Processes -> Nat] /\ left \in [Processes -> Nat]
        /\ url \in [Processes -> Nat] /\ pc \in [Processes -> Places]
        /\ \A p \in Processes : left[p] <= IF pc[p] = "run" THEN ExecTimeout ELSE Latency
    BY SandboxAssumption, IdleTimeoutType DEF TypeOK
  <1> USE SandboxAssumption, <1>0, <1>t DEF TouchedSince, InFlight, StartedInTime, server, client
  <1>1. CASE Tick
    <2>0. idle \in 0..IdleTimeout /\ since[q] \in 0..KeepAlive
      BY DEF TypeOK
    <2>1. /\ idle' <= idle + 1 /\ idle' \in Nat
          /\ since'[q] \in Nat /\ (since'[q] < KeepAlive => since'[q] = since[q] + 1)
      BY <1>1, <2>0, OlderType, IdleTimeoutType DEF Tick
    <2>2. Timed(q) => left'[q] = left[q] - 1 /\ left[q] > 0
      BY <1>1 DEF Tick
    <2>3. UNCHANGED <<url, pc>>
      BY <1>1 DEF Tick
    <2>4. since'[q] < KeepAlive => since[q] < KeepAlive
      BY <2>1
    <2>5. TouchedSince(q)'
      BY <2>1, <2>3, <2>4
    <2>6. InFlight(q)' /\ StartedInTime(q)'
      BY <2>1, <2>2, <2>3 DEF Timed
    <2> QED BY <2>5, <2>6
  <1>2. CASE Reap
    BY <1>2 DEF Reap, Collect, ReapDelete, ReapForget
  <1>3. CASE Release
    BY <1>3 DEF Release, ReleaseDelete, ReleaseForget
  <1>4. ASSUME NEW p \in Processes, Get(p) PROVE Goal
    <2>1. CASE pc'[q] = "run" /\ pc[q] # "run"
      <3>1. url[q] # 0 /\ since[q] < KeepAlive /\ left'[q] = ExecTimeout
        BY <1>4, <2>1 DEF Get, Run, Goto, NoRun
      <3> QED BY <1>4, <2>1, <3>1 DEF Get
    <2>2. CASE ~(pc'[q] = "run" /\ pc[q] # "run")
      <3>1. /\ pc'[q] = "run" => left'[q] = left[q]
            /\ pc'[q] \in {"touched", "created"} => pc'[q] = pc[q] /\ left'[q] = left[q]
        BY <1>4, <2>2 DEF Get, Run, Goto, NoRun
      <3> QED BY <1>4, <2>2, <3>1 DEF Get
    <2> QED BY <2>1, <2>2
  <1>5. ASSUME NEW p \in Processes, Call(p) PROVE Goal
    <2>1. CASE EndCommand(p)
      BY <2>1 DEF EndCommand, Goto
    <2>2. CASE Discover(p)
      BY <2>2 DEF Discover, Goto, NoRun, Pop, AfterMissing
    <2>3. CASE Touch(p)
      <3>1. idle' = 0 /\ UNCHANGED <<url, since>> /\ left'[q] \in {left[q], Latency}
        BY <2>3 DEF Touch
      <3>2. \/ pc'[q] = pc[q] /\ left'[q] = left[q]
            \/ pc'[q] = "touched" /\ left'[q] = Latency
        BY <2>3 DEF Touch, Goto
      <3> QED BY <3>1, <3>2
    <2>4. CASE TouchReturns(p)
      BY <2>4 DEF TouchReturns, Run, Goto
    <2>5. CASE Ask(p)
      BY <2>5 DEF Ask, Goto, NoRun
    <2>6. CASE Connect(p)
      BY <2>6 DEF Connect, Run, Goto
    <2> QED BY <1>5, <2>1, <2>2, <2>3, <2>4, <2>5, <2>6 DEF Call
  <1>6. ASSUME NEW p \in Processes, Serve(p) PROVE Goal
    <2>1. CASE Create(p) \/ Ready(p)
      BY <2>1 DEF Create, Ready
    <2>2. CASE NotReady(p)
      BY <2>2 DEF NotReady, Fails
    <2>3. CASE Answer(p)
      <3>1. idle' = 0 /\ UNCHANGED <<url, since>>
        BY <2>3 DEF Answer
      <3>2. \/ pc'[q] = pc[q] /\ left'[q] = left[q]
            \/ pc'[q] = "created" /\ left'[q] = Latency
        BY <2>3 DEF Answer, Goto
      <3> QED BY <3>1, <3>2
    <2> QED BY <1>6, <2>1, <2>2, <2>3 DEF Serve
  <1>7. ASSUME NEW p \in Processes, TouchFails(p) PROVE Goal
    <2>1. pc[p] = "touched"
      BY <1>7 DEF TouchFails, Harm
    <2> QED BY <1>7, <2>1 DEF TouchFails, Run, Goto
  <1>8. ASSUME NEW p \in Processes, GiveUp(p) PROVE Goal
    BY <1>8 DEF GiveUp, Goto
  <1>9. ASSUME NEW p \in Processes, ProcessRestarts(p) PROVE Goal
    BY <1>9 DEF ProcessRestarts, Goto, Pop
  <1>10. CASE Shutdown
    BY <1>10 DEF Shutdown, Pop
  <1>11. CASE ContainerDies
    BY <1>11 DEF ContainerDies
  <1>12. CASE ProvisionerRestarts
    BY <1>12 DEF ProvisionerRestarts
  <1>13. CASE UNCHANGED vars
    BY <1>13 DEF vars
  <1> QED BY <1>1, <1>2, <1>3, <1>4, <1>5, <1>6, <1>7, <1>8, <1>9, <1>10, <1>11, <1>12, <1>13
          DEF Next

LEMMA TimeImplies == TypeOK /\ TimeInv => RunningIsNotExpired
  <1> SUFFICES ASSUME TypeOK, TimeInv, SafeSettings, "blind" \notin harm,
                      NEW p \in Processes, pc[p] = "run", Expired
               PROVE  FALSE
    BY DEF RunningIsNotExpired, NoneExpires
  <1>1. idle + left[p] <= KeepAlive - 1 + Latency + ExecTimeout
    BY DEF TimeInv, StartedInTime
  <1>2. left[p] \in Nat /\ idle \in Nat /\ idle >= IdleTimeout
    BY IdleTimeoutType DEF TypeOK, Expired
  <1>3. IdleTimeout >= KeepAlive + Latency + ExecTimeout
    BY SandboxAssumption DEF SafeSettings, IdleTimeout
  <1> QED BY <1>1, <1>2, <1>3, SandboxAssumption, IdleTimeoutType

\* The reaper and each process keep clocks of their own, and a process's starts up
\* to Latency later: for any settings with room for a keep-alive interval, a
\* response and a command, the reaper never finds expired a sandbox in which a
\* command runs, however many processes share it.
THEOREM RunningSandboxKept == Spec => []RunningIsNotExpired
  <1>1. Init => TypeOK /\ TimeInv
    BY TypeInit, TimeInit
  <1>2. (TypeOK /\ TimeInv) /\ [Next]_vars => (TypeOK /\ TimeInv)'
    BY TypeStep, TimeStep
  <1>3. TypeOK /\ TimeInv => RunningIsNotExpired
    BY TimeImplies
  <1> QED BY <1>1, <1>2, <1>3, PTL DEF Spec

-----------------------------------------------------------------------------
(* A container the reaper does not know of has one of three causes *)

\* While a container is being started no other one runs: the lock of the
\* backend keeps the other requests out.
OnlyTheStarted ==
    \A p \in Processes : req[p].at = "starting" => cont \in {0, req[p].got}

Coming == \E p \in Processes : req[p].at \in {"starting", "made"}
Causes == harm \intersect {"unready", "unseeded", "forgot"} # {}

LEMMA StartedStep == TypeOK /\ OnlyTheStarted /\ [Next]_vars => OnlyTheStarted'
  <1> SUFFICES ASSUME TypeOK, OnlyTheStarted, [Next]_vars, NEW q \in Processes,
                      req'[q].at = "starting"
               PROVE  cont' \in {0, req'[q].got}
    BY DEF OnlyTheStarted
  <1> USE DEF TypeOK, OnlyTheStarted, server, client
  <1>1. CASE UNCHANGED req /\ cont' \in {0, cont}
    BY <1>1
  <1>2. ASSUME NEW p \in Processes, Ask(p) PROVE cont' \in {0, req'[q].got}
    BY <1>2 DEF Ask
  <1>3. ASSUME NEW p \in Processes, Create(p) PROVE cont' \in {0, req'[q].got}
    <2>1. CASE Launch(p)
      <3>1. q = p
        BY <1>3, <2>1 DEF Create, Launch, LockFree
      <3> QED BY <2>1, <3>1 DEF Launch
    <2>2. CASE req' = [req EXCEPT ![p] = [at |-> "made", got |-> cont]]
      BY <1>3, <2>2 DEF Create, LockFree
    <2> QED BY <1>3, <2>1, <2>2 DEF Create
  <1>4. ASSUME NEW p \in Processes, Ready(p) PROVE cont' \in {0, req'[q].got}
    BY <1>4 DEF Ready
  <1>5. ASSUME NEW p \in Processes, NotReady(p) PROVE cont' \in {0, req'[q].got}
    BY <1>5 DEF NotReady, Fails, NoRequest
  <1>6. ASSUME NEW p \in Processes, Answer(p) PROVE cont' \in {0, req'[q].got}
    BY <1>6 DEF Answer, NoRequest
  <1>7. CASE ProvisionerRestarts
    BY <1>7 DEF ProvisionerRestarts, NoRequest
  <1>8. ~(\E p \in Processes : Ask(p) \/ Serve(p)) /\ ~ProvisionerRestarts
          => UNCHANGED req /\ cont' \in {0, cont}
    BY DEF Next, vars, Tick, Reap, Release, Collect, ReapDelete, ReapForget, ReleaseDelete,
           ReleaseForget, Get, Call, EndCommand, Discover, Touch, TouchReturns, Connect,
           TouchFails, GiveUp, ProcessRestarts, Shutdown, ContainerDies
  <1> QED BY <1>1, <1>2, <1>3, <1>4, <1>5, <1>6, <1>7, <1>8 DEF Serve

LEMMA KnownStep ==
    TypeOK /\ OnlyTheStarted /\ UntrackedIsExplained /\ [Next]_vars => UntrackedIsExplained'
  <1> SUFFICES ASSUME TypeOK, OnlyTheStarted, cont # 0 /\ ~tracked => Coming \/ Causes,
                      [Next]_vars, cont' # 0, ~tracked', ~Causes'
               PROVE  Coming'
    BY DEF UntrackedIsExplained, Coming, Causes
  <1>0. ~Causes
    BY HarmStays DEF Causes
  <1> USE <1>0 DEF server, client
  <1>1. CASE UNCHANGED <<cont, tracked, req>>
    BY <1>1 DEF Coming
  <1>2. CASE Reap
    <2>1. CASE ReapForget
      BY <2>1 DEF ReapForget, Forget, Harm, Causes, Coming
    <2>2. CASE Collect \/ ReapDelete
      <3>1. UNCHANGED <<tracked, req>> /\ cont' \in {0, cont}
        BY <2>2 DEF Collect, ReapDelete
      <3> QED BY <3>1 DEF Coming
    <2> QED BY <1>2, <2>1, <2>2 DEF Reap
  <1>3. CASE Release
    <2>1. CASE ReleaseForget
      BY <2>1 DEF ReleaseForget, Forget, Harm, Causes, Coming
    <2>2. CASE ReleaseDelete
      <3>1. UNCHANGED <<tracked, req>> /\ cont' \in {0, cont}
        BY <2>2 DEF ReleaseDelete
      <3> QED BY <3>1 DEF Coming
    <2> QED BY <1>3, <2>1, <2>2 DEF Release
  <1>4. ASSUME NEW p \in Processes, Touch(p) \/ Answer(p) PROVE Coming'
    BY <1>4 DEF Touch, Answer, Announced
  <1>5. ASSUME NEW p \in Processes, Ask(p) PROVE Coming'
    BY <1>5 DEF Ask, Coming, TypeOK
  <1>6. ASSUME NEW p \in Processes, Create(p) PROVE Coming'
    <2>1. \/ req' = [req EXCEPT ![p] = [at |-> "starting", got |-> launches']]
          \/ req' = [req EXCEPT ![p] = [at |-> "made", got |-> cont]]
      BY <1>6, Zenon DEF Create, Launch
    <2>2. req'[p].at \in {"starting", "made"}
      BY <2>1 DEF TypeOK
    <2> QED BY <2>2 DEF Coming
  <1>7. ASSUME NEW p \in Processes, Ready(p) PROVE Coming'
    <2>1. req'[p].at = "made"
      BY <1>7 DEF Ready, TypeOK
    <2> QED BY <2>1 DEF Coming
  <1>8. ASSUME NEW p \in Processes, NotReady(p) PROVE Coming'
    BY <1>8 DEF NotReady, Harm, Causes, OnlyTheStarted
  <1>9. CASE ContainerDies
    BY <1>9 DEF ContainerDies
  <1>10. CASE ProvisionerRestarts
    BY <1>10 DEF ProvisionerRestarts, Seed, Harm, Causes
  <1>11. ~Reap /\ ~Release /\ ~ContainerDies /\ ~ProvisionerRestarts
         /\ ~(\E p \in Processes : Touch(p) \/ Ask(p) \/ Serve(p))
           => UNCHANGED <<cont, tracked, req>>
    BY DEF Next, vars, Tick, Get, Call, EndCommand, Discover, TouchReturns, Connect, TouchFails,
           GiveUp, ProcessRestarts, Shutdown
  <1> QED BY <1>1, <1>2, <1>3, <1>4, <1>5, <1>6, <1>7, <1>8, <1>9, <1>10, <1>11 DEF Serve

\* The reaper knows of every container that is not just being created, but for
\* one left by a create that failed, a listing that failed or an entry removed
\* too late: nothing else lets a container run for ever.
THEOREM UntrackedExplained == Spec => []UntrackedIsExplained
  <1> DEFINE KnownInv == TypeOK /\ OnlyTheStarted /\ UntrackedIsExplained
  <1>1. Init => KnownInv
    <2>1. Init => OnlyTheStarted /\ UntrackedIsExplained
      BY DEF Init, OnlyTheStarted, UntrackedIsExplained
    <2> QED BY <2>1, TypeInit
  <1>2. KnownInv /\ [Next]_vars => KnownInv'
    BY TypeStep, StartedStep, KnownStep
  <1>3. KnownInv => UntrackedIsExplained
    OBVIOUS
  <1> HIDE DEF KnownInv
  <1> QED BY <1>1, <1>2, <1>3, PTL DEF Spec

-----------------------------------------------------------------------------
(* A command finds its sandbox *)

\* A URL that was kept leads to the running container, and to one that runs
\* while it may be used without asking; so does a URL in a call on its way, or
\* in a request about to be answered.
KeptUrl(p) == url[p] # 0 => /\ cont \in {0, url[p]}
                            /\ since[p] < KeepAlive => cont # 0
FoundUrl(p) == /\ pc[p] = "discover" => use[p] # 0 /\ cont \in {0, use[p]}
               /\ pc[p] \in {"touch", "touched", "created"} => use[p] # 0 /\ cont = use[p]
MadeUrl(p) == /\ req[p].at = "made" => req[p].got # 0 /\ cont = req[p].got
              /\ req[p].at = "starting" => req[p].got # 0
FindInv == KeepAlive + Latency <= IdleTimeout /\ Undisturbed =>
               \A p \in Processes : KeptUrl(p) /\ FoundUrl(p) /\ MadeUrl(p)

LEMMA FindInit == Init => FindInv
  BY NoRequestType DEF Init, FindInv, KeptUrl, FoundUrl, MadeUrl

LEMMA UndisturbedBefore == ASSUME [Next]_vars, Undisturbed' PROVE Undisturbed
  BY HarmStays DEF Undisturbed

LEMMA FindStep == TypeOK /\ TimeInv /\ FindInv /\ [Next]_vars => FindInv'
  <1> SUFFICES ASSUME TypeOK, TimeInv, FindInv, [Next]_vars, KeepAlive + Latency <= IdleTimeout,
                      Undisturbed', NEW q \in Processes
               PROVE  (KeptUrl(q) /\ FoundUrl(q) /\ MadeUrl(q))'
    BY DEF FindInv, IdleTimeout
  <1> DEFINE Goal == (KeptUrl(q) /\ FoundUrl(q) /\ MadeUrl(q))'
  <1>0. /\ Undisturbed
        /\ \A p \in Processes : KeptUrl(p) /\ FoundUrl(p) /\ MadeUrl(p) /\ TouchedSince(p)
                                 /\ InFlight(p)
    BY UndisturbedBefore DEF FindInv, TimeInv, Undisturbed
  <1>t. /\ cont \in Nat /\ launches \in Nat /\ idle \in Nat /\ since \in [Processes -> Nat]
        /\ url \in [Processes -> Nat] /\ use \in [Processes -> Nat]
        /\ req \in [Processes -> Request]
        /\ pc \in [Processes -> Places] /\ left \in [Processes -> Nat]
    BY SandboxAssumption, IdleTimeoutType DEF TypeOK, Request
  <1> HIDE DEF FindInv, TimeInv, TypeOK
  <1> USE SandboxAssumption, <1>0, <1>t DEF KeptUrl, FoundUrl, MadeUrl, server, client
  <1>1. CASE Tick
    <2>1. since'[q] < KeepAlive => since[q] < KeepAlive
      BY <1>1, OlderType DEF Tick, TypeOK
    <2> QED BY <1>1, <2>1 DEF Tick
  <1>2. CASE Reap
    <2>1. CASE Collect \/ ReapForget \/ UNCHANGED cont
      BY <1>2, <2>1 DEF Reap, Collect, ReapDelete, ReapForget
    <2>2. CASE ReapDelete /\ cont' = 0 /\ cont # 0
      <3>1. ~Wanted
        BY <2>2 DEF ReapDelete, Harm, Undisturbed
      <3>2. pc[q] # "touch" /\ req[q].at \notin {"starting", "made"} /\ idle >= IdleTimeout
        BY <3>1, IdleTimeoutType DEF Wanted
      <3>3. url[q] # 0 => since[q] >= KeepAlive
        BY <3>2, IdleTimeoutType DEF TouchedSince
      <3>4. pc[q] \notin {"touched", "created"}
        BY <3>2, IdleTimeoutType DEF InFlight
      <3> QED BY <2>2, <3>2, <3>3, <3>4 DEF ReapDelete
    <2> QED BY <1>2, <2>1, <2>2 DEF Reap, ReapDelete
  <1>3. CASE Release
    <2>1. CASE UNCHANGED cont
      BY <1>3, <2>1 DEF Release, ReleaseDelete, ReleaseForget
    <2>2. CASE ReleaseDelete /\ cont' = 0 /\ cont # 0
      BY <2>2 DEF ReleaseDelete, Harm, Undisturbed
    <2> QED BY <1>3, <2>1, <2>2 DEF Release, ReleaseDelete, ReleaseForget
  <1>4. ASSUME NEW p \in Processes, Get(p) PROVE Goal
    BY <1>4 DEF Get, Run, Goto, NoRun
  <1>5. ASSUME NEW p \in Processes, Call(p) PROVE Goal
    <2>1. CASE EndCommand(p)
      BY <2>1 DEF EndCommand, Goto
    <2>2. CASE Discover(p)
      BY <2>2 DEF Discover, Goto, NoRun, Pop, AfterMissing
    <2>3. CASE Touch(p)
      BY <2>3 DEF Touch, Goto
    <2>4. CASE TouchReturns(p)
      BY <2>4 DEF TouchReturns, Run, Goto
    <2>5. CASE Ask(p)
      BY <2>5 DEF Ask, Goto, NoRun, Request
    <2>6. CASE Connect(p)
      BY <2>6 DEF Connect, Run, Goto
    <2> QED BY <1>5, <2>1, <2>2, <2>3, <2>4, <2>5, <2>6 DEF Call
  <1>6. ASSUME NEW p \in Processes, Serve(p) PROVE Goal
    <2>1. CASE Create(p)
      <3>1. CASE Launch(p)
        <4>1. ~Holds(q)
          BY <3>1 DEF Launch, Harm, Undisturbed
        <4>2. /\ url'[q] = 0 /\ req[q].at # "made"
              /\ pc'[q] \notin {"discover", "touch", "touched", "created"}
          BY <2>1, <4>1 DEF Holds, Create
        <4>3. req'[q].at # "made" /\ (req'[q].at = "starting" => req'[q].got # 0)
          BY <3>1, <4>2 DEF Launch, Request
        <4> QED BY <4>2, <4>3
      <3>2. CASE cont # 0 /\ req' = [req EXCEPT ![p] = [at |-> "made", got |-> cont]]
                 /\ UNCHANGED cont
        BY <2>1, <3>2 DEF Create
      <3> QED BY <2>1, <3>1, <3>2 DEF Create
    <2>2. CASE Ready(p)
      BY <2>2 DEF Ready, Request
    <2>3. CASE NotReady(p)
      BY <2>3 DEF NotReady, Fails, NoRequest
    <2>4. CASE Answer(p)
      <3>1. UNCHANGED cont /\ (req'[q] = req[q] \/ req'[q] = NoRequest)
        BY <2>4 DEF Answer
      <3>2. CASE q = p /\ pc[p] = "await"
        <4>1. /\ url'[q] = url[q] /\ since'[q] = since[q]
              /\ pc'[q] = "created" /\ use'[q] = req[q].got
          BY <2>4, <3>2 DEF Answer, Goto
        <4>2. req[q].got # 0 /\ cont = req[q].got
          BY <2>4, <3>2 DEF Answer
        <4> QED BY <3>1, <4>1, <4>2, NoRequestType
      <3>3. CASE ~(q = p /\ pc[p] = "await")
        <4>1. url'[q] = url[q] /\ since'[q] = since[q] /\ pc'[q] = pc[q] /\ use'[q] = use[q]
          BY <2>4, <3>3 DEF Answer, Goto
        <4> QED BY <3>1, <4>1, NoRequestType
      <3> QED BY <3>2, <3>3
    <2> QED BY <1>6, <2>1, <2>2, <2>3, <2>4 DEF Serve
  <1>7. ASSUME NEW p \in Processes, TouchFails(p) PROVE Goal
    BY <1>7 DEF TouchFails, Run, Goto
  <1>8. ASSUME NEW p \in Processes, GiveUp(p) PROVE Goal
    BY <1>8 DEF GiveUp, Goto
  <1>9. ASSUME NEW p \in Processes, ProcessRestarts(p) PROVE Goal
    BY <1>9 DEF ProcessRestarts, Goto, Pop
  <1>10. CASE Shutdown
    BY <1>10 DEF Shutdown, Pop
  <1>11. CASE ContainerDies
    BY <1>11 DEF ContainerDies, Undisturbed
  <1>12. CASE ProvisionerRestarts
    BY <1>12, NoRequestType DEF ProvisionerRestarts
  <1>13. CASE UNCHANGED vars
    BY <1>13 DEF vars
  <1> QED BY <1>1, <1>2, <1>3, <1>4, <1>5, <1>6, <1>7, <1>8, <1>9, <1>10, <1>11, <1>12, <1>13
          DEF Next

LEMMA StartStep ==
    ASSUME TypeOK, FindInv, [Next]_vars, KeepAlive + Latency <= IdleTimeout, Undisturbed',
           NEW q \in Processes, pc[q] # "run", pc'[q] = "run"
    PROVE  use'[q] = cont'
  <1>0. KeptUrl(q) /\ FoundUrl(q) /\ MadeUrl(q)
    BY UndisturbedBefore DEF FindInv
  <1>t. /\ cont \in Nat /\ url \in [Processes -> Nat] /\ use \in [Processes -> Nat]
        /\ req \in [Processes -> Request]
        /\ pc \in [Processes -> Places]
    BY DEF TypeOK, Request
  <1> USE <1>0, <1>t DEF KeptUrl, FoundUrl, MadeUrl, server, client
  <1>1. ASSUME NEW p \in Processes, Get(p) PROVE use'[q] = cont'
    BY <1>1 DEF Get, Run, Goto, NoRun
  <1>2. ASSUME NEW p \in Processes, TouchReturns(p) PROVE use'[q] = cont'
    BY <1>2 DEF TouchReturns, Run, Goto
  <1>3. ASSUME NEW p \in Processes, Connect(p) PROVE use'[q] = cont'
    BY <1>3 DEF Connect, Run, Goto
  <1>4. ASSUME NEW p \in Processes, TouchFails(p) PROVE use'[q] = cont'
    <2>1. pc[p] = "touched"
      BY <1>4 DEF TouchFails, Harm, Undisturbed
    <2> QED BY <1>4, <2>1 DEF TouchFails, Run, Goto
  <1>5. ASSUME NEW p \in Processes, EndCommand(p) \/ Discover(p) \/ Touch(p) \/ Ask(p)
                                    \/ NotReady(p) \/ Answer(p) \/ GiveUp(p)
                                    \/ ProcessRestarts(p)
        PROVE  FALSE
    BY <1>5 DEF EndCommand, Discover, Touch, Ask, NotReady, Fails, Answer, GiveUp,
                ProcessRestarts, Goto, AfterMissing
  <1>6. ASSUME NEW p \in Processes, Create(p) \/ Ready(p) PROVE FALSE
    BY <1>6 DEF Create, Ready
  <1>7. CASE ProvisionerRestarts
    BY <1>7 DEF ProvisionerRestarts
  <1>8. ~(Tick \/ Reap \/ Release \/ Shutdown \/ ContainerDies \/ UNCHANGED vars)
    BY DEF Tick, Reap, Release, Collect, ReapDelete, ReapForget, ReleaseDelete, ReleaseForget,
           Shutdown, ContainerDies, vars
  <1> QED BY <1>1, <1>2, <1>3, <1>4, <1>5, <1>6, <1>7, <1>8 DEF Next, Call, Serve

\* Whatever its URL was kept for or asked from, a command is sent to the
\* container that runs under its id, unless one of five named things happened.
THEOREM CommandReachesSandbox == Spec => CommandFindsSandbox
  <1> DEFINE Inv == TypeOK /\ TimeInv /\ FindInv
  <1>1. Init => Inv
    BY TypeInit, TimeInit, FindInit
  <1>2. Inv /\ [Next]_vars => Inv'
    BY TypeStep, TimeStep, FindStep
  <1>3. TypeOK /\ FindInv /\ [Next]_vars
          => [KeepAlive + Latency <= IdleTimeout /\ Undisturbed' =>
                \A p \in Processes : pc[p] # "run" /\ pc'[p] = "run" => use'[p] = cont']_vars
    BY StartStep
  <1> QED BY <1>1, <1>2, <1>3, PTL DEF Spec, CommandFindsSandbox
=============================================================================
