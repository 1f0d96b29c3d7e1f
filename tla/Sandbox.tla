------------------------------- MODULE Sandbox -------------------------------
(***************************************************************************)
(* The container of one sandbox id under the Docker provisioner, and the   *)
(* processes that run commands in it (API and worker).  Each process keeps *)
(* the container's URL and touches the provisioner at most once per        *)
(* keep-alive interval; the provisioner's reaper deletes a container       *)
(* nobody touched for the idle timeout.  Both keep a clock of the last     *)
(* touch: the provisioner's starts when it serves the request, the         *)
(* process's when the response arrives.  Time passes in ticks.             *)
(***************************************************************************)
EXTENDS Integers, FiniteSets

CONSTANTS
    Processes,          \* each with its own ProvisionerSandboxProvider
    Api,                \* the process whose shutdown deletes its sandboxes
    KeepAlive,          \* sandbox_keepalive_interval_seconds
    Latency,            \* the client's timeout: the longest a response takes
    ExecTimeout,        \* SANDBOX_EXEC_TIMEOUT_SECONDS
    Configured,         \* SANDBOX_IDLE_TIMEOUT_SECONDS
    Margin,             \* the 30 seconds the reaper adds
    MaxCommands,        \* commands run
    MaxFaults           \* failures, restarts and shutdowns

ASSUME SandboxAssumption ==
    /\ Api \in Processes /\ KeepAlive \in Nat \ {0} /\ Latency \in Nat
    /\ ExecTimeout \in Nat \ {0} /\ Configured \in Nat \ {0} /\ Margin \in Nat \ {0}
    /\ MaxCommands \in Nat /\ MaxFaults \in Nat

VARIABLES
    cont,       \* the running container: the number of its launch, 0 none
    launches,   \* containers launched
    tracked,    \* the id is in _last_activity_at
    idle,       \* its age there
    reaper,     \* where the reaper's round is
    req,        \* process -> its create request in the provisioner
    pc,         \* process -> where its call is
    url,        \* process -> the container its cached connection leads to, 0 none
    since,      \* process -> age of _last_touch_at
    use,        \* process -> the container its call found in the table, then runs in
    left,       \* process -> time before the response or the command it waits for times out
    release,    \* where the Api's shutdown is
    budget,     \* what is left of the bounds
    harm        \* which races and failures have happened (see the actions)

server == <<cont, launches, tracked, idle, reaper, req>>
client == <<pc, url, since, use, left, release>>
vars   == <<server, client, budget, harm>>

\* Mutant: a short idle timeout is raised to the command timeout only.
RaisedToExec == IF Configured <= ExecTimeout THEN ExecTimeout ELSE Configured

\* An idle timeout not above the command timeout is raised.
IdleTimeout == IF Configured <= ExecTimeout THEN ExecTimeout + Margin ELSE Configured

NoRequest == [at |-> "none", got |-> 0]
Older(age, most) == IF age < most THEN age + 1 ELSE most
Spend(what) == budget[what] > 0 /\ budget' = [budget EXCEPT ![what] = @ - 1]
Harm(what, when) == harm' = IF when THEN harm \union {what} ELSE harm

Expired == tracked /\ idle >= IdleTimeout

Init == /\ cont = 0 /\ launches = 0 /\ tracked = FALSE /\ idle = 0 /\ reaper = "idle"
        /\ req = [p \in Processes |-> NoRequest]
        /\ pc = [p \in Processes |-> "idle"] /\ url = [p \in Processes |-> 0]
        /\ since = [p \in Processes |-> 0] /\ use = [p \in Processes |-> 0]
        /\ left = [p \in Processes |-> 0] /\ release = "none"
        /\ budget = [commands |-> MaxCommands, faults |-> MaxFaults]
        /\ harm = {}

\* A response is on its way, or a command runs, which has its own time.
Timed(p) == pc[p] \in {"touched", "created", "run"}

\* A command is running for at most ExecTimeout, the timeout of its HTTP call,
\* a response on its way for at most Latency.
Tick == /\ \A p \in Processes : Timed(p) => left[p] > 0
        /\ idle' = Older(idle, IdleTimeout)
        /\ since' = [p \in Processes |-> Older(since[p], KeepAlive)]
        /\ left' = [p \in Processes |-> IF Timed(p) THEN left[p] - 1 ELSE left[p]]
        /\ UNCHANGED <<cont, launches, tracked, reaper, req, pc, url, use, release, budget, harm>>

-----------------------------------------------------------------------------
(* ProvisionerSandboxProvider.get, and the command that follows *)

Goto(p, where) == pc' = [pc EXCEPT ![p] = where]

Run(p, where) == /\ Goto(p, "run")
                 /\ use' = [use EXCEPT ![p] = where]
                 /\ left' = [left EXCEPT ![p] = ExecTimeout]

NoRun == UNCHANGED <<use, left>>

\* A connection touched less than KeepAlive ago is used without asking.
Get(p) ==
    /\ pc[p] = "idle" /\ Spend("commands")
    /\ \/ url[p] # 0 /\ since[p] < KeepAlive /\ Run(p, url[p])
       \/ /\ url[p] # 0 /\ since[p] >= KeepAlive /\ Goto(p, "discover")
          /\ use' = [use EXCEPT ![p] = url[p]] /\ UNCHANGED left
       \/ url[p] = 0 /\ Goto(p, "create") /\ NoRun
    /\ UNCHANGED <<server, url, since, release, harm>>

EndCommand(p) == /\ pc[p] = "run" /\ Goto(p, "idle")
                 /\ left' = [left EXCEPT ![p] = 0] /\ use' = [use EXCEPT ![p] = 0]
                 /\ UNCHANGED <<server, url, since, release, budget, harm>>

\* Mutant: a 404 counts as alive.
MissingIsAlive == "touch"

AfterMissing == "create"

Pop(p) == [url EXCEPT ![p] = 0]

\* discover in the provisioner: 404 if there is no container, or it does not
\* answer the probe.
Discover(p) ==
    /\ pc[p] = "discover"
    /\ \/ cont # 0 /\ Goto(p, "touch") /\ UNCHANGED <<url, budget>>
       \/ /\ (cont = 0 /\ UNCHANGED budget) \/ (cont # 0 /\ Spend("faults"))
          /\ url' = Pop(p) /\ Goto(p, AfterMissing)
    /\ NoRun /\ UNCHANGED <<server, since, release, harm>>

\* The handler's touch, whichever container answered; its response is on its way.
Touch(p) ==
    /\ pc[p] = "touch" /\ Goto(p, "touched")
    /\ left' = [left EXCEPT ![p] = Latency]
    /\ tracked' = TRUE /\ idle' = 0
    /\ UNCHANGED <<cont, launches, reaper, req, url, since, use, release, budget, harm>>

\* The response: the process's clock starts, and the cached URL is used.
TouchReturns(p) ==
    /\ pc[p] = "touched" /\ Run(p, use[p])
    /\ since' = [since EXCEPT ![p] = 0]
    /\ UNCHANGED <<server, url, release, budget, harm>>

\* A touch that raises, also one served whose response is lost, is only logged:
\* the cached URL is used.
TouchFails(p) ==
    /\ pc[p] \in {"discover", "touched"} /\ Run(p, use[p]) /\ Spend("faults")
    /\ Harm("blind", pc[p] = "discover")
    /\ UNCHANGED <<server, url, since, release>>

\* The call of create; an earlier one this process gave up on is answered first.
Ask(p) == /\ pc[p] = "create" /\ req[p].at = "none"
          /\ Goto(p, "await") /\ req' = [req EXCEPT ![p].at = "queued"]
          /\ NoRun /\ UNCHANGED <<cont, launches, tracked, idle, reaper, url, since, release, budget, harm>>

\* The client waits 20 seconds, the provisioner up to 300 for a container.
GiveUp(p) == /\ pc[p] \in {"await", "created"} /\ Goto(p, "idle") /\ Spend("faults")
             /\ use' = [use EXCEPT ![p] = 0] /\ left' = [left EXCEPT ![p] = 0]
             /\ UNCHANGED <<server, url, since, release, harm>>

-----------------------------------------------------------------------------
(* create in the provisioner *)

LockFree == \A q \in Processes : req[q].at # "starting"

\* The process has, or is about to get, the URL of a container.
Holds(p) == \/ url[p] # 0 \/ req[p].at = "made"
            \/ pc[p] \in {"discover", "touch", "touched", "created"}

Launch(p) ==
    /\ launches' = launches + 1 /\ cont' = launches'
    /\ req' = [req EXCEPT ![p] = [at |-> "starting", got |-> launches']]
    /\ Harm("moved", \E q \in Processes : Holds(q))

\* A container that runs and answers is reused; another one is deleted and launched anew.
Create(p) ==
    /\ req[p].at = "queued" /\ LockFree
    /\ \/ cont = 0 /\ Launch(p) /\ UNCHANGED budget
       \/ cont # 0 /\ req' = [req EXCEPT ![p] = [at |-> "made", got |-> cont]]
          /\ UNCHANGED <<cont, launches, budget, harm>>
       \/ cont # 0 /\ Launch(p) /\ Spend("faults")
    /\ UNCHANGED <<tracked, idle, reaper, client>>

Ready(p) == /\ req[p].at = "starting" /\ cont = req[p].got
            /\ req' = [req EXCEPT ![p].at = "made"]
            /\ UNCHANGED <<cont, launches, tracked, idle, reaper, client, budget, harm>>

\* The caller gets the exception if it still waits.
Fails(p) == /\ req' = [req EXCEPT ![p] = NoRequest]
            /\ pc' = [pc EXCEPT ![p] = IF @ = "await" THEN "idle" ELSE @]

\* The new container is not ready in time, or gone: create raises, and
\* leaves a container that no touch has announced to the reaper.
NotReady(p) ==
    /\ req[p].at = "starting" /\ Fails(p)
    /\ \/ cont # req[p].got /\ UNCHANGED <<budget, harm>>
       \/ Spend("faults") /\ Harm("unready", cont # 0 /\ ~tracked)
    /\ UNCHANGED <<cont, launches, tracked, idle, reaper, url, since, use, left, release>>

\* Mutant: a create is not announced to the reaper.
NotAnnounced == tracked

Announced == TRUE

\* The handler's touch and its answer, to a process that still waits.
Answer(p) ==
    /\ req[p].at = "made"
    /\ req' = [req EXCEPT ![p] = NoRequest]
    /\ tracked' = Announced /\ idle' = 0
    /\ IF pc[p] = "await"
       THEN /\ Goto(p, "created") /\ use' = [use EXCEPT ![p] = req[p].got]
            /\ left' = [left EXCEPT ![p] = Latency]
       ELSE UNCHANGED <<pc, use, left>>
    /\ UNCHANGED <<cont, launches, reaper, url, since, release, budget, harm>>

\* The answer arrives: the connection is kept and the process's clock starts.
Connect(p) ==
    /\ pc[p] = "created" /\ Run(p, use[p])
    /\ url' = [url EXCEPT ![p] = use[p]] /\ since' = [since EXCEPT ![p] = 0]
    /\ UNCHANGED <<server, release, budget, harm>>

-----------------------------------------------------------------------------
(* Deletion: the reaper, and the shutdown of the API *)

\* A container is deleted that somebody found or touched since it expired, be
\* its entry still there or not.
Wanted == \/ idle < IdleTimeout
          \/ \E p \in Processes : pc[p] = "touch" \/ req[p].at \in {"starting", "made"}

\* The sandboxes found expired are deleted one after the other.
Collect == /\ reaper = "idle" /\ Expired /\ reaper' = "delete"
           /\ UNCHANGED <<cont, launches, tracked, idle, req, client, budget, harm>>

ReapDelete ==
    /\ reaper = "delete"
    /\ \/ /\ reaper' = "forget" /\ cont' = 0
          /\ Harm("late", cont # 0 /\ Wanted) /\ UNCHANGED budget
       \/ reaper' = "idle" /\ Spend("faults") /\ UNCHANGED <<cont, harm>>
    /\ UNCHANGED <<launches, tracked, idle, req, client>>

\* The entry is removed, also one that a container launched since then has made.
Forget == tracked' = FALSE /\ Harm("forgot", tracked /\ cont # 0)

ReapForget == /\ reaper = "forget" /\ reaper' = "idle" /\ Forget
              /\ UNCHANGED <<cont, launches, idle, req, client, budget>>

\* shutdown: the tables are cleared, then each sandbox is deleted, whoever
\* else uses it.
Shutdown == /\ release = "none" /\ url[Api] # 0 /\ Spend("faults")
            /\ url' = Pop(Api) /\ release' = "delete"
            /\ UNCHANGED <<server, pc, since, use, left, harm>>

ReleaseDelete ==
    /\ release = "delete"
    /\ \/ release' = "forget" /\ cont' = 0 /\ Harm("released", cont # 0) /\ UNCHANGED budget
       \/ release' = "none" /\ Spend("faults") /\ UNCHANGED <<cont, harm>>
    /\ UNCHANGED <<launches, tracked, idle, reaper, req, pc, url, since, use, left>>

ReleaseForget == /\ release = "forget" /\ release' = "none" /\ Forget
                 /\ UNCHANGED <<cont, launches, idle, reaper, req, pc, url, since, use, left, budget>>

-----------------------------------------------------------------------------
(* Crashes *)

ContainerDies == /\ cont # 0 /\ cont' = 0 /\ Spend("faults") /\ harm' = harm \union {"died"}
                 /\ UNCHANGED <<launches, tracked, idle, reaper, req, client>>

\* A process starts again with empty tables.
ProcessRestarts(p) ==
    /\ Spend("faults") /\ Goto(p, "idle") /\ url' = Pop(p)
    /\ use' = [use EXCEPT ![p] = 0] /\ left' = [left EXCEPT ![p] = 0]
    /\ UNCHANGED <<server, since, release, harm>>

\* Mutant: a provisioner that starts tracks nothing it finds.
SeedNothing == {FALSE}

\* The listing finds containers that run, and also one that has exited and was not removed.
Seed == IF cont # 0 THEN {TRUE} ELSE BOOLEAN

\* The provisioner starts again and lists the containers it finds; a failing
\* list is only logged.  Whoever waited for it gets an error.
ProvisionerRestarts ==
    /\ Spend("faults")
    /\ \/ tracked' \in Seed /\ UNCHANGED harm
       \/ tracked' = FALSE /\ Harm("unseeded", cont # 0)
    /\ idle' = 0 /\ reaper' = "idle"
    /\ req' = [p \in Processes |-> NoRequest]
    /\ pc' = [p \in Processes |-> IF pc[p] = "await" THEN "idle"
                                  ELSE IF pc[p] = "touch" THEN "discover" ELSE pc[p]]
    /\ release' = "none"
    /\ UNCHANGED <<cont, launches, url, since, use, left>>

Reap == Collect \/ ReapDelete \/ ReapForget
Release == ReleaseDelete \/ ReleaseForget
Call(p) == EndCommand(p) \/ Discover(p) \/ Touch(p) \/ TouchReturns(p) \/ Ask(p) \/ Connect(p)
Serve(p) == Create(p) \/ Ready(p) \/ NotReady(p) \/ Answer(p)

Next == \/ Tick \/ Reap \/ Release
        \/ \E p \in Processes : Get(p) \/ Call(p) \/ Serve(p) \/ TouchFails(p) \/ GiveUp(p)
                                \/ ProcessRestarts(p)
        \/ Shutdown \/ ContainerDies \/ ProvisionerRestarts

\* Clocks advance, the reaper's thread runs, a request is served, and a call
\* that was answered goes on.
Spec == /\ Init /\ [][Next]_vars
        /\ WF_vars(Tick) /\ WF_vars(Reap) /\ WF_vars(Release)
        /\ \A p \in Processes : WF_vars(Call(p)) /\ WF_vars(Serve(p))

-----------------------------------------------------------------------------
(* Properties *)

Places == {"idle", "discover", "touch", "touched", "create", "await", "created", "run"}

\* Types, and: the backend's lock lets one container start at a time.
TypeOK ==
    /\ cont \in Nat /\ launches \in Nat /\ tracked \in BOOLEAN /\ idle \in 0..IdleTimeout
    /\ reaper \in {"idle", "delete", "forget"} /\ release \in {"none", "delete", "forget"}
    /\ req \in [Processes -> [at : {"none", "queued", "starting", "made"}, got : Nat]]
    /\ pc \in [Processes -> Places]
    /\ url \in [Processes -> Nat] /\ since \in [Processes -> 0..KeepAlive]
    /\ use \in [Processes -> Nat] /\ left \in [Processes -> Nat]
    /\ \A p \in Processes : left[p] <= IF pc[p] = "run" THEN ExecTimeout ELSE Latency
    /\ \A p, q \in Processes : req[p].at = "starting" /\ req[q].at = "starting" => p = q

\* The settings under which the next property holds: an idle timeout that is
\* raised by at least a keep-alive interval and the time a response may take, or
\* needs not be.  The code's own raise is the keep-alive interval alone, and an
\* idle timeout between the command timeout and that sum is left as it is: both
\* reap running commands.
SafeSettings == IF Configured <= ExecTimeout THEN Margin >= KeepAlive + Latency
                ELSE Configured >= KeepAlive + Latency + ExecTimeout

\* A sandbox in which a command runs is never expired, although a command may
\* start up to a keep-alive interval after the response to the last touch, which
\* may have been served long before, and touches nothing while it runs: for every
\* process, however commands, restarts and touches interleave.  A command sent
\* after a touch that was not served is not protected.
NoneExpires == "blind" \notin harm => \A p \in Processes : pc[p] = "run" => ~Expired
RunningIsNotExpired == SafeSettings => NoneExpires

\* A container the reaper does not know of is one being created, or what is
\* left of: a create that failed, a listing that failed at start-up, an entry
\* removed after another container was launched under the same id.
UntrackedIsExplained ==
    cont # 0 /\ ~tracked =>
        \/ \E p \in Processes : req[p].at \in {"starting", "made"}
        \/ harm \intersect {"unready", "unseeded", "forgot"} # {}

\* A command is sent to the container that runs under its id, until one was
\* replaced, deleted by another process, reaped while it was being found, or died,
\* or a touch was not served: nothing is said of what comes after.  The idle timeout
\* is not shorter than the keep-alive interval and the time a response may take.
Undisturbed == harm \intersect {"moved", "released", "late", "died", "blind"} = {}

CommandFindsSandbox ==
    [][KeepAlive + Latency <= IdleTimeout /\ Undisturbed' =>
        \A p \in Processes : pc[p] # "run" /\ pc'[p] = "run" => use'[p] = cont']_vars

\* An abandoned container is reaped in the end, whatever failed, but for the
\* three causes of an unknown container.
AbandonedIsReaped ==
    <>[](cont = 0 \/ harm \intersect {"unready", "unseeded", "forgot"} # {})
=============================================================================
