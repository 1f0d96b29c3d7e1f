----------------------------- MODULE SubagentRun -----------------------------
(***************************************************************************)
(* The task tool: a subagent called by the agent of a run, inside the      *)
(* stream which the run's worker consumes.  The subagent has a row of its  *)
(* own in agent_runs, keyed by the parent run and the tool call, which the *)
(* tool call's coroutine settles; no worker and no queue knows of it.      *)
(* The module follows one tool call through the attempts of its run.       *)
(***************************************************************************)
EXTENDS RunWorker

CONSTANT MaxSlips       \* bound: failures of the tool call's own awaits

ASSUME SubagentRunAssumption == MaxSlips \in Nat

VARIABLES
    child,      \* the status of the subagent's row
    call,       \* where the tool call is
    aim,        \* the terminal status it is about to commit
    called,     \* the last attempt that made the call
    invoked,    \* how many times the subagent was run
    slips,      \* failures so far
    lost        \* history: how the row of an active subagent lost its call

childVars == <<child, call, aim, called, invoked, slips, lost>>
treeVars == <<vars, childVars>>

NoRow == "none"
Calls == {"idle", "create", "prepare", "invoke", "settle"}

SubagentInit == /\ child = NoRow /\ call = "idle" /\ aim = "completed"
                /\ called = 0 /\ invoked = 0 /\ slips = 0 /\ lost = {}

Slip == slips < MaxSlips /\ slips' = slips + 1

\* The agent's stream is being consumed.
Alive == pc \in TryPlaces /\ mode \in TryModes

Advance(from, to) == call = from /\ call' = to

\* The call is over, and its row, if active, nobody's.
Abandon(how) == /\ call' = "idle"
                /\ lost' = IF child \in ActiveStatuses THEN lost \union {how} ELSE lost

-----------------------------------------------------------------------------
(* atask *)

\* A later attempt may make the same call again: a resumed run goes on from
\* its checkpoint.  (One call at a time; a call whose predecessor still runs
\* would find its row.)
CallTask == /\ Alive /\ gen = "body" /\ mode = "loop" /\ called < try
            /\ Advance("idle", "create") /\ called' = try
            /\ UNCHANGED <<child, aim, invoked, slips, lost>>

\* Mutant: only an active run counts as the call's.
ExistingActive == child \in ActiveStatuses

\* Mutant: every attempt has a run of its own.
ExistingNone == FALSE

Existing == child # NoRow

\* _create_subagent_run: the row is inserted and marked in one transaction;
\* if there is one for this call, its status is the answer.
CreateRun == /\ call = "create"
             /\ IF Existing THEN call' = "idle" /\ UNCHANGED child
                ELSE call' = "prepare" /\ child' = MarkRunning(CreatedStatus)
             /\ UNCHANGED <<aim, called, invoked, slips, lost>>

CreateFails == /\ call = "create" /\ call' = "idle" /\ Slip
               /\ UNCHANGED <<child, aim, called, invoked, lost>>

\* The subagent's context is built outside the try block.
Prepare == /\ Advance("prepare", "invoke") /\ invoked' = invoked + 1
           /\ UNCHANGED <<child, aim, called, slips, lost>>

PrepareFails == /\ call = "prepare" /\ Abandon("unprepared") /\ Slip
                /\ UNCHANGED <<child, aim, called, invoked>>

\* ainvoke returns, or raises.
Answered == /\ Advance("invoke", "settle")
            /\ aim' \in {"completed", "failed"}
            /\ UNCHANGED <<child, called, invoked, slips, lost>>

Settle == /\ Advance("settle", "idle") /\ child' = SetTerminalStatus(child, aim)
          /\ UNCHANGED <<aim, called, invoked, slips, lost>>

SettleFails == /\ call = "settle" /\ Abandon("unsettled") /\ Slip
               /\ UNCHANGED <<child, aim, called, invoked>>

-----------------------------------------------------------------------------
(* Cancellation *)

\* Mutant: the consumer does not cancel the agent's pending step.
StoppedIfLeft == ~Alive

\* The agent's pending step is cancelled by _consume_stream_with_cancel; an
\* attempt that ended otherwise drops the stream, which the event loop closes.
Stopped == ~Alive \/ (pc = "take" /\ noticed)

\* Mutant: the handler of CancelledError does not settle the row.
CancelledRaised == call' = "idle" /\ UNCHANGED <<aim, lost>>

\* CancelledError while the subagent runs: the handler settles the row.
CancelledInTry == call' = "settle" /\ aim' = "cancelled" /\ UNCHANGED lost

\* Elsewhere there is no handler: the row stays as it is.
CancelCall == /\ call # "idle" /\ ~(call = "settle" /\ aim = "cancelled")
              /\ IF call = "invoke" THEN CancelledInTry ELSE Abandon("cut") /\ UNCHANGED aim
              /\ UNCHANGED <<child, called, invoked>>

StopCall == Stopped /\ CancelCall /\ UNCHANGED slips

\* Another task of the agent's graph raises and takes this one along.
GraphRaises == Alive /\ CancelCall /\ Slip

\* The process dies: with the worker's coroutine, or after it.
CallDies == Abandon("died") /\ UNCHANGED <<child, aim, called, invoked, slips>>

-----------------------------------------------------------------------------
(* The call beside its run *)

Unheard == UNCHANGED childVars

\* The gathered step is over when the tool call is.
NoticeAfterCall == NoticeCancel /\ call = "idle" /\ Unheard

\* The agent answers when its tool calls have.
AgentAfterCall == AgentStep /\ (call = "idle" \/ cur'.kind \notin ClosingKinds) /\ Unheard

SubagentStep == CreateRun \/ Prepare \/ Settle \/ StopCall
SubagentSlip == CreateFails \/ PrepareFails \/ SettleFails \/ GraphRaises

ParentStep == (OwnStep /\ Unheard) \/ NoticeAfterCall

TreeInit == Init /\ SubagentInit

TreeNext == \/ PickUp /\ Unheard
            \/ ParentStep
            \/ WatchCancel /\ Unheard
            \/ AgentAfterCall
            \/ CancelApi /\ Unheard
            \/ SurvivedFault /\ Unheard
            \/ WorkerCrash /\ CallDies
            \/ (CallTask \/ SubagentStep \/ Answered \/ SubagentSlip) /\ UNCHANGED vars
            \/ call # "idle" /\ pc = "idle" /\ Strikes("crash") /\ CallDies
               /\ UNCHANGED <<rowVars, key, events, jobVars, workerVars, chunks, apiVars>>

\* As in RunWorker; the coroutine of a tool call runs as the others do, and
\* the subagent, like the agent, may never answer.
TreeSpec == /\ TreeInit /\ [][TreeNext]_treeVars
            /\ WF_treeVars(PickUp /\ Unheard)
            /\ WF_treeVars(ParentStep)
            /\ WF_treeVars(WatchCancel /\ Unheard)
            /\ WF_treeVars(CancelSignal /\ Unheard)
            /\ WF_treeVars(CancelCommit /\ Unheard)
            /\ WF_treeVars(SubagentStep /\ UNCHANGED vars)

-----------------------------------------------------------------------------
(* Properties *)

\* Type correctness of the tool call's state.
SubagentTypeOK ==
    /\ child \in RunStatuses \union {NoRow} /\ call \in Calls
    /\ aim \in TERMINAL_RUN_STATUSES /\ called \in 0..MaxTries
    /\ invoked \in Nat /\ slips \in 0..MaxSlips
    /\ lost \subseteq {"unprepared", "unsettled", "cut", "died"}

\* The life of the subagent's row is the one RunStatus promises of any run:
\* however its parent is cancelled, crashes and tries again, a settled row
\* is not opened again.
Child == INSTANCE RunStatus
            WITH status <- IF child = NoRow THEN CreatedStatus ELSE child
ChildLifecycle == Child!Spec

\* One tool call runs the subagent once, in all attempts of its run.
InvokedOnce == invoked <= 1

\* A subagent's row is active while its tool call lives.  Left active, it is
\* so for ever: the process died, or the call was cut or failed outside the
\* one try block that settles it.
ActiveChildIsCalled ==
    child \in ActiveStatuses => call # "idle" \/ lost # {}

\* A cancel of the run reaches the subagent in it, even one that hangs.
CancelStopsSubagent == key ~> call = "idle"

\* A run whose agent and subagent answer gets a terminal status, whatever
\* the timeouts and crashes of fewer attempts than the job has tries do to it.
RunEnds ==
    WF_treeVars(AgentAfterCall) /\ WF_treeVars(Answered /\ UNCHANGED vars)
        => <>IsTerminal(status)
=============================================================================
