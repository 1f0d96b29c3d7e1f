-------------------------- MODULE SubagentRunProofs --------------------------
(***************************************************************************)
(* Theorems about SubagentRun, for any number of tries, faults, cancels    *)
(* and slips: its types, that a tool call runs its subagent once, that an  *)
(* active row nobody works on has one of four causes, that the row lives   *)
(* the life RunStatus promises, and that an early cancel of the parent is  *)
(* honoured beside it.                                                     *)
(***************************************************************************)
EXTENDS SubagentRun, RunWorkerProofs

USE DEF TERMINAL_RUN_STATUSES, ActiveStatuses, RunStatuses, CreatedStatus, IsTerminal

\* What a step of the tree is to the run: a step of RunWorker, or the death of
\* a process that no longer held its job.
LEMMA TreeStep ==
    ASSUME [TreeNext]_treeVars
    PROVE  \/ [Next]_vars
           \/ /\ Strikes("crash")
              /\ UNCHANGED <<rowVars, key, events, jobVars, workerVars, chunks, apiVars>>
  BY DEF TreeNext, treeVars, ParentStep, NoticeAfterCall, AgentAfterCall, Next, WorkerStep, Fault

LEMMA ParentTypeStep == TypeOK /\ [TreeNext]_treeVars => TypeOK'
  <1> SUFFICES ASSUME TypeOK, [TreeNext]_treeVars PROVE TypeOK'
    OBVIOUS
  <1>1. CASE [Next]_vars
    BY <1>1, TypeStep
  <1>2. CASE /\ Strikes("crash")
             /\ UNCHANGED <<rowVars, key, events, jobVars, workerVars, chunks, apiVars>>
    <2>1. faults' \in 0..MaxFaults
      BY <1>2, StrikesType DEF TypeOK
    <2> QED BY <1>2, <2>1
            DEF TypeOK, SharedTypeOK, LocalTypeOK, rowVars, jobVars, workerVars, apiVars
  <1> QED BY <1>1, <1>2, TreeStep

-----------------------------------------------------------------------------
(* The invariant of the tool call *)

\* A call past the insert has a row; a row is created running, and no one but
\* its call writes it; the subagent runs after the insert only.
RowOfCall ==
    /\ child \in {NoRow, "running"} \union TERMINAL_RUN_STATUSES
    /\ call \in {"prepare", "invoke", "settle"} => child # NoRow
    /\ child = NoRow \/ call = "prepare" => invoked = 0
    /\ invoked <= 1

\* An active row without a call, or with one that is about to find it, was lost.
ActiveOrLost == child = "running" => call \in {"prepare", "invoke", "settle"} \/ lost # {}

CallInv == SubagentTypeOK /\ RowOfCall /\ ActiveOrLost

LEMMA CallInit == TreeInit => TypeOK /\ CallInv
  <1>1. SubagentInit => CallInv
    BY RunWorkerAssumption, SubagentRunAssumption
       DEF SubagentInit, CallInv, SubagentTypeOK, RowOfCall, ActiveOrLost, NoRow, Calls
  <1> QED BY <1>1, TypeInit DEF TreeInit

\* Abandoning a call records how an active row was lost.
LEMMA AbandonInv ==
    ASSUME CallInv, NEW how \in {"unprepared", "unsettled", "cut", "died"}, Abandon(how),
           UNCHANGED <<child, aim, called, invoked>>, slips' \in 0..MaxSlips
    PROVE  CallInv'
  BY DEF CallInv, SubagentTypeOK, RowOfCall, ActiveOrLost, Abandon, NoRow, Calls

LEMMA CancelInv ==
    ASSUME CallInv, CancelCall, slips' \in 0..MaxSlips
    PROVE  CallInv'
  <1>1. CASE call = "invoke"
    BY <1>1 DEF CancelCall, CancelledInTry, CallInv, SubagentTypeOK, RowOfCall, ActiveOrLost, NoRow, Calls
  <1>2. CASE call # "invoke"
    BY <1>2, AbandonInv DEF CancelCall
  <1> QED BY <1>1, <1>2

LEMMA CallStep == TypeOK /\ CallInv /\ [TreeNext]_treeVars => CallInv'
  <1> SUFFICES ASSUME TypeOK, CallInv, [TreeNext]_treeVars PROVE CallInv'
    OBVIOUS
  <1> USE SubagentRunAssumption
      DEF CallInv, SubagentTypeOK, RowOfCall, ActiveOrLost, NoRow, Calls, Advance
  <1>1. CASE Unheard
    BY <1>1 DEF Unheard, childVars
  <1>2. CASE CallTask
    <2>1. called' \in 0..MaxTries
      BY <1>2, RunWorkerAssumption DEF CallTask, TypeOK, SharedTypeOK
    <2> QED BY <1>2, <2>1 DEF CallTask
  <1>3. CASE CreateRun
    BY <1>3 DEF CreateRun, Existing, MarkRunning
  <1>4. CASE Prepare
    BY <1>4 DEF Prepare
  <1>5. CASE Settle
    BY <1>5 DEF Settle, SetTerminalStatus
  <1>6. CASE StopCall
    BY <1>6, CancelInv DEF StopCall
  <1>7. CASE Answered
    BY <1>7 DEF Answered
  <1>8. CASE SubagentSlip
    <2>1. slips' \in 0..MaxSlips
      BY <1>8 DEF SubagentSlip, CreateFails, PrepareFails, SettleFails, GraphRaises, Slip
    <2>2. CASE CreateFails
      BY <2>1, <2>2 DEF CreateFails
    <2>3. CASE PrepareFails
      BY <2>1, <2>3, AbandonInv DEF PrepareFails
    <2>4. CASE SettleFails
      BY <2>1, <2>4, AbandonInv DEF SettleFails
    <2>5. CASE GraphRaises
      BY <2>1, <2>5, CancelInv DEF GraphRaises
    <2> QED BY <1>8, <2>2, <2>3, <2>4, <2>5 DEF SubagentSlip
  <1>9. CASE CallDies
    BY <1>9, AbandonInv DEF CallDies
  <1> QED BY <1>1, <1>2, <1>3, <1>4, <1>5, <1>6, <1>7, <1>8, <1>9
          DEF TreeNext, treeVars, Unheard, ParentStep, NoticeAfterCall, AgentAfterCall, SubagentStep

LEMMA TreeInv == TreeSpec => [](TypeOK /\ CallInv)
  <1>1. (TypeOK /\ CallInv) /\ [TreeNext]_treeVars => (TypeOK /\ CallInv)'
    BY ParentTypeStep, CallStep
  <1> QED BY <1>1, CallInit, PTL DEF TreeSpec

-----------------------------------------------------------------------------
(* The theorems *)

\* The state of the tool call, and of the run around it, keeps its types.
THEOREM SubagentTypeCorrect == TreeSpec => [](TypeOK /\ SubagentTypeOK)
  <1>1. CallInv => SubagentTypeOK
    BY DEF CallInv
  <1> QED BY <1>1, TreeInv, PTL

\* However often its run is tried, one tool call runs the subagent at most once.
THEOREM SubagentInvokedOnce == TreeSpec => []InvokedOnce
  <1>1. CallInv => InvokedOnce
    BY DEF CallInv, RowOfCall, InvokedOnce
  <1> QED BY <1>1, TreeInv, PTL

\* A subagent's row is left active only by the death of its process, by a cut
\* outside the try block, or by a failure to prepare or to settle it.
THEOREM ActiveChildExplained == TreeSpec => []ActiveChildIsCalled
  <1>1. CallInv => ActiveChildIsCalled
    BY DEF CallInv, RowOfCall, ActiveOrLost, ActiveChildIsCalled, NoRow
  <1> QED BY <1>1, TreeInv, PTL

\* The row of a subagent lives the life RunStatus promises of any run, whatever
\* happens to the run around it.
THEOREM ChildKeepsLifecycle == TreeSpec => ChildLifecycle
  <1> DEFINE mapped == IF child = NoRow THEN CreatedStatus ELSE child
  <1>1. TreeInit => Child!Init
    BY DEF TreeInit, SubagentInit, Child!Init, Child!CreatedStatus, NoRow
  <1>2. CallInv /\ [TreeNext]_treeVars => [Child!Next]_mapped
    <2> SUFFICES ASSUME CallInv, [TreeNext]_treeVars, mapped' # mapped PROVE Child!Next
      OBVIOUS
    <2> USE DEF CallInv, RowOfCall, NoRow, Child!Next, Child!ActiveStatuses, Child!TERMINAL_RUN_STATUSES
    <2>1. CASE CreateRun
      BY <2>1 DEF CreateRun, Existing, MarkRunning, Child!Start
    <2>2. CASE Settle
      BY <2>2 DEF Settle, Advance, SetTerminalStatus, SubagentTypeOK, Child!Finish
    <2>3. CASE Unheard \/ CallTask \/ Prepare \/ Answered
      BY <2>3 DEF Unheard, childVars, CallTask, Prepare, Answered
    <2>4. CASE CancelCall \/ CreateFails \/ PrepareFails \/ SettleFails \/ CallDies
      BY <2>4 DEF CancelCall, CreateFails, PrepareFails, SettleFails, CallDies
    <2> QED BY <2>1, <2>2, <2>3, <2>4
            DEF TreeNext, treeVars, Unheard, ParentStep, NoticeAfterCall, AgentAfterCall, SubagentStep,
                StopCall, SubagentSlip, GraphRaises
  <1> QED BY <1>1, <1>2, TreeInv, PTL DEF TreeSpec, ChildLifecycle, Child!Spec

\* The invariant of the run's own cancel is kept in the tree as well: a death
\* without a job changes nothing it speaks of.
LEMMA ParentEarlyStep ==
    ASSUME SignalKept, TypeOK, RowInv, EarlyInv, [TreeNext]_treeVars
    PROVE  RowInv' /\ EarlyInv'
  <1>1. CASE [Next]_vars
    BY <1>1, RowStep, EarlyStep
  <1>2. CASE UNCHANGED <<rowVars, key, events, jobVars, workerVars, chunks, apiVars>>
    BY <1>2 DEF rowVars, jobVars, workerVars, apiVars, RowInv, PlaceInv, EndAfterCommit, StartedOnce,
                SetupOnlyFails, SetupPlaces, EndOnlyOfTerminal, EarlyInv, AttemptPlaces, EarlyEnds,
                Doomed, FirstChunk
  <1> QED BY <1>1, <1>2, TreeStep

\* A cancel signalled to a run before its agent's first chunk is honoured,
\* whatever becomes of the subagent that the agent would have called.
THEOREM EarlyCancelKeptInTree ==
    ASSUME SignalKept
    PROVE  TreeSpec => []EarlyCancelHonoured
  <1>1. (TypeOK /\ RowInv /\ EarlyInv) /\ [TreeNext]_treeVars => (TypeOK /\ RowInv /\ EarlyInv)'
    BY ParentTypeStep, ParentEarlyStep
  <1>2. TreeInit => TypeOK /\ RowInv /\ EarlyInv
    BY TypeInit, RowInit, EarlyInit DEF TreeInit
  <1>3. EarlyInv => EarlyCancelHonoured
    BY DEF EarlyInv, EarlyEnds, EarlyCancelHonoured
  <1> QED BY <1>1, <1>2, <1>3, PTL DEF TreeSpec
=============================================================================
