-------------------------- MODULE RunCreationProofs --------------------------
(***************************************************************************)
(* Theorems about RunCreation, for any finite set of calls with any        *)
(* request ids and kinds: its types, that a request has one run, that a    *)
(* queued run is committed, and that an answered question is not shown     *)
(* again.                                                                  *)
(***************************************************************************)
EXTENDS RunCreation, FiniteSetTheorems, TLAPS

USE DEF TERMINAL_RUN_STATUSES, ActiveStatuses, RunStatuses, IsTerminal, CreatedStatus

-----------------------------------------------------------------------------
(* The operators the actions are built from *)

\* The writes of RunRow keep a status a status.
LEMMA StatusType ==
    ASSUME NEW old \in RunStatuses, NEW t \in TERMINAL_RUN_STATUSES
    PROVE  /\ MarkRunning(old) \in RunStatuses
           /\ RequestCancel(old) \in RunStatuses
           /\ SetTerminalStatus(old, t) \in RunStatuses
  BY DEF MarkRunning, RequestCancel, SetTerminalStatus

\* The clock is within its bounds, and a row inserted now makes it advance.
LEMMA ClockType ==
    ASSUME NEW c \in Calls
    PROVE  /\ Cardinality(Inserted) \in Nat
           /\ created[c] = 0 => Cardinality(Inserted) + 1 <= Cardinality(Calls)
           /\ Cardinality(Calls) \in Nat
  <1>1. IsFiniteSet(Inserted) /\ Cardinality(Calls) \in Nat
    <2>1. Inserted \in SUBSET Calls
      BY DEF Inserted
    <2> QED BY <2>1, RunCreationAssumption, FS_Subset, FS_CardinalityType
  <1>2. ASSUME created[c] = 0 PROVE Cardinality(Inserted) + 1 <= Cardinality(Calls)
    <2>1. c \notin Inserted /\ Inserted \union {c} \in SUBSET Calls
      BY <1>2 DEF Inserted
    <2>2. Cardinality(Inserted \union {c}) = Cardinality(Inserted) + 1
      BY <1>1, <2>1, FS_AddElement
    <2>3. Cardinality(Inserted \union {c}) <= Cardinality(Calls)
      BY <2>1, RunCreationAssumption, FS_Subset
    <2> QED BY <2>2, <2>3
  <1> QED BY <1>1, <1>2, FS_CardinalityType

LEMMA ClockAdvances ==
    ASSUME NEW c \in Calls, created \in [Calls -> Nat], created[c] = 0,
           created' = [created EXCEPT ![c] = Cardinality(Inserted) + 1]
    PROVE  Cardinality(Inserted') = Cardinality(Inserted) + 1
  <1>1. Inserted' = Inserted \union {c} /\ c \notin Inserted
    BY ClockType DEF Inserted
  <1>2. IsFiniteSet(Inserted)
    <2>1. Inserted \in SUBSET Calls
      BY DEF Inserted
    <2> QED BY <2>1, RunCreationAssumption, FS_Subset
  <1> QED BY <1>1, <1>2, FS_AddElement

-----------------------------------------------------------------------------
(* The invariant *)

\* What the place of a call says of its row.
PlaceInv ==
    \A c \in Calls :
        /\ pc[c] \in {"check", "insert"} => row[c] = "none" /\ created[c] = 0
        /\ pc[c] = "commit" => row[c] = "inserted"
        /\ pc[c] = "enqueue" => row[c] = "committed"
        /\ created[c] <= Cardinality(Inserted)

\* The unique index on request_id.
UniqueInv ==
    \A c, d \in Calls :
        row[c] # "none" /\ row[d] # "none" /\ RequestId[c] = RequestId[d] => c = d

\* Answers and jobs name committed runs, an answer one of its own request.
AnswerInv ==
    /\ \A c \in Calls : answer[c] # NoRun => answer[c] \in SameRequest(c) \intersect Committed
    /\ jobs \subseteq Committed

\* The run a resume answers was committed, and is older than the resume.
ParentInv ==
    \A c, d \in Calls : parent[c] = d =>
        /\ row[d] = "committed"
        /\ row[c] # "none" => created[d] < created[c]

IInv == TypeOK /\ PlaceInv /\ UniqueInv /\ AnswerInv /\ ParentInv

LEMMA InvInit == Init => IInv
  <1> SUFFICES ASSUME Init PROVE IInv
    OBVIOUS
  <1>1. \A c \in Calls : Cardinality(Inserted) \in Nat /\ 0 <= Cardinality(Calls)
    BY ClockType
  <1>2. created \in [Calls -> 0..Cardinality(Calls)]
    BY RunCreationAssumption, FS_CardinalityType DEF Init
  <1>3. TypeOK
    BY <1>2, RunCreationAssumption DEF Init, TypeOK
  <1>4. PlaceInv
    BY <1>1 DEF Init, PlaceInv
  <1> QED BY <1>3, <1>4, RunCreationAssumption
          DEF Init, IInv, UniqueInv, AnswerInv, ParentInv

LEMMA TypeStep == IInv /\ [Next]_vars => TypeOK'
  <1> SUFFICES ASSUME IInv, [Next]_vars PROVE TypeOK'
    OBVIOUS
  <1> USE RunCreationAssumption DEF TypeOK, IInv
  <1>1. CASE UNCHANGED vars
    BY <1>1 DEF vars
  <1>2. ASSUME NEW c \in Calls, CheckExisting(c) \/ InsertConflict(c) PROVE TypeOK'
    BY <1>2 DEF CheckExisting, InsertConflict, AnswerExisting, SameRequest
  <1>3. ASSUME NEW c \in Calls, CheckChat(c) PROVE TypeOK'
    BY <1>3 DEF CheckChat
  <1>4. ASSUME NEW c \in Calls, CheckResume(c) PROVE TypeOK'
    BY <1>4 DEF CheckResume, AnswerExisting, SameRequest, Committed
  <1>5. ASSUME NEW c \in Calls, InsertRun(c) PROVE TypeOK'
    <2>1. created' \in [Calls -> 0..Cardinality(Calls)]
      BY <1>5, ClockType DEF InsertRun, PlaceInv
    <2> QED BY <1>5, <2>1 DEF InsertRun
  <1>6. ASSUME NEW c \in Calls, CommitRun(c) \/ EnqueueJob(c) \/ EnqueueUnanswered(c) PROVE TypeOK'
    BY <1>6 DEF CommitRun, EnqueueJob, EnqueueUnanswered
  <1>7. ASSUME NEW c \in Calls, CallFails(c) PROVE TypeOK'
    BY <1>7 DEF CallFails
  <1>8. ASSUME NEW c \in Calls, WorkerStarts(c) \/ WorkerFinishes(c) \/ CancelRun(c) PROVE TypeOK'
    <2>1. /\ MarkRunning(status[c]) \in RunStatuses /\ RequestCancel(status[c]) \in RunStatuses
          /\ \A t \in TERMINAL_RUN_STATUSES : SetTerminalStatus(status[c], t) \in RunStatuses
      BY StatusType
    <2>2. status' \in [Calls -> RunStatuses]
      BY <1>8, <2>1 DEF WorkerStarts, WorkerFinishes, CancelRun
    <2> QED BY <1>8, <2>2 DEF WorkerStarts, WorkerFinishes, CancelRun
  <1> QED BY <1>1, <1>2, <1>3, <1>4, <1>5, <1>6, <1>7, <1>8 DEF Next

\* A committed row stays, and nothing but InsertRun makes a row.
LEMMA RowsStep ==
    ASSUME IInv, [Next]_vars, NEW d \in Calls
    PROVE  /\ row[d] = "committed" => row'[d] = "committed" /\ created'[d] = created[d]
           /\ row[d] = "none" /\ row'[d] # "none" =>
                /\ InsertRun(d) /\ row'[d] = "inserted"
  BY DEF IInv, TypeOK, PlaceInv, Next, vars, CheckExisting, CheckChat, CheckResume, InsertRun, InsertConflict,
         AnswerExisting, CommitRun, EnqueueJob, EnqueueUnanswered, CallFails, WorkerStarts, WorkerFinishes,
         CancelRun

LEMMA PlaceStep == IInv /\ [Next]_vars => PlaceInv'
  <1> SUFFICES ASSUME IInv, [Next]_vars PROVE PlaceInv'
    OBVIOUS
  <1> USE DEF IInv, TypeOK, PlaceInv
  <1>1. CASE UNCHANGED vars
    BY <1>1 DEF vars, Inserted
  <1>2. ASSUME NEW c \in Calls, InsertRun(c) PROVE PlaceInv'
    <2>1. created \in [Calls -> Nat] /\ created[c] = 0
          /\ created' = [created EXCEPT ![c] = Cardinality(Inserted) + 1]
      BY <1>2 DEF InsertRun
    <2>2. Cardinality(Inserted') = Cardinality(Inserted) + 1 /\ Cardinality(Inserted) \in Nat
      BY <2>1, ClockAdvances, ClockType
    <2> QED BY <1>2, <2>1, <2>2 DEF InsertRun
  <1>3. ASSUME NEW c \in Calls, ~InsertRun(c),
               \/ CheckExisting(c) \/ CheckChat(c) \/ CheckResume(c) \/ InsertConflict(c)
               \/ CommitRun(c) \/ EnqueueJob(c) \/ EnqueueUnanswered(c) \/ CallFails(c)
        PROVE  PlaceInv'
    <2>1. created' = created
      BY <1>3 DEF CheckExisting, CheckChat, CheckResume, InsertConflict, CommitRun, EnqueueJob,
                  EnqueueUnanswered, CallFails
    <2>2. Inserted' = Inserted
      BY <2>1 DEF Inserted
    <2> QED BY <1>3, <2>1, <2>2 DEF CheckExisting, CheckChat, CheckResume, InsertConflict, CommitRun,
               EnqueueJob, EnqueueUnanswered, CallFails, AnswerExisting, ReadyToEnqueue
  <1>4. ASSUME NEW c \in Calls, WorkerStarts(c) \/ WorkerFinishes(c) \/ CancelRun(c) PROVE PlaceInv'
    BY <1>4 DEF WorkerStarts, WorkerFinishes, CancelRun, Inserted
  <1> QED BY <1>1, <1>2, <1>3, <1>4 DEF Next

LEMMA UniqueStep == IInv /\ [Next]_vars => UniqueInv'
  <1> SUFFICES ASSUME IInv, [Next]_vars, NEW c \in Calls, NEW d \in Calls,
                      row'[c] # "none", row'[d] # "none", RequestId[c] = RequestId[d]
               PROVE  c = d
    BY DEF UniqueInv
  <1>1. CASE row[c] # "none" /\ row[d] # "none"
    BY <1>1 DEF IInv, UniqueInv
  <1>2. ASSUME NEW e \in Calls, NEW f \in Calls, InsertRun(e), row'[f] # "none", RequestId[e] = RequestId[f]
        PROVE  e = f
    BY <1>2 DEF InsertRun, Conflicts, SameRequest, IInv, TypeOK
  <1>3. CASE row[c] = "none"
    BY <1>2, <1>3, RowsStep
  <1>4. CASE row[d] = "none"
    BY <1>2, <1>4, RowsStep
  <1> QED BY <1>1, <1>3, <1>4

LEMMA AnswerStep == IInv /\ [Next]_vars => AnswerInv'
  <1> SUFFICES ASSUME IInv, [Next]_vars PROVE AnswerInv'
    OBVIOUS
  <1>1. Committed \subseteq Committed'
    BY RowsStep DEF Committed
  <1>2. ASSUME NEW c \in Calls, answer'[c] # NoRun
        PROVE  answer'[c] \in SameRequest(c) \intersect Committed'
    <2>1. CASE answer'[c] = answer[c]
      BY <1>1, <1>2, <2>1 DEF IInv, AnswerInv
    <2>2. CASE answer'[c] # answer[c]
      <3>1. AnswerExisting(c) \/ EnqueueJob(c)
        BY <2>2 DEF IInv, TypeOK, Next, vars, CheckExisting, CheckChat, CheckResume, InsertRun, InsertConflict,
                    AnswerExisting, CommitRun, EnqueueJob, EnqueueUnanswered, CallFails, WorkerStarts,
                    WorkerFinishes, CancelRun
      <3>2. CASE AnswerExisting(c)
        BY <1>1, <3>2 DEF AnswerExisting, IInv, TypeOK
      <3>3. CASE EnqueueJob(c)
        <4>1. answer'[c] = c /\ row[c] = "committed"
          BY <3>3 DEF EnqueueJob, ReadyToEnqueue, IInv, TypeOK, PlaceInv
        <4> QED BY <1>1, <4>1 DEF SameRequest, Committed
      <3> QED BY <3>1, <3>2, <3>3
    <2> QED BY <2>1, <2>2
  <1>3. jobs' \subseteq Committed'
    <2>1. jobs' \subseteq jobs \union {c \in Calls : pc[c] = "enqueue"}
      BY DEF IInv, TypeOK, Next, vars, CheckExisting, CheckChat, CheckResume, InsertRun, InsertConflict,
             CommitRun, EnqueueJob, EnqueueUnanswered, CallFails, WorkerStarts, WorkerFinishes, CancelRun,
             ReadyToEnqueue
    <2>2. {c \in Calls : pc[c] = "enqueue"} \subseteq Committed
      BY DEF Committed, IInv, PlaceInv
    <2> QED BY <1>1, <2>1, <2>2 DEF IInv, AnswerInv
  <1>4. \A c \in Calls : SameRequest(c)' = SameRequest(c)
    BY DEF SameRequest
  <1> QED BY <1>2, <1>3, <1>4 DEF AnswerInv

LEMMA ParentStep == IInv /\ [Next]_vars => ParentInv'
  <1> SUFFICES ASSUME IInv, [Next]_vars, NEW c \in Calls, NEW d \in Calls, parent'[c] = d
               PROVE  row'[d] = "committed" /\ (row'[c] # "none" => created'[d] < created'[c])
    BY DEF ParentInv
  <1>1. CASE parent[c] = d
    <2>1. row'[d] = "committed" /\ created'[d] = created[d]
      BY <1>1, RowsStep DEF IInv, ParentInv
    <2>2. CASE row[c] # "none"
      <3>1. created'[c] = created[c]
        BY <2>2 DEF IInv, TypeOK, PlaceInv, Next, vars, CheckExisting, CheckChat, CheckResume, InsertRun,
                    InsertConflict, CommitRun, EnqueueJob, EnqueueUnanswered, CallFails, WorkerStarts,
                    WorkerFinishes, CancelRun
      <3> QED BY <1>1, <2>1, <2>2, <3>1 DEF IInv, ParentInv
    <2>3. CASE row[c] = "none" /\ row'[c] # "none"
      <3>1. InsertRun(c)
        BY <2>3, RowsStep
      <3>2. created'[c] = Cardinality(Inserted) + 1
        BY <3>1 DEF InsertRun, IInv, TypeOK
      <3>3. created[d] <= Cardinality(Inserted) /\ created[d] \in Nat /\ Cardinality(Inserted) \in Nat
        BY ClockType DEF IInv, TypeOK, PlaceInv
      <3> QED BY <2>1, <3>2, <3>3
    <2> QED BY <2>1, <2>2, <2>3
  <1>2. CASE parent[c] # d
    <2>1. CheckResume(c) /\ row[d] = "committed"
      BY <1>2 DEF IInv, TypeOK, Next, vars, CheckExisting, CheckChat, CheckResume, InsertRun, InsertConflict,
                  CommitRun, EnqueueJob, EnqueueUnanswered, CallFails, WorkerStarts, WorkerFinishes,
                  CancelRun, Committed
    <2>2. row'[c] = "none"
      BY <2>1 DEF CheckResume, IInv, PlaceInv
    <2> QED BY <2>1, <2>2, RowsStep
  <1> QED BY <1>1, <1>2

LEMMA InvStep == IInv /\ [Next]_vars => IInv'
  BY TypeStep, PlaceStep, UniqueStep, AnswerStep, ParentStep DEF IInv

-----------------------------------------------------------------------------
(* The theorems *)

\* Calls, rows and answers keep their types; created_at stays within the number
\* of calls.
THEOREM TypeCorrect == Spec => []TypeOK
  <1>1. IInv => TypeOK
    BY DEF IInv
  <1> QED BY <1>1, InvInit, InvStep, PTL DEF Spec

\* Calls with one request id are answered with one run, which is committed,
\* for any number of calls that overlap, fail and are repeated.
THEOREM OneRunPerRequest == Spec => []SameAnswer
  <1>1. IInv => SameAnswer
    <2> SUFFICES ASSUME IInv, NEW c \in Calls, NEW d \in Calls, answer[c] # NoRun, answer[d] # NoRun,
                        RequestId[c] = RequestId[d]
                 PROVE  answer[c] = answer[d] /\ answer[c] \in Committed
      BY DEF SameAnswer
    <2>1. answer[c] \in SameRequest(c) \intersect Committed /\ answer[d] \in SameRequest(d) \intersect Committed
      BY DEF IInv, AnswerInv
    <2> QED BY <2>1 DEF IInv, UniqueInv, SameRequest, Committed
  <1> QED BY <1>1, InvInit, InvStep, PTL DEF Spec

\* A worker that takes a job finds its run's row.
THEOREM QueuedCommitted == Spec => []QueuedRunsAreCommitted
  <1>1. IInv => QueuedRunsAreCommitted
    BY DEF IInv, AnswerInv, QueuedRunsAreCommitted
  <1> QED BY <1>1, InvInit, InvStep, PTL DEF Spec

\* The active run of a thread is never an interrupted run that a committed
\* resume has answered.
THEOREM AnsweredHidden == Spec => []AnsweredInterruptHidden
  <1>1. IInv => AnsweredInterruptHidden
    <2> SUFFICES ASSUME IInv, NEW r \in ActiveRun, NEW s \in Committed, parent[s] = r
                 PROVE  FALSE
      BY DEF AnsweredInterruptHidden
    <2>1. r \in Committed /\ created[s] <= created[r]
      BY DEF ActiveRun, ThreadRuns
    <2>2. created[r] < created[s] /\ created[r] \in Nat /\ created[s] \in Nat
      BY <2>1 DEF IInv, ParentInv, TypeOK, Committed
    <2> QED BY <2>1, <2>2
  <1> QED BY <1>1, InvInit, InvStep, PTL DEF Spec
=============================================================================
