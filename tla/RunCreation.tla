---------------------------- MODULE RunCreation -----------------------------
(***************************************************************************)
(* Calls of create_agent_run_view for one thread: each looks for a run of  *)
(* its request id, inserts one, commits it and puts its job in the queue.  *)
(* Calls overlap, are repeated by clients, and their process may die at    *)
(* any await.  What the worker and the cancel endpoint do to a run is cut  *)
(* down to the writes RunRow names.                                        *)
(***************************************************************************)
EXTENDS Naturals, FiniteSets, RunRow

CONSTANTS
    Calls,      \* the calls; a run is named after the call that inserts it
    RequestId,  \* RequestId[c]: the request id, resume_request_id of a resume
    Kind,       \* Kind[c]: run_type, "chat" or "resume"
    NoRun

ASSUME RunCreationAssumption ==
    /\ IsFiniteSet(Calls)
    /\ Kind \in [Calls -> {"chat", "resume"}]
    /\ DOMAIN RequestId = Calls
    /\ NoRun \notin Calls

VARIABLES
    pc,         \* where a call is
    row,        \* the row it inserts: "none", "inserted" and not committed, "committed"
    created,    \* created_at of the row, 0 when there is none
    parent,     \* parent_run_id of the row, or the one the call asks for
    status,     \* status of the row
    jobs,       \* runs whose job was enqueued
    answer      \* the run a call was answered with

vars == <<pc, row, created, parent, status, jobs, answer>>

Committed == {r \in Calls : row[r] = "committed"}

SameRequest(c) == {r \in Calls : RequestId[r] = RequestId[c]}

Init == /\ pc = [c \in Calls |-> "check"]
        /\ row = [c \in Calls |-> "none"]
        /\ created = [c \in Calls |-> 0]
        /\ parent = [c \in Calls |-> NoRun]
        /\ status = [c \in Calls |-> CreatedStatus]
        /\ jobs = {}
        /\ answer = [c \in Calls |-> NoRun]

-----------------------------------------------------------------------------
(* A call *)

\* Answering with the committed run of the same request id, if there is one.
AnswerExisting(c) ==
    \E r \in SameRequest(c) \intersect Committed :
        /\ answer' = [answer EXCEPT ![c] = r]
        /\ pc' = [pc EXCEPT ![c] = "done"]

\* What the checks before the insert read.  A run that is interrupted stays so.
CheckExisting(c) == /\ pc[c] = "check" /\ Kind[c] = "chat"
                    /\ AnswerExisting(c)
                    /\ UNCHANGED <<row, created, parent, status, jobs>>

CheckChat(c) == /\ pc[c] = "check" /\ Kind[c] = "chat"
                /\ SameRequest(c) \intersect Committed = {}
                /\ pc' = [pc EXCEPT ![c] = "insert"]
                /\ UNCHANGED <<row, created, parent, status, jobs, answer>>

\* Only an interrupted run of the thread can be resumed.
CheckResume(c) ==
    /\ pc[c] = "check" /\ Kind[c] = "resume"
    /\ \E p \in Committed :
         /\ status[p] = "interrupted"
         /\ \/ AnswerExisting(c) /\ UNCHANGED parent
            \/ /\ SameRequest(c) \intersect Committed = {}
               /\ pc' = [pc EXCEPT ![c] = "insert"]
               /\ parent' = [parent EXCEPT ![c] = p]
               /\ UNCHANGED answer
    /\ UNCHANGED <<row, created, status, jobs>>

\* Mutant: request_id has no unique index.
ConflictsNever(c, state) == {}

\* Rows of the same request id in the given state: the unique index makes an
\* insert wait for one that is not committed and fail on one that is.
Conflicts(c, state) == {r \in SameRequest(c) : row[r] = state}

\* The rows there have been, rolled back ones included: the clock of created_at.
Inserted == {r \in Calls : created[r] # 0}

InsertRun(c) ==
    /\ pc[c] = "insert"
    /\ Conflicts(c, "inserted") = {} /\ Conflicts(c, "committed") = {}
    /\ row' = [row EXCEPT ![c] = "inserted"]
    /\ created' = [created EXCEPT ![c] = Cardinality(Inserted) + 1]
    /\ pc' = [pc EXCEPT ![c] = "commit"]
    /\ UNCHANGED <<parent, status, jobs, answer>>

\* IntegrityError: roll back, and answer with the run that was faster.
InsertConflict(c) == /\ pc[c] = "insert"
                     /\ Conflicts(c, "committed") # {}
                     /\ AnswerExisting(c)
                     /\ UNCHANGED <<row, created, parent, status, jobs>>

CommitRun(c) == /\ pc[c] = "commit"
                /\ row' = [row EXCEPT ![c] = "committed"]
                /\ pc' = [pc EXCEPT ![c] = "enqueue"]
                /\ UNCHANGED <<created, parent, status, jobs, answer>>

\* Mutant: the job is queued in the transaction that inserts the run.
ReadyToEnqueueEarly(c) == pc[c] \in {"commit", "enqueue"}

ReadyToEnqueue(c) == pc[c] = "enqueue"

EnqueueJob(c) == /\ ReadyToEnqueue(c)
                 /\ jobs' = jobs \union {c}
                 /\ answer' = [answer EXCEPT ![c] = c]
                 /\ pc' = [pc EXCEPT ![c] = "done"]
                 /\ UNCHANGED <<row, created, parent, status>>

\* The process dies, or the queue cannot be reached: a row that was not
\* committed is gone, one that was stays without a job.
CallFails(c) == /\ pc[c] \in {"insert", "commit", "enqueue"}
                /\ row' = [row EXCEPT ![c] = IF @ = "inserted" THEN "none" ELSE @]
                /\ pc' = [pc EXCEPT ![c] = "failed"]
                /\ UNCHANGED <<created, parent, status, jobs, answer>>

\* The job is in the queue and the process dies before it answers.
EnqueueUnanswered(c) == /\ ReadyToEnqueue(c)
                        /\ jobs' = jobs \union {c}
                        /\ pc' = [pc EXCEPT ![c] = "failed"]
                        /\ UNCHANGED <<row, created, parent, status, answer>>

-----------------------------------------------------------------------------
(* The worker and the cancel endpoint, as far as the row is concerned *)

WorkerStarts(r) == /\ r \in jobs \intersect Committed
                   /\ status' = [status EXCEPT ![r] = MarkRunning(@)]
                   /\ UNCHANGED <<pc, row, created, parent, jobs, answer>>

WorkerFinishes(r) ==
    /\ r \in jobs \intersect Committed
    /\ \E t \in TERMINAL_RUN_STATUSES :
         /\ status[r] = "pending" => t = "failed"
         /\ status' = [status EXCEPT ![r] = SetTerminalStatus(@, t)]
    /\ UNCHANGED <<pc, row, created, parent, jobs, answer>>

CancelRun(r) == /\ r \in Committed
                /\ status' = [status EXCEPT ![r] = RequestCancel(@)]
                /\ UNCHANGED <<pc, row, created, parent, jobs, answer>>

Next == \E c \in Calls :
            \/ CheckExisting(c) \/ CheckChat(c) \/ CheckResume(c) \/ InsertRun(c)
            \/ InsertConflict(c) \/ CommitRun(c) \/ EnqueueJob(c)
            \/ EnqueueUnanswered(c) \/ CallFails(c)
            \/ WorkerStarts(c) \/ WorkerFinishes(c) \/ CancelRun(c)

Spec == Init /\ [][Next]_vars

-----------------------------------------------------------------------------
(* What the browser is told *)

\* Mutant: get_active_run_by_thread forgets the resume runs.
ThreadRunsOfChat == {r \in Committed : Kind[r] = "chat"}

ThreadRuns == Committed

\* get_active_run_by_thread: the newest run of the thread, if it still
\* matters.
ActiveRun ==
    LET newest == {r \in ThreadRuns : \A s \in ThreadRuns : created[s] <= created[r]}
    IN  {r \in newest : status[r] \in ActiveStatuses \union {"interrupted"}}

-----------------------------------------------------------------------------
(* Properties *)

\* Type correctness of the calls, their rows and the queue.
TypeOK ==
    /\ pc \in [Calls -> {"check", "insert", "commit", "enqueue", "done", "failed"}]
    /\ row \in [Calls -> {"none", "inserted", "committed"}]
    /\ created \in [Calls -> 0..Cardinality(Calls)]
    /\ parent \in [Calls -> Calls \union {NoRun}]
    /\ status \in [Calls -> RunStatuses]
    /\ jobs \in SUBSET Calls
    /\ answer \in [Calls -> Calls \union {NoRun}]

\* However calls with one request id overlap, fail and are repeated, all of
\* them that get an answer get the same run, and that run is in the database.
SameAnswer ==
    \A c, d \in Calls :
        (answer[c] # NoRun /\ answer[d] # NoRun /\ RequestId[c] = RequestId[d])
            => answer[c] = answer[d] /\ answer[c] \in Committed

\* A job in the queue names a committed run, so that the worker that takes
\* it at once finds its row and does not drop it as unknown.
QueuedRunsAreCommitted == jobs \subseteq Committed

\* get_active_run_by_thread: "an interrupted run that was answered is
\* superseded by the later resume run and not returned as pending again".
AnsweredInterruptHidden ==
    \A r \in ActiveRun : status[r] = "interrupted" =>
        ~\E s \in Committed : Kind[s] = "resume" /\ parent[s] = r

\* The same function: "runs in a thread are serial, the newest run is the
\* thread's current state", so a thread with an active run has it reported.
NewestRunIsThreadState ==
    (\E r \in Committed : status[r] \in ActiveStatuses)
        => \E r \in ActiveRun : status[r] \in ActiveStatuses
=============================================================================
