------------------------------- MODULE Tasker -------------------------------
(***************************************************************************)
(* The background task executor of the API process: the Tasker object with *)
(* its lock, its tasks and its queue, the worker coroutines, the endpoints *)
(* that enqueue, continue, cancel and delete tasks, the tasks table, and   *)
(* the process, which may be shut down or die and start again.             *)
(*                                                                         *)
(* What runs under Tasker._lock is one step, the row it persists included; *)
(* the lock appears as state only where a holder waits for somebody else,  *)
(* which is shutdown().                                                    *)
(***************************************************************************)
EXTENDS Naturals, Sequences, FiniteSets

CONSTANTS
    Tasks,          \* bound: the tasks that are ever created
    Keys,           \* task types with a resource: what enqueue_unique keeps apart
    Timed,          \* keys whose type has a hard timeout
    Tidy,           \* keys whose coroutine reports its own cancellation (run_ingest)
    Workers,
    NoTask,
    MaxDeletes,     \* bound: calls of delete_task
    MaxFails,       \* bound: writes to the tasks table that fail
    MaxStops        \* bound: shutdowns and crashes

ASSUME TaskerAssumption ==
    /\ Timed \subseteq Keys /\ Tidy \subseteq Keys
    /\ NoTask \notin Tasks /\ Keys # {}
    /\ MaxDeletes \in Nat /\ MaxFails \in Nat /\ MaxStops \in Nat

VARIABLES
    process,    \* "up", "stopping" (shutdown holds the lock) or "down"
    tasks,      \* the ids in Tasker._tasks
    task,       \* the task objects; a deleted one lives on in its worker's hand
    factories,  \* the ids in _continuation_factories
    queue,
    place,      \* where a worker is
    hand,       \* the task it has taken
    rows,       \* the ids in the tasks table
    row,        \* and their rows
    deleting,   \* tasks out of _tasks whose row is still to be deleted
    born,       \* the ids given out so far
    deletes, fails, stops,  \* what has been used of the bounds
    begged      \* history: cancelled before their worker looked for the last time

memory == <<tasks, task, factories, queue>>
table == <<rows, row>>
history == <<begged, born>>
bounds == <<deletes, fails, stops>>
vars == <<process, tasks, task, factories, queue, place, hand, rows, row, deleting,
          born, deletes, fails, stops, begged>>

-----------------------------------------------------------------------------
(* Data *)

ACTIVE_STATUSES == {"pending", "running"}
RETRYABLE == "retryable_failed"
TERMINAL_STATUSES == {"success", "failed", "cancelled", RETRYABLE}

Task == [status : ACTIVE_STATUSES \union TERMINAL_STATUSES,
         key : Keys,
         cancel : BOOLEAN,              \* cancel_requested
         continuable : BOOLEAN,         \* continuation_available
         of : Tasks \union {NoTask}]    \* continuation_of

\* _build_task
NewTask(k, previous) == [status |-> "pending", key |-> k, cancel |-> FALSE,
                         continuable |-> TRUE, of |-> previous]

\* _find_task_by_resource_locked with the active statuses.
ActiveOfKey(k) == {t \in tasks : task[t].key = k /\ task[t].status \in ACTIVE_STATUSES}

\* Places of a worker that has a coroutine in progress.
BodyPlaces == {"body", "cleanup", "stuck"}
Busy(w) == place[w] \in BodyPlaces

\* Places from which a worker writes an outcome: "cancelled" inside the try
\* block, the other three either there or in an except block.
OutcomePlaces == {"success", "cancelled", "aborted", "failed", "timeout"}
WorkerPlaces == {"off", "get", "fetch", "reject", "start"} \union BodyPlaces \union OutcomePlaces

\* Mutant: a timeout is recorded without its status.
OutcomeUntimed(p) == CASE p \in {"cancelled", "aborted"} -> "cancelled"
                       [] p = "timeout" -> "running"
                       [] OTHER -> p

OutcomeStatus(p) == CASE p \in {"cancelled", "aborted"} -> "cancelled"
                      [] p = "timeout" -> RETRYABLE
                      [] OTHER -> p

Key(w) == task[hand[w]].key

\* Somebody can take the lock.
LockFree == process = "up"

Fails == fails < MaxFails /\ fails' = fails + 1

\* _persist_task writes t's new object to the table.
Persist(t) == /\ rows' = rows \union {t}
              /\ row' = [row EXCEPT ![t] = task'[t]]

\* The write fails, and the caller with it; the object keeps its changes.
PersistOrFail(t) == (Persist(t) /\ UNCHANGED fails) \/ (Fails /\ UNCHANGED table)

AnyTask == [status |-> "pending", key |-> CHOOSE k \in Keys : TRUE, cancel |-> FALSE,
            continuable |-> FALSE, of |-> NoTask]

Init == /\ process = "up"
        /\ tasks = {} /\ task = [t \in Tasks |-> AnyTask] /\ factories = {} /\ queue = <<>>
        /\ place = [w \in Workers |-> "get"] /\ hand = [w \in Workers |-> NoTask]
        /\ rows = {} /\ row = [t \in Tasks |-> AnyTask] /\ deleting = {}
        /\ born = {} /\ deletes = 0 /\ fails = 0 /\ stops = 0 /\ begged = {}

-----------------------------------------------------------------------------
(* Endpoints *)

\* Mutant: the task is looked up without its resource.
NothingActive(k) == TRUE

\* No task with this type and resource is pending or running.
FreeKey(k) == ActiveOfKey(k) = {}

\* enqueue_unique, enqueue_unique_by_payload: an active task is returned as
\* it is (no step here); otherwise a new one is kept, persisted and queued.
EnqueueUnique(t, k) ==
    /\ LockFree /\ t \notin born /\ FreeKey(k)
    /\ born' = born \union {t}
    /\ tasks' = tasks \union {t} /\ factories' = factories \union {t}
    /\ task' = [task EXCEPT ![t] = NewTask(k, NoTask)]
    /\ \/ /\ Persist(t)
          /\ queue' = Append(queue, t)
          /\ UNCHANGED fails
       \/ Fails /\ UNCHANGED <<queue, table>>
    /\ UNCHANGED <<process, place, hand, deleting, deletes, stops, begged>>

\* continue_task, when the process still has the coroutine: a new task like
\* the old one, unless the resource is busy.
ContinueTask(t, u) ==
    /\ LockFree /\ t \in tasks /\ u \notin born
    /\ born' = born \union {u}
    /\ task[t].status = RETRYABLE /\ t \in factories
    /\ FreeKey(task[t].key)
    /\ tasks' = tasks \union {u} /\ factories' = factories \union {u}
    /\ task' = [task EXCEPT ![t].continuable = FALSE, ![u] = NewTask(task[t].key, t)]
    /\ \/ /\ rows' = rows \union {t, u}
          /\ row' = [row EXCEPT ![t] = task'[t], ![u] = task'[u]]
          /\ queue' = Append(queue, u)
          /\ UNCHANGED fails
       \/ /\ Fails
          /\ Persist(t) \/ UNCHANGED table
          /\ UNCHANGED queue
    /\ UNCHANGED <<process, place, hand, deleting, deletes, stops, begged>>

\* continue_task, when it has not: the task is not offered again.
ContinueRefused(t) ==
    /\ LockFree /\ t \in tasks
    /\ task[t].status = RETRYABLE /\ t \notin factories
    /\ task' = [task EXCEPT ![t].continuable = FALSE]
    /\ PersistOrFail(t)
    /\ UNCHANGED <<process, tasks, factories, queue, place, hand, deleting, deletes, stops,
                   history>>

\* Workers that will still look at t's cancel flag before they write success.
StillLooks(t) == \A w \in Workers : hand[w] = t =>
                    place[w] \in {"fetch", "reject", "start"} \union BodyPlaces

CancelTask(t) ==
    /\ LockFree /\ t \in tasks
    /\ task[t].status \notin TERMINAL_STATUSES
    /\ task' = [task EXCEPT ![t].cancel = TRUE]
    /\ PersistOrFail(t)
    /\ begged' = IF StillLooks(t) THEN begged \union {t} ELSE begged
    /\ UNCHANGED <<process, tasks, factories, queue, place, hand, deleting, deletes, stops,
                   born>>

\* delete_task: out of the dictionaries whatever its status, then, without
\* the lock, out of the table.
DeleteTask(t) ==
    /\ LockFree /\ t \in tasks
    /\ deletes < MaxDeletes /\ deletes' = deletes + 1
    /\ tasks' = tasks \ {t} /\ factories' = factories \ {t}
    /\ deleting' = deleting \union {t}
    /\ UNCHANGED <<process, task, queue, place, hand, table, fails, stops, history>>

DeleteRow(t) ==
    /\ t \in deleting
    /\ deleting' = deleting \ {t}
    /\ \/ rows' = rows \ {t} /\ UNCHANGED fails
       \/ Fails /\ UNCHANGED rows
    /\ UNCHANGED <<process, memory, place, hand, row, deletes, stops, history>>

-----------------------------------------------------------------------------
(* A worker *)

Goes(w, p) == place' = [place EXCEPT ![w] = p]

\* Back to queue.get().
LetsGo(w) == /\ Goes(w, "get")
             /\ hand' = [hand EXCEPT ![w] = NoTask]

TakeTask(w) ==
    /\ process = "up" /\ place[w] = "get" /\ queue # <<>>
    /\ hand' = [hand EXCEPT ![w] = Head(queue)]
    /\ queue' = Tail(queue)
    /\ Goes(w, "fetch")
    /\ UNCHANGED <<process, tasks, task, factories, table, deleting, bounds, history>>

\* _get_task_instance, and the first look at the cancel flag.
FetchTask(w) ==
    /\ LockFree /\ place[w] = "fetch"
    /\ CASE hand[w] \notin tasks -> LetsGo(w)
         [] hand[w] \in tasks /\ task[hand[w]].cancel -> Goes(w, "reject") /\ UNCHANGED hand
         [] OTHER -> Goes(w, "start") /\ UNCHANGED hand
    /\ UNCHANGED <<process, memory, table, deleting, bounds, history>>

\* _update_task with a status, for the task in w's hand if it was not
\* deleted: the object, then the row.
Record(w, status, continuable) ==
    IF hand[w] \in tasks
    THEN /\ task' = [task EXCEPT ![hand[w]].status = status,
                                 ![hand[w]].continuable = continuable]
         /\ Persist(hand[w])
    ELSE UNCHANGED <<task, table>>

\* The same, when the row cannot be written.
RecordFails(w, status, continuable) ==
    /\ hand[w] \in tasks /\ Fails
    /\ task' = [task EXCEPT ![hand[w]].status = status, ![hand[w]].continuable = continuable]
    /\ UNCHANGED table

RejectTask(w) ==
    /\ LockFree /\ place[w] = "reject"
    /\ LetsGo(w)
    /\ \/ Record(w, "cancelled", FALSE) /\ UNCHANGED fails
       \/ RecordFails(w, "cancelled", FALSE)
    /\ UNCHANGED <<process, tasks, factories, queue, deleting, deletes, stops, history>>

\* A task whose start cannot be recorded is dropped as it is.
StartTask(w) ==
    /\ LockFree /\ place[w] = "start"
    /\ LET still == task[hand[w]].continuable
       IN  \/ Record(w, "running", still) /\ Goes(w, "body") /\ UNCHANGED <<hand, fails>>
           \/ RecordFails(w, "running", still) /\ LetsGo(w)
    /\ UNCHANGED <<process, tasks, factories, queue, deleting, deletes, stops, history>>

\* Mutant: the flag is not looked at again when the coroutine has returned.
AfterReturnUnchecked(t) == "success"

\* The second look at the cancel flag, on the object the worker holds.
AfterReturn(t) == IF task[t].cancel THEN "cancelled" ELSE "success"

\* A progress report writes the whole row.  One that fails makes the
\* coroutine raise.
ReportProgress(w) ==
    /\ LockFree /\ place[w] = "body" /\ hand[w] \in tasks
    /\ UNCHANGED task /\ Persist(hand[w])
    /\ UNCHANGED <<process, tasks, factories, queue, place, hand, deleting, bounds, history>>

\* What the coroutine does in the end: it returns, raises an error or a
\* TimeoutError of its own, or sees the cancel flag and raises.
CoroutineReturns(w) ==
    /\ process = "up" /\ place[w] = "body"
    /\ Goes(w, AfterReturn(hand[w]))
    /\ UNCHANGED <<process, memory, hand, table, deleting, bounds, history>>

CoroutineRaises(w) ==
    /\ process = "up" /\ place[w] = "body"
    /\ \E p \in {"failed", "timeout"} : Goes(w, p)
    /\ UNCHANGED <<process, memory, hand, table, deleting, bounds, history>>

RaiseIfCancelled(w) ==
    /\ process = "up" /\ place[w] = "body"
    /\ hand[w] \in tasks /\ task[hand[w]].cancel
    /\ Goes(w, IF Key(w) \in Tidy THEN "cleanup" ELSE "aborted")
    /\ UNCHANGED <<process, memory, hand, table, deleting, bounds, history>>

\* The coroutine's own report of its cancellation, which needs the lock.
CleanUp(w) ==
    /\ LockFree /\ place[w] = "cleanup"
    /\ Goes(w, "aborted")
    /\ UNCHANGED <<process, memory, hand, table, deleting, bounds, history>>

\* asyncio.wait_for runs out.  When shutdown has cancelled the worker as
\* well, the worker ends with that.
HardTimeout(w) ==
    /\ Busy(w) /\ Key(w) \in Timed
    /\ Goes(w, IF place[w] = "stuck" THEN "off" ELSE "timeout")
    /\ UNCHANGED <<process, memory, hand, table, deleting, bounds, history>>

\* success, _mark_cancelled, _mark_retryable_failed, failed.  A failing
\* write inside the try block, an error or a timeout of the database, makes
\* the task a failed one; in an except block it is logged.
RecordOutcome(w) ==
    LET status == OutcomeStatus(place[w])
        continuable == status = RETRYABLE /\ hand[w] \in factories
    IN  /\ LockFree /\ place[w] \in OutcomePlaces
        /\ \/ /\ Record(w, status, continuable)
              /\ LetsGo(w)
              /\ UNCHANGED fails
           \/ /\ RecordFails(w, status, continuable)
              /\ IF place[w] \in {"success", "cancelled"}
                 THEN (\E p \in {"failed", "timeout"} : Goes(w, p)) /\ UNCHANGED hand
                 ELSE LetsGo(w)
        /\ UNCHANGED <<process, tasks, factories, queue, deleting, deletes, stops, history>>

-----------------------------------------------------------------------------
(* The process *)

\* Mutant: shutdown waits for the workers without cancelling them.
CancelledIdle(w) == IF place[w] \in BodyPlaces THEN place[w] ELSE "off"

\* worker.cancel(): a worker ends where it is, unless its coroutine insists
\* on the lock to report its cancellation.
CancelledPlace(w) == IF place[w] = "body" /\ Key(w) \in Tidy THEN "stuck" ELSE "off"

\* shutdown() takes the lock, cancels the workers and keeps the lock while
\* it gathers them.
Shutdown == /\ process = "up" /\ stops < MaxStops
            /\ process' = "stopping" /\ stops' = stops + 1
            /\ place' = [w \in Workers |-> CancelledPlace(w)]
            /\ UNCHANGED <<memory, hand, table, deleting, deletes, fails, history>>

\* The memory of the process is gone.
Vanish == /\ process' = "down"
          /\ tasks' = {} /\ factories' = {} /\ queue' = <<>> /\ deleting' = {}
          /\ place' = [w \in Workers |-> "off"] /\ hand' = [w \in Workers |-> NoTask]
          /\ UNCHANGED <<task, table, deletes, fails, history>>

ShutdownComplete == /\ process = "stopping"
                    /\ \A w \in Workers : place[w] = "off"
                    /\ Vanish /\ UNCHANGED stops

Crash == /\ process # "down" /\ stops < MaxStops
         /\ stops' = stops + 1
         /\ Vanish

\* Mutant: a cancelled task is taken for one that was cut off.
CutOffUnlessDone(status) == status \notin {"success", "failed", RETRYABLE}

\* Mutant: only running tasks are cut off, pending ones are queued in memory.
CutOffRunning(status) == status = "running"

CutOff(status) == status \notin TERMINAL_STATUSES

\* A task as _load_state takes it from its row: one that was cut off becomes
\* retryable, but not continuable.
Loaded(t) == IF CutOff(row[t].status)
             THEN [row[t] EXCEPT !.status = RETRYABLE, !.continuable = FALSE]
             ELSE row[t]

\* start()
Start == /\ process = "down"
         /\ process' = "up"
         /\ tasks' = rows
         /\ task' = [t \in Tasks |-> IF t \in rows THEN Loaded(t) ELSE task[t]]
         /\ row' = [t \in Tasks |-> IF t \in rows THEN Loaded(t) ELSE row[t]]
         /\ place' = [w \in Workers |-> "get"]
         /\ UNCHANGED <<factories, queue, hand, rows, deleting, bounds, history>>

\* A write fails on the way: the process stays down, some rows are written.
StartFails == /\ process = "down" /\ Fails
              /\ \E S \in SUBSET rows :
                   row' = [t \in Tasks |-> IF t \in S THEN Loaded(t) ELSE row[t]]
              /\ UNCHANGED <<process, memory, place, hand, rows, deleting, deletes, stops,
                             history>>

-----------------------------------------------------------------------------

Endpoint == \/ \E t \in Tasks, k \in Keys : EnqueueUnique(t, k)
            \/ \E t, u \in Tasks : ContinueTask(t, u)
            \/ \E t \in Tasks : \/ ContinueRefused(t) \/ CancelTask(t)
                                \/ DeleteTask(t) \/ DeleteRow(t)

\* What a worker does whatever its coroutine does.
WorkerStep(w) == \/ TakeTask(w) \/ FetchTask(w) \/ RejectTask(w) \/ StartTask(w)
                 \/ CleanUp(w) \/ HardTimeout(w) \/ RecordOutcome(w)

Coroutine(w) == \/ ReportProgress(w) \/ RaiseIfCancelled(w)
                \/ CoroutineReturns(w) \/ CoroutineRaises(w)

Process == Shutdown \/ ShutdownComplete \/ Crash \/ Start \/ StartFails

Next == \/ Endpoint
        \/ \E w \in Workers : WorkerStep(w) \/ Coroutine(w)
        \/ Process

Spec == Init /\ [][Next]_vars

(***************************************************************************)
(* Workers go on when they can, timers fire, a shutdown ends when its      *)
(* workers have, and a dead process is started again.  Nothing is assumed  *)
(* of the coroutines: a parser or a model call may hang for ever.          *)
(***************************************************************************)
FairSpec == /\ Spec
            /\ \A w \in Workers : WF_vars(WorkerStep(w))
            /\ WF_vars(ShutdownComplete) /\ WF_vars(Start)

-----------------------------------------------------------------------------
(* Properties *)

\* Type correctness of the memory, the workers and the tasks table.
TypeOK ==
    /\ process \in {"up", "stopping", "down"}
    /\ tasks \in SUBSET Tasks /\ task \in [Tasks -> Task] /\ factories \in SUBSET Tasks
    /\ queue \in Seq(Tasks)
    /\ place \in [Workers -> WorkerPlaces] /\ hand \in [Workers -> Tasks \union {NoTask}]
    /\ \A w \in Workers : place[w] \notin {"off", "get"} => hand[w] \in Tasks
    /\ rows \in SUBSET Tasks /\ row \in [Tasks -> Task] /\ deleting \in SUBSET Tasks
    /\ deletes \in 0..MaxDeletes /\ fails \in 0..MaxFails /\ stops \in 0..MaxStops
    /\ begged \in SUBSET Tasks /\ born \in SUBSET Tasks

Together(v, w) == v # w /\ Busy(v) /\ Busy(w) /\ Key(v) = Key(w)

\* Tasks are unique per type and business resource: two workers never have
\* coroutines of one key in progress, through timeouts, cancels, continued
\* tasks, failing writes and restarts; but for a task that was deleted while
\* its coroutine ran.
OverlapOnlyByDelete ==
    \A v, w \in Workers : Together(v, w) => \E u \in {v, w} : hand[u] \notin tasks

\* The same of deleted tasks as well.
OneCoroutinePerKey == \A v, w \in Workers : ~Together(v, w)

Held(t) == \/ \E i \in DOMAIN queue : queue[i] = t
           \/ \E w \in Workers : hand[w] = t

\* As long as the tasks table can be written, a task that is pending or
\* running is in the queue or with a worker: none is left behind that
\* enqueue_unique would go on returning as queued.
ActiveTaskIsHeld ==
    (process = "up" /\ fails = 0) =>
        \A t \in tasks : task[t].status \in ACTIVE_STATUSES => Held(t)

\* What the tasks table says of a finished task stays as it is, whatever
\* races between its worker, cancel, continue and a restart come after.
OutcomeStays ==
    [][\A t \in rows : row[t].status \in TERMINAL_STATUSES =>
            row'[t].status = row[t].status]_vars

\* A cancel that was accepted before the worker's last look at the flag
\* never ends in success, even if the coroutine does not look itself.
CancelBeatsSuccess == \A t \in begged \intersect tasks : task[t].status # "success"

\* Every queued task ends, is deleted or is cut off by the end of the
\* process, unless the tasks table cannot be written: a coroutine that hangs
\* is stopped by its hard timeout.
TaskEnds ==
    \A t \in Tasks :
        (process = "up" /\ t \in tasks)
            ~> (t \notin tasks \/ task[t].status \in TERMINAL_STATUSES \/ fails > 0)

\* shutdown() returns, so that the API process can end: the lock it holds
\* while it waits for its workers keeps none of them for ever.
ShutdownReturns == process = "stopping" ~> process = "down"
=============================================================================
