---------------------------- MODULE TaskerProofs ----------------------------
(***************************************************************************)
(* Theorems about Tasker, for any tasks, keys, workers and bounds: its     *)
(* types, that coroutines of one resource overlap only after a delete,     *)
(* that an active task is in the queue or with a worker, that a cancel in  *)
(* time is not answered with success, and that a finished task's row       *)
(* stays.                                                                  *)
(***************************************************************************)
EXTENDS Tasker, TLAPS

-----------------------------------------------------------------------------
(* The invariant *)

Queued == {queue[i] : i \in DOMAIN queue}
Once == \A i, j \in DOMAIN queue : queue[i] = queue[j] => i = j

\* Ids in use have been given out.
IdInv == /\ tasks \subseteq born /\ rows \subseteq born /\ Queued \subseteq born
         /\ begged \subseteq born
         /\ \A w \in Workers : hand[w] # NoTask => hand[w] \in born

\* A task is in one place: once in the queue or in one worker's hand.
HandInv == /\ Once
           /\ \A w \in Workers : hand[w] \notin Queued
           /\ \A v, w \in Workers : hand[v] = hand[w] /\ hand[v] # NoTask => v = w
           /\ \A w \in Workers : place[w] = "get" => hand[w] = NoTask

\* What the state of the process says of the memory and the workers.
ProcessInv ==
    /\ process = "down" => /\ tasks = {} /\ queue = <<>>
                           /\ \A w \in Workers : place[w] = "off" /\ hand[w] = NoTask
    /\ process = "stopping" => \A w \in Workers : place[w] \in {"off", "stuck"}
    /\ process = "up" => \A w \in Workers : place[w] \notin {"off", "stuck"}

\* What the place of its holder says of a task's status.
StatusInv ==
    /\ \A t \in Queued \intersect tasks : task[t].status = "pending"
    /\ \A w \in Workers : hand[w] \in tasks =>
        /\ place[w] \in {"fetch", "reject", "start"} => task[hand[w]].status = "pending"
        /\ Busy(w) => task[hand[w]].status = "running"
        /\ place[w] \in OutcomePlaces => task[hand[w]].status # RETRYABLE

\* At most one active task for each resource.
KeyInv == \A t, u \in tasks :
            /\ task[t].status \in ACTIVE_STATUSES /\ task[u].status \in ACTIVE_STATUSES
            /\ task[t].key = task[u].key
            => t = u

\* A finished task's row is the last word: nobody holds the task, and the
\* memory says the same.
RowInv == \A t \in rows : row[t].status \in TERMINAL_STATUSES =>
            /\ t \notin Queued /\ \A w \in Workers : hand[w] # t
            /\ t \in tasks => task[t].status = row[t].status

\* A cancel that was accepted in time is still to be seen, or has been.
BeggedInv == \A t \in begged :
            /\ t \in tasks => task[t].status # "success"
            /\ t \in rows => row[t].status # "success"
            /\ t \in Queued => task[t].cancel
            /\ \A w \in Workers : hand[w] = t => task[t].cancel /\ place[w] # "success"

IInv == TypeOK /\ IdInv /\ HandInv /\ ProcessInv /\ StatusInv /\ KeyInv /\ RowInv
        /\ BeggedInv /\ ActiveTaskIsHeld

-----------------------------------------------------------------------------
(* The operators the actions are built from *)

LEMMA QueueAppend ==
    ASSUME queue \in Seq(Tasks), NEW t \in Tasks, queue' = Append(queue, t)
    PROVE  /\ queue' \in Seq(Tasks)
           /\ Queued' = Queued \union {t}
           /\ Once /\ t \notin Queued => Once'
  <1>1. /\ DOMAIN queue' = DOMAIN queue \union {Len(queue) + 1} /\ Len(queue) + 1 \notin DOMAIN queue
        /\ \A i \in DOMAIN queue : queue'[i] = queue[i]
        /\ queue'[Len(queue) + 1] = t
    OBVIOUS
  <1> QED BY <1>1 DEF Queued, Once

LEMMA QueueTail ==
    ASSUME queue \in Seq(Tasks), queue # <<>>, Once, queue' = Tail(queue)
    PROVE  /\ queue' \in Seq(Tasks) /\ Head(queue) \in Tasks
           /\ Head(queue) \in Queued
           /\ Queued' = Queued \ {Head(queue)}
           /\ Once'
  <1>1. /\ Len(queue) \in Nat \ {0} /\ DOMAIN queue = 1..Len(queue)
        /\ DOMAIN queue' = 1..(Len(queue) - 1)
        /\ \A i \in DOMAIN queue' : queue'[i] = queue[i + 1]
        /\ Head(queue) = queue[1]
    OBVIOUS
  <1>2. \A i \in DOMAIN queue : i # 1 => queue[i] # queue[1]
    BY <1>1 DEF Once
  <1>3. Queued' \subseteq Queued \ {Head(queue)}
    BY <1>1, <1>2 DEF Queued
  <1>4. ASSUME NEW x \in Queued \ {Head(queue)} PROVE x \in Queued'
    <2>1. PICK i \in DOMAIN queue : queue[i] = x
      BY DEF Queued
    <2>2. i - 1 \in DOMAIN queue' /\ queue'[i - 1] = x
      BY <1>1, <2>1
    <2> QED BY <2>2 DEF Queued
  <1>5. ASSUME NEW i \in DOMAIN queue', NEW j \in DOMAIN queue', queue'[i] = queue'[j] PROVE i = j
    <2>1. i + 1 \in DOMAIN queue /\ j + 1 \in DOMAIN queue /\ queue[i + 1] = queue[j + 1]
      BY <1>1, <1>5
    <2> QED BY <1>1, <2>1 DEF Once
  <1>6. Once'
    BY <1>5, Zenon DEF Once
  <1>7. queue' \in Seq(Tasks) /\ Head(queue) \in Tasks
    OBVIOUS
  <1>8. Head(queue) \in Queued
    BY <1>1 DEF Queued
  <1>9. Queued' = Queued \ {Head(queue)}
    BY <1>3, <1>4
  <1> QED BY <1>6, <1>7, <1>8, <1>9

LEMMA QueueEmpty == queue = <<>> => Queued = {} /\ Once /\ queue \in Seq(Tasks)
  BY DEF Queued, Once

LEMMA QueuedType == queue \in Seq(Tasks) => Queued \subseteq Tasks
  BY DEF Queued

USE DEF ACTIVE_STATUSES, TERMINAL_STATUSES, RETRYABLE

LEMMA NewTaskType ==
    ASSUME NEW k \in Keys, NEW t \in Tasks \union {NoTask}
    PROVE  /\ NewTask(k, t) \in Task
           /\ NewTask(k, t).status = "pending" /\ NewTask(k, t).key = k
           /\ ~NewTask(k, t).cancel
  BY DEF NewTask, Task

LEMMA AnyTaskType == AnyTask \in Task
  BY TaskerAssumption DEF AnyTask, Task

LEMMA OutcomeType ==
    ASSUME NEW p \in OutcomePlaces
    PROVE  /\ OutcomeStatus(p) \in TERMINAL_STATUSES
           /\ (OutcomeStatus(p) = "success") <=> (p = "success")
           /\ (OutcomeStatus(p) = RETRYABLE) <=> (p = "timeout")
  BY DEF OutcomeStatus, OutcomePlaces

LEMMA LoadedType ==
    ASSUME NEW t \in Tasks, row[t] \in Task
    PROVE  /\ Loaded(t) \in Task
           /\ Loaded(t).status \in TERMINAL_STATUSES
           /\ row[t].status \in TERMINAL_STATUSES => Loaded(t) = row[t]
           /\ Loaded(t).status = "success" => row[t].status = "success"
  BY DEF Loaded, CutOff, Task
-----------------------------------------------------------------------------
(* What a step does to the tasks and to the table *)

\* Of the objects only t's changes: to a status, or in its other fields.
Sets(t, status) ==
    /\ task' \in [Tasks -> Task] /\ \A u \in Tasks \ {t} : task'[u] = task[u]
    /\ task'[t].status = status /\ task'[t].key = task[t].key /\ task'[t].cancel = task[t].cancel

\* Of the rows only t's changes, to the object.
Writes(t) ==
    /\ rows' = rows \union {t} /\ row' \in [Tasks -> Task]
    /\ row'[t] = task'[t] /\ \A u \in Tasks \ {t} : row'[u] = row[u]

TableKept == rows' = rows /\ row' = row

LEMMA PersistWrites ==
    ASSUME TypeOK, NEW t \in Tasks, task' \in [Tasks -> Task], Persist(t)
    PROVE  Writes(t)
  BY DEF TypeOK, Persist, Writes

LEMMA SetsFields ==
    ASSUME TypeOK, NEW t \in Tasks, NEW status \in ACTIVE_STATUSES \union TERMINAL_STATUSES,
           NEW c \in BOOLEAN, task' = [task EXCEPT ![t].status = status, ![t].continuable = c]
    PROVE  Sets(t, status)
  <1> DEFINE new == [task[t] EXCEPT !.status = status, !.continuable = c]
  <1>1. task[t] \in Task
    BY DEF TypeOK
  <1>2. new \in Task /\ new.status = status /\ new.key = task[t].key /\ new.cancel = task[t].cancel
    BY <1>1 DEF Task
  <1>3. task' = [task EXCEPT ![t] = new]
    BY DEF TypeOK
  <1> HIDE DEF new
  <1> QED BY ZenonT(40), <1>2, <1>3 DEF TypeOK, Sets

LEMMA RecordEffect ==
    ASSUME TypeOK, NEW w \in Workers, hand[w] \in Tasks,
           NEW status \in ACTIVE_STATUSES \union TERMINAL_STATUSES, NEW c \in BOOLEAN,
           Record(w, status, c)
    PROVE  \/ hand[w] \in tasks /\ Sets(hand[w], status) /\ Writes(hand[w])
           \/ hand[w] \notin tasks /\ task' = task /\ TableKept
  <1>1. CASE hand[w] \in tasks
    <2>1. Sets(hand[w], status)
      BY <1>1, SetsFields DEF Record
    <2> QED BY <1>1, <2>1, PersistWrites DEF Record, Sets
  <1> QED BY <1>1 DEF Record, TableKept, table

LEMMA RecordFailsEffect ==
    ASSUME TypeOK, NEW w \in Workers, hand[w] \in Tasks,
           NEW status \in ACTIVE_STATUSES \union TERMINAL_STATUSES, NEW c \in BOOLEAN,
           RecordFails(w, status, c)
    PROVE  hand[w] \in tasks /\ Sets(hand[w], status) /\ TableKept /\ Fails
  BY SetsFields DEF RecordFails, TableKept, table

\* A new task in the memory, in the table and in the queue; or in the memory
\* alone when the table cannot be written.
Adds(t, k) ==
    /\ t \notin born /\ born' = born \union {t} /\ tasks' = tasks \union {t}
    /\ task'[t].status = "pending" /\ task'[t].key = k /\ ~task'[t].cancel

LEMMA FailsType == TypeOK /\ Fails => fails' \in 1..MaxFails
  BY TaskerAssumption DEF TypeOK, Fails

LEMMA EnqueueEffect ==
    ASSUME TypeOK, NEW t \in Tasks, NEW k \in Keys, EnqueueUnique(t, k)
    PROVE  /\ Adds(t, k) /\ task' \in [Tasks -> Task] /\ \A u \in Tasks \ {t} : task'[u] = task[u]
           /\ \/ Writes(t) /\ queue' = Append(queue, t) /\ fails' = fails
              \/ TableKept /\ queue' = queue /\ Fails
           /\ FreeKey(k) /\ process = "up"
           /\ UNCHANGED <<process, place, hand, begged, stops>>
  <1>1. task' = [task EXCEPT ![t] = NewTask(k, NoTask)] /\ Adds(t, k) /\ task' \in [Tasks -> Task]
    BY NewTaskType DEF EnqueueUnique, Adds, TypeOK
  <1>2. \A u \in Tasks \ {t} : task'[u] = task[u]
    BY <1>1 DEF TypeOK
  <1> QED BY <1>1, <1>2, PersistWrites DEF EnqueueUnique, LockFree, table, TableKept

LEMMA ContinueEffect ==
    ASSUME TypeOK, tasks \subseteq born, NEW t \in Tasks, NEW u \in Tasks, ContinueTask(t, u)
    PROVE  /\ t # u /\ t \in tasks /\ task[t].status = RETRYABLE /\ Adds(u, task[t].key)
           /\ task' \in [Tasks -> Task]
           /\ task'[t].status = RETRYABLE /\ task'[t].key = task[t].key /\ task'[t].cancel = task[t].cancel
           /\ \A v \in Tasks \ {t, u} : task'[v] = task[v]
           /\ row' \in [Tasks -> Task] /\ \A v \in Tasks \ {t, u} : row'[v] = row[v]
           /\ \/ /\ rows' = rows \union {t, u} /\ row'[t] = task'[t] /\ row'[u] = task'[u]
                 /\ queue' = Append(queue, u) /\ fails' = fails
              \/ /\ queue' = queue /\ Fails
                 /\ Writes(t) \/ TableKept
           /\ FreeKey(task[t].key) /\ process = "up"
           /\ UNCHANGED <<process, place, hand, begged, stops>>
  <1>1. t # u
    BY DEF ContinueTask
  <1>2. task' = [task EXCEPT ![t].continuable = FALSE, ![u] = NewTask(task[t].key, t)]
    BY DEF ContinueTask
  <1>3. task[t] \in Task /\ task[t].key \in Keys
    BY DEF TypeOK, Task
  <1>4. task'[u] = NewTask(task[t].key, t) /\ task'[t] = [task[t] EXCEPT !.continuable = FALSE]
        /\ \A v \in Tasks \ {t, u} : task'[v] = task[v]
    BY <1>1, <1>2 DEF TypeOK
  <1>5. task'[t] \in Task /\ task'[t].status = task[t].status /\ task'[t].key = task[t].key
        /\ task'[t].cancel = task[t].cancel
    BY <1>3, <1>4 DEF Task
  <1>6. task' \in [Tasks -> Task]
    BY <1>2, <1>3, <1>4, <1>5, NewTaskType DEF TypeOK
  <1>7. Adds(u, task[t].key)
    BY <1>3, <1>4, NewTaskType DEF ContinueTask, Adds
  <1>8. CASE row' = [row EXCEPT ![t] = task'[t], ![u] = task'[u]]
    <2>1. row' \in [Tasks -> Task] /\ row'[t] = task'[t] /\ row'[u] = task'[u]
          /\ \A v \in Tasks \ {t, u} : row'[v] = row[v]
      BY <1>1, <1>6, <1>8 DEF TypeOK
    <2>2. \/ rows' = rows \union {t, u} /\ queue' = Append(queue, u) /\ fails' = fails
          \/ queue' = queue /\ Fails /\ (Writes(t) \/ TableKept)
      BY <1>6, PersistWrites DEF ContinueTask, table, TableKept
    <2> QED BY <1>1, <1>4, <1>5, <1>6, <1>7, <2>1, <2>2 DEF ContinueTask, LockFree
  <1>9. CASE row' # [row EXCEPT ![t] = task'[t], ![u] = task'[u]]
    <2>1. queue' = queue /\ Fails /\ (Writes(t) \/ TableKept)
      BY <1>6, <1>9, PersistWrites DEF ContinueTask, table, TableKept
    <2>2. row' \in [Tasks -> Task] /\ \A v \in Tasks \ {t, u} : row'[v] = row[v]
      BY <2>1 DEF Writes, TableKept, TypeOK
    <2> QED BY <1>1, <1>4, <1>5, <1>6, <1>7, <2>1, <2>2 DEF ContinueTask, LockFree
  <1> QED BY <1>8, <1>9
LEMMA RefusedEffect ==
    ASSUME TypeOK, NEW t \in Tasks, ContinueRefused(t)
    PROVE  /\ t \in tasks /\ task[t].status = RETRYABLE /\ Sets(t, RETRYABLE) /\ process = "up"
           /\ (Writes(t) /\ fails' = fails) \/ (TableKept /\ Fails)
           /\ UNCHANGED <<process, tasks, queue, place, hand, begged, born, deletes, stops>>
  <1>1. Sets(t, RETRYABLE)
    <2> DEFINE new == [task[t] EXCEPT !.continuable = FALSE]
    <2>1. task[t] \in Task /\ task[t].status = RETRYABLE
      BY DEF TypeOK, ContinueRefused
    <2>2. new \in Task /\ new.status = RETRYABLE /\ new.key = task[t].key /\ new.cancel = task[t].cancel
      BY <2>1 DEF Task
    <2>3. task' = [task EXCEPT ![t] = new]
      BY DEF ContinueRefused
    <2> HIDE DEF new
    <2> QED BY <2>2, <2>3 DEF TypeOK, Sets
  <1> QED BY <1>1, PersistWrites DEF ContinueRefused, LockFree, PersistOrFail, TableKept, table, Sets, history

LEMMA CancelEffect ==
    ASSUME TypeOK, NEW t \in Tasks, CancelTask(t)
    PROVE  /\ t \in tasks /\ task[t].status \in ACTIVE_STATUSES /\ process = "up"
           /\ task' \in [Tasks -> Task] /\ \A u \in Tasks \ {t} : task'[u] = task[u]
           /\ task'[t].status = task[t].status /\ task'[t].key = task[t].key /\ task'[t].cancel
           /\ (Writes(t) /\ fails' = fails) \/ (TableKept /\ Fails)
           /\ begged' = IF StillLooks(t) THEN begged \union {t} ELSE begged
           /\ UNCHANGED <<process, tasks, queue, place, hand, born, deletes, stops>>
  <1> DEFINE new == [task[t] EXCEPT !.cancel = TRUE]
  <1>1. task[t] \in Task /\ task[t].status \in ACTIVE_STATUSES
    BY DEF TypeOK, CancelTask, Task
  <1>2. new \in Task /\ new.status = task[t].status /\ new.key = task[t].key /\ new.cancel
    BY <1>1 DEF Task
  <1>3. task' = [task EXCEPT ![t] = new]
    BY DEF CancelTask
  <1> HIDE DEF new
  <1>4. task' \in [Tasks -> Task] /\ task'[t] = new /\ \A u \in Tasks \ {t} : task'[u] = task[u]
    BY <1>2, <1>3 DEF TypeOK
  <1> QED BY <1>1, <1>2, <1>4, PersistWrites DEF CancelTask, LockFree, PersistOrFail, TableKept, table

\* A worker writes a status of the task in its hand, unless that was deleted.
Reports(w, status) ==
    /\ process = "up" /\ hand[w] \in Tasks
    /\ \/ hand[w] \in tasks /\ Sets(hand[w], status) /\ Writes(hand[w]) /\ fails' = fails
       \/ hand[w] \notin tasks /\ task' = task /\ TableKept /\ fails' = fails
       \/ hand[w] \in tasks /\ Sets(hand[w], status) /\ TableKept /\ Fails
    /\ UNCHANGED <<process, tasks, queue, begged, born, deletes, stops>>

LEMMA RejectEffect ==
    ASSUME TypeOK, NEW w \in Workers, RejectTask(w)
    PROVE  place[w] = "reject" /\ LetsGo(w) /\ Reports(w, "cancelled")
  <1>1. hand[w] \in Tasks
    BY DEF TypeOK, RejectTask
  <1> QED BY <1>1, RecordEffect, RecordFailsEffect DEF RejectTask, LockFree, Reports, history

LEMMA StartEffect ==
    ASSUME TypeOK, NEW w \in Workers, StartTask(w)
    PROVE  /\ place[w] = "start" /\ Reports(w, "running")
           /\ (Goes(w, "body") /\ hand' = hand) \/ (LetsGo(w) /\ Fails)
  <1>1. hand[w] \in Tasks /\ task[hand[w]].continuable \in BOOLEAN
    BY DEF TypeOK, StartTask, Task
  <1> QED BY <1>1, RecordEffect, RecordFailsEffect DEF StartTask, LockFree, Reports, history

LEMMA OutcomeEffect ==
    ASSUME TypeOK, NEW w \in Workers, RecordOutcome(w)
    PROVE  /\ place[w] \in OutcomePlaces /\ Reports(w, OutcomeStatus(place[w]))
           /\ \/ LetsGo(w)
              \/ /\ place[w] \in {"success", "cancelled"} /\ Fails /\ hand' = hand
                 /\ Goes(w, "failed") \/ Goes(w, "timeout")
  <1> DEFINE status == OutcomeStatus(place[w])
             continuable == status = RETRYABLE /\ hand[w] \in factories
  <1>1. hand[w] \in Tasks /\ status \in ACTIVE_STATUSES \union TERMINAL_STATUSES
    BY OutcomeType DEF TypeOK, RecordOutcome, OutcomePlaces
  <1>2. continuable \in BOOLEAN
    OBVIOUS
  <1>3. /\ process = "up" /\ place[w] \in OutcomePlaces
        /\ UNCHANGED <<process, tasks, queue, begged, born, deletes, stops>>
        /\ \/ Record(w, status, continuable) /\ LetsGo(w) /\ fails' = fails
           \/ /\ RecordFails(w, status, continuable)
              /\ IF place[w] \in {"success", "cancelled"}
                 THEN (Goes(w, "failed") \/ Goes(w, "timeout")) /\ hand' = hand
                 ELSE LetsGo(w)
    BY DEF RecordOutcome, LockFree, history
  <1> HIDE DEF status, continuable
  <1>4. CASE Record(w, status, continuable) /\ LetsGo(w) /\ fails' = fails
    <2>1. Reports(w, status)
      BY <1>1, <1>2, <1>3, <1>4, RecordEffect DEF Reports
    <2> QED BY <1>3, <1>4, <2>1 DEF status
  <1>5. CASE RecordFails(w, status, continuable)
    <2>1. Reports(w, status) /\ Fails
      BY <1>1, <1>2, <1>3, <1>5, RecordFailsEffect DEF Reports
    <2>2. \/ LetsGo(w)
          \/ /\ place[w] \in {"success", "cancelled"} /\ hand' = hand
             /\ Goes(w, "failed") \/ Goes(w, "timeout")
      BY <1>3, <1>5 DEF Record, RecordFails
    <2> QED BY <1>3, <2>1, <2>2 DEF status
  <1> QED BY <1>3, <1>4, <1>5

-----------------------------------------------------------------------------
(* Every action keeps the invariant *)

LEMMA QueueKept == queue' = queue => Queued' = Queued /\ (Once => Once')
  BY DEF Queued, Once

LEMMA HeldIs == \A t : Held(t) <=> (t \in Queued \/ \E w \in Workers : hand[w] = t)
  BY DEF Held, Queued

LEMMA HeldIsNext == \A t : Held(t)' <=> (t \in Queued' \/ \E w \in Workers : hand'[w] = t)
  BY DEF Held, Queued

LEMMA GoesEffect ==
    ASSUME TypeOK, NEW w \in Workers, NEW p \in WorkerPlaces, Goes(w, p)
    PROVE  /\ place' \in [Workers -> WorkerPlaces] /\ place'[w] = p
           /\ \A v \in Workers \ {w} : place'[v] = place[v]
  BY DEF TypeOK, Goes

LEMMA LetsGoEffect ==
    ASSUME TypeOK, NEW w \in Workers, LetsGo(w)
    PROVE  /\ place' \in [Workers -> WorkerPlaces] /\ hand' \in [Workers -> Tasks \union {NoTask}]
           /\ place'[w] = "get" /\ hand'[w] = NoTask
           /\ \A v \in Workers \ {w} : place'[v] = place[v] /\ hand'[v] = hand[v]
  BY DEF TypeOK, LetsGo, Goes, WorkerPlaces

\* A worker that goes on without a write.
LEMMA MoveStep ==
    ASSUME IInv, NEW w \in Workers, NEW p \in WorkerPlaces \ {"get"}, hand[w] \in Tasks, Goes(w, p),
           UNCHANGED <<process, memory, hand, table, deleting, bounds, history>>,
           process = "up" => p \notin {"off", "stuck"},
           process = "stopping" => p \in {"off", "stuck"},
           process # "down",
           hand[w] \in tasks =>
               /\ p \in {"fetch", "reject", "start"} => task[hand[w]].status = "pending"
               /\ p \in BodyPlaces => task[hand[w]].status = "running"
               /\ p \in OutcomePlaces => task[hand[w]].status # "retryable_failed",
           p = "success" => ~task[hand[w]].cancel
    PROVE  IInv'
  <1>1. /\ place' \in [Workers -> WorkerPlaces] /\ place'[w] = p
        /\ \A v \in Workers \ {w} : place'[v] = place[v]
    BY GoesEffect DEF IInv
  <1>2. /\ UNCHANGED <<process, tasks, task, factories, queue, hand, rows, row, deleting>>
        /\ UNCHANGED <<deletes, fails, stops, begged, born>>
        /\ Queued' = Queued /\ (Once => Once')
    BY QueueKept DEF memory, table, bounds, history
  <1>3. TypeOK'
    BY <1>1, <1>2 DEF IInv, TypeOK
  <1>4. IdInv'
    BY <1>2 DEF IInv, IdInv
  <1>5. HandInv'
    BY <1>1, <1>2 DEF IInv, HandInv
  <1>6. ProcessInv'
    BY <1>1, <1>2 DEF IInv, ProcessInv
  <1>7. StatusInv'
    BY <1>1, <1>2 DEF IInv, StatusInv, Busy
  <1>8. KeyInv' /\ RowInv'
    BY <1>2 DEF IInv, KeyInv, RowInv
  <1>9. BeggedInv'
    BY <1>1, <1>2 DEF IInv, BeggedInv
  <1>10. ActiveTaskIsHeld'
    BY <1>2, HeldIs, HeldIsNext DEF IInv, ActiveTaskIsHeld
  <1> QED BY <1>3, <1>4, <1>5, <1>6, <1>7, <1>8, <1>9, <1>10 DEF IInv

LEMMA CoroutineStep ==
    ASSUME IInv, NEW w \in Workers,
           CoroutineReturns(w) \/ CoroutineRaises(w) \/ RaiseIfCancelled(w) \/ CleanUp(w)
    PROVE  IInv'
  <1>1. hand[w] \in Tasks /\ process = "up" /\ Busy(w)
    BY DEF IInv, TypeOK, CoroutineReturns, CoroutineRaises, RaiseIfCancelled, CleanUp, LockFree,
           Busy, BodyPlaces
  <1>2. hand[w] \in tasks => task[hand[w]].status = "running"
    BY <1>1 DEF IInv, StatusInv
  <1>3. PICK p \in {"success", "cancelled", "failed", "timeout", "cleanup", "aborted"} :
            Goes(w, p) /\ (p = "success" => ~task[hand[w]].cancel)
    <2>1. CASE CoroutineReturns(w)
      BY <2>1 DEF CoroutineReturns, AfterReturn
    <2>2. CASE CoroutineRaises(w)
      BY <2>2 DEF CoroutineRaises
    <2>3. CASE RaiseIfCancelled(w) \/ CleanUp(w)
      BY <2>3 DEF RaiseIfCancelled, CleanUp
    <2> QED BY <2>1, <2>2, <2>3
  <1>4. UNCHANGED <<process, memory, hand, table, deleting, bounds, history>>
    BY DEF CoroutineReturns, CoroutineRaises, RaiseIfCancelled, CleanUp
  <1>5. p \in WorkerPlaces \ {"get"} /\ p \notin {"off", "stuck", "fetch", "reject", "start"}
    BY DEF WorkerPlaces, BodyPlaces, OutcomePlaces
  <1> QED BY <1>1, <1>2, <1>3, <1>4, <1>5, MoveStep

LEMMA HardTimeoutStep == ASSUME IInv, NEW w \in Workers, HardTimeout(w) PROVE IInv'
  <1>1. hand[w] \in Tasks /\ Busy(w)
    BY DEF IInv, TypeOK, HardTimeout, Busy, BodyPlaces
  <1>2. hand[w] \in tasks => task[hand[w]].status = "running"
    BY <1>1 DEF IInv, StatusInv
  <1>3. PICK p \in {"off", "timeout"} : Goes(w, p) /\ (p = "off" <=> place[w] = "stuck")
    BY DEF HardTimeout
  <1>4. UNCHANGED <<process, memory, hand, table, deleting, bounds, history>>
    BY DEF HardTimeout
  <1>5. /\ process # "down" /\ (process = "up" => p # "off") /\ (process = "stopping" => p = "off")
    BY <1>1, <1>3 DEF IInv, ProcessInv, Busy, BodyPlaces
  <1>6. p \in WorkerPlaces \ {"get"} /\ p \notin {"stuck", "fetch", "reject", "start", "success"}
        /\ p \notin BodyPlaces
    BY DEF WorkerPlaces, BodyPlaces, OutcomePlaces
  <1> QED BY <1>1, <1>2, <1>3, <1>4, <1>5, <1>6, MoveStep

LEMMA TakeStep == ASSUME IInv, NEW w \in Workers, TakeTask(w) PROVE IInv'
  <1> DEFINE h == Head(queue)
  <1>1. /\ queue' \in Seq(Tasks) /\ h \in Tasks /\ h \in Queued
        /\ Queued' = Queued \ {h} /\ Once'
    BY QueueTail DEF IInv, TypeOK, HandInv, TakeTask
  <1>2. /\ place' \in [Workers -> WorkerPlaces] /\ place'[w] = "fetch"
        /\ \A v \in Workers \ {w} : place'[v] = place[v]
    BY GoesEffect DEF IInv, TakeTask, WorkerPlaces
  <1>3. /\ hand' \in [Workers -> Tasks \union {NoTask}] /\ hand'[w] = h
        /\ \A v \in Workers \ {w} : hand'[v] = hand[v]
    BY <1>1 DEF IInv, TypeOK, TakeTask
  <1>4. /\ UNCHANGED <<process, tasks, task, factories, rows, row, deleting>>
        /\ UNCHANGED <<deletes, fails, stops, begged, born>>
        /\ process = "up" /\ hand[w] = NoTask
    BY DEF IInv, HandInv, TakeTask, table, bounds, history
  <1> HIDE DEF h
  <1>5. h # NoTask /\ \A v \in Workers : hand[v] # h
    BY <1>1, TaskerAssumption DEF IInv, HandInv
  <1>6. TypeOK'
    BY <1>1, <1>2, <1>3, <1>4 DEF IInv, TypeOK
  <1>7. IdInv'
    BY <1>1, <1>3, <1>4 DEF IInv, IdInv
  <1>8. HandInv'
    BY <1>1, <1>2, <1>3, <1>4, <1>5 DEF IInv, HandInv
  <1>9. ProcessInv'
    BY <1>2, <1>4 DEF IInv, ProcessInv
  <1>10. StatusInv'
    <2>1. \A t \in Queued' \intersect tasks' : task'[t].status = "pending"
      BY <1>1, <1>4 DEF IInv, StatusInv
    <2>2. "fetch" \notin BodyPlaces /\ "fetch" \notin OutcomePlaces
      BY DEF BodyPlaces, OutcomePlaces
    <2>3. h \in tasks => task[h].status = "pending"
      BY <1>1 DEF IInv, StatusInv
    <2> QED BY <1>2, <1>3, <1>4, <2>1, <2>2, <2>3 DEF IInv, StatusInv, Busy
  <1>11. KeyInv'
    BY <1>4 DEF IInv, KeyInv
  <1>12. RowInv'
    BY <1>1, <1>3, <1>4 DEF IInv, RowInv
  <1>13. BeggedInv'
    BY <1>1, <1>2, <1>3, <1>4 DEF IInv, BeggedInv
  <1>14. ActiveTaskIsHeld'
    BY <1>1, <1>3, <1>4, HeldIs, HeldIsNext, TaskerAssumption DEF IInv, TypeOK, ActiveTaskIsHeld
  <1> QED BY <1>6, <1>7, <1>8, <1>9, <1>10, <1>11, <1>12, <1>13, <1>14 DEF IInv

LEMMA FetchStep == ASSUME IInv, NEW w \in Workers, FetchTask(w) PROVE IInv'
  <1>1. /\ process = "up" /\ place[w] = "fetch" /\ hand[w] \in Tasks
        /\ UNCHANGED <<process, memory, table, deleting, bounds, history>>
    BY DEF IInv, TypeOK, FetchTask, LockFree
  <1>2. CASE hand[w] \notin tasks
    <2>1. /\ place' \in [Workers -> WorkerPlaces] /\ hand' \in [Workers -> Tasks \union {NoTask}]
          /\ place'[w] = "get" /\ hand'[w] = NoTask
          /\ \A v \in Workers \ {w} : place'[v] = place[v] /\ hand'[v] = hand[v]
      BY <1>2, LetsGoEffect DEF IInv, FetchTask
    <2>2. /\ UNCHANGED <<process, tasks, task, factories, queue, rows, row, deleting>>
          /\ UNCHANGED <<deletes, fails, stops, begged, born>>
          /\ Queued' = Queued /\ (Once => Once')
      BY <1>1, QueueKept DEF memory, table, bounds, history
    <2>3. NoTask \notin Tasks
      BY TaskerAssumption
    <2>4. TypeOK'
      BY <2>1, <2>2 DEF IInv, TypeOK
    <2>5. IdInv'
      BY <2>1, <2>2 DEF IInv, IdInv
    <2>6. HandInv'
      <3>1. NoTask \notin Queued
        BY <2>3, QueuedType DEF IInv, TypeOK
      <3> QED BY <2>1, <2>2, <3>1 DEF IInv, HandInv
    <2>7. ProcessInv'
      BY <1>1, <2>1, <2>2 DEF IInv, ProcessInv
    <2>8. StatusInv'
      <3>1. hand'[w] \notin tasks'
        BY <2>1, <2>2, <2>3 DEF IInv, TypeOK
      <3> QED BY <2>1, <2>2, <3>1 DEF IInv, StatusInv, Busy
    <2>9. KeyInv'
      BY <2>2 DEF IInv, KeyInv
    <2>10. RowInv'
      BY <2>1, <2>2, <2>3 DEF IInv, TypeOK, RowInv
    <2>11. BeggedInv'
      BY <2>1, <2>2, <2>3 DEF IInv, TypeOK, BeggedInv
    <2>12. ActiveTaskIsHeld'
      BY <1>2, <2>1, <2>2, HeldIs, HeldIsNext DEF IInv, ActiveTaskIsHeld
    <2> QED BY <2>4, <2>5, <2>6, <2>7, <2>8, <2>9, <2>10, <2>11, <2>12 DEF IInv
  <1>3. CASE hand[w] \in tasks
    <2>1. PICK p \in {"reject", "start"} : Goes(w, p) /\ UNCHANGED hand
      BY <1>3 DEF FetchTask
    <2>2. task[hand[w]].status = "pending"
      BY <1>1, <1>3 DEF IInv, StatusInv
    <2>3. p \in WorkerPlaces \ {"get"} /\ p \notin BodyPlaces /\ p \notin OutcomePlaces
          /\ p \notin {"off", "stuck", "success"}
      BY DEF WorkerPlaces, BodyPlaces, OutcomePlaces
    <2> QED BY <1>1, <2>1, <2>2, <2>3, MoveStep
  <1> QED BY <1>2, <1>3

\* A worker that writes a status and lets its task go: one that ends the
\* task, or, when the table cannot be written, any.
LEMMA DropStep ==
    ASSUME IInv, NEW w \in Workers, NEW status \in ACTIVE_STATUSES \union TERMINAL_STATUSES,
           Reports(w, status), LetsGo(w), factories' = factories, deleting' = deleting,
           status \in TERMINAL_STATUSES \/ Fails,
           hand[w] \in tasks /\ status \in ACTIVE_STATUSES
               => task[hand[w]].status \in ACTIVE_STATUSES,
           hand[w] \in begged => status # "success"
    PROVE  IInv'
  <1> DEFINE h == hand[w]
  <1>1. /\ place' \in [Workers -> WorkerPlaces] /\ hand' \in [Workers -> Tasks \union {NoTask}]
        /\ place'[w] = "get" /\ hand'[w] = NoTask
        /\ \A v \in Workers \ {w} : place'[v] = place[v] /\ hand'[v] = hand[v]
    BY LetsGoEffect DEF IInv
  <1>2. /\ process = "up" /\ h \in Tasks
        /\ UNCHANGED <<process, tasks, queue, begged, born, deletes, stops>>
        /\ Queued' = Queued /\ (Once => Once')
        /\ NoTask \notin Tasks /\ NoTask \notin Queued
    BY QueueKept, QueuedType, TaskerAssumption DEF IInv, TypeOK, Reports
  <1>3. /\ task' \in [Tasks -> Task] /\ row' \in [Tasks -> Task]
        /\ \A t \in Tasks \ {h} : task'[t] = task[t] /\ row'[t] = row[t]
        /\ task'[h].key = task[h].key /\ task'[h].cancel = task[h].cancel
        /\ h \notin tasks => task'[h] = task[h]
        /\ h \in tasks => task'[h].status = status
    BY <1>2 DEF IInv, TypeOK, Reports, Sets, Writes, TableKept
  <1>4. /\ rows \subseteq rows' /\ rows' \subseteq rows \union {h} /\ rows' \subseteq rows \union tasks
        /\ (row'[h] = row[h] /\ rows' = rows) \/ (h \in tasks /\ row'[h] = task'[h])
    BY <1>2 DEF Reports, Writes, TableKept
  <1>5. \/ fails' = fails /\ (h \in tasks => row'[h] = task'[h]) /\ status \in TERMINAL_STATUSES
        \/ fails' \in 1..MaxFails
    <2>1. Fails => fails' \in 1..MaxFails
      BY FailsType DEF IInv
    <2> QED BY <1>2, <2>1 DEF Reports, Writes
  <1>6. /\ h \notin Queued /\ \A v \in Workers \ {w} : hand'[v] # h
        /\ \A v \in Workers : hand'[v] # h
    BY <1>1, <1>2 DEF IInv, HandInv
  <1> HIDE DEF h
  <1>7. TypeOK'
    BY <1>1, <1>2, <1>3, <1>4, <1>5 DEF IInv, TypeOK
  <1>8. IdInv'
    BY <1>1, <1>2, <1>4 DEF IInv, IdInv
  <1>9. HandInv'
    BY <1>1, <1>2 DEF IInv, HandInv
  <1>10. ProcessInv'
    BY <1>1, <1>2 DEF IInv, ProcessInv
  <1>11. StatusInv'
    <2>1. \A t \in Queued' \intersect tasks' : task'[t].status = "pending"
      BY <1>2, <1>3, <1>6, QueuedType DEF IInv, TypeOK, StatusInv
    <2>2. ASSUME NEW v \in Workers, hand'[v] \in tasks'
          PROVE  v # w /\ hand'[v] = hand[v] /\ task'[hand'[v]] = task[hand'[v]] /\ place'[v] = place[v]
      BY <1>1, <1>2, <1>3, <1>6, <2>2 DEF IInv, TypeOK
    <2> QED BY <1>2, <2>1, <2>2 DEF IInv, StatusInv, Busy
  <1>12. KeyInv'
    <2>1. \A t \in tasks : /\ task'[t].key = task[t].key
                           /\ task'[t].status \in ACTIVE_STATUSES => task[t].status \in ACTIVE_STATUSES
      BY <1>2, <1>3 DEF h, IInv, TypeOK
    <2> QED BY <1>2, <2>1 DEF IInv, KeyInv
  <1>13. RowInv'
    <2>1. ASSUME NEW t \in rows', t # h, row'[t].status \in TERMINAL_STATUSES
          PROVE  /\ t \notin Queued' /\ \A v \in Workers : hand'[v] # t
                 /\ t \in tasks' => task'[t].status = row'[t].status
      <3>1. t \in rows /\ t \in Tasks /\ t # NoTask /\ row'[t] = row[t] /\ task'[t] = task[t]
        BY <1>2, <1>3, <1>4, <2>1 DEF IInv, TypeOK
      <3> QED BY <1>1, <1>2, <2>1, <3>1 DEF IInv, RowInv
    <2>2. ASSUME h \in rows', row'[h].status \in TERMINAL_STATUSES
          PROVE  h \in tasks' => task'[h].status = row'[h].status
      <3>1. h \in rows /\ row'[h] = row[h] => FALSE
        BY <2>2 DEF IInv, RowInv, h
      <3> QED BY <1>4, <2>2, <3>1
    <2> QED BY <1>2, <1>6, <2>1, <2>2 DEF RowInv
  <1>14. BeggedInv'
    <2>1. ASSUME NEW t \in begged', t # h
          PROVE  /\ t \in tasks' => task'[t].status # "success"
                 /\ t \in rows' => row'[t].status # "success"
                 /\ t \in Queued' => task'[t].cancel
                 /\ \A v \in Workers : hand'[v] = t => task'[t].cancel /\ place'[v] # "success"
      <3>1. t \in Tasks /\ t # NoTask /\ row'[t] = row[t] /\ task'[t] = task[t] /\ t \in begged
            /\ (t \in rows' => t \in rows)
        BY <1>2, <1>3, <1>4, <2>1 DEF IInv, TypeOK
      <3> QED BY <1>1, <1>2, <2>1, <3>1 DEF IInv, BeggedInv
    <2>2. ASSUME h \in begged'
          PROVE  /\ h \in tasks' => task'[h].status # "success"
                 /\ h \in rows' => row'[h].status # "success"
      <3>1. h \in begged /\ (h \in tasks => task'[h].status # "success")
            /\ (h \in rows => row[h].status # "success")
        BY <1>2, <1>3, <2>2 DEF h, IInv, BeggedInv
      <3> QED BY <1>2, <1>4, <3>1
    <2> QED BY <1>2, <1>6, <2>1, <2>2 DEF BeggedInv
  <1>15. ActiveTaskIsHeld'
    <2>1. ASSUME fails' = 0, NEW t \in tasks', task'[t].status \in ACTIVE_STATUSES
          PROVE  Held(t)'
      <3>1. t # h /\ t \in tasks /\ t \in Tasks /\ task'[t] = task[t] /\ fails = 0
        BY <1>2, <1>3, <1>5, <2>1 DEF IInv, TypeOK
      <3>2. Held(t)
        BY <1>2, <2>1, <3>1 DEF IInv, ActiveTaskIsHeld
      <3> QED BY <1>1, <1>2, <3>1, <3>2, HeldIs, HeldIsNext DEF h
    <2> QED BY <2>1 DEF ActiveTaskIsHeld
  <1> QED BY <1>7, <1>8, <1>9, <1>10, <1>11, <1>12, <1>13, <1>14, <1>15 DEF IInv

\* A worker that writes a status and keeps its task: an active one, or one
\* that does not reach the table.
LEMMA KeepStep ==
    ASSUME IInv, NEW w \in Workers, NEW status \in ACTIVE_STATUSES \union TERMINAL_STATUSES,
           NEW p \in WorkerPlaces \ {"get", "off", "stuck", "success", "fetch", "reject", "start"},
           Reports(w, status), Goes(w, p), UNCHANGED <<hand, factories, deleting>>,
           status \in ACTIVE_STATUSES \/ TableKept,
           hand[w] \in tasks =>
               /\ p \in BodyPlaces => status = "running"
               /\ p \in OutcomePlaces => status # "retryable_failed"
               /\ status \in ACTIVE_STATUSES => task[hand[w]].status \in ACTIVE_STATUSES,
           hand[w] \in begged => status # "success"
    PROVE  IInv'
  <1> DEFINE h == hand[w]
  <1>1. /\ place' \in [Workers -> WorkerPlaces] /\ place'[w] = p
        /\ \A v \in Workers \ {w} : place'[v] = place[v]
    BY GoesEffect DEF IInv
  <1>2. /\ process = "up" /\ h \in Tasks /\ hand' = hand
        /\ UNCHANGED <<process, tasks, queue, begged, born, deletes, stops>>
        /\ Queued' = Queued /\ (Once => Once')
    BY QueueKept DEF Reports
  <1>3. /\ task' \in [Tasks -> Task] /\ row' \in [Tasks -> Task]
        /\ \A t \in Tasks \ {h} : task'[t] = task[t] /\ row'[t] = row[t]
        /\ task'[h].key = task[h].key /\ task'[h].cancel = task[h].cancel
        /\ h \notin tasks => task'[h] = task[h]
        /\ h \in tasks => task'[h].status = status
    BY <1>2 DEF IInv, TypeOK, Reports, Sets, Writes, TableKept
  <1>4. /\ rows \subseteq rows' /\ rows' \subseteq rows \union {h} /\ rows' \subseteq rows \union tasks
        /\ \/ row'[h] = row[h] /\ rows' = rows
           \/ h \in tasks /\ row'[h] = task'[h] /\ status \in ACTIVE_STATUSES
    BY <1>2 DEF Reports, Writes, TableKept
  <1>5. fails' = fails \/ fails' \in 1..MaxFails
    <2>1. Fails => fails' \in 1..MaxFails
      BY FailsType DEF IInv
    <2> QED BY <1>2, <2>1 DEF Reports
  <1>6. h \notin Queued /\ \A v \in Workers \ {w} : hand'[v] # h
    BY <1>1, <1>2, TaskerAssumption DEF IInv, HandInv
  <1>7. hand'[w] = h
    BY <1>2
  <1> HIDE DEF h
  <1>8. TypeOK'
    BY <1>1, <1>2, <1>3, <1>4, <1>5 DEF h, IInv, TypeOK
  <1>9. IdInv'
    BY <1>1, <1>2, <1>4 DEF IInv, IdInv
  <1>10. HandInv'
    BY <1>1, <1>2 DEF IInv, HandInv
  <1>11. ProcessInv'
    BY <1>1, <1>2 DEF IInv, ProcessInv
  <1>12. StatusInv'
    <2>1. \A t \in Queued' \intersect tasks' : task'[t].status = "pending"
      BY <1>2, <1>3, <1>6, QueuedType DEF IInv, TypeOK, StatusInv
    <2>2. ASSUME NEW v \in Workers, hand'[v] \in tasks', v # w
          PROVE  hand'[v] = hand[v] /\ task'[hand'[v]] = task[hand'[v]] /\ place'[v] = place[v]
      BY <1>1, <1>2, <1>3, <1>6, <2>2 DEF IInv, TypeOK
    <2>3. ASSUME h \in tasks
          PROVE  /\ p \in BodyPlaces => task'[h].status = "running"
                 /\ p \in OutcomePlaces => task'[h].status # "retryable_failed"
      BY <1>3, <2>3 DEF h
    <2> QED BY <1>1, <1>2, <1>7, <2>1, <2>2, <2>3 DEF IInv, StatusInv, Busy
  <1>13. KeyInv'
    <2>1. \A t \in tasks : /\ task'[t].key = task[t].key
                           /\ task'[t].status \in ACTIVE_STATUSES => task[t].status \in ACTIVE_STATUSES
      BY <1>2, <1>3 DEF h, IInv, TypeOK
    <2> QED BY <1>2, <2>1 DEF IInv, KeyInv
  <1>14. RowInv'
    <2>1. ASSUME NEW t \in rows', row'[t].status \in TERMINAL_STATUSES
          PROVE  t # h
      <3>1. CASE row'[h] = row[h] /\ rows' = rows
        BY <2>1, <3>1 DEF IInv, RowInv, h
      <3>2. CASE h \in tasks /\ row'[h] = task'[h] /\ status \in ACTIVE_STATUSES
        BY <1>3, <2>1, <3>2
      <3> QED BY <1>4, <3>1, <3>2
    <2>2. ASSUME NEW t \in rows', t # h, row'[t].status \in TERMINAL_STATUSES
          PROVE  /\ t \notin Queued' /\ \A v \in Workers : hand'[v] # t
                 /\ t \in tasks' => task'[t].status = row'[t].status
      <3>1. t \in rows /\ t \in Tasks /\ row'[t] = row[t] /\ task'[t] = task[t]
        BY <1>2, <1>3, <1>4, <2>2 DEF IInv, TypeOK
      <3> QED BY <1>1, <1>2, <2>2, <3>1 DEF IInv, RowInv
    <2> QED BY <2>1, <2>2 DEF RowInv
  <1>15. BeggedInv'
    <2>1. ASSUME NEW t \in begged', t # h
          PROVE  /\ t \in tasks' => task'[t].status # "success"
                 /\ t \in rows' => row'[t].status # "success"
                 /\ t \in Queued' => task'[t].cancel
                 /\ \A v \in Workers : hand'[v] = t => task'[t].cancel /\ place'[v] # "success"
      <3>1. t \in Tasks /\ row'[t] = row[t] /\ task'[t] = task[t] /\ t \in begged
            /\ (t \in rows' => t \in rows)
        BY <1>2, <1>3, <1>4, <2>1 DEF IInv, TypeOK
      <3> QED BY <1>1, <1>2, <1>7, <2>1, <3>1 DEF IInv, BeggedInv
    <2>2. ASSUME h \in begged'
          PROVE  /\ h \in tasks' => task'[h].status # "success"
                 /\ h \in rows' => row'[h].status # "success"
                 /\ task'[h].cancel
      <3>1. h \in begged /\ (h \in tasks => task'[h].status # "success")
            /\ (h \in rows => row[h].status # "success") /\ task[h].cancel
        BY <1>2, <1>3, <2>2 DEF h, IInv, BeggedInv
      <3> QED BY <1>2, <1>3, <1>4, <3>1
    <2> QED BY <1>1, <1>2, <1>6, <1>7, <2>1, <2>2 DEF BeggedInv
  <1>16. ActiveTaskIsHeld'
    <2>1. ASSUME fails' = 0, NEW t \in tasks', task'[t].status \in ACTIVE_STATUSES
          PROVE  Held(t)'
      <3>1. CASE t = h
        BY <1>7, <3>1, HeldIsNext
      <3>2. CASE t # h
        <4>1. t \in tasks /\ t \in Tasks /\ task'[t] = task[t] /\ fails = 0
          BY <1>2, <1>3, <1>5, <2>1, <3>2 DEF IInv, TypeOK
        <4>2. Held(t)
          BY <1>2, <2>1, <4>1 DEF IInv, ActiveTaskIsHeld
        <4> QED BY <1>2, <4>2, HeldIs, HeldIsNext
      <3> QED BY <3>1, <3>2
    <2> QED BY <2>1 DEF ActiveTaskIsHeld
  <1> QED BY <1>8, <1>9, <1>10, <1>11, <1>12, <1>13, <1>14, <1>15, <1>16 DEF IInv

LEMMA RejectStep == ASSUME IInv, NEW w \in Workers, RejectTask(w) PROVE IInv'
  <1>1. LetsGo(w) /\ Reports(w, "cancelled") /\ factories' = factories /\ deleting' = deleting
    BY RejectEffect DEF IInv, RejectTask
  <1> QED BY <1>1, DropStep

LEMMA StartTaskStep == ASSUME IInv, NEW w \in Workers, StartTask(w) PROVE IInv'
  <1>1. /\ place[w] = "start" /\ Reports(w, "running")
        /\ (Goes(w, "body") /\ hand' = hand) \/ (LetsGo(w) /\ Fails)
        /\ UNCHANGED <<factories, deleting>>
    BY StartEffect DEF IInv, StartTask
  <1>2. hand[w] \in tasks => task[hand[w]].status \in ACTIVE_STATUSES
    BY <1>1 DEF IInv, StatusInv
  <1>3. CASE LetsGo(w) /\ Fails
    BY <1>1, <1>2, <1>3, DropStep
  <1>4. CASE Goes(w, "body") /\ hand' = hand
    <2>1. /\ "body" \in WorkerPlaces \ {"get", "off", "stuck", "success", "fetch", "reject", "start"}
          /\ "body" \notin OutcomePlaces
      BY DEF WorkerPlaces, BodyPlaces, OutcomePlaces
    <2> QED BY <1>1, <1>2, <1>4, <2>1, KeepStep
  <1> QED BY <1>1, <1>3, <1>4

LEMMA OutcomeStep == ASSUME IInv, NEW w \in Workers, RecordOutcome(w) PROVE IInv'
  <1> DEFINE status == OutcomeStatus(place[w])
  <1>1. /\ place[w] \in OutcomePlaces /\ Reports(w, status)
        /\ \/ LetsGo(w)
           \/ /\ place[w] \in {"success", "cancelled"} /\ Fails /\ hand' = hand
              /\ Goes(w, "failed") \/ Goes(w, "timeout")
        /\ UNCHANGED <<factories, deleting>>
    BY OutcomeEffect DEF IInv, RecordOutcome
  <1>2. /\ status \in TERMINAL_STATUSES /\ ((status = "success") <=> (place[w] = "success"))
        /\ ((status = RETRYABLE) <=> (place[w] = "timeout"))
    BY <1>1, OutcomeType
  <1> HIDE DEF status
  <1>3. hand[w] \in begged => status # "success"
    BY <1>2 DEF IInv, BeggedInv
  <1>4. status \notin ACTIVE_STATUSES
    BY <1>2
  <1>5. CASE LetsGo(w)
    BY <1>1, <1>2, <1>3, <1>4, <1>5, DropStep
  <1>6. CASE /\ place[w] \in {"success", "cancelled"} /\ Fails /\ hand' = hand
             /\ Goes(w, "failed") \/ Goes(w, "timeout")
    <2>1. PICK p \in {"failed", "timeout"} : Goes(w, p)
      BY <1>6
    <2>2. /\ p \in WorkerPlaces \ {"get", "off", "stuck", "success", "fetch", "reject", "start"}
          /\ p \notin BodyPlaces
      BY DEF WorkerPlaces, BodyPlaces, OutcomePlaces
    <2>3. TableKept
      <3>1. fails' # fails
        BY <1>6, TaskerAssumption DEF IInv, TypeOK, Fails
      <3> QED BY <1>1, <3>1 DEF Reports
    <2>4. status # "retryable_failed"
      BY <1>2, <1>6
    <2> QED BY <1>1, <1>2, <1>3, <1>4, <1>6, <2>1, <2>2, <2>3, <2>4, KeepStep
  <1> QED BY <1>1, <1>5, <1>6

LEMMA ProgressStep == ASSUME IInv, NEW w \in Workers, ReportProgress(w) PROVE IInv'
  <1> DEFINE h == hand[w]
  <1>1. /\ UNCHANGED <<process, tasks, task, factories, queue, place, hand, deleting>>
        /\ UNCHANGED <<deletes, fails, stops, begged, born>>
        /\ h \in tasks /\ h \in Tasks /\ Busy(w)
        /\ Queued' = Queued /\ (Once => Once')
    BY QueueKept DEF IInv, TypeOK, ReportProgress, bounds, history, Busy, BodyPlaces
  <1>2. task[h].status = "running"
    BY <1>1 DEF IInv, StatusInv
  <1>3. /\ rows' = rows \union {h} /\ row' \in [Tasks -> Task]
        /\ row'[h] = task[h] /\ \A u \in Tasks \ {h} : row'[u] = row[u]
    BY <1>1, PersistWrites DEF IInv, TypeOK, ReportProgress, Writes
  <1> HIDE DEF h
  <1>4. TypeOK'
    BY <1>1, <1>3 DEF IInv, TypeOK
  <1>5. IdInv' /\ HandInv' /\ ProcessInv' /\ StatusInv' /\ KeyInv'
    <2>1. IdInv'
      BY <1>1, <1>3 DEF IInv, IdInv
    <2>2. HandInv' /\ ProcessInv'
      BY <1>1 DEF IInv, HandInv, ProcessInv
    <2>3. StatusInv' /\ KeyInv'
      BY <1>1 DEF IInv, StatusInv, KeyInv, Busy
    <2> QED BY <2>1, <2>2, <2>3
  <1>6. RowInv'
    <2>1. ASSUME NEW t \in rows', row'[t].status \in TERMINAL_STATUSES
          PROVE  t \in rows /\ row'[t] = row[t]
      BY <1>2, <1>3, <2>1 DEF IInv, TypeOK
    <2> QED BY <1>1, <2>1 DEF IInv, RowInv
  <1>7. BeggedInv'
    <2>1. ASSUME NEW t \in begged, t \in rows' PROVE row'[t].status # "success"
      BY <1>2, <1>3, <2>1 DEF IInv, TypeOK, BeggedInv
    <2> QED BY <1>1, <2>1 DEF IInv, BeggedInv
  <1>8. ActiveTaskIsHeld'
    BY <1>1, HeldIs, HeldIsNext DEF IInv, ActiveTaskIsHeld
  <1> QED BY <1>4, <1>5, <1>6, <1>7, <1>8 DEF IInv

\* While the process is up nobody holds a task that may be continued.
LEMMA RetryableIsFree ==
    ASSUME IInv, process = "up", NEW t \in tasks, task[t].status = "retryable_failed"
    PROVE  t \notin Queued /\ \A w \in Workers : hand[w] # t
  <1>1. t \notin Queued
    BY DEF IInv, StatusInv
  <1>2. ASSUME NEW w \in Workers, hand[w] = t PROVE FALSE
    <2>1. t # NoTask
      BY TaskerAssumption DEF IInv, TypeOK
    <2>2. place[w] \in {"fetch", "reject", "start"} \union BodyPlaces \union OutcomePlaces
      BY <1>2, <2>1 DEF IInv, TypeOK, HandInv, ProcessInv, WorkerPlaces
    <2> QED BY <1>2, <2>2 DEF IInv, StatusInv, Busy
  <1> QED BY <1>1, <1>2

\* A new task u of k's, while the status and the key of the others stay.
LEMMA AddStep ==
    ASSUME IInv, NEW u \in Tasks, NEW k \in Keys, Adds(u, k), FreeKey(k),
           UNCHANGED <<process, place, hand, begged, stops, deleting, deletes>>,
           factories' \subseteq Tasks,
           process = "up",
           task' \in [Tasks -> Task], row' \in [Tasks -> Task],
           \A v \in Tasks \ {u} : /\ task'[v].status = task[v].status
                                  /\ task'[v].key = task[v].key
                                  /\ task'[v].cancel = task[v].cancel,
           NEW S \in SUBSET tasks, \A v \in S : task[v].status = "retryable_failed",
           \A v \in Tasks \ {u} : row'[v] = row[v] \/ (v \in S /\ row'[v] = task'[v]),
           rows \subseteq rows', rows' \subseteq rows \union S \union {u},
           u \in rows' => row'[u] = task'[u],
           \A v \in rows' \ rows : row'[v] = task'[v],
           \/ queue' = Append(queue, u) /\ fails' = fails
           \/ queue' = queue /\ Fails
    PROVE  IInv'
  <1>1. /\ u \notin born /\ born' = born \union {u} /\ tasks' = tasks \union {u}
        /\ task'[u].status = "pending" /\ task'[u].key = k
    BY DEF Adds
  <1>2. /\ u \notin tasks /\ u \notin rows /\ u \notin Queued /\ u \notin begged
        /\ u # NoTask /\ \A w \in Workers : hand[w] # u
    BY <1>1, TaskerAssumption DEF IInv, IdInv
  <1>3. /\ queue' \in Seq(Tasks) /\ Queued \subseteq Queued' /\ Queued' \subseteq Queued \union {u}
        /\ Once' /\ (fails' = fails => u \in Queued')
        /\ (fails' = fails \/ fails' \in 1..MaxFails)
    <2>1. CASE queue' = Append(queue, u) /\ fails' = fails
      BY <1>2, <2>1, QueueAppend DEF IInv, TypeOK, HandInv
    <2>2. CASE queue' = queue /\ Fails
      BY <2>2, QueueKept, FailsType, TaskerAssumption DEF IInv, TypeOK, HandInv, Fails
    <2> QED BY <2>1, <2>2
  <1>4. tasks \subseteq Tasks /\ S \subseteq Tasks /\ rows \subseteq Tasks /\ u \notin S
    BY <1>2 DEF IInv, TypeOK
  <1>5. \A v \in S : v \notin Queued /\ \A w \in Workers : hand[w] # v
    BY RetryableIsFree
  <1>6. TypeOK'
    BY <1>1, <1>3, <1>4 DEF IInv, TypeOK
  <1>7. IdInv'
    BY <1>1, <1>3, <1>4 DEF IInv, IdInv
  <1>8. HandInv'
    BY <1>2, <1>3 DEF IInv, HandInv
  <1>9. ProcessInv'
    BY DEF IInv, ProcessInv
  <1>10. StatusInv'
    <2>1. \A t \in Queued' \intersect tasks' : task'[t].status = "pending"
      BY <1>1, <1>3, <1>4 DEF IInv, StatusInv
    <2>2. ASSUME NEW w \in Workers, hand'[w] \in tasks'
          PROVE  hand[w] \in tasks /\ task'[hand[w]].status = task[hand[w]].status
      BY <1>1, <1>2, <1>4, <2>2
    <2> QED BY <2>1, <2>2 DEF IInv, StatusInv, Busy
  <1>11. KeyInv'
    <2>1. \A v \in tasks : /\ task'[v].status = task[v].status /\ task'[v].key = task[v].key
                           /\ task[v].key = k => task[v].status \notin ACTIVE_STATUSES
      BY <1>2, <1>4 DEF FreeKey, ActiveOfKey
    <2> QED BY <1>1, <2>1 DEF IInv, KeyInv
  <1>12. RowInv'
    <2>1. ASSUME NEW t \in rows', row'[t].status \in TERMINAL_STATUSES
          PROVE  /\ t \notin Queued' /\ \A w \in Workers : hand'[w] # t
                 /\ t \in tasks' => task'[t].status = row'[t].status
      <3>1. t # u
        BY <1>1, <2>1
      <3>2. t \in Tasks /\ t \in rows \union S /\ task'[t].status = task[t].status
            /\ (t \in tasks' => t \in tasks) /\ (t \in Queued' => t \in Queued)
        BY <1>1, <1>3, <1>4, <3>1
      <3>3. CASE t \in S
        <4>1. CASE t \in rows /\ row'[t] = row[t]
          BY <1>5, <2>1, <3>2, <3>3, <4>1 DEF IInv, RowInv
        <4>2. CASE row'[t] = task'[t]
          BY <1>5, <3>2, <3>3, <4>2
        <4> QED BY <3>1, <3>2, <4>1, <4>2
      <3>4. CASE t \notin S
        <4>1. t \in rows /\ row'[t] = row[t]
          BY <3>1, <3>2, <3>4
        <4> QED BY <2>1, <3>2, <4>1 DEF IInv, RowInv
      <3> QED BY <3>3, <3>4
    <2> QED BY <2>1 DEF RowInv
  <1>13. BeggedInv'
    <2>1. ASSUME NEW t \in begged
          PROVE  /\ t # u /\ t \in Tasks /\ task'[t].status = task[t].status
                 /\ task'[t].cancel = task[t].cancel
                 /\ (t \in tasks' => t \in tasks) /\ (t \in Queued' => t \in Queued)
                 /\ t \in rows' => row'[t].status # "success"
      <3>1. t # u /\ t \in Tasks /\ task'[t].status = task[t].status
            /\ task'[t].cancel = task[t].cancel
            /\ (t \in tasks' => t \in tasks) /\ (t \in Queued' => t \in Queued)
        BY <1>1, <1>2, <1>3 DEF IInv, TypeOK
      <3>2. ASSUME t \in rows' PROVE row'[t].status # "success"
        <4>1. CASE t \in rows /\ row'[t] = row[t]
          BY <4>1 DEF IInv, BeggedInv
        <4>2. CASE t \in S /\ row'[t] = task'[t]
          BY <3>1, <4>2
        <4> QED BY <1>4, <3>1, <3>2, <4>1, <4>2
      <3> QED BY <3>1, <3>2
    <2> QED BY <2>1 DEF IInv, BeggedInv
  <1>14. ActiveTaskIsHeld'
    <2>1. ASSUME fails' = 0, NEW t \in tasks', task'[t].status \in ACTIVE_STATUSES
          PROVE  Held(t)'
      <3>0. fails' = fails
        BY <1>3, <2>1
      <3>1. CASE t = u
        BY <1>3, <3>0, <3>1, HeldIsNext
      <3>2. CASE t # u
        <4>1. t \in tasks /\ task'[t].status = task[t].status /\ fails = 0
          BY <1>1, <1>4, <2>1, <3>0, <3>2
        <4>2. Held(t)
          BY <2>1, <4>1 DEF IInv, ActiveTaskIsHeld
        <4> QED BY <1>3, <4>2, HeldIs, HeldIsNext
      <3> QED BY <3>1, <3>2
    <2> QED BY <2>1 DEF ActiveTaskIsHeld
  <1> QED BY <1>6, <1>7, <1>8, <1>9, <1>10, <1>11, <1>12, <1>13, <1>14 DEF IInv

LEMMA EnqueueStep ==
    ASSUME IInv, NEW t \in Tasks, NEW k \in Keys, EnqueueUnique(t, k) PROVE IInv'
  <1> DEFINE S == {}
  <1>1. /\ Adds(t, k) /\ task' \in [Tasks -> Task] /\ \A u \in Tasks \ {t} : task'[u] = task[u]
        /\ \/ Writes(t) /\ queue' = Append(queue, t) /\ fails' = fails
           \/ TableKept /\ queue' = queue /\ Fails
        /\ FreeKey(k) /\ process = "up"
        /\ UNCHANGED <<process, place, hand, begged, stops>>
    BY EnqueueEffect DEF IInv
  <1>2. UNCHANGED <<deleting, deletes>> /\ factories' \subseteq Tasks
    BY DEF IInv, TypeOK, EnqueueUnique
  <1>3. /\ row' \in [Tasks -> Task] /\ \A v \in Tasks \ {t} : row'[v] = row[v]
        /\ rows \subseteq rows' /\ rows' \subseteq rows \union S \union {t}
        /\ t \in rows' => row'[t] = task'[t]
        /\ \A v \in rows' \ rows : row'[v] = task'[v]
    <2>1. t \notin rows
      BY <1>1 DEF IInv, IdInv, Adds
    <2> QED BY <1>1, <2>1 DEF IInv, TypeOK, Writes, TableKept
  <1>4. S \in SUBSET tasks /\ \A v \in S : task[v].status = "retryable_failed"
    OBVIOUS
  <1>5. \A v \in Tasks \ {t} : row'[v] = row[v] \/ (v \in S /\ row'[v] = task'[v])
    BY <1>3
  <1>6. \A v \in Tasks \ {t} : /\ task'[v].status = task[v].status
                               /\ task'[v].key = task[v].key
                               /\ task'[v].cancel = task[v].cancel
    BY <1>1
  <1> HIDE DEF S
  <1> QED BY <1>1, <1>2, <1>3, <1>4, <1>5, <1>6, AddStep

LEMMA ContinueStep ==
    ASSUME IInv, NEW t \in Tasks, NEW u \in Tasks, ContinueTask(t, u) PROVE IInv'
  <1> DEFINE S == {t}
  <1>1. /\ t # u /\ t \in tasks /\ task[t].status = RETRYABLE /\ Adds(u, task[t].key)
        /\ task' \in [Tasks -> Task]
        /\ task'[t].status = RETRYABLE /\ task'[t].key = task[t].key /\ task'[t].cancel = task[t].cancel
        /\ \A v \in Tasks \ {t, u} : task'[v] = task[v]
        /\ row' \in [Tasks -> Task] /\ \A v \in Tasks \ {t, u} : row'[v] = row[v]
        /\ \/ /\ rows' = rows \union {t, u} /\ row'[t] = task'[t] /\ row'[u] = task'[u]
              /\ queue' = Append(queue, u) /\ fails' = fails
           \/ /\ queue' = queue /\ Fails
              /\ Writes(t) \/ TableKept
        /\ FreeKey(task[t].key) /\ process = "up"
        /\ UNCHANGED <<process, place, hand, begged, stops>>
    BY ContinueEffect DEF IInv, IdInv
  <1>2. UNCHANGED <<deleting, deletes>> /\ factories' \subseteq Tasks
    BY DEF IInv, TypeOK, ContinueTask
  <1>3. u \notin rows /\ task[t].key \in Keys
    BY <1>1 DEF IInv, IdInv, TypeOK, Task, Adds
  <1>4. /\ \A v \in Tasks \ {u} : row'[v] = row[v] \/ (v \in S /\ row'[v] = task'[v])
        /\ rows \subseteq rows' /\ rows' \subseteq rows \union S \union {u}
        /\ u \in rows' => row'[u] = task'[u]
        /\ \A v \in rows' \ rows : row'[v] = task'[v]
    <2>1. CASE rows' = rows \union {t, u} /\ row'[t] = task'[t] /\ row'[u] = task'[u]
      BY <1>1, <2>1
    <2>2. CASE Writes(t) \/ TableKept
      BY <1>1, <1>3, <2>2 DEF Writes, TableKept
    <2> QED BY <1>1, <2>1, <2>2
  <1>5. \A v \in Tasks \ {u} : /\ task'[v].status = task[v].status
                               /\ task'[v].key = task[v].key
                               /\ task'[v].cancel = task[v].cancel
    BY <1>1
  <1>6. S \in SUBSET tasks /\ \A v \in S : task[v].status = "retryable_failed"
    BY <1>1
  <1> HIDE DEF S
  <1> QED BY <1>1, <1>2, <1>3, <1>4, <1>5, <1>6, AddStep

LEMMA RefusedStep == ASSUME IInv, NEW t \in Tasks, ContinueRefused(t) PROVE IInv'
  <1>1. /\ t \in tasks /\ task[t].status = "retryable_failed" /\ Sets(t, RETRYABLE) /\ process = "up"
        /\ rows \subseteq rows' /\ rows' \subseteq rows \union {t} /\ row' \in [Tasks -> Task]
        /\ (row'[t] = row[t] /\ rows' = rows) \/ row'[t] = task'[t]
        /\ \A u \in Tasks \ {t} : row'[u] = row[u]
        /\ UNCHANGED <<process, tasks, queue, place, hand, begged, born, deletes, stops>>
        /\ UNCHANGED <<factories, deleting>>
        /\ Queued' = Queued /\ (Once => Once')
        /\ fails' = fails \/ fails' \in 1..MaxFails
    <2>1. Fails => fails' \in 1..MaxFails
      BY FailsType DEF IInv
    <2> QED BY <2>1, RefusedEffect, QueueKept DEF IInv, TypeOK, Writes, TableKept, ContinueRefused
  <1>2. /\ task' \in [Tasks -> Task]
        /\ \A u \in Tasks : /\ task'[u].status = task[u].status /\ task'[u].key = task[u].key
                            /\ task'[u].cancel = task[u].cancel
    BY <1>1 DEF Sets
  <1>3. t \notin Queued /\ \A w \in Workers : hand[w] # t
    BY <1>1, RetryableIsFree
  <1>4. TypeOK'
    BY <1>1, <1>2 DEF IInv, TypeOK
  <1>5. IdInv' /\ HandInv' /\ ProcessInv'
    BY <1>1 DEF IInv, IdInv, HandInv, ProcessInv
  <1>6. StatusInv'
    BY <1>1, <1>2 DEF IInv, TypeOK, StatusInv, Busy
  <1>7. KeyInv'
    BY <1>1, <1>2 DEF IInv, TypeOK, KeyInv
  <1>8. RowInv'
    <2>1. ASSUME NEW u \in rows', row'[u].status \in TERMINAL_STATUSES
          PROVE  /\ u \notin Queued' /\ \A w \in Workers : hand'[w] # u
                 /\ u \in tasks' => task'[u].status = row'[u].status
      <3>1. CASE u = t /\ row'[t] = task'[t]
        BY <1>1, <1>3, <3>1
      <3>2. CASE u \in rows /\ row'[u] = row[u]
        BY <1>1, <1>2, <2>1, <3>2 DEF IInv, TypeOK, RowInv
      <3>3. u \in Tasks
        BY <1>4, <2>1 DEF TypeOK
      <3> QED BY <1>1, <2>1, <3>1, <3>2, <3>3
    <2> QED BY <2>1 DEF RowInv
  <1>9. BeggedInv'
    <2>1. ASSUME NEW u \in begged, u \in rows' PROVE row'[u].status # "success"
      BY <1>1, <1>2, <2>1 DEF IInv, TypeOK, BeggedInv
    <2> QED BY <1>1, <1>2, <2>1 DEF IInv, TypeOK, BeggedInv
  <1>10. ActiveTaskIsHeld'
    <2>1. fails' = 0 => fails = 0
      BY <1>1
    <2> QED BY <1>1, <1>2, <2>1, HeldIs, HeldIsNext DEF IInv, TypeOK, ActiveTaskIsHeld
  <1> QED BY <1>4, <1>5, <1>6, <1>7, <1>8, <1>9, <1>10 DEF IInv

LEMMA CancelStep == ASSUME IInv, NEW t \in Tasks, CancelTask(t) PROVE IInv'
  <1>1. /\ t \in tasks /\ task[t].status \in ACTIVE_STATUSES /\ process = "up"
        /\ task' \in [Tasks -> Task] /\ \A u \in Tasks \ {t} : task'[u] = task[u]
        /\ task'[t].status = task[t].status /\ task'[t].key = task[t].key /\ task'[t].cancel
        /\ rows \subseteq rows' /\ rows' \subseteq rows \union {t} /\ row' \in [Tasks -> Task]
        /\ (row'[t] = row[t] /\ rows' = rows) \/ row'[t] = task'[t]
        /\ \A u \in Tasks \ {t} : row'[u] = row[u]
        /\ begged' = IF StillLooks(t) THEN begged \union {t} ELSE begged
        /\ UNCHANGED <<process, tasks, queue, place, hand, born, deletes, stops>>
        /\ UNCHANGED <<factories, deleting>>
        /\ Queued' = Queued /\ (Once => Once')
        /\ fails' = fails \/ fails' \in 1..MaxFails
    <2>1. Fails => fails' \in 1..MaxFails
      BY FailsType DEF IInv
    <2>2. (Writes(t) /\ fails' = fails) \/ (TableKept /\ Fails)
      BY CancelEffect DEF IInv
    <2>3. /\ rows \subseteq rows' /\ rows' \subseteq rows \union {t} /\ row' \in [Tasks -> Task]
          /\ (row'[t] = row[t] /\ rows' = rows) \/ row'[t] = task'[t]
          /\ \A u \in Tasks \ {t} : row'[u] = row[u]
          /\ fails' = fails \/ fails' \in 1..MaxFails
      BY <2>1, <2>2 DEF IInv, TypeOK, Writes, TableKept
    <2>4. UNCHANGED <<factories, deleting>> /\ Queued' = Queued /\ (Once => Once')
      BY QueueKept DEF CancelTask
    <2> QED BY <2>3, <2>4, CancelEffect DEF IInv
  <1>2. \A u \in Tasks : /\ task'[u].status = task[u].status /\ task'[u].key = task[u].key
                         /\ task[u].cancel => task'[u].cancel
    BY <1>1
  <1>3. TypeOK'
    BY <1>1 DEF IInv, TypeOK
  <1>4. IdInv' /\ HandInv' /\ ProcessInv'
    BY <1>1 DEF IInv, IdInv, HandInv, ProcessInv
  <1>5. StatusInv'
    BY <1>1, <1>2 DEF IInv, TypeOK, StatusInv, Busy
  <1>6. KeyInv'
    BY <1>1, <1>2 DEF IInv, TypeOK, KeyInv
  <1>7. RowInv'
    <2>1. ASSUME NEW u \in rows', row'[u].status \in TERMINAL_STATUSES
          PROVE  u \in rows /\ row'[u] = row[u]
      BY <1>1, <1>3, <2>1 DEF TypeOK
    <2> QED BY <1>1, <1>2, <2>1 DEF IInv, TypeOK, RowInv
  <1>8. BeggedInv'
    <2>1. ASSUME NEW u \in begged
          PROVE  /\ u \in tasks' => task'[u].status # "success"
                 /\ u \in rows' => row'[u].status # "success"
                 /\ u \in Queued' => task'[u].cancel
                 /\ \A w \in Workers : hand'[w] = u => task'[u].cancel /\ place'[w] # "success"
      <3>1. u \in rows' => row'[u].status # "success"
        BY <1>1, <1>3, <2>1 DEF IInv, TypeOK, BeggedInv
      <3> QED BY <1>1, <1>2, <3>1 DEF IInv, TypeOK, BeggedInv
    <2>2. ASSUME StillLooks(t)
          PROVE  /\ t \in tasks' => task'[t].status # "success"
                 /\ t \in rows' => row'[t].status # "success"
                 /\ t \in Queued' => task'[t].cancel
                 /\ \A w \in Workers : hand'[w] = t => task'[t].cancel /\ place'[w] # "success"
      <3>1. ASSUME NEW w \in Workers, hand[w] = t PROVE place[w] # "success"
        BY <2>2, <3>1 DEF StillLooks, BodyPlaces
      <3>2. t \in rows => row[t].status # "success"
        BY <1>1 DEF IInv, RowInv
      <3> QED BY <1>1, <3>1, <3>2
    <2> QED BY <1>1, <2>1, <2>2 DEF BeggedInv
  <1>9. ActiveTaskIsHeld'
    <2>1. fails' = 0 => fails = 0
      BY <1>1
    <2> QED BY <1>1, <1>2, <2>1, HeldIs, HeldIsNext DEF IInv, TypeOK, ActiveTaskIsHeld
  <1> QED BY <1>3, <1>4, <1>5, <1>6, <1>7, <1>8, <1>9 DEF IInv

LEMMA DeleteTaskStep == ASSUME IInv, NEW t \in Tasks, DeleteTask(t) PROVE IInv'
  <1>1. /\ tasks' = tasks \ {t} /\ deletes' \in 0..MaxDeletes
        /\ UNCHANGED <<process, task, queue, place, hand, rows, row, fails, stops, begged, born>>
        /\ factories' \in SUBSET Tasks /\ deleting' \in SUBSET Tasks
        /\ Queued' = Queued /\ (Once => Once')
    BY QueueKept, TaskerAssumption DEF IInv, TypeOK, DeleteTask, table, history
  <1>2. TypeOK'
    BY <1>1 DEF IInv, TypeOK
  <1>3. IdInv' /\ HandInv' /\ ProcessInv'
    BY <1>1 DEF IInv, IdInv, HandInv, ProcessInv
  <1>4. StatusInv' /\ KeyInv' /\ RowInv' /\ BeggedInv'
    BY <1>1 DEF IInv, StatusInv, KeyInv, RowInv, BeggedInv, Busy
  <1>5. ActiveTaskIsHeld'
    BY <1>1, HeldIs, HeldIsNext DEF IInv, ActiveTaskIsHeld
  <1> QED BY <1>2, <1>3, <1>4, <1>5 DEF IInv

LEMMA DeleteRowStep == ASSUME IInv, NEW t \in Tasks, DeleteRow(t) PROVE IInv'
  <1>1. /\ rows' \subseteq rows /\ deleting' \subseteq deleting
        /\ fails' = fails \/ fails' \in 1..MaxFails
        /\ UNCHANGED <<process, tasks, task, factories, queue, place, hand, row>>
        /\ UNCHANGED <<deletes, stops, begged, born>>
        /\ Queued' = Queued /\ (Once => Once')
    BY QueueKept, FailsType DEF IInv, DeleteRow, memory, history
  <1>2. TypeOK'
    BY <1>1 DEF IInv, TypeOK
  <1>3. IdInv' /\ HandInv' /\ ProcessInv'
    BY <1>1 DEF IInv, IdInv, HandInv, ProcessInv
  <1>4. StatusInv' /\ KeyInv' /\ RowInv' /\ BeggedInv'
    BY <1>1 DEF IInv, StatusInv, KeyInv, RowInv, BeggedInv, Busy
  <1>5. ActiveTaskIsHeld'
    <2>1. fails' = 0 => fails = 0
      BY <1>1
    <2> QED BY <1>1, <2>1, HeldIs, HeldIsNext DEF IInv, ActiveTaskIsHeld
  <1> QED BY <1>2, <1>3, <1>4, <1>5 DEF IInv

LEMMA ShutdownStep == ASSUME IInv, Shutdown PROVE IInv'
  <1>1. /\ process' = "stopping" /\ stops' \in 0..MaxStops
        /\ UNCHANGED <<tasks, task, factories, queue, hand, rows, row, deleting>>
        /\ UNCHANGED <<deletes, fails, begged, born>>
        /\ Queued' = Queued /\ (Once => Once')
    BY QueueKept, TaskerAssumption DEF IInv, TypeOK, Shutdown, memory, table, history
  <1>2. /\ place' \in [Workers -> {"off", "stuck"}]
        /\ \A w \in Workers : place'[w] = "stuck" => place[w] = "body"
    BY DEF Shutdown, CancelledPlace
  <1>3. {"off", "stuck"} \subseteq WorkerPlaces /\ {"off", "stuck"} \intersect OutcomePlaces = {}
        /\ "off" \notin BodyPlaces /\ "body" \in BodyPlaces
    BY DEF WorkerPlaces, BodyPlaces, OutcomePlaces
  <1>4. TypeOK'
    <2>1. place' \in [Workers -> WorkerPlaces]
      BY <1>2, <1>3
    <2>2. \A w \in Workers : place'[w] \notin {"off", "get"} => hand'[w] \in Tasks
      BY <1>1, <1>2 DEF IInv, TypeOK
    <2> QED BY <1>1, <2>1, <2>2 DEF IInv, TypeOK
  <1>5. IdInv' /\ HandInv'
    BY <1>1, <1>2 DEF IInv, IdInv, HandInv
  <1>6. ProcessInv'
    BY <1>1, <1>2 DEF ProcessInv
  <1>7. StatusInv'
    BY <1>1, <1>2, <1>3 DEF IInv, StatusInv, Busy
  <1>8. KeyInv' /\ RowInv'
    BY <1>1 DEF IInv, KeyInv, RowInv
  <1>9. BeggedInv'
    BY <1>1, <1>2 DEF IInv, BeggedInv
  <1>10. ActiveTaskIsHeld'
    BY <1>1 DEF ActiveTaskIsHeld
  <1> QED BY <1>4, <1>5, <1>6, <1>7, <1>8, <1>9, <1>10 DEF IInv

LEMMA VanishStep == ASSUME IInv, Vanish, stops' \in 0..MaxStops PROVE IInv'
  <1>1. /\ process' = "down" /\ tasks' = {} /\ factories' = {} /\ queue' = <<>> /\ deleting' = {}
        /\ UNCHANGED <<task, rows, row, deletes, fails, begged, born>>
        /\ place' = [w \in Workers |-> "off"] /\ hand' = [w \in Workers |-> NoTask]
    BY DEF Vanish, table, history
  <1>2. Queued' = {} /\ Once' /\ queue' \in Seq(Tasks)
    BY <1>1, QueueEmpty DEF Queued, Once
  <1>3. \A w \in Workers : place'[w] = "off" /\ hand'[w] = NoTask
    BY <1>1
  <1>4. TypeOK'
    BY <1>1, <1>2 DEF IInv, TypeOK, WorkerPlaces
  <1>5. IdInv' /\ HandInv' /\ ProcessInv' /\ KeyInv'
    <2>1. HandInv'
      <3>1. \A v, w \in Workers : hand'[v] = hand'[w] /\ hand'[v] # NoTask => v = w
        BY <1>3
      <3>2. \A w \in Workers : hand'[w] \notin Queued' /\ (place'[w] = "get" => hand'[w] = NoTask)
        BY <1>2, <1>3
      <3> QED BY <1>2, <3>1, <3>2 DEF HandInv
    <2> QED BY <1>1, <1>2, <1>3, <2>1 DEF IInv, IdInv, ProcessInv, KeyInv
  <1>6. StatusInv'
    BY <1>1 DEF StatusInv
  <1>7. RowInv'
    BY <1>1, <1>2, <1>3, TaskerAssumption DEF IInv, TypeOK, RowInv
  <1>8. BeggedInv'
    <2>1. \A t \in begged, w \in Workers : hand'[w] # t
      BY <1>3, TaskerAssumption DEF IInv, TypeOK
    <2> QED BY <1>1, <1>2, <2>1 DEF IInv, BeggedInv
  <1>9. ActiveTaskIsHeld'
    BY <1>1 DEF ActiveTaskIsHeld
  <1> QED BY <1>4, <1>5, <1>6, <1>7, <1>8, <1>9 DEF IInv

LEMMA DownIsEmpty ==
    ASSUME IInv, process = "down"
    PROVE  /\ tasks = {} /\ Queued = {} /\ NoTask \notin Tasks
           /\ \A w \in Workers : hand[w] = NoTask
  BY QueueEmpty, TaskerAssumption DEF IInv, ProcessInv

LEMMA StartStep == ASSUME IInv, Start PROVE IInv'
  <1>1. /\ process' = "up" /\ tasks' = rows /\ place' = [w \in Workers |-> "get"]
        /\ UNCHANGED <<factories, queue, hand, rows, deleting, deletes, fails, stops, begged, born>>
        /\ Queued' = Queued /\ (Once => Once')
    BY QueueKept DEF Start, bounds, history
  <1>2. tasks = {} /\ Queued = {} /\ NoTask \notin Tasks /\ \A w \in Workers : hand[w] = NoTask
    BY DownIsEmpty DEF Start
  <1>3. /\ task' = [t \in Tasks |-> IF t \in rows THEN Loaded(t) ELSE task[t]]
        /\ row' = [t \in Tasks |-> IF t \in rows THEN Loaded(t) ELSE row[t]]
        /\ rows \subseteq Tasks
    BY DEF Start, IInv, TypeOK
  <1>4. \A t \in Tasks : /\ Loaded(t) \in Task /\ Loaded(t).status \in TERMINAL_STATUSES
                         /\ Loaded(t).status = "success" => row[t].status = "success"
    BY LoadedType DEF IInv, TypeOK
  <1>5. task' \in [Tasks -> Task] /\ row' \in [Tasks -> Task]
    BY <1>3, <1>4 DEF IInv, TypeOK
  <1>6. \A t \in rows : /\ task'[t] = row'[t] /\ task'[t].status \in TERMINAL_STATUSES
                        /\ task'[t].status = "success" => row[t].status = "success"
    BY <1>3, <1>4
  <1>7. TypeOK'
    <2>1. place' \in [Workers -> WorkerPlaces] /\ \A w \in Workers : place'[w] = "get"
      BY <1>1 DEF WorkerPlaces
    <2> QED BY <1>1, <1>5, <2>1 DEF IInv, TypeOK
  <1>8. IdInv' /\ HandInv' /\ ProcessInv'
    BY <1>1, <1>2 DEF IInv, IdInv, HandInv, ProcessInv
  <1>9. StatusInv'
    <2>1. \A w \in Workers : hand'[w] \notin tasks'
      BY <1>1, <1>2, <1>3
    <2> QED BY <1>1, <1>2, <2>1 DEF StatusInv
  <1>10. KeyInv' /\ ActiveTaskIsHeld'
    <2>1. \A t \in tasks' : task'[t].status \notin ACTIVE_STATUSES
      BY <1>1, <1>6
    <2> QED BY <2>1 DEF KeyInv, ActiveTaskIsHeld
  <1>11. RowInv'
    BY <1>1, <1>2, <1>3, <1>6 DEF RowInv
  <1>12. BeggedInv'
    <2>1. \A t \in begged, w \in Workers : hand'[w] # t
      BY <1>1, <1>2 DEF IInv, TypeOK
    <2> QED BY <1>1, <1>2, <1>6, <2>1 DEF IInv, BeggedInv
  <1> QED BY <1>7, <1>8, <1>9, <1>10, <1>11, <1>12 DEF IInv

LEMMA StartFailsStep == ASSUME IInv, StartFails PROVE IInv'
  <1>1. /\ process = "down"
        /\ UNCHANGED <<process, tasks, task, factories, queue, place, hand, rows, deleting>>
        /\ UNCHANGED <<deletes, stops, begged, born>>
        /\ fails' \in 1..MaxFails /\ Queued' = Queued /\ (Once => Once')
    BY QueueKept, FailsType DEF IInv, StartFails, memory, history
  <1>2. tasks = {} /\ Queued = {} /\ NoTask \notin Tasks /\ \A w \in Workers : hand[w] = NoTask
    BY <1>1, DownIsEmpty
  <1>3. PICK S \in SUBSET rows : row' = [t \in Tasks |-> IF t \in S THEN Loaded(t) ELSE row[t]]
    BY DEF StartFails
  <1>4. /\ row' \in [Tasks -> Task]
        /\ \A t \in rows : row'[t].status = "success" => row[t].status = "success"
    BY <1>3, LoadedType DEF IInv, TypeOK
  <1>5. TypeOK'
    BY <1>1, <1>4 DEF IInv, TypeOK
  <1>6. IdInv' /\ HandInv' /\ ProcessInv'
    BY <1>1 DEF IInv, IdInv, HandInv, ProcessInv
  <1>7. StatusInv' /\ KeyInv' /\ ActiveTaskIsHeld'
    BY <1>1, <1>2 DEF StatusInv, KeyInv, ActiveTaskIsHeld
  <1>8. RowInv'
    BY <1>1, <1>2 DEF IInv, TypeOK, RowInv
  <1>9. BeggedInv'
    <2>1. \A t \in begged, w \in Workers : hand'[w] # t
      BY <1>1, <1>2 DEF IInv, TypeOK
    <2> QED BY <1>1, <1>2, <1>4, <2>1 DEF IInv, BeggedInv
  <1> QED BY <1>5, <1>6, <1>7, <1>8, <1>9 DEF IInv

LEMMA IInvInit == Init => IInv
  <1> SUFFICES ASSUME Init PROVE IInv
    OBVIOUS
  <1>1. Queued = {} /\ Once /\ queue \in Seq(Tasks)
    BY QueueEmpty DEF Init
  <1>2. /\ process = "up" /\ tasks = {} /\ rows = {} /\ begged = {} /\ born = {}
        /\ \A w \in Workers : place[w] = "get" /\ hand[w] = NoTask
    BY DEF Init
  <1>3. TypeOK
    BY <1>1, AnyTaskType, TaskerAssumption DEF Init, TypeOK, WorkerPlaces
  <1>4. IdInv /\ ProcessInv /\ KeyInv /\ RowInv /\ BeggedInv /\ ActiveTaskIsHeld
    BY <1>1, <1>2 DEF IdInv, ProcessInv, KeyInv, RowInv, BeggedInv, ActiveTaskIsHeld
  <1>5. HandInv
    BY <1>1, <1>2 DEF HandInv
  <1>6. StatusInv
    BY <1>1, <1>2 DEF StatusInv
  <1> QED BY <1>3, <1>4, <1>5, <1>6 DEF IInv

LEMMA Stutter == IInv /\ UNCHANGED vars => IInv'
  <1> SUFFICES ASSUME IInv, UNCHANGED vars PROVE IInv'
    OBVIOUS
  <1>1. /\ UNCHANGED <<process, tasks, task, factories, queue, place, hand, rows, row>>
        /\ UNCHANGED <<deleting, deletes, fails, stops, begged, born>>
        /\ Queued' = Queued /\ (Once => Once')
    BY QueueKept DEF vars
  <1>2. TypeOK' /\ IdInv' /\ HandInv'
    BY <1>1 DEF IInv, TypeOK, IdInv, HandInv
  <1>3. ProcessInv' /\ StatusInv' /\ KeyInv'
    BY <1>1 DEF IInv, ProcessInv, StatusInv, KeyInv, Busy
  <1>4. RowInv' /\ BeggedInv'
    BY <1>1 DEF IInv, RowInv, BeggedInv
  <1>5. ActiveTaskIsHeld'
    BY <1>1, HeldIs, HeldIsNext DEF IInv, ActiveTaskIsHeld
  <1> QED BY <1>2, <1>3, <1>4, <1>5 DEF IInv

\* Every action of the specification, and a stutter, keeps the invariant.
THEOREM Inductive == IInv /\ [Next]_vars => IInv'
  <1> SUFFICES ASSUME IInv, [Next]_vars PROVE IInv'
    OBVIOUS
  <1>1. ASSUME NEW t \in Tasks, NEW k \in Keys, EnqueueUnique(t, k) PROVE IInv'
    BY <1>1, EnqueueStep
  <1>2. ASSUME NEW t \in Tasks, NEW u \in Tasks, ContinueTask(t, u) PROVE IInv'
    BY <1>2, ContinueStep
  <1>3. ASSUME NEW t \in Tasks,
               ContinueRefused(t) \/ CancelTask(t) \/ DeleteTask(t) \/ DeleteRow(t)
        PROVE  IInv'
    BY <1>3, RefusedStep, CancelStep, DeleteTaskStep, DeleteRowStep
  <1>4. ASSUME NEW w \in Workers, WorkerStep(w) PROVE IInv'
    BY <1>4, TakeStep, FetchStep, RejectStep, StartTaskStep, CoroutineStep, HardTimeoutStep,
       OutcomeStep DEF WorkerStep
  <1>5. ASSUME NEW w \in Workers, Coroutine(w) PROVE IInv'
    BY <1>5, ProgressStep, CoroutineStep DEF Coroutine
  <1>6. ASSUME Process PROVE IInv'
    <2>1. ASSUME ShutdownComplete \/ Crash PROVE Vanish /\ stops' \in 0..MaxStops
      BY <2>1, TaskerAssumption DEF IInv, TypeOK, ShutdownComplete, Crash
    <2> QED BY <1>6, <2>1, ShutdownStep, VanishStep, StartStep, StartFailsStep DEF Process
  <1>7. CASE UNCHANGED vars
    BY <1>7, Stutter
  <1> QED BY <1>1, <1>2, <1>3, <1>4, <1>5, <1>6, <1>7 DEF Next, Endpoint

-----------------------------------------------------------------------------
(* The theorems *)

LEMMA Invariant == Spec => []IInv
  BY IInvInit, Inductive, PTL DEF Spec

\* The memory, the workers, the queue and the tasks table keep their types.
THEOREM TypeCorrect == Spec => []TypeOK
  <1>1. IInv => TypeOK
    BY DEF IInv
  <1> QED BY <1>1, Invariant, PTL

\* An active task is in the queue or with a worker as long as its row could
\* be written: enqueue_unique never answers with a task that nobody has.
THEOREM ActiveHeld == Spec => []ActiveTaskIsHeld
  <1>1. IInv => ActiveTaskIsHeld
    BY DEF IInv
  <1> QED BY <1>1, Invariant, PTL

\* Two coroutines of one resource are in progress only when one of their
\* tasks was deleted meanwhile: nothing else that the process does makes the
\* resource free while a coroutine has it.
THEOREM OverlapExplained == Spec => []OverlapOnlyByDelete
  <1>1. IInv => OverlapOnlyByDelete
    <2> SUFFICES ASSUME IInv, NEW v \in Workers, NEW w \in Workers, Together(v, w),
                        hand[v] \in tasks, hand[w] \in tasks
                 PROVE  FALSE
      BY DEF OverlapOnlyByDelete
    <2>1. task[hand[v]].status = "running" /\ task[hand[w]].status = "running"
      BY DEF IInv, StatusInv, Together
    <2>2. hand[v] = hand[w] /\ v # w
      BY <2>1 DEF IInv, KeyInv, Together, Key
    <2>3. hand[v] # NoTask
      BY TaskerAssumption DEF IInv, TypeOK
    <2> QED BY <2>2, <2>3 DEF IInv, HandInv
  <1> QED BY <1>1, Invariant, PTL

\* A cancel that came before the worker's last look is never answered with
\* success.
THEOREM CancelWins == Spec => []CancelBeatsSuccess
  <1>1. IInv => CancelBeatsSuccess
    BY DEF IInv, BeggedInv, CancelBeatsSuccess
  <1> QED BY <1>1, Invariant, PTL

\* What a finished task's row says stays, in every step.
OutcomesStay == \A t \in rows : row[t].status \in TERMINAL_STATUSES =>
                    row'[t].status = row[t].status

LEMMA WritesStays ==
    ASSUME IInv, NEW h \in Tasks, \A t \in Tasks \ {h} : row'[t] = row[t],
           h \in rows /\ row[h].status \in TERMINAL_STATUSES => row'[h].status = row[h].status
    PROVE  OutcomesStay
  BY DEF IInv, TypeOK, OutcomesStay

LEMMA HolderStays ==
    ASSUME IInv, NEW w \in Workers, hand[w] \in Tasks, \A t \in Tasks \ {hand[w]} : row'[t] = row[t]
    PROVE  OutcomesStay
  BY WritesStays DEF IInv, RowInv

LEMMA OutcomesStayStep == IInv /\ [Next]_vars => OutcomesStay
  <1> SUFFICES ASSUME IInv, [Next]_vars PROVE OutcomesStay
    OBVIOUS
  <1>1. ASSUME NEW t \in Tasks, NEW k \in Keys, EnqueueUnique(t, k) PROVE OutcomesStay
    <2>1. t \notin rows /\ \A u \in Tasks \ {t} : row'[u] = row[u]
      BY <1>1, EnqueueEffect DEF IInv, IdInv, Adds, Writes, TableKept
    <2> QED BY <2>1, WritesStays
  <1>2. ASSUME NEW t \in Tasks, NEW u \in Tasks, ContinueTask(t, u) PROVE OutcomesStay
    <2>1. /\ t # u /\ t \in tasks /\ task[t].status = RETRYABLE /\ u \notin rows
          /\ task'[t].status = RETRYABLE /\ \A v \in Tasks \ {t, u} : row'[v] = row[v]
          /\ row'[t] = row[t] \/ row'[t] = task'[t]
      BY <1>2, ContinueEffect DEF IInv, IdInv, Adds, Writes, TableKept
    <2>2. t \in rows /\ row[t].status \in TERMINAL_STATUSES => row'[t].status = row[t].status
      BY <2>1 DEF IInv, RowInv
    <2> QED BY <2>1, <2>2 DEF IInv, TypeOK, OutcomesStay
  <1>3. ASSUME NEW t \in Tasks, ContinueRefused(t) \/ CancelTask(t) PROVE OutcomesStay
    <2>1. /\ t \in tasks /\ task'[t].status = task[t].status
          /\ \A u \in Tasks \ {t} : row'[u] = row[u]
          /\ row'[t] = row[t] \/ row'[t] = task'[t]
      BY <1>3, RefusedEffect, CancelEffect DEF IInv, Sets, Writes, TableKept
    <2>2. t \in rows /\ row[t].status \in TERMINAL_STATUSES => row'[t].status = row[t].status
      BY <2>1 DEF IInv, RowInv
    <2> QED BY <2>1, <2>2, WritesStays
  <1>4. ASSUME NEW w \in Workers, RejectTask(w) \/ StartTask(w) \/ RecordOutcome(w)
        PROVE  OutcomesStay
    <2>1. PICK status : Reports(w, status)
      BY <1>4, RejectEffect, StartEffect, OutcomeEffect DEF IInv
    <2>2. hand[w] \in Tasks /\ \A t \in Tasks \ {hand[w]} : row'[t] = row[t]
      BY <2>1 DEF Reports, Writes, TableKept
    <2> QED BY <2>2, HolderStays
  <1>5. ASSUME NEW w \in Workers, ReportProgress(w) PROVE OutcomesStay
    <2>1. hand[w] \in Tasks /\ \A t \in Tasks \ {hand[w]} : row'[t] = row[t]
      BY <1>5 DEF IInv, TypeOK, ReportProgress, Persist
    <2> QED BY <2>1, HolderStays
  <1>6. ASSUME row' = row PROVE OutcomesStay
    BY <1>6 DEF OutcomesStay
  <1>7. ASSUME NEW t \in Tasks, DeleteTask(t) \/ DeleteRow(t) PROVE OutcomesStay
    BY <1>6, <1>7 DEF DeleteTask, DeleteRow, table
  <1>8. ASSUME NEW w \in Workers,
               \/ TakeTask(w) \/ FetchTask(w) \/ CleanUp(w) \/ HardTimeout(w)
               \/ CoroutineReturns(w) \/ CoroutineRaises(w) \/ RaiseIfCancelled(w)
        PROVE  OutcomesStay
    BY <1>6, <1>8 DEF TakeTask, FetchTask, CleanUp, HardTimeout, CoroutineReturns,
                      CoroutineRaises, RaiseIfCancelled, table
  <1>9. ASSUME Process PROVE OutcomesStay
    <2>1. ASSUME NEW S \in SUBSET rows,
                 row' = [t \in Tasks |-> IF t \in S THEN Loaded(t) ELSE row[t]]
          PROVE  OutcomesStay
      <3>1. \A t \in Tasks : row[t].status \in TERMINAL_STATUSES => Loaded(t) = row[t]
        BY LoadedType DEF IInv, TypeOK
      <3> QED BY <2>1, <3>1 DEF IInv, TypeOK, OutcomesStay
    <2>2. CASE Start
      <3>1. rows \in SUBSET rows
        OBVIOUS
      <3> QED BY <2>1, <2>2, <3>1 DEF Start
    <2>3. CASE StartFails
      BY <2>1, <2>3 DEF StartFails
    <2>4. CASE Shutdown \/ ShutdownComplete \/ Crash
      BY <1>6, <2>4 DEF Shutdown, ShutdownComplete, Crash, Vanish, table
    <2> QED BY <1>9, <2>2, <2>3, <2>4 DEF Process
  <1>10. CASE UNCHANGED vars
    BY <1>6, <1>10 DEF vars
  <1> QED BY <1>1, <1>2, <1>3, <1>4, <1>5, <1>7, <1>8, <1>9, <1>10
          DEF Next, Endpoint, WorkerStep, Coroutine

\* The outcome the tasks table has of a finished task is its last.
THEOREM OutcomeKept == Spec => OutcomeStays
  <1>1. IInv /\ [Next]_vars => [OutcomesStay]_vars
    BY OutcomesStayStep
  <1>2. Spec => [][OutcomesStay]_vars
    BY <1>1, Invariant, PTL DEF Spec
  <1> QED BY <1>2 DEF OutcomeStays, OutcomesStay

=============================================================================
