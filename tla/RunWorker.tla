----------------------------- MODULE RunWorker ------------------------------
(***************************************************************************)
(* One agent run, from the moment its row is committed and its job is in   *)
(* the ARQ queue: the worker coroutine process_agent_run with its chunk    *)
(* writer, the cancel endpoint, and what they share: the run's row, the    *)
(* Redis cancel key and the Redis event stream.                            *)
(*                                                                         *)
(* A worker step is the code between two awaits on the database, on Redis  *)
(* or on the agent's stream.  A step that writes and the step after it are *)
(* separate, so a fault between them stands for a write that took effect   *)
(* and whose caller saw an exception.                                      *)
(***************************************************************************)
EXTENDS Naturals, Sequences, RunRow

CONSTANTS
    MaxTries,       \* WorkerSettings.max_tries
    RetryOnRaise,   \* does ARQ run a job again when it raised RetryableRunError?
    Faults,         \* which faults may strike, a subset of FaultKinds
    MaxFaults,      \* bound: faults in a behaviour
    MaxChunks,      \* bound: chunks that do not close the agent's stream
    MaxCancels      \* bound: calls of the cancel endpoint

(***************************************************************************)
(* raise    an await of the try block raises: database, Redis or stream    *)
(* handler  an await of an except block raises or is cancelled             *)
(* setup    an await before the try block raises or is cancelled, or the   *)
(*          user is gone                                                   *)
(* timeout  ARQ cancels the coroutine: job_timeout, worker shutdown        *)
(* crash    the worker process dies                                        *)
(* api      the cancel endpoint fails to reach Redis, or dies              *)
(* expiry   the cancel key outlives its TTL                                *)
(* signal   a read or a delete of the cancel key fails: logged, and ignored *)
(* garbled  a line of the agent's stream does not parse and is skipped     *)
(***************************************************************************)
FaultKinds == {"raise", "handler", "setup", "timeout", "crash", "api", "expiry",
               "signal", "garbled"}

ASSUME RunWorkerAssumption ==
    /\ MaxTries \in Nat \ {0}
    /\ RetryOnRaise \in BOOLEAN
    /\ Faults \subseteq FaultKinds
    /\ MaxFaults \in Nat /\ MaxChunks \in Nat /\ MaxCancels \in Nat

VARIABLES
    status,     \* the committed status of the run's row
    key,        \* is the Redis cancel key of the run set?
    events,     \* the run's Redis event stream
    job,        \* the ARQ job of the run
    try,        \* ARQ's job_try
    pc,         \* where the worker coroutine is
    mode,       \* which part of process_agent_run it is in
    target,     \* the terminal status it is about to commit and announce
    noticed,    \* RunContext.cancel_event
    buf,        \* ChunkedEventWriter.thread_buffers: loading chunks not yet written
    left,       \* threads the flush in progress still has to write
    cur,        \* the chunk in hand
    gen,        \* how far the agent's stream has come
    ended,      \* terminal_set
    chunks,     \* chunks the worker has taken from the agent's streams
    api,        \* where the cancel endpoint is
    cancels,    \* how many times it was called
    faults,     \* how many faults have struck
    marked,     \* history: length of events when the row became terminal
    early       \* history: a cancel was signalled to an attempt that had read no chunk

rowVars == <<status, marked>>
workerVars == <<pc, mode, target, noticed, buf, left, cur, gen, ended>>
jobVars == <<job, try>>
apiVars == <<api, cancels, early>>
vars == <<status, key, events, job, try, pc, mode, target, noticed, buf, left, cur, gen,
          ended, chunks, api, cancels, faults, marked, early>>

-----------------------------------------------------------------------------
(* Data *)

Threads == {"main", "child"}     \* the run's own thread, and a subagent's

\* The statuses of a chunk the worker tells apart: "state" is every chunk
\* it only forwards, "question" either kind of human interrupt.
ClosingKinds == {"finished", "error", "interrupted", "question"}
ChunkKinds == {"init", "loading", "state"} \union ClosingKinds
Chunk == [n : Nat, kind : ChunkKinds, thread : Threads]
GenStates == {"fresh", "body", "asked", "spent"}
NoChunk == [n |-> 0, kind |-> "init", thread |-> "main"]

\* "retry" is an error event whose payload says retryable.
EventTypes == {"metadata", "messages", "custom", "interrupt", "error", "retry", "end"}
Event == [type : EventTypes, thread : Threads, items : Seq(Nat), try : Nat,
          status : TERMINAL_RUN_STATUSES \union {"-"}]
EventOf(type, thread, items, st) ==
    [type |-> type, thread |-> thread, items |-> items, try |-> try, status |-> st]
Write(e) == events' = Append(events, e)

\* _map_chunk_to_run_event, for the chunks that get an event of their own.
MappedType(kind) == CASE kind = "error" -> "error"
                      [] kind \in {"interrupted", "question"} -> "interrupt"
                      [] OTHER -> "custom"

(***************************************************************************)
(* stream_agent_chat and stream_agent_resume: init, then content of the    *)
(* run and of its subagents, then one closing chunk.  After a question     *)
(* only the agent's state may follow; a bad agent or a blocked query is an *)
(* error before anything else.                                             *)
(***************************************************************************)
\* What it may yield, and the state it is left in, in each of its states.
StreamYields == [
    fresh |-> {<<"init", "main", "body">>, <<"error", "main", "spent">>},
    body  |-> ({"loading", "state"} \X Threads \X {"body"})
                \union {<<"question", "main", "asked">>}
                \union ({"finished", "error", "interrupted"} \X {"main"} \X {"spent"}),
    asked |-> {<<"state", "main", "asked">>},
    spent |-> {}]

\* The status a closing chunk of the main thread leads to.  For an
\* interrupted chunk the worker reads the row first (PeekCancelRequest).
StatusAfter == [finished |-> "completed", error |-> "failed", question |-> "interrupted"]

-----------------------------------------------------------------------------
(* The worker's places *)

TryModes == {"loop", "drain"}                   \* inside the try block
HandlerModes == {"cancelled", "retry", "failed"} \* an except block
\* "escaped" and "dropped": an except block raised or was cancelled, and
\* only the finally block is left.
Modes == TryModes \union HandlerModes \union {"setup", "escaped", "dropped"}

TryPlaces == {"take", "flush", "emit", "peek", "commit", "end", "check", "report"}
Places == TryPlaces \union {"idle", "load", "mark", "meta", "close", "clear"}

\* Mutant: the watcher starts with the first chunk.
ContextOpenLate == pc \in TryPlaces /\ gen # "fresh"

\* From RunContext.start to RunContext.close the cancel key is watched.
ContextOpen == pc \in TryPlaces \union {"meta"} /\ ~(pc = "commit" /\ mode = "setup")

\* Mutant: the last try comes one try too early.
IsLastTryEarly == try + 1 >= MaxTries

IsLastTry == try >= MaxTries

\* The cancel endpoint keeps the row locked from its write to its commit.
RowLocked == api \in {"locked", "signalled"}

Buffered(ts) == {t \in ts : buf[t] # <<>>}

\* Mutant: nothing is written before a chunk that is not loading.
WrittenBeforeNothing(t) == {}

\* What a chunk of thread t that is not loading has to wait for.
WrittenBefore(t) == Buffered({t})

\* Mutant: only the watcher's flag is looked at, not the key itself.
IsCancelledFlag == noticed

\* RunContext.is_cancelled.
IsCancelled == noticed \/ key

Init == /\ status = CreatedStatus /\ marked = 0
        /\ key = FALSE /\ events = <<>>
        /\ job = "queued" /\ try = 1
        /\ pc = "idle" /\ mode = "setup" /\ target = "completed" /\ noticed = FALSE
        /\ buf = [t \in Threads |-> <<>>] /\ left = {}
        /\ cur = NoChunk /\ gen = "fresh" /\ ended = FALSE /\ chunks = 0
        /\ api = "idle" /\ cancels = 0 /\ early = FALSE
        /\ faults = 0

\* The coroutine's locals are gone.
Forget == /\ pc' = "idle" /\ mode' = "setup" /\ target' = "completed" /\ noticed' = FALSE
          /\ buf' = [t \in Threads |-> <<>>] /\ left' = {}
          /\ cur' = NoChunk /\ gen' = "fresh" /\ ended' = FALSE

Requeue == job' = "queued" /\ try' = try + 1
JobDone == job' = "done" /\ try' = try

\* Whether a fault of kind k may strike now.
Strikes(k) == k \in Faults /\ faults < MaxFaults /\ faults' = faults + 1

-----------------------------------------------------------------------------
(* Where the coroutine goes *)

\* What follows a flush: in the loop the chunk in hand, after it the end of
\* the try block, in a handler the handler's own event.
AfterFlush == CASE mode = "loop" -> IF cur.kind = "loading" THEN "take" ELSE "emit"
                [] mode = "drain" -> IF ended THEN "close" ELSE "commit"
                [] OTHER -> "report"

\* Entering the except block m: it starts with writer.flush().
Handle(m) == /\ mode' = m
             /\ left' = Buffered(Threads)
             /\ pc' = IF left' = {} THEN "report" ELSE "flush"

\* The attempt ends in RetryableRunError or in CancelledError.
EndsToBeRetried == (mode = "retry" /\ RetryOnRaise) \/ mode = "dropped"

\* The coroutine is over.  The retry handler raises before the last try only,
\* and ARQ gives a cancelled job up when it has no try left.
JobOver == IF EndsToBeRetried /\ ~IsLastTry THEN Requeue ELSE JobDone

-----------------------------------------------------------------------------
(* The worker, before the try block *)

PickUp == /\ job = "queued" /\ pc = "idle"
          /\ pc' = "load" /\ job' = "running"
          /\ UNCHANGED <<rowVars, key, events, try, mode, target, noticed, buf, left, cur,
                         gen, ended, chunks, apiVars, faults>>

\* A terminal row ends the job; nothing of it is touched.
SkipTerminal == /\ pc = "load" /\ IsTerminal(status)
                /\ Forget /\ JobDone
                /\ UNCHANGED <<rowVars, key, events, chunks, apiVars, faults>>

LoadRun == /\ pc = "load" /\ ~IsTerminal(status)
           /\ pc' = "mark"
           /\ UNCHANGED <<rowVars, key, events, jobVars, mode, target, noticed, buf, left,
                          cur, gen, ended, chunks, apiVars, faults>>

\* The run's user was deleted: the run fails, no event says so.
UserGone == /\ pc = "load" /\ ~IsTerminal(status)
            /\ Strikes("setup")
            /\ pc' = "commit" /\ target' = "failed"
            /\ UNCHANGED <<rowVars, key, events, jobVars, mode, noticed, buf, left, cur,
                           gen, ended, chunks, apiVars>>

StartRunning == /\ pc = "mark" /\ ~RowLocked
                /\ status' = MarkRunning(status)
                /\ pc' = "meta"
                /\ UNCHANGED <<marked, key, events, jobVars, mode, target, noticed, buf,
                               left, cur, gen, ended, chunks, apiVars, faults>>

WriteMetadata == /\ pc = "meta"
                 /\ Write(EventOf("metadata", "main", <<>>, "-"))
                 /\ pc' = "take" /\ mode' = "loop"
                 /\ UNCHANGED <<rowVars, key, jobVars, target, noticed, buf, left, cur, gen,
                                ended, chunks, apiVars, faults>>

-----------------------------------------------------------------------------
(* The worker, in the try block *)

\* RunContext._watch_cancel_signal, which runs beside the coroutine.
WatchCancel == /\ ContextOpen /\ key /\ ~noticed
               /\ noticed' = TRUE
               /\ UNCHANGED <<rowVars, key, events, jobVars, pc, mode, target, buf, left,
                              cur, gen, ended, chunks, apiVars, faults>>

\* The agent yields a chunk before the watcher notices a cancel.  A loading
\* chunk goes to its thread's buffer, which is written at once, on the
\* interval or on its size; any other chunk writes the buffer of its thread
\* first.
TakeChunk ==
    /\ pc = "take" /\ ~noticed
    /\ \E y \in StreamYields[gen] :
         /\ chunks < MaxChunks \/ y[1] \in ClosingKinds
         /\ cur' = [n |-> chunks + 1, kind |-> y[1], thread |-> y[2]]
         /\ gen' = y[3]
         /\ chunks' = chunks + 1
         /\ IF y[1] = "loading"
            THEN /\ buf' = [buf EXCEPT ![y[2]] = Append(@, chunks + 1)]
                 /\ \/ pc' = "take" /\ left' = {}
                    \/ pc' = "flush" /\ left' = {y[2]}
            ELSE /\ buf' = buf
                 /\ left' = WrittenBefore(y[2])
                 /\ pc' = IF left' = {} THEN "emit" ELSE "flush"
    /\ UNCHANGED <<rowVars, key, events, jobVars, mode, target, noticed, ended, apiVars, faults>>

\* A line that does not parse is logged and skipped, whatever it said.
SkipGarbled ==
    /\ pc = "take" /\ ~noticed
    /\ Strikes("garbled")
    /\ \E y \in StreamYields[gen] : gen' = y[3]
    /\ UNCHANGED <<rowVars, key, events, jobVars, pc, mode, target, noticed, buf, left, cur,
                   ended, chunks, apiVars>>

\* The stream is over: write every buffer, then complete the run unless a
\* closing chunk already settled it.
StreamStops ==
    /\ pc = "take" /\ ~noticed /\ gen \in {"asked", "spent"}
    /\ mode' = "drain" /\ target' = "completed"
    /\ left' = Buffered(Threads)
    /\ pc' = CASE left' # {} -> "flush"
               [] left' = {} /\ ended -> "close"
               [] OTHER -> "commit"
    /\ UNCHANGED <<rowVars, key, events, jobVars, noticed, buf, cur, gen, ended, chunks,
                   apiVars, faults>>

\* _consume_stream_with_cancel drops the agent's next chunk for the cancel.
NoticeCancel == /\ pc = "take" /\ noticed
                /\ Handle("cancelled")
                /\ UNCHANGED <<rowVars, key, events, jobVars, target, noticed, buf, cur, gen,
                               ended, chunks, apiVars, faults>>

\* ChunkedEventWriter.flush of one thread.
Flush ==
    /\ pc = "flush"
    /\ \E t \in left :
         /\ Write(EventOf("messages", t, buf[t], "-"))
         /\ buf' = [buf EXCEPT ![t] = <<>>]
         /\ left' = left \ {t}
    /\ pc' = IF left' = {} THEN AfterFlush ELSE "flush"
    /\ UNCHANGED <<rowVars, key, jobVars, mode, target, noticed, cur, gen, ended, chunks,
                   apiVars, faults>>

\* The event of a chunk that is not loading; "finished" has none of its own.
EmitChunk ==
    /\ pc = "emit"
    /\ IF cur.kind = "finished" THEN events' = events
       ELSE Write(EventOf(MappedType(cur.kind), cur.thread, <<cur.n>>, "-"))
    /\ pc' = CASE cur.thread # "main" \/ cur.kind \notin ClosingKinds -> "check"
               [] cur.thread = "main" /\ cur.kind = "interrupted" -> "peek"
               [] OTHER -> "commit"
    /\ target' = IF pc' = "commit" THEN StatusAfter[cur.kind] ELSE target
    /\ UNCHANGED <<rowVars, key, jobVars, mode, noticed, buf, left, cur, gen, ended, chunks,
                   apiVars, faults>>

\* An interrupted chunk is a cancellation if the row says so now.
PeekCancelRequest ==
    /\ pc = "peek"
    /\ target' = IF status = "cancel_requested" THEN "cancelled" ELSE "interrupted"
    /\ pc' = "commit"
    /\ UNCHANGED <<rowVars, key, events, jobVars, mode, noticed, buf, left, cur, gen, ended,
                   chunks, apiVars, faults>>

\* mark_run_terminal, wherever it is called.  A run whose user is gone is
\* over with it: no end event, and no finally block.
CommitTerminal ==
    /\ pc = "commit" /\ ~RowLocked
    /\ status' = SetTerminalStatus(status, target)
    /\ marked' = IF IsTerminal(status) THEN marked ELSE Len(events)
    /\ IF mode = "setup" THEN Forget /\ JobDone
       ELSE /\ pc' = "end"
            /\ UNCHANGED <<jobVars, mode, target, noticed, buf, left, cur, gen, ended>>
    /\ UNCHANGED <<key, events, chunks, apiVars, faults>>

\* _append_end_event, with the status the worker asked for.
AppendEnd ==
    /\ pc = "end"
    /\ Write(EventOf("end", "main", <<>>, target))
    /\ IF mode = "loop" THEN pc' = "check" /\ ended' = TRUE
       ELSE pc' = "close" /\ ended' = ended
    /\ UNCHANGED <<rowVars, key, jobVars, mode, target, noticed, buf, left, cur, gen, chunks,
                   apiVars, faults>>

\* After a chunk that is not loading: RunContext.is_cancelled.
CheckCancelled ==
    /\ pc = "check"
    /\ IF IsCancelled
       THEN noticed' = TRUE /\ Handle("cancelled")
       ELSE pc' = "take" /\ UNCHANGED <<noticed, mode, left>>
    /\ UNCHANGED <<rowVars, key, events, jobVars, target, buf, cur, gen, ended, chunks,
                   apiVars, faults>>

-----------------------------------------------------------------------------
(* The worker, in the except blocks and the finally block *)

ReportType == CASE mode = "cancelled" -> "interrupt"
                [] mode = "retry" -> "retry"
                [] OTHER -> "error"

\* The handler's own event.  A retryable failure is settled here only on
\* the last try; before it the exception goes on to ARQ.
Report ==
    /\ pc = "report"
    /\ Write(EventOf(ReportType, "main", <<>>, "-"))
    /\ target' = IF mode = "cancelled" THEN "cancelled" ELSE "failed"
    /\ pc' = IF mode = "retry" /\ ~IsLastTry THEN "close" ELSE "commit"
    /\ UNCHANGED <<rowVars, key, jobVars, mode, noticed, buf, left, cur, gen, ended, chunks,
                   apiVars, faults>>

CloseContext == /\ pc = "close"
                /\ pc' = "clear"
                /\ UNCHANGED <<rowVars, key, events, jobVars, mode, target, noticed, buf,
                               left, cur, gen, ended, chunks, apiVars, faults>>

\* clear_cancel_signal, at the end of every attempt, a failed one included.
ClearSignal == /\ pc = "clear"
               /\ key' = FALSE
               /\ JobOver /\ Forget
               /\ UNCHANGED <<rowVars, events, chunks, apiVars, faults>>

-----------------------------------------------------------------------------
(* Faults *)

\* An await of the try block raises, with an error worth a retry or not.
Raise == /\ pc \in TryPlaces /\ mode \in TryModes
         /\ Strikes("raise")
         /\ \E m \in {"retry", "failed"} : Handle(m)
         /\ UNCHANGED <<rowVars, key, events, jobVars, target, noticed, buf, cur, gen, ended,
                        chunks, apiVars>>

\* The flush reached Redis and its caller saw an exception: the buffer was
\* not emptied, the handler writes it again.
FlushReplyLost ==
    /\ pc = "flush" /\ mode \in TryModes
    /\ Strikes("raise")
    /\ \E t \in left : Write(EventOf("messages", t, buf[t], "-"))
    /\ \E m \in {"retry", "failed"} : Handle(m)
    /\ UNCHANGED <<rowVars, key, jobVars, target, noticed, buf, cur, gen, ended, chunks, apiVars>>

\* ARQ cancels the coroutine.  It cannot tell this from the user's cancel.
JobTimeout == /\ pc \in TryPlaces /\ mode \in TryModes
              /\ Strikes("timeout")
              /\ Handle("cancelled")
              /\ UNCHANGED <<rowVars, key, events, jobVars, target, noticed, buf, cur, gen,
                             ended, chunks, apiVars>>

\* An except block raises, or is cancelled as the worker shuts down: what it
\* had still to do is not done, the finally block is.
HandlerRaises == /\ pc \in TryPlaces /\ mode \in HandlerModes
                 /\ Strikes("handler")
                 /\ mode' \in {"escaped", "dropped"} /\ left' = {} /\ pc' = "close"
                 /\ UNCHANGED <<rowVars, key, events, jobVars, target, noticed, buf, cur,
                                gen, ended, chunks, apiVars>>

\* RunContext.is_cancelled cannot read the key and takes it for not set.
CheckUnread == /\ pc = "check" /\ ~noticed
               /\ Strikes("signal")
               /\ pc' = "take"
               /\ UNCHANGED <<rowVars, key, events, jobVars, mode, target, noticed, buf,
                              left, cur, gen, ended, chunks, apiVars>>

\* clear_cancel_signal cannot delete the key, which outlives the attempt.
ClearFails == /\ pc = "clear"
              /\ Strikes("signal")
              /\ JobOver /\ Forget
              /\ UNCHANGED <<rowVars, key, events, chunks, apiVars>>

\* Before the try block there is neither handler nor finally.  A cancelled
\* job is run again.
SetupRaises == /\ pc \in {"load", "mark", "meta"} \/ (pc = "commit" /\ mode = "setup")
               /\ Strikes("setup")
               /\ Forget
               /\ JobDone \/ (~IsLastTry /\ Requeue)
               /\ UNCHANGED <<rowVars, key, events, chunks, apiVars>>

\* ARQ finds the job again when its in-progress mark expires, and gives it
\* up when it has no try left.  A cancel in the finally block ends the same.
WorkerCrash == /\ pc # "idle"
               /\ Strikes("crash")
               /\ Forget
               /\ IF IsLastTry THEN JobDone ELSE Requeue
               /\ UNCHANGED <<rowVars, key, events, chunks, apiVars>>

KeyExpires == /\ key
              /\ Strikes("expiry")
              /\ key' = FALSE
              /\ UNCHANGED <<rowVars, events, jobVars, workerVars, chunks, apiVars>>

-----------------------------------------------------------------------------
(* The cancel endpoint: lock and write the row, signal, commit. *)

CancelLock == /\ api = "idle" /\ cancels < MaxCancels
              /\ api' = "locked" /\ cancels' = cancels + 1
              /\ UNCHANGED <<rowVars, key, events, jobVars, workerVars, chunks, faults, early>>

\* The signal goes out whatever the row's status, before the row's new
\* status can be read by anyone.
CancelSignal == /\ api = "locked"
                /\ key' = TRUE
                /\ api' = "signalled"
                /\ early' = (early \/ (~IsTerminal(status) /\ job # "done" /\ gen = "fresh"))
                /\ UNCHANGED <<rowVars, events, jobVars, workerVars, chunks, cancels, faults>>

\* Redis is away: logged, and the request goes on.
CancelSignalFails == /\ api = "locked"
                     /\ Strikes("api")
                     /\ api' = "signalled"
                     /\ UNCHANGED <<rowVars, key, events, jobVars, workerVars, chunks,
                                    cancels, early>>

CancelCommit == /\ api = "signalled"
                /\ status' = RequestCancel(status)
                /\ api' = "idle"
                /\ UNCHANGED <<marked, key, events, jobVars, workerVars, chunks, cancels,
                               faults, early>>

\* The API process dies: the row's transaction is rolled back, the signal stays.
CancelAborts == /\ RowLocked
                /\ Strikes("api")
                /\ api' = "idle"
                /\ UNCHANGED <<rowVars, key, events, jobVars, workerVars, chunks, cancels,
                               early>>

-----------------------------------------------------------------------------

\* What the worker does of its own accord once the agent has answered.
OwnStep ==
    \/ SkipTerminal \/ LoadRun \/ StartRunning \/ WriteMetadata
    \/ Flush \/ EmitChunk \/ PeekCancelRequest \/ CommitTerminal \/ AppendEnd
    \/ CheckCancelled \/ Report \/ CloseContext \/ ClearSignal

WorkerStep == OwnStep \/ NoticeCancel

AgentStep == TakeChunk \/ StreamStops

CancelApi == CancelLock \/ CancelSignal \/ CancelCommit

SurvivedFault ==
    \/ UserGone \/ SkipGarbled \/ Raise \/ FlushReplyLost \/ JobTimeout \/ HandlerRaises
    \/ CheckUnread \/ ClearFails \/ SetupRaises \/ KeyExpires \/ CancelSignalFails \/ CancelAborts

Fault == SurvivedFault \/ WorkerCrash

Next == PickUp \/ WorkerStep \/ WatchCancel \/ AgentStep \/ CancelApi \/ Fault

Spec == Init /\ [][Next]_vars

(***************************************************************************)
(* The event loop runs every ready coroutine, ARQ polls its queue, and a   *)
(* request that holds a row lock goes on: all weakly fair.  Nobody has to  *)
(* cancel, no fault has to strike, and the agent may hang for ever.        *)
(***************************************************************************)
Fairness == /\ WF_vars(PickUp)
            /\ WF_vars(WorkerStep)
            /\ WF_vars(WatchCancel)
            /\ WF_vars(CancelSignal)
            /\ WF_vars(CancelCommit)

FairSpec == Spec /\ Fairness

\* The same, with an agent that answers.
AnsweringSpec == FairSpec /\ WF_vars(AgentStep)

-----------------------------------------------------------------------------
(* Properties *)

SharedTypeOK ==
    /\ status \in RunStatuses /\ marked \in Nat
    /\ key \in BOOLEAN /\ events \in Seq(Event)
    /\ job \in {"queued", "running", "done"} /\ try \in 1..MaxTries
    /\ chunks \in Nat /\ faults \in 0..MaxFaults
    /\ api \in {"idle", "locked", "signalled"} /\ cancels \in 0..MaxCancels
    /\ early \in BOOLEAN

LocalTypeOK ==
    /\ pc \in Places /\ mode \in Modes /\ target \in TERMINAL_RUN_STATUSES
    /\ noticed \in BOOLEAN
    /\ buf \in [Threads -> Seq(Nat)] /\ left \in SUBSET Threads
    /\ cur \in Chunk /\ gen \in GenStates /\ ended \in BOOLEAN

\* Type correctness of what the processes share, the run's row, its stream
\* and its job among it, and of the worker coroutine's own state.
TypeOK == SharedTypeOK /\ LocalTypeOK

\* A client that sees an end event and then asks for the run finds it in a
\* terminal status: no interleaving of commits, faults and retries puts an
\* end event into the stream of a run that is still active.
EndOnlyOfTerminal ==
    \A i \in DOMAIN events : events[i].type = "end" => IsTerminal(status)

Ends == {i \in DOMAIN events : events[i].type = "end"}

\* The first end event carries the status the row keeps, however a cancel,
\* a crash or an expired key falls between the commit and the event; where
\* a timeout or an error of the worker falls there, the stream says so after
\* the events the row was settled with.
FirstEndTruthful ==
    \A i \in Ends : (\A j \in Ends : i <= j) =>
        \/ events[i].status = status
        \/ \E j \in (marked + 1)..(i - 1) : events[j].type \in {"error", "retry", "interrupt"}

Carries(i, t, n) == /\ events[i].thread = t
                    /\ \E k \in DOMAIN events[i].items : events[i].items[k] = n

\* Chunk n of the thread of event i is in the stream before item k of that event.
CameBefore(i, k, n) == \/ \E j \in 1..(i - 1) : Carries(j, events[i].thread, n)
                       \/ \E l \in 1..(k - 1) : events[i].items[l] = n

\* ChunkedEventWriter never lets a chunk overtake an earlier one of its
\* thread: when chunk m of a thread is in the stream, every earlier chunk of
\* that thread and attempt which is in the stream came first, and none of
\* them is still waiting in the buffer.
NothingOvertaken ==
    \A i \in DOMAIN events : \A k \in DOMAIN events[i].items :
        LET t == events[i].thread
            m == events[i].items[k]
        IN  /\ \A l \in DOMAIN buf[t] : buf[t][l] < m => CameBefore(i, k, buf[t][l])
            /\ \A j \in (i + 1)..Len(events) :
                 (events[j].thread = t /\ events[j].try = events[i].try) =>
                    \A l \in DOMAIN events[j].items :
                        events[j].items[l] < m => CameBefore(i, k, events[j].items[l])

\* A cancel signalled to a run that is queued, or whose attempt has not read
\* its first chunk, is never answered by running the agent to its end, even
\* if that attempt crashes and another one overwrites cancel_requested.
EarlyCancelHonoured == early => status \notin {"completed", "interrupted"}

\* The worker's part of the run's life is the one RunStatus promises.
Lifecycle == INSTANCE RunStatus
LifecycleSpec == Lifecycle!Spec

\* A cancel signal ends the run, even when the agent hangs for ever.
CancelEndsRun == key ~> IsTerminal(status)

\* RetryableRunError "should trigger ARQ retry": an attempt that announced a
\* retryable error is followed by another one, or settles the run.
RetryFollows ==
    \A n \in 1..MaxTries :
        (\E i \in DOMAIN events : events[i].type = "retry" /\ events[i].try = n)
            ~> (IsTerminal(status) \/ try > n)
=============================================================================
