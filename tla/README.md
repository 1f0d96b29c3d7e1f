# A TLA+ verification project for pipeline-k-rag

pipeline-k-rag is a multi-user agent platform: a FastAPI process, an ARQ worker process, PostgreSQL,
Redis, MinIO, Milvus and Neo4j, and a Vue front end. A user asks an agent something; the question
becomes a *run*, which a worker executes and the browser watches. Long work on knowledge bases
(parsing, indexing, building graphs) becomes a *task*, which the API process executes itself.

The machines that carry the system are the **agent run** (API, queue, worker, subagents, event
stream, browser), the **background task executor**, the **files of a knowledge base** with the graph
built from them, and the **sandboxes** agents run commands in. This project models all four, and with the first the
**thread** its runs share: a LangGraph checkpoint, and the messages copied from it. Paths below
that start with `services/`, `repositories/`, `agents/` or `knowledge/` are under
`src/backend/package/yuxi/`; `routers/` is `src/backend/server/routers/`; `.js` files are under
`src/web/src/`.

## 1. Inventory

### 1.1 Agent runs

| Part | Code | State it keeps | Operations |
|---|---|---|---|
| run row | `repositories/agent_run_repository.py`, table `agent_runs` | status, request id (unique), parent run, created_at | `create_run`, `mark_running`, `request_cancel`, `set_terminal_status` (each of the last three under `SELECT ... FOR UPDATE`) |
| run API | `services/agent_run_service.py` | none of its own | create a chat or resume run, cancel, stream events (SSE), active run of a thread |
| queue, signals, events | `services/run_queue_service.py` on Redis | ARQ job, cancel key with a TTL, one stream of events per run | enqueue, publish/has/clear cancel signal, append and list events |
| worker | `services/run_worker.py` | locals of one coroutine: cancel event, watcher task, per-thread buffers of loading chunks, `terminal_set` | `process_agent_run`, `ChunkedEventWriter.append/flush`, `RunContext` |
| subagents | `agents/middlewares/subagent_task.py` | a child row in `agent_runs`, keyed by parent run and tool call | `atask`: create and mark the row, build the context, invoke, settle |
| agent stream | `services/chat_service.py`, `repositories/conversation_repository.py` | LangGraph checkpoint, tables `messages` and `tool_calls` | `stream_agent_chat`, `stream_agent_resume`, `check_and_handle_interrupts`, `save_messages_from_langgraph_state`, `save_partial_message` |
| browser | `composables/useAgentRunStream.js`, `utils/runStreamResume.js` | cursor, active-run snapshot in localStorage, messages on the screen | start, reconnect, stop, resume a subscription |

They interact through shared stores only: the API commits the row and then enqueues the job; the
worker writes row and stream in separate awaits; the cancel endpoint holds the row lock while it
publishes the signal; the SSE endpoint polls row and stream; the browser keeps a cursor over
connections. What is hard: every await of the worker is a point where a cancel, ARQ's timeout, an
exception or a crash can fall; a job is tried again; row, signal and stream are never written
atomically; connections break with frames in flight. The runs of one thread may overlap: they read and write one
checkpoint, and each copies from it into the tables whatever is not there yet, message by message.

Correct means: a terminal status is final; what clients are told (an end event, an end frame, "no
active run") agrees with the row; events arrive complete, once and in order; a cancel ends a run and
is not forgotten; a request that is repeated creates one run; runs end and watchers learn of it; what a run
produced is stored, once, before the question that follows it; a question is answered once.

### 1.2 Background tasks

`services/task_service.py` (`Tasker`), `repositories/task_repository.py`, and its callers, of which
`routers/knowledge_router.py` passes most tasks. State: `_tasks`, `_continuation_factories`, a queue,
two workers, one `asyncio.Lock`, and the table `tasks`. Operations: `enqueue_unique`,
`enqueue_unique_by_payload`, `continue_task`, `cancel_task`, `delete_task`, the worker loop with a
hard timeout per task type, `shutdown`, `start` with `_load_state`.

What is hard: tasks of one resource must not overlap, and calls race with workers, timeouts,
continuations and restarts; the cancel flag is read twice, outside the lock; the memory is the truth
and the table follows it, by writes that may fail; `shutdown` waits for workers while it holds the
lock; the process may die between any two steps.

Correct means: one coroutine per resource; every accepted task is in somebody's hands until it ends;
a cancel that came in time is not answered with success; what the table says of a finished task
stays; tasks end; a shutdown returns.

### 1.3 Knowledge base files and their graph

`knowledge/base.py` and `knowledge/implementations/milvus.py` keep one record per file in memory
(`files_meta`), its row in `knowledge_files`, its Markdown in MinIO, its chunks in PostgreSQL and in
Milvus; `knowledge/graphs/milvus_graph_service.py` moves chunks into Neo4j and marks them. State
besides the stores: the set of files in process, and one `_metadata_lock`. Operations: add, parse,
`update_file_params`, index (clean up, insert in batches, roll back), delete, the repair that every listing
runs, and the build and reset of the graph. `routers/knowledge_router.py` submits them as background
tasks, one of each type and file at a time, and deletes in the request.

What is hard: the status in memory is the only thing that keeps two operations apart; it is written to
the row by an await whose values were read before it; five stores are changed one after the other,
several failures are only logged, a cancelled task leaves a Milvus call running in a thread; listings
change statuses of files they believe interrupted; build and reset work on the same chunks.

Correct means: a row that says indexed has all its chunks in both stores; no chunk is twice in Milvus;
one coroutine works on a file; the set of files in process is left on every path; a deleted file leaves
nothing and does not come back; the marks of the chunks say what is in the graph; a build tries every chunk.

### 1.4 Sandboxes

`agents/backends/sandbox/provider.py` runs in the API and in the worker process, each with connections
per key, a lock per key and a global one; `src/docker/sandbox_provisioner/app.py` starts and deletes
containers, under one lock, and reaps those nobody touched for a while. They speak HTTP.

What is hard: a connection is used without asking for a keep-alive interval; two processes share one
sandbox and neither tells the other what it deletes; the reaper collects, deletes and forgets without a
lock in between; requests outlive the client that made them; each process may restart alone.

Correct means: the sandbox of a running command is not reaped; a command finds its container; no
container is left running that nobody will ever delete.

### 1.5 The other parts

| Part | State | Why it is not modelled |
|---|---|---|
| knowledge migration, evaluation, MCP cache, attachments | jobs over rows and files | sequential jobs inside one Tasker coroutine or one request; later candidates |
| authentication, departments, providers, skills, viewer files | rows and files | request-local, one transaction or file operation per request |
| parsers, chunking, spatial layers | documents, geometry | algorithms over data a model checker cannot enumerate |
| storage managers, dashboards, web UI, packaging | connections, presentation | no state machine of their own |

`PROJECT.json` lists every component with its status, and the hazards that matter most, at their lines, with the
properties that watch them, or the reason why none does.

## 2. Modules

| Module | Models | Composes |
|---|---|---|
| `RunRow` | status column of a run and the three writes to it, as operators | |
| `RunStatus` | abstract: the life of a run's status that clients may rely on | `RunRow` |
| `RunWorker` | one run: worker coroutine, chunk writer, cancel key, stream, ARQ job, cancel endpoint | `RunRow`; refines `RunStatus` |
| `RunWorkerProofs` | theorems about `RunWorker` | `RunWorker` |
| `RunSse` | SSE endpoint and watching browser; reads row and stream | `RunRow` |
| `AgentRun` | `RunWorker` beside `RunSse` | both |
| `AgentRunProofs` | theorems about `AgentRun` | `AgentRun`, `RunWorkerProofs` |
| `RunCreation` | overlapping calls of the create endpoint for one thread, and the active run of a thread | `RunRow` |
| `RunCreationProofs` | theorems about `RunCreation` | `RunCreation` |
| `SubagentRun` | one tool call of a subagent, through the attempts of its parent | `RunWorker`; refines `RunStatus` |
| `SubagentRunProofs` | theorems about `SubagentRun` | `SubagentRun`, `RunWorkerProofs` |
| `ChatThread` | the runs of one thread: checkpoint, questions and answers, what is saved and when | |
| `ChatThreadProofs` | theorems about `ChatThread` | `ChatThread` |
| `Tasker` | the executor, its endpoints, its table and its process | |
| `TaskerProofs` | theorems about `Tasker` | `Tasker` |
| `KnowledgeFile` | the operations on one file, over its stores | |
| `GraphBuild` | build and reset of the graph, over the chunks | |
| `KnowledgeBase` | both in one process | `KnowledgeFile`, `GraphBuild` |
| `KnowledgeBaseProofs` | theorems about `KnowledgeBase` | `KnowledgeBase` |
| `Sandbox` | one sandbox id: provisioner, reaper, and the processes that use it | |
| `SandboxProofs` | theorems about `Sandbox` | `Sandbox` |
| `MCRunCreation`, `MCTasker`, `MCChatThread` | instances for TLC | |

### RunWorker

A step is the code between two awaits on the database, on Redis or on the agent's stream. `pc` is
the place in `process_agent_run`, `mode` the block it is in: `setup` before the try block, `loop` and
`drain` in it (reading chunks; after the last one), one of three except blocks, and `escaped` or
`dropped` when an except block raised or was itself cancelled and only `finally` is left. `Handle(m)` is what every `except` does first: flush
the buffers.

* `PickUp`, `LoadRun`, `SkipTerminal`, `StartRunning`, `WriteMetadata`: lines 276-338.
* `TakeChunk`, `Flush`, `EmitChunk`, `PeekCancelRequest`, `CommitTerminal`, `AppendEnd`,
  `CheckCancelled`, `StreamStops`: the loop of lines 340-427. `ChunkedEventWriter.append` flushes one
  thread at its own thresholds of count and time; the model lets it flush at any loading chunk.
* `NoticeCancel`, `WatchCancel`: `_consume_stream_with_cancel` races the agent's next chunk with
  `cancel_event`, which the watcher task sets.
* `Report`, `CloseContext`, `ClearSignal`: the except blocks and `finally` (429-499).
* `CancelLock`, `CancelSignal`, `CancelCommit`: the cancel endpoint, which signals before it commits
  and holds the row lock from its first write to its commit.

Faults are named kinds, and a run chooses which may strike. A step that writes is followed by a place
of its own where a fault may strike, which stands for the write that took effect while its caller saw
an exception; a flush whose reply is lost leaves its buffer, so `FlushReplyLost` is an action.

The agent's stream is an input: `StreamYields` says in which order `stream_agent_chat` and
`stream_agent_resume` yield chunks. A chunk is a number, a kind and the thread it belongs to (the run's
own, or a subagent's). Texts, usage data and formats are left out.

ARQ is external. It runs a job again when the job raised ARQ's own `Retry`, was cancelled, or when its worker
died; a plain exception, which `RetryableRunError` is, ends the job. `RetryOnRaise` tells the two
readings apart: FALSE is what ARQ does, TRUE what the worker's docstring expects. The safety runs
take TRUE, because every behaviour of FALSE but the extra attempts is then included: attempts
after an error are where an end event or a status could be contradicted. Liveness runs take FALSE.

### RunSse and AgentRun

The endpoint's places are `row` (about to read the row), `list` (about to read a batch) and `poll`.
`ListEvents` is one batch with its frames and the decision to close. The browser reads frame
by frame; `Stale`, `Closes` and `ResumeAfterSeq` are its decisions. `away` covers both opening another
thread (the screen survives) and reloading the page (it does not; the cursor in localStorage does).
`RunSse` has no writer of its own: in `AgentRun` the row and the stream are `RunWorker`'s, and neither
side waits for the other, so the composition is an interleaving of the two next-state relations. Of the events the endpoint leaves out of
its frames (`Kept`) only `metadata` has a type of its own here; an empty agent state, which it leaves out, too, would be passed over in the same way.

### RunCreation

`check`, `insert`, `commit`, `enqueue` are the transactions of `create_agent_run_view`. The unique index on
`request_id` is `Conflicts`: an insert waits for an uncommitted row of the same id and fails on a
committed one. A call may fail at every await. The worker and the cancel endpoint are the writes of
`RunRow`, because all this module asks of them is the row's status.

### SubagentRun

The tool call lives inside the agent's stream, which the parent's worker consumes: it starts while a
chunk is awaited (`CallTask`), and the agent does not close its stream before it is over (`AgentAfterCall`).
`create`, `prepare`, `invoke` and `settle` are the awaits of `atask`. Only `invoke` is inside its try block, so a
cancel that falls elsewhere abandons the row (`Abandon`, which records how in `lost`). A cancel reaches the call
through `_consume_stream_with_cancel` (`Stopped`), through another task of the agent's graph that raises, or with
the process. A later attempt makes the same call again, with the same request id, and finds the row.
Bounds: one tool call per run; `MaxSlips` failures of the call's own awaits.

### ChatThread

One thread and the runs created for it; `at` is where the stream of a run is: in the graph (`model`, `tool`), at the interrupt
check (`check`), in `save_messages_from_langgraph_state` (`read`, `ids`, `store`, `call`), or in one of the handlers. A message is a role, an
id (its run and a number) and the call it makes: none, a tool's, or `ask_user_question`'s.

* `Create`: `create_agent_run_view`, which stores the user's message with the run. Every call of it is accepted, a second
  resume of one question included; the checks that refuse calls are in `RunCreation`.
* `Begin`, `ModelCalls`, `ToolRuns`, `ToolAsks`: the graph, as the stream loop sees it. `Refused`, `Blocked`, `GraphFails`: a question or an output
  the content guard stops, an error, a lost connection.
* `CheckInterrupts`: a pending question is told at once, whoever asked it; an error is only logged.
* `ReadMessages`, `ReadIds`, `SaveAiMessage`, `AddToolCall`, `SaveToolMessage`, `SaveFails`, `Finish`: the save. A message, its tool call and
  its output are commits of their own; a stored message is passed over, with its calls, while outputs are always written again.
* `Cut`, `CutAgain`, `Abandon`: a cancel while a step is awaited, while a handler is, and between two chunks, where the generator
  is dropped and stores nothing. `SavePartial` is `save_partial_message`, which swallows its own failures. `Die` and `Requeue` are the
  process and ARQ.

LangGraph is external, and three things are taken of it: a step hands the next one the messages it was given with its own added, and
writes all of them, so that of two runs in the graph the last write wins; a resume goes on where the checkpoint is; a
new user message after a call without a result gets that result from `PatchToolCallsMiddleware`, so that the question is dropped.
History variables: `ran` (who answered what), `met` (who was in the graph with whom), `calm` (created when all before had settled), `torn`
(calls and outputs lost between two commits). Bounds: runs, model calls of a run, streams at once, faults; several tool calls of
one message, summaries and subagents' messages are left out.

### Tasker

What runs under `Tasker._lock` is one step, the row it persists included, since nobody else can look
in between; a failing write keeps the change in memory, as the code does. The lock is state only in
`shutdown`, where its holder waits for others (`process = "stopping"`). A worker's `place` is where
it is in `_worker_loop`; `success`, `cancelled`, `aborted`, `failed`, `timeout` are the outcomes it is
about to record, `cancelled` the one raised inside the try block, `aborted` in the except block: they
differ in what a failing write leads to. `stuck` is a coroutine that was cancelled and waits for the
lock to report it (`run_ingest` does, `Tidy`). `continue_task` writes two rows; that the process dies between them is not a step of its
own: the row left, of the old task, is that of a second write that fails, which is one, and no definition reads what it changed. A progress report writes the whole row, which
matters after a write that failed; what it reports is left out.

### KnowledgeFile, GraphBuild and KnowledgeBase

An action ends at an await. `op[o].pc` is where coroutine `o` is (`ingest`, `parse`, `index`: background tasks;
`delete`: a request), `snap` what `_persist_file` read before its await, `todo` the writes of a batch that are
still out, since both go out at once and land in either order. `Persist` is the write of the row and what its caller
does next; `PersistFails` is the same write failing, in each of the places it is called from. A cancel
(`Cancel`) is the Tasker's hard timeout: no handler catches it, `finally` leaves the set of files in process,
and a Milvus call in a thread goes on and lands later (`StrayCall`). `Restart` keeps the row and nothing else of the file's record.

`GraphBuild` has one worker: the write lock of `build_pending_chunks` makes several take turns. A build
reads the first pending chunks, extracts, writes Neo4j, writes the references (whose foreign key asks for the chunk),
and marks. A reset is its two writes of what has state here, nodes and marks; what it removes
between them (vectors and references of the graph) and after them (the configuration) is folded into them: where it fails there, it leaves
what a failure before or after them leaves.

The stores are changed without a transaction around them, so most of what one would like to say of them is false
after some overlap or failure. The model has those steps; `harm` and `crossed` record that one of them
has happened, under a name, and a property says which of them it excludes: its conditions are the
complete list of what breaks it, and TLC checks that nothing else does. The names are listed under the
divergences. Bounds: one file; one coroutine of each kind; one stray Milvus call at a time;
`MaxStarts`, `MaxGraph`, `MaxFaults`.

### Sandbox

Time passes in ticks, in units that make the keep-alive interval, the command timeout and the idle timeout small numbers;
`left` is what remains of the HTTP timeout of a command or of a response on its way. There are two clocks on the two sides of an HTTP call:
`idle`, the age of the reaper's entry, starts when the provisioner serves a touch or a create (`app.py:1000`, `1034`), and `since`, the age of the
process's last touch, when the response has arrived (`provider.py:124`, `139`). So `Touch` and `Answer` end at the places `touched` and `created`,
where time may pass up to `Latency` (the client's timeout, `provisioner_client.py:16`), and `TouchReturns` and `Connect` are the arrival.
A container is the number of its launch, so that a cached URL that leads to an older one can be told from the current one.
`Get` is `ProvisionerSandboxProvider.get`; `Discover`, `Touch`, `Ask`, `Create`, `Ready`, `Answer` are the requests it makes and how the
provisioner serves them; `Collect`, `ReapDelete`, `ReapForget` are the reaper's three separate steps; `Shutdown`, `ReleaseDelete`,
`ReleaseForget` the API's. `harm` is used as above. Bounds: one sandbox id, one command call and one create request per process at a
time, the Docker backend with a positive idle timeout (zero turns the reaper off) and a positive keep-alive interval (zero or less means
"never touch", `provider.py:128`, and no sandbox in use is protected then).

Simplified: the timeouts of httpx, which it applies to each phase of a call, are taken for the whole call, of a command and of a response; a
command starts when its URL is looked up; a touch whose client gave up before it was served is not served later, which would only make the
reaper's entry younger. The flags in `harm` are permanent: what is claimed "until" an event is not claimed again after it.

## 3. Runs

All runs of run, task and knowledge base modules set `CHECK_DEADLOCK FALSE`: a run ends, calls are answered, and
the bounded counters are used up, so that behaviours rightly come to an end. `Sandbox` checks deadlock: its clock never
stops unless a command has no time left, and then the command ends. Numbers are distinct states.

| Run | Bounds | What it shows |
|---|---|---|
| `RunWorkerSafety` | 2 tries, 3 chunks before the closing one, 1 cancel, 2 faults of any kind (2.6 M) | `EndOnlyOfTerminal`, `FirstEndTruthful`, `NothingOvertaken`, `LifecycleSpec` (refinement of `RunStatus`) |
| `SubagentRun` | 3 tries, 2 chunks, 1 cancel, 2 crashes, timeouts or failures of the cancel endpoint, 1 failure of the tool call (1.3 M) | `EarlyCancelHonoured`, `InvokedOnce`, `ActiveChildIsCalled`, `ChildLifecycle` (refinement of `RunStatus`), `CancelEndsRun`, `CancelStopsSubagent`, `RunEnds` |
| `AgentRun` | 2 tries, 2 chunks, batches of 2, one crash or raise, one break of network, age limit, server or leaving (801 k) | `EndIsComplete`, `ScreenMatchesCursor`, `NeverAbandoned`, `WatcherLearns` |
| `RunCreationSafety` | 5 calls: a chat request sent twice, another, a resume sent twice (752 k) | `SameAnswer`, `QueuedRunsAreCommitted`, `AnsweredInterruptHidden` |
| `ChatThread` | 2 runs that may each call the asking tool once, with one complication: they call another tool, or 1 cancel, failure or death, or a third run, a resume (1.6 M) | `StoredOnce`, `AnsweredOnce`, `QuestionsFollowAnswers`, `SettledIsStored` |
| `Tasker` | 2 tasks, 2 resources, 2 workers, a delete, a failing write, a stop (549 k) | `OverlapOnlyByDelete`, `ActiveTaskIsHeld`, `CancelBeatsSuccess`, `OutcomeStays`, `TaskEnds`, `ShutdownReturns` |
| `KnowledgeBase` | 2 chunks in 2 batches, 2 operations on the file, 1 build or reset, 1 failing call, timeout or restart (1.8 M) | `RowIndexedIsSearchable`, `VectorsOnce`, `OneAtATime`, `SetIsLeft`, `GraphMatchesMarks`, `DeletedLeavesNothing`, `OnlyUnlockedRevives`, `BuildLeavesOnlyFailures` |
| `Sandbox` | 2 processes, 3 commands, 2 failures, restarts or shutdowns; keep-alive interval and command timeout of 2 ticks, responses of at most 1, a margin of 3 (1.26 M) | `RunningIsNotExpired`, `UntrackedIsExplained`, `CommandFindsSandbox`, `AbandonedIsReaped` |

Why these bounds are enough to mean something:

* Two tries are the least that let one attempt contradict another; two faults let one strike while
  the first is being handled, which is how an except block is left through `finally`. Three chunks
  of two threads are the least in which a chunk can overtake another of its thread while the other
  thread's buffer is written.
* In `SubagentRun` three tries with two faults leave one attempt undisturbed, which is what "the
  run ends" may assume: each crash uses up one try. A later attempt makes the tool call again.
* A batch of two is shorter than the stream, so that rows and batches are read out of step, and a resumed
  connection reads from the middle of it.
* Two tasks may have one resource or two; one may be the other's continuation, wait for a worker while the
  other hangs, or be deleted while it runs.
* `KnowledgeBase`: the initial states include an indexed file, with and without Markdown and graph, so that two operations
  reach "index again while a build holds a chunk", "delete while indexing" and "parse ends while an index starts". Two
  chunks in batches of one are the least in which a roll-back removes an earlier batch and a failed chunk hides another from the build.
* `Sandbox`: with a keep-alive interval of two ticks and responses of one a command may start two ticks after the touch that protects it
  was served, which is the case the margin is for; three commands in two processes let one process hold a URL while the other has the container replaced.
* `ChatThread`: two runs are the least that can save at the same time, or ask and be overtaken; a third is needed for two resumes
  of one question. `MCChatThread` lets one complication happen at a time (`OneComplication`): together they are too many states. Two streams
  at once: a third adds no pair. A second cancel (`CutAgain`) and a failing partial write cost no fault.
* `TaskerDelete` uses permutations of tasks and workers, which is sound: no definition tells two of
  them apart (the one `CHOOSE` picks a resource). No run with a temporal property uses symmetry.

The type invariants of all these modules (`TypeOK`, and `WatchTypeOK` of `AgentRun`) are proved, for every value of the constants, and not
run again.

Each passing property is broken by a mutant, an operator that stands next to the one it
changes, named after it and commented `Mutant:`; `PROJECT.json` lists them.

### What the less obvious properties say

* `FirstEndTruthful`: clients stop at the first end event, so that event must carry the row's
  status. It does, except after an attempt that was hit *between its commit and its end event*: its handler
  then reports an error or an interrupt and announces the status it failed to store.
  The property says exactly this; `marked` is where the stream was when the row was settled.
* `EarlyCancelHonoured`: `mark_running` overwrites `cancel_requested` when an attempt starts, so from
  then on a cancel lives in the Redis key alone. The property says that the key is enough, across
  crashes and timeouts.
* `EndIsComplete`: the endpoint reads the row before the stream, so a terminal row and then an empty
  batch mean that everything was sent. In the other order it would be false.
* `ActiveTaskIsHeld` is claimed until a write to the table fails; see the divergences.
* `OverlapOnlyByDelete`: the claim of `TaskerDelete` as far as it is true: two coroutines of one resource only if one of
  them belongs to a task that was deleted while it ran.
* `RunningIsNotExpired`: a command touches nothing while it runs and may start up to a keep-alive interval after the response to the last
  touch, which was served up to `Latency` earlier. `SafeSettings` is the condition on the five settings under which that is harmless; it is
  proved sufficient for every value of them. The provisioner's own default meets it: 600 seconds against 180, 30 and 20. What
  `docker-compose.yml` sets does not: 120 seconds, raised to 210; see the divergences.
* `TypeOK` of `KnowledgeBase` and of `Sandbox` end with a conjunct about their locks: a holder of the metadata lock is at a write that
  releases it, so nobody waits for ever; and one container starts at a time.
* `StoredOnce`: no constraint of the table keeps an AI message from being stored twice, only the ids read before the loop. The property says
  that two runs must have saved at the same time for it, and that the second had read the ids before the first stored the message.
* `AnsweredOnce`: nothing refuses a second resume of a question. It is harmless, because a resume finds the checkpoint
  moved on and has nothing to answer, unless the two are in the graph at once.
* `QuestionsFollowAnswers`: messages are shown in the order of `created_at`, and a run that asks saves after it was interrupted in the row: the
  next question may be created before. It is claimed for questions created when every earlier run had settled.
* `SettledIsStored`: every message a run read from the checkpoint is stored when it settles, its own or another's, but for calls and outputs in
  `torn`; and all messages of its own, unless another run was in the graph beside it.
* `BuildLeavesOnlyFailures` says how far a build may be trusted: if as many chunks fail as it reads at a time, it ends with the rest untried.
* `CancelBeatsSuccess`: about cancels accepted before the worker's last look at the flag. A later one
  is accepted, too, and the task succeeds.

## 4. Fairness

* `RunWorker!FairSpec`, and `SubagentRun!TreeSpec` with the same: weak fairness of `PickUp` (ARQ polls), `WorkerStep` and `WatchCancel` (the event
  loop runs what is ready), and of the cancel endpoint once it holds the row lock. None of the agent: a model or a tool
  may hang, and `CancelEndsRun` holds all the same. `RunEnds` states the agent's answer as
  its premise, and `RetryFollows` is checked under it (`AnsweringSpec`).
* `TreeSpec` adds the coroutine of the tool call, which runs as the others do. The subagent may never answer (`CancelStopsSubagent` holds all the
  same); `RunEnds` has its answer, like the agent's, as a premise.
* `Sandbox!Spec`: clocks advance, the reaper's thread runs, the provisioner serves what it was asked, and a client goes on when
  it was answered. Nothing makes a process run commands, and no failure is required to stop but by its bound: `AbandonedIsReaped`
  says that once the commands are used up the container goes.
* `ChatThread` has none either: that a stream ends is `RunWorker`'s matter.
* `KnowledgeBase` has no fairness: nothing there retries by itself, a file stays as it is until somebody asks again.
* `WatchingSpec`: the endpoint polls and the browser handles what it has. Nothing is asked of the worker or of the user,
  who may stay away.
* `Tasker!FairSpec`: a worker goes on when it can, timers fire, a shutdown whose workers have ended
  returns, a dead process is started again by its container's restart policy. Nothing is assumed of the coroutines.
  No task is promised a free worker but by the hard timeouts.

## 5. Proofs

Eight modules prove theorems with TLAPS, from the named assumptions of the modules alone: natural bounds, at least one try, a
finite set of calls, at least one resource, positive intervals. So they hold for any number of faults, calls, processes, chunks, commands and
attempts, where the runs check two or three. Every inductive invariant was checked by TLC, on the bounds of its run or smaller ones, before it
was proved. Every safety property of a passing run, invariant or action property, has a theorem; what is left to TLC is liveness.

**`RunWorkerProofs`**

* `TypeCorrect`: `Spec => []TypeOK`. One step per action; the events of each step are shown well typed by `WriteType`.
* `EndSeenOfTerminal`: `Spec => []EndOnlyOfTerminal`. The property is not inductive: that an
  end event follows a commit depends on where the worker is. The invariant is
  `RowInv == PlaceInv /\ EndOnlyOfTerminal`, where `PlaceInv` collects what the places mean:
  at `end` the row is terminal (`EndAfterCommit`); a worker past `mark` has a row that is no longer
  `pending` (`StartedOnce`); before the try block the only status it commits is `failed`
  (`SetupOnlyFails`, `SetupPlaces`).
* `WorkerKeepsLifecycle`: `Spec => LifecycleSpec`, the refinement of `RunStatus`. The mapping is the identity on
  `status`. Only `StartRunning`, `CommitTerminal` and `CancelCommit` change it; that `CommitTerminal` is an
  abstract `Finish` or `Reject` needs `StartedOnce` and `SetupOnlyFails`.
* `FirstEndTellsStatus`: `Spec => []FirstEndTruthful`. What stands between the commit and the first end event is
  `EndInv`: no end event is older than the commit (`EndsAfterMark`), and a settled run that has announced nothing is in one of four
  situations (`EndTells`): the worker is about to announce what it committed, a handler has reported a failure (`FailureSaid`) or is about
  to, or nobody will announce anything any more.
* `ChunksInOrder`: `Spec => []NothingOvertaken`, by `OrderInv`: chunks are numbered as they are taken, buffers are in order, the chunk in hand is
  the newest, and written with its thread's buffer empty unless it is itself buffered (`InHandLast`); `Ordered` is the property with attempts not told apart. The events
  of one step are appended one by one (`AppendOrdered`), a flush whose reply was lost appends what is there already.
* `EarlyCancelKept`: `SignalKept` implies `Spec => []EarlyCancelHonoured`. The property is false where the key can be lost or
  not be read, so the hypothesis is part of the claim: no `handler`, `expiry`, `signal` or `garbled` fault, and `raise` only where ARQ does not
  run a raising job again, which is what ARQ does. What the code does in the cases it leaves out is under the divergences. `EarlyInv`
  says that a run with an early cancel is settled as cancelled or failed, or `Doomed`: the attempt at hand, or the next one, finds the key before
  it reads on.

**`SubagentRunProofs`** builds on it: a step of the tree is a step of `RunWorker` or the death of a process that no longer holds its
job (`TreeStep`). `CallInv` adds to the types that a call past its insert has a row and that nobody but the call writes it
(`RowOfCall`), and that a running row without a call was lost (`ActiveOrLost`). From it: `SubagentInvokedOnce`,
`ActiveChildExplained`, and `ChildKeepsLifecycle`, where the mapping takes "no row" to a row that was just created, so that insert and
mark, one transaction in the code, are one abstract `Start`. `EarlyCancelKeptInTree` carries `EarlyInv` over to the tree.

**`AgentRunProofs`** rests on what the worker promises, `RunInv == TypeOK /\ RowInv /\ EndInv`, which no step of the endpoint or the browser
touches, and proves `WatchInv` beside it: a frame in flight says the truth and frames are in the order of their events (`WireInv`); what was sent
and not read is in flight (`PendingInFlight`), so that a cursor never passes an event that was not shown; the screen is what is up to the cursor, or was lost with the
page (`ScreenInv`); a row seen terminal is terminal, and an end was said only when everything before the settling was sent
(`ClosingInv`). The batch is the step that takes work: its frames are the kept events in order, and an empty batch after a terminal row
means that `marked` is behind the cursor. Theorems: `WatchTypeCorrect`, `EndFrameComplete`, `ScreenIsCursor`, and the action property
`RunNotAbandoned`, which needs that an end frame is only sent of a terminal run.

**`RunCreationProofs`**: `IInv` ties places to rows (`PlaceInv`), states the unique index (`UniqueInv`: two rows of one request id are one
row), that answers and jobs name committed runs of their request (`AnswerInv`), and that a resume is younger than the run it answers
(`ParentInv`, for which the clock of `created_at` must advance with every insert: `ClockAdvances`, from the
theorems on finite sets). `OneRunPerRequest` needs the second and third, `AnsweredHidden` the last.

**`ChatThreadProofs`**: `IInv` adds to the types that a stream which looks at a message has one (`InHand`); that the AI messages of the checkpoint and of every
run's copy were made, each once in a sequence (`MessagesKnown`); that a saving run stands at a message the ids it read do not have
(`SaveSound`), and that the rows it has written since are of messages behind its position (`OwnRows`); and `AnswerInv`: runs in the graph have met; an answered question is not the
last message of the checkpoint any more; and a run that still stands at it has met whoever answered. `AnswerStoredOnce` follows from
`SaveSound` and `OwnRows`, `QuestionAnsweredOnce` from `AnswerInv`. The actions are first put into nine kinds (`StepCases`), which is what keeps the proofs short.

The two properties that relate the checkpoint to the tables need `StoreInv`, eight facts beside those: an AI message is the same wherever it is (`SameCalls`);
a stored call is recorded, torn or about to be (`CallsKept`), and an output stands behind its call (`CallsFirst`), so that the save cannot pass
an output whose call it has not stored; the save leaves nothing out behind its position (`SaveComplete`); what a run alone in the graph makes stays in the
thread (`OwnKept`); whoever wrote the checkpoint last reads it as it is (`TipRead`); runs are created in order (`CreatedInOrder`); and `CalmInv`: of a question created
after all had settled, every older message of the thread and of every later copy was stored before it. `SettledRunIsStored` is `SaveComplete` and
`OwnKept` at `done`; `QuestionsInOrder` follows from `CalmInv`, and `TipRead` is what makes a new question calm in the first place.

**`TaskerProofs`**: all five theorems follow from one invariant, `IInv`: a task is in one place, once in the queue or in one worker's hand (`HandInv`);
what its holder's place says of its status (`StatusInv`: running under a coroutine, pending before, never retryable while it is held); at
most one active task of each resource (`KeyInv`); a terminal row is the memory's last word and nobody holds its task (`RowInv`); and an accepted cancel
is still flagged or has been seen (`BeggedInv`). `StatusInv` and `KeyInv` give `OverlapExplained`: two tasks that both run are one task, which one
worker holds, unless `delete_task` took one out of the dictionary the argument is about. `RowInv` gives `OutcomeKept`: whoever writes a row holds its task, or finds
it retryable and leaves it so. `ActiveHeld` is inductive beside them, because every write that fails is counted. The steps of the worker are two
lemmas, one for a report after which it drops its task (`DropStep`), one for a report after which it keeps it (`KeepStep`).

**`KnowledgeBaseProofs`**: `KbInv == DataTypeOK /\ ControlInv`, and `ControlInv` is five facts: each coroutine is at one of its own places
(`OpTypeOK`); the metadata lock is held by whoever is at one of its writes and by nobody else (`LockInv`); a file in the set is
worked on inside a try block (`SetInv`); a row deleted means a record dropped, and a write under the lock is one of a file that is there
(`DropInv`); the status says what the one coroutine at work does, until a listing or a late failure overwrites it (`StageInv`). Most steps only
move one coroutine between places of the same kind; `InnerKept` does those at once. Theorems: `TypeCorrect` (with the lock),
`ProcessingSetLeft`, `OneWorker`, and the action property `IndexingNeverRevives`.

`StoresInv` says what the five stores hold at each place, relative to `KbInv`; each of its parts holds until one of the named events, like the
property it is for:

* `ClearedInv` and `VectorsInv`: an indexing inserts a chunk only where none is; what a coroutine has yet to write of its batch and of the later ones is `Due`. It gives `OneCopyOfEachChunk`.
* `SearchInv`: row or record says indexed only when every chunk is in both stores, because an indexing first takes both statuses away
  and then touches a chunk; an insertion without a failure has stored whatever is not `Due`. It gives `IndexedIsSearchable`.
* `RemovedInv`: a delete beside which nothing indexes has removed the chunks before the record and the row; with `MarksInv` it gives
  `DeleteIsComplete`.
* `MarksInv`: as long as files, build and reset keep apart, a chunk's mark is what the graph has, but for the chunk being built and for what is
  being removed. It gives `MarksTellGraph`.
* `BuildInv`: the chunk in the worker's hand is none it has set aside. `BuildTriesAll` needs besides that a batch that leaves a pending chunk
  out is full: `BatchIsFirst`, by the least such chunk, from the library's theorem that the finite subsets are well founded.

**`SandboxProofs`**: `RunningSandboxKept` rests on `TimeInv`, three facts about the two clocks: while a process may use its URL without asking,
the reaper's entry is at most `Latency` older than the touch that process remembers (`TouchedSince`: `idle <= since + Latency`); while a response is on
its way, the entry is no older than the time it has taken (`InFlight`: `idle + left <= Latency`), which is what makes the first true when it arrives; and while
a command runs, `idle + left <= KeepAlive - 1 + Latency + ExecTimeout` (`StartedInTime`). `SafeSettings` puts the idle timeout above that
sum. `UntrackedExplained` needs that no other container runs while one is being started (`OnlyTheStarted`), which is
what the provisioner's lock is for. `CommandReachesSandbox`, an action property, rests on `FindInv`: a kept URL leads to the container that runs, if any does,
and one does while the URL may be used without asking (`KeptUrl`); so does the URL of a call on its way (`FoundUrl`) and of a
request about to be answered (`MadeUrl`). The reaper cannot break it unseen, because `TouchedSince` and `InFlight` keep `idle` below the keep-alive interval
and a response's time while a URL is fresh or on its way. Looking for this invariant found two things the run had not shown. First, `late` has to be recorded also when the entry that was
touched has been forgotten meanwhile, by a shutdown that deletes while the reaper is about to: this takes four commands, one more than
the run has. Second, with an idle timeout below that sum a fresh URL may lead nowhere; hence `KeepAlive + Latency <= IdleTimeout` in the property.

Only model-checked, because liveness under fairness is out of the prover's reach: `CancelEndsRun`, `CancelStopsSubagent`, `RunEnds`, `WatcherLearns`,
`TaskEnds`, `ShutdownReturns`, `AbandonedIsReaped`. So are the four claims that do not hold, which are not theorems.

## 6. Divergences

Shown by a run that TLC ends with a counterexample:

* `RunWorkerRetry` / `RetryFollows`: `RetryableRunError` is documented to trigger ARQ's retry
  (`run_worker.py:34`). ARQ does not retry a plain exception: the attempt says "retryable" in the stream,
  the job ends, and the row stays `running`.
* `AgentRunServerError` / `ReconnectsAfterUnavailable`: the frame that asks the browser to
  reconnect (`agent_run_service.py:423`) lacks `retryable`, and the browser finalizes the run.
* `RunCreationSerial` / `NewestRunIsThreadState`: "runs in a thread are serial"
  (`agent_run_service.py:502`), but nothing makes them so, and an active run can be reported as none.
* `TaskerDelete` / `OneCoroutinePerKey`: tasks are unique per resource (`changelog.md:25`) until a running
  one is deleted: its coroutine goes on and a second one starts.

Met while modelling, present in the model, and not given a run of their own:

* An idle timeout of a sandbox not above the command timeout is raised by 30 seconds "so that running tasks are not reaped by mistake"
  (`docs/agents/sandbox-architecture.md:59`, `app.py:881`), and the shipped 120 seconds against 180 are raised so. That leaves room for the keep-alive
  interval of 30 and none for the response to the last touch: the client's clock starts when it has arrived, up to 20 seconds after the
  reaper's, a command may start 30 seconds after that and run for 180, and the reaper expires its sandbox at 210. TLC shows it when
  `NoneExpires`, which is `RunningIsNotExpired` without `SafeSettings`, is checked with one process, `KeepAlive` and `Margin` 3,
  `Latency`, `ExecTimeout` and `Configured` 2, two commands and no faults.
* An idle timeout above the command timeout (`app.py:878`) and below the sum of command timeout, keep-alive interval and a response's time is left
  as it is, and a command that starts late in the interval is reaped: the same with `Configured` 3. `RunningIsNotExpired` assumes `SafeSettings` for both.
* "Save to the database first, then return finished" (`chat_service.py:1166`): of two overlapping runs of a thread the later write of the checkpoint
  drops the other's messages, and that run says `finished` with its answer nowhere. Hence `met` in `SettledIsStored`.
* Two runs that save at the same time store messages twice; one that saves while another is between a message and its tool call drops the
  call's output, and a cut there loses the call itself: the message is stored and not looked at again (`torn`).
* A question that has been told interrupts the run before its messages are stored (`chat_service.py:1149`): a cancel or a crash in between leaves
  them to the next run of the thread, which saves them after its own question.
* A chat that is cut stores what was streamed as a partial message; if the graph had written the whole message, the next run stores that as
  well. A stream that is dropped between two chunks (`run_worker.py:420`) stores nothing.
* A task whose first row could not be written stays `pending` in memory and in nobody's queue; later calls for
  its resource are answered that it is queued (`task_service.py:264`). Hence `fails = 0` in `ActiveTaskIsHeld`.
* `DEFAULT_TASK_TYPE_TIMEOUTS` (`task_service.py:20`) names types no caller uses; the types they do use
  (`knowledge_graph_index`, `knowledge_base_portable_export`, `rag_evaluation`) have no hard timeout.
  `TaskEnds` and `ShutdownReturns` need `Timed = Keys`.
* `continue_task` tests the status and not `continuation_available` (`task_service.py:334`): a failed task can be
  continued again after its continuation has ended.
* A task that timed out before a restart is still offered for continuation although its closure is gone:
  `_load_state` withdraws the offer only from tasks it cuts off (`task_service.py:663`).
* A user's cancel and ARQ's job timeout are the same exception: a run that timed out is stored as cancelled.
* A failing attempt clears the cancel key (`run_worker.py:499`): where the job runs again, a cancel that arrived during
  it is lost. A worker that shuts down while the cancel is being handled does the same: the except block is
  cancelled, `finally` deletes the key, and ARQ runs the job again. `SubagentRun` therefore has neither `raise` nor
  `handler` among its faults.
* A subagent's row that was lost (`lost` in `SubagentRun`: the process died, or a cancel or failure fell outside the try block at
  `subagent_task.py:426`) stays `running`, and the same call made again is answered "already exists, not submitted again"
  (`subagent_task.py:142`).
* A parse announces its end and awaits the write (`base.py:369`): an index that starts in between is overwritten in the row (`stale`).
  The same write brings back the row of a file deleted meanwhile; `update_file_params` does so, too.
* A listing between `base.py:328` and 331 takes a file that starts to be parsed for interrupted and frees it (`early`); an index that fails
  late writes its status over that of another coroutine (`milvus.py:764`, `overwrite`).
* A delete and an index of one file do not look for each other (`raced`): vectors stay behind. A delete removes the chunks before the
  record (`delete`): when it fails or the process dies in between, the row says indexed and nothing is found.
* A failing delete in Milvus is only logged (`milvus.py:1305`, `vector`), a call of a task that timed out lands later (`late`).
* The graph: chunks replaced under a build (`replaced`), marked chunks removed by a roll-back, which leaves their nodes (`bare`), nodes written
  and not marked, which no delete removes (`unmarked`), a reset beside a build (`reset`) or half done (`half`).
* Sandboxes: the reaper forgets a container launched since it deleted the one before (`forgot`), or deletes one touched meanwhile (`late`), also when a shutdown has removed its entry in between; a
  container that is not ready in time is left to nobody (`unready`), as are all of them when the listing at start-up fails (`unseeded`); a process
  keeps the URL of a container that another process's create replaced, and its touch, answered by the new one, does
  not tell it (`moved`); a shutdown deletes sandboxes other processes use (`released`).

## 7. Not modelled, and what could come next

Done: the run with its subagents and its watchers, the creation of runs, the thread they share, the executor, the files of a knowledge base with
their graph, and the sandboxes. Most of the remaining code is requests that read and write a few rows in one transaction,
file system work, parsers, text and geometry algorithms, adapters of external services, and presentation; a model of it would repeat
it. What would still be worth a model:

1. `ChatThread` beside `RunCreation` and `RunWorker`: the calls that are refused, and a run whose row is settled while its stream still saves.
2. Several files of one knowledge base in one ingest task, and two build workers.
3. Two API processes on one knowledge base: each has its own `files_meta` and set of files in process.
4. The import of a portable knowledge base (`knowledge/migration/importer.py`), whose compensation undoes its steps one by one.
5. Proofs: an abstract specification of a file (absent, stored, searchable) that `KnowledgeBase` implements while nothing overlaps, from `StoresInv`;
   and one of a task's life for `Tasker`, from `RowInv` and `StatusInv`.
