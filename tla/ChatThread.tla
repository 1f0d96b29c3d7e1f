----------------------------- MODULE ChatThread -----------------------------
(***************************************************************************)
(* One conversation thread: the LangGraph checkpoint that its chat and     *)
(* resume runs extend, and the messages and tool calls that each run       *)
(* copies from it into the database.  Runs of a thread may overlap; a run  *)
(* works on the messages it began with, and the last write of the          *)
(* checkpoint wins.                                                        *)
(***************************************************************************)
EXTENDS Integers, Sequences, SequencesExt, FiniteSets

CONSTANTS
    MaxRuns,        \* runs created for the thread
    Calls,          \* the calls a model makes: a tool, or one that asks the user
    MaxCalls,       \* model calls of one run that may call a tool
    MaxJobs,        \* streams in progress at once
    MaxFaults       \* cancels, failures and deaths

ASSUME ChatThreadAssumption ==
    /\ Calls \subseteq {"tool", "ask"}
    /\ MaxRuns \in Nat /\ MaxCalls \in Nat /\ MaxJobs \in Nat /\ MaxFaults \in Nat

Runs == 1 .. MaxRuns

VARIABLES
    msgs,       \* the messages of the newest checkpoint
    asked,      \* AI messages whose tool call was interrupted by a question
    rows,       \* table messages, in the order of created_at
    recorded,   \* AI messages whose tool call has a row
    outputs,    \* those whose row has an output
    kind,       \* run -> chat or resume
    at,         \* run -> where its stream is
    held,       \* run -> the messages it works on: its graph's, then those it saves
    resumes,    \* run -> the AI message whose question it answers
    made,       \* run -> AI messages it has produced
    pos,        \* run -> its position in held while it saves
    from,       \* run -> length of rows when it read the stored ids
    told,       \* run -> what its chunks have said
    faults,     \* what is left of MaxFaults
    ran,        \* history: <<run, AI message>>: the run answered its question
    met,        \* history: pairs of runs that were in the graph together
    calm,       \* history: runs created when every earlier one had settled
    torn        \* history: AI messages whose call or output was dropped

thread == <<msgs, asked>>
tables == <<rows, recorded, outputs>>
local  == <<kind, held, resumes, made, pos, from>>
past   == <<ran, met, calm, torn>>
vars   == <<thread, tables, local, at, told, faults, past>>

NoId == <<0, 0>>
Message(role, id, call) == [role |-> role, id |-> id, call |-> call]
Human(r) == Message("human", <<r, 0>>, "none")
Result(m) == Message("tool", m.id, "none")

Dangling(ms) == ms # <<>> /\ Last(ms).call # "none"
Pending(ms) == Dangling(ms) /\ Last(ms).id \in asked

\* PatchToolCallsMiddleware answers a call left without a result.
Patched(ms) == IF Dangling(ms) THEN Append(ms, Result(Last(ms))) ELSE ms

\* The graph goes on where its messages end.
NextNode(ms) == IF ms = <<>> \/ Last(ms).role = "ai"
                THEN IF Dangling(ms) THEN "tool" ELSE "check"
                ELSE "model"

Goto(r, where) == at' = [at EXCEPT ![r] = where]
Tell(r, what) == told' = [told EXCEPT ![r] = @ \union {what}]
Fault == faults > 0 /\ faults' = faults - 1

Over == {"none", "queued", "done", "ended", "dead"}
InProgress == {r \in Runs : at[r] \notin Over}

\* A coroutine that stops takes its variables along.
Stop(r, where) == /\ Goto(r, where)
                  /\ held' = [held EXCEPT ![r] = <<>>] /\ resumes' = [resumes EXCEPT ![r] = NoId]
                  /\ pos' = [pos EXCEPT ![r] = 0] /\ from' = [from EXCEPT ![r] = 0]
                  /\ UNCHANGED <<kind, made>>

InGraph == {r \in Runs : at[r] \in {"model", "tool"}}

\* A run has settled when its save is complete and it has said so.
Settled(r) == at[r] = "done" /\ "warning" \notin told[r]

Init == /\ msgs = <<>> /\ asked = {}
        /\ rows = <<>> /\ recorded = {} /\ outputs = {}
        /\ kind = [r \in Runs |-> "chat"] /\ at = [r \in Runs |-> "none"]
        /\ held = [r \in Runs |-> <<>>] /\ resumes = [r \in Runs |-> NoId]
        /\ made = [r \in Runs |-> 0] /\ pos = [r \in Runs |-> 0]
        /\ from = [r \in Runs |-> 0] /\ told = [r \in Runs |-> {}]
        /\ faults = MaxFaults
        /\ ran = {} /\ met = {} /\ calm = {} /\ torn = {}

-----------------------------------------------------------------------------
(* create_agent_run_view: the run and the user's message in one commit *)

Row(role, id, r) == [role |-> role, id |-> id, by |-> r, from |-> from[r]]

\* A run can be resumed when its row says interrupted, which the worker writes
\* when it is told of a question, or that the output was blocked.
Create(r, k) ==
    /\ at[r] = "none" /\ \A q \in 1 .. r - 1 : at[q] # "none"
    /\ k = "resume" => \E p \in 1 .. r - 1 : told[p] \intersect {"asked", "interrupted"} # {}
    /\ rows' = Append(rows, Row("user", <<r, 0>>, r))
    /\ kind' = [kind EXCEPT ![r] = k] /\ Goto(r, "queued")
    /\ calm' = IF \A q \in 1 .. r - 1 : Settled(q) THEN calm \union {r} ELSE calm
    /\ UNCHANGED <<thread, recorded, outputs, held, resumes, made, pos, from, told, faults, ran, met, torn>>

-----------------------------------------------------------------------------
(* The agent's graph *)

Extend(r, ms) == held' = [held EXCEPT ![r] = ms] /\ msgs' = ms

\* Mutant: a resume run goes back to the last question asked.
StartAtQuestion(r) ==
    LET questions == {i \in DOMAIN msgs : msgs[i].role = "ai" /\ msgs[i].id \in asked}
    IN IF kind[r] = "chat" THEN Append(Patched(msgs), Human(r))
       ELSE IF questions = {} THEN msgs
       ELSE SubSeq(msgs, 1, CHOOSE i \in questions : \A j \in questions : j <= i)

\* A chat run starts over with the user's message, which drops a question that
\* waits; a resume run goes on where the checkpoint is.
Start(r) == IF kind[r] = "chat" THEN Append(Patched(msgs), Human(r)) ELSE msgs

Begin(r) ==
    /\ at[r] = "queued" /\ Cardinality(InProgress) < MaxJobs
    /\ Extend(r, Start(r)) /\ Goto(r, NextNode(Start(r)))
    /\ resumes' = [resumes EXCEPT ![r] = IF kind[r] = "resume" /\ Pending(Start(r))
                                         THEN Last(Start(r)).id ELSE NoId]
    /\ met' = met \union {{r, q} : q \in InGraph}
    /\ UNCHANGED <<asked, tables, kind, made, pos, from, told, faults, ran, calm, torn>>

ModelCalls(r, call) ==
    /\ at[r] = "model" /\ (made[r] >= MaxCalls => call = "none")
    /\ made' = [made EXCEPT ![r] = @ + 1]
    /\ Extend(r, Append(held[r], Message("ai", <<r, made'[r]>>, call)))
    /\ Goto(r, IF call = "none" THEN "check" ELSE "tool")
    /\ UNCHANGED <<asked, tables, kind, resumes, pos, from, told, faults, past>>

\* An asking tool goes on only with the answer its run brought.
ToolRuns(r) ==
    /\ at[r] = "tool"
    /\ LET m == Last(held[r])
       IN /\ m.call = "tool" \/ m.id = resumes[r]
          /\ ran' = IF m.call = "ask" THEN ran \union {<<r, m.id>>} ELSE ran
          /\ Extend(r, Append(held[r], Result(m)))
    /\ Goto(r, "model")
    /\ UNCHANGED <<asked, tables, kind, resumes, made, pos, from, told, faults, met, calm, torn>>

\* interrupt() in the tool ends the graph's stream.
ToolAsks(r) ==
    /\ at[r] = "tool" /\ Last(held[r]).call = "ask" /\ Last(held[r]).id # resumes[r]
    /\ asked' = asked \union {Last(held[r]).id} /\ Goto(r, "check")
    /\ UNCHANGED <<msgs, tables, local, told, faults, past>>

-----------------------------------------------------------------------------
(* What stream_agent_chat and stream_agent_resume do when the graph's      *)
(* stream is over: check_and_handle_interrupts, then                       *)
(* save_messages_from_langgraph_state.                                     *)

\* Mutant: a run that has asked returns at once.
AfterReturning == "done"

AfterQuestion == "read"

\* A question is told before anything is saved; an error here is logged only.
CheckInterrupts(r) ==
    /\ at[r] = "check"
    /\ \/ Pending(msgs) /\ Tell(r, "asked") /\ Goto(r, AfterQuestion) /\ UNCHANGED faults
       \/ ~Pending(msgs) /\ Goto(r, "read") /\ UNCHANGED <<told, faults>>
       \/ Fault /\ Goto(r, "read") /\ UNCHANGED told
    /\ UNCHANGED <<thread, tables, local, past>>

ReadMessages(r) ==
    /\ at[r] = "read" /\ Goto(r, "ids")
    /\ held' = [held EXCEPT ![r] = msgs]
    /\ UNCHANGED <<thread, tables, kind, resumes, made, pos, from, told, faults, past>>

\* Mutant: the last row is not among them.
ExistingBefore(n) == {rows[i].id : i \in {j \in 1 .. n - 1 : rows[j].role = "ai"}}

\* _get_existing_message_ids, read before the loop from the first n rows.
ExistingIds(n) == {rows[i].id : i \in {j \in 1 .. n : rows[j].role = "ai"}}

\* Mutant: only the messages of the run itself.
ToSaveOwn(r, known) == {i \in DOMAIN held[r] : /\ held[r][i].role # "human" /\ held[r][i].id[1] = r
                                               /\ held[r][i].role = "ai" => held[r][i].id \notin known}

\* The loop passes over the user's messages and those stored before.
ToSave(r, known) == {i \in DOMAIN held[r] : /\ held[r][i].role # "human"
                                            /\ held[r][i].role = "ai" => held[r][i].id \notin known}

\* The loop's next position after n, or its end.
MoveOn(r, n, known) ==
    LET later == {i \in ToSave(r, known) : i > n}
    IN \E i \in later \union {Len(held[r]) + 1} : /\ \A j \in later : i <= j
                                                 /\ pos' = [pos EXCEPT ![r] = i]

ReadIds(r) ==
    /\ at[r] = "ids" /\ Goto(r, "store")
    /\ from' = [from EXCEPT ![r] = Len(rows)]
    /\ MoveOn(r, 0, ExistingIds(Len(rows)))
    /\ UNCHANGED <<thread, tables, kind, held, resumes, made, told, faults, past>>

Saving(r) == at[r] = "store" /\ pos[r] <= Len(held[r])
Current(r) == held[r][pos[r]]
NextMessage(r) == MoveOn(r, pos[r], ExistingIds(from[r]))

SaveAiMessage(r) ==
    /\ Saving(r) /\ Current(r).role = "ai"
    /\ rows' = Append(rows, Row("ai", Current(r).id, r))
    /\ IF Current(r).call = "none" THEN NextMessage(r) /\ UNCHANGED at
                                   ELSE Goto(r, "call") /\ UNCHANGED pos
    /\ UNCHANGED <<thread, recorded, outputs, kind, held, resumes, made, from, told, faults, past>>

\* The tool call's row is a commit of its own.
AddToolCall(r) ==
    /\ at[r] = "call" /\ Goto(r, "store") /\ NextMessage(r)
    /\ recorded' = recorded \union {Current(r).id}
    /\ UNCHANGED <<thread, rows, outputs, kind, held, resumes, made, from, told, faults, past>>

\* Some run has stored the message and has yet to add its tool call.
Adding(id) == \E q \in Runs : at[q] = "call" /\ Current(q).id = id

\* A result whose call has no row is dropped with a warning.
SaveToolMessage(r) ==
    /\ Saving(r) /\ Current(r).role = "tool" /\ NextMessage(r)
    /\ LET id == Current(r).id
       IN /\ outputs' = IF id \in recorded THEN outputs \union {id} ELSE outputs
          /\ torn' = IF id \notin recorded /\ Adding(id) THEN torn \union {id} ELSE torn
    /\ UNCHANGED <<thread, rows, recorded, kind, held, resumes, made, from, at, told, faults, ran, met, calm>>

Tear(r) == torn' = IF at[r] = "call" THEN torn \union {Current(r).id} ELSE torn

\* An exception while saving becomes a warning, and the stream goes on.
SaveFails(r) ==
    /\ at[r] \in {"read", "ids", "store", "call"} /\ Fault /\ Tear(r)
    /\ Goto(r, "store") /\ Tell(r, "warning")
    /\ pos' = [pos EXCEPT ![r] = Len(held[r]) + 1]
    /\ UNCHANGED <<thread, tables, kind, held, resumes, made, from, ran, met, calm>>

\* Only a run that has asked says nothing more.
Finish(r) ==
    /\ at[r] = "store" /\ ~Saving(r) /\ Goto(r, "done")
    /\ IF "asked" \in told[r] THEN UNCHANGED told ELSE Tell(r, "finished")
    /\ pos' = [pos EXCEPT ![r] = 0] /\ from' = [from EXCEPT ![r] = 0]
    /\ resumes' = [resumes EXCEPT ![r] = NoId]
    /\ UNCHANGED <<thread, tables, kind, held, made, faults, past>>

-----------------------------------------------------------------------------
(* Streams that do not get so far *)

Interior == {"model", "tool", "check", "read", "ids", "store", "call"}
Handlers == {"blocked", "failed", "lost", "cut"}

\* The content guard refuses the question, or the agent cannot be resolved.
Refused(r) ==
    /\ at[r] = "queued" /\ Fault /\ Tell(r, "error") /\ Goto(r, "ended")
    /\ UNCHANGED <<thread, tables, local, past>>

\* The content guard stops the output of a chat.
Blocked(r) ==
    /\ at[r] \in {"model", "check"} /\ kind[r] = "chat" /\ Fault /\ Stop(r, "blocked")
    /\ UNCHANGED <<thread, tables, told, past>>

\* A broken connection is handled like a cancel, but tells the worker.
GraphFails(r) ==
    /\ at[r] \in {"model", "tool"} /\ Fault /\ \E how \in {"failed", "lost"} : Stop(r, how)
    /\ UNCHANGED <<thread, tables, told, past>>

\* The worker cancels the step the stream is in.
Cut(r) ==
    /\ at[r] \in Interior \union {"blocked"} /\ Fault /\ Stop(r, "cut") /\ Tear(r)
    /\ UNCHANGED <<thread, tables, told, ran, met, calm>>

\* The handlers store what was streamed, or only that there was an error;
\* save_partial_message swallows its own failure.
SavePartial(r) ==
    /\ at[r] \in Handlers
    /\ \/ rows' = Append(rows, Row("partial", <<r, 0>>, r))
       \/ UNCHANGED rows
    /\ told' = [told EXCEPT ![r] = @ \union CASE at[r] \in {"blocked", "lost"} -> {"interrupted"}
                                              [] at[r] = "failed" -> {"error"}
                                              [] OTHER -> {}]
    /\ Goto(r, "ended")
    /\ UNCHANGED <<thread, recorded, outputs, local, faults, past>>

\* A cancel of the handlers: only the clean-up of a chat is shielded from it.
CutAgain(r) ==
    /\ \/ at[r] = "failed" /\ Goto(r, "ended")
       \/ at[r] \in {"cut", "lost"} /\ kind[r] = "resume" /\ Goto(r, "ended")
       \/ at[r] = "lost" /\ kind[r] = "chat" /\ Goto(r, "cut")
    /\ UNCHANGED <<thread, tables, local, told, faults, past>>

\* The worker notices a cancel between two chunks: the stream is dropped.
Abandon(r) ==
    /\ at[r] \in {"model", "tool", "read"} /\ Fault /\ Stop(r, "ended")
    /\ UNCHANGED <<thread, tables, told, past>>

Die(r) ==
    /\ at[r] \in Interior \union Handlers \union {"queued"}
    /\ Fault /\ Stop(r, "dead") /\ Tear(r)
    /\ UNCHANGED <<thread, tables, told, ran, met, calm>>

\* ARQ runs the job again, unless the row is terminal by then.
Requeue(r) ==
    /\ at[r] = "dead" /\ "asked" \notin told[r] /\ Goto(r, "queued")
    /\ told' = [told EXCEPT ![r] = {}]
    /\ UNCHANGED <<thread, tables, local, faults, past>>

Next == \E r \in Runs :
    \/ \E k \in {"chat", "resume"} : Create(r, k)
    \/ Begin(r)
    \/ \E call \in Calls \union {"none"} : ModelCalls(r, call)
    \/ ToolRuns(r) \/ ToolAsks(r)
    \/ CheckInterrupts(r) \/ ReadMessages(r) \/ ReadIds(r)
    \/ SaveAiMessage(r) \/ AddToolCall(r) \/ SaveToolMessage(r)
    \/ SaveFails(r) \/ Finish(r)
    \/ Refused(r) \/ Blocked(r) \/ GraphFails(r) \/ Cut(r) \/ SavePartial(r) \/ CutAgain(r)
    \/ Abandon(r) \/ Die(r) \/ Requeue(r)

Spec == Init /\ [][Next]_vars

-----------------------------------------------------------------------------
(* Properties *)

Ids == (0 .. MaxRuns) \X Nat
Messages == [role : {"human", "ai", "tool"}, id : Ids, call : {"none"} \union Calls]
Places == Over \union Interior \union Handlers
TableRows == [role : {"user", "ai", "partial"}, id : Ids, by : Runs, from : Nat]
TypeOK ==
    /\ msgs \in Seq(Messages) /\ asked \subseteq Ids
    /\ rows \in Seq(TableRows)
    /\ recorded \subseteq Ids /\ outputs \subseteq recorded
    /\ kind \in [Runs -> {"chat", "resume"}]
    /\ at \in [Runs -> Places]
    /\ held \in [Runs -> Seq(Messages)] /\ resumes \in [Runs -> Ids]
    /\ made \in [Runs -> Nat] /\ pos \in [Runs -> Nat] /\ from \in [Runs -> Nat]
    /\ told \in [Runs -> SUBSET {"asked", "warning", "finished", "interrupted", "error"}]
    /\ faults \in 0 .. MaxFaults
    /\ ran \subseteq Runs \X Ids /\ met \subseteq SUBSET Runs
    /\ calm \subseteq Runs /\ torn \subseteq Ids

AiRow(i) == rows[i].role = "ai"

\* An AI message has two rows only from two runs that saved at the same time:
\* the later one's had read the stored ids before the earlier row was there.
\* (save_messages_from_langgraph_state)
StoredOnce == \A i, j \in DOMAIN rows :
    i < j /\ AiRow(i) /\ AiRow(j) /\ rows[i].id = rows[j].id
        => rows[j].from < i /\ rows[i].by # rows[j].by

\* When every earlier run has settled, the user's next message comes after all
\* of their answers.  (get_messages orders by created_at)
QuestionsFollowAnswers == \A i, j \in DOMAIN rows :
    i < j /\ rows[i].role = "user" /\ AiRow(j) /\ rows[i].id[1] \in calm
        => rows[j].id[1] >= rows[i].id[1]

Stored(id) == \E i \in DOMAIN rows : AiRow(i) /\ rows[i].id = id

\* A run that settles has stored the whole thread as it read it, with the tool
\* calls and their results but for those that were torn, and all of its own
\* messages unless another run was in the graph beside it.
SettledIsStored == \A r \in Runs : Settled(r) =>
    /\ \A i \in DOMAIN held[r] : LET m == held[r][i]
                                 IN /\ m.role = "ai" => Stored(m.id)
                                    /\ m.call # "none" => m.id \in recorded \union torn \/ Adding(m.id)
                                    /\ m.role = "tool" => m.id \in outputs \union torn
    /\ \A n \in 1 .. made[r] : Stored(<<r, n>>) \/ \E q \in Runs \ {r} : {r, q} \in met

\* Two runs answer one question only if they were in the graph together.
\* (create_agent_run_view accepts any number of resumes)
AnsweredOnce == \A a, b \in ran : a[2] = b[2] /\ a[1] # b[1] => {a[1], b[1]} \in met
=============================================================================
