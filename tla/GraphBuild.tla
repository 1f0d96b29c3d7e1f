----------------------------- MODULE GraphBuild -----------------------------
(***************************************************************************)
(* The two operations that move the chunks of a knowledge base into Neo4j  *)
(* and back: build_pending_chunks, run as a background task with one       *)
(* worker (the write lock makes several take turns), and reset, run by the *)
(* request.  They share the flags of the chunks and the graph with the     *)
(* operations on files, which this module leaves to KnowledgeFile.         *)
(***************************************************************************)
EXTENDS Integers, FiniteSets

CONSTANTS
    Chunks,         \* chunk numbers, in the order of their ids
    BatchSize       \* pending chunks read at a time

VARIABLES
    pg,         \* chunk -> "none", "pending" or "indexed" (graph_indexed)
    graph,      \* chunk -> its nodes are in Neo4j
    bpc,        \* where the build is
    listed,     \* the chunks of the batch still in the worker's queue
    cur,        \* the chunk the worker holds
    failed,     \* failed_chunk_ids
    rpc         \* where the reset is

buildVars == <<bpc, listed, cur, failed>>

\* list_graph_pending_by_kb_id: the first BatchSize pending chunks by id.
Pending == {c \in Chunks : pg[c] = "pending"}
FirstPending == {c \in Pending : Cardinality({d \in Pending : d < c}) < BatchSize}

BuildInit == bpc = "idle" /\ listed = {} /\ cur = 0 /\ failed = {} /\ rpc = "idle"

\* enqueue_unique_by_payload refuses a second build; nothing refuses one
\* while a reset runs.
StartBuild == /\ bpc = "idle" /\ bpc' = "list" /\ failed' = {}
              /\ UNCHANGED <<pg, graph, listed, cur, rpc>>

\* Mutant: the build stops once a batch went through.
UntriedOnce == IF \E c \in Chunks : pg[c] = "indexed" THEN {} ELSE FirstPending \ failed

Untried == FirstPending \ failed

\* The build is over when the first pending chunks have all failed before.
ListPending == /\ bpc = "list"
               /\ listed' = Untried
               /\ bpc' = IF listed' = {} THEN "idle" ELSE "claim"
               /\ UNCHANGED <<pg, graph, cur, failed, rpc>>

Claim == /\ bpc = "claim"
         /\ IF listed = {} THEN bpc' = "list" /\ UNCHANGED <<listed, cur>>
            ELSE /\ cur' \in {c \in listed : \A d \in listed : c <= d}
                 /\ listed' = listed \ {cur'} /\ bpc' = "extract"
         /\ UNCHANGED <<pg, graph, failed, rpc>>

Advance(from, to) == bpc = from /\ bpc' = to

\* The extraction, which changes nothing here, and the transaction in Neo4j.
WriteGraph == /\ Advance("extract", "refs")
              /\ graph' = [graph EXCEPT ![cur] = TRUE]
              /\ UNCHANGED <<pg, listed, cur, failed, rpc>>

\* Any step of one chunk may fail: the chunk is set aside for this build.
ChunkFails == /\ bpc \in {"extract", "refs", "mark"}
              /\ failed' = failed \union {cur} /\ cur' = 0 /\ bpc' = "claim"
              /\ UNCHANGED <<pg, graph, listed, rpc>>

\* upsert_chunk_graph and the entity vectors: the foreign key asks for the chunk.
WriteRefs == /\ bpc = "refs" /\ pg[cur] # "none" /\ bpc' = "mark"
             /\ UNCHANGED <<pg, graph, listed, cur, failed, rpc>>

ChunkGone == bpc = "refs" /\ pg[cur] = "none" /\ ChunkFails

\* mark_graph_indexed updates the row if it is still there.
Mark == /\ Advance("mark", "claim") /\ cur' = 0
        /\ pg' = [pg EXCEPT ![cur] = IF @ = "none" THEN @ ELSE "indexed"]
        /\ UNCHANGED <<graph, listed, failed, rpc>>

\* The task's timeout cancels the worker, and a restart ends it.
EndBuild == bpc' = "idle" /\ listed' = {} /\ cur' = 0 /\ failed' = {}

\* reset_graph_build answers 409 while a build is active; then it drops the
\* graph and, in a later transaction, the flags.
StartReset == /\ rpc = "idle" /\ bpc = "idle" /\ rpc' = "graph"
              /\ UNCHANGED <<pg, graph, buildVars>>

DropGraph == /\ rpc = "graph" /\ rpc' = "flags"
             /\ graph' = [c \in Chunks |-> FALSE]
             /\ UNCHANGED <<pg, buildVars>>

ResetFlags == /\ rpc = "flags" /\ rpc' = "idle"
              /\ pg' = [c \in Chunks |-> IF pg[c] = "none" THEN "none" ELSE "pending"]
              /\ UNCHANGED <<graph, buildVars>>

\* One of the two stores fails: the request answers an error.
ResetFails == /\ rpc \in {"graph", "flags"} /\ rpc' = "idle"
              /\ UNCHANGED <<pg, graph, buildVars>>

BuildStep == ListPending \/ Claim \/ WriteGraph \/ WriteRefs \/ ChunkGone \/ Mark
ResetStep == DropGraph \/ ResetFlags
=============================================================================
