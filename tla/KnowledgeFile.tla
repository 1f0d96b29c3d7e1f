--------------------------- MODULE KnowledgeFile ---------------------------
(***************************************************************************)
(* One file of a Milvus knowledge base: its record in the API process      *)
(* (files_meta) and its row in PostgreSQL, the set of files in process,    *)
(* its parsed Markdown in MinIO, and its chunks in PostgreSQL and Milvus.  *)
(* The coroutines that work on it are the background tasks of the          *)
(* knowledge router, at most one of each type (Tasker.enqueue_unique), and *)
(* the request that deletes it.  Every action ends at an await.            *)
(***************************************************************************)
EXTENDS Integers, FiniteSets

CONSTANTS
    NChunks,        \* chunks the file is split into, one embedding batch each
    MaxStarts,      \* tasks and requests submitted for the file
    MaxGraph,       \* graph builds and resets submitted
    MaxFaults       \* failing calls of a store, tasks cut by their timeout, and restarts

ASSUME KnowledgeFileAssumption ==
    NChunks \in Nat \ {0} /\ MaxStarts \in Nat /\ MaxGraph \in Nat
    /\ MaxFaults \in Nat

Coroutines == {"ingest", "parse", "index", "delete"}
Nobody == "nobody"
Chunks == 1..NChunks

FileStatus == {"uploaded", "parsing", "parsed", "error_parsing",
               "indexing", "indexed", "error_indexing"}

\* What files_meta or a row says of the file; "new" before it is added.
Record == [st : FileStatus \union {"new", "absent"}, md : BOOLEAN]
None(why) == [st |-> why, md |-> FALSE]

VARIABLES
    meta,       \* files_meta[file_id]
    row,        \* the row of knowledge_files
    parsed,     \* the Markdown object is in MinIO
    queue,      \* the file is in _processing_files
    lock,       \* the holder of _metadata_lock
    pg,         \* chunk -> "none", "pending" or "indexed" (graph_indexed)
    vec,        \* chunk -> its copies in the Milvus collection
    graph,      \* chunk -> it is in the Neo4j graph
    op,         \* coroutine -> where it is
    stray,      \* a Milvus call still running in a thread after its task was cut:
                \* a chunk being inserted, -1 a delete, 0 nothing
    budget,     \* what is left of the bounds
    harm        \* which races and failures have happened (see the actions)

stores == <<pg, vec, graph, stray>>
locks  == <<queue, lock>>
vars   == <<meta, row, parsed, locks, stores, op, budget, harm>>

Rest == [pc |-> "idle", snap |-> None("new"), next |-> 1, todo |-> {}, bad |-> FALSE]
At(o, pc) == op[o].pc = pc
Goto(o, pc) == op' = [op EXCEPT ![o].pc = pc]
Finish(o) == op' = [op EXCEPT ![o] = Rest]
Exists == meta.st \in FileStatus
Harm(what, when) == harm' = IF when THEN harm \union {what} ELSE harm

Spend(what) == budget[what] > 0 /\ budget' = [budget EXCEPT ![what] = @ - 1]

\* A status in files_meta, and the arguments of the _persist_file that
\* follows, read before its first await.
Assign(o, st, md, pc) ==
    /\ meta' = [st |-> st, md |-> md]
    /\ op' = [op EXCEPT ![o] = [@ EXCEPT !.pc = pc, !.snap = meta']]

\* A file not yet added, or an indexed one: in the graph or not, and, when an
\* import restored it, perhaps without its Markdown.
Init == /\ \/ /\ meta = None("new")
              /\ pg = [c \in Chunks |-> "none"] /\ vec = [c \in Chunks |-> 0]
           \/ /\ meta \in [st : {"indexed"}, md : BOOLEAN]
              /\ pg \in {[c \in Chunks |-> g] : g \in {"pending", "indexed"}}
              /\ vec = [c \in Chunks |-> 1]
        /\ graph = [c \in Chunks |-> pg[c] = "indexed"]
        /\ row = meta /\ parsed = meta.md
        /\ queue = FALSE /\ lock = Nobody
        /\ stray = 0
        /\ op = [o \in Coroutines |-> Rest]
        /\ budget = [starts |-> MaxStarts, graph |-> MaxGraph, faults |-> MaxFaults]
        /\ harm = {}

-----------------------------------------------------------------------------
(* Submission, and the write of a row that every operation shares *)

\* The third phase of run_ingest takes the files whose record says "parsed",
\* whoever parsed them.
AfterParse(o) == IF o = "ingest" /\ meta.st = "parsed" THEN "params" ELSE "idle"

\* The writes made under _metadata_lock.
Locked == {"saveNoMarkdown", "saveIndexing", "saveIndexed", "saveIndexError", "dropRow"}

Saves == {"saveAdded", "saveParsing", "saveParsed", "saveParseError", "saveParams",
          "saveNoMarkdown", "saveIndexing", "saveIndexed", "saveIndexError"}

Continue(o, pc) == IF pc = "idle" THEN Finish(o) ELSE Goto(o, pc)

\* Mutant: the metadata lock does not exclude.
LockIgnored == TRUE

LockFree == lock = Nobody

Release(o) == lock' = IF lock = o THEN Nobody ELSE lock

\* The upsert of _persist_file with the values it was called with, and what
\* the coroutine does up to its next await: a file enters the processing set
\* only here, after its status was set and awaited.
Persist(o) ==
    LET pc == op[o].pc
    IN  /\ pc \in Saves
        /\ row' = op[o].snap
        /\ Harm("stale", op[o].snap # meta)
        /\ Release(o)
        /\ queue' = CASE pc \in {"saveParsing", "saveIndexing"} -> TRUE
                      [] pc \in {"saveParsed", "saveParseError", "saveIndexed", "saveIndexError"} -> FALSE
                      [] OTHER -> queue
        /\ Continue(o, CASE pc = "saveAdded" -> "parse"
                         [] pc = "saveParsing" -> "parsing"
                         [] pc \in {"saveParsed", "saveParseError"} -> AfterParse(o)
                         [] pc = "saveParams" -> "index"
                         [] pc = "saveIndexing" -> "read"
                         [] OTHER -> "idle")
        /\ UNCHANGED <<meta, parsed, stores, budget>>

\* The write fails: the operation raises.  Inside the try blocks of parse_file and
\* index_file that leads to their handler, and a handler's own failure to
\* their finally.
PersistFails(o) ==
    LET pc == op[o].pc
    IN  /\ pc \in Saves /\ Spend("faults")
        /\ Release(o)
        /\ queue' = IF pc \in {"saveParseError", "saveIndexError"} THEN FALSE ELSE queue
        /\ Continue(o, CASE pc = "saveParsed" -> "parseFailed"
                         [] pc = "saveIndexed" -> "indexFailed"
                         [] pc \in {"saveParsing", "saveParseError"} -> AfterParse(o)
                         [] OTHER -> "idle")
        /\ UNCHANGED <<meta, row, parsed, stores, harm>>

-----------------------------------------------------------------------------
(* Who works on the file *)

\* The await points of a coroutine that parses or indexes the file and has not
\* yet announced its end.
Working == {"saveParsing", "parsing", "parseOver", "saveIndexing", "read", "cleanGraph", "cleanPg",
            "cleanVec", "insert", "rollbackPg", "rollbackVec", "indexOver"}

\* The await points inside the try blocks, whose finally leaves the set.
Protected == (Working \ {"saveParsing", "saveIndexing"})
             \union {"parseFailed", "indexFailed", "saveParsed", "saveParseError",
                     "saveIndexed", "saveIndexError"}

\* Mutant: the set is left in the handlers and not in a finally.
InNoTry(o) == FALSE

InTry(o) == op[o].pc \in Protected

Processing(o) == o # "delete" /\ op[o].pc \in Working

\* An end is written over the status of another coroutine's work.
Overwrites(o) == Harm("overwrite", \E p \in Coroutines \ {o} : Processing(p))

-----------------------------------------------------------------------------
(* add_file_record and parse_file *)

Parseable == meta.st \in {"uploaded", "error_parsing"}

Parse(o) == /\ At(o, "parse")
            /\ IF Parseable THEN Assign(o, "parsing", meta.md, "saveParsing")
               ELSE Continue(o, AfterParse(o)) /\ UNCHANGED meta
            /\ UNCHANGED <<row, parsed, locks, stores, budget, harm>>

\* Parser.aparse and the upload of the Markdown, or their failure.
Parsing(o) == /\ At(o, "parsing")
              /\ \/ parsed' = TRUE /\ Goto(o, "parseOver") /\ UNCHANGED budget
                 \/ parsed' = parsed /\ Goto(o, "parseFailed") /\ Spend("faults")
              /\ UNCHANGED <<meta, row, locks, stores, harm>>

\* A file deleted meanwhile raises KeyError, in the handler as well: only the
\* finally is left.
ParseEnds(o, pc, st, md, save) ==
    /\ At(o, pc)
    /\ IF Exists THEN Assign(o, st, md, save) /\ Overwrites(o) /\ UNCHANGED queue
       ELSE queue' = FALSE /\ Continue(o, AfterParse(o)) /\ UNCHANGED <<meta, harm>>
    /\ UNCHANGED <<row, parsed, lock, stores, budget>>

ParseOver(o) == ParseEnds(o, "parseOver", "parsed", TRUE, "saveParsed")
ParseFailed(o) == ParseEnds(o, "parseFailed", "error_parsing", meta.md, "saveParseError")

\* update_file_params: it leaves the status alone, and writes it.
Params(o) == /\ At(o, "params")
             /\ IF Exists THEN Assign(o, meta.st, meta.md, "saveParams")
                ELSE Finish(o) /\ UNCHANGED meta
             /\ UNCHANGED <<row, parsed, locks, stores, budget, harm>>

-----------------------------------------------------------------------------
(* index_file *)

\* Mutant: a file that is being indexed may be indexed.
IndexableAgain == meta.st \in {"parsed", "error_indexing", "indexed", "indexing"}

Indexable == meta.st \in {"parsed", "error_indexing", "indexed"}

Index(o) ==
    /\ At(o, "index") /\ LockFree
    /\ IF ~Indexable THEN Finish(o) /\ UNCHANGED <<meta, lock, harm>>
       ELSE /\ lock' = o
            /\ Harm("raced", ~At("delete", "idle"))
            /\ IF meta.md THEN Assign(o, "indexing", TRUE, "saveIndexing")
               ELSE Assign(o, "uploaded", FALSE, "saveNoMarkdown")
    /\ UNCHANGED <<row, parsed, queue, stores, budget>>

Read(o) == /\ At(o, "read")
           /\ \/ parsed /\ Goto(o, "cleanGraph") /\ UNCHANGED budget
              \/ ~parsed /\ Goto(o, "indexFailed") /\ UNCHANGED budget
              \/ Spend("faults") /\ Goto(o, "indexFailed")
           /\ UNCHANGED <<meta, row, parsed, locks, stores, harm>>

Raise(o) == IF o = "delete" THEN Finish(o) ELSE Goto(o, "indexFailed")

\* Mutant: the old chunks are removed after the new ones are written.
NotCleaned == vec

NoCopies == [c \in Chunks |-> 0]

BothStores == {"pg", "vec"}

\* Mutant: the graph is removed only when every chunk is in it.
GraphFullyRecorded == \A c \in Chunks : pg[c] = "indexed"

GraphRecorded == \E c \in Chunks : pg[c] = "indexed"

\* delete_file_chunks_only, which index_file and delete_file share.  The graph
\* of the file is removed if a chunk is marked as in the graph; a failure is
\* only logged.
CleanGraph(o) ==
    /\ At(o, "cleanGraph") /\ Goto(o, "cleanPg")
    /\ \/ /\ graph' = IF GraphRecorded THEN [c \in Chunks |-> FALSE] ELSE graph
          /\ UNCHANGED budget
       \/ UNCHANGED graph /\ Spend("faults")
    /\ UNCHANGED <<meta, row, parsed, locks, pg, vec, stray, harm>>

CleanPg(o) ==
    /\ At(o, "cleanPg")
    /\ \/ /\ pg' = [c \in Chunks |-> "none"]
          /\ Harm("delete", o = "delete")
          /\ Goto(o, "cleanVec") /\ UNCHANGED budget
       \/ Raise(o) /\ Spend("faults") /\ UNCHANGED <<pg, harm>>
    /\ UNCHANGED <<meta, row, parsed, locks, vec, graph, stray>>

\* The delete in Milvus; its failure is only logged and the operation goes on.
CleanVec(o) ==
    /\ At(o, "cleanVec")
    /\ \/ vec' = NoCopies /\ UNCHANGED <<budget, harm>>
       \/ UNCHANGED vec /\ Spend("faults") /\ harm' = harm \union {"vector"}
    /\ op' = [op EXCEPT ![o] = [@ EXCEPT !.pc = IF o = "delete" THEN "dropMeta" ELSE "insert",
                                         !.next = 1, !.todo = BothStores, !.bad = FALSE]]
    /\ UNCHANGED <<meta, row, parsed, locks, pg, graph, stray>>

\* The embeddings of the batch fail; else both writes go out at once (asyncio.gather).
EmbedFails(o) ==
    /\ At(o, "insert") /\ op[o].todo = BothStores /\ ~op[o].bad
    /\ Goto(o, "indexFailed") /\ Spend("faults")
    /\ UNCHANGED <<meta, row, parsed, locks, stores, harm>>

Wrote(o, store, ok) == op' = [op EXCEPT ![o].todo = @ \ {store}, ![o].bad = @ \/ ~ok]

\* batch_upsert: the foreign key asks for the file's row.
InsertPg(o) ==
    /\ At(o, "insert") /\ "pg" \in op[o].todo
    /\ \/ /\ row.st \in FileStatus
          /\ pg' = [pg EXCEPT ![op[o].next] = "pending"]
          /\ Wrote(o, "pg", TRUE) /\ UNCHANGED budget
       \/ row.st \notin FileStatus /\ Wrote(o, "pg", FALSE) /\ UNCHANGED <<pg, budget>>
       \/ Spend("faults") /\ Wrote(o, "pg", FALSE) /\ UNCHANGED pg
    /\ UNCHANGED <<meta, row, parsed, locks, vec, graph, stray, harm>>

\* collection.insert keeps what is there: a second insert is a second copy.
InsertVec(o) ==
    /\ At(o, "insert") /\ "vec" \in op[o].todo
    /\ \/ /\ vec' = [vec EXCEPT ![op[o].next] = @ + 1]
          /\ Wrote(o, "vec", TRUE) /\ UNCHANGED budget
       \/ Spend("faults") /\ Wrote(o, "vec", FALSE) /\ UNCHANGED vec
    /\ UNCHANGED <<meta, row, parsed, locks, pg, graph, stray, harm>>

\* Mutant: one of the two writes of a batch is enough.
BatchLoose(o) == FALSE

BatchFailed(o) == op[o].bad

Inserted(o) ==
    /\ At(o, "insert") /\ op[o].todo = {}
    /\ op' = [op EXCEPT ![o] =
                IF BatchFailed(o) THEN [@ EXCEPT !.pc = "rollbackPg", !.bad = FALSE]
                ELSE IF @.next < NChunks THEN [@ EXCEPT !.next = op[o].next + 1, !.todo = BothStores]
                ELSE [@ EXCEPT !.pc = "indexOver"]]
    /\ UNCHANGED <<meta, row, parsed, locks, stores, budget, harm>>

\* The roll-back removes all of the file's chunks, not only the batch; its
\* failures are only logged.
RollbackPg(o) ==
    /\ At(o, "rollbackPg") /\ Goto(o, "rollbackVec")
    /\ \/ pg' = [c \in Chunks |-> "none"] /\ UNCHANGED budget
       \/ UNCHANGED pg /\ Spend("faults")
    /\ UNCHANGED <<meta, row, parsed, locks, vec, graph, stray, harm>>

RollbackVec(o) ==
    /\ At(o, "rollbackVec") /\ Goto(o, "indexFailed")
    /\ \/ vec' = NoCopies /\ UNCHANGED <<budget, harm>>
       \/ UNCHANGED vec /\ Spend("faults") /\ harm' = harm \union {"vector"}
    /\ UNCHANGED <<meta, row, parsed, locks, pg, graph, stray>>

IndexEnds(o, pc, st, save) ==
    /\ At(o, pc) /\ LockFree
    /\ IF Exists THEN Assign(o, st, meta.md, save) /\ Overwrites(o) /\ lock' = o /\ UNCHANGED queue
       ELSE queue' = FALSE /\ Finish(o) /\ UNCHANGED <<meta, lock, harm>>
    /\ UNCHANGED <<row, parsed, stores, budget>>

IndexOver(o) == IndexEnds(o, "indexOver", "indexed", "saveIndexed")
IndexFailed(o) == IndexEnds(o, "indexFailed", "error_indexing", "saveIndexError")

-----------------------------------------------------------------------------
(* delete_document and delete_file *)

\* The objects in MinIO; a failure is only logged.
DeleteObject(o) == /\ At(o, "deleteObject") /\ Goto(o, "cleanGraph")
                   /\ \/ parsed' = FALSE /\ UNCHANGED budget
                      \/ UNCHANGED parsed /\ Spend("faults")
                   /\ UNCHANGED <<meta, row, locks, stores, harm>>

DropMeta(o) == /\ At(o, "dropMeta") /\ LockFree
               /\ IF Exists THEN meta' = None("absent") /\ lock' = o /\ Goto(o, "dropRow")
                  ELSE Finish(o) /\ UNCHANGED <<meta, lock>>
               /\ UNCHANGED <<row, parsed, queue, stores, budget, harm>>

\* The row goes, and its chunks with it (ON DELETE CASCADE); or the write fails.
DropRow(o) == /\ At(o, "dropRow")
              /\ \/ /\ row' = None("absent") /\ pg' = [c \in Chunks |-> "none"]
                    /\ UNCHANGED budget
                 \/ Spend("faults") /\ UNCHANGED <<row, pg>>
              /\ lock' = Nobody /\ Finish(o)
              /\ UNCHANGED <<meta, parsed, queue, vec, graph, stray, harm>>

-----------------------------------------------------------------------------
(* Listings, tasks cut by their timeout, and restarts *)

\* _check_and_fix_processing_status, which every listing runs: in memory only.
List == /\ meta.st \in {"parsing", "indexing"} /\ ~queue
        /\ meta' = [meta EXCEPT !.st = IF @ = "parsing" THEN "error_parsing" ELSE "error_indexing"]
        /\ Harm("early", \E o \in Coroutines : Processing(o))
        /\ UNCHANGED <<row, parsed, locks, stores, op, budget>>

\* The Tasker's hard timeout cancels the coroutine at its await.  The handlers
\* catch Exception, not CancelledError; a Milvus call in a thread goes on.
Cancel(o) ==
    /\ o # "delete" /\ ~At(o, "idle") /\ Spend("faults")
    /\ Finish(o) /\ Release(o)
    /\ queue' = IF InTry(o) THEN FALSE ELSE queue
    /\ stray' = IF stray # 0 THEN stray
                ELSE IF "vec" \in op[o].todo /\ At(o, "insert") THEN op[o].next
                ELSE IF op[o].pc \in {"cleanVec", "rollbackVec"} THEN -1 ELSE 0
    /\ UNCHANGED <<meta, row, parsed, pg, vec, graph, harm>>

StrayCall ==
    /\ stray # 0 /\ stray' = 0
    /\ vec' = IF stray = -1 THEN NoCopies ELSE [vec EXCEPT ![stray] = @ + 1]
    /\ harm' = harm \union {"late"}
    /\ UNCHANGED <<meta, row, parsed, locks, pg, graph, op, budget>>

\* The process dies; the next one reads files_meta from the rows.  (A step of
\* its own in KnowledgeBase, where it takes the graph build along.)
Restart == /\ Spend("faults")
           /\ meta' = row /\ queue' = FALSE /\ lock' = Nobody /\ stray' = 0
           /\ op' = [o \in Coroutines |-> Rest]
           /\ UNCHANGED <<row, parsed, pg, vec, graph, harm>>

Step(o) == \/ Persist(o) \/ Parse(o) \/ Parsing(o) \/ ParseOver(o) \/ ParseFailed(o)
           \/ Params(o) \/ Index(o) \/ Read(o)
           \/ CleanGraph(o) \/ CleanPg(o) \/ CleanVec(o)
           \/ InsertPg(o) \/ InsertVec(o) \/ Inserted(o)
           \/ RollbackPg(o) \/ RollbackVec(o) \/ IndexOver(o) \/ IndexFailed(o)
           \/ DeleteObject(o) \/ DropMeta(o) \/ DropRow(o)

Start(o) == /\ At(o, "idle") /\ Spend("starts")
            /\ \/ /\ o = "ingest" /\ meta.st = "new"
                  /\ Assign(o, "uploaded", FALSE, "saveAdded")
               \/ /\ o \in {"parse", "index"}
                  /\ Goto(o, o) /\ UNCHANGED meta
               \/ /\ o = "index" /\ Goto(o, "params") /\ UNCHANGED meta
               \/ /\ o = "delete" /\ Exists
                  /\ Goto(o, "deleteObject") /\ UNCHANGED meta
            /\ Harm("raced", o = "delete" /\ \E p \in Coroutines : Processing(p))
            /\ UNCHANGED <<row, parsed, locks, stores>>

\* What is not the progress of a coroutine.
FileEvent == \/ \E o \in Coroutines : Start(o) \/ PersistFails(o) \/ EmbedFails(o) \/ Cancel(o)
             \/ List \/ StrayCall
=============================================================================
