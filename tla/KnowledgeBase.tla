--------------------------- MODULE KnowledgeBase ----------------------------
(***************************************************************************)
(* The operations on one file (KnowledgeFile) and the graph build and      *)
(* reset of its knowledge base (GraphBuild), in one API process, over the  *)
(* stores they share.                                                      *)
(***************************************************************************)
EXTENDS KnowledgeFile

CONSTANT BatchSize

ASSUME BatchSizeAssumption == BatchSize \in Nat \ {0}

VARIABLES bpc, listed, cur, failed, rpc,
          crossed   \* which overlaps of files, build and reset have happened

Graph == INSTANCE GraphBuild

graphVars == <<bpc, listed, cur, failed, rpc>>
kbVars == <<vars, graphVars, crossed>>

\* What a build or a reset leaves alone.
FileKept == UNCHANGED <<meta, row, parsed, locks, vec, op, stray, harm>>

RunBuild == Graph!BuildStep /\ FileKept /\ UNCHANGED budget
RunReset == Graph!ResetStep /\ FileKept /\ UNCHANGED budget

SubmitGraphWork == (Graph!StartBuild \/ Graph!StartReset) /\ Spend("graph") /\ FileKept

GraphFault == /\ \/ Graph!ChunkFails
                 \/ Graph!ResetFails
                 \/ bpc # "idle" /\ Graph!EndBuild /\ UNCHANGED <<pg, graph, rpc>>
              /\ Spend("faults") /\ FileKept

Reboot == Restart /\ Graph!EndBuild /\ rpc' = "idle"

-----------------------------------------------------------------------------
(* What a step may cross (a history of the run, read by the properties) *)

Building == bpc # "idle"
Written == bpc \in {"refs", "mark"}
Cleaning == \E o \in Coroutines : At(o, "cleanPg")
Cleaned == \E c \in Chunks : pg[c] # "none" /\ pg'[c] = "none"

Crossing ==
    (IF Building' /\ rpc' # "idle" THEN {"reset"} ELSE {})
    \union (IF (Building /\ Cleaned) \/ (Building /\ Cleaning)' THEN {"replaced"} ELSE {})
    \union (IF ~Cleaning /\ \E c \in Chunks : pg[c] = "indexed" /\ pg'[c] = "none" THEN {"bare"} ELSE {})
    \union (IF Written /\ ~Written' /\ (failed' # failed \/ ~Building') THEN {"unmarked"} ELSE {})
    \union (IF \/ rpc = "flags" /\ rpc' = "idle" /\ budget' # budget
               \/ \E o \in Coroutines : At(o, "cleanPg") /\ op'[o].pc \notin {"cleanPg", "cleanVec"}
               \/ \E o \in Coroutines : At(o, "cleanGraph") /\ op'[o].pc = "cleanPg" /\ budget' # budget
            THEN {"half"} ELSE {})

KbInit == Init /\ Graph!BuildInit /\ crossed = {}

Trace == crossed' = crossed \union Crossing

FileStep(o) == Step(o) /\ UNCHANGED graphVars /\ Trace
BuildStep == RunBuild /\ Trace
ResetStep == RunReset /\ Trace

KbNext == \/ \E o \in Coroutines : FileStep(o)
          \/ BuildStep \/ ResetStep
          \/ FileEvent /\ UNCHANGED graphVars /\ Trace
          \/ SubmitGraphWork /\ Trace
          \/ GraphFault /\ Trace
          \/ Reboot /\ Trace

KbSpec == KbInit /\ [][KbNext]_kbVars

-----------------------------------------------------------------------------
(* Properties *)

\* Types, and: whoever holds the metadata lock is at a write it can finish, so
\* nobody waits for the lock for ever.
TypeOK ==
    /\ meta \in Record /\ row \in Record /\ parsed \in BOOLEAN
    /\ queue \in BOOLEAN /\ lock \in Coroutines \union {Nobody}
    /\ pg \in [Chunks -> {"none", "pending", "indexed"}]
    /\ vec \in [Chunks -> Nat] /\ graph \in [Chunks -> BOOLEAN]
    /\ stray \in {-1, 0} \union Chunks
    /\ lock # Nobody => op[lock].pc \in Locked

\* A row that says "indexed" (the only thing a restart keeps) has every chunk
\* in PostgreSQL and Milvus, at every point of a re-index, a roll-back or a
\* crash.  What breaks it: a delete that removed the chunks and not yet, or
\* never, the row; a row overwritten by an older copy; a listing that frees a
\* file somebody indexes; a cut Milvus call that lands later.
RowIndexedIsSearchable ==
    row.st = "indexed" /\ harm \intersect {"early", "overwrite", "delete", "stale", "late"} = {}
        => \A c \in Chunks : pg[c] # "none" /\ vec[c] > 0

\* However often a file is indexed, cut or failed and indexed again, no chunk
\* is twice in Milvus, whose insert does not replace.
VectorsOnce ==
    harm \intersect {"early", "overwrite", "vector", "late"} = {} => \A c \in Chunks : vec[c] <= 1

\* The status is the lock: one coroutine at a time parses or indexes the file,
\* unless a listing or a late failure overwrote the status of one at work.
OneAtATime ==
    harm \intersect {"early", "overwrite"} = {} => Cardinality({o \in Coroutines : Processing(o)}) <= 1

\* The file is in the set of files in process only while a coroutine works on
\* it: left behind, no listing would ever repair its status.
SetIsLeft == queue => \E o \in {"ingest", "parse", "index"} : Processing(o) \/ InTry(o)

\* Between operations the marks of the chunks say what is in the graph.
GraphMatchesMarks ==
    crossed = {} /\ harm \intersect {"early", "overwrite"} = {} => \A c \in Chunks :
        \/ graph[c] = (pg[c] = "indexed")
        \/ graph[c] /\ c = cur /\ Written
        \/ ~graph[c] /\ (Cleaning \/ rpc = "flags")

\* A file deleted while nobody indexed it and no store failed leaves nothing
\* behind in Milvus or Neo4j.
DeletedLeavesNothing ==
    /\ row.st = "absent" /\ \A o \in Coroutines : At(o, "idle")
    /\ crossed = {} /\ harm \subseteq {"delete", "stale"}
    => \A c \in Chunks : pg[c] = "none" /\ vec[c] = 0 /\ ~graph[c]

\* A deleted row comes back only through a write made without the metadata
\* lock: indexing never revives a file.
OnlyUnlockedRevives ==
    [][row.st = "absent" /\ row'.st # "absent"
        => \E o \in Coroutines : op[o].pc \in Saves \ Locked /\ op'[o].pc # op[o].pc]_kbVars

\* A build that ends by itself leaves no chunk untried, unless as many have
\* failed as it reads at a time: those hide the rest from it.
BuildLeavesOnlyFailures ==
    [][bpc = "list" /\ bpc' = "idle" /\ budget' = budget
        => Graph!Pending \subseteq failed \/ Cardinality(Graph!Pending \intersect failed) >= BatchSize]_kbVars
=============================================================================
