------------------------- MODULE KnowledgeBaseProofs -------------------------
(***************************************************************************)
(* Theorems about KnowledgeBase, for any number of chunks, batches, tasks, *)
(* requests and faults.  Of the coroutines: the types and that the         *)
(* metadata lock is always given back, that the set of files in process is *)
(* left, that one coroutine at a time parses or indexes the file, and that *)
(* a write under the lock never brings a deleted row back.  Of the stores: *)
(* that an indexed row has all its chunks, each of them once, that the     *)
(* marks tell what is in the graph, that a delete leaves nothing, and that *)
(* a build tries every chunk.                                              *)
(***************************************************************************)
EXTENDS KnowledgeBase, FiniteSetTheorems, TLAPS

-----------------------------------------------------------------------------
(* The invariant *)

\* The places of a coroutine: the delete request has its own.
Pcs == {"idle", "saveAdded", "parse", "saveParsing", "parsing", "parseOver", "parseFailed", "saveParsed",
        "saveParseError", "params", "saveParams", "index", "saveNoMarkdown", "saveIndexing", "read",
        "cleanGraph", "cleanPg", "cleanVec", "insert", "rollbackPg", "rollbackVec", "indexOver",
        "indexFailed", "saveIndexed", "saveIndexError", "deleteObject", "dropMeta", "dropRow"}

DeletePlaces == {"idle", "deleteObject", "cleanGraph", "cleanPg", "cleanVec", "dropMeta", "dropRow"}

PlacesOf(o) == IF o = "delete" THEN DeletePlaces ELSE Pcs \ {"deleteObject", "dropMeta", "dropRow"}

Local == [pc : Pcs, snap : Record, next : Chunks, todo : SUBSET BothStores, bad : BOOLEAN]

OpTypeOK == /\ op \in [Coroutines -> Local]
            /\ \A o \in Coroutines : op[o].pc \in PlacesOf(o)

DataTypeOK ==
    /\ meta \in Record /\ row \in Record /\ parsed \in BOOLEAN /\ queue \in BOOLEAN
    /\ pg \in [Chunks -> {"none", "pending", "indexed"}]
    /\ vec \in [Chunks -> Nat] /\ graph \in [Chunks -> BOOLEAN]
    /\ stray \in {-1, 0} \union Chunks

\* Whoever is at a write made under the metadata lock holds it, and no one else.
LockInv == /\ lock \in Coroutines \union {Nobody}
           /\ \A o \in Coroutines : op[o].pc \in Locked => lock = o
           /\ lock # Nobody => op[lock].pc \in Locked

\* The file is in the set while somebody is inside a try block, whose finally leaves it.
SetInv == queue => \E o \in {"ingest", "parse", "index"} : InTry(o)

\* A deleted row's record is gone from memory, and a write under the lock is
\* one of a file that is still there.
DropInv == /\ row.st = "absent" => meta.st = "absent"
           /\ \A o \in Coroutines :
                /\ op[o].pc = "dropRow" => meta.st = "absent"
                /\ op[o].pc \in Saves => op[o].snap.st \in FileStatus
                /\ op[o].pc \in Saves \intersect Locked => meta.st # "absent"

\* The status says what the one coroutine at work is doing.
Calm == harm \intersect {"early", "overwrite"} = {}
StageOf(o) == IF op[o].pc \in {"saveParsing", "parsing", "parseOver"} THEN "parsing" ELSE "indexing"
Staged == /\ \A o \in Coroutines : Processing(o) => meta.st \in {StageOf(o), "absent"}
          /\ \A o, p \in Coroutines : Processing(o) /\ Processing(p) => o = p
StageInv == Calm => Staged

ControlInv == OpTypeOK /\ LockInv /\ SetInv /\ DropInv /\ StageInv

-----------------------------------------------------------------------------
(* What a step of one coroutine is made of *)

\* The coroutine goes to one of the places S, and nobody else moves.
Moves(o, S) == /\ op' \in [Coroutines -> Local]
               /\ op'[o].pc \in S
               /\ \A p \in Coroutines : p # o => op'[p] = op[p]

LEMMA RestType == Rest \in Local /\ Rest.pc = "idle"
  BY KnowledgeFileAssumption DEF Rest, Local, Pcs, Record, None, Chunks

\* A coroutine's own record after the updates the actions make.
LEMMA LocalFields ==
    ASSUME NEW r \in Local
    PROVE  r.pc \in Pcs /\ r.next \in Chunks /\ r.bad \in BOOLEAN /\ r.todo \subseteq BothStores
  BY DEF Local

LEMMA LocalFresh ==
    ASSUME NEW r \in Local, NEW pc \in Pcs
    PROVE  LET f == [r EXCEPT !.pc = pc, !.next = 1, !.todo = BothStores, !.bad = FALSE]
           IN  f \in Local /\ f.pc = pc
  <1>1. 1 \in Chunks
    BY KnowledgeFileAssumption DEF Chunks
  <1> QED BY <1>1 DEF Local

LEMMA LocalWrote ==
    ASSUME NEW r \in Local, NEW store, NEW bad \in BOOLEAN
    PROVE  LET f == [r EXCEPT !.todo = r.todo \ {store}, !.bad = bad]
           IN  f \in Local /\ f.pc = r.pc
  BY DEF Local

LEMMA LocalRollback ==
    ASSUME NEW r \in Local
    PROVE  LET f == [r EXCEPT !.pc = "rollbackPg", !.bad = FALSE]
           IN  f \in Local /\ f.pc = "rollbackPg"
  BY DEF Local, Pcs

LEMMA LocalNext ==
    ASSUME NEW r \in Local, r.next < NChunks
    PROVE  LET f == [r EXCEPT !.next = r.next + 1, !.todo = BothStores]
           IN  f \in Local /\ f.pc = r.pc
  <1>1. r.next + 1 \in Chunks
    BY KnowledgeFileAssumption DEF Local, Chunks
  <1> QED BY <1>1 DEF Local

LEMMA LocalOver ==
    ASSUME NEW r \in Local
    PROVE  LET f == [r EXCEPT !.pc = "indexOver"]
           IN  f \in Local /\ f.pc = "indexOver"
  BY DEF Local, Pcs

LEMMA SetOwn ==
    ASSUME op \in [Coroutines -> Local], NEW o \in Coroutines, NEW r \in Local, op' = [op EXCEPT ![o] = r]
    PROVE  Moves(o, {r.pc}) /\ op'[o] = r
  BY DEF Moves

LEMMA GotoMoves ==
    ASSUME op \in [Coroutines -> Local], NEW o \in Coroutines, NEW pc \in Pcs, Goto(o, pc)
    PROVE  Moves(o, {pc})
  BY DEF Goto, Local, Moves

LEMMA FinishMoves ==
    ASSUME op \in [Coroutines -> Local], NEW o \in Coroutines, Finish(o)
    PROVE  Moves(o, {"idle"})
  BY RestType DEF Finish, Moves

LEMMA ContinueMoves ==
    ASSUME op \in [Coroutines -> Local], NEW o \in Coroutines, NEW pc \in Pcs, Continue(o, pc)
    PROVE  Moves(o, {pc})
  BY GotoMoves, FinishMoves DEF Continue

LEMMA AfterParsePlace ==
    ASSUME NEW o \in Coroutines
    PROVE  AfterParse(o) \in {"params", "idle"} /\ AfterParse(o) \in Pcs /\ (o = "delete" => AfterParse(o) = "idle")
  BY DEF AfterParse, Pcs

LEMMA AssignMoves ==
    ASSUME op \in [Coroutines -> Local], NEW o \in Coroutines, NEW pc \in Pcs,
           NEW st \in FileStatus, NEW md \in BOOLEAN, Assign(o, st, md, pc)
    PROVE  Moves(o, {pc}) /\ meta' \in Record /\ meta'.st = st /\ op'[o].snap.st = st
  <1>1. meta' \in Record /\ meta'.st = st
    BY DEF Assign, Record
  <1>2. op' = [op EXCEPT ![o] = [op[o] EXCEPT !.pc = pc, !.snap = meta']]
    BY DEF Assign
  <1>3. [op[o] EXCEPT !.pc = pc, !.snap = meta'] \in Local
    BY <1>1 DEF Local
  <1> QED BY <1>1, <1>2, <1>3 DEF Local, Moves

LEMMA OpKept ==
    ASSUME OpTypeOK, NEW o \in Coroutines, NEW S, Moves(o, S), S \subseteq PlacesOf(o)
    PROVE  OpTypeOK'
  BY DEF OpTypeOK, Moves, PlacesOf

\* The lock is left alone outside the locked writes, taken on the way to one,
\* or released after one.
LEMMA LockKept ==
    ASSUME OpTypeOK, LockInv, NEW o \in Coroutines, NEW S, Moves(o, S),
           \/ lock' = lock /\ op[o].pc \notin Locked /\ S \intersect Locked = {}
           \/ lock = Nobody /\ lock' = o /\ S \subseteq Locked
           \/ op[o].pc \in Locked /\ lock' = Nobody /\ S \intersect Locked = {}
    PROVE  LockInv'
  <1>1. Nobody \notin Coroutines
    BY DEF Nobody, Coroutines
  <1> QED BY <1>1 DEF LockInv, Moves

\* Release gives the lock back after a locked write, and does nothing else.
LEMMA ReleaseIs ==
    ASSUME LockInv, NEW o \in Coroutines, Release(o)
    PROVE  lock' = IF op[o].pc \in Locked THEN Nobody ELSE lock
  BY DEF LockInv, Release

LEMMA SetKept ==
    ASSUME SetInv, NEW o \in Coroutines, NEW S, Moves(o, S),
           queue' => \/ queue /\ (o = "delete" \/ ~InTry(o))
                     \/ o # "delete" /\ InTry(o)'
    PROVE  SetInv'
  BY DEF Moves, SetInv, InTry, Coroutines

LEMMA StageKept ==
    ASSUME StageInv, NEW o \in Coroutines, NEW S, Moves(o, S), harm \subseteq harm',
           meta'.st \in {meta.st, "absent"},
           Processing(o)' => Processing(o) /\ StageOf(o)' = StageOf(o)
    PROVE  StageInv'
  <1> SUFFICES ASSUME Calm' PROVE Staged'
    BY DEF StageInv
  <1>1. Calm
    BY DEF Calm
  <1>2. \A p \in Coroutines : Processing(p)' => Processing(p) /\ StageOf(p)' = StageOf(p)
    BY DEF Moves, Processing, StageOf
  <1> QED BY <1>1, <1>2 DEF StageInv, Staged

-----------------------------------------------------------------------------
(* Steps inside an operation: they leave record, row, set and lock alone *)

IndexWork == {"read", "cleanGraph", "cleanPg", "cleanVec", "insert", "rollbackPg", "rollbackVec"}
DeleteWork == {"deleteObject", "cleanGraph", "cleanPg", "cleanVec"}

\* What the next place may be.
Onward(o) ==
    IF o = "delete" THEN DeleteWork \union {"dropMeta", "idle"}
    ELSE IF op[o].pc = "parsing" THEN {"parseOver", "parseFailed"}
    ELSE IndexWork \union {"indexOver", "indexFailed"}

InnerPlaces(o) == IF o = "delete" THEN DeleteWork ELSE IndexWork \union {"parsing"}

LEMMA InnerKept ==
    ASSUME ControlInv, NEW o \in Coroutines, op[o].pc \in InnerPlaces(o), Moves(o, Onward(o)),
           UNCHANGED <<meta, row, queue, lock>>, harm \subseteq harm'
    PROVE  ControlInv'
  <1> USE DEF ControlInv, Onward, InnerPlaces, IndexWork, DeleteWork
  <1>1. OpTypeOK'
    BY OpKept DEF PlacesOf, Pcs, DeletePlaces
  <1>2. LockInv'
    <2>1. op[o].pc \notin Locked /\ Onward(o) \intersect Locked = {}
      BY DEF Locked
    <2> HIDE DEF Onward
    <2> QED BY <2>1, LockKept
  <1>3. SetInv'
    <2>1. o = "delete" \/ InTry(o)'
      BY DEF Moves, InTry, Protected, Working
    <2> QED BY <2>1, SetKept
  <1>4. DropInv'
    BY DEF Moves, DropInv, Saves
  <1>5. StageInv'
    <2>1. Processing(o)' => Processing(o) /\ StageOf(o)' = StageOf(o)
      BY DEF Moves, Processing, StageOf, Working
    <2>2. meta'.st \in {meta.st, "absent"}
      OBVIOUS
    <2> HIDE DEF Onward
    <2> QED BY <2>1, <2>2, StageKept
  <1> QED BY <1>1, <1>2, <1>3, <1>4, <1>5

Inner(o) == \/ Parsing(o) \/ Read(o) \/ CleanGraph(o) \/ CleanPg(o) \/ CleanVec(o) \/ EmbedFails(o)
            \/ InsertPg(o) \/ InsertVec(o) \/ Inserted(o) \/ RollbackPg(o) \/ RollbackVec(o)
            \/ DeleteObject(o)

LEMMA MovesWithin ==
    ASSUME NEW o \in Coroutines, NEW S, NEW T, Moves(o, S), S \subseteq T
    PROVE  Moves(o, T)
  BY DEF Moves

LEMMA InnerMoves ==
    ASSUME OpTypeOK, NEW o \in Coroutines, Inner(o)
    PROVE  op[o].pc \in InnerPlaces(o) /\ Moves(o, Onward(o))
  <1> USE DEF At, OpTypeOK, PlacesOf, DeletePlaces, InnerPlaces, IndexWork, DeleteWork
  <1> DEFINE Goal == op[o].pc \in InnerPlaces(o) /\ Moves(o, Onward(o))
  <1>1. CASE Parsing(o)
    <2>1. op[o].pc = "parsing" /\ (Goto(o, "parseOver") \/ Goto(o, "parseFailed"))
      BY <1>1 DEF Parsing
    <2> QED BY <2>1, GotoMoves, MovesWithin DEF Onward, Pcs
  <1>2. CASE Read(o)
    <2>1. op[o].pc = "read" /\ (Goto(o, "cleanGraph") \/ Goto(o, "indexFailed"))
      BY <1>2 DEF Read
    <2> QED BY <2>1, GotoMoves, MovesWithin DEF Onward, Pcs
  <1>3. CASE CleanGraph(o)
    <2>1. op[o].pc = "cleanGraph" /\ Goto(o, "cleanPg")
      BY <1>3 DEF CleanGraph
    <2> QED BY <2>1, GotoMoves, MovesWithin DEF Onward, Pcs
  <1>4. CASE CleanPg(o)
    <2>1. op[o].pc = "cleanPg" /\ (Goto(o, "cleanVec") \/ Raise(o))
      BY <1>4 DEF CleanPg
    <2> QED BY <2>1, GotoMoves, FinishMoves, MovesWithin DEF Raise, Onward, Pcs
  <1>5. CASE CleanVec(o)
    <2> DEFINE to == IF o = "delete" THEN "dropMeta" ELSE "insert"
    <2>1. /\ op[o].pc = "cleanVec"
          /\ op' = [op EXCEPT ![o] = [op[o] EXCEPT !.pc = to, !.next = 1, !.todo = BothStores, !.bad = FALSE]]
      BY <1>5 DEF CleanVec
    <2>2. op[o] \in Local /\ to \in Pcs
      BY DEF Pcs
    <2>3. Moves(o, {to})
      <3> HIDE DEF to
      <3> DEFINE r == [op[o] EXCEPT !.pc = to, !.next = 1, !.todo = BothStores, !.bad = FALSE]
      <3>1. r \in Local /\ r.pc = to
        BY <2>2, LocalFresh
      <3>2. op' = [op EXCEPT ![o] = r]
        BY <2>1
      <3> HIDE DEF r
      <3> QED BY <3>1, <3>2, SetOwn
    <2> QED BY <2>1, <2>3, MovesWithin DEF Onward
  <1>6. CASE EmbedFails(o)
    <2>1. op[o].pc = "insert" /\ Goto(o, "indexFailed")
      BY <1>6 DEF EmbedFails
    <2> QED BY <2>1, GotoMoves, MovesWithin DEF Onward, Pcs
  <1>7. CASE InsertPg(o) \/ InsertVec(o)
    <2>1. op[o].pc = "insert" /\ \E store \in BothStores, ok \in BOOLEAN : Wrote(o, store, ok)
      BY <1>7, Zenon DEF InsertPg, InsertVec, BothStores
    <2>2. PICK store \in BothStores, ok \in BOOLEAN : Wrote(o, store, ok)
      BY <2>1
    <2>3. op[o] \in Local /\ (op[o].bad \/ ~ok) \in BOOLEAN
      BY LocalFields
    <2>4. Moves(o, {"insert"})
      <3> DEFINE r == [op[o] EXCEPT !.todo = op[o].todo \ {store}, !.bad = op[o].bad \/ ~ok]
      <3>1. r \in Local /\ r.pc = op[o].pc
        BY <2>3, LocalWrote
      <3>2. op' = [op EXCEPT ![o] = r]
        BY <2>2 DEF Wrote
      <3> HIDE DEF r
      <3> QED BY <2>1, <3>1, <3>2, SetOwn
    <2> QED BY <2>1, <2>4, MovesWithin DEF Onward
  <1>8. CASE Inserted(o)
    <2>1. op[o].pc = "insert" /\ o # "delete"
      BY <1>8 DEF Inserted
    <2>2. op[o] \in Local
      OBVIOUS
    <2>3. CASE BatchFailed(o)
      <3>1. op' = [op EXCEPT ![o] = [op[o] EXCEPT !.pc = "rollbackPg", !.bad = FALSE]]
        BY <1>8, <2>3 DEF Inserted
      <3>2. Moves(o, {"rollbackPg"})
        BY <2>2, <3>1, LocalRollback, SetOwn
      <3> QED BY <2>1, <3>2, MovesWithin DEF Onward
    <2>4. CASE ~BatchFailed(o) /\ op[o].next < NChunks
      <3>1. op' = [op EXCEPT ![o] = [op[o] EXCEPT !.next = op[o].next + 1, !.todo = BothStores]]
        <4>1. op' = [op EXCEPT ![o] =
                       IF BatchFailed(o) THEN [op[o] EXCEPT !.pc = "rollbackPg", !.bad = FALSE]
                       ELSE IF op[o].next < NChunks
                            THEN [op[o] EXCEPT !.next = op[o].next + 1, !.todo = BothStores]
                       ELSE [op[o] EXCEPT !.pc = "indexOver"]]
          BY <1>8 DEF Inserted
        <4> QED BY <4>1, <2>4
      <3>2. Moves(o, {"insert"})
        BY <2>1, <2>2, <2>4, <3>1, LocalNext, SetOwn
      <3> QED BY <2>1, <3>2, MovesWithin DEF Onward
    <2>5. CASE ~BatchFailed(o) /\ ~(op[o].next < NChunks)
      <3>1. op' = [op EXCEPT ![o] = [op[o] EXCEPT !.pc = "indexOver"]]
        BY <1>8, <2>5 DEF Inserted
      <3>2. Moves(o, {"indexOver"})
        BY <2>2, <3>1, LocalOver, SetOwn
      <3> QED BY <2>1, <3>2, MovesWithin DEF Onward
    <2> QED BY <2>3, <2>4, <2>5
  <1>9. CASE RollbackPg(o)
    <2>1. op[o].pc = "rollbackPg" /\ Goto(o, "rollbackVec")
      BY <1>9 DEF RollbackPg
    <2> QED BY <2>1, GotoMoves, MovesWithin DEF Onward, Pcs
  <1>10. CASE RollbackVec(o)
    <2>1. op[o].pc = "rollbackVec" /\ Goto(o, "indexFailed")
      BY <1>10 DEF RollbackVec
    <2> QED BY <2>1, GotoMoves, MovesWithin DEF Onward, Pcs
  <1>11. CASE DeleteObject(o)
    <2>1. op[o].pc = "deleteObject" /\ Goto(o, "cleanGraph")
      BY <1>11 DEF DeleteObject
    <2> QED BY <2>1, GotoMoves, MovesWithin DEF Onward, Pcs
  <1> QED BY <1>1, <1>2, <1>3, <1>4, <1>5, <1>6, <1>7, <1>8, <1>9, <1>10, <1>11 DEF Inner

LEMMA InnerControl ==
    ASSUME ControlInv, NEW o \in Coroutines, Inner(o)
    PROVE  ControlInv'
  <1>1. UNCHANGED <<meta, row, queue, lock>> /\ harm \subseteq harm'
    BY DEF Inner, Parsing, Read, CleanGraph, CleanPg, CleanVec, EmbedFails, InsertPg, InsertVec, Inserted,
           RollbackPg, RollbackVec, DeleteObject, Harm, locks
  <1>2. op[o].pc \in InnerPlaces(o) /\ Moves(o, Onward(o))
    BY InnerMoves DEF ControlInv
  <1> QED BY <1>1, <1>2, InnerKept

LEMMA InnerData ==
    ASSUME DataTypeOK, OpTypeOK, NEW o \in Coroutines, Inner(o)
    PROVE  DataTypeOK'
  <1> USE DEF DataTypeOK, locks, stores
  <1>1. CASE Parsing(o) \/ Read(o) \/ EmbedFails(o) \/ DeleteObject(o) \/ Inserted(o)
    BY <1>1 DEF Parsing, Read, EmbedFails, DeleteObject, Inserted
  <1>2. CASE CleanGraph(o)
    <2>1. graph' \in [Chunks -> BOOLEAN]
      BY <1>2 DEF CleanGraph
    <2> QED BY <1>2, <2>1 DEF CleanGraph
  <1>3. CASE CleanPg(o) \/ RollbackPg(o)
    <2>1. pg' \in [Chunks -> {"none", "pending", "indexed"}]
      BY <1>3 DEF CleanPg, RollbackPg
    <2> QED BY <1>3, <2>1 DEF CleanPg, RollbackPg
  <1>4. CASE CleanVec(o) \/ RollbackVec(o)
    <2>1. vec' \in [Chunks -> Nat]
      BY <1>4 DEF CleanVec, RollbackVec, NoCopies
    <2> QED BY <1>4, <2>1 DEF CleanVec, RollbackVec
  <1>5. CASE InsertPg(o)
    <2>1. pg' \in [Chunks -> {"none", "pending", "indexed"}]
      BY <1>5 DEF InsertPg
    <2> QED BY <1>5, <2>1 DEF InsertPg
  <1>6. CASE InsertVec(o)
    <2>1. op[o].next \in Chunks
      BY LocalFields DEF OpTypeOK
    <2>2. vec' = vec \/ vec' = [vec EXCEPT ![op[o].next] = vec[op[o].next] + 1]
      BY <1>6 DEF InsertVec
    <2>3. \A c \in Chunks, n \in Nat : [vec EXCEPT ![c] = n] \in [Chunks -> Nat]
      OBVIOUS
    <2>4. vec[op[o].next] + 1 \in Nat
      BY <2>1
    <2>5. vec' \in [Chunks -> Nat]
      BY <2>1, <2>2, <2>3, <2>4
    <2> QED BY <1>6, <2>5 DEF InsertVec
  <1> QED BY <1>1, <1>2, <1>3, <1>4, <1>5, <1>6 DEF Inner

-----------------------------------------------------------------------------
(* The writes of the row *)

LEMMA PersistMoves ==
    ASSUME OpTypeOK, NEW o \in Coroutines, Persist(o)
    PROVE  \E to \in {"parse", "parsing", "params", "index", "read", "idle"} :
              /\ Moves(o, {to})
              /\ op[o].pc = "saveParsing" <=> to = "parsing"
              /\ op[o].pc = "saveIndexing" <=> to = "read"
  <1> DEFINE to == CASE op[o].pc = "saveAdded" -> "parse"
                     [] op[o].pc = "saveParsing" -> "parsing"
                     [] op[o].pc \in {"saveParsed", "saveParseError"} -> AfterParse(o)
                     [] op[o].pc = "saveParams" -> "index"
                     [] op[o].pc = "saveIndexing" -> "read"
                     [] OTHER -> "idle"
  <1>1. Continue(o, to)
    BY DEF Persist
  <1>2. /\ to \in {"parse", "parsing", "params", "index", "read", "idle"}
        /\ op[o].pc = "saveParsing" <=> to = "parsing"
        /\ op[o].pc = "saveIndexing" <=> to = "read"
    BY AfterParsePlace
  <1> HIDE DEF to
  <1>3. to \in Pcs
    BY <1>2 DEF Pcs
  <1>4. Moves(o, {to})
    BY <1>1, <1>3, ContinueMoves DEF OpTypeOK
  <1> QED BY <1>2, <1>4

LEMMA PersistControl ==
    ASSUME ControlInv, DataTypeOK, NEW o \in Coroutines, Persist(o)
    PROVE  ControlInv' /\ DataTypeOK'
  <1> USE DEF ControlInv
  <1>1. PICK to \in {"parse", "parsing", "params", "index", "read", "idle"} :
              /\ Moves(o, {to})
              /\ op[o].pc = "saveParsing" <=> to = "parsing"
              /\ op[o].pc = "saveIndexing" <=> to = "read"
    BY PersistMoves
  <1>2. op[o].pc \in Saves /\ o # "delete"
    BY DEF Persist, OpTypeOK, PlacesOf, DeletePlaces, Saves
  <1>3. OpTypeOK'
    <2>1. {to} \subseteq PlacesOf(o)
      BY <1>2 DEF PlacesOf, Pcs
    <2> QED BY <1>1, <2>1, OpKept
  <1>4. LockInv'
    <2>1. lock' = IF op[o].pc \in Locked THEN Nobody ELSE lock
      BY ReleaseIs DEF Persist
    <2>2. {to} \intersect Locked = {}
      BY DEF Locked
    <2> QED BY <1>1, <2>1, <2>2, LockKept
  <1>5. SetInv'
    <2>1. queue' => (queue /\ ~InTry(o)) \/ to \in {"parsing", "read"}
      BY <1>1, <1>2 DEF Persist, Saves, InTry, Protected, Working
    <2>2. to \in {"parsing", "read"} => InTry(o)'
      BY <1>1 DEF Moves, InTry, Protected, Working
    <2> QED BY <1>1, <1>2, <2>1, <2>2, SetKept
  <1>6. DropInv'
    <2>1. op[o].snap.st \in FileStatus /\ row' = op[o].snap /\ meta' = meta
      BY <1>2 DEF DropInv, Persist
    <2>2. to \notin Saves /\ to # "dropRow"
      BY DEF Saves
    <2>3. row'.st # "absent"
      BY <2>1 DEF FileStatus
    <2> QED BY <1>1, <2>1, <2>2, <2>3 DEF Moves, DropInv
  <1>7. StageInv'
    <2>1. Processing(o)' => Processing(o) /\ StageOf(o)' = StageOf(o)
      BY <1>1, <1>2 DEF Moves, Processing, StageOf, Working
    <2>2. meta'.st \in {meta.st, "absent"} /\ harm \subseteq harm'
      BY DEF Persist, Harm
    <2> QED BY <1>1, <2>1, <2>2, StageKept
  <1>8. DataTypeOK'
    <2>1. op[o].snap \in Record /\ row' = op[o].snap
      BY DEF OpTypeOK, Local, Persist
    <2>2. queue' \in BOOLEAN
      BY DEF Persist, DataTypeOK
    <2> QED BY <2>1, <2>2 DEF Persist, DataTypeOK, stores
  <1> QED BY <1>3, <1>4, <1>5, <1>6, <1>7, <1>8

LEMMA PersistFailsMoves ==
    ASSUME OpTypeOK, NEW o \in Coroutines, PersistFails(o)
    PROVE  \E to \in {"parseFailed", "indexFailed", "params", "idle"} :
              /\ Moves(o, {to})
              /\ op[o].pc \in {"saveParsed", "saveIndexed"} => to \in {"parseFailed", "indexFailed"}
  <1> DEFINE to == CASE op[o].pc = "saveParsed" -> "parseFailed"
                     [] op[o].pc = "saveIndexed" -> "indexFailed"
                     [] op[o].pc \in {"saveParsing", "saveParseError"} -> AfterParse(o)
                     [] OTHER -> "idle"
  <1>1. Continue(o, to)
    BY DEF PersistFails
  <1>2. /\ to \in {"parseFailed", "indexFailed", "params", "idle"}
        /\ op[o].pc \in {"saveParsed", "saveIndexed"} => to \in {"parseFailed", "indexFailed"}
    BY AfterParsePlace
  <1> HIDE DEF to
  <1>3. to \in Pcs
    BY <1>2 DEF Pcs
  <1>4. Moves(o, {to})
    BY <1>1, <1>3, ContinueMoves DEF OpTypeOK
  <1> QED BY <1>2, <1>4

LEMMA PersistFailsControl ==
    ASSUME ControlInv, DataTypeOK, NEW o \in Coroutines, PersistFails(o)
    PROVE  ControlInv' /\ DataTypeOK'
  <1> USE DEF ControlInv
  <1>1. PICK to \in {"parseFailed", "indexFailed", "params", "idle"} :
              /\ Moves(o, {to})
              /\ op[o].pc \in {"saveParsed", "saveIndexed"} => to \in {"parseFailed", "indexFailed"}
    BY PersistFailsMoves
  <1>2. op[o].pc \in Saves /\ o # "delete"
    BY DEF PersistFails, OpTypeOK, PlacesOf, DeletePlaces, Saves
  <1>3. OpTypeOK'
    <2>1. {to} \subseteq PlacesOf(o)
      BY <1>2 DEF PlacesOf, Pcs
    <2> QED BY <1>1, <2>1, OpKept
  <1>4. LockInv'
    <2>1. lock' = IF op[o].pc \in Locked THEN Nobody ELSE lock
      BY ReleaseIs DEF PersistFails
    <2>2. {to} \intersect Locked = {}
      BY DEF Locked
    <2> QED BY <1>1, <2>1, <2>2, LockKept
  <1>5. SetInv'
    <2>1. queue' => (queue /\ ~InTry(o)) \/ op[o].pc \in {"saveParsed", "saveIndexed"}
      BY <1>2 DEF PersistFails, Saves, InTry, Protected, Working
    <2>2. op[o].pc \in {"saveParsed", "saveIndexed"} => InTry(o)'
      BY <1>1 DEF Moves, InTry, Protected, Working
    <2> QED BY <1>1, <1>2, <2>1, <2>2, SetKept
  <1>6. DropInv'
    <2>1. to \notin Saves /\ to # "dropRow"
      BY DEF Saves
    <2> QED BY <1>1, <2>1 DEF Moves, DropInv, PersistFails
  <1>7. StageInv'
    <2>1. ~Processing(o)'
      BY <1>1 DEF Moves, Processing, Working
    <2>2. meta'.st \in {meta.st, "absent"} /\ harm \subseteq harm'
      BY DEF PersistFails
    <2> QED BY <1>1, <2>1, <2>2, StageKept
  <1>8. DataTypeOK'
    BY DEF PersistFails, DataTypeOK, stores
  <1> QED BY <1>3, <1>4, <1>5, <1>6, <1>7, <1>8

-----------------------------------------------------------------------------
(* Steps that set a status: the file's status lets nobody else in *)

\* Nobody is at work on a file whose status is none of the two.
LEMMA NobodyAtWork ==
    ASSUME StageInv, Calm, meta.st \notin {"parsing", "indexing", "absent"}
    PROVE  \A p \in Coroutines : ~Processing(p)
  BY DEF StageInv, Staged, StageOf

\* A coroutine that sets the status while nobody is at work.
LEMMA StageSet ==
    ASSUME StageInv, NEW o \in Coroutines, NEW S, Moves(o, S), harm \subseteq harm',
           Calm' => \A p \in Coroutines \ {o} : ~Processing(p),
           Processing(o)' => meta'.st = StageOf(o)'
    PROVE  StageInv'
  <1> SUFFICES ASSUME Calm' PROVE Staged'
    BY DEF StageInv
  <1>1. \A p \in Coroutines \ {o} : ~Processing(p)'
    BY DEF Moves, Processing
  <1> QED BY <1>1 DEF Staged

LEMMA ParseControl ==
    ASSUME ControlInv, DataTypeOK, NEW o \in Coroutines, Parse(o)
    PROVE  ControlInv' /\ DataTypeOK'
  <1> USE DEF ControlInv
  <1>1. op[o].pc = "parse" /\ o # "delete"
    BY DEF Parse, At, OpTypeOK, PlacesOf, DeletePlaces
  <1>2. CASE Parseable
    <2>1. Assign(o, "parsing", meta.md, "saveParsing")
      BY <1>2 DEF Parse
    <2>2. Moves(o, {"saveParsing"}) /\ meta' \in Record /\ meta'.st = "parsing" /\ op'[o].snap.st = "parsing"
      BY ZenonT(40), <2>1, AssignMoves DEF OpTypeOK, Pcs, FileStatus, DataTypeOK, Record
    <2>3. OpTypeOK'
      BY <1>1, <2>2, OpKept DEF PlacesOf, Pcs
    <2>4. LockInv'
      BY <1>1, <2>2, LockKept DEF Parse, locks, Locked
    <2>5. SetInv'
      BY <1>1, <2>2, SetKept DEF Parse, locks, InTry, Protected, Working
    <2>6. DropInv'
      BY <1>1, <1>2, <2>2 DEF Parse, Moves, DropInv, Parseable, FileStatus, Locked
    <2>7. StageInv'
      <3>1. Calm' => \A p \in Coroutines \ {o} : ~Processing(p)
        BY <1>2, NobodyAtWork DEF Parse, Parseable, Calm
      <3>2. Processing(o)' => meta'.st = StageOf(o)'
        BY <2>2 DEF Moves, StageOf
      <3> QED BY <2>2, <3>1, <3>2, StageSet DEF Parse
    <2>8. DataTypeOK'
      BY <2>2 DEF Parse, DataTypeOK, stores, locks
    <2> QED BY <2>3, <2>4, <2>5, <2>6, <2>7, <2>8
  <1>3. CASE ~Parseable
    <2> DEFINE to == AfterParse(o)
    <2>1. to \in {"params", "idle"} /\ to \in Pcs
      BY AfterParsePlace
    <2>2. Continue(o, to) /\ UNCHANGED <<meta, row, queue, lock, harm>>
      BY <1>3 DEF Parse, locks
    <2> HIDE DEF to
    <2>3. Moves(o, {to})
      BY <2>1, <2>2, ContinueMoves DEF OpTypeOK
    <2>4. OpTypeOK'
      BY <1>1, <2>1, <2>3, OpKept DEF PlacesOf
    <2>5. LockInv'
      BY <1>1, <2>1, <2>2, <2>3, LockKept DEF Locked
    <2>6. SetInv'
      BY <1>1, <2>2, <2>3, SetKept DEF InTry, Protected, Working
    <2>7. DropInv'
      BY <2>1, <2>2, <2>3 DEF Moves, DropInv, Saves
    <2>8. StageInv'
      <3>1. ~Processing(o)'
        BY <2>1, <2>3 DEF Moves, Processing, Working
      <3> QED BY <2>2, <2>3, <3>1, StageKept
    <2>9. DataTypeOK'
      BY <2>2 DEF Parse, DataTypeOK, stores
    <2> QED BY <2>4, <2>5, <2>6, <2>7, <2>8, <2>9
  <1> QED BY <1>2, <1>3

LEMMA ParseEndsControl ==
    ASSUME ControlInv, DataTypeOK, NEW o \in Coroutines,
           NEW pc \in {"parseOver", "parseFailed"}, NEW st \in FileStatus, NEW md \in BOOLEAN,
           NEW save \in {"saveParsed", "saveParseError"}, ParseEnds(o, pc, st, md, save)
    PROVE  ControlInv' /\ DataTypeOK'
  <1> USE DEF ControlInv
  <1>1. op[o].pc = pc /\ o # "delete"
    BY DEF ParseEnds, At, OpTypeOK, PlacesOf, DeletePlaces
  <1>2. CASE Exists
    <2>1. Assign(o, st, md, save) /\ Overwrites(o) /\ UNCHANGED <<row, queue, lock>>
      BY <1>2 DEF ParseEnds
    <2>2. Moves(o, {save}) /\ meta' \in Record /\ meta'.st = st /\ op'[o].snap.st = st
      <3>1. save \in Pcs
        BY DEF Pcs
      <3> QED BY <2>1, <3>1, AssignMoves DEF OpTypeOK
    <2>3. OpTypeOK'
      BY <1>1, <2>2, OpKept DEF PlacesOf, Pcs
    <2>4. LockInv'
      BY <1>1, <2>1, <2>2, LockKept DEF Locked
    <2>5. SetInv'
      <3>1. InTry(o)'
        BY <2>2 DEF Moves, InTry, Protected
      <3> QED BY <1>1, <2>2, <3>1, SetKept
    <2>6. DropInv'
      BY <1>2, <2>1, <2>2 DEF Exists, Moves, DropInv, FileStatus, Locked
    <2>7. StageInv'
      <3>1. harm \subseteq harm' /\ (Calm' => \A p \in Coroutines \ {o} : ~Processing(p))
        BY <2>1 DEF Overwrites, Harm, Calm
      <3>2. ~Processing(o)'
        BY <2>2 DEF Moves, Processing, Working
      <3> QED BY <2>2, <3>1, <3>2, StageSet
    <2>8. DataTypeOK'
      BY <2>1, <2>2 DEF ParseEnds, DataTypeOK, stores
    <2> QED BY <2>3, <2>4, <2>5, <2>6, <2>7, <2>8
  <1>3. CASE ~Exists
    <2> DEFINE to == AfterParse(o)
    <2>1. to \in {"params", "idle"} /\ to \in Pcs
      BY AfterParsePlace
    <2>2. Continue(o, to) /\ UNCHANGED <<meta, row, lock, harm>> /\ queue' = FALSE
      BY <1>3 DEF ParseEnds
    <2> HIDE DEF to
    <2>3. Moves(o, {to})
      BY <2>1, <2>2, ContinueMoves DEF OpTypeOK
    <2>4. OpTypeOK'
      BY <1>1, <2>1, <2>3, OpKept DEF PlacesOf
    <2>5. LockInv'
      BY <1>1, <2>1, <2>2, <2>3, LockKept DEF Locked
    <2>6. SetInv'
      BY <2>2 DEF SetInv
    <2>7. DropInv'
      BY <2>1, <2>2, <2>3 DEF Moves, DropInv, Saves
    <2>8. StageInv'
      <3>1. ~Processing(o)'
        BY <2>1, <2>3 DEF Moves, Processing, Working
      <3> QED BY <2>2, <2>3, <3>1, StageKept
    <2>9. DataTypeOK'
      BY <2>2 DEF ParseEnds, DataTypeOK, stores
    <2> QED BY <2>4, <2>5, <2>6, <2>7, <2>8, <2>9
  <1> QED BY <1>2, <1>3

LEMMA ParamsControl ==
    ASSUME ControlInv, DataTypeOK, NEW o \in Coroutines, Params(o)
    PROVE  ControlInv' /\ DataTypeOK'
  <1> USE DEF ControlInv
  <1>1. op[o].pc = "params" /\ o # "delete" /\ UNCHANGED <<row, queue, lock, harm>>
    BY DEF Params, At, OpTypeOK, PlacesOf, DeletePlaces, locks
  <1>2. \E to \in {"saveParams", "idle"} :
           /\ Moves(o, {to}) /\ meta' \in Record /\ meta'.st = meta.st
           /\ to = "saveParams" => op'[o].snap.st \in FileStatus
    <2>1. CASE Exists
      <3>1. Assign(o, meta.st, meta.md, "saveParams") /\ meta.st \in FileStatus
        BY <2>1 DEF Params, Exists
      <3> QED BY <3>1, AssignMoves DEF OpTypeOK, Pcs, DataTypeOK, Record
    <2>2. CASE ~Exists
      BY <2>2, FinishMoves DEF Params, OpTypeOK, DataTypeOK
    <2> QED BY <2>1, <2>2
  <1>3. PICK to \in {"saveParams", "idle"} :
           /\ Moves(o, {to}) /\ meta' \in Record /\ meta'.st = meta.st
           /\ to = "saveParams" => op'[o].snap.st \in FileStatus
    BY <1>2
  <1>4. OpTypeOK'
    BY <1>1, <1>3, OpKept DEF PlacesOf, Pcs
  <1>5. LockInv'
    BY <1>1, <1>3, LockKept DEF Locked
  <1>6. SetInv'
    BY <1>1, <1>3, SetKept DEF InTry, Protected, Working
  <1>7. DropInv'
    BY <1>1, <1>3 DEF Moves, DropInv, Saves, Locked
  <1>8. StageInv'
    <2>1. ~Processing(o)'
      BY <1>3 DEF Moves, Processing, Working
    <2> QED BY <1>1, <1>3, <2>1, StageKept
  <1>9. DataTypeOK'
    BY <1>1, <1>3 DEF Params, DataTypeOK, stores
  <1> QED BY <1>4, <1>5, <1>6, <1>7, <1>8, <1>9

LEMMA IndexControl ==
    ASSUME ControlInv, DataTypeOK, NEW o \in Coroutines, Index(o)
    PROVE  ControlInv' /\ DataTypeOK'
  <1> USE DEF ControlInv
  <1>1. op[o].pc = "index" /\ o # "delete" /\ lock = Nobody /\ UNCHANGED <<row, queue>> /\ harm \subseteq harm'
    BY DEF Index, At, OpTypeOK, PlacesOf, DeletePlaces, LockFree, Harm
  <1>2. CASE Indexable
    <2>1. /\ lock' = o
          /\ \/ Assign(o, "indexing", TRUE, "saveIndexing")
             \/ Assign(o, "uploaded", FALSE, "saveNoMarkdown")
      BY <1>2 DEF Index
    <2>2. \E to \in {"saveIndexing", "saveNoMarkdown"} :
             /\ Moves(o, {to}) /\ meta' \in Record /\ meta'.st \in FileStatus
             /\ op'[o].snap.st = meta'.st
             /\ to = "saveIndexing" => meta'.st = "indexing"
      <3>1. CASE Assign(o, "indexing", TRUE, "saveIndexing")
        BY <3>1, AssignMoves DEF OpTypeOK, Pcs, FileStatus
      <3>2. CASE Assign(o, "uploaded", FALSE, "saveNoMarkdown")
        BY <3>2, AssignMoves DEF OpTypeOK, Pcs, FileStatus
      <3> QED BY <2>1, <3>1, <3>2
    <2>3. PICK to \in {"saveIndexing", "saveNoMarkdown"} :
             /\ Moves(o, {to}) /\ meta' \in Record /\ meta'.st \in FileStatus
             /\ op'[o].snap.st = meta'.st
             /\ to = "saveIndexing" => meta'.st = "indexing"
      BY <2>2
    <2>4. OpTypeOK'
      BY <1>1, <2>3, OpKept DEF PlacesOf, Pcs
    <2>5. LockInv'
      <3>1. {to} \subseteq Locked /\ lock = Nobody /\ lock' = o
        BY <1>1, <1>2 DEF Index, Locked
      <3> QED BY <2>3, <3>1, LockKept
    <2>6. SetInv'
      BY <1>1, <2>3, SetKept DEF InTry, Protected, Working
    <2>7. DropInv'
      BY <1>1, <1>2, <2>3 DEF Moves, DropInv, Indexable, FileStatus
    <2>8. StageInv'
      <3>1. Calm' => \A p \in Coroutines \ {o} : ~Processing(p)
        BY <1>1, <1>2, NobodyAtWork DEF Indexable, Calm
      <3>2. Processing(o)' => meta'.st = StageOf(o)'
        BY <2>3 DEF Moves, StageOf, Processing, Working
      <3> QED BY <1>1, <2>3, <3>1, <3>2, StageSet
    <2>9. DataTypeOK'
      BY <2>3 DEF Index, DataTypeOK, stores
    <2> QED BY <2>4, <2>5, <2>6, <2>7, <2>8, <2>9
  <1>3. CASE ~Indexable
    <2>1. Finish(o) /\ UNCHANGED <<meta, lock>>
      BY <1>3 DEF Index
    <2>2. Moves(o, {"idle"})
      BY <2>1, FinishMoves DEF OpTypeOK
    <2>3. OpTypeOK'
      BY <1>1, <2>2, OpKept DEF PlacesOf, Pcs
    <2>4. LockInv'
      BY <1>1, <2>1, <2>2, LockKept DEF Locked
    <2>5. SetInv'
      BY <1>1, <2>2, SetKept DEF InTry, Protected, Working
    <2>6. DropInv'
      BY <1>1, <2>1, <2>2 DEF Moves, DropInv, Saves
    <2>7. StageInv'
      <3>1. ~Processing(o)'
        BY <2>2 DEF Moves, Processing, Working
      <3> QED BY <1>1, <2>1, <2>2, <3>1, StageKept
    <2>8. DataTypeOK'
      BY <1>1, <2>1 DEF Index, DataTypeOK, stores
    <2> QED BY <2>3, <2>4, <2>5, <2>6, <2>7, <2>8
  <1> QED BY <1>2, <1>3

LEMMA IndexEndsControl ==
    ASSUME ControlInv, DataTypeOK, NEW o \in Coroutines,
           NEW pc \in {"indexOver", "indexFailed"}, NEW st \in FileStatus,
           NEW save \in {"saveIndexed", "saveIndexError"}, IndexEnds(o, pc, st, save)
    PROVE  ControlInv' /\ DataTypeOK'
  <1> USE DEF ControlInv
  <1>1. op[o].pc = pc /\ o # "delete" /\ lock = Nobody
    BY DEF IndexEnds, At, OpTypeOK, PlacesOf, DeletePlaces, LockFree
  <1>2. CASE Exists
    <2>1. Assign(o, st, meta.md, save) /\ Overwrites(o) /\ lock' = o /\ UNCHANGED <<row, queue>>
      BY <1>2 DEF IndexEnds
    <2>2. Moves(o, {save}) /\ meta' \in Record /\ meta'.st = st /\ op'[o].snap.st = st
      <3>1. save \in Pcs /\ meta.md \in BOOLEAN
        BY DEF Pcs, DataTypeOK, Record
      <3> QED BY <2>1, <3>1, AssignMoves DEF OpTypeOK
    <2>3. OpTypeOK'
      BY <1>1, <2>2, OpKept DEF PlacesOf, Pcs
    <2>4. LockInv'
      <3>1. {save} \subseteq Locked /\ lock = Nobody /\ lock' = o
        BY <1>1, <2>1 DEF Locked
      <3> QED BY <2>2, <3>1, LockKept
    <2>5. SetInv'
      <3>1. InTry(o)'
        BY <2>2 DEF Moves, InTry, Protected
      <3> QED BY <1>1, <2>2, <3>1, SetKept
    <2>6. DropInv'
      BY <1>2, <2>1, <2>2 DEF Exists, Moves, DropInv, FileStatus
    <2>7. StageInv'
      <3>1. harm \subseteq harm' /\ (Calm' => \A p \in Coroutines \ {o} : ~Processing(p))
        BY <2>1 DEF Overwrites, Harm, Calm
      <3>2. ~Processing(o)'
        BY <2>2 DEF Moves, Processing, Working
      <3> QED BY <2>2, <3>1, <3>2, StageSet
    <2>8. DataTypeOK'
      BY <2>1, <2>2 DEF IndexEnds, DataTypeOK, stores
    <2> QED BY <2>3, <2>4, <2>5, <2>6, <2>7, <2>8
  <1>3. CASE ~Exists
    <2>1. Finish(o) /\ UNCHANGED <<meta, row, lock, harm>> /\ queue' = FALSE
      BY <1>3 DEF IndexEnds
    <2>2. Moves(o, {"idle"})
      BY <2>1, FinishMoves DEF OpTypeOK
    <2>3. OpTypeOK'
      BY <1>1, <2>2, OpKept DEF PlacesOf, Pcs
    <2>4. LockInv'
      BY <1>1, <2>1, <2>2, LockKept DEF Locked
    <2>5. SetInv'
      BY <2>1 DEF SetInv
    <2>6. DropInv'
      BY <2>1, <2>2 DEF Moves, DropInv, Saves
    <2>7. StageInv'
      <3>1. ~Processing(o)'
        BY <2>2 DEF Moves, Processing, Working
      <3> QED BY <2>1, <2>2, <3>1, StageKept
    <2>8. DataTypeOK'
      BY <2>1 DEF IndexEnds, DataTypeOK, stores
    <2> QED BY <2>3, <2>4, <2>5, <2>6, <2>7, <2>8
  <1> QED BY <1>2, <1>3

-----------------------------------------------------------------------------
(* The end of a delete *)

LEMMA AbsentType == None("absent") \in Record /\ None("absent").st = "absent"
  BY DEF None, Record

LEMMA DropMetaControl ==
    ASSUME ControlInv, DataTypeOK, NEW o \in Coroutines, DropMeta(o)
    PROVE  ControlInv' /\ DataTypeOK'
  <1> USE DEF ControlInv
  <1>1. op[o].pc = "dropMeta" /\ o = "delete" /\ lock = Nobody /\ UNCHANGED <<row, queue, harm>>
    BY DEF DropMeta, At, OpTypeOK, PlacesOf, LockFree
  <1>2. \/ Goto(o, "dropRow") /\ lock' = o /\ meta' = None("absent")
        \/ Finish(o) /\ UNCHANGED <<meta, lock>>
    BY DEF DropMeta
  <1>3. \/ Moves(o, {"dropRow"}) /\ lock' = o /\ meta' = None("absent")
        \/ Moves(o, {"idle"}) /\ UNCHANGED <<meta, lock>>
    BY <1>2, GotoMoves, FinishMoves DEF OpTypeOK, Pcs
  <1>4. meta'.st \in {meta.st, "absent"} /\ meta' \in Record
    BY <1>3, AbsentType DEF DataTypeOK
  <1>5. Moves(o, {"dropRow", "idle"})
    BY <1>3, MovesWithin
  <1>6. OpTypeOK'
    BY <1>1, <1>5, OpKept DEF PlacesOf, DeletePlaces
  <1>7. LockInv'
    BY <1>1, <1>3, LockKept DEF Locked
  <1>8. SetInv'
    BY <1>1, <1>5, SetKept
  <1>9. DropInv'
    <2>1. \A p \in Coroutines : op[p].pc \notin Locked
      BY <1>1 DEF LockInv, Nobody, Coroutines
    <2>2. op'[o].pc \notin Saves /\ (op'[o].pc = "dropRow" => meta'.st = "absent")
      BY <1>3 DEF Moves, Saves, None
    <2>3. \A p \in Coroutines : op[p].pc # "dropRow" /\ op[p].pc \notin Saves \intersect Locked
      BY <2>1 DEF Locked
    <2>4. row'.st = "absent" => meta'.st = "absent"
      BY <1>1, <1>4 DEF DropInv
    <2> QED BY <1>5, <2>2, <2>3, <2>4 DEF Moves, DropInv
  <1>10. StageInv'
    <2>1. ~Processing(o)'
      BY <1>1 DEF Processing
    <2> QED BY <1>1, <1>4, <1>5, <2>1, StageKept
  <1>11. DataTypeOK'
    BY <1>1, <1>4 DEF DropMeta, DataTypeOK, stores
  <1> QED BY <1>6, <1>7, <1>8, <1>9, <1>10, <1>11

LEMMA DropRowControl ==
    ASSUME ControlInv, DataTypeOK, NEW o \in Coroutines, DropRow(o)
    PROVE  ControlInv' /\ DataTypeOK'
  <1> USE DEF ControlInv
  <1>1. op[o].pc = "dropRow" /\ o = "delete" /\ lock' = Nobody /\ UNCHANGED <<meta, queue, harm>>
    BY DEF DropRow, At, OpTypeOK, PlacesOf
  <1>2. Moves(o, {"idle"})
    BY FinishMoves DEF DropRow, OpTypeOK
  <1>3. row' \in {row, None("absent")} /\ meta.st = "absent"
    BY <1>1 DEF DropRow, DropInv
  <1>4. OpTypeOK'
    BY <1>1, <1>2, OpKept DEF PlacesOf, DeletePlaces
  <1>5. LockInv'
    BY <1>1, <1>2, LockKept DEF Locked
  <1>6. SetInv'
    BY <1>1, <1>2, SetKept
  <1>7. DropInv'
    BY <1>1, <1>2, <1>3 DEF Moves, DropInv, Saves
  <1>8. StageInv'
    <2>1. ~Processing(o)'
      BY <1>1 DEF Processing
    <2> QED BY <1>1, <1>2, <2>1, StageKept
  <1>9. DataTypeOK'
    <2>1. row' \in Record
      BY <1>3, AbsentType DEF DataTypeOK
    <2>2. pg' \in [Chunks -> {"none", "pending", "indexed"}]
      BY DEF DropRow, DataTypeOK
    <2> QED BY <1>1, <2>1, <2>2 DEF DropRow, DataTypeOK
  <1> QED BY <1>4, <1>5, <1>6, <1>7, <1>8, <1>9

-----------------------------------------------------------------------------
(* Submissions, cuts, listings, stray calls and restarts *)

LEMMA StartControl ==
    ASSUME ControlInv, DataTypeOK, NEW o \in Coroutines, Start(o)
    PROVE  ControlInv' /\ DataTypeOK'
  <1> USE DEF ControlInv
  <1>1. op[o].pc = "idle" /\ UNCHANGED <<row, queue, lock>> /\ harm \subseteq harm'
    BY DEF Start, At, locks, Harm
  <1>2. \E to \in {"saveAdded", "parse", "index", "params", "deleteObject"} :
           /\ Moves(o, {to}) /\ meta' \in Record
           /\ o = "delete" <=> to = "deleteObject"
           /\ \/ to # "saveAdded" /\ meta' = meta
              \/ meta.st = "new" /\ meta'.st = "uploaded" /\ op'[o].snap.st = "uploaded"
    <2>1. CASE o = "ingest" /\ meta.st = "new" /\ Assign(o, "uploaded", FALSE, "saveAdded")
      BY <2>1, AssignMoves DEF OpTypeOK, Pcs, FileStatus
    <2>2. CASE o \in {"parse", "index"} /\ Goto(o, o) /\ UNCHANGED meta
      <3>1. o \in Pcs
        BY <2>2 DEF Pcs
      <3> QED BY <2>2, <3>1, GotoMoves DEF OpTypeOK, DataTypeOK
    <2>3. CASE o = "index" /\ Goto(o, "params") /\ UNCHANGED meta
      BY <2>3, GotoMoves DEF OpTypeOK, DataTypeOK, Pcs
    <2>4. CASE o = "delete" /\ Goto(o, "deleteObject") /\ UNCHANGED meta
      BY <2>4, GotoMoves DEF OpTypeOK, DataTypeOK, Pcs
    <2> QED BY <2>1, <2>2, <2>3, <2>4 DEF Start
  <1>3. PICK to \in {"saveAdded", "parse", "index", "params", "deleteObject"} :
           /\ Moves(o, {to}) /\ meta' \in Record
           /\ o = "delete" <=> to = "deleteObject"
           /\ \/ to # "saveAdded" /\ meta' = meta
              \/ meta.st = "new" /\ meta'.st = "uploaded" /\ op'[o].snap.st = "uploaded"
    BY <1>2
  <1>4. OpTypeOK'
    BY <1>3, OpKept DEF PlacesOf, Pcs, DeletePlaces
  <1>5. LockInv'
    BY <1>1, <1>3, LockKept DEF Locked
  <1>6. SetInv'
    BY <1>1, <1>3, SetKept DEF InTry, Protected, Working
  <1>7. DropInv'
    BY <1>1, <1>3 DEF Moves, DropInv, Saves, Locked, FileStatus
  <1>8. ~Processing(o)'
    BY <1>3 DEF Moves, Processing, Working
  <1>9. StageInv'
    <2>1. CASE meta' = meta
      BY <1>1, <1>3, <1>8, <2>1, StageKept
    <2>2. CASE meta.st = "new"
      <3>1. Calm' => \A p \in Coroutines \ {o} : ~Processing(p)
        BY <1>1, <2>2, NobodyAtWork DEF Calm
      <3> QED BY <1>1, <1>3, <1>8, <3>1, StageSet
    <2> QED BY <1>3, <2>1, <2>2
  <1>10. DataTypeOK'
    BY <1>1, <1>3 DEF Start, DataTypeOK, stores
  <1> QED BY <1>4, <1>5, <1>6, <1>7, <1>9, <1>10

LEMMA CancelControl ==
    ASSUME ControlInv, DataTypeOK, NEW o \in Coroutines, Cancel(o)
    PROVE  ControlInv' /\ DataTypeOK'
  <1> USE DEF ControlInv
  <1>1. UNCHANGED <<meta, row, harm>> /\ o # "delete" /\ queue' = IF InTry(o) THEN FALSE ELSE queue
    BY DEF Cancel
  <1>2. Moves(o, {"idle"})
    BY FinishMoves DEF Cancel, OpTypeOK
  <1>3. OpTypeOK'
    BY <1>2, OpKept DEF PlacesOf, Pcs, DeletePlaces
  <1>4. LockInv'
    <2>1. lock' = IF op[o].pc \in Locked THEN Nobody ELSE lock
      BY ReleaseIs DEF Cancel
    <2>2. {"idle"} \intersect Locked = {}
      BY DEF Locked
    <2> QED BY <1>2, <2>1, <2>2, LockKept
  <1>5. SetInv'
    BY <1>1, <1>2, SetKept
  <1>6. DropInv'
    BY <1>1, <1>2 DEF Moves, DropInv, Saves
  <1>7. StageInv'
    <2>1. ~Processing(o)'
      BY <1>2 DEF Moves, Processing, Working
    <2> QED BY <1>1, <1>2, <2>1, StageKept
  <1>8. DataTypeOK'
    <2>1. op[o].next \in Chunks
      BY LocalFields DEF OpTypeOK
    <2>2. stray' \in {-1, 0} \union Chunks
      BY <2>1 DEF Cancel, DataTypeOK
    <2>3. queue' \in BOOLEAN
      BY <1>1 DEF DataTypeOK
    <2> QED BY <1>1, <2>2, <2>3 DEF Cancel, DataTypeOK
  <1> QED BY <1>3, <1>4, <1>5, <1>6, <1>7, <1>8

LEMMA ListControl ==
    ASSUME ControlInv, DataTypeOK, List
    PROVE  ControlInv' /\ DataTypeOK'
  <1> USE DEF ControlInv
  <1>1. UNCHANGED <<row, parsed, queue, lock, pg, vec, graph, stray, op>> /\ meta.st \in {"parsing", "indexing"}
    BY DEF List, locks, stores
  <1>2. meta' \in Record /\ meta'.st \in {"error_parsing", "error_indexing"}
    BY DEF List, DataTypeOK, Record, FileStatus
  <1>3. OpTypeOK' /\ LockInv' /\ SetInv'
    BY <1>1 DEF OpTypeOK, LockInv, SetInv, InTry
  <1>4. DropInv'
    BY <1>1, <1>2 DEF DropInv
  <1>5. StageInv'
    <2> SUFFICES ASSUME Calm' PROVE Staged'
      BY DEF StageInv
    <2>1. \A p \in Coroutines : ~Processing(p)
      BY DEF List, Harm, Calm
    <2> QED BY <1>1, <2>1 DEF Staged, Processing
  <1>6. DataTypeOK'
    BY <1>1, <1>2 DEF DataTypeOK
  <1> QED BY <1>3, <1>4, <1>5, <1>6

LEMMA StrayControl ==
    ASSUME ControlInv, DataTypeOK, StrayCall
    PROVE  ControlInv' /\ DataTypeOK'
  <1> USE DEF ControlInv
  <1>1. UNCHANGED <<meta, row, parsed, queue, lock, pg, graph, op>> /\ stray' = 0 /\ harm \subseteq harm'
    BY DEF StrayCall, locks
  <1>2. OpTypeOK' /\ LockInv' /\ SetInv' /\ DropInv'
    BY <1>1 DEF OpTypeOK, LockInv, SetInv, InTry, DropInv
  <1>3. StageInv'
    BY <1>1 DEF StageInv, Staged, Calm, Processing, StageOf
  <1>4. DataTypeOK'
    <2>1. \A c \in Chunks, n \in Nat : [vec EXCEPT ![c] = n] \in [Chunks -> Nat]
      BY DEF DataTypeOK
    <2>2. vec' \in [Chunks -> Nat]
      <3>1. CASE stray = -1
        BY <3>1 DEF StrayCall, NoCopies
      <3>2. CASE stray # -1
        <4>1. stray \in Chunks /\ vec[stray] + 1 \in Nat
          BY <3>2 DEF StrayCall, DataTypeOK
        <4>2. vec' = [vec EXCEPT ![stray] = vec[stray] + 1]
          BY <3>2 DEF StrayCall
        <4> QED BY <2>1, <4>1, <4>2
      <3> QED BY <3>1, <3>2
    <2> QED BY <1>1, <2>2 DEF DataTypeOK
  <1> QED BY <1>2, <1>3, <1>4

LEMMA RestartControl ==
    ASSUME ControlInv, DataTypeOK, Restart
    PROVE  ControlInv' /\ DataTypeOK'
  <1> USE DEF ControlInv
  <1>1. /\ meta' = row /\ row' = row /\ queue' = FALSE /\ lock' = Nobody /\ stray' = 0
        /\ op' = [o \in Coroutines |-> Rest] /\ UNCHANGED <<parsed, pg, vec, graph, harm>>
    BY DEF Restart
  <1>2. \A o \in Coroutines : op'[o] = Rest /\ op'[o].pc = "idle"
    BY <1>1, RestType
  <1>3. OpTypeOK'
    <2>1. op' \in [Coroutines -> Local]
      BY <1>1, RestType
    <2> QED BY <1>2, <2>1 DEF OpTypeOK, PlacesOf, DeletePlaces, Pcs
  <1>4. LockInv' /\ SetInv'
    BY <1>1, <1>2 DEF LockInv, SetInv, Locked
  <1>5. DropInv'
    BY <1>1, <1>2 DEF DropInv, Saves
  <1>6. StageInv'
    BY <1>2 DEF StageInv, Staged, Processing, Working
  <1>7. DataTypeOK'
    BY <1>1 DEF DataTypeOK
  <1> QED BY <1>3, <1>4, <1>5, <1>6, <1>7

-----------------------------------------------------------------------------
(* The graph build and the reset touch the marks and the graph alone *)

LEMMA GraphControl ==
    ASSUME ControlInv, FileKept
    PROVE  ControlInv'
  <1> USE DEF ControlInv, FileKept, locks
  <1>1. OpTypeOK' /\ LockInv' /\ SetInv'
    BY DEF OpTypeOK, LockInv, SetInv, InTry
  <1>2. DropInv' /\ StageInv'
    BY DEF DropInv, StageInv, Staged, Calm, Processing, StageOf
  <1> QED BY <1>1, <1>2

LEMMA BuildData ==
    ASSUME DataTypeOK, Graph!BuildStep, FileKept
    PROVE  DataTypeOK'
  <1> USE DEF DataTypeOK, FileKept, locks
  <1>1. CASE Graph!ListPending \/ Graph!Claim \/ Graph!WriteRefs \/ Graph!ChunkGone
    BY <1>1 DEF Graph!ListPending, Graph!Claim, Graph!WriteRefs, Graph!ChunkGone, Graph!ChunkFails
  <1>2. CASE Graph!WriteGraph
    <2>1. graph' \in [Chunks -> BOOLEAN]
      BY <1>2 DEF Graph!WriteGraph
    <2> QED BY <1>2, <2>1 DEF Graph!WriteGraph
  <1>3. CASE Graph!Mark
    <2>1. pg' = [pg EXCEPT ![cur] = IF pg[cur] = "none" THEN pg[cur] ELSE "indexed"]
      BY <1>3 DEF Graph!Mark
    <2>2. pg' \in [Chunks -> {"none", "pending", "indexed"}]
      BY <2>1
    <2> QED BY <1>3, <2>2 DEF Graph!Mark
  <1> QED BY <1>1, <1>2, <1>3 DEF Graph!BuildStep

LEMMA ResetData ==
    ASSUME DataTypeOK, Graph!ResetStep, FileKept
    PROVE  DataTypeOK'
  <1> USE DEF DataTypeOK, FileKept, locks
  <1>1. CASE Graph!DropGraph
    <2>1. graph' \in [Chunks -> BOOLEAN]
      BY <1>1 DEF Graph!DropGraph
    <2> QED BY <1>1, <2>1 DEF Graph!DropGraph
  <1>2. CASE Graph!ResetFlags
    <2>1. pg' \in [Chunks -> {"none", "pending", "indexed"}]
      BY <1>2 DEF Graph!ResetFlags
    <2> QED BY <1>2, <2>1 DEF Graph!ResetFlags
  <1> QED BY <1>1, <1>2 DEF Graph!ResetStep

-----------------------------------------------------------------------------
(* The invariant holds *)

KbInv == DataTypeOK /\ ControlInv

LEMMA InitInv == KbInit => KbInv
  <1> SUFFICES ASSUME KbInit PROVE KbInv
    OBVIOUS
  <1>1. /\ op = [o \in Coroutines |-> Rest] /\ queue = FALSE /\ lock = Nobody /\ stray = 0
        /\ row = meta /\ parsed = meta.md /\ harm = {} /\ graph = [c \in Chunks |-> pg[c] = "indexed"]
    BY DEF KbInit, Init
  <1>2. meta \in Record /\ meta.st # "absent"
    <2>1. meta = None("new") \/ meta \in [st : {"indexed"}, md : BOOLEAN]
      BY DEF KbInit, Init
    <2>2. None("new") \in Record /\ None("new").st = "new"
      BY DEF None, Record
    <2>3. \A r \in [st : {"indexed"}, md : BOOLEAN] : r \in Record /\ r.st = "indexed"
      BY DEF Record, FileStatus
    <2> QED BY <2>1, <2>2, <2>3
  <1>3. \A o \in Coroutines : op[o] = Rest /\ op[o].pc = "idle"
    BY <1>1, RestType
  <1>4. OpTypeOK
    <2>1. op \in [Coroutines -> Local]
      BY <1>1, RestType
    <2> QED BY <1>3, <2>1 DEF OpTypeOK, PlacesOf, DeletePlaces, Pcs
  <1>5. LockInv /\ SetInv
    BY <1>1, <1>3 DEF LockInv, SetInv, Locked
  <1>6. DropInv /\ StageInv
    BY <1>1, <1>2, <1>3 DEF DropInv, StageInv, Staged, Processing, Saves, Working
  <1>7. DataTypeOK
    <2>1. pg \in [Chunks -> {"none", "pending", "indexed"}] /\ vec \in [Chunks -> Nat]
      BY DEF KbInit, Init
    <2>2. meta.md \in BOOLEAN
      BY <1>2 DEF Record
    <2> QED BY <1>1, <1>2, <2>1, <2>2 DEF DataTypeOK
  <1> QED BY <1>4, <1>5, <1>6, <1>7 DEF KbInv, ControlInv

LEMMA StepInv == KbInv /\ [KbNext]_kbVars => KbInv'
  <1> SUFFICES ASSUME KbInv, [KbNext]_kbVars PROVE KbInv'
    OBVIOUS
  <1> USE DEF KbInv
  <1>1. ASSUME NEW o \in Coroutines, Step(o) PROVE KbInv'
    <2>1. CASE Persist(o)
      BY <2>1, PersistControl
    <2>2. CASE Parse(o)
      BY <2>2, ParseControl
    <2>3. CASE ParseOver(o)
      BY <2>3, ParseEndsControl DEF ParseOver, FileStatus
    <2>4. CASE ParseFailed(o)
      <3>1. meta.md \in BOOLEAN
        BY DEF DataTypeOK, Record
      <3> QED BY <2>4, <3>1, ParseEndsControl DEF ParseFailed, FileStatus
    <2>5. CASE Params(o)
      BY <2>5, ParamsControl
    <2>6. CASE Index(o)
      BY <2>6, IndexControl
    <2>7. CASE IndexOver(o)
      BY <2>7, IndexEndsControl DEF IndexOver, FileStatus
    <2>8. CASE IndexFailed(o)
      BY <2>8, IndexEndsControl DEF IndexFailed, FileStatus
    <2>9. CASE DropMeta(o)
      BY <2>9, DropMetaControl
    <2>10. CASE DropRow(o)
      BY <2>10, DropRowControl
    <2>11. CASE Inner(o)
      BY <2>11, InnerControl, InnerData DEF ControlInv
    <2> QED BY <1>1, <2>1, <2>2, <2>3, <2>4, <2>5, <2>6, <2>7, <2>8, <2>9, <2>10, <2>11 DEF Step, Inner
  <1>2. ASSUME FileEvent PROVE KbInv'
    <2>1. ASSUME NEW o \in Coroutines, EmbedFails(o) PROVE KbInv'
      BY <2>1, InnerControl, InnerData DEF ControlInv, Inner
    <2> QED BY <1>2, <2>1, StartControl, PersistFailsControl, CancelControl, ListControl, StrayControl
            DEF FileEvent
  <1>3. CASE BuildStep
    BY <1>3, BuildData, GraphControl DEF BuildStep, RunBuild
  <1>4. CASE ResetStep
    BY <1>4, ResetData, GraphControl DEF ResetStep, RunReset
  <1>5. CASE SubmitGraphWork \/ GraphFault
    <2>1. FileKept /\ UNCHANGED <<pg, graph>>
      BY <1>5 DEF SubmitGraphWork, GraphFault, Graph!StartBuild, Graph!StartReset, Graph!ChunkFails,
                  Graph!ResetFails
    <2>2. DataTypeOK'
      BY <2>1 DEF DataTypeOK, FileKept, locks
    <2> QED BY <2>1, <2>2, GraphControl
  <1>6. CASE Reboot
    BY <1>6, RestartControl DEF Reboot
  <1>7. CASE UNCHANGED kbVars
    <2>1. FileKept /\ UNCHANGED <<pg, graph>>
      BY <1>7 DEF kbVars, vars, FileKept, stores
    <2>2. DataTypeOK'
      BY <2>1 DEF DataTypeOK, FileKept, locks
    <2> QED BY <2>1, <2>2, GraphControl
  <1> QED BY <1>1, <1>2, <1>3, <1>4, <1>5, <1>6, <1>7 DEF KbNext, FileStep

LEMMA Invariance == KbSpec => []KbInv
  BY InitInv, StepInv, PTL DEF KbSpec

-----------------------------------------------------------------------------
(* What the stores hold: the invariants of a file's chunks *)

\* The coroutines that index the file, and what an insertion has yet to write.
Storing == IndexWork \union {"indexOver"}
Indexing(o) == o # "delete" /\ op[o].pc \in Storing \union {"saveIndexing"}
Due(o, store) == {c \in Chunks : c > op[o].next \/ (c = op[o].next /\ store \in op[o].todo)}

Nothing == \A c \in Chunks : pg[c] = "none"
Bare == \A c \in Chunks : ~graph[c]
Full == \A c \in Chunks : pg[c] # "none" /\ vec[c] > 0

\* An indexing inserts each chunk where none is.
ClearedInv ==
    Calm => \A o \in Coroutines \ {"delete"} :
        /\ op[o].pc = "cleanVec" => Nothing
        /\ op[o].pc = "insert" => \A c \in Due(o, "pg") : pg[c] = "none"

VectorsInv ==
    harm \intersect {"early", "overwrite", "vector", "late"} = {} =>
        /\ \A c \in Chunks : vec[c] <= 1
        /\ \A o \in Coroutines : op[o].pc = "insert" => \A c \in Due(o, "vec") : vec[c] = 0

\* The row and the record say "indexed" only of a file whose chunks are all
\* there: the row says something else before an indexing touches a chunk, and
\* the record before it says so.
Undisturbed == harm \intersect {"early", "overwrite", "delete", "stale", "late"} = {}
SearchInv ==
    Undisturbed =>
        /\ row.st = "indexed" \/ meta.st = "indexed" => Full
        /\ op["delete"].pc \notin {"cleanVec", "dropMeta", "dropRow"}
        /\ \A o \in Coroutines \ {"delete"} :
            /\ op[o].pc \in IndexWork => row.st # "indexed"
            /\ op[o].pc = "insert" /\ ~op[o].bad => \A c \in Chunks :
                /\ c \notin Due(o, "pg") => pg[c] # "none"
                /\ c \notin Due(o, "vec") => vec[c] > 0
            /\ op[o].pc = "indexOver" => Full

\* A delete that nothing indexed beside removes the chunks before the row, and
\* a file without a row is one nobody indexes.
Unraced == harm \subseteq {"delete", "stale"}
RemovedInv ==
    Unraced =>
        /\ ~At("delete", "idle") \/ row.st = "absent" => \A o \in Coroutines : ~Indexing(o)
        /\ op["delete"].pc \in {"cleanVec", "dropMeta", "dropRow"} \/ row.st = "absent" => Nothing
        /\ op["delete"].pc \in {"dropMeta", "dropRow"} \/ row.st = "absent" => \A c \in Chunks : vec[c] = 0

BudgetOK == budget \in [starts : Nat, graph : Nat, faults : Nat]

\* The chunk the worker holds is one no step of this build has set aside.
Holding == bpc \in {"extract", "refs", "mark"}
BuildInv ==
    /\ bpc \in {"idle", "list", "claim", "extract", "refs", "mark"} /\ rpc \in {"idle", "graph", "flags"}
    /\ listed \subseteq Chunks /\ listed \intersect failed = {}
    /\ bpc = "idle" => listed = {}
    /\ Holding => cur \in Chunks /\ cur \notin failed \union listed

\* As long as files, build and reset keep apart, the marks say what is in the
\* graph, but for the chunk being built and for what is being removed.
Marks ==
    /\ Building => rpc = "idle" /\ ~Cleaning
    /\ Cleaning \/ rpc = "flags" => Bare
    /\ \A c \in listed : pg[c] # "none"
    /\ Holding => pg[cur] # "none"
    /\ Written => graph[cur]
    /\ \A c \in Chunks : \/ graph[c] = (pg[c] = "indexed")
                         \/ graph[c] /\ c = cur /\ Written
                         \/ ~graph[c] /\ (Cleaning \/ rpc = "flags")

MarksInv == crossed = {} /\ Calm => Marks

StoresInv == BudgetOK /\ ClearedInv /\ VectorsInv /\ SearchInv /\ RemovedInv /\ BuildInv /\ MarksInv

-----------------------------------------------------------------------------
(* What a step does to the places and to the stores *)

\* A step of o that ends or begins a stage of the work and touches no store.
Outer(o) == \/ Persist(o) \/ PersistFails(o) \/ Parse(o) \/ ParseOver(o) \/ ParseFailed(o) \/ Params(o)
            \/ Index(o) \/ IndexOver(o) \/ IndexFailed(o) \/ DropMeta(o) \/ Start(o) \/ Cancel(o)

\* Nobody comes to a place where the stores are written, but to read the file.
Aside == \A p \in Coroutines : \/ op'[p] = op[p]
                               \/ op'[p].pc \notin Storing
                               \/ op'[p].pc = "read" /\ op[p].pc = "saveIndexing"

Elsewhere == /\ Aside /\ harm \subseteq harm' /\ vec' = vec
             /\ \A c \in Chunks : pg'[c] = "none" <=> pg[c] = "none"

LEMMA OuterMoves ==
    ASSUME KbInv, NEW o \in Coroutines, Outer(o)
    PROVE  \E to \in Pcs :
              /\ Moves(o, {to})
              /\ to \in Storing => to = "read" /\ op[o].pc = "saveIndexing" /\ Persist(o)
              /\ to = "saveIndexing" => Index(o)
              /\ to = "dropRow" => op[o].pc = "dropMeta"
              /\ to # "dropMeta"
              /\ o = "delete" => to \in {"idle", "dropRow"} \/ Start(o)
  <1> USE DEF KbInv, ControlInv
  <1>1. OpTypeOK /\ op \in [Coroutines -> Local] /\ op[o].pc \in PlacesOf(o)
    BY DEF OpTypeOK
  <1> DEFINE Fits(to) == /\ to \in Pcs /\ Moves(o, {to})
                         /\ to \in Storing => to = "read" /\ op[o].pc = "saveIndexing" /\ Persist(o)
                         /\ to = "saveIndexing" => Index(o)
                         /\ to = "dropRow" => op[o].pc = "dropMeta"
                         /\ to # "dropMeta"
                         /\ o = "delete" => to \in {"idle", "dropRow"} \/ Start(o)
  <1> SUFFICES \E to : Fits(to)
    OBVIOUS
  <1>2. CASE Persist(o)
    <2>1. PICK to \in {"parse", "parsing", "params", "index", "read", "idle"} :
              /\ Moves(o, {to})
              /\ op[o].pc = "saveIndexing" <=> to = "read"
      BY <1>1, <1>2, PersistMoves
    <2>2. o # "delete"
      BY <1>1, <1>2 DEF Persist, Saves, PlacesOf, DeletePlaces
    <2> QED BY <1>2, <2>1, <2>2 DEF Pcs, Storing, IndexWork
  <1>3. CASE PersistFails(o)
    <2>1. PICK to \in {"parseFailed", "indexFailed", "params", "idle"} : Moves(o, {to})
      BY <1>1, <1>3, PersistFailsMoves
    <2>2. o # "delete"
      BY <1>1, <1>3 DEF PersistFails, Saves, PlacesOf, DeletePlaces
    <2> QED BY <2>1, <2>2 DEF Pcs, Storing, IndexWork
  <1>4. ASSUME o # "delete", \E to \in {"params", "idle"} : to \in Pcs /\ Continue(o, to)
        PROVE  \E to : Fits(to)
    BY <1>1, <1>4, ContinueMoves DEF Storing, IndexWork
  <1>5. ASSUME o # "delete", NEW st, NEW md \in BOOLEAN, st \in FileStatus,
               NEW to \in Pcs, Assign(o, st, md, to), to \notin Storing \union {"dropRow", "dropMeta"},
               to = "saveIndexing" => Index(o)
        PROVE  \E t : Fits(t)
    <2>1. Moves(o, {to})
      BY <1>1, <1>5, AssignMoves
    <2> QED BY <1>5, <2>1
  <1>6. meta.md \in BOOLEAN /\ (Exists => meta.st \in FileStatus)
    BY DEF DataTypeOK, Record, Exists
  <1>7. CASE Parse(o)
    <2>1. o # "delete"
      BY <1>1, <1>7 DEF Parse, At, PlacesOf, DeletePlaces
    <2>2. \/ Assign(o, "parsing", meta.md, "saveParsing") \/ Continue(o, AfterParse(o))
      BY <1>7 DEF Parse
    <2> QED BY <1>4, <1>5, <1>6, <2>1, <2>2, AfterParsePlace DEF FileStatus, Pcs, Storing, IndexWork
  <1>8. CASE ParseOver(o) \/ ParseFailed(o)
    <2>1. o # "delete"
      BY <1>1, <1>8 DEF ParseOver, ParseFailed, ParseEnds, At, PlacesOf, DeletePlaces
    <2>2. \/ Assign(o, "parsed", TRUE, "saveParsed") \/ Assign(o, "error_parsing", meta.md, "saveParseError")
          \/ Continue(o, AfterParse(o))
      BY <1>8 DEF ParseOver, ParseFailed, ParseEnds
    <2> QED BY <1>4, <1>5, <1>6, <2>1, <2>2, AfterParsePlace DEF FileStatus, Pcs, Storing, IndexWork
  <1>9. ASSUME Finish(o), o # "delete" PROVE \E to : Fits(to)
    <2>1. Moves(o, {"idle"})
      BY <1>1, <1>9, FinishMoves
    <2> QED BY <1>9, <2>1 DEF Pcs, Storing, IndexWork
  <1>10. CASE Params(o) \/ Index(o) \/ IndexOver(o) \/ IndexFailed(o)
    <2>1. o # "delete"
      BY <1>1, <1>10 DEF Params, Index, IndexOver, IndexFailed, IndexEnds, At, PlacesOf, DeletePlaces
    <2>2. \/ Exists /\ Assign(o, meta.st, meta.md, "saveParams")
          \/ Index(o) /\ Assign(o, "indexing", TRUE, "saveIndexing")
          \/ Assign(o, "uploaded", FALSE, "saveNoMarkdown")
          \/ Assign(o, "indexed", meta.md, "saveIndexed") \/ Assign(o, "error_indexing", meta.md, "saveIndexError")
          \/ Finish(o)
      BY <1>10 DEF Params, Index, IndexOver, IndexFailed, IndexEnds
    <2> QED BY <1>5, <1>6, <1>9, <2>1, <2>2 DEF FileStatus, Pcs, Storing, IndexWork
  <1>11. CASE DropMeta(o)
    <2>1. op[o].pc = "dropMeta" /\ (Goto(o, "dropRow") \/ Finish(o))
      BY <1>11 DEF DropMeta, At
    <2>2. Moves(o, {"dropRow"}) \/ Moves(o, {"idle"})
      BY <1>1, <2>1, GotoMoves, FinishMoves DEF Pcs
    <2> QED BY <2>1, <2>2 DEF Pcs, Storing, IndexWork
  <1>12. CASE Start(o)
    <2>1. \/ o # "delete" /\ Assign(o, "uploaded", FALSE, "saveAdded")
          \/ \E to \in {"parse", "index", "params", "deleteObject"} : Goto(o, to)
      BY <1>12 DEF Start
    <2>2. CASE o # "delete" /\ Assign(o, "uploaded", FALSE, "saveAdded")
      BY <2>2, <1>5 DEF FileStatus, Pcs, Storing, IndexWork
    <2>3. CASE \E to \in {"parse", "index", "params", "deleteObject"} : Goto(o, to)
      BY <1>1, <1>12, <2>3, GotoMoves DEF Pcs, Storing, IndexWork
    <2> QED BY <2>1, <2>2, <2>3
  <1>13. CASE Cancel(o)
    BY <1>9, <1>13 DEF Cancel
  <1> QED BY <1>2, <1>3, <1>7, <1>8, <1>10, <1>11, <1>12, <1>13 DEF Outer

LEMMA OuterElsewhere ==
    ASSUME KbInv, NEW o \in Coroutines, Outer(o)
    PROVE  Elsewhere /\ UNCHANGED <<pg, graph>>
  <1>1. UNCHANGED <<pg, vec, graph>> /\ harm \subseteq harm'
    BY DEF Outer, Persist, PersistFails, Parse, ParseOver, ParseFailed, ParseEnds, Params, Index, IndexOver,
           IndexFailed, IndexEnds, DropMeta, Start, Cancel, Overwrites, Harm, stores
  <1>2. Aside
    BY OuterMoves DEF Aside, Moves
  <1> QED BY <1>1, <1>2 DEF Elsewhere

LEMMA GraphElsewhere ==
    ASSUME KbInv, BuildInv, FileKept,
           Graph!BuildStep \/ Graph!ResetStep \/ UNCHANGED <<pg, graph>>
    PROVE  Elsewhere
  <1>1. Aside /\ harm \subseteq harm' /\ vec' = vec
    BY DEF FileKept, Aside
  <1>2. pg \in [Chunks -> {"none", "pending", "indexed"}]
    BY DEF KbInv, DataTypeOK
  <1>3. \A c \in Chunks : pg'[c] = "none" <=> pg[c] = "none"
    <2>1. CASE Graph!Mark
      <3>1. pg' = [pg EXCEPT ![cur] = IF pg[cur] = "none" THEN pg[cur] ELSE "indexed"]
        BY <2>1 DEF Graph!Mark
      <3> QED BY <1>2, <3>1
    <2>2. CASE Graph!ResetFlags
      BY <1>2, <2>2 DEF Graph!ResetFlags
    <2>3. CASE ~Graph!Mark /\ ~Graph!ResetFlags
      <3>1. pg' = pg
        BY <2>3 DEF Graph!BuildStep, Graph!ResetStep, Graph!ListPending, Graph!Claim, Graph!WriteGraph,
                    Graph!WriteRefs, Graph!ChunkGone, Graph!ChunkFails, Graph!DropGraph
      <3> QED BY <3>1
    <2> QED BY <2>1, <2>2, <2>3
  <1> QED BY <1>1, <1>3 DEF Elsewhere

\* A step of KnowledgeBase is one of a coroutine, of the surroundings of the
\* file, or of the graph.
LEMMA StepKinds ==
    ASSUME KbInv, [KbNext]_kbVars
    PROVE  \/ \E o \in Coroutines : (Inner(o) \/ Outer(o) \/ DropRow(o)) /\ UNCHANGED graphVars
           \/ (List \/ StrayCall) /\ UNCHANGED graphVars
           \/ Restart
           \/ FileKept /\ (Graph!BuildStep \/ Graph!ResetStep \/ UNCHANGED <<pg, graph>>)
  <1>1. CASE \E o \in Coroutines : FileStep(o)
    BY <1>1 DEF FileStep, Step, Inner, Outer
  <1>2. CASE FileEvent /\ UNCHANGED graphVars
    BY <1>2 DEF FileEvent, Inner, Outer
  <1>3. CASE BuildStep \/ ResetStep
    BY <1>3 DEF BuildStep, ResetStep, RunBuild, RunReset
  <1>4. CASE SubmitGraphWork \/ GraphFault
    BY <1>4 DEF SubmitGraphWork, GraphFault, Graph!StartBuild, Graph!StartReset, Graph!ChunkFails,
                Graph!ResetFails
  <1>5. CASE Reboot
    BY <1>5 DEF Reboot
  <1>6. CASE UNCHANGED kbVars
    BY <1>6 DEF kbVars, vars, FileKept, stores
  <1> QED BY <1>1, <1>2, <1>3, <1>4, <1>5, <1>6 DEF KbNext

\* Whatever is no step inside an operation, no end of a delete and no stray
\* call leaves the stores alone.
LEMMA ElsewhereIs ==
    ASSUME KbInv, BuildInv, [KbNext]_kbVars
    PROVE  Elsewhere \/ (\E o \in Coroutines : Inner(o) \/ DropRow(o)) \/ StrayCall
  <1>1. CASE List
    BY <1>1 DEF List, Harm, Elsewhere, Aside, stores
  <1>2. CASE Restart
    <2>1. \A o \in Coroutines : op'[o].pc \notin Storing
      BY <1>2, RestType DEF Restart, Storing, IndexWork
    <2> QED BY <1>2, <2>1 DEF Restart, Elsewhere, Aside
  <1> QED BY <1>1, <1>2, StepKinds, OuterElsewhere, GraphElsewhere

-----------------------------------------------------------------------------
(* The steps of an insertion *)

LEMMA BatchFresh ==
    ASSUME OpTypeOK, NEW o \in Coroutines, CleanVec(o)
    PROVE  /\ op[o].pc = "cleanVec" /\ \A p \in Coroutines : p # o => op'[p] = op[p]
           /\ op'[o].pc = IF o = "delete" THEN "dropMeta" ELSE "insert"
           /\ op'[o].next = 1 /\ op'[o].todo = BothStores /\ ~op'[o].bad
  <1> DEFINE r == [op[o] EXCEPT !.pc = IF o = "delete" THEN "dropMeta" ELSE "insert",
                                !.next = 1, !.todo = BothStores, !.bad = FALSE]
  <1>1. op[o] \in Local /\ op \in [Coroutines -> Local]
    BY DEF OpTypeOK
  <1>2. op' = [op EXCEPT ![o] = r] /\ op[o].pc = "cleanVec"
    BY DEF CleanVec, At
  <1>3. /\ r.pc = IF o = "delete" THEN "dropMeta" ELSE "insert"
        /\ r.next = 1 /\ r.todo = BothStores /\ r.bad = FALSE
    BY <1>1 DEF Local
  <1> HIDE DEF r
  <1> QED BY <1>1, <1>2, <1>3

LEMMA BatchWrote ==
    ASSUME OpTypeOK, NEW o \in Coroutines, NEW store \in BothStores, NEW ok \in BOOLEAN, Wrote(o, store, ok)
    PROVE  /\ \A p \in Coroutines : p # o => op'[p] = op[p]
           /\ op'[o].pc = op[o].pc /\ op'[o].next = op[o].next
           /\ op'[o].todo = op[o].todo \ {store} /\ op'[o].bad = (op[o].bad \/ ~ok)
  <1> DEFINE r == [op[o] EXCEPT !.todo = op[o].todo \ {store}, !.bad = op[o].bad \/ ~ok]
  <1>1. op[o] \in Local /\ op \in [Coroutines -> Local]
    BY DEF OpTypeOK
  <1>2. op' = [op EXCEPT ![o] = r]
    BY DEF Wrote
  <1>3. r.pc = op[o].pc /\ r.next = op[o].next /\ r.todo = op[o].todo \ {store} /\ r.bad = (op[o].bad \/ ~ok)
    BY <1>1 DEF Local
  <1> HIDE DEF r
  <1> QED BY <1>1, <1>2, <1>3

LEMMA BatchDone ==
    ASSUME OpTypeOK, NEW o \in Coroutines, Inserted(o)
    PROVE  /\ op[o].pc = "insert" /\ op[o].todo = {} /\ \A p \in Coroutines : p # o => op'[p] = op[p]
           /\ \/ op[o].bad /\ op'[o].pc = "rollbackPg"
              \/ /\ ~op[o].bad /\ op[o].next < NChunks /\ op'[o].pc = "insert" /\ ~op'[o].bad
                 /\ op'[o].next = op[o].next + 1 /\ op'[o].todo = BothStores
              \/ ~op[o].bad /\ ~(op[o].next < NChunks) /\ op'[o].pc = "indexOver"
  <1>1. op[o] \in Local /\ op \in [Coroutines -> Local]
    BY DEF OpTypeOK
  <1> DEFINE back == [op[o] EXCEPT !.pc = "rollbackPg", !.bad = FALSE]
             more == [op[o] EXCEPT !.next = op[o].next + 1, !.todo = BothStores]
             over == [op[o] EXCEPT !.pc = "indexOver"]
  <1>2. /\ op' = [op EXCEPT ![o] = IF op[o].bad THEN back ELSE IF op[o].next < NChunks THEN more ELSE over]
        /\ op[o].pc = "insert" /\ op[o].todo = {}
    BY DEF Inserted, BatchFailed, At
  <1>3. /\ back.pc = "rollbackPg" /\ over.pc = "indexOver" /\ more.pc = op[o].pc /\ more.bad = op[o].bad
        /\ more.next = op[o].next + 1 /\ more.todo = BothStores
    BY <1>1 DEF Local
  <1> HIDE DEF back, more, over
  <1> QED BY <1>1, <1>2, <1>3

\* The places of the other steps inside an operation.
LEMMA InnerGoes ==
    ASSUME OpTypeOK, NEW o \in Coroutines, Inner(o)
    PROVE  \/ CleanVec(o) \/ InsertPg(o) \/ InsertVec(o) \/ Inserted(o)
           \/ (Parsing(o) \/ Read(o) \/ EmbedFails(o)) /\ Moves(o, {"cleanGraph", "parseOver", "parseFailed", "indexFailed"})
           \/ DeleteObject(o) /\ Moves(o, {"cleanGraph"})
           \/ CleanGraph(o) /\ Moves(o, {"cleanPg"})
           \/ CleanPg(o) /\ (Moves(o, {"cleanVec"}) \/ Moves(o, {"idle", "indexFailed"}))
           \/ RollbackPg(o) /\ Moves(o, {"rollbackVec"})
           \/ RollbackVec(o) /\ Moves(o, {"indexFailed"})
  <1>1. op \in [Coroutines -> Local]
    BY DEF OpTypeOK
  <1>2. ASSUME NEW to \in Pcs, Goto(o, to), NEW S, to \in S PROVE Moves(o, S)
    <2>1. Moves(o, {to})
      BY <1>1, <1>2, GotoMoves
    <2> QED BY <1>2, <2>1 DEF Moves
  <1>3. ASSUME Finish(o), NEW S, "idle" \in S PROVE Moves(o, S)
    BY <1>1, <1>3, FinishMoves, MovesWithin
  <1>4. CASE Parsing(o) \/ Read(o) \/ EmbedFails(o)
    BY <1>2, <1>4 DEF Parsing, Read, EmbedFails, Pcs
  <1>5. CASE DeleteObject(o) \/ CleanGraph(o) \/ RollbackPg(o) \/ RollbackVec(o)
    BY <1>2, <1>5 DEF DeleteObject, CleanGraph, RollbackPg, RollbackVec, Pcs
  <1>6. CASE CleanPg(o)
    BY <1>2, <1>3, <1>6 DEF CleanPg, Raise, Pcs
  <1> QED BY <1>4, <1>5, <1>6 DEF Inner

\* A store is written by an insertion as its batch says.
LEMMA InsertPgIs ==
    ASSUME KbInv, NEW o \in Coroutines, InsertPg(o)
    PROVE  /\ op[o].pc = "insert" /\ "pg" \in op[o].todo /\ op[o].next \in Chunks
           /\ UNCHANGED <<vec, graph, harm>>
           /\ \E ok \in BOOLEAN :
                /\ Wrote(o, "pg", ok)
                /\ pg' = IF ok THEN [pg EXCEPT ![op[o].next] = "pending"] ELSE pg
  <1>1. op[o].next \in Chunks
    BY LocalFields DEF KbInv, ControlInv, OpTypeOK
  <1> QED BY <1>1, Zenon DEF InsertPg, At

LEMMA InsertVecIs ==
    ASSUME KbInv, NEW o \in Coroutines, InsertVec(o)
    PROVE  /\ op[o].pc = "insert" /\ "vec" \in op[o].todo /\ op[o].next \in Chunks
           /\ UNCHANGED <<pg, graph, harm>>
           /\ \E ok \in BOOLEAN :
                /\ Wrote(o, "vec", ok)
                /\ vec' = IF ok THEN [vec EXCEPT ![op[o].next] = vec[op[o].next] + 1] ELSE vec
  <1>1. op[o].next \in Chunks
    BY LocalFields DEF KbInv, ControlInv, OpTypeOK
  <1> QED BY <1>1, Zenon DEF InsertVec, At

LEMMA CleanPgIs ==
    ASSUME KbInv, NEW o \in Coroutines, CleanPg(o)
    PROVE  /\ op[o].pc = "cleanPg" /\ UNCHANGED <<vec, graph>>
           /\ \/ /\ Moves(o, {"cleanVec"}) /\ pg' = [c \in Chunks |-> "none"]
                 /\ harm' = IF o = "delete" THEN harm \union {"delete"} ELSE harm
              \/ Moves(o, {"idle", "indexFailed"}) /\ UNCHANGED <<pg, harm>> /\ Spend("faults")
  <1>1. op \in [Coroutines -> Local]
    BY DEF KbInv, ControlInv, OpTypeOK
  <1>2. Goto(o, "cleanVec") => Moves(o, {"cleanVec"})
    BY <1>1, GotoMoves DEF Pcs
  <1>3. Raise(o) => Moves(o, {"idle", "indexFailed"})
    <2>1. Raise(o) => Moves(o, {"idle"}) \/ Moves(o, {"indexFailed"})
      BY <1>1, GotoMoves, FinishMoves DEF Raise, Pcs
    <2> QED BY <2>1 DEF Moves
  <1> QED BY <1>2, <1>3 DEF CleanPg, At, Harm

\* While nothing overwrote the status, one coroutine is in the stores.
LEMMA OneInStores ==
    ASSUME KbInv, Calm, NEW o \in Coroutines, NEW p \in Coroutines, o # "delete", p # "delete",
           op[o].pc \in Storing, op[p].pc \in Storing
    PROVE  o = p
  BY DEF KbInv, ControlInv, StageInv, Staged, Processing, Working, Storing, IndexWork

LEMMA NotDeleting ==
    ASSUME KbInv, NEW o \in Coroutines, op[o].pc \in {"insert", "read", "indexOver", "rollbackPg", "rollbackVec"}
    PROVE  o # "delete"
  BY DEF KbInv, ControlInv, OpTypeOK, PlacesOf, DeletePlaces

-----------------------------------------------------------------------------
(* An insertion finds nothing where it inserts *)

\* Marks come only from insertions, and whoever is not there does not count.
LEMMA ClearedKept ==
    ASSUME ClearedInv, harm \subseteq harm', \A c \in Chunks : pg[c] = "none" => pg'[c] = "none",
           \A p \in Coroutines : op'[p] = op[p] \/ op'[p].pc \notin {"cleanVec", "insert"}
    PROVE  ClearedInv'
  BY DEF ClearedInv, Calm, Nothing, Due

LEMMA ClearedStep ==
    ASSUME KbInv, BuildInv, ClearedInv, [KbNext]_kbVars
    PROVE  ClearedInv'
  <1> USE DEF KbInv, ControlInv
  <1>1. OpTypeOK
    OBVIOUS
  <1>2. CASE Elsewhere
    BY <1>2, ClearedKept DEF Elsewhere, Aside, Storing, IndexWork
  <1>3. CASE StrayCall
    BY <1>3, ClearedKept DEF StrayCall
  <1>4. ASSUME NEW o \in Coroutines, DropRow(o) PROVE ClearedInv'
    <2>1. Moves(o, {"idle"})
      BY <1>1, <1>4, FinishMoves DEF DropRow, OpTypeOK
    <2>2. \A c \in Chunks : pg[c] = "none" => pg'[c] = "none"
      BY <1>4 DEF DropRow
    <2> QED BY <1>4, <2>1, <2>2, ClearedKept DEF DropRow, Moves
  <1>5. ASSUME NEW o \in Coroutines, Inner(o) PROVE ClearedInv'
    <2>1. harm \subseteq harm'
      BY <1>5 DEF Inner, Parsing, Read, CleanGraph, CleanPg, CleanVec, EmbedFails, InsertPg, InsertVec, Inserted,
                  RollbackPg, RollbackVec, DeleteObject, Harm
    <2> SUFFICES ASSUME Calm' PROVE ClearedInv'
      BY DEF ClearedInv
    <2>2. Calm
      BY <2>1 DEF Calm
    <2>3. CASE CleanVec(o)
      <3>1. /\ op[o].pc = "cleanVec" /\ \A p \in Coroutines : p # o => op'[p] = op[p]
            /\ op'[o].pc = IF o = "delete" THEN "dropMeta" ELSE "insert"
        BY <1>1, <2>3, BatchFresh
      <3>2. pg' = pg
        BY <2>3 DEF CleanVec
      <3>3. o # "delete" => Nothing
        BY <2>2, <3>1 DEF ClearedInv
      <3> QED BY <2>2, <3>1, <3>2, <3>3 DEF ClearedInv, Due, Nothing
    <2>4. CASE InsertPg(o)
      <3>1. op[o].pc = "insert" /\ op[o].next \in Chunks /\ "pg" \in op[o].todo
        BY <2>4, InsertPgIs
      <3>2. PICK ok \in BOOLEAN : /\ Wrote(o, "pg", ok)
                                  /\ pg' = IF ok THEN [pg EXCEPT ![op[o].next] = "pending"] ELSE pg
        BY <2>4, InsertPgIs
      <3>3. /\ \A p \in Coroutines : p # o => op'[p] = op[p]
            /\ op'[o].pc = op[o].pc /\ op'[o].next = op[o].next /\ op'[o].todo = op[o].todo \ {"pg"}
        BY <1>1, <3>2, BatchWrote DEF BothStores
      <3>4. o # "delete"
        BY <3>1, NotDeleting
      <3>5. \A c \in Due(o, "pg")' : pg'[c] = "none"
        <4>1. \A c \in Due(o, "pg")' : c \in Due(o, "pg") /\ c # op[o].next
          BY <3>1, <3>3 DEF Due, Chunks
        <4>2. \A c \in Due(o, "pg") : pg[c] = "none"
          BY <2>2, <3>1, <3>4 DEF ClearedInv
        <4>3. \A c \in Chunks : c # op[o].next => pg'[c] = pg[c]
          BY <3>2 DEF DataTypeOK
        <4> QED BY <4>1, <4>2, <4>3 DEF Due
      <3>6. \A p \in Coroutines \ {"delete", o} : op[p].pc \notin {"cleanVec", "insert"}
        BY <2>2, <3>1, <3>4, OneInStores DEF Storing, IndexWork
      <3> QED BY <3>1, <3>3, <3>5, <3>6 DEF ClearedInv
    <2>5. CASE InsertVec(o)
      <3>1. pg' = pg /\ \E ok \in BOOLEAN : Wrote(o, "vec", ok)
        BY <2>5, InsertVecIs
      <3>2. /\ \A p \in Coroutines : p # o => op'[p] = op[p]
            /\ op'[o].pc = op[o].pc /\ op'[o].next = op[o].next /\ op'[o].todo = op[o].todo \ {"vec"}
        BY <1>1, <3>1, BatchWrote DEF BothStores
      <3>3. \A p \in Coroutines : Due(p, "pg")' \subseteq Due(p, "pg") /\ op'[p].pc = op[p].pc
        BY <3>2 DEF Due
      <3> QED BY <2>2, <3>1, <3>3 DEF ClearedInv, Nothing
    <2>6. CASE Inserted(o)
      <3>1. /\ op[o].pc = "insert" /\ \A p \in Coroutines : p # o => op'[p] = op[p]
            /\ \/ op'[o].pc \in {"rollbackPg", "indexOver"}
               \/ op'[o].pc = "insert" /\ op'[o].next = op[o].next + 1
        BY <1>1, <2>6, BatchDone
      <3>2. pg' = pg /\ op[o].next \in Chunks
        BY <2>6, LocalFields DEF Inserted, stores, OpTypeOK
      <3>3. op'[o].pc = "insert" => Due(o, "pg")' \subseteq Due(o, "pg")
        BY <3>1, <3>2 DEF Due, Chunks
      <3>4. \A p \in Coroutines : p # o => Due(p, "pg")' = Due(p, "pg")
        BY <3>1 DEF Due
      <3> QED BY <2>2, <3>1, <3>2, <3>3, <3>4 DEF ClearedInv, Nothing
    <2>7. CASE CleanPg(o)
      <3>1. \/ Moves(o, {"cleanVec"}) /\ pg' = [c \in Chunks |-> "none"]
            \/ Moves(o, {"idle", "indexFailed"}) /\ pg' = pg
        BY <2>7, CleanPgIs
      <3>2. CASE Moves(o, {"cleanVec"}) /\ pg' = [c \in Chunks |-> "none"]
        BY <3>2 DEF ClearedInv, Nothing, Due
      <3>3. CASE Moves(o, {"idle", "indexFailed"}) /\ pg' = pg
        BY <2>1, <3>3, ClearedKept DEF Moves
      <3> QED BY <3>1, <3>2, <3>3
    <2>8. CASE ~CleanVec(o) /\ ~InsertPg(o) /\ ~InsertVec(o) /\ ~Inserted(o) /\ ~CleanPg(o)
      <3>1. \A c \in Chunks : pg[c] = "none" => pg'[c] = "none"
        BY <1>5, <2>8 DEF Inner, Parsing, Read, CleanGraph, EmbedFails, RollbackPg, RollbackVec, DeleteObject, stores
      <3>2. Moves(o, {"cleanGraph", "parseOver", "parseFailed", "indexFailed", "cleanPg", "rollbackVec"})
        BY <1>1, <1>5, <2>8, InnerGoes, MovesWithin
      <3> QED BY <2>1, <3>1, <3>2, ClearedKept DEF Moves
    <2> QED BY <2>3, <2>4, <2>5, <2>6, <2>7, <2>8
  <1> QED BY <1>2, <1>3, <1>4, <1>5, ElsewhereIs

-----------------------------------------------------------------------------
(* No chunk twice in the collection *)

LEMMA VectorsKept ==
    ASSUME VectorsInv, harm \subseteq harm', \A c \in Chunks : vec'[c] \in {vec[c], 0},
           \A p \in Coroutines : op'[p] = op[p] \/ op'[p].pc # "insert"
    PROVE  VectorsInv'
  BY DEF VectorsInv, Due

LEMMA VectorsStep ==
    ASSUME KbInv, BuildInv, VectorsInv, [KbNext]_kbVars
    PROVE  VectorsInv'
  <1> USE DEF KbInv, ControlInv
  <1>1. OpTypeOK /\ vec \in [Chunks -> Nat]
    BY DEF DataTypeOK
  <1>2. CASE Elsewhere
    BY <1>2, VectorsKept DEF Elsewhere, Aside, Storing, IndexWork
  <1>3. CASE StrayCall
    <2>1. "late" \in harm'
      BY <1>3 DEF StrayCall
    <2> QED BY <2>1 DEF VectorsInv
  <1>4. ASSUME NEW o \in Coroutines, DropRow(o) PROVE VectorsInv'
    <2>1. Moves(o, {"idle"})
      BY <1>1, <1>4, FinishMoves DEF DropRow, OpTypeOK
    <2> QED BY <1>4, <2>1, VectorsKept DEF DropRow, Moves
  <1>5. ASSUME NEW o \in Coroutines, Inner(o) PROVE VectorsInv'
    <2>1. harm \subseteq harm'
      BY <1>5 DEF Inner, Parsing, Read, CleanGraph, CleanPg, CleanVec, EmbedFails, InsertPg, InsertVec, Inserted,
                  RollbackPg, RollbackVec, DeleteObject, Harm
    <2> SUFFICES ASSUME harm' \intersect {"early", "overwrite", "vector", "late"} = {} PROVE VectorsInv'
      BY DEF VectorsInv
    <2>2. /\ Calm /\ \A c \in Chunks : vec[c] <= 1
          /\ \A p \in Coroutines : op[p].pc = "insert" => \A c \in Due(p, "vec") : vec[c] = 0
      BY <2>1 DEF Calm, VectorsInv
    <2>3. CASE CleanVec(o)
      <3>1. vec' = NoCopies
        BY <2>3 DEF CleanVec
      <3> QED BY <3>1 DEF VectorsInv, NoCopies, Due
    <2>4. CASE InsertPg(o)
      <3>1. vec' = vec /\ \E ok \in BOOLEAN : Wrote(o, "pg", ok)
        BY <2>4, InsertPgIs
      <3>2. /\ \A p \in Coroutines : p # o => op'[p] = op[p]
            /\ op'[o].pc = op[o].pc /\ op'[o].next = op[o].next /\ op'[o].todo = op[o].todo \ {"pg"}
        BY <1>1, <3>1, BatchWrote DEF BothStores
      <3>3. \A p \in Coroutines : Due(p, "vec")' \subseteq Due(p, "vec") /\ op'[p].pc = op[p].pc
        BY <3>2 DEF Due
      <3> QED BY <2>2, <3>1, <3>3 DEF VectorsInv
    <2>5. CASE InsertVec(o)
      <3>1. op[o].pc = "insert" /\ op[o].next \in Chunks /\ "vec" \in op[o].todo
        BY <2>5, InsertVecIs
      <3>2. PICK ok \in BOOLEAN : /\ Wrote(o, "vec", ok)
                                  /\ vec' = IF ok THEN [vec EXCEPT ![op[o].next] = vec[op[o].next] + 1] ELSE vec
        BY <2>5, InsertVecIs
      <3>3. /\ \A p \in Coroutines : p # o => op'[p] = op[p]
            /\ op'[o].pc = op[o].pc /\ op'[o].next = op[o].next /\ op'[o].todo = op[o].todo \ {"vec"}
        BY <1>1, <3>2, BatchWrote DEF BothStores
      <3>4. o # "delete"
        BY <3>1, NotDeleting
      <3>5. vec[op[o].next] = 0
        BY <2>2, <3>1 DEF Due
      <3>6. /\ \A c \in Chunks : c # op[o].next => vec'[c] = vec[c]
            /\ vec'[op[o].next] \in {0, 1}
        BY <1>1, <3>1, <3>2, <3>5
      <3>7. \A c \in Chunks : vec'[c] <= 1
        BY <2>2, <3>6
      <3>8. \A c \in Due(o, "vec")' : c \in Due(o, "vec") /\ c # op[o].next
        BY <3>1, <3>3 DEF Due, Chunks
      <3>9. \A p \in Coroutines : op'[p].pc = "insert" => p = o
        <4>1. \A p \in Coroutines : op'[p].pc = "insert" => op[p].pc = "insert"
          BY <3>1, <3>3
        <4>2. \A p \in Coroutines : op[p].pc = "insert" => p # "delete"
          BY NotDeleting
        <4> QED BY <2>2, <3>1, <3>4, <4>1, <4>2, OneInStores DEF Storing, IndexWork
      <3>10. \A c \in Due(o, "vec")' : vec'[c] = 0
        BY <2>2, <3>1, <3>6, <3>8 DEF Due
      <3> QED BY <3>7, <3>9, <3>10 DEF VectorsInv
    <2>6. CASE Inserted(o)
      <3>1. /\ op[o].pc = "insert" /\ \A p \in Coroutines : p # o => op'[p] = op[p]
            /\ \/ op'[o].pc \in {"rollbackPg", "indexOver"}
               \/ op'[o].pc = "insert" /\ op'[o].next = op[o].next + 1
        BY <1>1, <2>6, BatchDone
      <3>2. vec' = vec /\ op[o].next \in Chunks
        BY <2>6, LocalFields DEF Inserted, stores, OpTypeOK
      <3>3. op'[o].pc = "insert" => Due(o, "vec")' \subseteq Due(o, "vec")
        BY <3>1, <3>2 DEF Due, Chunks
      <3>4. \A p \in Coroutines : p # o => Due(p, "vec")' = Due(p, "vec")
        BY <3>1 DEF Due
      <3> QED BY <2>2, <3>1, <3>2, <3>3, <3>4 DEF VectorsInv
    <2>7. CASE ~CleanVec(o) /\ ~InsertPg(o) /\ ~InsertVec(o) /\ ~Inserted(o)
      <3>1. \A c \in Chunks : vec'[c] \in {vec[c], 0}
        BY <1>5, <2>7 DEF Inner, Parsing, Read, CleanGraph, CleanPg, EmbedFails, RollbackPg, RollbackVec, DeleteObject,
                          stores, NoCopies
      <3>2. op'[o].pc # "insert" /\ \A p \in Coroutines : p # o => op'[p] = op[p]
        BY <1>1, <1>5, <2>7, InnerGoes DEF Moves
      <3> QED BY <2>1, <3>1, <3>2, VectorsKept
    <2> QED BY <2>3, <2>4, <2>5, <2>6, <2>7
  <1> QED BY <1>2, <1>3, <1>4, <1>5, ElsewhereIs

-----------------------------------------------------------------------------
(* The budget, and the worker of the build *)

LEMMA BudgetStep ==
    ASSUME BudgetOK, [KbNext]_kbVars
    PROVE  BudgetOK'
  <1>1. ASSUME NEW what \in {"starts", "graph", "faults"}, Spend(what) PROVE BudgetOK'
    <2>1. budget[what] \in Nat /\ budget[what] > 0 /\ budget' = [budget EXCEPT ![what] = budget[what] - 1]
      BY <1>1 DEF Spend, BudgetOK
    <2>2. budget[what] - 1 \in Nat
      BY <2>1
    <2> DEFINE n == budget[what] - 1
    <2>3. budget' = [budget EXCEPT ![what] = n]
      BY <2>1
    <2> HIDE DEF n
    <2> QED BY <2>2, <2>3 DEF BudgetOK, n
  <1>2. UNCHANGED budget \/ \E what \in {"starts", "graph", "faults"} : Spend(what)
    <2>1. ASSUME NEW o \in Coroutines, Step(o)
          PROVE  UNCHANGED budget \/ Spend("faults")
      BY <2>1 DEF Step, Persist, Parse, Parsing, ParseOver, ParseFailed, ParseEnds, Params, Index, Read,
                  CleanGraph, CleanPg, CleanVec, InsertPg, InsertVec, Inserted, RollbackPg, RollbackVec,
                  IndexOver, IndexFailed, IndexEnds, DeleteObject, DropMeta, DropRow
    <2>2. CASE FileEvent
      BY <2>2 DEF FileEvent, Start, PersistFails, EmbedFails, Cancel, List, StrayCall
    <2> QED BY <2>1, <2>2 DEF KbNext, FileStep, BuildStep, ResetStep, RunBuild, RunReset, SubmitGraphWork,
                              GraphFault, Reboot, Restart, kbVars, vars
  <1> QED BY <1>1, <1>2 DEF BudgetOK

LEMMA SpendChanges ==
    ASSUME BudgetOK, NEW what \in {"starts", "graph", "faults"}, Spend(what)
    PROVE  budget' # budget
  <1>1. budget[what] \in Nat /\ budget'[what] = budget[what] - 1
    BY DEF Spend, BudgetOK
  <1> QED BY <1>1

LEMMA BuildInvStep ==
    ASSUME BuildInv, [KbNext]_kbVars
    PROVE  BuildInv'
  <1> USE DEF BuildInv, Holding
  <1>1. CASE UNCHANGED graphVars
    BY <1>1 DEF graphVars
  <1>2. CASE Graph!ListPending
    <2>1. listed' \subseteq Chunks /\ listed' \intersect failed = {}
      BY <1>2 DEF Graph!ListPending, Graph!Untried, Graph!FirstPending, Graph!Pending
    <2> QED BY <1>2, <2>1 DEF Graph!ListPending
  <1>3. CASE Graph!Claim
    BY <1>3 DEF Graph!Claim
  <1>4. CASE Graph!WriteGraph \/ Graph!WriteRefs \/ Graph!Mark
    BY <1>4 DEF Graph!WriteGraph, Graph!WriteRefs, Graph!Mark, Graph!Advance
  <1>5. CASE Graph!ChunkGone \/ Graph!ChunkFails
    BY <1>5 DEF Graph!ChunkGone, Graph!ChunkFails
  <1>6. CASE Graph!ResetStep \/ Graph!ResetFails \/ Graph!StartReset
    BY <1>6 DEF Graph!ResetStep, Graph!ResetFails, Graph!StartReset, Graph!DropGraph, Graph!ResetFlags,
                Graph!buildVars
  <1>7. CASE Graph!StartBuild
    BY <1>7 DEF Graph!StartBuild
  <1>8. CASE Graph!EndBuild /\ (UNCHANGED rpc \/ rpc' = "idle")
    BY <1>8 DEF Graph!EndBuild
  <1>9. CASE UNCHANGED kbVars
    BY <1>1, <1>9 DEF kbVars
  <1> QED BY <1>1, <1>2, <1>3, <1>4, <1>5, <1>6, <1>7, <1>8, <1>9
          DEF KbNext, FileStep, BuildStep, ResetStep, RunBuild, RunReset, SubmitGraphWork, GraphFault, Reboot,
              Graph!BuildStep

-----------------------------------------------------------------------------
(* A row that says "indexed" *)

\* What the places of the coroutines say of the stores, for a step that does
\* not write the row or the record.
LEMMA SearchPlaces ==
    ASSUME KbInv, SearchInv, Undisturbed', harm \subseteq harm', UNCHANGED <<row, meta, pg, vec>>,
           NEW o \in Coroutines, \A p \in Coroutines : p # o => op'[p] = op[p],
           o = "delete" => op'[o].pc \notin {"cleanVec", "dropMeta", "dropRow"},
           o # "delete" /\ op'[o].pc \in IndexWork => op[o].pc \in IndexWork,
           o # "delete" => op'[o].pc \notin {"insert", "indexOver"}
    PROVE  SearchInv'
  <1>1. Undisturbed
    BY DEF Undisturbed
  <1>2. \A p \in Coroutines : p # o => Due(p, "pg")' = Due(p, "pg") /\ Due(p, "vec")' = Due(p, "vec")
    BY DEF Due
  <1> QED BY <1>1, <1>2 DEF SearchInv, Full, Coroutines

\* An indexing that removes chunks: the row and the record say so.
LEMMA SearchCleans ==
    ASSUME KbInv, SearchInv, Undisturbed', harm \subseteq harm', UNCHANGED <<row, meta>>,
           NEW o \in Coroutines \ {"delete"}, \A p \in Coroutines : p # o => op'[p] = op[p],
           op[o].pc \in IndexWork, op'[o].pc \in IndexWork \union {"indexFailed"}, op'[o].pc # "insert"
    PROVE  SearchInv'
  <1>1. Undisturbed /\ Calm
    BY DEF Undisturbed, Calm
  <1>2. row.st # "indexed" /\ meta.st # "indexed"
    <2>1. Processing(o) /\ StageOf(o) = "indexing"
      BY DEF Processing, Working, StageOf, IndexWork
    <2> QED BY <1>1, <2>1 DEF SearchInv, KbInv, ControlInv, StageInv, Staged
  <1>3. \A p \in Coroutines \ {"delete", o} : op'[p].pc \notin Storing
    BY <1>1, OneInStores DEF Storing
  <1> QED BY <1>1, <1>2, <1>3 DEF SearchInv, Storing, IndexWork, Coroutines

LEMMA SearchInner ==
    ASSUME KbInv, SearchInv, NEW o \in Coroutines, Inner(o)
    PROVE  SearchInv'
  <1> USE DEF KbInv, ControlInv
  <1>1. /\ OpTypeOK /\ vec \in [Chunks -> Nat] /\ pg \in [Chunks -> {"none", "pending", "indexed"}]
        /\ op[o].next \in Chunks
    BY LocalFields DEF DataTypeOK, OpTypeOK
  <1>2. harm \subseteq harm' /\ UNCHANGED <<meta, row>>
    BY DEF Inner, Parsing, Read, CleanGraph, CleanPg, CleanVec, EmbedFails, InsertPg, InsertVec, Inserted,
           RollbackPg, RollbackVec, DeleteObject, Harm
  <1> SUFFICES ASSUME Undisturbed' PROVE SearchInv'
    BY DEF SearchInv
  <1>3. Undisturbed /\ Calm
    BY <1>2 DEF Undisturbed, Calm
  <1>4. CASE CleanVec(o)
    <2>1. /\ op[o].pc = "cleanVec" /\ \A p \in Coroutines : p # o => op'[p] = op[p]
          /\ op'[o].pc = IF o = "delete" THEN "dropMeta" ELSE "insert"
          /\ op'[o].next = 1 /\ op'[o].todo = BothStores
      BY <1>1, <1>4, BatchFresh
    <2>2. o # "delete"
      BY <1>3, <2>1 DEF SearchInv
    <2>3. row.st # "indexed" /\ meta.st # "indexed"
      <3>1. Processing(o) /\ StageOf(o) = "indexing"
        BY <2>1, <2>2 DEF Processing, Working, StageOf
      <3> QED BY <1>3, <2>1, <2>2, <3>1 DEF SearchInv, StageInv, Staged, IndexWork
    <2>4. \A p \in Coroutines \ {"delete", o} : op'[p].pc \notin Storing
      BY <1>3, <2>1, <2>2, OneInStores DEF Storing, IndexWork
    <2>5. Due(o, "pg")' = Chunks /\ Due(o, "vec")' = Chunks
      BY <2>1 DEF Due, Chunks, BothStores
    <2> QED BY <1>2, <1>3, <2>1, <2>2, <2>3, <2>4, <2>5 DEF SearchInv, Storing, IndexWork, Coroutines
  <1>5. ASSUME op[o].pc = "insert", \A p \in Coroutines : p # o => op'[p] = op[p]
        PROVE  /\ o # "delete" /\ row'.st # "indexed" /\ meta'.st # "indexed"
               /\ \A p \in Coroutines \ {"delete", o} : op'[p].pc \notin Storing
               /\ op'["delete"].pc \notin {"cleanVec", "dropMeta", "dropRow"}
    <2>1. o # "delete"
      BY <1>5, NotDeleting
    <2>2. Processing(o) /\ StageOf(o) = "indexing"
      BY <1>5, <2>1 DEF Processing, Working, StageOf
    <2>3. row.st # "indexed" /\ meta.st # "indexed"
      BY <1>3, <1>5, <2>1, <2>2 DEF SearchInv, StageInv, Staged, IndexWork
    <2>4. \A p \in Coroutines \ {"delete", o} : op[p].pc \notin Storing
      BY <1>3, <1>5, <2>1, OneInStores DEF Storing, IndexWork
    <2> QED BY <1>2, <1>3, <1>5, <2>1, <2>3, <2>4 DEF SearchInv, Coroutines
  <1>6. CASE InsertPg(o)
    <2>1. op[o].pc = "insert" /\ "pg" \in op[o].todo /\ vec' = vec
      BY <1>6, InsertPgIs
    <2>2. PICK ok \in BOOLEAN : /\ Wrote(o, "pg", ok)
                                /\ pg' = IF ok THEN [pg EXCEPT ![op[o].next] = "pending"] ELSE pg
      BY <1>6, InsertPgIs
    <2>3. /\ \A p \in Coroutines : p # o => op'[p] = op[p]
          /\ op'[o].pc = op[o].pc /\ op'[o].next = op[o].next /\ op'[o].todo = op[o].todo \ {"pg"}
          /\ op'[o].bad = (op[o].bad \/ ~ok)
      BY <1>1, <2>2, BatchWrote DEF BothStores
    <2>4. ASSUME ~op'[o].bad, NEW c \in Chunks
          PROVE  (c \notin Due(o, "pg")' => pg'[c] # "none") /\ (c \notin Due(o, "vec")' => vec'[c] > 0)
      <3>1. ok /\ ~op[o].bad
        BY <2>3, <2>4
      <3>2. pg'[op[o].next] = "pending" /\ \A d \in Chunks : d # op[o].next => pg'[d] = pg[d]
        BY <1>1, <2>2, <3>1
      <3>3. Due(o, "vec")' = Due(o, "vec")
        BY <2>3 DEF Due
      <3>4. c \notin Due(o, "pg")' => c = op[o].next \/ c \notin Due(o, "pg")
        BY <1>1, <2>3 DEF Due, Chunks
      <3>5. (c \notin Due(o, "pg") => pg[c] # "none") /\ (c \notin Due(o, "vec") => vec[c] > 0)
        BY <1>3, <2>1, <3>1, NotDeleting DEF SearchInv
      <3> QED BY <2>1, <3>2, <3>3, <3>4, <3>5
    <2> QED BY <1>5, <2>1, <2>3, <2>4 DEF SearchInv, Storing, IndexWork
  <1>7. CASE InsertVec(o)
    <2>1. op[o].pc = "insert" /\ "vec" \in op[o].todo /\ pg' = pg
      BY <1>7, InsertVecIs
    <2>2. PICK ok \in BOOLEAN : /\ Wrote(o, "vec", ok)
                                /\ vec' = IF ok THEN [vec EXCEPT ![op[o].next] = vec[op[o].next] + 1] ELSE vec
      BY <1>7, InsertVecIs
    <2>3. /\ \A p \in Coroutines : p # o => op'[p] = op[p]
          /\ op'[o].pc = op[o].pc /\ op'[o].next = op[o].next /\ op'[o].todo = op[o].todo \ {"vec"}
          /\ op'[o].bad = (op[o].bad \/ ~ok)
      BY <1>1, <2>2, BatchWrote DEF BothStores
    <2>4. ASSUME ~op'[o].bad, NEW c \in Chunks
          PROVE  (c \notin Due(o, "pg")' => pg'[c] # "none") /\ (c \notin Due(o, "vec")' => vec'[c] > 0)
      <3>1. ok /\ ~op[o].bad
        BY <2>3, <2>4
      <3>2. vec'[op[o].next] = vec[op[o].next] + 1 /\ \A d \in Chunks : d # op[o].next => vec'[d] = vec[d]
        BY <1>1, <2>2, <3>1
      <3>3. Due(o, "pg")' = Due(o, "pg")
        BY <2>3 DEF Due
      <3>4. c \notin Due(o, "vec")' => c = op[o].next \/ c \notin Due(o, "vec")
        BY <1>1, <2>3 DEF Due, Chunks
      <3>5. (c \notin Due(o, "pg") => pg[c] # "none") /\ (c \notin Due(o, "vec") => vec[c] > 0)
        BY <1>3, <2>1, <3>1, NotDeleting DEF SearchInv
      <3>6. vec'[op[o].next] > 0
        BY <1>1, <3>2
      <3> QED BY <2>1, <3>2, <3>3, <3>4, <3>5, <3>6
    <2> QED BY <1>5, <2>1, <2>3, <2>4 DEF SearchInv, Storing, IndexWork
  <1>8. CASE Inserted(o)
    <2>1. /\ op[o].pc = "insert" /\ op[o].todo = {} /\ \A p \in Coroutines : p # o => op'[p] = op[p]
          /\ \/ op'[o].pc = "rollbackPg"
             \/ /\ ~op[o].bad /\ op[o].next < NChunks /\ op'[o].pc = "insert"
                /\ op'[o].next = op[o].next + 1 /\ op'[o].todo = BothStores
             \/ ~op[o].bad /\ ~(op[o].next < NChunks) /\ op'[o].pc = "indexOver"
      BY <1>1, <1>8, BatchDone
    <2>2. UNCHANGED <<pg, vec>>
      BY <1>8 DEF Inserted, stores
    <2>3. ~op[o].bad => \A c \in Chunks : c <= op[o].next => pg[c] # "none" /\ vec[c] > 0
      <3>1. \A c \in Chunks : c <= op[o].next => c \notin Due(o, "pg") /\ c \notin Due(o, "vec")
        BY <1>1, <2>1 DEF Due, Chunks
      <3> QED BY <1>3, <2>1, <3>1, NotDeleting DEF SearchInv
    <2>4. CASE op'[o].pc = "rollbackPg"
      BY <1>5, <2>1, <2>4 DEF SearchInv, Storing, IndexWork
    <2>5. CASE op'[o].pc = "insert"
      <3>1. \A c \in Chunks : c \notin Due(o, "pg")' \/ c \notin Due(o, "vec")' => c <= op[o].next
        BY <1>1, <2>1, <2>5 DEF Due, Chunks, BothStores
      <3> QED BY <1>5, <2>1, <2>2, <2>3, <2>5, <3>1 DEF SearchInv, Storing, IndexWork
    <2>6. CASE op'[o].pc = "indexOver"
      <3>1. Full'
        <4>1. \A c \in Chunks : c <= op[o].next
          BY <1>1, <2>1, <2>6, KnowledgeFileAssumption DEF Chunks
        <4> QED BY <2>1, <2>2, <2>3, <2>6, <4>1 DEF Full
      <3> QED BY <1>5, <2>1, <2>6, <3>1 DEF SearchInv, Storing, IndexWork
    <2> QED BY <2>1, <2>4, <2>5, <2>6
  <1>9. CASE CleanPg(o)
    <2>1. /\ op[o].pc = "cleanPg" /\ vec' = vec
          /\ \/ Moves(o, {"cleanVec"}) /\ harm' = IF o = "delete" THEN harm \union {"delete"} ELSE harm
             \/ Moves(o, {"idle", "indexFailed"}) /\ pg' = pg
      BY <1>9, CleanPgIs
    <2>2. CASE Moves(o, {"cleanVec"}) /\ harm' = IF o = "delete" THEN harm \union {"delete"} ELSE harm
      <3>1. o # "delete"
        BY <2>2 DEF Undisturbed
      <3> QED BY <1>2, <2>1, <2>2, <3>1, SearchCleans DEF Moves, IndexWork
    <2>3. CASE Moves(o, {"idle", "indexFailed"}) /\ pg' = pg
      BY <1>2, <2>1, <2>3, SearchPlaces DEF Moves, IndexWork
    <2> QED BY <2>1, <2>2, <2>3
  <1>10. CASE RollbackPg(o) \/ RollbackVec(o)
    <2>1. /\ op[o].pc \in {"rollbackPg", "rollbackVec"}
          /\ Moves(o, {"rollbackVec"}) \/ Moves(o, {"indexFailed"})
      BY <1>1, <1>10, GotoMoves DEF RollbackPg, RollbackVec, At, OpTypeOK, Pcs
    <2>2. o # "delete"
      BY <2>1, NotDeleting
    <2> QED BY <1>2, <2>1, <2>2, SearchCleans DEF Moves, IndexWork
  <1>11. CASE Parsing(o) \/ Read(o) \/ EmbedFails(o) \/ DeleteObject(o) \/ CleanGraph(o)
    <2>1. UNCHANGED <<pg, vec>>
      BY <1>11 DEF Parsing, Read, EmbedFails, DeleteObject, CleanGraph, stores
    <2>2. \/ op[o].pc = "parsing" /\ Moves(o, {"parseOver", "parseFailed"})
          \/ op[o].pc = "read" /\ Moves(o, {"cleanGraph", "indexFailed"})
          \/ op[o].pc = "insert" /\ Moves(o, {"indexFailed"})
          \/ op[o].pc = "deleteObject" /\ Moves(o, {"cleanGraph"})
          \/ op[o].pc = "cleanGraph" /\ Moves(o, {"cleanPg"})
      <3>1. /\ Parsing(o) => op[o].pc = "parsing" /\ (Goto(o, "parseOver") \/ Goto(o, "parseFailed"))
            /\ Read(o) => op[o].pc = "read" /\ (Goto(o, "cleanGraph") \/ Goto(o, "indexFailed"))
            /\ EmbedFails(o) => op[o].pc = "insert" /\ Goto(o, "indexFailed")
            /\ DeleteObject(o) => op[o].pc = "deleteObject" /\ Goto(o, "cleanGraph")
            /\ CleanGraph(o) => op[o].pc = "cleanGraph" /\ Goto(o, "cleanPg")
        BY DEF Parsing, Read, EmbedFails, DeleteObject, CleanGraph, At
      <3>2. op \in [Coroutines -> Local]
        BY <1>1 DEF OpTypeOK
      <3> QED BY <1>11, <3>1, <3>2, GotoMoves, MovesWithin DEF Pcs
    <2>3. op[o].pc = "deleteObject" => o = "delete"
      BY <1>1 DEF OpTypeOK, PlacesOf
    <2> QED BY <1>2, <2>1, <2>2, <2>3, SearchPlaces DEF Moves, IndexWork
  <1> QED BY <1>4, <1>6, <1>7, <1>8, <1>9, <1>10, <1>11 DEF Inner

\* A step that touches no store: what it writes into the row and the record.
LEMMA SearchAside ==
    ASSUME KbInv, SearchInv, Undisturbed', Elsewhere,
           row'.st = "indexed" \/ meta'.st = "indexed"
               => \/ row.st = "indexed" \/ meta.st = "indexed"
                  \/ \E o \in Coroutines : op[o].pc = "indexOver",
           \A o \in Coroutines \ {"delete"} : op'[o].pc \in IndexWork => row'.st # "indexed",
           op'["delete"].pc \in {"cleanVec", "dropMeta", "dropRow"} => op'["delete"] = op["delete"]
    PROVE  SearchInv'
  <1>1. Undisturbed
    BY DEF Undisturbed, Elsewhere
  <1>2. \A c \in Chunks : (pg'[c] = "none" <=> pg[c] = "none") /\ vec'[c] = vec[c]
    BY DEF Elsewhere
  <1>3. \A o \in Coroutines : op[o].pc = "indexOver" => o # "delete"
    BY NotDeleting
  <1>4. row'.st = "indexed" \/ meta'.st = "indexed" => Full'
    BY <1>1, <1>2, <1>3 DEF SearchInv, Full
  <1>5. op'["delete"].pc \notin {"cleanVec", "dropMeta", "dropRow"}
    BY <1>1 DEF SearchInv, Elsewhere, Aside, Coroutines
  <1>6. ASSUME NEW o \in Coroutines \ {"delete"}
        PROVE  /\ op'[o].pc = "insert" /\ ~op'[o].bad => \A c \in Chunks :
                    /\ c \notin Due(o, "pg")' => pg'[c] # "none"
                    /\ c \notin Due(o, "vec")' => vec'[c] > 0
               /\ op'[o].pc = "indexOver" => Full'
    <2>1. CASE op'[o] = op[o]
      BY <1>1, <1>2, <2>1 DEF SearchInv, Due, Full
    <2>2. CASE op'[o] # op[o]
      BY <2>2 DEF Elsewhere, Aside, Storing, IndexWork
    <2> QED BY <2>1, <2>2
  <1> QED BY <1>4, <1>5, <1>6 DEF SearchInv

\* A coroutine in the stores says of the status that it is indexing.
LEMMA StoringStage ==
    ASSUME KbInv, Calm, NEW o \in Coroutines \ {"delete"}, op[o].pc \in IndexWork \union {"saveIndexing"}
    PROVE  meta.st # "indexed"
  <1>1. Processing(o) /\ StageOf(o) = "indexing"
    BY DEF Processing, Working, StageOf, IndexWork
  <1> QED BY <1>1 DEF KbInv, ControlInv, StageInv, Staged

LEMMA SearchOuter ==
    ASSUME KbInv, SearchInv, NEW o \in Coroutines, Outer(o)
    PROVE  SearchInv'
  <1>1. Elsewhere
    BY OuterElsewhere
  <1>2. PICK to \in Pcs :
              /\ Moves(o, {to})
              /\ to \in Storing => to = "read" /\ op[o].pc = "saveIndexing" /\ Persist(o)
              /\ to = "dropRow" => op[o].pc = "dropMeta"
              /\ to # "dropMeta"
              /\ o = "delete" => to \in {"idle", "dropRow"} \/ Start(o)
    BY OuterMoves
  <1> SUFFICES ASSUME Undisturbed' PROVE SearchInv'
    BY DEF SearchInv
  <1>3. Undisturbed /\ Calm
    BY <1>1 DEF Undisturbed, Elsewhere, Calm
  <1>4. o = "delete" => op[o].pc # "dropMeta"
    BY <1>3 DEF SearchInv
  <1>5. op'["delete"].pc \in {"cleanVec", "dropMeta", "dropRow"} => op'["delete"] = op["delete"]
    BY <1>1, <1>2, <1>4 DEF Moves, Elsewhere, Aside, Storing, IndexWork, Coroutines
  <1>6. CASE Persist(o)
    <2>1. row' = meta /\ meta' = meta
      BY <1>6 DEF Persist, Harm, Undisturbed
    <2>2. \A p \in Coroutines \ {"delete"} : op'[p].pc \in IndexWork => meta.st # "indexed"
      <3>1. \A p \in Coroutines : op'[p].pc \in IndexWork => op[p].pc \in IndexWork \union {"saveIndexing"}
        BY <1>1 DEF Elsewhere, Aside, Storing
      <3> QED BY <1>3, <3>1, StoringStage
    <2> QED BY <1>1, <1>5, <2>1, <2>2, SearchAside
  <1>7. CASE ~Persist(o)
    <2>1. row' = row
      BY <1>7 DEF Outer, PersistFails, Parse, ParseOver, ParseFailed, ParseEnds, Params, Index, IndexOver,
                  IndexFailed, IndexEnds, DropMeta, Start, Cancel
    <2>2. meta'.st = "indexed" => meta.st = "indexed" \/ op[o].pc = "indexOver"
      <3>1. \A st, md, pc : Assign(o, st, md, pc) => meta'.st = st
        BY DEF Assign
      <3>2. CASE Parse(o) \/ ParseOver(o) \/ ParseFailed(o)
        BY <3>1, <3>2 DEF Parse, ParseOver, ParseFailed, ParseEnds
      <3>3. CASE Params(o) \/ Index(o)
        BY <3>1, <3>3 DEF Params, Index
      <3>4. CASE IndexOver(o) \/ IndexFailed(o)
        BY <3>1, <3>4 DEF IndexOver, IndexFailed, IndexEnds, At
      <3>5. CASE DropMeta(o)
        BY <3>5, AbsentType DEF DropMeta
      <3>6. CASE Start(o) \/ PersistFails(o) \/ Cancel(o)
        BY <3>1, <3>6 DEF Start, PersistFails, Cancel
      <3> QED BY <1>7, <3>2, <3>3, <3>4, <3>5, <3>6 DEF Outer
    <2>3. \A p \in Coroutines \ {"delete"} : op'[p].pc \in IndexWork => row.st # "indexed"
      <3>1. \A p \in Coroutines : op'[p].pc \in IndexWork => op'[p] = op[p]
        BY <1>2, <1>7 DEF Moves, Storing
      <3> QED BY <1>3, <3>1 DEF SearchInv
    <2> QED BY <1>1, <1>5, <2>1, <2>2, <2>3, SearchAside
  <1> QED BY <1>6, <1>7

LEMMA SearchStep ==
    ASSUME KbInv, BuildInv, SearchInv, [KbNext]_kbVars
    PROVE  SearchInv'
  <1>1. ASSUME NEW o \in Coroutines, Outer(o) PROVE SearchInv'
    BY <1>1, SearchOuter
  <1>2. ASSUME NEW o \in Coroutines, Inner(o) PROVE SearchInv'
    BY <1>2, SearchInner
  <1>3. ASSUME NEW o \in Coroutines, DropRow(o) PROVE SearchInv'
    <2>1. o = "delete" /\ op[o].pc = "dropRow" /\ harm' = harm
      BY <1>3 DEF DropRow, At, KbInv, ControlInv, OpTypeOK, PlacesOf
    <2> QED BY <2>1 DEF SearchInv, Undisturbed
  <1>4. CASE StrayCall
    BY <1>4 DEF StrayCall, SearchInv, Undisturbed
  <1>5. CASE List
    <2>1. Elsewhere
      BY <1>5 DEF List, Harm, Elsewhere, Aside, stores
    <2>2. meta'.st # "indexed" /\ row' = row /\ op' = op
      BY <1>5 DEF List, KbInv, DataTypeOK, Record
    <2>3. Undisturbed' => Undisturbed
      BY <2>1 DEF Elsewhere, Undisturbed
    <2>4. \A o \in Coroutines \ {"delete"} : Undisturbed' /\ op'[o].pc \in IndexWork => row'.st # "indexed"
      BY <2>2, <2>3 DEF SearchInv
    <2>5. Undisturbed' => SearchInv'
      BY <2>1, <2>2, <2>4, SearchAside
    <2> QED BY <2>5 DEF SearchInv
  <1>6. CASE Restart
    <2>1. \A o \in Coroutines : op'[o] = Rest /\ op'[o].pc = "idle"
      BY <1>6, RestType DEF Restart
    <2>2. meta' = row /\ row' = row /\ UNCHANGED <<pg, vec, harm>>
      BY <1>6 DEF Restart
    <2> QED BY <2>1, <2>2 DEF SearchInv, Undisturbed, Full, IndexWork, Coroutines
  <1>7. CASE FileKept /\ Elsewhere
    <2>1. Undisturbed' => Undisturbed
      BY <1>7 DEF FileKept, Undisturbed
    <2>2. Undisturbed' => SearchInv'
      BY <1>7, <2>1, SearchAside DEF FileKept, SearchInv
    <2> QED BY <2>2 DEF SearchInv
  <1> QED BY <1>1, <1>2, <1>3, <1>4, <1>5, <1>6, <1>7, StepKinds, GraphElsewhere

-----------------------------------------------------------------------------
(* What a delete leaves *)

Removing == ~At("delete", "idle") \/ row.st = "absent"

LEMMA RemovedInner ==
    ASSUME KbInv, RemovedInv, NEW o \in Coroutines, Inner(o)
    PROVE  RemovedInv'
  <1> USE DEF KbInv, ControlInv
  <1>1. OpTypeOK /\ row' = row /\ harm \subseteq harm'
    BY DEF Inner, Parsing, Read, CleanGraph, CleanPg, CleanVec, EmbedFails, InsertPg, InsertVec, Inserted,
           RollbackPg, RollbackVec, DeleteObject, Harm
  <1>2. op[o].pc \in InnerPlaces(o) /\ Moves(o, Onward(o))
    BY <1>1, InnerMoves
  <1> SUFFICES ASSUME Unraced', Removing' PROVE RemovedInv'
    BY DEF RemovedInv, Removing, At
  <1>3. Unraced
    BY <1>1 DEF Unraced
  <1>4. Removing
    BY <1>1, <1>2 DEF Removing, At, Moves, InnerPlaces, DeleteWork, Coroutines
  <1>5. \A p \in Coroutines : ~Indexing(p)
    BY <1>3, <1>4 DEF RemovedInv, Removing
  <1>6. \A p \in Coroutines : ~Indexing(p)'
    <2>1. o # "delete" => op[o].pc = "parsing"
      BY <1>2, <1>5 DEF InnerPlaces, Indexing, Storing
    <2>2. o # "delete" => op'[o].pc \in {"parseOver", "parseFailed"}
      BY <1>2, <2>1 DEF Moves, Onward
    <2> QED BY <1>2, <1>5, <2>2 DEF Moves, Indexing, Storing, IndexWork
  <1>7. CASE o # "delete"
    <2>1. op[o].pc = "parsing"
      BY <1>2, <1>5, <1>7 DEF InnerPlaces, Indexing, Storing
    <2>2. Parsing(o)
      BY <2>1 DEF Inner, At, Read, CleanGraph, CleanPg, CleanVec, EmbedFails, InsertPg, InsertVec, Inserted,
                  RollbackPg, RollbackVec, DeleteObject
    <2>3. UNCHANGED <<pg, vec>>
      BY <2>2 DEF Parsing, stores
    <2>4. op'["delete"] = op["delete"]
      BY <1>2, <1>7 DEF Moves, Coroutines
    <2> QED BY <1>1, <1>3, <1>4, <1>6, <2>3, <2>4 DEF RemovedInv, Removing, At, Nothing
  <1>8. CASE o = "delete"
    <2>1. op[o].pc \in DeleteWork
      BY <1>2, <1>8 DEF InnerPlaces
    <2>2. CASE CleanPg(o)
      <3>1. /\ vec' = vec
            /\ \/ Moves(o, {"cleanVec"}) /\ pg' = [c \in Chunks |-> "none"]
               \/ Moves(o, {"idle", "indexFailed"}) /\ pg' = pg
        BY <2>2, CleanPgIs
      <3>2. row.st = "absent" => Nothing /\ \A c \in Chunks : vec[c] = 0
        BY <1>3 DEF RemovedInv
      <3> QED BY <1>1, <1>6, <1>8, <3>1, <3>2 DEF RemovedInv, Moves, Nothing
    <2>3. CASE CleanVec(o)
      <3>1. op[o].pc = "cleanVec" /\ op'[o].pc = "dropMeta"
        BY <1>1, <1>8, <2>3, BatchFresh
      <3>2. pg' = pg /\ vec' = NoCopies
        BY <2>3 DEF CleanVec, Unraced
      <3>3. Nothing
        BY <1>3, <1>8, <3>1 DEF RemovedInv
      <3> QED BY <1>6, <1>8, <3>1, <3>2, <3>3 DEF RemovedInv, Nothing, NoCopies
    <2>4. CASE CleanGraph(o) \/ DeleteObject(o)
      <3>1. UNCHANGED <<pg, vec>>
        BY <2>4 DEF CleanGraph, DeleteObject, stores
      <3>2. Moves(o, {"cleanPg"}) \/ Moves(o, {"cleanGraph"})
        BY <1>1, <2>4, GotoMoves DEF CleanGraph, DeleteObject, OpTypeOK, Pcs
      <3>3. row.st = "absent" => Nothing /\ \A c \in Chunks : vec[c] = 0
        BY <1>3 DEF RemovedInv
      <3> QED BY <1>1, <1>6, <1>8, <3>1, <3>2, <3>3 DEF RemovedInv, Moves, Nothing
    <2>5. CleanPg(o) \/ CleanVec(o) \/ CleanGraph(o) \/ DeleteObject(o)
      BY <2>1 DEF Inner, DeleteWork, At, Parsing, Read, EmbedFails, InsertPg, InsertVec, Inserted,
                  RollbackPg, RollbackVec
    <2> QED BY <2>2, <2>3, <2>4, <2>5
  <1> QED BY <1>7, <1>8

\* A step that touches no store and does not end a delete.
LEMMA RemovedAside ==
    ASSUME KbInv, RemovedInv, Unraced', Elsewhere,
           row'.st = "absent" => row.st = "absent",
           Removing' => Removing \/ \A o \in Coroutines : ~Indexing(o),
           \A o \in Coroutines : Indexing(o)' => Indexing(o) \/ ~Removing',
           op'["delete"].pc \in {"cleanVec", "dropMeta", "dropRow"}
               => \/ op'["delete"].pc = op["delete"].pc
                  \/ op'["delete"].pc = "dropRow" /\ op["delete"].pc = "dropMeta"
    PROVE  RemovedInv'
  <1>1. Unraced
    BY DEF Unraced, Elsewhere
  <1>2. \A c \in Chunks : (pg'[c] = "none" <=> pg[c] = "none") /\ vec'[c] = vec[c]
    BY DEF Elsewhere
  <1>3. Removing' => \A o \in Coroutines : ~Indexing(o)'
    BY <1>1 DEF RemovedInv, Removing
  <1> QED BY <1>1, <1>2, <1>3 DEF RemovedInv, Removing, Nothing, At

LEMMA RemovedOuter ==
    ASSUME KbInv, RemovedInv, NEW o \in Coroutines, Outer(o)
    PROVE  RemovedInv'
  <1>1. Elsewhere
    BY OuterElsewhere
  <1>2. PICK to \in Pcs :
              /\ Moves(o, {to})
              /\ to \in Storing => to = "read" /\ op[o].pc = "saveIndexing" /\ Persist(o)
              /\ to = "saveIndexing" => Index(o)
              /\ to = "dropRow" => op[o].pc = "dropMeta"
              /\ to # "dropMeta"
              /\ o = "delete" => to \in {"idle", "dropRow"} \/ Start(o)
    BY OuterMoves
  <1> SUFFICES ASSUME Unraced' PROVE RemovedInv'
    BY DEF RemovedInv
  <1>3. row'.st = "absent" => row.st = "absent"
    <2>1. CASE Persist(o)
      <3>1. row' = op[o].snap /\ op[o].snap.st \in FileStatus
        BY <2>1 DEF Persist, KbInv, ControlInv, DropInv
      <3> QED BY <3>1 DEF FileStatus
    <2>2. CASE ~Persist(o)
      BY <2>2 DEF Outer, PersistFails, Parse, ParseOver, ParseFailed, ParseEnds, Params, Index, IndexOver,
                  IndexFailed, IndexEnds, DropMeta, Start, Cancel
    <2> QED BY <2>1, <2>2
  <1>4. Removing' => Removing \/ \A p \in Coroutines : ~Indexing(p)
    <2>1. CASE o = "delete" /\ Start(o)
      <3>1. ~\E p \in Coroutines : Processing(p)
        BY <2>1 DEF Start, Harm, Unraced
      <3> QED BY <3>1 DEF Processing, Working, Indexing, Storing, IndexWork
    <2>2. CASE ~(o = "delete" /\ Start(o))
      <3>1. ~At("delete", "idle")' => ~At("delete", "idle")
        BY <1>2, <2>2 DEF At, Moves, Coroutines
      <3> QED BY <1>3, <3>1 DEF Removing
    <2> QED BY <2>1, <2>2
  <1>5. ASSUME NEW p \in Coroutines, Indexing(p)', ~Indexing(p) PROVE ~Removing'
    <2>1. p = o /\ to = "saveIndexing"
      <3>1. p = o
        BY <1>2, <1>5 DEF Moves, Indexing
      <3>2. op'[o].pc = to
        BY <1>2 DEF Moves
      <3> QED BY <1>2, <1>5, <3>1, <3>2 DEF Indexing
    <2>2. Index(o) /\ o # "delete"
      BY <1>2, <1>5, <2>1 DEF Indexing
    <2>3. Indexable
      <3>1. op'[o].pc = "saveIndexing"
        BY <1>2, <2>1 DEF Moves
      <3>2. ~Finish(o)
        BY <3>1, RestType DEF Finish, KbInv, ControlInv, OpTypeOK
      <3> QED BY <2>2, <3>2 DEF Index
    <2>4. At("delete", "idle") /\ row' = row
      BY <2>2, <2>3 DEF Index, Harm, Unraced
    <2>5. row.st # "absent"
      BY <2>3 DEF Indexable, KbInv, ControlInv, DropInv
    <2>6. At("delete", "idle")'
      BY <1>2, <2>2, <2>4 DEF At, Moves, Coroutines
    <2> QED BY <2>4, <2>5, <2>6 DEF Removing
  <1>6. op'["delete"].pc \in {"cleanVec", "dropMeta", "dropRow"}
               => \/ op'["delete"].pc = op["delete"].pc
                  \/ op'["delete"].pc = "dropRow" /\ op["delete"].pc = "dropMeta"
    BY <1>2 DEF Moves, Storing, IndexWork, Coroutines
  <1> QED BY <1>1, <1>3, <1>4, <1>5, <1>6, RemovedAside

LEMMA RemovedStep ==
    ASSUME KbInv, BuildInv, RemovedInv, [KbNext]_kbVars
    PROVE  RemovedInv'
  <1>1. ASSUME NEW o \in Coroutines, Outer(o) PROVE RemovedInv'
    BY <1>1, RemovedOuter
  <1>2. ASSUME NEW o \in Coroutines, Inner(o) PROVE RemovedInv'
    BY <1>2, RemovedInner
  <1>3. ASSUME NEW o \in Coroutines, DropRow(o) PROVE RemovedInv'
    <2>1. o = "delete" /\ op[o].pc = "dropRow" /\ UNCHANGED <<harm, vec>>
      BY <1>3 DEF DropRow, At, KbInv, ControlInv, OpTypeOK, PlacesOf
    <2>2. Moves(o, {"idle"})
      BY <1>3, FinishMoves DEF DropRow, KbInv, ControlInv, OpTypeOK
    <2>3. pg' = pg \/ pg' = [c \in Chunks |-> "none"]
      BY <1>3 DEF DropRow
    <2> SUFFICES ASSUME Unraced PROVE RemovedInv'
      BY <2>1 DEF RemovedInv, Unraced
    <2>4. /\ \A p \in Coroutines : ~Indexing(p)
          /\ Nothing /\ \A c \in Chunks : vec[c] = 0
      BY <2>1 DEF RemovedInv, At
    <2>5. \A p \in Coroutines : ~Indexing(p)'
      BY <2>1, <2>2, <2>4 DEF Moves, Indexing
    <2> QED BY <2>1, <2>3, <2>4, <2>5 DEF RemovedInv, Nothing
  <1>4. CASE StrayCall
    BY <1>4 DEF StrayCall, RemovedInv, Unraced
  <1>5. CASE List
    BY <1>5 DEF List, Harm, RemovedInv, Unraced, Nothing, Indexing, At, stores
  <1>6. CASE Restart
    <2>1. \A o \in Coroutines : op'[o].pc = "idle"
      BY <1>6, RestType DEF Restart
    <2>2. row' = row /\ UNCHANGED <<pg, vec, harm>>
      BY <1>6 DEF Restart
    <2> QED BY <2>1, <2>2 DEF RemovedInv, Unraced, Nothing, Indexing, At, Storing, IndexWork, Coroutines
  <1>7. CASE FileKept /\ Elsewhere
    <2>1. Unraced' => RemovedInv'
      BY <1>7, RemovedAside DEF FileKept, Removing, Indexing, At
    <2> QED BY <2>1 DEF RemovedInv
  <1> QED BY <1>1, <1>2, <1>3, <1>4, <1>5, <1>6, <1>7, StepKinds, GraphElsewhere

-----------------------------------------------------------------------------
(* The marks of the chunks and the graph *)

\* What a step that crosses nothing does not do.
Uncrossed ==
    /\ ~(Building' /\ rpc' # "idle")
    /\ ~(Building /\ Cleaned) /\ ~(Building /\ Cleaning)'
    /\ ~Cleaning => ~\E c \in Chunks : pg[c] = "indexed" /\ pg'[c] = "none"
    /\ Written /\ ~Written' => failed' = failed /\ Building'
    /\ ~(rpc = "flags" /\ rpc' = "idle" /\ budget' # budget)
    /\ \A o \in Coroutines : At(o, "cleanPg") => op'[o].pc \in {"cleanPg", "cleanVec"}
    /\ \A o \in Coroutines : ~(At(o, "cleanGraph") /\ op'[o].pc = "cleanPg" /\ budget' # budget)

LEMMA NotCrossed ==
    ASSUME KbNext, crossed' = {}
    PROVE  crossed = {} /\ Uncrossed
  <1>1. crossed' = crossed \union Crossing
    BY DEF KbNext, FileStep, BuildStep, ResetStep, Trace
  <1>2. crossed = {} /\ Crossing = {}
    BY <1>1
  <1>3. ~(Building' /\ rpc' # "idle")
    <2>1. Building' /\ rpc' # "idle" => "reset" \in Crossing
      BY DEF Crossing
    <2> QED BY <1>2, <2>1
  <1>4. ~((Building /\ Cleaned) \/ (Building /\ Cleaning)')
    <2>1. (Building /\ Cleaned) \/ (Building /\ Cleaning)' => "replaced" \in Crossing
      BY DEF Crossing
    <2> QED BY <1>2, <2>1
  <1>5. ~Cleaning => ~\E c \in Chunks : pg[c] = "indexed" /\ pg'[c] = "none"
    <2>1. ~Cleaning /\ (\E c \in Chunks : pg[c] = "indexed" /\ pg'[c] = "none") => "bare" \in Crossing
      BY DEF Crossing
    <2> QED BY <1>2, <2>1
  <1>6. Written /\ ~Written' => failed' = failed /\ Building'
    <2>1. Written /\ ~Written' /\ (failed' # failed \/ ~Building') => "unmarked" \in Crossing
      BY DEF Crossing
    <2> QED BY <1>2, <2>1
  <1>7. ~(\/ rpc = "flags" /\ rpc' = "idle" /\ budget' # budget
          \/ \E o \in Coroutines : At(o, "cleanPg") /\ op'[o].pc \notin {"cleanPg", "cleanVec"}
          \/ \E o \in Coroutines : At(o, "cleanGraph") /\ op'[o].pc = "cleanPg" /\ budget' # budget)
    <2>1. (\/ rpc = "flags" /\ rpc' = "idle" /\ budget' # budget
           \/ \E o \in Coroutines : At(o, "cleanPg") /\ op'[o].pc \notin {"cleanPg", "cleanVec"}
           \/ \E o \in Coroutines : At(o, "cleanGraph") /\ op'[o].pc = "cleanPg" /\ budget' # budget)
          => "half" \in Crossing
      BY DEF Crossing
    <2> QED BY <1>2, <2>1
  <1> QED BY <1>2, <1>3, <1>4, <1>5, <1>6, <1>7 DEF Uncrossed

LEMMA MarksSame ==
    ASSUME Marks, UNCHANGED <<pg, graph, graphVars>>, Cleaning' = Cleaning
    PROVE  Marks'
  BY DEF Marks, graphVars, Building, Holding, Written, Bare

\* All marks go: with nothing crossed there is nothing in the graph.
LEMMA MarksGone ==
    ASSUME Marks, BuildInv, KbInv, Uncrossed, pg' = [c \in Chunks |-> "none"], UNCHANGED <<graph, graphVars>>,
           Building => Cleaning' = Cleaning
    PROVE  Marks'
  <1>1. pg \in [Chunks -> {"none", "pending", "indexed"}] /\ graph \in [Chunks -> BOOLEAN]
    BY DEF KbInv, DataTypeOK
  <1>2. CASE Building
    <2>1. \A c \in Chunks : pg[c] = "none"
      BY <1>1, <1>2 DEF Uncrossed, Cleaned
    <2>2. pg' = pg
      BY <1>1, <2>1
    <2> QED BY <1>2, <2>2, MarksSame
  <1>3. CASE ~Building
    <2>1. listed = {} /\ ~Holding /\ ~Written
      BY <1>3 DEF Building, BuildInv, Holding, Written
    <2>2. Bare
      <3>1. CASE Cleaning \/ rpc = "flags"
        BY <3>1 DEF Marks
      <3>2. CASE ~Cleaning /\ rpc # "flags"
        <4>1. \A c \in Chunks : pg[c] # "indexed"
          BY <3>2 DEF Uncrossed
        <4> QED BY <2>1, <3>2, <4>1 DEF Marks, Bare
      <3> QED BY <3>1, <3>2
    <2> QED BY <1>1, <1>3, <2>1, <2>2 DEF Marks, Bare, graphVars, Building, Holding, Written
  <1> QED BY <1>2, <1>3

LEMMA MarksInner ==
    ASSUME KbInv, BudgetOK, ClearedInv, BuildInv, Marks, Calm, Uncrossed, UNCHANGED graphVars,
           NEW o \in Coroutines, Inner(o)
    PROVE  Marks'
  <1> USE DEF KbInv, ControlInv
  <1>1. /\ OpTypeOK /\ op \in [Coroutines -> Local] /\ graph \in [Chunks -> BOOLEAN]
        /\ pg \in [Chunks -> {"none", "pending", "indexed"}]
    BY DEF OpTypeOK, DataTypeOK
  <1>2. ASSUME op[o].pc # "cleanPg", op'[o].pc # "cleanPg", \A p \in Coroutines : p # o => op'[p] = op[p]
        PROVE  Cleaning' = Cleaning
    BY <1>2 DEF Cleaning, At
  <1>3. CASE CleanGraph(o)
    <2>1. op[o].pc = "cleanGraph" /\ pg' = pg /\ Moves(o, {"cleanPg"})
      BY <1>1, <1>3, GotoMoves DEF CleanGraph, At, Pcs
    <2>2. Cleaning'
      BY <2>1 DEF Moves, Cleaning, At
    <2>3. ~Building /\ ~Written /\ ~Holding /\ listed = {} /\ UNCHANGED <<bpc, listed, rpc>>
      BY <2>2 DEF Uncrossed, graphVars, Building, Written, Holding, BuildInv
    <2>4. budget' = budget
      BY <2>1 DEF Uncrossed, At, Moves
    <2>5. graph' = IF GraphRecorded THEN [c \in Chunks |-> FALSE] ELSE graph
      BY <1>3, <2>4, SpendChanges DEF CleanGraph
    <2>6. Bare'
      <3>1. CASE GraphRecorded
        BY <2>5, <3>1 DEF Bare
      <3>2. CASE ~GraphRecorded
        BY <2>3, <2>5, <3>2 DEF Bare, GraphRecorded, Marks
      <3> QED BY <3>1, <3>2
    <2> QED BY <2>2, <2>3, <2>6 DEF Marks, Bare, Building, Holding, Written
  <1>4. CASE CleanPg(o)
    <2>1. /\ op[o].pc = "cleanPg" /\ graph' = graph
          /\ \/ pg' = [c \in Chunks |-> "none"]
             \/ Moves(o, {"idle", "indexFailed"})
      BY <1>4, CleanPgIs
    <2>2. Cleaning
      BY <2>1 DEF Cleaning, At
    <2>3. ~Building
      BY <2>2 DEF Marks
    <2>4. pg' = [c \in Chunks |-> "none"]
      BY <2>1 DEF Uncrossed, At, Moves
    <2> QED BY <2>1, <2>3, <2>4, MarksGone
  <1>5. CASE RollbackPg(o)
    <2>1. op[o].pc = "rollbackPg" /\ Moves(o, {"rollbackVec"}) /\ graph' = graph
      BY <1>1, <1>5, GotoMoves DEF RollbackPg, At, Pcs
    <2>2. Cleaning' = Cleaning
      BY <1>2, <2>1 DEF Moves
    <2>3. pg' = pg \/ pg' = [c \in Chunks |-> "none"]
      BY <1>5 DEF RollbackPg
    <2> QED BY <2>1, <2>2, <2>3, MarksSame, MarksGone
  <1>6. CASE InsertPg(o)
    <2>1. op[o].pc = "insert" /\ "pg" \in op[o].todo /\ op[o].next \in Chunks /\ graph' = graph
      BY <1>6, InsertPgIs
    <2>2. PICK ok \in BOOLEAN : /\ Wrote(o, "pg", ok)
                                /\ pg' = IF ok THEN [pg EXCEPT ![op[o].next] = "pending"] ELSE pg
      BY <1>6, InsertPgIs
    <2>3. op'[o].pc = op[o].pc /\ \A p \in Coroutines : p # o => op'[p] = op[p]
      BY <1>1, <2>2, BatchWrote DEF BothStores
    <2>4. Cleaning' = Cleaning
      BY <1>2, <2>1, <2>3
    <2>5. pg[op[o].next] = "none"
      BY <2>1, NotDeleting DEF ClearedInv, Due
    <2>6. CASE ok
      <3>1. pg'[op[o].next] = "pending" /\ \A c \in Chunks : c # op[o].next => pg'[c] = pg[c]
        BY <1>1, <2>1, <2>2, <2>6
      <3>2. Holding => cur \in Chunks /\ pg'[cur] # "none"
        BY <3>1 DEF Marks, BuildInv
      <3>3. \A c \in listed : pg'[c] # "none"
        BY <3>1 DEF Marks, BuildInv
      <3>4. Written => cur # op[o].next
        BY <2>5 DEF Marks, Holding, Written
      <3> QED BY <2>1, <2>4, <2>5, <3>1, <3>2, <3>3, <3>4
              DEF Marks, Bare, graphVars, Building, Holding, Written
    <2>7. CASE ~ok
      BY <2>1, <2>2, <2>4, <2>7, MarksSame
    <2> QED BY <2>6, <2>7
  <1>7. CASE ~CleanGraph(o) /\ ~CleanPg(o) /\ ~RollbackPg(o) /\ ~InsertPg(o)
    <2>1. UNCHANGED <<pg, graph>>
      BY <1>7 DEF Inner, Parsing, Read, CleanVec, EmbedFails, InsertVec, Inserted, RollbackVec, DeleteObject, stores
    <2>2. op[o].pc # "cleanPg"
      BY <1>7 DEF Inner, At, Parsing, Read, CleanVec, EmbedFails, InsertVec, Inserted, RollbackVec, DeleteObject
    <2>3. op'[o].pc # "cleanPg" /\ \A p \in Coroutines : p # o => op'[p] = op[p]
      <3>1. CASE InsertVec(o)
        <4>1. op[o].pc = "insert" /\ \E ok \in BOOLEAN : Wrote(o, "vec", ok)
          BY <3>1, InsertVecIs
        <4> QED BY <1>1, <4>1, BatchWrote DEF BothStores
      <3>2. CASE CleanVec(o) \/ Inserted(o)
        BY <1>1, <3>2, BatchFresh, BatchDone
      <3>3. CASE ~InsertVec(o) /\ ~CleanVec(o) /\ ~Inserted(o)
        BY <1>1, <1>7, <3>3, InnerGoes DEF Moves
      <3> QED BY <3>1, <3>2, <3>3
    <2> QED BY <1>2, <2>1, <2>2, <2>3, MarksSame
  <1> QED BY <1>3, <1>4, <1>5, <1>6, <1>7

\* The build and the reset.
LEMMA MarksGraph ==
    ASSUME KbInv, BudgetOK, BuildInv, Marks, Uncrossed, UNCHANGED op,
           BuildStep \/ ResetStep \/ SubmitGraphWork \/ GraphFault
    PROVE  Marks'
  <1>1. pg \in [Chunks -> {"none", "pending", "indexed"}] /\ graph \in [Chunks -> BOOLEAN]
    BY DEF KbInv, DataTypeOK
  <1>2. Cleaning' = Cleaning
    BY DEF Cleaning, At
  <1> USE DEF Building, Holding, Written
  <1>3. CASE Graph!ListPending
    <2>1. UNCHANGED <<pg, graph, cur, rpc>> /\ bpc = "list" /\ bpc' \in {"idle", "claim"}
      BY <1>3 DEF Graph!ListPending
    <2>2. \A c \in listed' : pg[c] # "none"
      BY <1>3 DEF Graph!ListPending, Graph!Untried, Graph!FirstPending, Graph!Pending
    <2> QED BY <1>2, <2>1, <2>2 DEF Marks, Bare
  <1>4. CASE Graph!Claim
    <2>1. UNCHANGED <<pg, graph, rpc>> /\ bpc = "claim"
      BY <1>4 DEF Graph!Claim
    <2>2. \/ bpc' = "list" /\ listed' = listed
          \/ bpc' = "extract" /\ cur' \in listed /\ listed' \subseteq listed
      BY <1>4 DEF Graph!Claim
    <2> QED BY <1>2, <2>1, <2>2 DEF Marks, Bare
  <1>5. CASE Graph!WriteGraph
    <2>1. UNCHANGED <<pg, listed, cur, rpc>> /\ bpc = "extract" /\ bpc' = "refs" /\ cur \in Chunks
      BY <1>5 DEF Graph!WriteGraph, Graph!Advance, BuildInv
    <2>2. graph'[cur] /\ \A c \in Chunks : c # cur => graph'[c] = graph[c]
      BY <1>1, <1>5, <2>1 DEF Graph!WriteGraph
    <2> QED BY <1>2, <2>1, <2>2 DEF Marks, Bare
  <1>6. CASE Graph!WriteRefs
    BY <1>2, <1>6 DEF Graph!WriteRefs, Marks, Bare
  <1>7. CASE Graph!Mark
    <2>1. UNCHANGED <<graph, listed, rpc>> /\ bpc = "mark" /\ bpc' = "claim" /\ cur \in Chunks
      BY <1>7 DEF Graph!Mark, Graph!Advance, BuildInv
    <2>2. pg' = [pg EXCEPT ![cur] = IF pg[cur] = "none" THEN pg[cur] ELSE "indexed"]
      BY <1>7 DEF Graph!Mark
    <2>3. pg[cur] # "none" /\ graph[cur]
      BY <2>1 DEF Marks
    <2>4. pg'[cur] = "indexed" /\ \A c \in Chunks : c # cur => pg'[c] = pg[c]
      BY <1>1, <2>1, <2>2, <2>3
    <2>5. \A c \in listed : pg'[c] # "none"
      BY <2>4 DEF Marks, BuildInv
    <2> QED BY <1>2, <2>1, <2>3, <2>4, <2>5 DEF Marks, Bare
  <1>8. CASE Graph!ChunkFails
    <2>1. UNCHANGED <<pg, graph, listed, rpc>> /\ Holding /\ bpc' = "claim" /\ failed' = failed \union {cur}
      BY <1>8 DEF Graph!ChunkFails
    <2>2. failed' # failed
      BY <2>1 DEF BuildInv
    <2>3. ~Written
      BY <2>1, <2>2 DEF Uncrossed
    <2> QED BY <1>2, <2>1, <2>3 DEF Marks, Bare
  <1>9. CASE Graph!DropGraph
    <2>1. ~Building /\ listed = {} /\ UNCHANGED <<pg, bpc, listed, cur>> /\ rpc' = "flags"
      BY <1>9 DEF Graph!DropGraph, Graph!buildVars, Uncrossed, BuildInv
    <2>2. Bare'
      BY <1>9 DEF Graph!DropGraph, Bare
    <2> QED BY <2>1, <2>2 DEF Marks, Bare
  <1>10. CASE Graph!ResetFlags
    <2>1. ~Building /\ listed = {} /\ Bare /\ UNCHANGED <<graph, bpc, listed, cur>> /\ rpc' = "idle"
      BY <1>10 DEF Graph!ResetFlags, Graph!buildVars, Marks, BuildInv
    <2>2. \A c \in Chunks : pg'[c] # "indexed"
      BY <1>10 DEF Graph!ResetFlags
    <2> QED BY <1>1, <2>1, <2>2 DEF Marks, Bare
  <1>11. CASE SubmitGraphWork
    <2>1. CASE Graph!StartBuild
      <3>1. bpc = "idle" /\ bpc' = "list" /\ listed = {} /\ UNCHANGED <<pg, graph, listed, cur, rpc>>
        BY <2>1 DEF Graph!StartBuild, BuildInv
      <3>2. rpc = "idle" /\ ~Cleaning
        BY <1>2, <3>1 DEF Uncrossed
      <3> QED BY <1>2, <3>1, <3>2 DEF Marks, Bare
    <2>2. CASE Graph!StartReset
      <3>1. bpc = "idle" /\ rpc = "idle" /\ rpc' = "graph" /\ UNCHANGED <<pg, graph, bpc, listed, cur>>
        BY <2>2 DEF Graph!StartReset, Graph!buildVars
      <3> QED BY <1>2, <3>1 DEF Marks, Bare
    <2> QED BY <1>11, <2>1, <2>2 DEF SubmitGraphWork
  <1>12. CASE GraphFault
    <2>1. budget' # budget
      BY <1>12, SpendChanges DEF GraphFault
    <2>2. CASE Graph!ResetFails
      <3>1. rpc # "flags" /\ rpc' = "idle" /\ UNCHANGED <<pg, graph, bpc, listed, cur>>
        BY <2>1, <2>2 DEF Graph!ResetFails, Graph!buildVars, Uncrossed
      <3> QED BY <1>2, <3>1 DEF Marks, Bare
    <2>3. CASE Graph!EndBuild /\ UNCHANGED <<pg, graph, rpc>>
      <3>1. bpc' = "idle" /\ listed' = {}
        BY <2>3 DEF Graph!EndBuild
      <3>2. ~Written
        BY <3>1 DEF Uncrossed
      <3> QED BY <1>2, <2>3, <3>1, <3>2 DEF Marks, Bare
    <2> QED BY <1>8, <1>12, <2>2, <2>3 DEF GraphFault
  <1>13. CASE BuildStep
    <2>1. CASE Graph!ChunkGone
      BY <1>8, <2>1 DEF Graph!ChunkGone
    <2> QED BY <1>3, <1>4, <1>5, <1>6, <1>7, <1>13, <2>1 DEF BuildStep, RunBuild, Graph!BuildStep
  <1>14. CASE ResetStep
    BY <1>9, <1>10, <1>14 DEF ResetStep, RunReset, Graph!ResetStep
  <1> QED BY <1>11, <1>12, <1>13, <1>14

LEMMA MarksStep ==
    ASSUME KbInv, BudgetOK, ClearedInv, BuildInv, MarksInv, [KbNext]_kbVars
    PROVE  MarksInv'
  <1> SUFFICES ASSUME crossed' = {}, Calm' PROVE Marks'
    BY DEF MarksInv, Marks
  <1>1. CASE UNCHANGED kbVars
    <2>1. Marks
      BY <1>1 DEF MarksInv, Marks, kbVars, vars, Calm
    <2>2. UNCHANGED <<pg, graph, graphVars>> /\ Cleaning' = Cleaning
      BY <1>1 DEF kbVars, vars, stores, Cleaning, At
    <2> QED BY <2>1, <2>2, MarksSame
  <1>2. CASE KbNext
    <2>1. crossed = {} /\ Uncrossed
      BY <1>2, NotCrossed
    <2>2. harm \subseteq harm'
      <3>1. ASSUME NEW o \in Coroutines, Inner(o) PROVE harm \subseteq harm'
        BY <3>1 DEF Inner, Parsing, Read, CleanGraph, CleanPg, CleanVec, EmbedFails, InsertPg, InsertVec, Inserted,
                    RollbackPg, RollbackVec, DeleteObject, Harm
      <3> QED BY <3>1, ElsewhereIs DEF Elsewhere, DropRow, StrayCall
    <2>3. Marks /\ Calm
      BY <2>1, <2>2 DEF MarksInv, Marks, Calm
    <2>4. ASSUME NEW o \in Coroutines, Inner(o), UNCHANGED graphVars PROVE Marks'
      BY <2>1, <2>3, <2>4, MarksInner
    <2>5. ASSUME Aside PROVE Cleaning' = Cleaning
      <3>1. \A o \in Coroutines : op'[o].pc = "cleanPg" => op[o].pc = "cleanPg"
        BY <2>5 DEF Aside, Storing, IndexWork
      <3>2. \A o \in Coroutines : op[o].pc = "cleanPg" => op'[o].pc = "cleanPg"
        BY <2>1, <2>5 DEF Aside, Storing, IndexWork, Uncrossed, At
      <3> QED BY <3>1, <3>2 DEF Cleaning, At
    <2>6. ASSUME NEW o \in Coroutines, Outer(o), UNCHANGED graphVars PROVE Marks'
      <3>1. Aside /\ UNCHANGED <<pg, graph>>
        BY <2>6, OuterElsewhere DEF Elsewhere
      <3> QED BY <2>3, <2>5, <2>6, <3>1, MarksSame
    <2>7. ASSUME NEW o \in Coroutines, DropRow(o), UNCHANGED graphVars PROVE Marks'
      <3>1. op[o].pc = "dropRow" /\ graph' = graph /\ (pg' = pg \/ pg' = [c \in Chunks |-> "none"])
        BY <2>7 DEF DropRow, At
      <3>2. Moves(o, {"idle"})
        BY <2>7, FinishMoves DEF DropRow, KbInv, ControlInv, OpTypeOK
      <3>3. Cleaning' = Cleaning
        BY <3>1, <3>2 DEF Cleaning, At, Moves
      <3> QED BY <2>1, <2>3, <2>7, <3>1, <3>3, MarksSame, MarksGone
    <2>8. CASE (List \/ StrayCall) /\ UNCHANGED graphVars
      <3>1. UNCHANGED <<pg, graph, op>>
        BY <2>8 DEF List, StrayCall, stores
      <3> QED BY <2>3, <2>8, <3>1, MarksSame DEF Cleaning, At
    <2>9. CASE Reboot
      <3>1. bpc' = "idle" /\ listed' = {} /\ rpc' = "idle" /\ UNCHANGED <<pg, graph>> /\ budget' # budget
        BY <2>9, SpendChanges DEF Reboot, Restart, Graph!EndBuild
      <3>2. \A o \in Coroutines : op'[o].pc = "idle"
        BY <2>9, RestType DEF Reboot, Restart
      <3>3. ~Cleaning /\ ~Cleaning' /\ rpc # "flags" /\ ~Written
        BY <2>1, <3>1, <3>2 DEF Cleaning, At, Uncrossed, Building, Written
      <3> QED BY <2>3, <3>1, <3>3 DEF Marks, Building, Holding, Written
    <2>10. CASE BuildStep \/ ResetStep \/ SubmitGraphWork \/ GraphFault
      <3>1. UNCHANGED op
        BY <2>10 DEF BuildStep, ResetStep, RunBuild, RunReset, SubmitGraphWork, GraphFault, FileKept
      <3> QED BY <2>1, <2>3, <2>10, <3>1, MarksGraph
    <2>11. CASE \E o \in Coroutines : FileStep(o)
      BY <2>4, <2>6, <2>7, <2>11 DEF FileStep, Step, Inner, Outer
    <2>12. CASE FileEvent /\ UNCHANGED graphVars
      BY <2>4, <2>6, <2>8, <2>12 DEF FileEvent, Inner, Outer
    <2> QED BY <1>2, <2>9, <2>10, <2>11, <2>12 DEF KbNext
  <1> QED BY <1>1, <1>2

-----------------------------------------------------------------------------
(* The batch of a build *)

\* The instance of GraphBuild has its own copy of the operator.
LEMMA SameCardinality == \A S : Graph!Cardinality(S) = Cardinality(S)
  BY DEF Graph!Cardinality, Cardinality

\* The chunks a batch leaves out come after BatchSize others: the first of
\* them after BatchSize chunks of the batch.
LEMMA BatchIsFirst ==
    ASSUME ~(Graph!Pending \subseteq Graph!FirstPending)
    PROVE  Cardinality(Graph!FirstPending) >= BatchSize
  <1> DEFINE P == Graph!Pending
             F == Graph!FirstPending
             Below(c) == {d \in P : d < c}
             T == {Below(c) : c \in P \ F}
  <1>1. P \subseteq Chunks /\ P \subseteq Nat /\ F = {c \in P : Cardinality(Below(c)) < BatchSize}
    <2>1. P \subseteq Chunks /\ P \subseteq Nat
      BY DEF Graph!Pending, Chunks
    <2>2. F = {c \in P : Cardinality(Below(c)) < BatchSize}
      BY SameCardinality DEF Graph!FirstPending
    <2> QED BY <2>1, <2>2
  <1>2. IsFiniteSet(P)
    <2>1. IsFiniteSet(Chunks)
      BY FS_Interval, KnowledgeFileAssumption DEF Chunks
    <2> QED BY <1>1, <2>1, FS_Subset
  <1>3. BatchSize \in Nat
    BY BatchSizeAssumption
  <1>4. T # {} /\ T \subseteq FiniteSubsetsOf(P)
    <2>1. \E c : c \in P \ F
      OBVIOUS
    <2>2. \A c : Below(c) \in SUBSET P /\ IsFiniteSet(Below(c))
      BY <1>2, FS_Subset
    <2> QED BY <2>1, <2>2 DEF FiniteSubsetsOf
  <1> HIDE DEF P, F
  <1>5. PICK x \in T : \A y \in T : ~(<<y, x>> \in StrictSubsetOrdering(P))
    <2> HIDE DEF T
    <2> QED BY <1>4, FS_StrictSubsetOrderingWellFounded, WFMin
  <1>6. PICK c \in P \ F : x = Below(c)
    BY <1>5
  <1>7. Below(c) \subseteq F
    <2> SUFFICES ASSUME NEW d \in Below(c), d \notin F PROVE FALSE
      OBVIOUS
    <2>1. Below(d) \in T
      OBVIOUS
    <2>2. d \in P /\ d < c /\ d \in Nat /\ c \in Nat
      BY <1>1
    <2>3. Below(d) \subseteq Below(c)
      <3> SUFFICES ASSUME NEW e \in P, e < d PROVE e < c
        OBVIOUS
      <3>1. e \in Nat
        BY <1>1
      <3> QED BY <2>2, <3>1
    <2>4. d \notin Below(d)
      BY <2>2
    <2>5. <<Below(d), Below(c)>> \in StrictSubsetOrdering(P)
      BY <2>3, <2>4 DEF StrictSubsetOrdering
    <2> QED BY <1>5, <1>6, <2>1, <2>5
  <1>8. IsFiniteSet(F) /\ IsFiniteSet(Below(c))
    BY <1>1, <1>2, FS_Subset
  <1>9. Cardinality(F) \in Nat /\ Cardinality(Below(c)) \in Nat /\ Cardinality(Below(c)) <= Cardinality(F)
    <2> HIDE DEF Below
    <2> QED BY <1>7, <1>8, FS_Subset, FS_CardinalityType
  <1>10. ~(Cardinality(Below(c)) < BatchSize)
    BY <1>1, <1>6
  <1>11. Cardinality(F) >= BatchSize
    BY <1>3, <1>9, <1>10
  <1> QED BY <1>11 DEF F

-----------------------------------------------------------------------------
(* The stores' invariant holds *)

LEMMA InitStores == KbInit => StoresInv
  <1> SUFFICES ASSUME KbInit PROVE StoresInv
    OBVIOUS
  <1>1. /\ \A o \in Coroutines : op[o].pc = "idle"
        /\ row = meta /\ harm = {} /\ bpc = "idle" /\ rpc = "idle" /\ listed = {}
    BY RestType DEF KbInit, Init, Graph!BuildInit
  <1>2. /\ graph = [c \in Chunks |-> pg[c] = "indexed"] /\ meta.st # "absent"
        /\ \A c \in Chunks : vec[c] \in {0, 1}
        /\ meta.st = "indexed" => \A c \in Chunks : pg[c] # "none" /\ vec[c] = 1
    <2>1. CASE meta = None("new") /\ pg = [c \in Chunks |-> "none"] /\ vec = [c \in Chunks |-> 0]
      BY <2>1 DEF KbInit, Init, None
    <2>2. CASE /\ meta \in [st : {"indexed"}, md : BOOLEAN]
               /\ pg \in {[c \in Chunks |-> g] : g \in {"pending", "indexed"}}
               /\ vec = [c \in Chunks |-> 1]
      <3>1. meta.st = "indexed"
        BY <2>2
      <3>2. \A c \in Chunks : pg[c] # "none" /\ vec[c] = 1
        BY <2>2
      <3> QED BY <3>1, <3>2 DEF KbInit, Init
    <2> QED BY <2>1, <2>2 DEF KbInit, Init
  <1>3. BudgetOK
    BY KnowledgeFileAssumption DEF KbInit, Init, BudgetOK
  <1>4. ClearedInv /\ VectorsInv
    BY <1>1, <1>2 DEF ClearedInv, VectorsInv
  <1>5. SearchInv
    BY <1>1, <1>2 DEF SearchInv, Full, IndexWork, Coroutines
  <1>6. RemovedInv
    BY <1>1, <1>2 DEF RemovedInv, Indexing, Storing, IndexWork, At, Coroutines
  <1>7. BuildInv
    BY <1>1 DEF BuildInv, Holding
  <1>8. MarksInv
    BY <1>1, <1>2 DEF MarksInv, Marks, Building, Cleaning, At, Holding, Written
  <1> QED BY <1>3, <1>4, <1>5, <1>6, <1>7, <1>8 DEF StoresInv

LEMMA StoresStep == KbInv /\ StoresInv /\ [KbNext]_kbVars => StoresInv'
  BY BudgetStep, ClearedStep, VectorsStep, SearchStep, RemovedStep, BuildInvStep, MarksStep DEF StoresInv

LEMMA StoresInvariance == KbSpec => [](KbInv /\ StoresInv)
  BY InitInv, StepInv, InitStores, StoresStep, PTL DEF KbSpec

-----------------------------------------------------------------------------
(* Theorems *)

\* Every record, row, mark and copy keeps its type, and whoever holds the
\* metadata lock is at a write whose end gives it back, in success, failure,
\* cancellation and restart: no file operation waits for the lock for ever.
THEOREM TypeCorrect == KbSpec => []TypeOK
  <1>1. KbInv => TypeOK
    BY DEF KbInv, DataTypeOK, ControlInv, LockInv, TypeOK
  <1> QED BY <1>1, Invariance, PTL

\* Whatever fails, is cut by its timeout or is deleted under it, a coroutine
\* that parses or indexes the file leaves the set of files in process: a file
\* in the set is one somebody is at work on.
THEOREM ProcessingSetLeft == KbSpec => []SetIsLeft
  <1>1. KbInv => SetIsLeft
    BY DEF KbInv, ControlInv, SetInv, SetIsLeft
  <1> QED BY <1>1, Invariance, PTL

\* The status read and set without an await in between is the lock: of any
\* number of parses, imports and indexings at most one works on the file, as
\* long as no listing and no late failure overwrote the status of one at work.
THEOREM OneWorker == KbSpec => []OneAtATime
  <1>1. ASSUME KbInv PROVE OneAtATime
    <2> DEFINE W == {o \in Coroutines : Processing(o)}
    <2> SUFFICES ASSUME Calm PROVE Cardinality(W) <= 1
      BY DEF OneAtATime, Calm
    <2>1. \A o, p \in W : o = p
      BY <1>1 DEF KbInv, ControlInv, StageInv, Staged
    <2>2. CASE W = {}
      BY <2>2, FS_EmptySet
    <2>3. CASE W # {}
      <3>1. PICK o \in W : TRUE
        BY <2>3
      <3>2. W = {o}
        BY <2>1, <3>1
      <3> HIDE DEF W
      <3> QED BY <3>2, FS_Singleton
    <2> QED BY <2>2, <2>3
  <1> QED BY <1>1, Invariance, PTL

\* The row of a deleted file is written again only by a write made without the
\* metadata lock (the addition, the parse and the parameters): no write of an
\* indexing, of any coroutine, in any order, revives it.
THEOREM IndexingNeverRevives == KbSpec => OnlyUnlockedRevives
  <1> DEFINE Lockless == row.st = "absent" /\ row'.st # "absent"
                 => \E o \in Coroutines : op[o].pc \in Saves \ Locked /\ op'[o].pc # op[o].pc
  <1>1. KbInv /\ [KbNext]_kbVars => [Lockless]_kbVars
    <2> SUFFICES ASSUME KbInv, KbNext, row.st = "absent", row'.st # "absent"
                 PROVE  \E o \in Coroutines : op[o].pc \in Saves \ Locked /\ op'[o].pc # op[o].pc
      BY DEF KbInv
    <2>1. \E o \in Coroutines : Persist(o)
      <3>1. row' # row
        OBVIOUS
      <3>2. ~FileKept /\ ~Restart
        BY <3>1 DEF FileKept, Restart
      <3>3. ~FileEvent
        BY <3>1 DEF FileEvent, Start, PersistFails, EmbedFails, Cancel, List, StrayCall
      <3>4. PICK o \in Coroutines : Step(o)
        BY <3>2, <3>3 DEF KbNext, FileStep, BuildStep, ResetStep, RunBuild, RunReset, SubmitGraphWork,
                          GraphFault, Reboot
      <3>5. ~DropRow(o)
        BY <3>1, AbsentType DEF DropRow
      <3> QED BY <3>1, <3>4, <3>5
              DEF Step, Parse, Parsing, ParseOver, ParseFailed, ParseEnds, Params, Index, Read, CleanGraph,
                  CleanPg, CleanVec, InsertPg, InsertVec, Inserted, RollbackPg, RollbackVec, IndexOver,
                  IndexFailed, IndexEnds, DeleteObject, DropMeta
    <2>2. PICK o \in Coroutines : Persist(o)
      BY <2>1
    <2>3. op[o].pc \in Saves \ Locked
      BY <2>2 DEF KbInv, ControlInv, DropInv, Persist
    <2>4. op'[o].pc \notin Saves
      BY <2>2, PersistMoves DEF KbInv, ControlInv, Moves, Saves
    <2> QED BY <2>3, <2>4
  <1> QED BY <1>1, Invariance, PTL DEF KbSpec, OnlyUnlockedRevives

\* A row that says "indexed" has every chunk in both stores, at every point of
\* a first or a repeated indexing, of its roll-back, of a cut by the timeout
\* and of a restart: the row is changed before the first chunk is removed, and
\* the record says "indexed" only after the last batch succeeded in both.
THEOREM IndexedIsSearchable == KbSpec => []RowIndexedIsSearchable
  <1>1. KbInv /\ StoresInv => RowIndexedIsSearchable
    BY DEF StoresInv, SearchInv, Undisturbed, Full, RowIndexedIsSearchable
  <1> QED BY <1>1, StoresInvariance, PTL

\* However often the file is indexed, cut or failed and indexed again, no
\* chunk is inserted into Milvus beside a copy of itself: an indexing inserts
\* each chunk once, after it removed those of the one before.
THEOREM OneCopyOfEachChunk == KbSpec => []VectorsOnce
  <1>1. KbInv /\ StoresInv => VectorsOnce
    BY DEF StoresInv, VectorsInv, VectorsOnce
  <1> QED BY <1>1, StoresInvariance, PTL

\* As long as files, build and reset keep apart, the marks of the chunks say
\* what is in Neo4j, but for the chunk a build has written and not yet marked
\* and what a clean-up or a reset has removed and not yet unmarked.
THEOREM MarksTellGraph == KbSpec => []GraphMatchesMarks
  <1>1. KbInv /\ StoresInv => GraphMatchesMarks
    BY DEF StoresInv, MarksInv, Marks, Calm, GraphMatchesMarks
  <1> QED BY <1>1, StoresInvariance, PTL

\* A file deleted while nobody indexed it, with no store failing and no build
\* or reset crossing the delete, leaves no chunk, no vector and no node: the
\* chunks go before the record and the row, and without a record nothing
\* indexes the file again.
THEOREM DeleteIsComplete == KbSpec => []DeletedLeavesNothing
  <1>1. ASSUME KbInv, StoresInv, row.st = "absent", crossed = {}, harm \subseteq {"delete", "stale"},
               NEW c \in Chunks
        PROVE  pg[c] = "none" /\ vec[c] = 0 /\ ~graph[c]
    <2>1. Nothing /\ vec[c] = 0
      BY <1>1 DEF StoresInv, RemovedInv, Unraced
    <2>2. Marks
      BY <1>1 DEF StoresInv, MarksInv, Calm
    <2>3. graph[c] \in BOOLEAN
      BY <1>1 DEF KbInv, DataTypeOK
    <2>4. ~graph[c]
      BY <2>1, <2>2, <2>3 DEF Marks, Nothing, Written, Holding
    <2> QED BY <2>1, <2>4 DEF Nothing
  <1>2. KbInv /\ StoresInv => DeletedLeavesNothing
    BY <1>1 DEF DeletedLeavesNothing
  <1> QED BY <1>2, StoresInvariance, PTL

\* A build that ends by itself, whatever failed on the way and whatever was
\* indexed or removed beside it, has tried every chunk that is still pending,
\* or has as many failures among the first as it reads at a time.
THEOREM BuildTriesAll == KbSpec => BuildLeavesOnlyFailures
  <1> DEFINE Tried == bpc = "list" /\ bpc' = "idle" /\ budget' = budget
                 => Graph!Pending \subseteq failed \/ Cardinality(Graph!Pending \intersect failed) >= BatchSize
  <1>1. KbInv /\ StoresInv /\ [KbNext]_kbVars => [Tried]_kbVars
    <2> SUFFICES ASSUME StoresInv, KbNext, bpc = "list", bpc' = "idle", budget' = budget,
                        ~(Graph!Pending \subseteq failed)
                 PROVE  Cardinality(Graph!Pending \intersect failed) >= BatchSize
      OBVIOUS
    <2>1. ~Spend("faults") /\ ~Spend("graph")
      BY SpendChanges DEF StoresInv
    <2>2. Graph!ListPending
      BY <2>1 DEF KbNext, FileStep, BuildStep, ResetStep, RunBuild, RunReset, SubmitGraphWork, GraphFault,
                  Reboot, Restart, graphVars, Graph!BuildStep, Graph!ResetStep, Graph!Claim, Graph!WriteGraph,
                  Graph!WriteRefs, Graph!ChunkGone, Graph!ChunkFails, Graph!Mark, Graph!Advance, Graph!DropGraph,
                  Graph!ResetFlags, Graph!buildVars
    <2>3. Graph!FirstPending \subseteq failed
      BY <2>2 DEF Graph!ListPending, Graph!Untried
    <2>4. Cardinality(Graph!FirstPending) >= BatchSize
      BY <2>3, BatchIsFirst
    <2>5. Graph!FirstPending \subseteq Graph!Pending \intersect failed
      BY <2>3 DEF Graph!FirstPending
    <2>6. IsFiniteSet(Graph!Pending \intersect failed)
      <3>1. IsFiniteSet(Chunks)
        BY FS_Interval, KnowledgeFileAssumption DEF Chunks
      <3>2. Graph!Pending \intersect failed \subseteq Chunks
        BY DEF Graph!Pending
      <3> QED BY <3>1, <3>2, FS_Subset
    <2>7. /\ Cardinality(Graph!FirstPending) \in Nat /\ Cardinality(Graph!Pending \intersect failed) \in Nat
          /\ Cardinality(Graph!FirstPending) <= Cardinality(Graph!Pending \intersect failed)
      BY <2>5, <2>6, FS_Subset, FS_CardinalityType
    <2> QED BY <2>4, <2>7, BatchSizeAssumption
  <1> QED BY <1>1, StoresInvariance, PTL DEF KbSpec, BuildLeavesOnlyFailures
=============================================================================
