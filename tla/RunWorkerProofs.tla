-------------------------- MODULE RunWorkerProofs ---------------------------
(***************************************************************************)
(* Theorems about RunWorker, for every number of tries, faults, chunks and *)
(* cancels, whatever faults may strike and whether or not ARQ runs a       *)
(* raising job again: its types, that an end event is only ever seen of a  *)
(* terminal run and that the first one tells its status, that no chunk is  *)
(* overtaken, and that it implements RunStatus; and, where the cancel key  *)
(* is neither lost nor unreadable, that an early cancel is honoured.       *)
(***************************************************************************)
EXTENDS RunWorker, TLAPS

USE DEF TERMINAL_RUN_STATUSES, ActiveStatuses, RunStatuses, IsTerminal, CreatedStatus

-----------------------------------------------------------------------------
(* The operators the actions are built from *)

LEMMA NoChunkType == NoChunk \in Chunk
  BY DEF NoChunk, Chunk, ChunkKinds, Threads

LEMMA EmptyBufType == [t \in Threads |-> <<>>] \in [Threads -> Seq(Nat)]
  <1>1. <<>> \in Seq(Nat)
    OBVIOUS
  <1> QED BY <1>1

\* Forgetting the coroutine leaves its state well typed.
LEMMA ForgetType == Forget => LocalTypeOK'
  BY NoChunkType, EmptyBufType
     DEF Forget, LocalTypeOK, Places, Modes, GenStates

\* Every chunk the agent may yield has a kind, a thread and a next state.
LEMMA StreamYieldsType ==
    \A g \in GenStates : \A y \in StreamYields[g] :
        y[1] \in ChunkKinds /\ y[2] \in Threads /\ y[3] \in GenStates
  BY DEF GenStates, StreamYields, ChunkKinds, ClosingKinds, Threads

LEMMA MappedTypeType == \A kind : MappedType(kind) \in EventTypes
  BY Zenon DEF MappedType, EventTypes

LEMMA ReportTypeType == ReportType \in EventTypes
  BY Zenon DEF ReportType, EventTypes

LEMMA AfterFlushType == AfterFlush \in Places
  BY Zenon DEF AfterFlush, Places, TryPlaces

\* A well-typed event keeps the stream well typed.
LEMMA WriteType ==
    ASSUME SharedTypeOK, NEW type \in EventTypes, NEW thread \in Threads,
           NEW items \in Seq(Nat), NEW st \in TERMINAL_RUN_STATUSES \union {"-"}
    PROVE  Append(events, EventOf(type, thread, items, st)) \in Seq(Event)
  <1>1. EventOf(type, thread, items, st) \in Event
    BY RunWorkerAssumption DEF EventOf, Event, SharedTypeOK
  <1> QED BY <1>1 DEF SharedTypeOK

LEMMA StrikesType ==
    ASSUME SharedTypeOK, NEW k, Strikes(k)
    PROVE  faults' \in 0..MaxFaults
  BY RunWorkerAssumption DEF SharedTypeOK, Strikes

LEMMA HandleType ==
    ASSUME LocalTypeOK, NEW m \in HandlerModes, Handle(m)
    PROVE  pc' \in Places /\ mode' \in Modes /\ left' \in SUBSET Threads
  BY DEF LocalTypeOK, Handle, Places, TryPlaces, Modes, Buffered

LEMMA JobOverType ==
    ASSUME SharedTypeOK, JobOver
    PROVE  job' \in {"queued", "running", "done"} /\ try' \in 1..MaxTries
  BY RunWorkerAssumption DEF SharedTypeOK, JobOver, EndsToBeRetried, Requeue, JobDone, IsLastTry

\* Only a chunk that closes the run of the main thread settles it.
LEMMA EmitTarget ==
    ASSUME LocalTypeOK, EmitChunk
    PROVE  target' \in TERMINAL_RUN_STATUSES
  <1>1. CASE pc' = "commit"
    <2>1. cur.thread = "main" /\ cur.kind \in ClosingKinds /\ cur.kind # "interrupted"
      BY <1>1, Zenon DEF EmitChunk
    <2> QED BY <1>1, <2>1 DEF EmitChunk, ClosingKinds, StatusAfter
  <1>2. CASE pc' # "commit"
    BY <1>2 DEF EmitChunk, LocalTypeOK
  <1> QED BY <1>1, <1>2

-----------------------------------------------------------------------------
(* Type correctness: one step per action of Next *)

LEMMA TypeInit == Init => TypeOK
  <1> SUFFICES ASSUME Init PROVE TypeOK
    OBVIOUS
  <1>1. SharedTypeOK
    <2>1. events \in Seq(Event)
      BY DEF Init
    <2>2. try \in 1..MaxTries /\ faults \in 0..MaxFaults /\ cancels \in 0..MaxCancels
      BY RunWorkerAssumption DEF Init
    <2> QED BY <2>1, <2>2 DEF Init, SharedTypeOK
  <1>2. LocalTypeOK
    BY NoChunkType, EmptyBufType DEF Init, LocalTypeOK, Places, Modes, GenStates
  <1> QED BY <1>1, <1>2 DEF TypeOK

LEMMA TypeStep == TypeOK /\ [Next]_vars => TypeOK'
  <1> SUFFICES ASSUME TypeOK, [Next]_vars PROVE TypeOK'
    OBVIOUS
  <1> USE RunWorkerAssumption DEF TypeOK, rowVars, jobVars, apiVars
  <1>1. CASE PickUp
    BY <1>1 DEF PickUp, SharedTypeOK, LocalTypeOK, Places
  <1>2. CASE SkipTerminal
    BY <1>2, ForgetType DEF SkipTerminal, SharedTypeOK, LocalTypeOK, JobDone
  <1>3. CASE LoadRun
    BY <1>3 DEF LoadRun, SharedTypeOK, LocalTypeOK, Places
  <1>4. CASE UserGone
    BY <1>4, StrikesType DEF UserGone, SharedTypeOK, LocalTypeOK, Places, TryPlaces
  <1>5. CASE StartRunning
    BY <1>5 DEF StartRunning, SharedTypeOK, LocalTypeOK, Places, MarkRunning
  <1>6. CASE WriteMetadata
    <2>1. EventOf("metadata", "main", <<>>, "-") \in Event
      BY DEF SharedTypeOK, EventOf, Event, EventTypes, Threads
    <2> QED BY <1>6, <2>1
            DEF WriteMetadata, Write, SharedTypeOK, LocalTypeOK, Places, TryPlaces, Modes, TryModes
  <1>7. CASE WatchCancel
    BY <1>7 DEF WatchCancel, SharedTypeOK, LocalTypeOK
  <1>8. CASE TakeChunk
    <2>1. PICK y \in StreamYields[gen] :
            /\ cur' = [n |-> chunks + 1, kind |-> y[1], thread |-> y[2]]
            /\ gen' = y[3]
            /\ chunks' = chunks + 1
            /\ IF y[1] = "loading"
               THEN /\ buf' = [buf EXCEPT ![y[2]] = Append(@, chunks + 1)]
                    /\ \/ pc' = "take" /\ left' = {}
                       \/ pc' = "flush" /\ left' = {y[2]}
               ELSE /\ buf' = buf
                    /\ left' = WrittenBefore(y[2])
                    /\ pc' = IF left' = {} THEN "emit" ELSE "flush"
      BY <1>8 DEF TakeChunk
    <2>2. y[1] \in ChunkKinds /\ y[2] \in Threads /\ y[3] \in GenStates
      BY <2>1, StreamYieldsType DEF LocalTypeOK
    <2>3. cur' \in Chunk /\ chunks' \in Nat
      BY <2>1, <2>2 DEF SharedTypeOK, Chunk
    <2>4. buf' \in [Threads -> Seq(Nat)]
      <3>1. Append(buf[y[2]], chunks + 1) \in Seq(Nat)
        BY <2>2 DEF SharedTypeOK, LocalTypeOK
      <3> QED BY <2>1, <2>2, <3>1 DEF LocalTypeOK
    <2>5. left' \in SUBSET Threads /\ pc' \in Places
      BY <2>1, <2>2 DEF WrittenBefore, Buffered, Places, TryPlaces
    <2> QED BY <1>8, <2>1, <2>2, <2>3, <2>4, <2>5 DEF TakeChunk, SharedTypeOK, LocalTypeOK
  <1>9. CASE SkipGarbled
    BY <1>9, StrikesType, StreamYieldsType DEF SkipGarbled, SharedTypeOK, LocalTypeOK
  <1>10. CASE StreamStops
    <2>1. pc' \in {"flush", "close", "commit"}
      BY <1>10, Zenon DEF StreamStops
    <2> QED BY <1>10, <2>1
            DEF StreamStops, SharedTypeOK, LocalTypeOK, Places, TryPlaces, Modes, TryModes, Buffered
  <1>11. CASE NoticeCancel
    BY <1>11, HandleType DEF NoticeCancel, SharedTypeOK, LocalTypeOK, HandlerModes
  <1>12. CASE Flush
    <2>1. PICK t \in left : /\ Write(EventOf("messages", t, buf[t], "-"))
                            /\ buf' = [buf EXCEPT ![t] = <<>>]
                            /\ left' = left \ {t}
      BY <1>12 DEF Flush
    <2>2. EventOf("messages", t, buf[t], "-") \in Event
      BY DEF SharedTypeOK, LocalTypeOK, EventOf, Event, EventTypes
    <2>3. pc' \in Places
      BY <1>12, AfterFlushType DEF Flush, Places, TryPlaces
    <2>4. buf' \in [Threads -> Seq(Nat)]
      BY <2>1 DEF LocalTypeOK
    <2> QED BY <1>12, <2>1, <2>2, <2>3, <2>4 DEF Flush, Write, SharedTypeOK, LocalTypeOK
  <1>13. CASE EmitChunk
    <2>1. EventOf(MappedType(cur.kind), cur.thread, <<cur.n>>, "-") \in Event
      BY MappedTypeType DEF SharedTypeOK, LocalTypeOK, EventOf, Event, Chunk
    <2>2. pc' \in {"check", "peek", "commit"}
      BY <1>13, Zenon DEF EmitChunk
    <2>3. target' \in TERMINAL_RUN_STATUSES
      BY <1>13, EmitTarget
    <2>4. events' \in Seq(Event)
      <3>1. \/ events' = events
            \/ Write(EventOf(MappedType(cur.kind), cur.thread, <<cur.n>>, "-"))
        BY <1>13, Zenon DEF EmitChunk
      <3> QED BY <2>1, <3>1 DEF Write, SharedTypeOK
    <2>5. UNCHANGED <<rowVars, key, jobVars, mode, noticed, buf, left, cur, gen, ended,
                      chunks, apiVars, faults>>
      BY <1>13, Zenon DEF EmitChunk
    <2> QED BY <2>2, <2>3, <2>4, <2>5 DEF SharedTypeOK, LocalTypeOK, Places, TryPlaces
  <1>14. CASE PeekCancelRequest
    BY <1>14 DEF PeekCancelRequest, SharedTypeOK, LocalTypeOK, Places, TryPlaces
  <1>15. CASE CommitTerminal
    <2>1. SharedTypeOK'
      BY <1>15 DEF CommitTerminal, SharedTypeOK, LocalTypeOK, SetTerminalStatus, JobDone
    <2>2. LocalTypeOK'
      BY <1>15, ForgetType DEF CommitTerminal, LocalTypeOK, Places, TryPlaces
    <2> QED BY <2>1, <2>2
  <1>16. CASE AppendEnd
    <2>1. EventOf("end", "main", <<>>, target) \in Event
      BY DEF SharedTypeOK, LocalTypeOK, EventOf, Event, EventTypes, Threads
    <2>2. SharedTypeOK'
      BY <1>16, <2>1 DEF AppendEnd, Write, SharedTypeOK
    <2>3. LocalTypeOK'
      BY <1>16 DEF AppendEnd, LocalTypeOK, Places, TryPlaces
    <2> QED BY <2>2, <2>3
  <1>17. CASE CheckCancelled
    <2>1. CASE IsCancelled
      BY <1>17, <2>1, HandleType DEF CheckCancelled, SharedTypeOK, LocalTypeOK, HandlerModes
    <2>2. CASE ~IsCancelled
      BY <1>17, <2>2 DEF CheckCancelled, SharedTypeOK, LocalTypeOK, Places, TryPlaces
    <2> QED BY <2>1, <2>2
  <1>18. CASE Report
    <2>1. EventOf(ReportType, "main", <<>>, "-") \in Event
      BY ReportTypeType DEF SharedTypeOK, EventOf, Event, Threads
    <2> QED BY <1>18, <2>1 DEF Report, Write, SharedTypeOK, LocalTypeOK, Places, TryPlaces
  <1>19. CASE CloseContext
    BY <1>19 DEF CloseContext, SharedTypeOK, LocalTypeOK, Places
  <1>20. CASE ClearSignal
    BY <1>20, ForgetType, JobOverType DEF ClearSignal, SharedTypeOK, LocalTypeOK
  <1>21. CASE Raise
    BY <1>21, HandleType, StrikesType DEF Raise, SharedTypeOK, LocalTypeOK, HandlerModes
  <1>22. CASE FlushReplyLost
    <2>1. PICK t \in left : Write(EventOf("messages", t, buf[t], "-"))
      BY <1>22 DEF FlushReplyLost
    <2>2. EventOf("messages", t, buf[t], "-") \in Event
      BY DEF SharedTypeOK, LocalTypeOK, EventOf, Event, EventTypes
    <2> QED BY <1>22, <2>1, <2>2, HandleType, StrikesType
            DEF FlushReplyLost, Write, SharedTypeOK, LocalTypeOK, HandlerModes
  <1>23. CASE JobTimeout
    BY <1>23, HandleType, StrikesType DEF JobTimeout, SharedTypeOK, LocalTypeOK, HandlerModes
  <1>24. CASE HandlerRaises
    BY <1>24, StrikesType DEF HandlerRaises, SharedTypeOK, LocalTypeOK, Places, Modes
  <1>25. CASE CheckUnread
    BY <1>25, StrikesType DEF CheckUnread, SharedTypeOK, LocalTypeOK, Places, TryPlaces
  <1>26. CASE ClearFails
    BY <1>26, ForgetType, JobOverType, StrikesType DEF ClearFails, SharedTypeOK, LocalTypeOK
  <1>27. CASE SetupRaises
    BY <1>27, ForgetType, StrikesType
       DEF SetupRaises, SharedTypeOK, LocalTypeOK, JobDone, Requeue, IsLastTry
  <1>28. CASE WorkerCrash
    BY <1>28, ForgetType, StrikesType DEF WorkerCrash, SharedTypeOK, LocalTypeOK, JobDone, Requeue, IsLastTry
  <1>29. CASE KeyExpires
    BY ZenonT(40), <1>29, StrikesType DEF KeyExpires, SharedTypeOK, LocalTypeOK, workerVars
  <1>30. CASE CancelLock
    BY <1>30 DEF CancelLock, SharedTypeOK, LocalTypeOK, workerVars
  <1>31. CASE CancelSignal
    BY <1>31 DEF CancelSignal, SharedTypeOK, LocalTypeOK, workerVars
  <1>32. CASE CancelSignalFails
    BY <1>32, StrikesType DEF CancelSignalFails, SharedTypeOK, LocalTypeOK, workerVars
  <1>33. CASE CancelCommit
    BY <1>33 DEF CancelCommit, SharedTypeOK, LocalTypeOK, workerVars, RequestCancel
  <1>34. CASE CancelAborts
    BY <1>34, StrikesType DEF CancelAborts, SharedTypeOK, LocalTypeOK, workerVars
  <1>35. CASE UNCHANGED vars
    BY <1>35 DEF vars, SharedTypeOK, LocalTypeOK
  <1> QED
    BY <1>1, <1>2, <1>3, <1>4, <1>5, <1>6, <1>7, <1>8, <1>9, <1>10, <1>11,
       <1>12, <1>13, <1>14, <1>15, <1>16, <1>17, <1>18, <1>19, <1>20, <1>21,
       <1>22, <1>23, <1>24, <1>25, <1>26, <1>27, <1>28, <1>29, <1>30, <1>31,
       <1>32, <1>33, <1>34, <1>35
       DEF Next, WorkerStep, OwnStep, AgentStep, CancelApi, Fault, SurvivedFault

\* Type correctness, of the shared state and of the coroutine's own.
THEOREM TypeCorrect == Spec => []TypeOK
  BY TypeInit, TypeStep, PTL DEF Spec

-----------------------------------------------------------------------------
(* What the coroutine's place says of the row *)

\* The worker announces an end only after the commit that settled the row,
\* whoever's commit that was.
EndAfterCommit == pc = "end" => IsTerminal(status)

\* Once the try block is entered the row has left pending, for good.
StartedOnce == pc = "meta" \/ mode # "setup" => status # "pending"

\* Before the try block only a deleted user settles the run: it fails.
SetupOnlyFails == pc = "commit" /\ mode = "setup" => target = "failed"

\* The places of the try block and after it belong to one of its modes.
SetupPlaces == mode = "setup" => pc \in {"idle", "load", "mark", "meta", "commit"}

PlaceInv == EndAfterCommit /\ StartedOnce /\ SetupOnlyFails /\ SetupPlaces

\* The inductive invariant.
RowInv == PlaceInv /\ EndOnlyOfTerminal

LEMMA RowInit == Init => RowInv
  BY DEF Init, RowInv, PlaceInv, EndAfterCommit, StartedOnce, SetupOnlyFails, SetupPlaces,
         EndOnlyOfTerminal

\* Only three actions write the row.
LEMMA RowWriters ==
    ASSUME [Next]_vars, ~StartRunning, ~CommitTerminal, ~CancelCommit
    PROVE  UNCHANGED rowVars
  <1> USE DEF rowVars
  <1>1. CASE PickUp \/ LoadRun \/ UserGone \/ SkipTerminal \/ SetupRaises
    BY <1>1 DEF PickUp, LoadRun, UserGone, SkipTerminal, SetupRaises
  <1>2. CASE WriteMetadata \/ TakeChunk \/ SkipGarbled \/ Flush \/ FlushReplyLost
    BY <1>2 DEF WriteMetadata, TakeChunk, SkipGarbled, Flush, FlushReplyLost
  <1>3. CASE StreamStops \/ EmitChunk
    BY <1>3, Zenon DEF StreamStops, EmitChunk
  <1>4. CASE WatchCancel \/ NoticeCancel \/ CheckCancelled \/ CheckUnread \/ PeekCancelRequest
    BY <1>4 DEF WatchCancel, NoticeCancel, CheckCancelled, CheckUnread, PeekCancelRequest
  <1>5. CASE AppendEnd \/ Report \/ CloseContext \/ ClearSignal \/ ClearFails
    BY <1>5 DEF AppendEnd, Report, CloseContext, ClearSignal, ClearFails
  <1>6. CASE Raise \/ JobTimeout \/ HandlerRaises \/ WorkerCrash \/ KeyExpires
    BY <1>6 DEF Raise, JobTimeout, HandlerRaises, WorkerCrash, KeyExpires
  <1>7. CASE CancelLock \/ CancelSignal \/ CancelSignalFails \/ CancelAborts
    BY <1>7 DEF CancelLock, CancelSignal, CancelSignalFails, CancelAborts
  <1>8. CASE UNCHANGED vars
    BY <1>8 DEF vars
  <1> QED BY <1>1, <1>2, <1>3, <1>4, <1>5, <1>6, <1>7, <1>8
          DEF Next, WorkerStep, OwnStep, AgentStep, CancelApi, Fault, SurvivedFault

\* A terminal row is never written again.
LEMMA TerminalStays ==
    ASSUME [Next]_vars, IsTerminal(status)
    PROVE  status' = status
  <1>1. CASE StartRunning
    BY <1>1 DEF StartRunning, MarkRunning
  <1>2. CASE CommitTerminal
    BY <1>2 DEF CommitTerminal, SetTerminalStatus
  <1>3. CASE CancelCommit
    BY <1>3 DEF CancelCommit, RequestCancel
  <1> QED BY <1>1, <1>2, <1>3, RowWriters DEF rowVars


\* Every action but AppendEnd leaves the stream alone or adds an event that
\* is no end event.
LEMMA StreamWriters ==
    ASSUME TypeOK, [Next]_vars, ~AppendEnd
    PROVE  events' = events \/ \E e : Write(e) /\ e.type # "end"
  <1>1. CASE WriteMetadata \/ Flush \/ FlushReplyLost
    <2>1. \A type, t, items : EventOf(type, t, items, "-").type = type
      BY DEF EventOf
    <2>2. \E t, items : \/ Write(EventOf("metadata", t, items, "-"))
                        \/ Write(EventOf("messages", t, items, "-"))
      BY <1>1, Zenon DEF WriteMetadata, Flush, FlushReplyLost
    <2> QED BY <2>1, <2>2
  <1>2. CASE EmitChunk
    <2>1. \A kind : MappedType(kind) # "end"
      BY Zenon DEF MappedType
    <2>2. \/ events' = events
          \/ Write(EventOf(MappedType(cur.kind), cur.thread, <<cur.n>>, "-"))
      BY <1>2, Zenon DEF EmitChunk
    <2> QED BY <2>1, <2>2 DEF EventOf
  <1>3. CASE Report
    <2>1. ReportType # "end"
      BY Zenon DEF ReportType
    <2> QED BY <1>3, <2>1 DEF Report, EventOf
  <1>4. CASE StreamStops
    BY <1>4, Zenon DEF StreamStops
  <1>5. CASE PickUp \/ LoadRun \/ UserGone \/ SkipTerminal \/ SetupRaises \/ StartRunning
    BY <1>5 DEF PickUp, LoadRun, UserGone, SkipTerminal, SetupRaises, StartRunning
  <1>6. CASE TakeChunk \/ SkipGarbled \/ WatchCancel \/ NoticeCancel \/ CheckCancelled
    BY <1>6 DEF TakeChunk, SkipGarbled, WatchCancel, NoticeCancel, CheckCancelled
  <1>7. CASE CheckUnread \/ PeekCancelRequest \/ CommitTerminal \/ CloseContext
    BY <1>7 DEF CheckUnread, PeekCancelRequest, CommitTerminal, CloseContext
  <1>8. CASE ClearSignal \/ ClearFails \/ Raise \/ JobTimeout \/ HandlerRaises
    BY <1>8 DEF ClearSignal, ClearFails, Raise, JobTimeout, HandlerRaises
  <1>9. CASE \/ WorkerCrash \/ KeyExpires \/ CancelLock \/ CancelSignal
            \/ CancelSignalFails \/ CancelCommit \/ CancelAborts
    BY <1>9 DEF WorkerCrash, KeyExpires, CancelLock, CancelSignal, CancelSignalFails,
                CancelCommit, CancelAborts
  <1>10. CASE UNCHANGED vars
    BY <1>10 DEF vars
  <1> QED BY <1>1, <1>2, <1>3, <1>4, <1>5, <1>6, <1>7, <1>8, <1>9, <1>10
          DEF Next, WorkerStep, OwnStep, AgentStep, CancelApi, Fault, SurvivedFault

LEMMA EndStep == TypeOK /\ RowInv /\ [Next]_vars => EndOnlyOfTerminal'
  <1> SUFFICES ASSUME TypeOK, RowInv, [Next]_vars PROVE EndOnlyOfTerminal'
    OBVIOUS
  <1>1. IsTerminal(status) => IsTerminal(status')
    BY TerminalStays
  <1>2. CASE AppendEnd
    <2>1. IsTerminal(status)
      BY <1>2 DEF AppendEnd, RowInv, PlaceInv, EndAfterCommit
    <2> QED BY <1>1, <2>1 DEF EndOnlyOfTerminal
  <1>3. CASE events' = events
    BY <1>1, <1>3 DEF EndOnlyOfTerminal, RowInv
  <1>4. ASSUME NEW e, Write(e), e.type # "end"
        PROVE  EndOnlyOfTerminal'
    <2>1. \A i \in DOMAIN events' : events'[i].type = "end" => i \in DOMAIN events /\ events'[i] = events[i]
      BY <1>4 DEF Write, TypeOK, SharedTypeOK
    <2> QED BY <1>1, <2>1 DEF EndOnlyOfTerminal, RowInv
  <1> QED BY <1>2, <1>3, <1>4, StreamWriters

LEMMA PlaceStep == TypeOK /\ PlaceInv /\ [Next]_vars => PlaceInv'
  <1> SUFFICES ASSUME TypeOK, PlaceInv, [Next]_vars PROVE PlaceInv'
    OBVIOUS
  <1> USE DEF PlaceInv, EndAfterCommit, StartedOnce, SetupOnlyFails, SetupPlaces, TypeOK,
              LocalTypeOK, rowVars, jobVars, apiVars, workerVars
  <1>1. CASE SkipTerminal \/ ClearSignal \/ ClearFails \/ SetupRaises \/ WorkerCrash
    BY <1>1 DEF SkipTerminal, ClearSignal, ClearFails, SetupRaises, WorkerCrash, Forget
  <1>2. CASE PickUp \/ LoadRun \/ UserGone
    BY <1>2 DEF PickUp, LoadRun, UserGone
  <1>3. CASE StartRunning
    BY <1>3 DEF StartRunning, MarkRunning
  <1>4. CASE WriteMetadata \/ WatchCancel \/ SkipGarbled \/ PeekCancelRequest
    BY <1>4 DEF WriteMetadata, WatchCancel, SkipGarbled, PeekCancelRequest
  <1>5. CASE TakeChunk
    BY <1>5 DEF TakeChunk
  <1>6. CASE StreamStops
    <2>1. /\ pc' \in {"flush", "close", "commit"} /\ mode' = "drain"
          /\ pc = "take" /\ status' = status
      BY <1>6, Zenon DEF StreamStops
    <2> QED BY <2>1
  <1>7. CASE EmitChunk
    <2>1. /\ pc = "emit" /\ pc' \in {"check", "peek", "commit"}
          /\ mode' = mode /\ status' = status
      BY <1>7, Zenon DEF EmitChunk
    <2> QED BY <2>1
  <1>8. CASE Flush
    <2>1. pc' \in TryPlaces \union {"close"} /\ pc' # "end"
      <3>1. AfterFlush \in {"take", "emit", "close", "commit", "report"}
        BY Zenon DEF AfterFlush
      <3> QED BY <1>8, <3>1 DEF Flush, TryPlaces
    <2> QED BY <1>8, <2>1 DEF Flush
  <1>9. CASE CommitTerminal
    BY <1>9 DEF CommitTerminal, SetTerminalStatus, Forget
  <1>10. CASE AppendEnd \/ Report \/ CloseContext \/ CheckUnread
    BY <1>10 DEF AppendEnd, Report, CloseContext, CheckUnread
  <1>11. CASE NoticeCancel \/ CheckCancelled \/ JobTimeout \/ HandlerRaises
    BY <1>11 DEF NoticeCancel, CheckCancelled, JobTimeout, HandlerRaises, Handle,
                 TryModes, HandlerModes
  <1>12. CASE Raise \/ FlushReplyLost
    BY <1>12 DEF Raise, FlushReplyLost, Handle, TryModes
  <1>13. CASE KeyExpires \/ CancelLock \/ CancelSignal \/ CancelSignalFails \/ CancelAborts
    BY <1>13 DEF KeyExpires, CancelLock, CancelSignal, CancelSignalFails, CancelAborts
  <1>14. CASE CancelCommit
    BY <1>14 DEF CancelCommit, RequestCancel
  <1>15. CASE UNCHANGED vars
    BY <1>15 DEF vars
  <1> QED
    BY <1>1, <1>2, <1>3, <1>4, <1>5, <1>6, <1>7, <1>8, <1>9, <1>10, <1>11, <1>12,
       <1>13, <1>14, <1>15
       DEF Next, WorkerStep, OwnStep, AgentStep, CancelApi, Fault, SurvivedFault

LEMMA RowStep == TypeOK /\ RowInv /\ [Next]_vars => RowInv'
  BY PlaceStep, EndStep DEF RowInv

-----------------------------------------------------------------------------

\* A client that sees an end event finds the run settled, under every
\* interleaving of the worker, its faults and the cancel endpoint.
THEOREM EndSeenOfTerminal == Spec => []EndOnlyOfTerminal
  <1>1. TypeOK /\ RowInv /\ [Next]_vars => RowInv'
    BY RowStep
  <1>2. RowInv => EndOnlyOfTerminal
    BY DEF RowInv
  <1> QED BY TypeInit, TypeStep, RowInit, <1>1, <1>2, PTL DEF Spec

\* The status a run goes through is one RunStatus allows: it starts before
\* it finishes, only a run nobody started fails from pending, and the first
\* terminal status is the last.
THEOREM WorkerKeepsLifecycle == Spec => LifecycleSpec
  <1>1. Init => Lifecycle!Init
    BY DEF Init, Lifecycle!Init, Lifecycle!CreatedStatus
  <1>2. TypeOK /\ RowInv /\ [Next]_vars => [Lifecycle!Next]_status
    <2> SUFFICES ASSUME TypeOK, RowInv, [Next]_vars, status' # status
                 PROVE  Lifecycle!Next
      OBVIOUS
    <2> USE DEF TypeOK, SharedTypeOK, LocalTypeOK, RowInv, PlaceInv, Lifecycle!Next,
                Lifecycle!ActiveStatuses, Lifecycle!TERMINAL_RUN_STATUSES
    <2>1. CASE StartRunning
      BY <2>1 DEF StartRunning, MarkRunning, Lifecycle!Start
    <2>2. CASE CancelCommit
      BY <2>2 DEF CancelCommit, RequestCancel, Lifecycle!AskToCancel
    <2>3. CASE CommitTerminal
      BY <2>3 DEF CommitTerminal, SetTerminalStatus, StartedOnce, SetupOnlyFails,
                  Lifecycle!Finish, Lifecycle!Reject
    <2> QED BY <2>1, <2>2, <2>3, RowWriters DEF rowVars
  <1> QED BY TypeInit, TypeStep, RowInit, RowStep, <1>1, <1>2, PTL
          DEF Spec, LifecycleSpec, Lifecycle!Spec

-----------------------------------------------------------------------------
(* The first end event *)

\* The stream only grows, by at most one event in a step.
LEMMA StreamGrows ==
    ASSUME TypeOK, [Next]_vars
    PROVE  /\ Len(events) \in Nat /\ Len(events') \in {Len(events), Len(events) + 1}
           /\ DOMAIN events = 1..Len(events) /\ DOMAIN events' = 1..Len(events')
           /\ \A i \in DOMAIN events : i \in DOMAIN events' /\ events'[i] = events[i]
  <1>1. events \in Seq(Event)
    BY DEF TypeOK, SharedTypeOK
  <1>2. events' = events \/ \E e : events' = Append(events, e)
    <2>1. CASE AppendEnd
      BY <2>1 DEF AppendEnd, Write
    <2>2. CASE ~AppendEnd
      BY <2>2, StreamWriters, Zenon DEF Write
    <2> QED BY <2>1, <2>2
  <1> QED BY <1>1, <1>2

\* What an attempt that failed says of it.
Notices == {"error", "retry", "interrupt"}

\* The stream says so, after the events the row was settled with.
FailureSaid == \E j \in (marked + 1)..Len(events) : events[j].type \in Notices

MarkedBehind == marked \in 0..Len(events)

\* Between the commit that settled the row and the first end event the worker
\* announces what it committed, or a handler has reported, or is about to,
\* or nobody will announce anything.
EndTells ==
    IsTerminal(status) /\ Ends = {} =>
        \/ pc \in {"idle", "load", "close", "clear"}
        \/ pc \in {"flush", "report"} /\ mode \in HandlerModes
        \/ pc \in {"commit", "end"} /\ FailureSaid
        \/ pc = "end" /\ target = status

EndsAfterMark == \A i \in Ends : marked < i

EndInv == MarkedBehind /\ EndsAfterMark /\ EndTells /\ FirstEndTruthful

LEMMA EndInvInit == Init => EndInv
  BY DEF Init, EndInv, MarkedBehind, EndsAfterMark, EndTells, FirstEndTruthful, Ends

LEMMA MarkedStep == TypeOK /\ MarkedBehind /\ [Next]_vars => MarkedBehind'
  <1> SUFFICES ASSUME TypeOK, MarkedBehind, [Next]_vars PROVE MarkedBehind'
    OBVIOUS
  <1>1. CASE CommitTerminal
    BY <1>1, StreamGrows DEF CommitTerminal, MarkedBehind
  <1>2. CASE StartRunning \/ CancelCommit
    BY <1>2 DEF StartRunning, CancelCommit, MarkedBehind
  <1> QED BY <1>1, <1>2, RowWriters, StreamGrows DEF rowVars, MarkedBehind

\* With the row settled, neither the status nor the mark moves.
LEMMA SettledRowStays ==
    ASSUME [Next]_vars, IsTerminal(status)
    PROVE  status' = status /\ marked' = marked
  <1>1. CASE StartRunning \/ CancelCommit
    BY <1>1, TerminalStays DEF StartRunning, CancelCommit
  <1>2. CASE CommitTerminal
    BY <1>2, TerminalStays DEF CommitTerminal
  <1> QED BY <1>1, <1>2, TerminalStays, RowWriters DEF rowVars

LEMMA EndsAfterStep == TypeOK /\ RowInv /\ MarkedBehind /\ EndsAfterMark /\ [Next]_vars => EndsAfterMark'
  <1> SUFFICES ASSUME TypeOK, RowInv, MarkedBehind, EndsAfterMark, [Next]_vars PROVE EndsAfterMark'
    OBVIOUS
  <1>1. CASE marked' = marked
    <2> SUFFICES ASSUME NEW i \in Ends' PROVE marked < i
      BY <1>1 DEF EndsAfterMark
    <2>1. CASE i \in DOMAIN events
      BY <2>1, StreamGrows DEF EndsAfterMark, Ends
    <2>2. CASE i \notin DOMAIN events
      BY <2>2, StreamGrows DEF MarkedBehind, Ends
    <2> QED BY <2>1, <2>2
  <1>2. CASE marked' # marked
    <2>1. ~IsTerminal(status) /\ events' = events
      BY <1>2, SettledRowStays, RowWriters DEF StartRunning, CommitTerminal, CancelCommit, rowVars
    <2>2. Ends' = {}
      BY <2>1 DEF RowInv, EndOnlyOfTerminal, Ends
    <2> QED BY <2>2 DEF EndsAfterMark
  <1> QED BY <1>1, <1>2

LEMMA FailureStaysSaid ==
    ASSUME TypeOK, MarkedBehind, [Next]_vars, IsTerminal(status), FailureSaid
    PROVE  FailureSaid'
  BY SettledRowStays, StreamGrows DEF FailureSaid, MarkedBehind

LEMMA EndsGrow ==
    ASSUME TypeOK, [Next]_vars
    PROVE  Ends \subseteq Ends'
  BY StreamGrows DEF Ends

\* What the worker does with the row settled and no end event written.
LEMMA EndTellsOn ==
    ASSUME TypeOK, RowInv, EndInv, [Next]_vars, IsTerminal(status), Ends' = {}
    PROVE  EndTells'
  <1>1. Ends = {} /\ status' = status /\ marked' = marked
    BY EndsGrow, SettledRowStays
  <1>2. FailureSaid => FailureSaid'
    BY FailureStaysSaid DEF EndInv
  <1> USE DEF EndInv, EndTells, rowVars, jobVars, apiVars, workerVars
  <1>3. CASE SkipTerminal \/ ClearSignal \/ ClearFails \/ SetupRaises \/ WorkerCrash
    BY <1>3 DEF SkipTerminal, ClearSignal, ClearFails, SetupRaises, WorkerCrash, Forget
  <1>4. CASE PickUp \/ CloseContext
    BY <1>4 DEF PickUp, CloseContext
  <1>5. CASE \/ LoadRun \/ UserGone \/ StartRunning \/ WriteMetadata \/ TakeChunk \/ SkipGarbled
            \/ NoticeCancel \/ PeekCancelRequest \/ CheckCancelled \/ CheckUnread
    BY <1>1, <1>5 DEF LoadRun, UserGone, StartRunning, WriteMetadata, TakeChunk, SkipGarbled,
                      NoticeCancel, PeekCancelRequest, CheckCancelled, CheckUnread
  <1>6. CASE StreamStops \/ EmitChunk
    <2>1. pc \in {"take", "emit"}
      BY <1>6, Zenon DEF StreamStops, EmitChunk
    <2> QED BY <1>1, <2>1
  <1>7. CASE WatchCancel \/ KeyExpires
    BY <1>1, <1>2, <1>7 DEF WatchCancel, KeyExpires
  <1>8. CASE Flush
    <2>1. mode \in HandlerModes /\ pc = "flush"
      BY <1>1, <1>8 DEF Flush
    <2>2. AfterFlush = "report"
      BY <2>1, Zenon DEF AfterFlush, HandlerModes
    <2> QED BY <1>8, <2>1, <2>2 DEF Flush
  <1>9. CASE CommitTerminal
    <2>1. pc = "commit" /\ FailureSaid
      BY <1>1, <1>9 DEF CommitTerminal
    <2> QED BY <1>2, <1>9, <2>1 DEF CommitTerminal, Forget
  <1>10. CASE AppendEnd
    <2>1. EventOf("end", "main", <<>>, target).type = "end"
      BY DEF EventOf
    <2>2. Len(events) + 1 \in Ends'
      BY <1>10, <2>1 DEF AppendEnd, Write, Ends, TypeOK, SharedTypeOK
    <2> QED BY <2>2
  <1>11. CASE Report
    <2>1. ReportType \in Notices
      BY Zenon DEF ReportType, Notices
    <2>2. /\ events' = Append(events, EventOf(ReportType, "main", <<>>, "-"))
          /\ pc' \in {"close", "commit"}
      BY <1>11 DEF Report, Write
    <2>3. Len(events') = Len(events) + 1 /\ events'[Len(events) + 1].type \in Notices
      BY <2>1, <2>2 DEF EventOf, TypeOK, SharedTypeOK
    <2>4. FailureSaid'
      BY <1>1, <2>3, StreamGrows DEF FailureSaid, MarkedBehind
    <2> QED BY <2>2, <2>4
  <1>12. CASE Raise \/ FlushReplyLost \/ JobTimeout
    BY <1>12 DEF Raise, FlushReplyLost, JobTimeout, Handle, HandlerModes
  <1>13. CASE HandlerRaises
    BY <1>13 DEF HandlerRaises
  <1>14. CASE CancelLock \/ CancelSignal \/ CancelSignalFails \/ CancelCommit \/ CancelAborts
    BY <1>1, <1>2, <1>14 DEF CancelLock, CancelSignal, CancelSignalFails, CancelCommit, CancelAborts
  <1>15. CASE UNCHANGED vars
    BY <1>1, <1>2, <1>15 DEF vars
  <1> QED
    BY <1>3, <1>4, <1>5, <1>6, <1>7, <1>8, <1>9, <1>10, <1>11, <1>12, <1>13, <1>14, <1>15
       DEF Next, WorkerStep, OwnStep, AgentStep, CancelApi, Fault, SurvivedFault

\* The commit that settles the row is followed by its own end event.
LEMMA EndTellsFirst ==
    ASSUME TypeOK, [Next]_vars, ~IsTerminal(status), IsTerminal(status')
    PROVE  EndTells'
  <1>1. CommitTerminal
    BY RowWriters DEF StartRunning, MarkRunning, CancelCommit, RequestCancel, rowVars,
                      TypeOK, SharedTypeOK
  <1> QED BY <1>1 DEF CommitTerminal, SetTerminalStatus, Forget, EndTells

LEMMA EndTellsStep == TypeOK /\ RowInv /\ EndInv /\ [Next]_vars => EndTells'
  BY EndTellsOn, EndTellsFirst DEF EndTells

LEMMA FirstEndStep == TypeOK /\ RowInv /\ EndInv /\ [Next]_vars => FirstEndTruthful'
  <1> SUFFICES ASSUME TypeOK, RowInv, EndInv, [Next]_vars,
                      NEW i \in Ends', \A j \in Ends' : i <= j
               PROVE  \/ events'[i].status = status'
                      \/ \E j \in (marked' + 1)..(i - 1) : events'[j].type \in Notices
    BY DEF FirstEndTruthful, Notices
  <1> USE DEF EndInv
  <1>1. CASE Ends # {}
    <2>1. PICK e \in Ends : TRUE
      BY <1>1
    <2>2. IsTerminal(status) /\ e \in DOMAIN events /\ e \in Ends'
      BY EndsGrow DEF Ends, RowInv, EndOnlyOfTerminal
    <2>3. i \in Ends /\ \A j \in Ends : i <= j
      BY <2>2, EndsGrow, StreamGrows DEF Ends
    <2>4. i \in DOMAIN events /\ events'[i] = events[i]
      BY <2>3, StreamGrows DEF Ends
    <2>5. \/ events[i].status = status
          \/ \E j \in (marked + 1)..(i - 1) : events[j].type \in Notices
      BY <2>3 DEF FirstEndTruthful, Notices
    <2> QED BY <2>2, <2>4, <2>5, SettledRowStays, StreamGrows DEF MarkedBehind
  <1>2. CASE Ends = {}
    <2>1. AppendEnd
      <3> SUFFICES ASSUME ~AppendEnd PROVE FALSE
        OBVIOUS
      <3>1. \A n \in DOMAIN events' : events'[n].type = "end" => n \in DOMAIN events /\ events'[n] = events[n]
        BY StreamWriters DEF Write, TypeOK, SharedTypeOK
      <3> QED BY <1>2, <3>1 DEF Ends
    <2>2. IsTerminal(status) /\ (FailureSaid \/ target = status)
      BY <1>2, <2>1 DEF AppendEnd, RowInv, PlaceInv, EndAfterCommit, EndTells
    <2>3. i = Len(events) + 1
      BY <1>2, StreamGrows DEF Ends
    <2>4. events'[i].status = target
      BY <2>1, <2>3 DEF AppendEnd, Write, EventOf, TypeOK, SharedTypeOK
    <2> QED BY <2>2, <2>3, <2>4, SettledRowStays, StreamGrows DEF FailureSaid, MarkedBehind
  <1> QED BY <1>1, <1>2

LEMMA EndInvStep == TypeOK /\ RowInv /\ EndInv /\ [Next]_vars => EndInv'
  BY MarkedStep, EndsAfterStep, EndTellsStep, FirstEndStep DEF EndInv

LEMMA EndInvAlways == Spec => [](TypeOK /\ RowInv /\ EndInv)
  <1>1. Init => TypeOK /\ RowInv /\ EndInv
    BY TypeInit, RowInit, EndInvInit
  <1>2. (TypeOK /\ RowInv /\ EndInv) /\ [Next]_vars => (TypeOK /\ RowInv /\ EndInv)'
    BY TypeStep, RowStep, EndInvStep
  <1> QED BY <1>1, <1>2, PTL DEF Spec

\* The first end event of a run tells the status its row keeps, unless the
\* stream has said before it that the attempt failed after its commit.
THEOREM FirstEndTellsStatus == Spec => []FirstEndTruthful
  <1>1. EndInv => FirstEndTruthful
    BY DEF EndInv
  <1> QED BY <1>1, EndInvAlways, PTL

-----------------------------------------------------------------------------
(* The order of the chunks in the stream *)

\* Chunks are numbered as they are taken.
ChunksCounted ==
    /\ \A i \in DOMAIN events : \A k \in DOMAIN events[i].items : events[i].items[k] <= chunks
    /\ \A t \in Threads : \A l \in DOMAIN buf[t] : buf[t][l] <= chunks

BufOrdered == \A t \in Threads : \A k, l \in DOMAIN buf[t] : k < l => buf[t][k] < buf[t][l]

\* The chunk in hand is the newest, and is written when the chunks of its
\* thread are.
InHandLast ==
    /\ pc \in {"take", "emit", "peek", "check"} => mode = "loop"
    /\ pc = "emit" => cur.n = chunks /\ cur.kind # "loading" /\ buf[cur.thread] = <<>>
    /\ pc = "flush" /\ mode = "loop" =>
         /\ cur.n = chunks
         /\ cur.kind = "loading" \/ buf[cur.thread] = <<>> \/ cur.thread \in left

\* No chunk older than item k of event i waits in a buffer, or comes after it,
\* that has not come before it.  Attempts are not told apart.
NoneWaits(i, k) ==
    \A l \in DOMAIN buf[events[i].thread] :
        buf[events[i].thread][l] < events[i].items[k] => CameBefore(i, k, buf[events[i].thread][l])
NoneFollows(i, k) ==
    \A j \in (i + 1)..Len(events) : events[j].thread = events[i].thread =>
        \A l \in DOMAIN events[j].items :
            events[j].items[l] < events[i].items[k] => CameBefore(i, k, events[j].items[l])
Ordered == \A i \in DOMAIN events : \A k \in DOMAIN events[i].items :
               NoneWaits(i, k) /\ NoneFollows(i, k)

OrderInv == ChunksCounted /\ BufOrdered /\ InHandLast /\ Ordered

LEMMA OrderInit == Init => OrderInv
  BY DEF Init, OrderInv, ChunksCounted, BufOrdered, InHandLast, Ordered

LEMMA OrderedMeansNothingOvertaken == OrderInv => NothingOvertaken
  BY DEF OrderInv, Ordered, NoneWaits, NoneFollows, NothingOvertaken

LEMMA InHandStep == TypeOK /\ OrderInv /\ [Next]_vars => InHandLast'
  <1> SUFFICES ASSUME TypeOK, OrderInv, [Next]_vars PROVE InHandLast'
    OBVIOUS
  <1> USE DEF OrderInv, InHandLast, TypeOK, SharedTypeOK, LocalTypeOK,
              rowVars, jobVars, apiVars, workerVars
  <1>1. CASE SkipTerminal \/ ClearSignal \/ ClearFails \/ SetupRaises \/ WorkerCrash
    BY <1>1 DEF SkipTerminal, ClearSignal, ClearFails, SetupRaises, WorkerCrash, Forget
  <1>2. CASE PickUp \/ LoadRun \/ UserGone \/ StartRunning \/ WriteMetadata \/ CloseContext
    BY <1>2 DEF PickUp, LoadRun, UserGone, StartRunning, WriteMetadata, CloseContext
  <1>3. CASE WatchCancel \/ SkipGarbled \/ PeekCancelRequest \/ CheckUnread \/ Report
    BY <1>3 DEF WatchCancel, SkipGarbled, PeekCancelRequest, CheckUnread, Report
  <1>4. CASE TakeChunk
    <2>1. PICK y \in StreamYields[gen] :
            /\ cur' = [n |-> chunks + 1, kind |-> y[1], thread |-> y[2]]
            /\ chunks' = chunks + 1
            /\ IF y[1] = "loading"
               THEN pc' \in {"take", "flush"}
               ELSE /\ buf' = buf
                    /\ left' = WrittenBefore(y[2])
                    /\ pc' = IF left' = {} THEN "emit" ELSE "flush"
      BY <1>4 DEF TakeChunk
    <2>2. mode = "loop" /\ mode' = mode
      BY <1>4 DEF TakeChunk
    <2> QED BY <2>1, <2>2 DEF WrittenBefore, Buffered
  <1>5. CASE StreamStops
    <2>1. pc' \in {"flush", "close", "commit"} /\ mode' = "drain"
      BY <1>5, Zenon DEF StreamStops
    <2> QED BY <2>1
  <1>6. CASE Flush
    <2>1. CASE left' # {}
      BY <1>6, <2>1 DEF Flush
    <2>2. CASE left' = {} /\ mode # "loop"
      <3>1. AfterFlush \in {"close", "commit", "report"}
        BY <2>2, Zenon DEF AfterFlush
      <3> QED BY <1>6, <2>2, <3>1 DEF Flush
    <2>3. CASE left' = {} /\ mode = "loop"
      <3>1. AfterFlush = IF cur.kind = "loading" THEN "take" ELSE "emit"
        BY <2>3, Zenon DEF AfterFlush
      <3> QED BY <1>6, <2>3, <3>1 DEF Flush, Chunk
    <2> QED BY <2>1, <2>2, <2>3
  <1>7. CASE EmitChunk
    <2>1. pc' \in {"check", "peek", "commit"} /\ pc = "emit" /\ mode' = mode
      BY <1>7, Zenon DEF EmitChunk
    <2> QED BY <2>1
  <1>8. CASE CommitTerminal \/ AppendEnd
    BY <1>8 DEF CommitTerminal, Forget, AppendEnd
  <1>9. CASE NoticeCancel \/ CheckCancelled \/ JobTimeout \/ HandlerRaises
    BY <1>9 DEF NoticeCancel, CheckCancelled, JobTimeout, HandlerRaises, Handle
  <1>10. CASE Raise \/ FlushReplyLost
    BY <1>10 DEF Raise, FlushReplyLost, Handle
  <1>11. CASE \/ KeyExpires \/ CancelLock \/ CancelSignal
             \/ CancelSignalFails \/ CancelCommit \/ CancelAborts
    BY <1>11 DEF KeyExpires, CancelLock, CancelSignal, CancelSignalFails, CancelCommit, CancelAborts
  <1>12. CASE UNCHANGED vars
    BY <1>12 DEF vars
  <1> QED BY <1>1, <1>2, <1>3, <1>4, <1>5, <1>6, <1>7, <1>8, <1>9, <1>10, <1>11, <1>12
          DEF Next, WorkerStep, OwnStep, AgentStep, CancelApi, Fault, SurvivedFault

LEMMA EventFields ==
    ASSUME TypeOK, NEW i \in DOMAIN events
    PROVE  /\ events[i].thread \in Threads /\ events[i].items \in Seq(Nat)
           /\ \A k \in DOMAIN events[i].items : events[i].items[k] \in Nat
  <1>1. events[i] \in Event
    BY DEF TypeOK, SharedTypeOK
  <1>2. events[i].thread \in Threads /\ events[i].items \in Seq(Nat)
    BY <1>1 DEF Event
  <1> QED BY <1>2

\* What came before an item keeps coming before it.
LEMMA CameBeforeStays ==
    ASSUME TypeOK, [Next]_vars, NEW i \in DOMAIN events, NEW k, NEW n, CameBefore(i, k, n)
    PROVE  CameBefore(i, k, n)'
  BY StreamGrows DEF CameBefore, Carries

\* An event in the order of those before it, and of the buffers, may be added.
LEMMA AppendOrdered ==
    ASSUME TypeOK, Ordered, [Next]_vars, NEW e, events' = Append(events, e),
           \A t \in Threads : buf'[t] \in {buf[t], <<>>}, e.thread \in Threads,
           \A k \in DOMAIN e.items : \A l \in DOMAIN buf'[e.thread] :
               buf'[e.thread][l] < e.items[k] =>
                   \E q \in 1..(k - 1) : e.items[q] = buf'[e.thread][l],
           \A i \in DOMAIN events : events[i].thread = e.thread =>
               \A k \in DOMAIN events[i].items : \A l \in DOMAIN e.items :
                   e.items[l] < events[i].items[k] => CameBefore(i, k, e.items[l])
    PROVE  Ordered'
  <1> SUFFICES ASSUME NEW i \in DOMAIN events', NEW k \in DOMAIN events'[i].items
               PROVE  NoneWaits(i, k)' /\ NoneFollows(i, k)'
    BY DEF Ordered
  <1>1. /\ events'[Len(events) + 1] = e /\ Len(events') = Len(events) + 1 /\ Len(events) \in Nat
        /\ \A j \in 1..Len(events) : j \in DOMAIN events /\ events'[j] = events[j] /\ events[j].thread \in Threads
        /\ i \in 1..(Len(events) + 1)
    BY EventFields DEF TypeOK, SharedTypeOK
  <1>2. CASE i = Len(events) + 1
    <2>1. NoneWaits(i, k)'
      BY <1>1, <1>2 DEF NoneWaits, CameBefore
    <2>2. NoneFollows(i, k)'
      BY <1>1, <1>2 DEF NoneFollows
    <2> QED BY <2>1, <2>2
  <1>3. CASE i # Len(events) + 1
    <2>1. /\ i \in DOMAIN events /\ k \in DOMAIN events[i].items
          /\ events'[i] = events[i] /\ events[i].thread \in Threads
      BY <1>1, <1>3
    <2>2. NoneWaits(i, k) /\ NoneFollows(i, k)
      BY <2>1 DEF Ordered
    <2>3. NoneWaits(i, k)'
      BY <2>1, <2>2, CameBeforeStays DEF NoneWaits
    <2>4. NoneFollows(i, k)'
      <3> SUFFICES ASSUME NEW j \in (i + 1)..Len(events'), events'[j].thread = events[i].thread,
                          NEW l \in DOMAIN events'[j].items, NEW n, n = events'[j].items[l],
                          n < events[i].items[k]
                   PROVE  CameBefore(i, k, n)'
        BY SMTT(20), <2>1 DEF NoneFollows, CameBefore, Carries
      <3>1. CASE j = Len(events) + 1
        BY <1>1, <2>1, <3>1, CameBeforeStays
      <3>2. CASE j # Len(events) + 1
        BY <1>1, <2>1, <2>2, <3>2, CameBeforeStays DEF NoneFollows
      <3> QED BY <3>1, <3>2
    <2> QED BY <2>3, <2>4
  <1> QED BY <1>2, <1>3

\* Buffers may be dropped, and events without chunks added.
LEMMA QuietOrdered ==
    ASSUME TypeOK, OrderInv, [Next]_vars, chunks' = chunks,
           \A t \in Threads : buf'[t] \in {buf[t], <<>>},
           events' = events \/ \E type, st : events' = Append(events, EventOf(type, "main", <<>>, st))
    PROVE  ChunksCounted' /\ BufOrdered' /\ Ordered'
  <1> USE DEF OrderInv
  <1>1. BufOrdered'
    BY DEF BufOrdered
  <1>2. CASE events' = events
    <2>1. \A i \in DOMAIN events : events[i].thread \in Threads
      BY EventFields
    <2>2. ChunksCounted'
      BY <1>2 DEF ChunksCounted
    <2>3. \A i \in DOMAIN events : \A k, n : CameBefore(i, k, n) => CameBefore(i, k, n)'
      BY CameBeforeStays
    <2>4. Ordered'
      <3> SUFFICES ASSUME NEW i \in DOMAIN events, NEW k \in DOMAIN events[i].items
                   PROVE  NoneWaits(i, k)' /\ NoneFollows(i, k)'
        BY <1>2 DEF Ordered
      <3>1. NoneWaits(i, k) /\ NoneFollows(i, k)
        BY DEF Ordered
      <3>2. NoneWaits(i, k)'
        <4>1. buf'[events[i].thread] \in {buf[events[i].thread], <<>>}
          BY <2>1
        <4> QED BY <1>2, <2>3, <3>1, <4>1 DEF NoneWaits
      <3>3. NoneFollows(i, k)'
        BY <1>2, <2>3, <3>1 DEF NoneFollows
      <3> QED BY <3>2, <3>3
    <2> QED BY <1>1, <2>2, <2>4
  <1>3. ASSUME NEW type, NEW st, events' = Append(events, EventOf(type, "main", <<>>, st))
        PROVE  ChunksCounted' /\ Ordered'
    <2>1. /\ EventOf(type, "main", <<>>, st).items = <<>>
          /\ EventOf(type, "main", <<>>, st).thread = "main"
      BY DEF EventOf
    <2>2. ChunksCounted'
      BY <1>3, <2>1 DEF ChunksCounted, TypeOK, SharedTypeOK
    <2>3. Ordered'
      BY <1>3, <2>1, AppendOrdered DEF Threads
    <2> QED BY <2>2, <2>3
  <1> QED BY <1>1, <1>2, <1>3

\* The other actions take no chunk and write none.
LEMMA QuietActions ==
    ASSUME TypeOK, [Next]_vars, ~TakeChunk, ~Flush, ~FlushReplyLost, ~EmitChunk
    PROVE  /\ chunks' = chunks /\ \A t \in Threads : buf'[t] \in {buf[t], <<>>}
           /\ events' = events \/ \E type, st : events' = Append(events, EventOf(type, "main", <<>>, st))
  <1> USE DEF rowVars, jobVars, apiVars, workerVars, TypeOK, LocalTypeOK
  <1>1. CASE WriteMetadata \/ AppendEnd \/ Report
    BY <1>1 DEF WriteMetadata, AppendEnd, Report, Write
  <1>2. CASE SkipTerminal \/ ClearSignal \/ ClearFails \/ SetupRaises \/ WorkerCrash \/ CommitTerminal
    BY <1>2 DEF SkipTerminal, ClearSignal, ClearFails, SetupRaises, WorkerCrash, CommitTerminal, Forget
  <1>3. CASE PickUp \/ LoadRun \/ UserGone \/ StartRunning \/ CloseContext
    BY <1>3 DEF PickUp, LoadRun, UserGone, StartRunning, CloseContext
  <1>4. CASE WatchCancel \/ SkipGarbled \/ PeekCancelRequest \/ CheckUnread
    BY <1>4 DEF WatchCancel, SkipGarbled, PeekCancelRequest, CheckUnread
  <1>5. CASE StreamStops
    BY <1>5, Zenon DEF StreamStops
  <1>6. CASE NoticeCancel \/ CheckCancelled \/ Raise \/ JobTimeout \/ HandlerRaises
    BY <1>6 DEF NoticeCancel, CheckCancelled, Raise, JobTimeout, HandlerRaises
  <1>7. CASE \/ KeyExpires \/ CancelLock \/ CancelSignal
            \/ CancelSignalFails \/ CancelCommit \/ CancelAborts
    BY <1>7 DEF KeyExpires, CancelLock, CancelSignal, CancelSignalFails, CancelCommit, CancelAborts
  <1>8. CASE UNCHANGED vars
    BY <1>8 DEF vars
  <1> QED BY <1>1, <1>2, <1>3, <1>4, <1>5, <1>6, <1>7, <1>8
          DEF Next, WorkerStep, OwnStep, AgentStep, CancelApi, Fault, SurvivedFault

\* A buffer is written: into the stream goes what is older than nothing there.
LEMMA FlushOrdered ==
    ASSUME TypeOK, OrderInv, [Next]_vars, NEW t \in Threads,
           events' = Append(events, EventOf("messages", t, buf[t], "-")),
           chunks' = chunks, buf' \in {buf, [buf EXCEPT ![t] = <<>>]}
    PROVE  ChunksCounted' /\ BufOrdered' /\ Ordered'
  <1> DEFINE e == EventOf("messages", t, buf[t], "-")
  <1>1. e.items = buf[t] /\ e.thread = t /\ buf[t] \in Seq(Nat)
    BY DEF EventOf, TypeOK, LocalTypeOK
  <1>2. \A u \in Threads : buf'[u] \in {buf[u], <<>>}
    BY DEF TypeOK, LocalTypeOK
  <1>3. ChunksCounted'
    BY <1>1, <1>2 DEF OrderInv, ChunksCounted, TypeOK, SharedTypeOK
  <1>4. BufOrdered'
    BY <1>2 DEF OrderInv, BufOrdered
  <1>5. ASSUME NEW k \in DOMAIN e.items, NEW l \in DOMAIN buf'[t], buf'[t][l] < e.items[k]
        PROVE  \E q \in 1..(k - 1) : e.items[q] = buf'[t][l]
    <2>1. buf'[t] = buf[t]
      BY <1>2, <1>5
    <2>2. l \in DOMAIN buf[t] /\ k \in DOMAIN buf[t] /\ buf[t][l] < buf[t][k]
      BY <1>1, <1>5, <2>1
    <2>3. l < k
      BY <1>1, <2>2 DEF OrderInv, BufOrdered
    <2> QED BY <1>1, <2>1, <2>2, <2>3
  <1>6. ASSUME NEW i \in DOMAIN events, events[i].thread = t, NEW k \in DOMAIN events[i].items,
               NEW l \in DOMAIN e.items, e.items[l] < events[i].items[k]
        PROVE  CameBefore(i, k, e.items[l])
    BY <1>1, <1>6 DEF OrderInv, Ordered, NoneWaits
  <1>7. Ordered'
    <2>1. e.thread \in Threads /\ events' = Append(events, e) /\ Ordered
      BY <1>1 DEF OrderInv
    <2>2. \A k \in DOMAIN e.items : \A l \in DOMAIN buf'[e.thread] :
             buf'[e.thread][l] < e.items[k] =>
                 \E q \in 1..(k - 1) : e.items[q] = buf'[e.thread][l]
      BY <1>1, <1>5
    <2>3. \A i \in DOMAIN events : events[i].thread = e.thread =>
             \A k \in DOMAIN events[i].items : \A l \in DOMAIN e.items :
                 e.items[l] < events[i].items[k] => CameBefore(i, k, e.items[l])
      BY <1>1, <1>6
    <2> HIDE DEF e
    <2> QED BY <1>2, <2>1, <2>2, <2>3, AppendOrdered
  <1> QED BY <1>3, <1>4, <1>7

\* A chunk that is not loading goes into the stream as its newest.
LEMMA EmitOrdered ==
    ASSUME TypeOK, OrderInv, [Next]_vars, EmitChunk
    PROVE  ChunksCounted' /\ BufOrdered' /\ Ordered'
  <1> DEFINE e == EventOf(MappedType(cur.kind), cur.thread, <<cur.n>>, "-")
  <1>1. /\ pc = "emit" /\ UNCHANGED <<buf, chunks>>
        /\ events' = events \/ events' = Append(events, e)
    BY Zenon DEF EmitChunk, Write
  <1>2. /\ cur.n = chunks /\ buf[cur.thread] = <<>> /\ cur.thread \in Threads /\ chunks \in Nat
    BY <1>1 DEF OrderInv, InHandLast, TypeOK, SharedTypeOK, LocalTypeOK, Chunk
  <1>3. CASE events' = events
    BY <1>1, <1>3, QuietOrdered
  <1>4. CASE events' = Append(events, e)
    <2>1. e.items = <<chunks>> /\ e.thread = cur.thread
      BY <1>2 DEF EventOf
    <2>2. ChunksCounted'
      BY <1>1, <1>2, <1>4, <2>1 DEF OrderInv, ChunksCounted, TypeOK, SharedTypeOK
    <2>3. BufOrdered'
      BY <1>1 DEF OrderInv, BufOrdered
    <2>4. \A i \in DOMAIN events : \A k \in DOMAIN events[i].items : ~(chunks < events[i].items[k])
      BY <1>2, EventFields DEF OrderInv, ChunksCounted
    <2>5. Ordered'
      BY <1>1, <1>2, <1>4, <2>1, <2>4, AppendOrdered DEF OrderInv
    <2> QED BY <2>2, <2>3, <2>5
  <1> QED BY <1>1, <1>3, <1>4

\* A chunk just taken is newer than every other.
LEMMA TakeOrdered ==
    ASSUME TypeOK, OrderInv, [Next]_vars, TakeChunk
    PROVE  ChunksCounted' /\ BufOrdered' /\ Ordered'
  <1>1. PICK y \in StreamYields[gen] :
          /\ chunks' = chunks + 1
          /\ buf' \in {buf, [buf EXCEPT ![y[2]] = Append(@, chunks + 1)]}
    BY DEF TakeChunk
  <1>2. events' = events /\ y[2] \in Threads /\ chunks \in Nat
    BY StreamYieldsType DEF TakeChunk, TypeOK, SharedTypeOK, LocalTypeOK
  <1>3. ASSUME NEW t \in Threads
        PROVE  /\ buf[t] \in Seq(Nat) /\ buf'[t] \in {buf[t], Append(buf[t], chunks + 1)}
    BY <1>1, <1>2 DEF TypeOK, LocalTypeOK
  <1>4. ASSUME NEW t \in Threads
        PROVE  \A l \in DOMAIN buf'[t] : (l \in DOMAIN buf[t] /\ buf'[t][l] = buf[t][l])
                                         \/ (l = Len(buf[t]) + 1 /\ buf'[t][l] = chunks + 1)
    BY SMTT(20), <1>3
  <1>5. \A i \in DOMAIN events : /\ events[i].thread \in Threads
                                /\ \A k \in DOMAIN events[i].items : events[i].items[k] \in Nat
    BY EventFields
  <1>6. ChunksCounted'
    BY <1>1, <1>2, <1>3, <1>4, <1>5 DEF OrderInv, ChunksCounted
  <1>7. BufOrdered'
    BY <1>2, <1>3, <1>4 DEF OrderInv, BufOrdered, ChunksCounted
  <1>8. Ordered'
    <2> SUFFICES ASSUME NEW i \in DOMAIN events, NEW k \in DOMAIN events[i].items
                 PROVE  NoneWaits(i, k)' /\ NoneFollows(i, k)'
      BY <1>2 DEF Ordered
    <2>1. NoneWaits(i, k) /\ NoneFollows(i, k) /\ events[i].items[k] <= chunks
      BY DEF OrderInv, Ordered, ChunksCounted
    <2>2. NoneWaits(i, k)'
      BY <1>2, <1>4, <1>5, <2>1 DEF NoneWaits, CameBefore, Carries
    <2>3. NoneFollows(i, k)'
      BY <1>2, <2>1, CameBeforeStays DEF NoneFollows
    <2> QED BY <2>2, <2>3
  <1> QED BY <1>6, <1>7, <1>8

LEMMA OrderStep == TypeOK /\ OrderInv /\ [Next]_vars => OrderInv'
  <1> SUFFICES ASSUME TypeOK, OrderInv, [Next]_vars
               PROVE  ChunksCounted' /\ BufOrdered' /\ Ordered'
    BY InHandStep DEF OrderInv
  <1>1. CASE TakeChunk
    BY <1>1, TakeOrdered
  <1>2. CASE EmitChunk
    BY <1>2, EmitOrdered
  <1>3. CASE Flush \/ FlushReplyLost
    <2>1. PICK t \in left : /\ events' = Append(events, EventOf("messages", t, buf[t], "-"))
                            /\ buf' \in {buf, [buf EXCEPT ![t] = <<>>]}
      BY <1>3 DEF Flush, FlushReplyLost, Write
    <2>2. t \in Threads /\ chunks' = chunks
      BY <1>3 DEF Flush, FlushReplyLost, TypeOK, LocalTypeOK
    <2> QED BY <2>1, <2>2, FlushOrdered
  <1>4. CASE ~TakeChunk /\ ~Flush /\ ~FlushReplyLost /\ ~EmitChunk
    BY <1>4, QuietActions, QuietOrdered
  <1> QED BY <1>1, <1>2, <1>3, <1>4

\* No chunk overtakes an earlier one of its thread, with whatever is written
\* again by a handler, dropped by a crash or taken over by the next attempt.
THEOREM ChunksInOrder == Spec => []NothingOvertaken
  <1>1. (TypeOK /\ OrderInv) /\ [Next]_vars => (TypeOK /\ OrderInv)'
    BY TypeStep, OrderStep
  <1>2. Init => TypeOK /\ OrderInv
    BY TypeInit, OrderInit
  <1> QED BY <1>1, <1>2, OrderedMeansNothingOvertaken, PTL DEF Spec

-----------------------------------------------------------------------------
(* A cancel before the first chunk *)

\* Without these faults a cancel signal is neither lost nor left unread: the
\* key does not expire and can be read and deleted, an except block runs to
\* its end, the first line of the stream parses, and an attempt that raised,
\* and cleared the key, is not followed by another one.
SignalKept == /\ Faults \cap {"handler", "expiry", "signal", "garbled"} = {}
              /\ RetryOnRaise => "raise" \notin Faults

\* Where the coroutine may be, before the first chunk and in its handlers.
AttemptPlaces ==
    /\ mode \in {"setup", "loop", "drain"} \union HandlerModes
    /\ pc = "idle" <=> job # "running"
    /\ mode = "setup" => gen = "fresh"
    /\ mode = "loop" /\ gen = "fresh" => pc = "take"
    /\ mode = "drain" => gen # "fresh"
    /\ mode \in HandlerModes =>
         /\ pc \in {"flush", "report", "commit", "end", "close", "clear"}
         /\ pc \in {"commit", "end"} => target \in {"failed", "cancelled"}
    /\ mode = "retry" => ~RetryOnRaise

\* The first chunk, which says that the agent has begun or that it cannot.
FirstChunk == cur.thread = "main" /\ cur.kind \in {"init", "error"}

\* The attempt, or the next one, finds the signal before it reads on.
Doomed ==
    \/ job = "done"
    \/ key /\ mode = "setup"
    \/ key /\ mode \in HandlerModes
    \/ /\ key /\ mode = "loop"
       /\ \/ pc = "take" /\ gen = "fresh"
          \/ pc \in {"flush", "emit"} /\ FirstChunk
          \/ pc = "commit" /\ target = "failed"
          \/ pc = "check"

EarlyEnds == early => status \in {"failed", "cancelled"} \/ (~IsTerminal(status) /\ Doomed)

EarlyInv == AttemptPlaces /\ EarlyEnds

LEMMA EarlyInit == Init => EarlyInv
  BY DEF Init, EarlyInv, AttemptPlaces, EarlyEnds, HandlerModes

\* The faults SignalKept leaves out do not strike.
LEMMA KeptFaults ==
    ASSUME SignalKept
    PROVE  /\ ~SkipGarbled /\ ~HandlerRaises /\ ~CheckUnread /\ ~ClearFails /\ ~KeyExpires
           /\ RetryOnRaise => ~Raise /\ ~FlushReplyLost
  BY DEF SignalKept, SkipGarbled, HandlerRaises, CheckUnread, ClearFails, KeyExpires, Raise,
         FlushReplyLost, Strikes

\* The first thing a stream yields.
LEMMA FreshYields ==
    \A y \in StreamYields["fresh"] : y[1] \in {"init", "error"} /\ y[2] = "main" /\ y[3] # "fresh"
  BY DEF StreamYields

\* A stream that has begun does not begin again.
LEMMA NotFreshAgain ==
    \A g \in GenStates : \A y \in StreamYields[g] : y[3] # "fresh"
  BY DEF StreamYields, GenStates

LEMMA AttemptStep ==
    ASSUME SignalKept, TypeOK, RowInv, AttemptPlaces, [Next]_vars
    PROVE  AttemptPlaces'
  <1> USE DEF AttemptPlaces, TypeOK, SharedTypeOK, LocalTypeOK, RowInv, PlaceInv, SetupPlaces,
              HandlerModes, rowVars, jobVars, apiVars, workerVars
  <1>1. CASE SkipTerminal \/ SetupRaises \/ WorkerCrash
    BY <1>1 DEF SkipTerminal, SetupRaises, WorkerCrash, Forget, JobDone, Requeue
  <1>2. CASE ClearSignal
    BY <1>2 DEF ClearSignal, Forget, JobOver, JobDone, Requeue
  <1>3. CASE PickUp \/ LoadRun \/ UserGone \/ StartRunning \/ WriteMetadata \/ CloseContext
    BY <1>3 DEF PickUp, LoadRun, UserGone, StartRunning, WriteMetadata, CloseContext
  <1>4. CASE WatchCancel \/ PeekCancelRequest \/ Report
    BY <1>4 DEF WatchCancel, PeekCancelRequest, Report
  <1>5. CASE TakeChunk
    <2>1. PICK y \in StreamYields[gen] : gen' = y[3]
      BY <1>5 DEF TakeChunk
    <2>2. gen' # "fresh" /\ pc' # "idle" /\ pc = "take"
      BY <1>5, <2>1, NotFreshAgain DEF TakeChunk
    <2> QED BY <1>5, <2>2 DEF TakeChunk
  <1>6. CASE StreamStops
    <2>1. /\ pc = "take" /\ pc' \in {"flush", "close", "commit"} /\ mode' = "drain"
          /\ gen \in {"asked", "spent"} /\ UNCHANGED <<gen, job>>
      BY <1>6, Zenon DEF StreamStops, jobVars
    <2> QED BY <2>1
  <1>7. CASE Flush
    <2>1. /\ AfterFlush \in {"take", "emit", "close", "commit", "report"}
          /\ mode \notin TryModes => AfterFlush = "report"
      BY Zenon DEF AfterFlush, TryModes
    <2> QED BY <1>7, <2>1 DEF Flush, TryModes
  <1>8. CASE EmitChunk
    <2>1. /\ pc = "emit" /\ pc' \in {"check", "peek", "commit"}
          /\ UNCHANGED <<gen, job, mode>>
      BY <1>8, Zenon DEF EmitChunk, jobVars
    <2> QED BY <2>1
  <1>9. CASE CommitTerminal \/ AppendEnd
    BY <1>9 DEF CommitTerminal, Forget, JobDone, AppendEnd
  <1>10. CASE NoticeCancel \/ CheckCancelled \/ JobTimeout
    BY <1>10 DEF NoticeCancel, CheckCancelled, JobTimeout, Handle, TryPlaces, TryModes
  <1>11. CASE Raise \/ FlushReplyLost
    BY <1>11, KeptFaults DEF Raise, FlushReplyLost, Handle, TryPlaces, TryModes
  <1>12. CASE \/ CancelLock \/ CancelSignal \/ CancelSignalFails \/ CancelCommit \/ CancelAborts
    BY <1>12 DEF CancelLock, CancelSignal, CancelSignalFails, CancelCommit, CancelAborts
  <1>13. CASE UNCHANGED vars
    BY <1>13 DEF vars
  <1> QED BY <1>1, <1>2, <1>3, <1>4, <1>5, <1>6, <1>7, <1>8, <1>9, <1>10, <1>11, <1>12, <1>13, KeptFaults
          DEF Next, WorkerStep, OwnStep, AgentStep, CancelApi, Fault, SurvivedFault

LEMMA EarlyWriters ==
    ASSUME TypeOK, [Next]_vars, ~CancelSignal
    PROVE  early' = early
  <1> USE DEF apiVars
  <1>1. CASE SkipTerminal \/ ClearSignal \/ ClearFails \/ SetupRaises \/ WorkerCrash \/ CommitTerminal
    BY <1>1 DEF SkipTerminal, ClearSignal, ClearFails, SetupRaises, WorkerCrash, CommitTerminal
  <1>2. CASE PickUp \/ LoadRun \/ UserGone \/ StartRunning \/ WriteMetadata \/ CloseContext
    BY <1>2 DEF PickUp, LoadRun, UserGone, StartRunning, WriteMetadata, CloseContext
  <1>3. CASE WatchCancel \/ SkipGarbled \/ PeekCancelRequest \/ CheckUnread \/ Report \/ TakeChunk
    BY <1>3 DEF WatchCancel, SkipGarbled, PeekCancelRequest, CheckUnread, Report, TakeChunk
  <1>4. CASE StreamStops \/ EmitChunk
    BY <1>4, Zenon DEF StreamStops, EmitChunk
  <1>5. CASE Flush \/ FlushReplyLost \/ AppendEnd \/ KeyExpires
    BY <1>5 DEF Flush, FlushReplyLost, AppendEnd, KeyExpires
  <1>6. CASE NoticeCancel \/ CheckCancelled \/ Raise \/ JobTimeout \/ HandlerRaises
    BY <1>6 DEF NoticeCancel, CheckCancelled, Raise, JobTimeout, HandlerRaises
  <1>7. CASE CancelLock \/ CancelSignalFails \/ CancelCommit \/ CancelAborts
    BY <1>7 DEF CancelLock, CancelSignalFails, CancelCommit, CancelAborts
  <1>8. CASE UNCHANGED vars
    BY <1>8 DEF vars
  <1> QED BY <1>1, <1>2, <1>3, <1>4, <1>5, <1>6, <1>7, <1>8
          DEF Next, WorkerStep, OwnStep, AgentStep, CancelApi, Fault, SurvivedFault

\* A doomed run is doomed until it is settled, as failed or as cancelled.
LEMMA DoomedStep ==
    ASSUME SignalKept, TypeOK, RowInv, AttemptPlaces, [Next]_vars, ~CancelSignal,
           ~IsTerminal(status), Doomed
    PROVE  status' \in {"failed", "cancelled"} \/ (~IsTerminal(status') /\ Doomed')
  <1> USE DEF AttemptPlaces, Doomed, RowInv, PlaceInv, SetupPlaces, SetupOnlyFails, EndAfterCommit,
              HandlerModes, rowVars, jobVars, apiVars, workerVars
  <1>1. CASE SkipTerminal
    BY <1>1 DEF SkipTerminal
  <1>2. CASE SetupRaises \/ WorkerCrash
    BY <1>2 DEF SetupRaises, WorkerCrash, Forget, JobDone, Requeue
  <1>3. CASE ClearSignal
    BY <1>3 DEF ClearSignal, JobOver, EndsToBeRetried, JobDone
  <1>4. CASE PickUp \/ LoadRun \/ UserGone \/ WriteMetadata \/ CloseContext
    BY <1>4 DEF PickUp, LoadRun, UserGone, WriteMetadata, CloseContext
  <1>5. CASE StartRunning
    BY <1>5 DEF StartRunning, MarkRunning
  <1>6. CASE WatchCancel \/ PeekCancelRequest \/ Report
    BY <1>6 DEF WatchCancel, PeekCancelRequest, Report, FirstChunk
  <1>7. CASE TakeChunk
    <2>1. gen = "fresh" /\ key /\ mode = "loop"
      BY <1>7 DEF TakeChunk
    <2>2. PICK y \in StreamYields[gen] :
            /\ cur' = [n |-> chunks + 1, kind |-> y[1], thread |-> y[2]]
            /\ y[1] # "loading" => pc' \in {"emit", "flush"}
      BY <1>7 DEF TakeChunk
    <2> QED BY <1>7, <2>1, <2>2, FreshYields DEF TakeChunk, FirstChunk
  <1>8. CASE StreamStops
    BY <1>8, Zenon DEF StreamStops
  <1>9. CASE Flush
    <2>1. /\ mode \in HandlerModes => AfterFlush = "report"
          /\ mode = "loop" => AfterFlush = IF cur.kind = "loading" THEN "take" ELSE "emit"
      BY Zenon DEF AfterFlush
    <2> QED BY <1>9, <2>1 DEF Flush, FirstChunk
  <1>10. CASE EmitChunk
    <2>1. key /\ mode = "loop" /\ FirstChunk
      BY <1>10, Zenon DEF EmitChunk
    <2>2. pc' = IF cur.kind = "error" THEN "commit" ELSE "check"
      BY <1>10, <2>1 DEF EmitChunk, FirstChunk, ClosingKinds
    <2>3. pc' = "commit" => target' = "failed"
      BY <1>10, <2>1, <2>2 DEF EmitChunk, StatusAfter
    <2>4. UNCHANGED <<status, key, mode>>
      BY <1>10, Zenon DEF EmitChunk
    <2> QED BY <2>1, <2>2, <2>3, <2>4
  <1>11. CASE CommitTerminal
    BY <1>11 DEF CommitTerminal, SetTerminalStatus
  <1>12. CASE AppendEnd
    BY <1>12 DEF AppendEnd
  <1>13. CASE NoticeCancel \/ CheckCancelled \/ JobTimeout
    BY <1>13 DEF NoticeCancel, CheckCancelled, JobTimeout, Handle, IsCancelled
  <1>14. CASE Raise \/ FlushReplyLost
    BY <1>14, KeptFaults DEF Raise, FlushReplyLost, Handle
  <1>15. CASE CancelLock \/ CancelSignalFails \/ CancelAborts
    BY <1>15 DEF CancelLock, CancelSignalFails, CancelAborts, FirstChunk
  <1>16. CASE CancelCommit
    BY <1>16 DEF CancelCommit, RequestCancel, FirstChunk
  <1>17. CASE UNCHANGED vars
    BY <1>17 DEF vars, FirstChunk
  <1> QED BY <1>1, <1>2, <1>3, <1>4, <1>5, <1>6, <1>7, <1>8, <1>9, <1>10, <1>11, <1>12, <1>13,
             <1>14, <1>15, <1>16, <1>17, KeptFaults
          DEF Next, WorkerStep, OwnStep, AgentStep, CancelApi, Fault, SurvivedFault

LEMMA EarlyStep ==
    ASSUME SignalKept, TypeOK, RowInv, EarlyInv, [Next]_vars
    PROVE  EarlyInv'
  <1>1. AttemptPlaces'
    BY AttemptStep DEF EarlyInv
  <1>2. CASE CancelSignal
    <2>1. /\ status' = status /\ key' = TRUE
          /\ UNCHANGED <<job, mode, pc, gen, cur, target>>
          /\ early' => early \/ (~IsTerminal(status) /\ job # "done" /\ gen = "fresh")
      BY <1>2 DEF CancelSignal, rowVars, jobVars, workerVars
    <2>2. EarlyEnds'
      BY <2>1 DEF EarlyInv, EarlyEnds, AttemptPlaces, Doomed, FirstChunk
    <2> QED BY <1>1, <2>2 DEF EarlyInv
  <1>3. CASE ~CancelSignal
    <2>1. early' = early
      BY <1>3, EarlyWriters
    <2>2. EarlyEnds'
      BY <1>3, <2>1, DoomedStep, TerminalStays DEF EarlyInv, EarlyEnds
    <2> QED BY <1>1, <2>2 DEF EarlyInv
  <1> QED BY <1>2, <1>3

\* A cancel signalled before the agent's first chunk is honoured, through any
\* number of crashes, timeouts, failures before the try block and failures of
\* the cancel endpoint.
THEOREM EarlyCancelKept ==
    ASSUME SignalKept
    PROVE  Spec => []EarlyCancelHonoured
  <1>1. (TypeOK /\ RowInv /\ EarlyInv) /\ [Next]_vars => (TypeOK /\ RowInv /\ EarlyInv)'
    BY TypeStep, RowStep, EarlyStep
  <1>2. Init => TypeOK /\ RowInv /\ EarlyInv
    BY TypeInit, RowInit, EarlyInit
  <1>3. EarlyInv => EarlyCancelHonoured
    BY DEF EarlyInv, EarlyEnds, EarlyCancelHonoured
  <1> QED BY <1>1, <1>2, <1>3, PTL DEF Spec
=============================================================================
