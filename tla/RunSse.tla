------------------------------- MODULE RunSse -------------------------------
(***************************************************************************)
(* Watching a run: the SSE endpoint stream_agent_run_events, which polls   *)
(* the run's row and its Redis stream, and the browser's startRunStream,   *)
(* which reads the frames, reconnects from its cursor and decides when the *)
(* run is over.  The row and the stream belong to the run's worker; here   *)
(* they are only read.                                                     *)
(***************************************************************************)
EXTENDS Naturals, Sequences, RunRow

CONSTANTS
    BatchLimit,   \* events read from Redis at a time
    MaxBreaks,    \* bound: lost connections, server errors, failed requests and time limits
    Breaks        \* which of BreakKinds may happen

\* network  the connection drops and what was in flight is lost
\* server   the endpoint cannot read the database or Redis
\* limit    the endpoint closes a connection that grew too old
\* away     the user opens another thread, or reloads the page, and comes back
BreakKinds == {"network", "server", "limit", "away"}

VARIABLES
    status,     \* the run's row
    events,     \* the run's event stream; an event's sequence number is its index
    marked,     \* history: length of events when the row became terminal
    conn,       \* where the endpoint is
    rowSeen,    \* the status it read from the row
    sent,       \* its last_seq
    saidEnd,    \* history: it closed the connection with an end frame
    wire,       \* frames the browser has not read yet
    client,     \* where the browser is
    lastSeq,    \* the browser's runLastSeq
    shown,      \* events on the screen, in the order they were handled
    breaks      \* breaks so far

endpointVars == <<conn, rowSeen, sent, saidEnd>>
clientVars == <<client, lastSeq, shown>>
sseVars == <<conn, rowSeen, sent, saidEnd, wire, client, lastSeq, shown, breaks>>

Conns == {"closed", "row", "list", "poll"}
Clients == {"new", "streaming", "asking", "waiting", "away", "finished"}

\* id 0 is a frame without an id.
Frame == [kind : {"data", "retry", "error", "end"}, id : Nat]

SseInit == /\ conn = "closed" /\ rowSeen = CreatedStatus /\ sent = 0 /\ saidEnd = FALSE
           /\ wire = <<>> /\ breaks = 0
           /\ client = "new" /\ lastSeq = 0 /\ shown = <<>>

Break(k) == k \in Breaks /\ breaks < MaxBreaks /\ breaks' = breaks + 1

-----------------------------------------------------------------------------
(* The endpoint *)

BatchEnd == IF Len(events) < sent + BatchLimit THEN Len(events) ELSE sent + BatchLimit
Batch == (sent + 1)..BatchEnd

\* The browser asks for verbose=false: a metadata event is dropped, the
\* cursor moves over it.
Kept == {i \in Batch : events[i].type # "metadata"}

FrameOf(i) ==
    [kind |-> IF events[i].type \in {"retry", "error", "end"} THEN events[i].type ELSE "data",
     id |-> i]

\* Mutant: the end of a run is announced with events still to send.
SaysEndAtOnce == IsTerminal(rowSeen)

\* Mutant: only the worker's own end event closes the connection.
SaysEndNever == FALSE

\* The endpoint announces the end itself when the row is terminal and the
\* stream has nothing left.
SaysEnd == IsTerminal(rowSeen) /\ Batch = {}

ReadRow == /\ conn \in {"row", "poll"}
           /\ rowSeen' = status
           /\ conn' = "list"
           /\ UNCHANGED <<sent, saidEnd, wire, clientVars, breaks>>

\* xrange after last_seq and the frames of the batch.  The end event closes
\* the connection; so does a terminal row with nothing left in the stream,
\* with an end frame of the endpoint's own that carries the cursor as its id
\* (none when nothing was ever in the stream).
ListEvents ==
    /\ conn = "list"
    /\ \E n \in 0..BatchLimit : \E order \in [1..n -> Kept] :
         /\ \A k, l \in DOMAIN order : k < l => order[k] < order[l]
         /\ \A i \in Kept : \E k \in DOMAIN order : order[k] = i
         /\ wire' = wire \o [k \in DOMAIN order |-> FrameOf(order[k])]
                         \o (IF SaysEnd THEN <<[kind |-> "end", id |-> sent]>> ELSE <<>>)
    /\ saidEnd' = (SaysEnd \/ \E i \in Batch : events[i].type = "end")
    /\ conn' = IF saidEnd' THEN "closed" ELSE "poll"
    /\ sent' = BatchEnd
    /\ UNCHANGED <<rowSeen, clientVars, breaks>>

\* The database or Redis is away: an error frame without an id, and goodbye.
ServerError == /\ conn \in {"row", "poll", "list"}
               /\ Break("server")
               /\ wire' = Append(wire, [kind |-> "error", id |-> 0])
               /\ conn' = "closed"
               /\ UNCHANGED <<rowSeen, sent, saidEnd, clientVars>>

\* SSE_MAX_CONNECTION_MINUTES, tested after a batch without an end.
TimeLimit == /\ conn = "poll"
             /\ Break("limit")
             /\ conn' = "closed"
             /\ UNCHANGED <<rowSeen, sent, saidEnd, wire, clientVars>>

-----------------------------------------------------------------------------
(* The browser *)

\* The request carries the cursor; the endpoint starts after it.
Connect == /\ client \in {"new", "waiting"}
           /\ client' = "streaming"
           /\ conn' = "row" /\ sent' = lastSeq /\ saidEnd' = FALSE
           /\ wire' = <<>>
           /\ UNCHANGED <<rowSeen, lastSeq, shown, breaks>>

Head1 == Head(wire)
Stale(f) == f.id # 0 /\ f.id <= lastSeq

\* Mutant: a retryable error is taken for the end.
ClosesEveryError(f) == f.kind \in {"end", "error", "retry"}

Closes(f) == f.kind \in {"end", "error"}

\* A frame that is not newer than the cursor is dropped, whatever it is.
\* An end or an error frame finishes the run for the browser, a retryable
\* error does not.
ReadFrame ==
    /\ client = "streaming" /\ wire # <<>>
    /\ wire' = Tail(wire)
    /\ IF Stale(Head1) THEN UNCHANGED clientVars
       ELSE /\ lastSeq' = IF Head1.id = 0 THEN lastSeq ELSE Head1.id
            /\ shown' = IF Head1.kind = "data" THEN Append(shown, Head1.id) ELSE shown
            /\ client' = IF Closes(Head1) THEN "finished" ELSE client
    /\ UNCHANGED <<endpointVars, breaks>>

\* The response is over and said nothing terminal: ask for the run's row.
ResponseOver == /\ client = "streaming" /\ wire = <<>> /\ conn = "closed"
                /\ client' = "asking"
                /\ UNCHANGED <<endpointVars, wire, lastSeq, shown, breaks>>

AskRun == /\ client = "asking"
          /\ client' = IF IsTerminal(status) THEN "finished" ELSE "waiting"
          /\ UNCHANGED <<endpointVars, wire, lastSeq, shown, breaks>>

AskFails == /\ client = "asking"
            /\ Break("network")
            /\ client' = "waiting"
            /\ UNCHANGED <<endpointVars, wire, lastSeq, shown>>

ConnectionLost == /\ client = "streaming"
                  /\ Break("network")
                  /\ client' = "waiting"
                  /\ conn' = "closed" /\ wire' = <<>>
                  /\ UNCHANGED <<rowSeen, sent, saidEnd, lastSeq, shown>>

\* stopRunStreamSubscription, when another thread is opened; a page reload
\* loses what was on the screen as well, the cursor survives in localStorage.
GoAway == /\ client \in {"streaming", "asking", "waiting"}
          /\ Break("away")
          /\ client' = "away"
          /\ conn' = "closed" /\ wire' = <<>>
          /\ shown' \in {shown, <<>>}
          /\ UNCHANGED <<rowSeen, sent, saidEnd, lastSeq>>

\* Mutant: the cursor in localStorage is used although the screen is empty.
ResumeAtCursor == lastSeq

\* resolveRunResumeAfterSeq.
ResumeAfterSeq == IF shown = <<>> THEN 0 ELSE lastSeq

\* resumeActiveRunForThread: a run that is over is shown from the database;
\* an active one is streamed from the cursor if its chunks are still on the
\* screen, and from the start of its stream otherwise.  An interrupted run
\* whose question is no longer on the screen is streamed again to get it.
ComeBack ==
    /\ client = "away"
    /\ \/ /\ IsTerminal(status)
          /\ client' = "finished"
          /\ UNCHANGED <<lastSeq, shown>>
       \/ /\ status = "interrupted"
          /\ client' = "waiting"
          /\ lastSeq' = 0 /\ shown' = <<>>
       \/ /\ ~IsTerminal(status)
          /\ client' = "waiting"
          /\ lastSeq' = ResumeAfterSeq
          /\ shown' = shown
    /\ UNCHANGED <<endpointVars, wire, breaks>>

EndpointStep == ReadRow \/ ListEvents
BrowserStep == Connect \/ ReadFrame \/ ResponseOver \/ AskRun
Trouble == ServerError \/ TimeLimit \/ AskFails \/ ConnectionLost \/ GoAway

SseNext == EndpointStep \/ BrowserStep \/ ComeBack \/ Trouble
=============================================================================
