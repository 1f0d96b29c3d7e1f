------------------------------ MODULE AgentRun ------------------------------
(***************************************************************************)
(* A run and the browser that watches it: RunWorker, which writes the      *)
(* run's row and its event stream, beside RunSse, which only reads them.   *)
(* Neither side waits for the other.                                       *)
(***************************************************************************)
EXTENDS RunWorker

CONSTANTS BatchLimit, MaxBreaks, Breaks     \* see RunSse

ASSUME AgentRunAssumption == /\ BatchLimit \in Nat \ {0} /\ MaxBreaks \in Nat
                             /\ Breaks \subseteq {"network", "server", "limit", "away"}

VARIABLES conn, rowSeen, sent, saidEnd, wire, client, lastSeq, shown, breaks

Sse == INSTANCE RunSse
sseVars == <<conn, rowSeen, sent, saidEnd, wire, client, lastSeq, shown, breaks>>
runVars == <<vars, sseVars>>

RunInit == Init /\ Sse!SseInit

RunNext == \/ Next /\ UNCHANGED sseVars
           \/ Sse!SseNext /\ UNCHANGED vars

RunSpec == RunInit /\ [][RunNext]_runVars

\* The endpoint polls and the browser handles what it has got; the user need
\* not come back, and nothing is asked of the worker.
WatchingSpec == /\ RunSpec
                /\ WF_runVars(Sse!EndpointStep /\ UNCHANGED vars)
                /\ WF_runVars(Sse!BrowserStep /\ UNCHANGED vars)

-----------------------------------------------------------------------------

\* Type correctness of the endpoint's and the browser's state.
WatchTypeOK ==
    /\ conn \in Sse!Conns /\ rowSeen \in RunStatuses /\ sent \in 0..Len(events)
    /\ saidEnd \in BOOLEAN /\ wire \in Seq(Sse!Frame)
    /\ client \in Sse!Clients /\ lastSeq \in 0..Len(events)
    /\ shown \in Seq(1..Len(events)) /\ breaks \in 0..MaxBreaks

\* When the endpoint closes a connection with an end frame, it has sent
\* every event written before the run became terminal: reading the row and
\* then the stream, in batches, loses nothing to a worker that commits and
\* writes in between.
EndIsComplete == saidEnd => sent >= marked

Displayable(i) == events[i].type \notin {"metadata", "retry", "error", "end"}

\* While a run is watched, what is on the screen is exactly the run's displayable events up to the
\* browser's cursor, each once and in order, across lost connections, old
\* connections closed by the endpoint, reloads and resumed subscriptions.
ScreenMatchesCursor ==
    client \in {"new", "streaming", "asking", "waiting"} =>
        /\ \A k, l \in DOMAIN shown : k < l => shown[k] < shown[l]
        /\ {shown[k] : k \in DOMAIN shown} = {i \in 1..lastSeq : Displayable(i)}

ServerGaveUp == client = "streaming" /\ wire # <<>>
                /\ Head(wire).kind = "error" /\ Head(wire).id = 0

\* The browser stops watching a run only when the run is over, or the worker
\* has reported the error that ends it, or the endpoint could not read it.
NeverAbandoned ==
    [][client' = "finished" /\ client # "finished" =>
         \/ IsTerminal(status) \/ ServerGaveUp
         \/ \E i \in DOMAIN events : events[i].type = "error"]_runVars

\* Whoever stays on the thread learns that the run is over, even when the
\* end event was never written because the worker died after its commit.
WatcherLearns == IsTerminal(status) ~> client \in {"finished", "away"}

\* The endpoint that cannot read the database or Redis asks the browser to
\* reconnect ("please reconnect"): it does not give the run up.
ReconnectsAfterUnavailable == [][ServerGaveUp => client' # "finished"]_runVars
=============================================================================
