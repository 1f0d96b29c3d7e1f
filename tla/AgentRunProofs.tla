--------------------------- MODULE AgentRunProofs ---------------------------
(***************************************************************************)
(* Theorems about AgentRun, for any batch size, any number of faults of    *)
(* the worker and any number of breaks of the connection: the types of the *)
(* endpoint and the browser, that an end frame follows every event of the  *)
(* run, that the screen shows the run up to the browser's cursor, and that *)
(* the browser gives no run up.                                            *)
(***************************************************************************)
EXTENDS AgentRun, RunWorkerProofs

USE DEF TERMINAL_RUN_STATUSES, ActiveStatuses, RunStatuses, CreatedStatus, IsTerminal,
        Sse!TERMINAL_RUN_STATUSES, Sse!CreatedStatus, Sse!IsTerminal

-----------------------------------------------------------------------------
(* The invariant *)

\* What a frame in flight says is so.
FrameTrue(f) ==
    /\ f.id \in 0..sent
    /\ f.kind = "data" => f.id # 0 /\ Displayable(f.id)
    /\ f.kind = "retry" => f.id # 0 /\ events[f.id].type = "retry"
    /\ f.kind = "error" => f.id = 0 \/ events[f.id].type = "error"
    /\ f.kind = "end" => IsTerminal(status)

\* An end frame of the endpoint's own carries the id of the event before it.
Precedes(f, g) == g.id # 0 => f.id < g.id \/ (f.id = g.id /\ g.kind = "end")

\* Frames are in flight in the order of the events they stand for.
WireInv ==
    \A k \in DOMAIN wire :
        /\ FrameTrue(wire[k])
        /\ \A l \in DOMAIN wire : k < l => Precedes(wire[k], wire[l])

\* What the endpoint has sent and the browser not read is in flight.
PendingInFlight ==
    client = "streaming" =>
        \A i \in (lastSeq + 1)..sent :
            Displayable(i) => \E k \in DOMAIN wire : wire[k] = [kind |-> "data", id |-> i]

ShownToCursor ==
    /\ \A k, l \in DOMAIN shown : k < l => shown[k] < shown[l]
    /\ {shown[k] : k \in DOMAIN shown} = {i \in 1..lastSeq : Displayable(i)}

\* A browser that is away keeps its screen, or loses it altogether.
ScreenInv == client \in {"new", "streaming", "asking", "waiting"} \/ (client = "away" /\ shown # <<>>)
                => ShownToCursor

\* The endpoint says that the run is over when it is.
ClosingInv == /\ IsTerminal(rowSeen) => IsTerminal(status)
              /\ saidEnd => IsTerminal(status) /\ sent >= marked

WatchInv == WatchTypeOK /\ WireInv /\ PendingInFlight /\ ScreenInv /\ ClosingInv

\* What the worker promises, which the watching rests on.
RunInv == TypeOK /\ RowInv /\ EndInv

LEMMA RunInvStep == RunInv /\ [Next]_vars => RunInv'
  BY TypeStep, RowStep, EndInvStep DEF RunInv

LEMMA RunInvKept == RunInv /\ UNCHANGED vars => RunInv'
  BY RunInvStep

LEMMA WatchInit == RunInit => RunInv /\ WatchInv
  <1> SUFFICES ASSUME RunInit PROVE RunInv /\ WatchInv
    OBVIOUS
  <1>1. RunInv
    BY TypeInit, RowInit, EndInvInit DEF RunInit, RunInv
  <1>2. WatchTypeOK
    <2>1. wire \in Seq(Sse!Frame) /\ shown \in Seq(1..Len(events)) /\ breaks \in 0..MaxBreaks
      BY AgentRunAssumption DEF RunInit, Sse!SseInit
    <2>2. sent \in 0..Len(events) /\ lastSeq \in 0..Len(events)
      BY DEF RunInit, Init, Sse!SseInit
    <2> QED BY <2>1, <2>2 DEF RunInit, Sse!SseInit, WatchTypeOK, Sse!Conns, Sse!Clients
  <1>3. WireInv /\ PendingInFlight /\ ClosingInv
    BY DEF RunInit, Sse!SseInit, WireInv, PendingInFlight, ClosingInv
  <1>4. ScreenInv
    BY DEF RunInit, Sse!SseInit, ScreenInv, ShownToCursor
  <1> QED BY <1>1, <1>2, <1>3, <1>4 DEF WatchInv

-----------------------------------------------------------------------------
(* A step of the run leaves what the watching knows true *)

LEMMA DisplayableStays ==
    ASSUME RunInv, [Next]_vars, NEW i \in 1..Len(events)
    PROVE  (Displayable(i)' <=> Displayable(i)) /\ events'[i] = events[i]
  BY StreamGrows DEF RunInv, Displayable

LEMMA RunStepKeeps ==
    ASSUME RunInv, WatchInv, [Next]_vars, UNCHANGED sseVars
    PROVE  WatchInv'
  <1> USE DEF WatchInv
  <1>1. /\ Len(events) \in Nat /\ Len(events') \in Nat /\ Len(events) <= Len(events')
        /\ UNCHANGED <<conn, rowSeen, sent, saidEnd, wire, client, lastSeq, shown, breaks>>
        /\ sent \in 0..Len(events) /\ lastSeq \in 0..Len(events)
    BY StreamGrows DEF RunInv, sseVars, WatchTypeOK
  <1>2. IsTerminal(status) => IsTerminal(status') /\ marked' = marked
    BY SettledRowStays
  <1>3. WatchTypeOK'
    <2>1. shown \in Seq(1..Len(events'))
      BY <1>1 DEF WatchTypeOK
    <2> QED BY <1>1, <2>1 DEF WatchTypeOK
  <1>4. WireInv'
    <2>1. ASSUME NEW k \in DOMAIN wire
          PROVE  FrameTrue(wire[k])'
      <3>1. FrameTrue(wire[k]) /\ wire[k].id \in 0..Len(events)
        BY <1>1 DEF WireInv, FrameTrue
      <3> QED BY <1>1, <1>2, <3>1, DisplayableStays DEF FrameTrue
    <2> QED BY <1>1, <2>1 DEF WireInv
  <1>5. PendingInFlight'
    BY <1>1, DisplayableStays DEF PendingInFlight
  <1>6. ScreenInv'
    <2>1. {i \in 1..lastSeq : Displayable(i)'} = {i \in 1..lastSeq : Displayable(i)}
      BY <1>1, DisplayableStays
    <2> QED BY <1>1, <2>1 DEF ScreenInv, ShownToCursor
  <1>7. ClosingInv'
    BY <1>1, <1>2 DEF ClosingInv
  <1> QED BY <1>3, <1>4, <1>5, <1>6, <1>7

-----------------------------------------------------------------------------
(* The endpoint *)

\* What an endpoint's step leaves alone is enough for the browser's part.
LEMMA ReadRowKeeps ==
    ASSUME RunInv, WatchInv, Sse!ReadRow, UNCHANGED vars
    PROVE  WatchInv'
  BY DEF WatchInv, Sse!ReadRow, vars, Sse!clientVars, WatchTypeOK, Sse!Conns, WireInv, FrameTrue, Displayable,
         PendingInFlight, ScreenInv, ShownToCursor, ClosingInv, RunInv, TypeOK, SharedTypeOK

LEMMA TimeLimitKeeps ==
    ASSUME RunInv, WatchInv, Sse!TimeLimit, UNCHANGED vars
    PROVE  WatchInv'
  BY AgentRunAssumption
     DEF WatchInv, Sse!TimeLimit, Sse!Break, vars, Sse!clientVars, WatchTypeOK, Sse!Conns, WireInv, FrameTrue,
         Displayable, PendingInFlight, ScreenInv, ShownToCursor, ClosingInv

\* The events of a batch are in the stream.
LEMMA BatchFacts ==
    ASSUME RunInv, WatchInv
    PROVE  /\ sent \in Nat /\ Len(events) \in Nat /\ sent <= Len(events) /\ DOMAIN events = 1..Len(events)
           /\ Sse!BatchEnd \in Nat /\ sent <= Sse!BatchEnd /\ Sse!BatchEnd <= Len(events)
           /\ Sse!Batch = (sent + 1)..Sse!BatchEnd
           /\ Sse!Batch = {} => Len(events) <= sent /\ Sse!BatchEnd <= sent
  <1>1. /\ sent \in Nat /\ Len(events) \in Nat /\ sent <= Len(events) /\ DOMAIN events = 1..Len(events)
    BY DEF WatchInv, WatchTypeOK, RunInv, TypeOK, SharedTypeOK
  <1>2. /\ Sse!BatchEnd \in Nat /\ sent <= Sse!BatchEnd /\ Sse!BatchEnd <= Len(events)
        /\ Sse!Batch = (sent + 1)..Sse!BatchEnd
        /\ Sse!Batch = {} => Len(events) <= sent /\ Sse!BatchEnd <= sent
    <2>1. /\ Sse!BatchEnd \in Nat /\ sent <= Sse!BatchEnd /\ Sse!BatchEnd <= Len(events)
          /\ Sse!BatchEnd <= sent => Len(events) <= sent
      BY <1>1, AgentRunAssumption DEF Sse!BatchEnd
    <2>2. Sse!Batch = (sent + 1)..Sse!BatchEnd
      BY DEF Sse!Batch
    <2>3. sent < Sse!BatchEnd => sent + 1 \in (sent + 1)..Sse!BatchEnd
      BY <1>1, <2>1
    <2> QED BY <1>1, <2>1, <2>2, <2>3
  <1> QED BY <1>1, <1>2

\* The frame of an event says what the event is.
LEMMA FrameOfTrue ==
    ASSUME RunInv, NEW i \in 1..Len(events), events[i].type # "metadata"
    PROVE  /\ Sse!FrameOf(i) \in Sse!Frame /\ Sse!FrameOf(i).id = i
           /\ Displayable(i) => Sse!FrameOf(i) = [kind |-> "data", id |-> i]
           /\ Sse!FrameOf(i).kind = "data" => Displayable(i)
           /\ Sse!FrameOf(i).kind = "retry" => events[i].type = "retry"
           /\ Sse!FrameOf(i).kind = "error" => events[i].type = "error"
           /\ Sse!FrameOf(i).kind = "end" => IsTerminal(status)
  <1>1. events[i].type = "end" => IsTerminal(status)
    BY DEF RunInv, RowInv, EndOnlyOfTerminal, TypeOK, SharedTypeOK
  <1>2. Len(events) \in Nat
    BY DEF RunInv, TypeOK, SharedTypeOK
  <1> QED BY <1>1, <1>2 DEF Sse!FrameOf, Sse!Frame, Displayable

LEMMA ConcatFacts ==
    ASSUME NEW S, NEW a \in Seq(S), NEW b \in Seq(S)
    PROVE  /\ a \o b \in Seq(S) /\ Len(a \o b) = Len(a) + Len(b)
           /\ \A k \in 1..Len(a) : (a \o b)[k] = a[k]
           /\ \A k \in 1..Len(b) : (a \o b)[Len(a) + k] = b[k]
  OBVIOUS

LEMMA ListEventsKeeps ==
    ASSUME RunInv, WatchInv, Sse!ListEvents, UNCHANGED vars
    PROVE  WatchInv'
  <1> USE DEF WatchInv
  <1>1. /\ UNCHANGED <<rowSeen, client, lastSeq, shown, breaks, status, events, marked>>
        /\ sent' = Sse!BatchEnd /\ conn' \in Sse!Conns
        /\ saidEnd' = (Sse!SaysEnd \/ \E i \in Sse!Batch : events[i].type = "end")
    BY DEF Sse!ListEvents, vars, Sse!clientVars, Sse!Conns
  <1>2. PICK n \in 0..BatchLimit : \E order \in [1..n -> Sse!Kept] :
          /\ \A k, l \in DOMAIN order : k < l => order[k] < order[l]
          /\ \A i \in Sse!Kept : \E k \in DOMAIN order : order[k] = i
          /\ wire' = wire \o [k \in DOMAIN order |-> Sse!FrameOf(order[k])]
                          \o (IF Sse!SaysEnd THEN <<[kind |-> "end", id |-> sent]>> ELSE <<>>)
    BY Zenon DEF Sse!ListEvents
  <1>3. PICK order \in [1..n -> Sse!Kept] :
          /\ \A k, l \in DOMAIN order : k < l => order[k] < order[l]
          /\ \A i \in Sse!Kept : \E k \in DOMAIN order : order[k] = i
          /\ wire' = wire \o [k \in DOMAIN order |-> Sse!FrameOf(order[k])]
                          \o (IF Sse!SaysEnd THEN <<[kind |-> "end", id |-> sent]>> ELSE <<>>)
    BY <1>2
  <1> DEFINE frames == [k \in DOMAIN order |-> Sse!FrameOf(order[k])]
  <1>4. n \in Nat /\ DOMAIN order = 1..n
    BY AgentRunAssumption
  <1>5. \A k \in 1..n : /\ order[k] \in Sse!Kept /\ order[k] \in 1..Len(events)
                        /\ events[order[k]].type # "metadata"
                        /\ sent < order[k] /\ order[k] <= Sse!BatchEnd
    BY <1>4, BatchFacts DEF Sse!Kept
  <1>6. \A k \in 1..n : frames[k] = Sse!FrameOf(order[k]) /\ frames[k] \in Sse!Frame
    BY <1>4, <1>5, FrameOfTrue
  <1>7. frames \in Seq(Sse!Frame) /\ Len(frames) = n /\ wire \in Seq(Sse!Frame)
    BY <1>4, <1>6 DEF WatchTypeOK
  <1> DEFINE own == IF Sse!SaysEnd THEN <<[kind |-> "end", id |-> sent]>> ELSE <<>>
  <1>19. wire' = wire \o frames \o own
    BY <1>3
  <1> HIDE DEF frames
  \* The wire: the old frames, then one for each kept event, or the endpoint's own.
  <1>8. /\ wire' \in Seq(Sse!Frame) /\ Len(wire) \in Nat
        /\ \A k \in 1..Len(wire) : k \in DOMAIN wire' /\ wire'[k] = wire[k]
        /\ \/ /\ Len(wire') = Len(wire) + n
              /\ \A k \in 1..n : wire'[Len(wire) + k] = Sse!FrameOf(order[k])
           \/ /\ Sse!SaysEnd /\ n = 0 /\ Len(wire') = Len(wire) + 1
              /\ wire'[Len(wire) + 1] = [kind |-> "end", id |-> sent]
    <2>1. CASE Sse!SaysEnd
      <3>1. n = 0
        BY <1>4, <1>5, <2>1 DEF Sse!SaysEnd, Sse!Kept
      <3>2. frames = <<>> /\ own = <<[kind |-> "end", id |-> sent]>>
        BY <1>7, <2>1, <3>1
      <3>3. wire' = Append(wire, [kind |-> "end", id |-> sent])
        <4> HIDE DEF own
        <4> QED BY <1>7, <1>19, <3>2
      <3>4. [kind |-> "end", id |-> sent] \in Sse!Frame
        BY BatchFacts DEF Sse!Frame
      <3> QED BY <1>7, <2>1, <3>1, <3>3, <3>4
    <2>2. CASE ~Sse!SaysEnd
      <3>1. wire' = wire \o frames
        BY <1>7, <1>19, <2>2
      <3>2. /\ wire' \in Seq(Sse!Frame) /\ Len(wire') = Len(wire) + n
            /\ \A k \in 1..Len(wire) : wire'[k] = wire[k]
            /\ \A k \in 1..n : wire'[Len(wire) + k] = frames[k]
        <4>0. frames \in Seq(Sse!Frame) /\ wire \in Seq(Sse!Frame)
          BY <1>7
        <4>1. /\ wire \o frames \in Seq(Sse!Frame) /\ Len(wire \o frames) = Len(wire) + Len(frames)
              /\ \A k \in 1..Len(wire) : (wire \o frames)[k] = wire[k]
              /\ \A k \in 1..Len(frames) : (wire \o frames)[Len(wire) + k] = frames[k]
          BY <4>0, ConcatFacts
        <4> QED BY <1>7, <3>1, <4>1, Zenon
      <3>3. \A k \in 1..n : wire'[Len(wire) + k] = Sse!FrameOf(order[k])
        BY <1>6, <3>2, Zenon
      <3>4. Len(wire) \in Nat /\ \A k \in 1..Len(wire) : k \in DOMAIN wire'
        <4> HIDE DEF own
        <4> QED BY <1>4, <1>7, <3>2
      <3> QED BY <3>2, <3>3, <3>4, Zenon
    <2> QED BY <2>1, <2>2
  <1>9. WatchTypeOK'
    BY <1>1, <1>8, BatchFacts DEF WatchTypeOK
  <1>10. WireInv'
    <2>1. ASSUME NEW k \in 1..Len(wire), NEW f, f = wire[k]
          PROVE  /\ FrameTrue(f)' /\ f.id \in 0..sent /\ k \in DOMAIN wire /\ wire'[k] = f
                 /\ \A l \in DOMAIN wire : k < l => Precedes(f, wire[l])
      <3>1. k \in DOMAIN wire /\ FrameTrue(f)
        BY <1>7, <2>1 DEF WireInv
      <3>2. FrameTrue(f)'
        BY <1>1, <3>1, BatchFacts DEF FrameTrue, Displayable
      <3>3. \A l \in DOMAIN wire : k < l => Precedes(f, wire[l])
        BY <2>1, <3>1 DEF WireInv
      <3> QED BY <1>8, <2>1, <3>1, <3>2, <3>3 DEF FrameTrue
    <2>2. ASSUME NEW k \in 1..n, NEW f, f = Sse!FrameOf(order[k])
          PROVE  FrameTrue(f)' /\ f.id = order[k]
      <3>1. order[k] \in 0..Sse!BatchEnd /\ order[k] # 0
        BY <1>5, BatchFacts
      <3> QED BY <1>1, <1>5, <2>2, <3>1, FrameOfTrue DEF FrameTrue, Displayable
    <2>3. ASSUME NEW f, f = [kind |-> "end", id |-> sent], Sse!SaysEnd
          PROVE  FrameTrue(f)'
      BY <1>1, <2>3, BatchFacts DEF FrameTrue, Displayable, Sse!SaysEnd, ClosingInv
    <2>6. ASSUME NEW k \in 1..Len(wire'), NEW f, f = wire'[k]
          PROVE  /\ FrameTrue(f)'
                 /\ \A l \in 1..Len(wire') : k < l => Precedes(f, wire'[l])
      <3>4. CASE k <= Len(wire)
        <4>1. FrameTrue(f)'
          BY <2>6, <2>1, <3>4
        <4>2. ASSUME NEW l \in 1..Len(wire'), k < l
              PROVE  Precedes(f, wire'[l])
          <5>1. CASE l <= Len(wire)
            BY <2>6, <1>8, <2>1, <3>4, <4>2, <5>1
          <5>2. CASE l > Len(wire)
            <6>1. f.id \in 0..sent
              BY <2>6, <1>8, <2>1, <3>4
            <6>2. wire'[l].id \in Nat /\ (sent < wire'[l].id \/ (sent = wire'[l].id /\ wire'[l].kind = "end"))
              <7>1. CASE n = 0 /\ Sse!SaysEnd
                BY <1>8, <4>2, <5>2, <7>1, BatchFacts
              <7>2. CASE ~(n = 0 /\ Sse!SaysEnd)
                <8>1. l - Len(wire) \in 1..n /\ wire'[l] = Sse!FrameOf(order[l - Len(wire)])
                  BY <1>4, <1>8, <5>2, <7>2
                <8> QED BY <1>5, <2>2, <8>1, BatchFacts
              <7> QED BY <7>1, <7>2
            <6> QED BY <6>1, <6>2, BatchFacts DEF Precedes
          <5> QED BY <1>8, <5>1, <5>2
        <4> QED BY <4>1, <4>2
      <3>5. CASE k > Len(wire)
        <4>1. FrameTrue(f)'
          <5>1. CASE n = 0 /\ Sse!SaysEnd
            BY <2>6, <1>8, <2>3, <3>5, <5>1
          <5>2. CASE ~(n = 0 /\ Sse!SaysEnd)
            <6>1. k - Len(wire) \in 1..n /\ wire'[k] = Sse!FrameOf(order[k - Len(wire)])
              BY <1>4, <1>8, <3>5, <5>2
            <6> QED BY <2>6, <2>2, <6>1
          <5> QED BY <5>1, <5>2
        <4>2. ASSUME NEW l \in 1..Len(wire'), k < l
              PROVE  Precedes(f, wire'[l])
          <5> DEFINE a == k - Len(wire)
                     b == l - Len(wire)
          <5>1. /\ a \in 1..n /\ b \in 1..n /\ a < b
                /\ wire'[k] = Sse!FrameOf(order[a]) /\ wire'[l] = Sse!FrameOf(order[b])
            BY <1>4, <1>8, <3>5, <4>2
          <5> HIDE DEF a, b
          <5>2. order[a] < order[b] /\ order[a] \in Nat /\ order[b] \in Nat
            BY SMTT(20), <1>3, <1>4, <1>5, <5>1
          <5> QED BY <2>6, <2>2, <5>1, <5>2 DEF Precedes
        <4> QED BY <4>1, <4>2
      <3> QED BY <1>8, <3>4, <3>5
    <2>7. DOMAIN wire' = 1..Len(wire')
      BY <1>8
    <2> QED BY <2>6, <2>7 DEF WireInv
  <1>11. PendingInFlight'
    <2> SUFFICES ASSUME client = "streaming", NEW i \in (lastSeq + 1)..Sse!BatchEnd, Displayable(i)
                 PROVE  \E k \in DOMAIN wire' : wire'[k] = [kind |-> "data", id |-> i]
      BY <1>1 DEF PendingInFlight, Displayable
    <2>1. lastSeq \in Nat /\ i \in Nat
      BY BatchFacts DEF WatchTypeOK
    <2>2. CASE i <= sent
      <3>1. i \in (lastSeq + 1)..sent
        BY <2>1, <2>2, BatchFacts
      <3> QED BY <1>8, <3>1 DEF PendingInFlight
    <2>3. CASE i > sent
      <3>1. i \in Sse!Batch /\ i \in 1..Len(events) /\ events[i].type # "metadata"
        BY <2>1, <2>3, BatchFacts DEF Displayable
      <3>2. PICK k \in 1..n : order[k] = i
        BY <1>3, <1>4, <3>1 DEF Sse!Kept
      <3>3. ~Sse!SaysEnd
        BY <3>1 DEF Sse!SaysEnd
      <3>4. /\ wire'[Len(wire) + k] = [kind |-> "data", id |-> i]
            /\ Len(wire) + k \in 1..Len(wire')
        BY <1>4, <1>8, <3>1, <3>2, <3>3, FrameOfTrue
      <3> QED BY <1>8, <3>4
    <2> QED BY <2>1, <2>2, <2>3, BatchFacts
  <1>12. ScreenInv'
    BY <1>1 DEF ScreenInv, ShownToCursor, Displayable
  <1>13. ClosingInv'
    <2>1. CASE Sse!SaysEnd
      BY <1>1, <2>1, BatchFacts DEF Sse!SaysEnd, ClosingInv, RunInv, EndInv, MarkedBehind
    <2>2. ASSUME NEW i \in Sse!Batch, events[i].type = "end"
          PROVE  IsTerminal(status) /\ marked < i /\ i <= Sse!BatchEnd
      <3>1. i \in Ends
        BY <2>2, BatchFacts DEF Ends
      <3> QED BY <2>2, <3>1, BatchFacts
              DEF RunInv, RowInv, EndOnlyOfTerminal, EndInv, EndsAfterMark, Ends
    <2>3. ASSUME NEW i \in Sse!Batch, events[i].type = "end"
          PROVE  IsTerminal(status) /\ Sse!BatchEnd >= marked
      BY <2>2, <2>3, BatchFacts DEF RunInv, EndInv, MarkedBehind
    <2>4. saidEnd' => Sse!SaysEnd \/ \E i \in Sse!Batch : events[i].type = "end"
      BY <1>1
    <2> QED BY <1>1, <2>1, <2>3, <2>4 DEF ClosingInv
  <1> QED BY <1>9, <1>10, <1>11, <1>12, <1>13

LEMMA ServerErrorKeeps ==
    ASSUME RunInv, WatchInv, Sse!ServerError, UNCHANGED vars
    PROVE  WatchInv'
  <1> USE DEF WatchInv
  <1> DEFINE bad == [kind |-> "error", id |-> 0]
  <1>1. /\ UNCHANGED <<rowSeen, sent, saidEnd, client, lastSeq, shown, status, events, marked>>
        /\ conn' = "closed" /\ breaks' \in 0..MaxBreaks /\ wire' = Append(wire, bad)
    BY AgentRunAssumption
       DEF Sse!ServerError, Sse!Break, Sse!clientVars, vars, WatchTypeOK
  <1>2. bad \in Sse!Frame /\ bad.id = 0 /\ bad.kind = "error"
    BY DEF Sse!Frame
  <1> HIDE DEF bad
  <1>3. /\ wire' \in Seq(Sse!Frame) /\ Len(wire) \in Nat /\ DOMAIN wire = 1..Len(wire)
        /\ DOMAIN wire' = 1..(Len(wire) + 1)
        /\ \A k \in DOMAIN wire : wire'[k] = wire[k]
        /\ wire'[Len(wire) + 1] = bad
    BY <1>1, <1>2 DEF WatchTypeOK
  <1>4. WatchTypeOK'
    BY <1>1, <1>3 DEF WatchTypeOK, Sse!Conns
  <1>5. WireInv'
    <2>1. FrameTrue(bad)'
      BY <1>1, <1>2, BatchFacts DEF FrameTrue
    <2>2. ASSUME NEW k \in DOMAIN wire, NEW f, f = wire[k]
          PROVE  FrameTrue(f)' /\ \A l \in DOMAIN wire : k < l => Precedes(f, wire[l])
      BY <1>1, <2>2 DEF WireInv, FrameTrue, Displayable
    <2>3. ASSUME NEW k \in DOMAIN wire', NEW f, f = wire'[k]
          PROVE  /\ FrameTrue(f)'
                 /\ \A l \in DOMAIN wire' : k < l => Precedes(f, wire'[l])
      <3>1. CASE k \in DOMAIN wire
        <4>1. ASSUME NEW l \in DOMAIN wire', wire'[l].id # 0
              PROVE  l \in DOMAIN wire
          BY <1>2, <1>3, <4>1
        <4> QED BY <1>3, <2>2, <2>3, <3>1, <4>1 DEF Precedes
      <3>2. CASE k = Len(wire) + 1
        BY <1>3, <2>1, <2>3, <3>2
      <3> QED BY <1>3, <3>1, <3>2
    <2> QED BY <2>3 DEF WireInv
  <1>6. PendingInFlight'
    <2> SUFFICES ASSUME client = "streaming", NEW i \in (lastSeq + 1)..sent, Displayable(i)
                 PROVE  \E k \in DOMAIN wire' : wire'[k] = [kind |-> "data", id |-> i]
      BY <1>1 DEF PendingInFlight, Displayable
    <2>1. PICK k \in DOMAIN wire : wire[k] = [kind |-> "data", id |-> i]
      BY DEF PendingInFlight
    <2> QED BY <1>3, <2>1
  <1>7. ScreenInv' /\ ClosingInv'
    BY <1>1 DEF ScreenInv, ShownToCursor, ClosingInv, Displayable
  <1> QED BY <1>4, <1>5, <1>6, <1>7

-----------------------------------------------------------------------------
(* The browser *)

LEMMA ConnectKeeps ==
    ASSUME RunInv, WatchInv, Sse!Connect, UNCHANGED vars
    PROVE  WatchInv'
  <1> USE DEF WatchInv
  <1>1. /\ UNCHANGED <<rowSeen, lastSeq, shown, breaks, status, events, marked>>
        /\ client \in {"new", "waiting"} /\ client' = "streaming"
        /\ conn' = "row" /\ sent' = lastSeq /\ saidEnd' = FALSE /\ wire' = <<>>
    BY DEF Sse!Connect, vars
  <1>2. WatchTypeOK'
    <2>1. wire' \in Seq(Sse!Frame) /\ shown' \in Seq(1..Len(events)) /\ sent' \in 0..Len(events)
      BY <1>1 DEF WatchTypeOK
    <2> QED BY <1>1, <2>1 DEF WatchTypeOK, Sse!Conns, Sse!Clients
  <1>3. WireInv' /\ ClosingInv'
    BY <1>1 DEF WireInv, ClosingInv
  <1>4. PendingInFlight'
    <2>1. lastSeq \in Nat
      BY BatchFacts DEF WatchTypeOK
    <2> QED BY <1>1, <2>1 DEF PendingInFlight
  <1>5. ScreenInv'
    BY <1>1 DEF ScreenInv, ShownToCursor, Displayable
  <1> QED BY <1>2, <1>3, <1>4, <1>5

\* A connection that is closed or given up.
LEMMA LeavingKeeps ==
    ASSUME RunInv, WatchInv, UNCHANGED vars,
           Sse!ResponseOver \/ Sse!AskRun \/ Sse!AskFails \/ Sse!ConnectionLost \/ Sse!GoAway
    PROVE  WatchInv'
  <1> USE DEF WatchInv
  <1>1. /\ UNCHANGED <<rowSeen, sent, saidEnd, lastSeq, status, events, marked>>
        /\ client \in {"streaming", "asking", "waiting"}
        /\ client' \in {"asking", "waiting", "finished", "away"}
        /\ conn' \in {conn, "closed"} /\ wire' \in {wire, <<>>}
        /\ breaks' \in 0..MaxBreaks
        /\ shown' = shown \/ (client' = "away" /\ shown' = <<>>)
    BY AgentRunAssumption
       DEF Sse!ResponseOver, Sse!AskRun, Sse!AskFails, Sse!ConnectionLost, Sse!GoAway, Sse!Break,
           Sse!endpointVars, vars, WatchTypeOK
  <1>2. wire' \in Seq(Sse!Frame) /\ shown' \in Seq(1..Len(events))
    <2>1. /\ wire \in Seq(Sse!Frame) /\ <<>> \in Seq(Sse!Frame)
          /\ shown \in Seq(1..Len(events)) /\ <<>> \in Seq(1..Len(events))
      BY DEF WatchTypeOK
    <2> QED BY <1>1, <2>1, Zenon
  <1>3. WatchTypeOK'
    BY <1>1, <1>2 DEF WatchTypeOK, Sse!Conns, Sse!Clients
  <1>4. WireInv'
    BY <1>1 DEF WireInv, FrameTrue, Displayable
  <1>5. PendingInFlight' /\ ClosingInv'
    BY <1>1 DEF PendingInFlight, ClosingInv
  <1>6. ScreenInv'
    BY <1>1 DEF ScreenInv, ShownToCursor, Displayable
  <1> QED BY <1>3, <1>4, <1>5, <1>6

LEMMA ComeBackKeeps ==
    ASSUME RunInv, WatchInv, Sse!ComeBack, UNCHANGED vars
    PROVE  WatchInv'
  <1> USE DEF WatchInv
  <1>1. /\ UNCHANGED <<conn, rowSeen, sent, saidEnd, wire, breaks, status, events, marked>>
        /\ client = "away" /\ client' \in {"waiting", "finished"}
        /\ \/ client' = "finished" /\ lastSeq' = lastSeq /\ shown' = shown
           \/ lastSeq' = 0 /\ shown' = <<>>
           \/ shown # <<>> /\ lastSeq' = lastSeq /\ shown' = shown
    BY DEF Sse!ComeBack, Sse!ResumeAfterSeq, Sse!endpointVars, vars
  <1>2. WatchTypeOK'
    <2>1. shown' \in Seq(1..Len(events)) /\ lastSeq' \in 0..Len(events)
      <3>1. lastSeq \in 0..Len(events) /\ 0 \in 0..Len(events)
        BY BatchFacts DEF WatchTypeOK
      <3>2. shown \in Seq(1..Len(events)) /\ <<>> \in Seq(1..Len(events))
        BY DEF WatchTypeOK
      <3> QED BY <1>1, <3>1, <3>2, Zenon
    <2> QED BY <1>1, <2>1 DEF WatchTypeOK, Sse!Clients
  <1>3. WireInv' /\ PendingInFlight' /\ ClosingInv'
    BY <1>1 DEF WireInv, FrameTrue, Displayable, PendingInFlight, ClosingInv
  <1>4. ScreenInv'
    BY <1>1 DEF ScreenInv, ShownToCursor, Displayable
  <1> QED BY <1>2, <1>3, <1>4

LEMMA LaterIsLater ==
    ASSUME NEW a \in Nat, NEW b \in Nat, a <= b, NEW m \in Nat
    PROVE  \A i \in (b + 1)..m : i \in (a + 1)..m /\ i \in Nat /\ b < i
  OBVIOUS

\* The browser reads a frame: what it skips is nothing to show.
LEMMA ReadFrameKeeps ==
    ASSUME RunInv, WatchInv, Sse!ReadFrame, UNCHANGED vars
    PROVE  WatchInv'
  <1> USE DEF WatchInv
  <1> DEFINE head == Head(wire)
  <1>1. /\ UNCHANGED <<conn, rowSeen, sent, saidEnd, breaks, status, events, marked>>
        /\ client = "streaming" /\ wire # <<>> /\ wire' = Tail(wire)
        /\ client' \in {"streaming", "finished"}
    BY DEF Sse!ReadFrame, Sse!endpointVars, Sse!clientVars, vars
  <1>2. /\ IF head.id # 0 /\ head.id <= lastSeq
             THEN lastSeq' = lastSeq /\ shown' = shown
             ELSE /\ lastSeq' = IF head.id = 0 THEN lastSeq ELSE head.id
                  /\ shown' = IF head.kind = "data" THEN Append(shown, head.id) ELSE shown
    BY Zenon DEF Sse!ReadFrame, Sse!clientVars, Sse!Stale, Sse!Head1
  <1>3. /\ wire \in Seq(Sse!Frame) /\ Len(wire) \in Nat /\ Len(wire) >= 1 /\ DOMAIN wire = 1..Len(wire)
        /\ head = wire[1] /\ 1 \in DOMAIN wire
        /\ wire' \in Seq(Sse!Frame) /\ DOMAIN wire' = 1..(Len(wire) - 1)
        /\ \A k \in DOMAIN wire' : wire'[k] = wire[k + 1] /\ k + 1 \in DOMAIN wire
    BY <1>1 DEF WatchTypeOK
  <1>4. FrameTrue(head) /\ head.id \in 0..sent /\ head.id \in Nat
    BY <1>3, BatchFacts DEF WireInv, FrameTrue
  <1> HIDE DEF head
  <1>5. lastSeq \in Nat /\ lastSeq <= Len(events)
    BY BatchFacts DEF WatchTypeOK
  <1>6. lastSeq' \in Nat /\ lastSeq <= lastSeq' /\ lastSeq' <= Len(events)
        /\ (lastSeq' = lastSeq \/ (lastSeq' = head.id /\ head.id # 0))
    BY <1>2, <1>4, <1>5, BatchFacts
  <1>7. head.kind = "data" /\ ~(head.id # 0 /\ head.id <= lastSeq)
        => head.id \in 1..Len(events) /\ lastSeq' = head.id /\ lastSeq < head.id /\ Displayable(head.id)
    BY <1>2, <1>4, <1>5, BatchFacts DEF FrameTrue
  <1>8. WatchTypeOK'
    <2>1. shown' \in Seq(1..Len(events))
      <3>1. CASE head.kind = "data" /\ ~(head.id # 0 /\ head.id <= lastSeq)
        <4>1. shown' = Append(shown, head.id) /\ head.id \in 1..Len(events)
          BY <1>2, <1>7, <3>1
        <4> QED BY <4>1 DEF WatchTypeOK
      <3>2. CASE ~(head.kind = "data" /\ ~(head.id # 0 /\ head.id <= lastSeq))
        BY <1>2, <3>2 DEF WatchTypeOK
      <3> QED BY <3>1, <3>2
    <2> QED BY <1>1, <1>3, <1>5, <1>6, <2>1, BatchFacts DEF WatchTypeOK, Sse!Clients
  <1>9. WireInv'
    <2>1. ASSUME NEW k \in DOMAIN wire', NEW f, f = wire'[k]
          PROVE  /\ FrameTrue(f)'
                 /\ \A l \in DOMAIN wire' : k < l => Precedes(f, wire'[l])
      <3>1. k + 1 \in DOMAIN wire /\ f = wire[k + 1] /\ k \in Nat
        BY <1>3, <2>1
      <3>2. FrameTrue(f)'
        BY <1>1, <3>1 DEF WireInv, FrameTrue, Displayable
      <3>3. ASSUME NEW l \in DOMAIN wire', k < l
            PROVE  Precedes(f, wire'[l])
        <4>1. l + 1 \in DOMAIN wire /\ wire'[l] = wire[l + 1] /\ k + 1 < l + 1
          BY <1>3, <3>1, <3>3
        <4> QED BY <3>1, <3>3, <4>1 DEF WireInv
      <3> QED BY <3>2, <3>3
    <2> QED BY <2>1 DEF WireInv
  \* Whatever the cursor passes over was shown, is shown now, or is not for the screen.
  <1>10. ASSUME NEW i \in 1..Len(events), lastSeq < i, i < lastSeq'
         PROVE  ~Displayable(i)
    <2>1. lastSeq' = head.id /\ head.id # 0 /\ i \in Nat /\ i < head.id /\ i \in (lastSeq + 1)..sent
      BY <1>4, <1>5, <1>6, <1>10, BatchFacts
    <2>2. ASSUME NEW k \in DOMAIN wire, wire[k] = [kind |-> "data", id |-> i]
          PROVE  FALSE
      <3>1. wire[k].id = i /\ i # 0 /\ k \in Nat /\ k >= 1
        BY <1>3, <2>2
      <3>2. CASE k = 1
        BY <1>3, <2>1, <3>1, <3>2
      <3>3. CASE k > 1
        BY <1>3, <1>4, <2>1, <2>2, <3>1, <3>3 DEF WireInv, Precedes
      <3> QED BY <3>1, <3>2, <3>3
    <2> QED BY <1>1, <2>1, <2>2 DEF PendingInFlight
  <1>11. PendingInFlight'
    <2>0. lastSeq \in Nat /\ lastSeq' \in Nat /\ lastSeq <= lastSeq' /\ sent \in Nat
      BY <1>5, <1>6, BatchFacts
    <2> SUFFICES ASSUME NEW i \in (lastSeq' + 1)..sent, Displayable(i)
                 PROVE  \E k \in DOMAIN wire' : wire'[k] = [kind |-> "data", id |-> i]
      BY <1>1 DEF PendingInFlight, Displayable
    <2>1. i \in (lastSeq + 1)..sent /\ i \in Nat /\ lastSeq' < i
      BY <2>0, LaterIsLater, Zenon
    <2>2. PICK k \in DOMAIN wire : wire[k] = [kind |-> "data", id |-> i]
      BY <1>1, <2>1 DEF PendingInFlight
    <2>3. k # 1
      <3> SUFFICES ASSUME k = 1 PROVE FALSE
        OBVIOUS
      <3>1. head.id = i /\ head.kind = "data"
        BY <1>3, <2>2
      <3> QED BY <1>5, <1>6, <1>7, <2>1, <3>1
    <2>4. k - 1 \in DOMAIN wire' /\ wire'[k - 1] = wire[k]
      <3>1. k - 1 \in DOMAIN wire' /\ (k - 1) + 1 = k
        BY <1>3, <2>3
      <3> QED BY <1>3, <3>1
    <2> QED BY <2>2, <2>4
  <1>12. ScreenInv'
    <2>1. ShownToCursor
      BY <1>1 DEF ScreenInv
    <2>2. shown \in Seq(1..Len(events)) /\ Len(shown) \in Nat /\ DOMAIN shown = 1..Len(shown)
      BY DEF WatchTypeOK
    <2>3. CASE head.kind = "data" /\ ~(head.id # 0 /\ head.id <= lastSeq)
      <3>1. shown' = Append(shown, head.id) /\ lastSeq' = head.id /\ head.id \in 1..Len(events)
            /\ lastSeq < head.id /\ Displayable(head.id)
        BY <1>2, <1>7, <2>3
      <3>2. /\ DOMAIN shown' = 1..(Len(shown) + 1) /\ shown'[Len(shown) + 1] = head.id
            /\ \A k \in DOMAIN shown : shown'[k] = shown[k]
        BY <2>2, <3>1
      <3>3. \A k \in DOMAIN shown : shown[k] \in 1..lastSeq /\ Displayable(shown[k])
        BY <2>1 DEF ShownToCursor
      <3>4. ASSUME NEW k \in DOMAIN shown', NEW l \in DOMAIN shown', k < l
            PROVE  shown'[k] < shown'[l]
        <4>1. k \in DOMAIN shown /\ k \in Nat
          BY <2>2, <3>2, <3>4
        <4>2. CASE l \in DOMAIN shown
          BY <2>1, <3>2, <3>4, <4>1, <4>2 DEF ShownToCursor
        <4>3. CASE l = Len(shown) + 1
          BY <1>5, <3>1, <3>2, <3>3, <4>1, <4>3
        <4> QED BY <2>2, <3>2, <4>2, <4>3
      <3>5. {shown'[k] : k \in DOMAIN shown'} = {i \in 1..lastSeq' : Displayable(i)}
        <4>1. ASSUME NEW k \in DOMAIN shown'
              PROVE  shown'[k] \in 1..lastSeq' /\ Displayable(shown'[k])
          <5>1. CASE k \in DOMAIN shown
            BY <1>5, <3>1, <3>2, <3>3, <5>1
          <5>2. CASE k = Len(shown) + 1
            BY <3>1, <3>2, <5>2
          <5> QED BY <2>2, <3>2, <5>1, <5>2
        <4>2. ASSUME NEW i \in 1..lastSeq', Displayable(i)
              PROVE  \E k \in DOMAIN shown' : shown'[k] = i
          <5>1. i \in 1..Len(events) /\ i \in Nat
            BY <1>5, <1>6, BatchFacts
          <5>2. CASE i <= lastSeq
            <6>1. \E k \in DOMAIN shown : shown[k] = i
              BY <1>5, <2>1, <4>2, <5>1, <5>2 DEF ShownToCursor
            <6> QED BY <2>2, <3>2, <6>1
          <5>3. CASE i = lastSeq'
            BY <2>2, <3>1, <3>2, <5>3
          <5> QED BY <1>5, <1>6, <1>10, <4>2, <5>1, <5>2, <5>3
        <4> QED BY <4>1, <4>2
      <3> QED BY <1>1, <3>4, <3>5 DEF ScreenInv, ShownToCursor, Displayable
    <2>4. CASE ~(head.kind = "data" /\ ~(head.id # 0 /\ head.id <= lastSeq))
      <3>1. shown' = shown
        BY <1>2, <2>4
      <3>2. {i \in 1..lastSeq' : Displayable(i)} = {i \in 1..lastSeq : Displayable(i)}
        <4>1. ASSUME NEW i \in 1..lastSeq', Displayable(i)
              PROVE  i \in 1..lastSeq
          <5>1. i \in 1..Len(events) /\ i \in Nat
            BY <1>5, <1>6, BatchFacts
          <5>2. CASE i = lastSeq' /\ lastSeq' # lastSeq
            \* The frame at the cursor would have been a data frame.
            <6>1. i = head.id /\ i \in (lastSeq + 1)..sent
              BY <1>4, <1>5, <1>6, <5>1, <5>2, BatchFacts
            <6>2. PICK k \in DOMAIN wire : wire[k] = [kind |-> "data", id |-> i]
              BY <1>1, <4>1, <6>1 DEF PendingInFlight
            <6>3. head.kind # "data"
              BY <1>4, <1>5, <2>4, <6>1
            <6>4. k # 1 /\ k \in Nat /\ k >= 1 /\ wire[k].id = i /\ wire[k].kind = "data" /\ i # 0
              BY <1>3, <5>1, <6>2, <6>3
            <6>5. Precedes(wire[1], wire[k])
              BY <1>3, <6>4 DEF WireInv
            <6> QED BY <1>3, <6>1, <6>4, <6>5 DEF Precedes
          <5> QED BY <1>5, <1>6, <1>10, <4>1, <5>1, <5>2
        <4> QED BY <1>5, <1>6, <4>1
      <3> QED BY <1>1, <2>1, <3>1, <3>2 DEF ScreenInv, ShownToCursor, Displayable
    <2> QED BY <2>3, <2>4
  <1>13. ClosingInv'
    BY <1>1 DEF ClosingInv
  <1> QED BY <1>8, <1>9, <1>11, <1>12, <1>13

-----------------------------------------------------------------------------
(* Every step *)

LEMMA WatchStep ==
    ASSUME RunInv, WatchInv, [RunNext]_runVars
    PROVE  RunInv' /\ WatchInv'
  <1>1. CASE Next /\ UNCHANGED sseVars
    BY <1>1, RunInvStep, RunStepKeeps
  <1>2. CASE Sse!SseNext /\ UNCHANGED vars
    <2>1. RunInv'
      BY <1>2, RunInvKept
    <2>2. CASE Sse!EndpointStep
      BY <1>2, <2>1, <2>2, ReadRowKeeps, ListEventsKeeps DEF Sse!EndpointStep
    <2>3. CASE Sse!BrowserStep
      BY <1>2, <2>1, <2>3, ConnectKeeps, ReadFrameKeeps, LeavingKeeps DEF Sse!BrowserStep
    <2>4. CASE Sse!ComeBack
      BY <1>2, <2>1, <2>4, ComeBackKeeps
    <2>5. CASE Sse!Trouble
      BY <1>2, <2>1, <2>5, ServerErrorKeeps, TimeLimitKeeps, LeavingKeeps DEF Sse!Trouble
    <2> QED BY <1>2, <2>1, <2>2, <2>3, <2>4, <2>5 DEF Sse!SseNext
  <1>3. CASE UNCHANGED runVars
    <2>1. UNCHANGED vars /\ UNCHANGED sseVars
      BY <1>3 DEF runVars
    <2> QED BY <2>1, RunInvStep, RunStepKeeps
  <1> QED BY <1>1, <1>2, <1>3 DEF RunNext

LEMMA WatchAlways == RunSpec => [](RunInv /\ WatchInv)
  <1>1. RunInit => RunInv /\ WatchInv
    BY WatchInit
  <1>2. (RunInv /\ WatchInv) /\ [RunNext]_runVars => (RunInv /\ WatchInv)'
    BY WatchStep
  <1> QED BY <1>1, <1>2, PTL DEF RunSpec

\* The endpoint's cursor never passes the end of the run's stream, nor does the
\* browser's, and what the browser has on its screen are events of the stream.
THEOREM WatchTypeCorrect == RunSpec => []WatchTypeOK
  <1>1. RunInv /\ WatchInv => WatchTypeOK
    BY DEF WatchInv
  <1> QED BY <1>1, WatchAlways, PTL

\* stream_agent_run_events closes with an end frame only after it has sent
\* every event that preceded the run's terminal status: the row is read before
\* the stream, and the worker writes its end event after the commit.
THEOREM EndFrameComplete == RunSpec => []EndIsComplete
  <1>1. RunInv /\ WatchInv => EndIsComplete
    BY DEF WatchInv, ClosingInv, EndIsComplete
  <1> QED BY <1>1, WatchAlways, PTL

\* startRunStream, handleAgentResponse and resumeActiveRunForThread together:
\* however often the connection is lost, closed for its age or resumed, the
\* screen of a watched run holds each displayable event up to runLastSeq once,
\* in order.
THEOREM ScreenIsCursor == RunSpec => []ScreenMatchesCursor
  <1>1. RunInv /\ WatchInv => ScreenMatchesCursor
    BY DEF WatchInv, ScreenInv, ShownToCursor, ScreenMatchesCursor
  <1> QED BY <1>1, WatchAlways, PTL

\* The browser calls a run finished only if the row is terminal, the stream
\* holds an error event or the endpoint said that it cannot read the run.
THEOREM RunNotAbandoned == RunSpec => NeverAbandoned
  <1> DEFINE Over == \/ IsTerminal(status) \/ ServerGaveUp
                     \/ \E i \in DOMAIN events : events[i].type = "error"
  <1>1. ASSUME RunInv, WatchInv, [RunNext]_runVars, client' = "finished", client # "finished"
        PROVE  Over
    <2>1. Sse!AskRun \/ Sse!ComeBack \/ Sse!ReadFrame
      BY <1>1 DEF RunNext, runVars, sseVars, Sse!SseNext, Sse!EndpointStep, Sse!BrowserStep, Sse!Trouble,
                  Sse!ReadRow, Sse!ListEvents, Sse!Connect, Sse!ResponseOver, Sse!AskFails, Sse!ConnectionLost,
                  Sse!GoAway, Sse!ServerError, Sse!TimeLimit, Sse!clientVars
    <2>2. CASE Sse!AskRun
      BY <1>1, <2>2 DEF Sse!AskRun
    <2>3. CASE Sse!ComeBack
      BY <1>1, <2>3 DEF Sse!ComeBack
    <2>4. CASE Sse!ReadFrame
      <3>1. client = "streaming" /\ wire # <<>> /\ Sse!Closes(Head(wire))
        BY <1>1, <2>4 DEF Sse!ReadFrame, Sse!clientVars, Sse!Head1
      <3>2. 1 \in DOMAIN wire /\ wire[1] = Head(wire)
        BY <1>1, <3>1 DEF WatchInv, WatchTypeOK
      <3>3. FrameTrue(Head(wire))
        BY <1>1, <3>2 DEF WatchInv, WireInv
      <3>4. CASE Head(wire).kind = "end"
        BY <3>3, <3>4 DEF FrameTrue
      <3>5. CASE Head(wire).kind = "error" /\ Head(wire).id = 0
        BY <3>1, <3>5 DEF ServerGaveUp
      <3>6. CASE Head(wire).kind = "error" /\ Head(wire).id # 0
        <4>1. Head(wire).id \in DOMAIN events
          BY <1>1, <3>3, <3>6, BatchFacts DEF FrameTrue
        <4> QED BY <3>3, <3>6, <4>1 DEF FrameTrue
      <3> QED BY <3>1, <3>4, <3>5, <3>6 DEF Sse!Closes
    <2> QED BY <2>1, <2>2, <2>3, <2>4
  <1>2. RunInv /\ WatchInv /\ [RunNext]_runVars => [client' = "finished" /\ client # "finished" => Over]_runVars
    BY <1>1
  <1> QED BY <1>2, WatchAlways, PTL DEF RunSpec, NeverAbandoned
=============================================================================
