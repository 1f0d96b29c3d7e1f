-------------------------- MODULE ChatThreadProofs ---------------------------
(***************************************************************************)
(* Theorems about ChatThread, for every number of runs, model calls,       *)
(* streams at once and faults: its types, that an answer is stored twice   *)
(* only by two saves that overlap, that a question is answered twice only  *)
(* by two runs that overlap, that a question asked of a settled thread     *)
(* follows the answers before it, and that a run that has settled has      *)
(* stored what it read and what it made.                                   *)
(***************************************************************************)
EXTENDS ChatThread, SequenceTheorems, TLAPS

USE ChatThreadAssumption

-----------------------------------------------------------------------------
(* The operators the actions are built from *)

\* What appending one element to a sequence does, in one piece.
LEMMA AppendOne ==
    ASSUME NEW S, NEW s \in Seq(S), NEW e \in S
    PROVE  /\ Append(s, e) \in Seq(S) /\ Append(s, e) # <<>>
           /\ Len(Append(s, e)) = Len(s) + 1 /\ Last(Append(s, e)) = e
           /\ DOMAIN Append(s, e) = 1 .. Len(s) + 1
           /\ \A i \in DOMAIN s : Append(s, e)[i] = s[i]
           /\ Append(s, e)[Len(s) + 1] = e
  BY AppendProperties DEF Last

LEMMA LastType ==
    ASSUME NEW S, NEW s \in Seq(S), s # <<>>
    PROVE  Last(s) \in S /\ Len(s) \in DOMAIN s
  BY DEF Last

LEMMA MessageTypes ==
    /\ \A r \in Runs : Human(r) \in Messages
    /\ \A m \in Messages : Result(m) \in Messages
    /\ \A r \in Runs, n \in Nat, call \in Calls \union {"none"} :
           Message("ai", <<r, n>>, call) \in Messages
  BY DEF Human, Result, Message, Messages, Ids, Runs

LEMMA MessageFields ==
    \A m \in Messages : m.id \in Ids /\ m.role \in {"human", "ai", "tool"} /\ m.call \in {"none"} \union Calls
  BY DEF Messages

LEMMA PatchedType == \A ms \in Seq(Messages) : Patched(ms) \in Seq(Messages)
  BY LastType, AppendOne, MessageTypes DEF Patched, Dangling

LEMMA StartType ==
    ASSUME TypeOK, NEW r \in Runs
    PROVE  /\ Start(r) \in Seq(Messages)
           /\ kind[r] = "resume" => Start(r) = msgs
           /\ kind[r] = "chat" => Last(Start(r)) = Human(r) /\ Start(r) # <<>>
  BY PatchedType, AppendOne, MessageTypes DEF Start, TypeOK

LEMMA NoIdType == NoId \in Ids
  BY DEF NoId, Ids

\* The loop moves to a message it has to save and has not met, or to its end.
LEMMA MoveOnType ==
    ASSUME TypeOK, NEW r \in Runs, NEW n \in Nat, NEW known, MoveOn(r, n, known)
    PROVE  /\ pos' \in [Runs -> Nat]
           /\ \/ pos'[r] \in ToSave(r, known) /\ pos'[r] > n
              \/ pos'[r] = Len(held[r]) + 1
           /\ \A q \in Runs \ {r} : pos'[q] = pos[q]
           /\ ToSave(r, known) \subseteq DOMAIN held[r]
  <1> DEFINE later == {i \in ToSave(r, known) : i > n}
  <1>1. held[r] \in Seq(Messages) /\ DOMAIN held[r] = 1 .. Len(held[r]) /\ Len(held[r]) \in Nat
    BY DEF TypeOK
  <1>2. ToSave(r, known) \subseteq DOMAIN held[r]
    BY DEF ToSave
  <1>3. PICK i \in later \union {Len(held[r]) + 1} : pos' = [pos EXCEPT ![r] = i]
    BY DEF MoveOn
  <1>4. i \in Nat
    BY <1>1, <1>2
  <1> QED BY <1>1, <1>2, <1>3, <1>4 DEF TypeOK

-----------------------------------------------------------------------------
(* Types *)

LEMMA RowTypes ==
    ASSUME TypeOK, NEW r \in Runs
    PROVE  /\ Row("user", <<r, 0>>, r) \in TableRows /\ Row("partial", <<r, 0>>, r) \in TableRows
           /\ \A id \in Ids : Row("ai", id, r) \in TableRows
  <1>1. from[r] \in Nat
    BY DEF TypeOK
  <1>2. <<r, 0>> \in Ids
    BY DEF Ids, Runs
  <1> QED BY <1>1, <1>2 DEF Row, TableRows

LEMMA FaultType == ASSUME TypeOK, Fault PROVE faults' \in 0 .. MaxFaults
  BY DEF Fault, TypeOK

\* What the message in hand is, while there is one.
LEMMA CurrentType ==
    ASSUME TypeOK, NEW r \in Runs, pos[r] \in DOMAIN held[r]
    PROVE  Current(r) \in Messages /\ Current(r).id \in Ids
  <1>1. held[r] \in Seq(Messages)
    BY DEF TypeOK
  <1>2. held[r][pos[r]] \in Messages
    BY <1>1
  <1> QED BY <1>2, MessageFields DEF Current

\* A stream that may look at a message has one.
InHand == \A r \in Runs :
    /\ at[r] = "tool" => Dangling(held[r])
    /\ at[r] = "call" => pos[r] \in DOMAIN held[r]
    /\ at[r] = "store" => pos[r] \in DOMAIN held[r] \union {Len(held[r]) + 1}

LEMMA NextNodeType == \A ms : NextNode(ms) \in {"tool", "check", "model"}
  BY Zenon DEF NextNode

LEMMA TypeInit == Init => TypeOK
  <1>1. <<>> \in Seq(Messages) /\ <<>> \in Seq(TableRows)
    OBVIOUS
  <1>2. "none" \in Places
    BY DEF Places, Over
  <1> QED BY <1>1, <1>2, NoIdType DEF Init, TypeOK

LEMMA TypeStep == TypeOK /\ InHand /\ [Next]_vars => TypeOK'
  <1> SUFFICES ASSUME TypeOK, InHand, [Next]_vars PROVE TypeOK'
    OBVIOUS
  <1> USE DEF thread, tables, local, past
  <1>1. CASE UNCHANGED vars
    BY <1>1 DEF vars, TypeOK
  <1>2. ASSUME NEW r \in Runs, NEW k \in {"chat", "resume"}, Create(r, k) PROVE TypeOK'
    BY <1>2, RowTypes, AppendOne DEF Create, Goto, Places, Over, TypeOK
  <1>3. ASSUME NEW r \in Runs, Begin(r) PROVE TypeOK'
    <2>1. Start(r) \in Seq(Messages) /\ NextNode(Start(r)) \in Places
      BY StartType, NextNodeType DEF Places, Interior
    <2>2. Pending(Start(r)) => Last(Start(r)).id \in Ids
      BY <2>1, LastType, MessageFields DEF Pending, Dangling
    <2>3. resumes' \in [Runs -> Ids]
      BY <1>3, <2>2, NoIdType DEF Begin, TypeOK
    <2>4. met' \subseteq SUBSET Runs
      <3>1. \A q \in InGraph : {r, q} \in SUBSET Runs
        BY DEF InGraph
      <3>2. met \subseteq SUBSET Runs
        BY DEF TypeOK
      <3> QED BY <1>3, <3>1, <3>2 DEF Begin
    <2> QED BY <1>3, <2>1, <2>3, <2>4 DEF Begin, Extend, Goto, TypeOK
  <1>4. ASSUME NEW r \in Runs, NEW call \in Calls \union {"none"}, ModelCalls(r, call) PROVE TypeOK'
    <2>1. made' \in [Runs -> Nat] /\ made'[r] \in Nat
      BY <1>4 DEF ModelCalls, TypeOK
    <2>2. Append(held[r], Message("ai", <<r, made'[r]>>, call)) \in Seq(Messages)
      BY <2>1, MessageTypes, AppendOne DEF TypeOK
    <2> QED BY <1>4, <2>1, <2>2 DEF ModelCalls, Extend, Goto, Places, Interior, TypeOK
  <1>5. ASSUME NEW r \in Runs, ToolRuns(r) PROVE TypeOK'
    <2>1. Last(held[r]) \in Messages
      BY <1>5, LastType DEF ToolRuns, InHand, Dangling, TypeOK
    <2>2. Last(held[r]).id \in Ids /\ Append(held[r], Result(Last(held[r]))) \in Seq(Messages)
      BY <2>1, MessageTypes, AppendOne DEF TypeOK, Messages
    <2> QED BY <1>5, <2>2 DEF ToolRuns, Extend, Goto, Places, Interior, TypeOK
  <1>6. ASSUME NEW r \in Runs, ToolAsks(r) PROVE TypeOK'
    <2>1. held[r] \in Seq(Messages) /\ held[r] # <<>>
      BY <1>6 DEF ToolAsks, InHand, Dangling, TypeOK
    <2>2. Last(held[r]).id \in Ids
      BY <2>1, LastType, MessageFields
    <2> QED BY <1>6, <2>2 DEF ToolAsks, Goto, Places, Interior, TypeOK
  <1>7. ASSUME NEW r \in Runs, CheckInterrupts(r) PROVE TypeOK'
    <2>1. told' \in [Runs -> SUBSET {"asked", "warning", "finished", "interrupted", "error"}]
      BY <1>7 DEF CheckInterrupts, Tell, TypeOK
    <2>2. at' \in [Runs -> Places]
      BY <1>7 DEF CheckInterrupts, Goto, AfterQuestion, Places, Interior, TypeOK
    <2>3. faults' \in 0 .. MaxFaults
      BY <1>7, FaultType DEF CheckInterrupts, TypeOK
    <2> QED BY <1>7, <2>1, <2>2, <2>3 DEF CheckInterrupts, TypeOK
  <1>8. ASSUME NEW r \in Runs, ReadMessages(r) PROVE TypeOK'
    BY <1>8 DEF ReadMessages, Goto, Places, Interior, TypeOK
  <1>9. ASSUME NEW r \in Runs, ReadIds(r) PROVE TypeOK'
    <2>1. pos' \in [Runs -> Nat]
      BY <1>9, MoveOnType DEF ReadIds
    <2>2. Len(rows) \in Nat
      BY DEF TypeOK
    <2> QED BY <1>9, <2>1, <2>2 DEF ReadIds, Goto, Places, Interior, TypeOK
  <1>10. ASSUME NEW r \in Runs, SaveAiMessage(r) PROVE TypeOK'
    <2>1. Row("ai", Current(r).id, r) \in TableRows
      <3>1. pos[r] \in DOMAIN held[r]
        BY <1>10 DEF SaveAiMessage, Saving, InHand, TypeOK
      <3> QED BY <3>1, CurrentType, RowTypes
    <2>2. rows' \in Seq(TableRows)
      BY <1>10, <2>1, AppendOne DEF SaveAiMessage, TypeOK
    <2>3. pos' \in [Runs -> Nat]
      <3>1. pos[r] \in Nat
        BY DEF TypeOK
      <3> QED BY <1>10, <3>1, MoveOnType DEF SaveAiMessage, NextMessage, TypeOK
    <2>4. at' \in [Runs -> Places]
      BY <1>10 DEF SaveAiMessage, Goto, Places, Interior, TypeOK
    <2> QED BY <1>10, <2>2, <2>3, <2>4 DEF SaveAiMessage, TypeOK
  <1>11. ASSUME NEW r \in Runs, AddToolCall(r) PROVE TypeOK'
    <2>1. Current(r).id \in Ids
      BY <1>11, CurrentType DEF AddToolCall, InHand
    <2>2. pos' \in [Runs -> Nat]
      <3>1. pos[r] \in Nat
        BY DEF TypeOK
      <3> QED BY <1>11, <3>1, MoveOnType DEF AddToolCall, NextMessage
    <2> QED BY <1>11, <2>1, <2>2 DEF AddToolCall, Goto, Places, Interior, TypeOK
  <1>12. ASSUME NEW r \in Runs, SaveToolMessage(r) PROVE TypeOK'
    <2>1. Current(r).id \in Ids
      BY <1>12, CurrentType DEF SaveToolMessage, Saving, InHand, TypeOK
    <2>2. pos' \in [Runs -> Nat]
      <3>1. pos[r] \in Nat
        BY DEF TypeOK
      <3> QED BY <1>12, <3>1, MoveOnType DEF SaveToolMessage, NextMessage
    <2> QED BY <1>12, <2>1, <2>2 DEF SaveToolMessage, TypeOK
  <1>13. ASSUME NEW r \in Runs, Tear(r) PROVE torn' \subseteq Ids
    BY <1>13, CurrentType DEF Tear, InHand, TypeOK
  <1>14. ASSUME NEW r \in Runs, SaveFails(r) PROVE TypeOK'
    <2>1. torn' \subseteq Ids
      BY <1>13, <1>14 DEF SaveFails
    <2>2. Len(held[r]) + 1 \in Nat
      BY DEF TypeOK
    <2> QED BY <1>14, <2>1, <2>2, FaultType DEF SaveFails, Goto, Tell, Places, Interior, TypeOK
  <1>15. ASSUME NEW r \in Runs, Finish(r) PROVE TypeOK'
    <2>1. told' \in [Runs -> SUBSET {"asked", "warning", "finished", "interrupted", "error"}]
      <3>1. told \in [Runs -> SUBSET {"asked", "warning", "finished", "interrupted", "error"}]
        BY DEF TypeOK
      <3>2. told' = told \/ told' = [told EXCEPT ![r] = @ \union {"finished"}]
        BY <1>15 DEF Finish, Tell
      <3> QED BY <3>1, <3>2
    <2>2. at' \in [Runs -> Places]
      BY <1>15 DEF Finish, Goto, Places, Over, TypeOK
    <2> QED BY <1>15, <2>1, <2>2, NoIdType DEF Finish, TypeOK
  <1>16. ASSUME NEW r \in Runs, NEW where \in Places, Stop(r, where)
         PROVE  /\ at' \in [Runs -> Places] /\ held' \in [Runs -> Seq(Messages)] /\ resumes' \in [Runs -> Ids]
                /\ pos' \in [Runs -> Nat] /\ from' \in [Runs -> Nat] /\ kind' = kind /\ made' = made
    <2>1. <<>> \in Seq(Messages)
      OBVIOUS
    <2> QED BY <1>16, <2>1, NoIdType DEF Stop, Goto, TypeOK
  <1>17. {"blocked", "failed", "lost", "cut", "dead", "ended", "queued"} \subseteq Places
    BY DEF Places, Over, Handlers
  <1>18. ASSUME NEW r \in Runs, Blocked(r) \/ GraphFails(r) \/ Abandon(r) PROVE TypeOK'
    BY <1>16, <1>17, <1>18, FaultType DEF Blocked, GraphFails, Abandon, TypeOK
  <1>19. ASSUME NEW r \in Runs, Cut(r) \/ Die(r) PROVE TypeOK'
    BY <1>13, <1>16, <1>17, <1>19, FaultType DEF Cut, Die, TypeOK
  <1>20. ASSUME NEW r \in Runs, SavePartial(r) PROVE TypeOK'
    <2>1. rows' \in Seq(TableRows)
      <3>1. rows \in Seq(TableRows)
        BY DEF TypeOK
      <3>2. Append(rows, Row("partial", <<r, 0>>, r)) \in Seq(TableRows)
        BY <3>1, RowTypes, AppendOne
      <3> QED BY <1>20, <3>1, <3>2 DEF SavePartial
    <2>2. told' \in [Runs -> SUBSET {"asked", "warning", "finished", "interrupted", "error"}]
      BY <1>20 DEF SavePartial, TypeOK
    <2> QED BY <1>17, <1>20, <2>1, <2>2 DEF SavePartial, Goto, TypeOK
  <1>21. ASSUME NEW r \in Runs, CutAgain(r) \/ Requeue(r) PROVE TypeOK'
    <2>1. at' \in [Runs -> Places]
      <3>1. \E where \in {"ended", "cut", "queued"} : at' = [at EXCEPT ![r] = where]
        BY <1>21 DEF CutAgain, Requeue, Goto
      <3>2. at \in [Runs -> Places]
        BY DEF TypeOK
      <3> QED BY <1>17, <3>1, <3>2
    <2>2. told' \in [Runs -> SUBSET {"asked", "warning", "finished", "interrupted", "error"}]
      BY <1>21 DEF CutAgain, Requeue, TypeOK
    <2> QED BY <1>21, <2>1, <2>2 DEF CutAgain, Requeue, TypeOK
  <1>22. ASSUME NEW r \in Runs, Refused(r) PROVE TypeOK'
    <2>1. told' \in [Runs -> SUBSET {"asked", "warning", "finished", "interrupted", "error"}]
      BY <1>22 DEF Refused, Tell, TypeOK
    <2> QED BY <1>17, <1>22, <2>1, FaultType DEF Refused, Goto, TypeOK
  <1> QED BY <1>1, <1>2, <1>3, <1>4, <1>5, <1>6, <1>7, <1>8, <1>9, <1>10, <1>11, <1>12, <1>14, <1>15,
             <1>18, <1>19, <1>20, <1>21, <1>22 DEF Next

-----------------------------------------------------------------------------
(* What a step of one run touches *)

Step(r) ==
    \/ \E k \in {"chat", "resume"} : Create(r, k)
    \/ Begin(r)
    \/ \E call \in Calls \union {"none"} : ModelCalls(r, call)
    \/ ToolRuns(r) \/ ToolAsks(r)
    \/ CheckInterrupts(r) \/ ReadMessages(r) \/ ReadIds(r)
    \/ SaveAiMessage(r) \/ AddToolCall(r) \/ SaveToolMessage(r)
    \/ SaveFails(r) \/ Finish(r)
    \/ Refused(r) \/ Blocked(r) \/ GraphFails(r) \/ Cut(r) \/ SavePartial(r) \/ CutAgain(r)
    \/ Abandon(r) \/ Die(r) \/ Requeue(r)

LEMMA NextIsStep == Next <=> \E r \in Runs : Step(r)
  BY DEF Next, Step

Stops(r) == \E where \in {"blocked", "failed", "lost", "cut", "dead", "ended"} :
                /\ Stop(r, where)
                /\ UNCHANGED <<msgs, asked, rows, recorded, outputs, told, ran, met, calm>>

LEMMA StopsActions ==
    ASSUME NEW r, Blocked(r) \/ GraphFails(r) \/ Cut(r) \/ Abandon(r) \/ Die(r)
    PROVE  Stops(r)
  BY Zenon DEF Stops, Blocked, GraphFails, Cut, Abandon, Die, thread, tables, past

Saves(r) == SaveAiMessage(r) \/ AddToolCall(r) \/ SaveToolMessage(r)

\* The steps that leave a run's messages and its save alone.
Light(r) ==
    /\ \E where \in {"queued", "check", "read", "done", "cut", "ended"} : at' = [at EXCEPT ![r] = where]
    /\ UNCHANGED <<msgs, held, made, ran, met>>
    /\ pos' = pos \/ pos' = [pos EXCEPT ![r] = 0]
    /\ from' = from \/ from' = [from EXCEPT ![r] = 0]
    /\ \/ rows' = rows
       \/ \E role \in {"user", "partial"} : rows' = Append(rows, Row(role, <<r, 0>>, r))

LEMMA LightActions ==
    ASSUME NEW r, \/ \E k \in {"chat", "resume"} : Create(r, k)
                  \/ ToolAsks(r) \/ CheckInterrupts(r) \/ Finish(r) \/ Refused(r)
                  \/ SavePartial(r) \/ CutAgain(r) \/ Requeue(r)
    PROVE  Light(r)
  <1> USE DEF thread, tables, local, past, Goto
  <1>1. CASE \E k \in {"chat", "resume"} : Create(r, k)
    BY <1>1, Zenon DEF Create, Light
  <1>2. CASE ToolAsks(r)
    BY <1>2, Zenon DEF ToolAsks, Light
  <1>3. CASE CheckInterrupts(r)
    BY <1>3, Zenon DEF CheckInterrupts, AfterQuestion, Light
  <1>4. CASE Finish(r)
    BY <1>4, Zenon DEF Finish, Light
  <1>5. CASE SavePartial(r)
    BY <1>5, Zenon DEF SavePartial, Light
  <1>6. CASE CutAgain(r)
    BY <1>6, Zenon DEF CutAgain, Light
  <1>7. CASE Requeue(r)
    BY <1>7, Zenon DEF Requeue, Light
  <1>8. CASE Refused(r)
    BY <1>8, Zenon DEF Refused, Light
  <1> QED BY <1>1, <1>2, <1>3, <1>4, <1>5, <1>6, <1>7, <1>8

LEMMA StepCases ==
    ASSUME NEW r, Step(r)
    PROVE  \/ Light(r) \/ Stops(r) \/ Begin(r)
           \/ \E call \in Calls \union {"none"} : ModelCalls(r, call)
           \/ ToolRuns(r) \/ ReadMessages(r) \/ ReadIds(r) \/ Saves(r) \/ SaveFails(r)
  BY LightActions, StopsActions, Zenon DEF Step, Saves

-----------------------------------------------------------------------------
(* Messages: an AI message is made once and called once *)

KnownIn(ms, mk) ==
    /\ \A i \in DOMAIN ms : ms[i].call # "none" => ms[i].role = "ai"
    /\ \A i \in DOMAIN ms : ms[i].role = "ai" => ms[i].id[1] \in Runs /\ ms[i].id[2] <= mk[ms[i].id[1]]
    /\ \A i, j \in DOMAIN ms : ms[i].role = "ai" /\ ms[j].role = "ai" /\ ms[i].id = ms[j].id => i = j

MessagesKnown == KnownIn(msgs, made) /\ \A r \in Runs : KnownIn(held[r], made)

LEMMA KnownAppend ==
    ASSUME NEW ms \in Seq(Messages), NEW mk, KnownIn(ms, mk), NEW m \in Messages,
           m.call # "none" => m.role = "ai",
           m.role = "ai" => /\ m.id[1] \in Runs /\ m.id[2] <= mk[m.id[1]]
                            /\ \A i \in DOMAIN ms : ms[i].role = "ai" => ms[i].id # m.id
    PROVE  KnownIn(Append(ms, m), mk)
  <1> DEFINE new == Append(ms, m)
  <1>1. DOMAIN new = 1 .. Len(ms) + 1 /\ (\A i \in DOMAIN ms : new[i] = ms[i]) /\ new[Len(ms) + 1] = m
    BY AppendOne
  <1>2. \A i \in DOMAIN new : i \in DOMAIN ms \/ i = Len(ms) + 1
    BY <1>1
  <1> HIDE DEF new
  <1> QED BY <1>1, <1>2 DEF KnownIn

LEMMA KnownMore ==
    ASSUME NEW ms \in Seq(Messages), NEW mk \in [Runs -> Nat], NEW mk2 \in [Runs -> Nat],
           KnownIn(ms, mk), \A r \in Runs : mk[r] <= mk2[r]
    PROVE  KnownIn(ms, mk2)
  <1>1. \A i \in DOMAIN ms : ms[i].id[2] \in Nat
    <2>1. \A i \in DOMAIN ms : ms[i] \in Messages
      OBVIOUS
    <2> QED BY <2>1, MessageFields DEF Ids
  <1>2. ASSUME NEW i \in DOMAIN ms, ms[i].role = "ai"
        PROVE  ms[i].id[1] \in Runs /\ ms[i].id[2] <= mk2[ms[i].id[1]]
    BY <1>1, <1>2 DEF KnownIn
  <1> QED BY <1>2 DEF KnownIn

LEMMA KnownEmpty == \A mk : KnownIn(<<>>, mk)
  BY DEF KnownIn

LEMMA KnownStart ==
    ASSUME TypeOK, MessagesKnown, NEW r \in Runs
    PROVE  KnownIn(Start(r), made)
  <1>1. msgs \in Seq(Messages) /\ KnownIn(msgs, made)
    BY DEF TypeOK, MessagesKnown
  <1>2. CASE kind[r] # "chat"
    BY <1>1, <1>2 DEF Start
  <1>3. CASE kind[r] = "chat"
    <2>1. KnownIn(Patched(msgs), made)
      <3>1. CASE ~Dangling(msgs)
        BY <1>1, <3>1 DEF Patched
      <3>2. CASE Dangling(msgs)
        <4>1. Last(msgs) \in Messages
          BY <1>1, <3>2, LastType DEF Dangling
        <4>2. Result(Last(msgs)) \in Messages
          BY <4>1, MessageTypes
        <4>3. Result(Last(msgs)).role = "tool" /\ Result(Last(msgs)).call = "none"
          BY DEF Result, Message
        <4> QED BY <1>1, <3>2, <4>2, <4>3, KnownAppend DEF Patched
      <3> QED BY <3>1, <3>2
    <2>2. Human(r).role = "human" /\ Human(r).call = "none"
      BY DEF Human, Message
    <2> QED BY <1>1, <1>3, <2>1, <2>2, PatchedType, MessageTypes, KnownAppend DEF Start
  <1> QED BY <1>2, <1>3

LEMMA MessagesKnownStep ==
    ASSUME TypeOK, TypeOK', InHand, MessagesKnown, NEW r \in Runs, Step(r)
    PROVE  MessagesKnown'
  <1>0. /\ msgs \in Seq(Messages) /\ held \in [Runs -> Seq(Messages)]
        /\ made \in [Runs -> Nat] /\ made' \in [Runs -> Nat]
    BY DEF TypeOK
  <1>1. CASE UNCHANGED <<msgs, held, made>>
    BY <1>1 DEF MessagesKnown
  <1>2. ASSUME NEW ms, KnownIn(ms, made), made' = made, held' = [held EXCEPT ![r] = ms], msgs' \in {ms, msgs}
        PROVE  MessagesKnown'
    BY <1>0, <1>2 DEF MessagesKnown
  <1>3. CASE Stops(r)
    BY <1>2, <1>3, KnownEmpty DEF Stops, Stop
  <1>4. CASE Begin(r)
    BY <1>2, <1>4, KnownStart DEF Begin, Extend
  <1>5. ASSUME NEW call \in Calls \union {"none"}, ModelCalls(r, call) PROVE MessagesKnown'
    <2> DEFINE m == Message("ai", <<r, made'[r]>>, call)
    <2>1. made'[r] = made[r] + 1 /\ \A q \in Runs : made[q] <= made'[q]
      BY <1>0, <1>5 DEF ModelCalls
    <2>2. KnownIn(msgs, made') /\ \A q \in Runs : KnownIn(held[q], made')
      BY <1>0, <2>1, KnownMore DEF MessagesKnown
    <2>3. m \in Messages /\ m.role = "ai" /\ m.id[1] = r /\ m.id[2] = made'[r]
      BY <1>0, MessageTypes DEF Message
    <2>4. \A i \in DOMAIN held[r] : held[r][i].role = "ai" => held[r][i].id # m.id
      <3> SUFFICES ASSUME NEW i \in DOMAIN held[r], held[r][i].role = "ai", held[r][i].id = m.id PROVE FALSE
        OBVIOUS
      <3>1. held[r][i].id[1] = r /\ held[r][i].id[2] = made[r] + 1
        BY <2>1, <2>3
      <3>2. held[r][i].id[2] <= made[r]
        BY <3>1 DEF MessagesKnown, KnownIn
      <3> QED BY <1>0, <3>1, <3>2
    <2>5. made'[r] <= made'[r]
      BY <1>0
    <2>6. KnownIn(Append(held[r], m), made')
      <3> HIDE DEF m
      <3>1. held[r] \in Seq(Messages) /\ KnownIn(held[r], made')
        BY <1>0, <2>2
      <3>2. m.id[1] \in Runs /\ m.id[2] <= made'[m.id[1]]
        BY <2>3, <2>5
      <3> QED BY <3>1, <3>2, <2>3, <2>4, KnownAppend
    <2>7. held' = [held EXCEPT ![r] = Append(held[r], m)] /\ msgs' = Append(held[r], m)
      BY <1>5 DEF ModelCalls, Extend
    <2> QED BY <1>0, <2>2, <2>6, <2>7 DEF MessagesKnown
  <1>6. CASE ToolRuns(r)
    <2>1. held[r] # <<>> /\ held[r] \in Seq(Messages) /\ KnownIn(held[r], made)
      BY <1>0, <1>6 DEF ToolRuns, InHand, Dangling, MessagesKnown
    <2>2. Result(Last(held[r])) \in Messages
      BY <2>1, LastType, MessageTypes
    <2>3. Result(Last(held[r])).role = "tool" /\ Result(Last(held[r])).call = "none"
      BY DEF Result, Message
    <2>4. KnownIn(Append(held[r], Result(Last(held[r]))), made)
      BY <2>1, <2>2, <2>3, KnownAppend
    <2> QED BY <1>2, <1>6, <2>4 DEF ToolRuns, Extend
  <1>7. CASE ReadMessages(r)
    BY <1>2, <1>7 DEF ReadMessages, MessagesKnown, thread
  <1>8. CASE Light(r)
    BY <1>1, <1>8 DEF Light
  <1>9. CASE ReadIds(r) \/ Saves(r) \/ SaveFails(r)
    BY <1>1, <1>9 DEF ReadIds, Saves, SaveAiMessage, AddToolCall, SaveToolMessage, SaveFails, thread
  <1> QED BY <1>3, <1>4, <1>5, <1>6, <1>7, <1>8, <1>9, StepCases

-----------------------------------------------------------------------------
(* The save: what a run still has to store was not there when it looked *)

SaveSound == \A r \in Runs :
    /\ from[r] <= Len(rows)
    /\ at[r] = "call" => pos[r] \in ToSave(r, ExistingIds(from[r]))
    /\ at[r] = "store" => pos[r] \in ToSave(r, ExistingIds(from[r])) \union {Len(held[r]) + 1}

\* The rows a run has written since it looked are of messages behind its position.
OwnRows == \A r \in Runs :
    at[r] \in {"store", "call"} /\ pos[r] <= Len(held[r]) =>
        \A i \in DOMAIN rows : AiRow(i) /\ rows[i].by = r /\ i > from[r] =>
            \E k \in DOMAIN held[r] : /\ held[r][k].role = "ai" /\ held[r][k].id = rows[i].id
                                      /\ k < pos[r] \/ (k = pos[r] /\ at[r] = "call")

SaveInv == SaveSound /\ OwnRows /\ StoredOnce

LEMMA RowsGrow ==
    ASSUME TypeOK, InHand, NEW r \in Runs, Step(r)
    PROVE  \/ rows' = rows
           \/ \E e \in TableRows :
                  /\ rows' = Append(rows, e) /\ e.by = r
                  /\ e.role = "ai" => /\ SaveAiMessage(r)
                                      /\ e.id = Current(r).id /\ e.from = from[r]
  <1>1. CASE Light(r)
    <2>1. ASSUME NEW role \in {"user", "partial"}
          PROVE  /\ Row(role, <<r, 0>>, r) \in TableRows
                 /\ Row(role, <<r, 0>>, r).by = r /\ Row(role, <<r, 0>>, r).role # "ai"
      BY RowTypes DEF Row
    <2> QED BY <1>1, <2>1 DEF Light
  <1>2. CASE SaveAiMessage(r)
    <2>1. pos[r] \in DOMAIN held[r]
      BY <1>2 DEF SaveAiMessage, Saving, InHand, TypeOK
    <2>2. Row("ai", Current(r).id, r) \in TableRows
      BY <2>1, CurrentType, RowTypes
    <2>3. /\ Row("ai", Current(r).id, r).by = r /\ Row("ai", Current(r).id, r).id = Current(r).id
          /\ Row("ai", Current(r).id, r).from = from[r]
      BY DEF Row
    <2> QED BY <1>2, <2>2, <2>3 DEF SaveAiMessage
  <1>3. CASE Stops(r) \/ Begin(r) \/ ToolRuns(r) \/ ReadMessages(r) \/ ReadIds(r) \/ SaveFails(r)
    BY <1>3 DEF Stops, Begin, ToolRuns, ReadMessages, ReadIds, SaveFails, tables
  <1>4. CASE AddToolCall(r) \/ SaveToolMessage(r)
    BY <1>4 DEF AddToolCall, SaveToolMessage
  <1>5. CASE \E call \in Calls \union {"none"} : ModelCalls(r, call)
    BY <1>5 DEF ModelCalls, tables
  <1> QED BY <1>1, <1>2, <1>3, <1>4, <1>5, StepCases DEF Saves

\* The first n rows are the same after the step, and so are their ids.
LEMMA RowsKept ==
    ASSUME TypeOK, InHand, NEW r \in Runs, Step(r)
    PROVE  /\ Len(rows) \in Nat /\ Len(rows) <= Len(rows') /\ Len(rows') \in Nat
           /\ \A i \in DOMAIN rows : i \in DOMAIN rows' /\ rows'[i] = rows[i]
           /\ \A n \in Nat : n <= Len(rows) => ExistingIds(n)' = ExistingIds(n)
  <1>1. rows \in Seq(TableRows) /\ Len(rows) \in Nat /\ DOMAIN rows = 1 .. Len(rows)
    BY DEF TypeOK
  <1>2. /\ Len(rows) <= Len(rows') /\ Len(rows') \in Nat
        /\ \A i \in DOMAIN rows : i \in DOMAIN rows' /\ rows'[i] = rows[i]
    <2>1. CASE rows' = rows
      BY <1>1, <2>1
    <2>2. ASSUME NEW e \in TableRows, rows' = Append(rows, e)
          PROVE  /\ Len(rows) <= Len(rows') /\ Len(rows') \in Nat
                 /\ \A i \in DOMAIN rows : i \in DOMAIN rows' /\ rows'[i] = rows[i]
      BY <1>1, <2>2, AppendOne
    <2> QED BY <2>1, <2>2, RowsGrow
  <1>3. ASSUME NEW n \in Nat, n <= Len(rows) PROVE ExistingIds(n)' = ExistingIds(n)
    <2>1. \A i \in 1 .. n : rows'[i] = rows[i]
      BY <1>1, <1>2, <1>3
    <2> QED BY <2>1 DEF ExistingIds
  <1> QED BY <1>1, <1>2, <1>3

LEMMA OthersKept ==
    ASSUME TypeOK, NEW r \in Runs, Step(r), NEW q \in Runs, q # r
    PROVE  at'[q] = at[q] /\ held'[q] = held[q] /\ pos'[q] = pos[q] /\ from'[q] = from[q]
  <1>0. /\ at \in [Runs -> Places] /\ held \in [Runs -> Seq(Messages)]
        /\ pos \in [Runs -> Nat] /\ from \in [Runs -> Nat] /\ Len(rows) \in Nat
    BY DEF TypeOK
  <1> USE DEF thread, tables, local, past, Goto
  <1>1. CASE Light(r)
    BY <1>0, <1>1 DEF Light
  <1>2. CASE Stops(r)
    BY <1>0, <1>2 DEF Stops, Stop
  <1>3. CASE Begin(r) \/ ToolRuns(r)
    BY <1>0, <1>3 DEF Begin, ToolRuns, Extend
  <1>4. CASE \E call \in Calls \union {"none"} : ModelCalls(r, call)
    BY <1>0, <1>4 DEF ModelCalls, Extend
  <1>5. CASE ReadMessages(r) \/ SaveFails(r)
    BY <1>0, <1>5 DEF ReadMessages, SaveFails
  <1>6. CASE ReadIds(r)
    BY <1>0, <1>6, MoveOnType DEF ReadIds
  <1>7. CASE Saves(r)
    <2>1. MoveOn(r, pos[r], ExistingIds(from[r])) \/ pos' = pos
      BY <1>7 DEF Saves, SaveAiMessage, AddToolCall, SaveToolMessage, NextMessage
    <2>2. pos'[q] = pos[q]
      BY <1>0, <2>1, MoveOnType
    <2> QED BY <1>0, <1>7, <2>2 DEF Saves, SaveAiMessage, AddToolCall, SaveToolMessage
  <1> QED BY <1>1, <1>2, <1>3, <1>4, <1>5, <1>6, <1>7, StepCases

\* A run that goes on saving keeps the messages it read and what it knew, and
\* its next position is one of those it has to store.
LEMMA GoesOn ==
    ASSUME TypeOK, InHand, SaveSound, NEW r \in Runs, Saves(r)
    PROVE  /\ held' = held /\ from' = from
           /\ at[r] \in {"store", "call"} /\ pos[r] \in ToSave(r, ExistingIds(from[r]))
           /\ \/ /\ at'[r] = "store"
                 /\ pos'[r] \in ToSave(r, ExistingIds(from[r])) /\ pos'[r] > pos[r]
              \/ at'[r] = "store" /\ pos'[r] = Len(held[r]) + 1
              \/ at'[r] = "call" /\ at[r] = "store" /\ pos'[r] = pos[r] /\ SaveAiMessage(r)
  <1>0. at \in [Runs -> Places] /\ pos[r] \in Nat /\ Len(held[r]) \in Nat
    BY DEF TypeOK
  <1>1. held' = held /\ from' = from /\ at[r] \in {"store", "call"}
    BY DEF Saves, SaveAiMessage, AddToolCall, SaveToolMessage, Saving
  <1>2. pos[r] \in ToSave(r, ExistingIds(from[r]))
    <2>1. CASE at[r] = "call"
      BY <2>1 DEF SaveSound
    <2>2. CASE at[r] = "store"
      <3>1. pos[r] <= Len(held[r])
        BY <2>2 DEF Saves, SaveAiMessage, AddToolCall, SaveToolMessage, Saving
      <3>2. pos[r] # Len(held[r]) + 1
        BY <1>0, <3>1
      <3> QED BY <2>2, <3>2 DEF SaveSound
    <2> QED BY <1>1, <2>1, <2>2
  <1>3. ASSUME MoveOn(r, pos[r], ExistingIds(from[r]))
        PROVE  \/ pos'[r] \in ToSave(r, ExistingIds(from[r])) /\ pos'[r] > pos[r]
               \/ pos'[r] = Len(held[r]) + 1
    BY <1>0, <1>3, MoveOnType
  <1>4. CASE SaveAiMessage(r)
    BY <1>0, <1>1, <1>2, <1>3, <1>4 DEF SaveAiMessage, Saving, NextMessage, Goto
  <1>5. CASE AddToolCall(r)
    BY <1>0, <1>1, <1>2, <1>3, <1>5 DEF AddToolCall, NextMessage, Goto
  <1>6. CASE SaveToolMessage(r)
    BY <1>0, <1>1, <1>2, <1>3, <1>6 DEF SaveToolMessage, Saving, NextMessage
  <1> QED BY <1>4, <1>5, <1>6 DEF Saves

\* Steps that are no save leave the run outside it, at its end, or before its
\* first message.
LEMMA NoSave ==
    ASSUME TypeOK, NEW r \in Runs, Step(r), ~Saves(r), at'[r] \in {"store", "call"}
    PROVE  /\ at'[r] = "store" /\ held' = held
           /\ \/ pos'[r] = Len(held[r]) + 1 /\ from' = from
              \/ /\ pos'[r] \in ToSave(r, ExistingIds(Len(rows))) \union {Len(held[r]) + 1}
                 /\ from'[r] = Len(rows) /\ rows' = rows
  <1>0. at \in [Runs -> Places] /\ pos \in [Runs -> Nat] /\ from \in [Runs -> Nat]
    BY DEF TypeOK
  <1>1. CASE Light(r)
    BY <1>0, <1>1 DEF Light
  <1>2. CASE Stops(r)
    BY <1>0, <1>2 DEF Stops, Stop, Goto
  <1>3. CASE Begin(r)
    BY <1>0, <1>3, NextNodeType DEF Begin, Goto
  <1>4. CASE \E call \in Calls \union {"none"} : ModelCalls(r, call)
    BY <1>0, <1>4 DEF ModelCalls, Goto
  <1>5. CASE ToolRuns(r) \/ ReadMessages(r)
    BY <1>0, <1>5 DEF ToolRuns, ReadMessages, Goto
  <1>6. CASE SaveFails(r)
    BY <1>0, <1>6 DEF SaveFails, Goto
  <1>7. CASE ReadIds(r)
    BY <1>0, <1>7, MoveOnType DEF ReadIds, Goto, tables
  <1> QED BY <1>1, <1>2, <1>3, <1>4, <1>5, <1>6, <1>7, StepCases

LEMMA FromBounded ==
    ASSUME TypeOK, InHand, SaveSound, NEW r \in Runs, Step(r)
    PROVE  \A q \in Runs : from'[q] <= Len(rows')
  <1>0. from \in [Runs -> Nat] /\ Len(rows) \in Nat /\ Len(rows) <= Len(rows') /\ Len(rows') \in Nat
    BY RowsKept DEF TypeOK
  <1>1. from' = from \/ from' = [from EXCEPT ![r] = 0] \/ from' = [from EXCEPT ![r] = Len(rows)]
    <2>1. CASE Light(r)
      BY <2>1 DEF Light
    <2>2. CASE Stops(r)
      BY <2>2 DEF Stops, Stop
    <2>3. CASE Begin(r) \/ ToolRuns(r) \/ ReadMessages(r) \/ ReadIds(r) \/ SaveFails(r) \/ Saves(r)
      BY <2>3 DEF Begin, ToolRuns, ReadMessages, ReadIds, SaveFails, Saves,
                  SaveAiMessage, AddToolCall, SaveToolMessage
    <2>4. CASE \E call \in Calls \union {"none"} : ModelCalls(r, call)
      BY <2>4 DEF ModelCalls
    <2> QED BY <2>1, <2>2, <2>3, <2>4, StepCases
  <1> QED BY <1>0, <1>1 DEF SaveSound

LEMMA SaveSoundStep ==
    ASSUME TypeOK, InHand, SaveSound, NEW r \in Runs, Step(r)
    PROVE  SaveSound'
  <1> DEFINE Position(q) == /\ at[q] = "call" => pos[q] \in ToSave(q, ExistingIds(from[q]))
                            /\ at[q] = "store" => pos[q] \in ToSave(q, ExistingIds(from[q])) \union {Len(held[q]) + 1}
  <1>0. \A q \in Runs : from[q] \in Nat /\ from[q] <= Len(rows)
    BY DEF SaveSound, TypeOK
  <1>1. ASSUME NEW q \in Runs, q # r PROVE Position(q)'
    <2>1. at'[q] = at[q] /\ held'[q] = held[q] /\ pos'[q] = pos[q] /\ from'[q] = from[q]
      BY <1>1, OthersKept
    <2>2. ToSave(q, ExistingIds(from[q]))' = ToSave(q, ExistingIds(from[q]))
      BY <1>0, <2>1, RowsKept DEF ToSave
    <2> QED BY <2>1, <2>2 DEF SaveSound
  <1>2. Position(r)'
    <2>1. CASE Saves(r)
      <3>1. held' = held /\ from' = from
        BY <2>1, GoesOn
      <3>2. ToSave(r, ExistingIds(from[r]))' = ToSave(r, ExistingIds(from[r]))
        BY <1>0, <3>1, RowsKept DEF ToSave
      <3> QED BY <2>1, <3>1, <3>2, GoesOn
    <2>2. CASE ~Saves(r) /\ at'[r] \in {"store", "call"}
      <3>1. at'[r] = "store" /\ held' = held
        BY <2>2, NoSave
      <3>2. CASE pos'[r] = Len(held[r]) + 1
        BY <3>1, <3>2
      <3>3. CASE pos'[r] \in ToSave(r, ExistingIds(Len(rows))) /\ from'[r] = Len(rows) /\ rows' = rows
        BY <3>1, <3>3 DEF ToSave, ExistingIds
      <3> QED BY <2>2, <3>2, <3>3, NoSave
    <2>3. CASE at'[r] \notin {"store", "call"}
      BY <2>3
    <2> QED BY <2>1, <2>2, <2>3
  <1> QED BY <1>1, <1>2, FromBounded DEF SaveSound

LEMMA OwnRowsStep ==
    ASSUME TypeOK, InHand, SaveSound, OwnRows, NEW r \in Runs, Step(r)
    PROVE  OwnRows'
  <1> SUFFICES ASSUME NEW q \in Runs, at'[q] \in {"store", "call"}, pos'[q] <= Len(held'[q]),
                      NEW i \in DOMAIN rows', AiRow(i)', rows'[i].by = q, i > from'[q]
               PROVE  \E k \in DOMAIN held'[q] : /\ held'[q][k].role = "ai" /\ held'[q][k].id = rows'[i].id
                                                 /\ k < pos'[q] \/ (k = pos'[q] /\ at'[q] = "call")
    BY DEF OwnRows
  <1>0. /\ rows \in Seq(TableRows) /\ DOMAIN rows = 1 .. Len(rows) /\ Len(rows) \in Nat
        /\ pos[q] \in Nat /\ Len(held[q]) \in Nat /\ from[q] \in Nat /\ DOMAIN held[q] = 1 .. Len(held[q])
    BY DEF TypeOK
  <1>1. \/ i \in DOMAIN rows /\ rows'[i] = rows[i]
        \/ /\ i = Len(rows) + 1 /\ q = r /\ SaveAiMessage(r)
           /\ rows'[i].id = Current(r).id /\ i \notin DOMAIN rows
    <2>1. CASE rows' = rows
      BY <2>1
    <2>2. ASSUME NEW e \in TableRows, rows' = Append(rows, e), e.by = r,
                 e.role = "ai" => SaveAiMessage(r) /\ e.id = Current(r).id
          PROVE  \/ i \in DOMAIN rows /\ rows'[i] = rows[i]
                 \/ /\ i = Len(rows) + 1 /\ q = r /\ SaveAiMessage(r)
                    /\ rows'[i].id = Current(r).id /\ i \notin DOMAIN rows
      <3>1. /\ DOMAIN rows' = 1 .. Len(rows) + 1 /\ rows'[Len(rows) + 1] = e
            /\ \A j \in DOMAIN rows : rows'[j] = rows[j]
        BY <1>0, <2>2, AppendOne
      <3>2. i \in DOMAIN rows \/ i = Len(rows) + 1
        BY <1>0, <3>1
      <3> QED BY <1>0, <2>2, <3>1, <3>2 DEF AiRow
    <2> QED BY <2>1, <2>2, RowsGrow
  <1>2. CASE q # r
    <2>1. at'[q] = at[q] /\ held'[q] = held[q] /\ pos'[q] = pos[q] /\ from'[q] = from[q]
      BY <1>2, OthersKept
    <2>2. i \in DOMAIN rows /\ rows'[i] = rows[i]
      BY <1>1, <1>2
    <2> QED BY <2>1, <2>2 DEF OwnRows, AiRow
  <1>3. CASE q = r /\ ~Saves(r)
    <2>1. \/ pos'[r] = Len(held[r]) + 1
          \/ from'[r] = Len(rows) /\ rows' = rows
      BY <1>3, NoSave
    <2>2. held' = held
      BY <1>3, NoSave
    <2> QED BY <1>0, <1>3, <2>1, <2>2
  <1>4. CASE q = r /\ Saves(r)
    <2>1. /\ held' = held /\ from' = from
          /\ at[r] \in {"store", "call"} /\ pos[r] \in DOMAIN held[r]
      BY <1>4, GoesOn DEF ToSave
    <2>2. \/ at'[r] = "store" /\ pos'[r] > pos[r]
          \/ at'[r] = "call" /\ at[r] = "store" /\ pos'[r] = pos[r] /\ SaveAiMessage(r)
      BY <1>0, <1>4, <2>1, GoesOn
    <2>3. CASE i \in DOMAIN rows /\ rows'[i] = rows[i]
      <3>1. PICK k \in DOMAIN held[r] : /\ held[r][k].role = "ai" /\ held[r][k].id = rows[i].id
                                        /\ k < pos[r] \/ (k = pos[r] /\ at[r] = "call")
        BY <1>0, <1>4, <2>1, <2>3 DEF OwnRows, AiRow
      <3>2. k < pos'[r] \/ (k = pos'[r] /\ at'[r] = "call")
        <4>1. k \in Nat /\ pos[r] \in Nat /\ pos'[r] \in Int
          <5>1. pos'[r] \in ToSave(r, ExistingIds(from[r])) \/ pos'[r] = Len(held[r]) + 1 \/ pos'[r] = pos[r]
            BY <1>4, GoesOn
          <5>2. ToSave(r, ExistingIds(from[r])) \subseteq DOMAIN held[r]
            BY DEF ToSave
          <5>3. DOMAIN held[r] \subseteq Nat /\ pos[r] \in Nat /\ Len(held[r]) + 1 \in Nat
            BY DEF TypeOK
          <5>4. pos'[r] \in Nat
            BY <5>1, <5>2, <5>3
          <5> QED BY <5>3, <5>4
        <4> QED BY <2>2, <3>1, <4>1
      <3> QED BY <1>4, <2>1, <2>3, <3>1, <3>2
    <2>4. CASE SaveAiMessage(r) /\ rows'[i].id = Current(r).id
      <3>1. held[r][pos[r]].role = "ai" /\ held[r][pos[r]].id = rows'[i].id
        BY <2>4 DEF SaveAiMessage, Current
      <3> QED BY <1>4, <2>1, <2>2, <3>1
    <2> QED BY <1>1, <2>3, <2>4
  <1> QED BY <1>2, <1>3, <1>4

\* The step that could store a message again: if it was there when the run
\* looked, it is not among those to store; if the run has stored it since, it
\* has passed it.
LEMMA StoredOnceStep ==
    ASSUME TypeOK, InHand, SaveSound, OwnRows, MessagesKnown, StoredOnce, NEW r \in Runs, Step(r)
    PROVE  StoredOnce'
  <1> SUFFICES ASSUME NEW i \in DOMAIN rows', NEW j \in DOMAIN rows', i < j,
                      AiRow(i)', AiRow(j)', rows'[i].id = rows'[j].id
               PROVE  rows'[j].from < i /\ rows'[i].by # rows'[j].by
    BY DEF StoredOnce
  <1>0. rows \in Seq(TableRows) /\ DOMAIN rows = 1 .. Len(rows) /\ Len(rows) \in Nat
    BY DEF TypeOK
  <1>1. CASE rows' = rows
    BY <1>1 DEF StoredOnce, AiRow
  <1>2. ASSUME NEW e \in TableRows, rows' = Append(rows, e), e.by = r,
               e.role = "ai" => SaveAiMessage(r) /\ e.id = Current(r).id /\ e.from = from[r]
        PROVE  rows'[j].from < i /\ rows'[i].by # rows'[j].by
    <2>1. /\ DOMAIN rows' = 1 .. Len(rows) + 1 /\ rows'[Len(rows) + 1] = e
          /\ \A n \in DOMAIN rows : rows'[n] = rows[n]
      BY <1>0, <1>2, AppendOne
    <2>2. CASE j \in DOMAIN rows
      <3>1. i \in DOMAIN rows
        BY <1>0, <2>1, <2>2
      <3> QED BY <2>1, <2>2, <3>1 DEF StoredOnce, AiRow
    <2>3. CASE j = Len(rows) + 1
      <3>1. i \in DOMAIN rows /\ rows'[i] = rows[i] /\ rows[i].role = "ai"
        BY <1>0, <2>1, <2>3 DEF AiRow
      <3>2. SaveAiMessage(r) /\ rows[i].id = Current(r).id /\ rows'[j].from = from[r] /\ rows'[j].by = r
        BY <1>2, <2>1, <2>3, <3>1 DEF AiRow
      <3>3. Saves(r) /\ at[r] = "store" /\ Current(r).role = "ai" /\ pos[r] <= Len(held[r])
        BY <3>2 DEF Saves, SaveAiMessage, Saving
      <3>4. pos[r] \in ToSave(r, ExistingIds(from[r]))
        BY <3>3, GoesOn
      <3>5. from[r] \in Nat /\ i \in Nat /\ from[r] < i
        <4>1. from[r] \in Nat /\ i \in Nat /\ i >= 1
          BY <1>0, <3>1 DEF TypeOK
        <4>2. i \notin 1 .. from[r]
          BY <3>1, <3>2, <3>3, <3>4 DEF ToSave, ExistingIds, Current
        <4> QED BY <4>1, <4>2
      <3>6. rows[i].by # r
        <4> SUFFICES ASSUME rows[i].by = r PROVE FALSE
          OBVIOUS
        <4>1. PICK k \in DOMAIN held[r] : /\ held[r][k].role = "ai" /\ held[r][k].id = rows[i].id
                                          /\ k < pos[r] \/ (k = pos[r] /\ at[r] = "call")
          BY <3>1, <3>3, <3>5 DEF OwnRows, AiRow
        <4>2. pos[r] \in DOMAIN held[r] /\ held[r][pos[r]].role = "ai" /\ held[r][pos[r]].id = rows[i].id
          BY <3>2, <3>3, <3>4 DEF ToSave, Current
        <4>3. k = pos[r]
          BY <4>1, <4>2 DEF MessagesKnown, KnownIn
        <4>4. pos[r] \in Nat
          BY DEF TypeOK
        <4> QED BY <3>3, <4>1, <4>3, <4>4
      <3> QED BY <3>1, <3>2, <3>5, <3>6
    <2> QED BY <1>0, <2>1, <2>2, <2>3
  <1> QED BY <1>1, <1>2, RowsGrow

-----------------------------------------------------------------------------
(* Whoever looks at a message has one *)

LEMMA InHandStep ==
    ASSUME TypeOK, InHand, SaveSound, NEW r \in Runs, Step(r)
    PROVE  InHand'
  <1> DEFINE Own(q) == /\ at[q] = "tool" => Dangling(held[q])
                       /\ at[q] = "call" => pos[q] \in DOMAIN held[q]
                       /\ at[q] = "store" => pos[q] \in DOMAIN held[q] \union {Len(held[q]) + 1}
  <1>0. at \in [Runs -> Places] /\ held \in [Runs -> Seq(Messages)] /\ pos \in [Runs -> Nat]
    BY DEF TypeOK
  <1>1. ASSUME NEW q \in Runs, q # r PROVE Own(q)'
    BY <1>1, OthersKept DEF InHand, Dangling
  <1>2. ASSUME at'[r] \in {"store", "call"} PROVE Own(r)'
    <2>1. CASE Saves(r)
      BY <1>2, <2>1, GoesOn DEF ToSave
    <2>2. CASE ~Saves(r)
      BY <1>2, <2>2, NoSave DEF ToSave
    <2> QED BY <2>1, <2>2
  <1>3. ASSUME at'[r] = "tool" PROVE Dangling(held[r])'
    <2>1. CASE Light(r)
      BY <1>0, <1>3, <2>1 DEF Light
    <2>2. CASE Stops(r)
      BY <1>0, <1>3, <2>2 DEF Stops, Stop, Goto
    <2>3. CASE Begin(r)
      <3>1. NextNode(Start(r)) = "tool" /\ held'[r] = Start(r)
        BY <1>0, <1>3, <2>3 DEF Begin, Extend, Goto
      <3>2. Dangling(Start(r))
        BY <3>1, Zenon DEF NextNode
      <3> QED BY <1>3, <3>1, <3>2 DEF Dangling
    <2>4. ASSUME NEW call \in Calls \union {"none"}, ModelCalls(r, call) PROVE Dangling(held[r])'
      <3> DEFINE m == Message("ai", <<r, made'[r]>>, call)
      <3>1. call # "none" /\ held'[r] = Append(held[r], m)
        BY <1>0, <1>3, <2>4 DEF ModelCalls, Extend, Goto
      <3>2. m \in Messages /\ m.call = call
        <4>1. made'[r] \in Nat
          BY <2>4 DEF ModelCalls, TypeOK
        <4> QED BY <4>1, MessageTypes DEF Message
      <3>3. Last(Append(held[r], m)) = m /\ Append(held[r], m) # <<>>
        BY <1>0, <3>2, AppendOne
      <3> QED BY <3>1, <3>2, <3>3 DEF Dangling
    <2>5. CASE ToolRuns(r) \/ ReadMessages(r) \/ ReadIds(r) \/ SaveFails(r)
      BY <1>0, <1>3, <2>5 DEF ToolRuns, ReadMessages, ReadIds, SaveFails, Goto
    <2>6. CASE Saves(r)
      BY <1>3, <2>6, GoesOn
    <2> QED BY <1>3, <2>1, <2>2, <2>3, <2>4, <2>5, <2>6, StepCases
  <1>4. Own(r)'
    BY <1>2, <1>3
  <1> QED BY <1>1, <1>4 DEF InHand

-----------------------------------------------------------------------------
(* Questions: who answers one, and beside whom *)

\* Runs in the graph have met; an answered question is not the thread's last
\* message any more, and whoever still runs its tool has met those who answered.
MetAll == \A a, b \in InGraph : a # b => {a, b} \in met
Past(p) == p[2][1] \in Runs /\ p[2][2] <= made[p[2][1]]
NotLast(p) == Dangling(msgs) => Last(msgs).id # p[2]
Beside(p, b) == at[b] = "tool" /\ Last(held[b]).id = p[2] /\ b # p[1] => {p[1], b} \in met

AnswerInv ==
    /\ MetAll
    /\ \A p \in ran : Past(p) /\ NotLast(p) /\ \A b \in Runs : Beside(p, b)
    /\ AnsweredOnce

LEMMA AnswersQuiet ==
    ASSUME TypeOK, AnswerInv, NEW r \in Runs, Step(r),
           UNCHANGED <<msgs, ran, met, made>>, at'[r] \notin {"model", "tool"}
    PROVE  AnswerInv'
  <1>1. \A q \in Runs : at'[q] \in {"model", "tool"} => q # r /\ at'[q] = at[q] /\ held'[q] = held[q]
    BY OthersKept
  <1>2. MetAll'
    BY <1>1 DEF AnswerInv, MetAll, InGraph
  <1>3. ASSUME NEW p \in ran PROVE Past(p)' /\ NotLast(p)'
    BY DEF AnswerInv, Past, NotLast, Dangling
  <1>4. ASSUME NEW p \in ran, NEW b \in Runs PROVE Beside(p, b)'
    BY <1>1 DEF AnswerInv, Beside
  <1> QED BY <1>2, <1>3, <1>4 DEF AnswerInv, AnsweredOnce

LEMMA AnswerBegin ==
    ASSUME TypeOK, AnswerInv, NEW r \in Runs, Begin(r), Step(r)
    PROVE  AnswerInv'
  <1>0. /\ UNCHANGED <<ran, made>> /\ met' = met \union {{r, q} : q \in InGraph}
        /\ msgs' = Start(r) /\ held'[r] = Start(r) /\ at'[r] = NextNode(Start(r))
    BY DEF Begin, Extend, Goto, TypeOK
  <1>1. \A q \in Runs : q # r => at'[q] = at[q] /\ held'[q] = held[q]
    BY OthersKept
  <1>2. MetAll'
    <2> SUFFICES ASSUME NEW a \in InGraph', NEW b \in InGraph', a # b PROVE {a, b} \in met'
      BY DEF MetAll
    <2>1. a \in Runs /\ b \in Runs /\ (a # r => a \in InGraph) /\ (b # r => b \in InGraph)
      BY <1>1 DEF InGraph
    <2>2. CASE a # r /\ b # r
      BY <1>0, <2>1, <2>2 DEF AnswerInv, MetAll
    <2>3. CASE a = r
      BY <1>0, <2>1, <2>3
    <2>4. CASE b = r
      <3>1. {a, b} = {r, a}
        BY <2>4
      <3> QED BY <1>0, <2>1, <2>4, <3>1
    <2> QED BY <2>2, <2>3, <2>4
  <1>3. Dangling(Start(r)) => Start(r) = msgs
    <2>1. kind[r] \in {"chat", "resume"}
      BY DEF TypeOK
    <2>2. Human(r).call = "none"
      BY DEF Human, Message
    <2> QED BY <2>1, <2>2, StartType DEF Dangling
  <1>4. NextNode(Start(r)) = "tool" => Dangling(Start(r))
    BY Zenon DEF NextNode
  <1>5. ASSUME NEW p \in ran PROVE Dangling(Start(r)) => Last(Start(r)).id # p[2]
    <2>1. NotLast(p)
      BY DEF AnswerInv
    <2> QED BY <1>3, <2>1 DEF NotLast
  <1>6. ASSUME NEW p \in ran PROVE Past(p)' /\ NotLast(p)'
    <2>1. Past(p)
      BY DEF AnswerInv
    <2>2. Past(p)'
      BY <1>0, <2>1 DEF Past
    <2>3. NotLast(p)'
      BY <1>0, <1>5 DEF NotLast, Dangling
    <2> QED BY <2>2, <2>3
  <1>7. ASSUME NEW p \in ran, NEW b \in Runs PROVE Beside(p, b)'
    <2>1. CASE b = r
      BY <1>0, <1>4, <1>5, <2>1 DEF Beside
    <2>2. CASE b # r
      <3>1. Beside(p, b)
        BY DEF AnswerInv
      <3>2. at'[b] = at[b] /\ held'[b] = held[b]
        BY <1>1, <2>2
      <3> QED BY <1>0, <3>1, <3>2 DEF Beside
    <2> QED BY <2>1, <2>2
  <1> QED BY <1>0, <1>2, <1>6, <1>7 DEF AnswerInv, AnsweredOnce

LEMMA AnswerModel ==
    ASSUME TypeOK, AnswerInv, NEW r \in Runs, NEW call \in Calls \union {"none"}, ModelCalls(r, call), Step(r)
    PROVE  AnswerInv'
  <1> DEFINE m == Message("ai", <<r, made'[r]>>, call)
  <1>0. /\ UNCHANGED <<ran, met>> /\ made'[r] = made[r] + 1 /\ at[r] = "model"
        /\ made \in [Runs -> Nat] /\ made' = [made EXCEPT ![r] = @ + 1]
        /\ msgs' = Append(held[r], m) /\ held'[r] = Append(held[r], m)
    BY DEF ModelCalls, Extend, TypeOK, past
  <1>1. \A q \in Runs : q # r => at'[q] = at[q] /\ held'[q] = held[q]
    BY OthersKept
  <1>2. MetAll'
    BY <1>0, <1>1 DEF AnswerInv, MetAll, InGraph
  <1>3. Last(Append(held[r], m)).id = <<r, made[r] + 1>>
    <2>1. m \in Messages /\ held[r] \in Seq(Messages)
      BY <1>0, MessageTypes DEF TypeOK
    <2>2. m.id = <<r, made[r] + 1>>
      BY <1>0 DEF Message
    <2> HIDE DEF m
    <2>3. Last(Append(held[r], m)) = m
      BY <2>1, AppendOne
    <2> QED BY <2>2, <2>3
  <1> HIDE DEF m
  <1>4. ASSUME NEW p \in ran PROVE Past(p)' /\ p[2] # <<r, made[r] + 1>>
    <2>1. p[2] \in Ids
      BY DEF TypeOK
    <2>2. p[2][2] \in Nat
      BY <2>1 DEF Ids
    <2>3. p[2][1] \in Runs /\ p[2][2] <= made[p[2][1]]
      BY DEF AnswerInv, Past
    <2>4. Past(p)'
      BY <1>0, <2>2, <2>3 DEF Past
    <2>5. p[2] # <<r, made[r] + 1>>
      <3> SUFFICES ASSUME p[2] = <<r, made[r] + 1>> PROVE FALSE
        OBVIOUS
      <3>1. p[2][1] = r /\ p[2][2] = made[r] + 1
        OBVIOUS
      <3> QED BY <1>0, <2>3, <3>1
    <2> QED BY <2>4, <2>5
  <1>5. ASSUME NEW p \in ran PROVE NotLast(p)'
    BY <1>0, <1>3, <1>4 DEF NotLast
  <1>6. ASSUME NEW p \in ran, NEW b \in Runs PROVE Beside(p, b)'
    <2>1. CASE b = r
      BY <1>0, <1>3, <1>4, <2>1 DEF Beside
    <2>2. CASE b # r
      <3>1. Beside(p, b)
        BY DEF AnswerInv
      <3>2. at'[b] = at[b] /\ held'[b] = held[b]
        BY <1>1, <2>2
      <3> QED BY <1>0, <3>1, <3>2 DEF Beside
    <2> QED BY <2>1, <2>2
  <1> QED BY <1>0, <1>2, <1>4, <1>5, <1>6 DEF AnswerInv, AnsweredOnce

LEMMA AnswerTool ==
    ASSUME TypeOK, InHand, MessagesKnown, AnswerInv, NEW r \in Runs, ToolRuns(r), Step(r)
    PROVE  AnswerInv'
  <1> DEFINE c == Last(held[r]).id
  <1>0. /\ UNCHANGED <<met, made>> /\ at[r] = "tool" /\ at'[r] = "model"
        /\ msgs' = Append(held[r], Result(Last(held[r]))) /\ ran' \subseteq ran \union {<<r, c>>}
    BY DEF ToolRuns, Extend, Goto, TypeOK
  <1>1. \A q \in Runs : q # r => at'[q] = at[q] /\ held'[q] = held[q]
    BY OthersKept
  <1>2. MetAll'
    BY <1>0, <1>1 DEF AnswerInv, MetAll, InGraph
  <1>3. held[r] \in Seq(Messages) /\ held[r] # <<>> /\ Last(held[r]) \in Messages
    BY <1>0, LastType DEF InHand, Dangling, TypeOK
  <1>4. ~Dangling(msgs')
    <2>1. Result(Last(held[r])) \in Messages /\ Result(Last(held[r])).call = "none"
      BY <1>3, MessageTypes DEF Result, Message
    <2>2. Last(Append(held[r], Result(Last(held[r])))).call = "none"
      BY <1>3, <2>1, AppendOne
    <2> QED BY <1>0, <2>2 DEF Dangling
  <1>5. c[1] \in Runs /\ c[2] <= made[c[1]]
    <2>1. Len(held[r]) \in DOMAIN held[r] /\ Last(held[r]) = held[r][Len(held[r])]
      BY <1>3, LastType DEF Last
    <2>2. Last(held[r]).call # "none"
      BY <1>0 DEF InHand, Dangling
    <2> QED BY <2>1, <2>2 DEF MessagesKnown, KnownIn
  <1>6. \A b \in Runs : at'[b] = "tool" => b # r /\ {r, b} \in met /\ at[b] = "tool" /\ held'[b] = held[b]
    <2>1. r \in InGraph
      BY <1>0 DEF InGraph
    <2>2. \A b \in Runs : at'[b] = "tool" => b # r /\ b \in InGraph /\ at[b] = "tool" /\ held'[b] = held[b]
      BY <1>0, <1>1 DEF InGraph
    <2> QED BY <2>1, <2>2 DEF AnswerInv, MetAll
  <1> HIDE DEF c
  <1>7. ASSUME NEW p \in ran' PROVE Past(p)' /\ NotLast(p)'
    <2>1. Past(p)
      BY <1>0, <1>5 DEF AnswerInv, Past
    <2> QED BY <1>0, <1>4, <2>1 DEF Past, NotLast, Dangling
  <1>8. ASSUME NEW p \in ran', NEW b \in Runs PROVE Beside(p, b)'
    <2>1. CASE p \in ran
      <3>1. Beside(p, b)
        BY <2>1 DEF AnswerInv
      <3> QED BY <1>0, <1>6, <3>1 DEF Beside
    <2>2. CASE p = <<r, c>>
      BY <1>0, <1>6, <2>2 DEF Beside
    <2> QED BY <1>0, <2>1, <2>2
  <1>9. ASSUME NEW a \in ran, a[2] = c, a[1] # r PROVE {a[1], r} \in met
    <2>1. Beside(a, r)
      BY DEF AnswerInv
    <2> QED BY <1>0, <1>9, <2>1 DEF Beside, c
  <1>10. AnsweredOnce'
    <2> SUFFICES ASSUME NEW a \in ran', NEW b \in ran', a[2] = b[2], a[1] # b[1] PROVE {a[1], b[1]} \in met
      BY <1>0 DEF AnsweredOnce
    <2>1. CASE a \in ran /\ b \in ran
      BY <2>1 DEF AnswerInv, AnsweredOnce
    <2>2. CASE a \in ran /\ b = <<r, c>>
      BY <1>9, <2>2
    <2>3. CASE a = <<r, c>> /\ b \in ran
      <3>1. {b[1], r} \in met
        BY <1>9, <2>3
      <3>2. {a[1], b[1]} = {b[1], r}
        BY <2>3
      <3> QED BY <3>1, <3>2
    <2>4. CASE a = <<r, c>> /\ b = <<r, c>>
      BY <2>4
    <2> QED BY <1>0, <2>1, <2>2, <2>3, <2>4
  <1> QED BY <1>2, <1>7, <1>8, <1>10 DEF AnswerInv

LEMMA AnswerInvStep ==
    ASSUME TypeOK, InHand, SaveSound, MessagesKnown, AnswerInv, NEW r \in Runs, Step(r)
    PROVE  AnswerInv'
  <1>0. at \in [Runs -> Places]
    BY DEF TypeOK
  <1>1. CASE Light(r)
    BY <1>0, <1>1, AnswersQuiet DEF Light
  <1>2. CASE Stops(r)
    BY <1>0, <1>2, AnswersQuiet DEF Stops, Stop, Goto
  <1>3. CASE Begin(r)
    BY <1>3, AnswerBegin
  <1>4. CASE \E call \in Calls \union {"none"} : ModelCalls(r, call)
    BY <1>4, AnswerModel
  <1>5. CASE ToolRuns(r)
    BY <1>5, AnswerTool
  <1>6. CASE ReadMessages(r) \/ ReadIds(r) \/ SaveFails(r)
    BY <1>0, <1>6, AnswersQuiet DEF ReadMessages, ReadIds, SaveFails, Goto, thread, past
  <1>7. CASE Saves(r)
    <2>1. at'[r] \notin {"model", "tool"}
      BY <1>7, GoesOn
    <2>2. UNCHANGED <<msgs, ran, met, made>>
      BY <1>7 DEF Saves, SaveAiMessage, AddToolCall, SaveToolMessage, thread, past
    <2> QED BY <2>1, <2>2, AnswersQuiet
  <1> QED BY <1>1, <1>2, <1>3, <1>4, <1>5, <1>6, <1>7, StepCases

-----------------------------------------------------------------------------
(* What is stored, and when *)

AiOf(ms) == {ms[i] : i \in {j \in DOMAIN ms : ms[j].role = "ai"}}
AiIn(ms, id) == \E m \in AiOf(ms) : m.id = id
AiAll == AiOf(msgs) \union UNION {AiOf(held[r]) : r \in Runs}

\* An AI message is the same wherever it is.
SameCalls == \A m, n \in AiAll : m.id = n.id => m.call = n.call

RowsMade == \A i \in DOMAIN rows : AiRow(i) => /\ rows[i].id[1] \in Runs
                                               /\ rows[i].id[2] <= made[rows[i].id[1]]

\* A stored message's call is stored, torn, or about to be stored.
CallKept(id) == id \in recorded \union torn \/ Adding(id)
CallsKept == \A m \in AiAll : m.call # "none" /\ Stored(m.id) => CallKept(m.id)

\* A result stands behind its call.
ResultsFollow(ms) == \A k \in DOMAIN ms : ms[k].role = "tool" =>
    \E j \in DOMAIN ms : j < k /\ ms[j].role = "ai" /\ ms[j].id = ms[k].id /\ ms[j].call # "none"
CallsFirst == ResultsFollow(msgs) /\ \A r \in Runs : ResultsFollow(held[r])

\* A run has read the checkpoint and not met an error since.
HasRead(r) == at[r] \in {"ids", "store", "call", "done"} /\ "warning" \notin told[r]

\* The save leaves nothing out behind its position.
Kept(m) == /\ m.role = "ai" => Stored(m.id)
           /\ m.role = "tool" => m.id \in outputs \union torn
SaveComplete == \A r \in Runs : HasRead(r) /\ at[r] # "ids" =>
    /\ at[r] = "call" => Current(r).role = "ai" /\ Stored(Current(r).id)
    /\ \A i \in DOMAIN held[r] : at[r] = "done" \/ i < pos[r] => Kept(held[r][i])

\* What a run that has met no other makes is in the thread.
Alone(r) == \A q \in Runs \ {r} : {r, q} \notin met
OwnKept == \A r \in Runs : Alone(r) => \A n \in 1 .. made[r] :
    /\ AiIn(msgs, <<r, n>>)
    /\ \A q \in InGraph : AiIn(held[q], <<r, n>>)
    /\ HasRead(r) => AiIn(held[r], <<r, n>>)

\* The last run to write the checkpoint saves the checkpoint as it is.
TipRead == msgs = <<>> \/ \E p \in Runs : at[p] # "none" /\ (HasRead(p) => held[p] = msgs)

CreatedInOrder ==
    /\ \A r, q \in Runs : at[r] = "none" /\ r < q => at[q] = "none"
    /\ \A r \in Runs : at[r] = "none" => held[r] = <<>>
    /\ \A i \in DOMAIN rows : rows[i].role = "user" => rows[i].id[1] \in Runs /\ at[rows[i].id[1]] # "none"

\* What a calm run found in the thread was stored before its question, and
\* whoever saves since has looked since.
StoredBefore(id, i) == \E k \in DOMAIN rows : k < i /\ AiRow(k) /\ rows[k].id = id
CalmBefore(a, i) ==
    /\ \A m \in AiOf(msgs) : m.id[1] < a => StoredBefore(m.id, i)
    /\ \A q \in Runs : q >= a =>
           /\ \A m \in AiOf(held[q]) : m.id[1] < a => StoredBefore(m.id, i)
           /\ at[q] \in {"store", "call"} /\ pos[q] <= Len(held[q]) => i <= from[q]
CalmInv == \A a \in calm :
    /\ at[a] # "none" /\ \A q \in Runs : q < a => at[q] = "done"
    /\ \A i \in DOMAIN rows : rows[i].role = "user" /\ rows[i].id[1] = a => CalmBefore(a, i)

StoreInv == /\ SameCalls /\ RowsMade /\ CallsKept /\ CallsFirst /\ SaveComplete /\ OwnKept
            /\ TipRead /\ CreatedInOrder /\ CalmInv /\ QuestionsFollowAnswers

LEMMA AiAppend ==
    ASSUME NEW ms \in Seq(Messages), NEW m \in Messages
    PROVE  /\ m.role # "ai" => AiOf(Append(ms, m)) = AiOf(ms)
           /\ m.role = "ai" => AiOf(Append(ms, m)) = AiOf(ms) \union {m}
  <1> DEFINE new == Append(ms, m)
  <1>1. DOMAIN new = 1 .. Len(ms) + 1 /\ (\A i \in DOMAIN ms : new[i] = ms[i]) /\ new[Len(ms) + 1] = m
    BY AppendOne
  <1>2. DOMAIN ms = 1 .. Len(ms) /\ Len(ms) \in Nat
    OBVIOUS
  <1>3. DOMAIN new = DOMAIN ms \union {Len(ms) + 1} /\ Len(ms) + 1 \notin DOMAIN ms
    BY <1>1, <1>2
  <1> HIDE DEF new
  <1> QED BY <1>1, <1>3 DEF AiOf

LEMMA AiEmpty == AiOf(<<>>) = {}
  BY DEF AiOf

LEMMA AiStart ==
    ASSUME TypeOK, NEW r \in Runs
    PROVE  AiOf(Start(r)) = AiOf(msgs)
  <1>1. msgs \in Seq(Messages) /\ Patched(msgs) \in Seq(Messages)
    BY PatchedType DEF TypeOK
  <1>2. AiOf(Patched(msgs)) = AiOf(msgs)
    <2>1. CASE Dangling(msgs)
      <3>1. Result(Last(msgs)) \in Messages
        BY <1>1, <2>1, LastType, MessageTypes DEF Dangling
      <3>2. Result(Last(msgs)).role = "tool"
        BY DEF Result, Message
      <3> QED BY <1>1, <2>1, <3>1, <3>2, AiAppend DEF Patched
    <2> QED BY <2>1 DEF Patched
  <1>3. Human(r) \in Messages /\ Human(r).role = "human"
    BY MessageTypes DEF Human, Message
  <1> QED BY <1>1, <1>2, <1>3, AiAppend DEF Start

\* What a step does to the AI messages of the thread and of the run.
OutOfGraph(r) == at'[r] \notin {"model", "tool"} /\ met' = met
AiStill(r) == msgs' = msgs /\ held' = held /\ made' = made /\ OutOfGraph(r)
AiGone(r) == msgs' = msgs /\ held'[r] = <<>> /\ made' = made /\ OutOfGraph(r)
AiBegun(r) == /\ AiOf(msgs') = AiOf(msgs) /\ AiOf(held'[r]) = AiOf(msgs) /\ made' = made
              /\ Begin(r)
AiRun(r) == /\ AiOf(msgs') = AiOf(held[r]) /\ AiOf(held'[r]) = AiOf(held[r]) /\ made' = made
            /\ at[r] = "tool" /\ met' = met /\ ToolRuns(r)
AiRead(r) == msgs' = msgs /\ held'[r] = msgs /\ made' = made /\ OutOfGraph(r)
AiMade(r, m) == /\ AiOf(msgs') = AiOf(held[r]) \union {m} /\ AiOf(held'[r]) = AiOf(held[r]) \union {m}
                /\ m.id = <<r, made[r] + 1>> /\ made' = [made EXCEPT ![r] = made[r] + 1]
                /\ at[r] = "model" /\ met' = met /\ \E call \in Calls \union {"none"} : ModelCalls(r, call)

LEMMA AiStep ==
    ASSUME TypeOK, InHand, NEW r \in Runs, Step(r)
    PROVE  \/ AiStill(r) \/ AiGone(r) \/ AiBegun(r) \/ AiRun(r) \/ AiRead(r)
           \/ \E m \in Messages : AiMade(r, m)
  <1> USE DEF OutOfGraph, Goto, past
  <1>0. /\ at \in [Runs -> Places] /\ msgs \in Seq(Messages) /\ held \in [Runs -> Seq(Messages)] /\ made \in [Runs -> Nat]
    BY DEF TypeOK
  <1>1. CASE Light(r)
    BY <1>0, <1>1 DEF Light, AiStill
  <1>2. CASE Stops(r)
    BY <1>0, <1>2 DEF Stops, Stop, AiGone
  <1>3. CASE Begin(r)
    <2>1. msgs' = Start(r) /\ held'[r] = Start(r) /\ made' = made
      BY <1>0, <1>3 DEF Begin, Extend
    <2> QED BY <1>3, <2>1, AiStart DEF AiBegun
  <1>4. ASSUME NEW call \in Calls \union {"none"}, ModelCalls(r, call)
        PROVE  \E m \in Messages : AiMade(r, m)
    <2> DEFINE m == Message("ai", <<r, made'[r]>>, call)
    <2>1. /\ msgs' = Append(held[r], m) /\ held'[r] = Append(held[r], m) /\ at[r] = "model" /\ met' = met
          /\ made' = [made EXCEPT ![r] = made[r] + 1] /\ made'[r] = made[r] + 1
      BY <1>0, <1>4 DEF ModelCalls, Extend
    <2>2. m \in Messages /\ m.role = "ai" /\ m.id = <<r, made[r] + 1>>
      BY <1>0, <2>1, MessageTypes DEF Message
    <2> HIDE DEF m
    <2>3. held[r] \in Seq(Messages)
      BY <1>0
    <2>4. AiOf(Append(held[r], m)) = AiOf(held[r]) \union {m}
      BY <2>2, <2>3, AiAppend
    <2> QED BY <1>4, <2>1, <2>2, <2>4 DEF AiMade
  <1>5. CASE ToolRuns(r)
    <2> DEFINE m == Result(Last(held[r]))
    <2>1. held[r] # <<>> /\ held[r] \in Seq(Messages) /\ at[r] = "tool"
      BY <1>0, <1>5 DEF ToolRuns, InHand, Dangling
    <2>2. m \in Messages /\ m.role = "tool"
      BY <2>1, LastType, MessageTypes DEF Result, Message
    <2>3. msgs' = Append(held[r], m) /\ held'[r] = Append(held[r], m) /\ made' = made /\ met' = met
      BY <1>0, <1>5 DEF ToolRuns, Extend
    <2> HIDE DEF m
    <2> QED BY <1>5, <2>1, <2>2, <2>3, AiAppend DEF AiRun
  <1>6. CASE ReadMessages(r)
    BY <1>0, <1>6 DEF ReadMessages, AiRead, thread
  <1>7. CASE ReadIds(r) \/ Saves(r) \/ SaveFails(r)
    BY <1>0, <1>7 DEF ReadIds, Saves, SaveAiMessage, AddToolCall, SaveToolMessage, Saving, SaveFails, thread, AiStill
  <1> QED BY <1>1, <1>2, <1>3, <1>4, <1>5, <1>6, <1>7, StepCases

\* An AI message of the thread or of a run is one of before, but for a new one.
LEMMA AiAllStep ==
    ASSUME TypeOK, InHand, NEW r \in Runs, Step(r)
    PROVE  AiAll' \subseteq AiAll \/ \E m \in Messages : AiMade(r, m) /\ AiAll' \subseteq AiAll \union {m}
  <1>1. \A q \in Runs : AiOf(held[q]) \subseteq AiAll
    BY DEF AiAll
  <1>2. AiOf(msgs) \subseteq AiAll
    BY DEF AiAll
  <1>3. \A q \in Runs : q # r => held'[q] = held[q]
    BY OthersKept
  <1>4. ASSUME NEW S, AiOf(msgs') \subseteq S, AiOf(held'[r]) \subseteq S, AiAll \subseteq S
        PROVE  AiAll' \subseteq S
    <2>1. \A q \in Runs : AiOf(held'[q]) \subseteq S
      BY <1>1, <1>3, <1>4
    <2> QED BY <1>4, <2>1 DEF AiAll, AiOf
  <1>5. CASE AiStill(r) \/ AiGone(r) \/ AiBegun(r) \/ AiRun(r) \/ AiRead(r)
    BY <1>1, <1>2, <1>4, <1>5, AiEmpty DEF AiStill, AiGone, AiBegun, AiRun, AiRead
  <1>6. ASSUME NEW m \in Messages, AiMade(r, m)
        PROVE  AiAll' \subseteq AiAll \union {m}
    <2>1. AiOf(msgs') = AiOf(held[r]) \union {m} /\ AiOf(held'[r]) = AiOf(held[r]) \union {m}
      BY <1>6, Zenon DEF AiMade
    <2> DEFINE S == AiAll \union {m}
    <2>2. AiOf(msgs') \subseteq S /\ AiOf(held'[r]) \subseteq S /\ AiAll \subseteq S
      <3> HIDE DEF AiAll, AiOf
      <3> QED BY <1>1, <2>1
    <2> HIDE DEF S
    <2>3. AiAll' \subseteq S
      BY <1>4, <2>2, Zenon
    <2> QED BY <2>3 DEF S
  <1> QED BY <1>5, <1>6, AiStep

\* The id of a new message is none of before.
LEMMA AiKnown ==
    ASSUME TypeOK, MessagesKnown, NEW m \in AiAll
    PROVE  /\ m \in Messages /\ m.role = "ai" /\ m.id[1] \in Runs /\ m.id[2] <= made[m.id[1]]
           /\ \A r \in Runs : m.id # <<r, made[r] + 1>>
  <1>1. ASSUME NEW ms \in Seq(Messages), KnownIn(ms, made), m \in AiOf(ms)
        PROVE  m \in Messages /\ m.role = "ai" /\ m.id[1] \in Runs /\ m.id[2] <= made[m.id[1]]
    <2>1. PICK i \in DOMAIN ms : ms[i].role = "ai" /\ m = ms[i]
      BY <1>1 DEF AiOf
    <2> QED BY <1>1, <2>1 DEF KnownIn
  <1>2. m \in Messages /\ m.role = "ai" /\ m.id[1] \in Runs /\ m.id[2] <= made[m.id[1]]
    BY <1>1 DEF AiAll, TypeOK, MessagesKnown
  <1>3. ASSUME NEW r \in Runs, m.id = <<r, made[r] + 1>> PROVE FALSE
    <2>1. m.id[1] = r /\ m.id[2] = made[r] + 1 /\ made[r] \in Nat
      BY <1>3 DEF TypeOK
    <2> QED BY <1>2, <2>1
  <1> QED BY <1>2, <1>3

LEMMA SameCallsStep ==
    ASSUME TypeOK, InHand, MessagesKnown, SameCalls, NEW r \in Runs, Step(r)
    PROVE  SameCalls'
  <1>1. CASE AiAll' \subseteq AiAll
    BY <1>1 DEF SameCalls
  <1>2. ASSUME NEW m \in Messages, AiMade(r, m), AiAll' \subseteq AiAll \union {m} PROVE SameCalls'
    <2>1. \A n \in AiAll : n.id # m.id
      BY <1>2, AiKnown DEF AiMade
    <2> QED BY <1>2, <2>1 DEF SameCalls
  <1> QED BY <1>1, <1>2, AiAllStep

\* A row of an AI message is one of before, or that of the message in hand.
LEMMA NewAiRow ==
    ASSUME TypeOK, InHand, NEW r \in Runs, Step(r), NEW i \in DOMAIN rows', AiRow(i)'
    PROVE  \/ i \in DOMAIN rows /\ rows'[i] = rows[i] /\ AiRow(i)
           \/ /\ i = Len(rows) + 1 /\ SaveAiMessage(r) /\ rows'[i].id = Current(r).id
              /\ pos[r] \in DOMAIN held[r] /\ Current(r) \in AiOf(held[r])
  <1>0. rows \in Seq(TableRows) /\ DOMAIN rows = 1 .. Len(rows) /\ Len(rows) \in Nat
    BY DEF TypeOK
  <1>1. CASE rows' = rows
    BY <1>1 DEF AiRow
  <1>2. ASSUME NEW e \in TableRows, rows' = Append(rows, e),
               e.role = "ai" => SaveAiMessage(r) /\ e.id = Current(r).id
        PROVE  \/ i \in DOMAIN rows /\ rows'[i] = rows[i] /\ AiRow(i)
               \/ i = Len(rows) + 1 /\ SaveAiMessage(r) /\ rows'[i].id = Current(r).id
    <2>1. /\ DOMAIN rows' = 1 .. Len(rows) + 1 /\ rows'[Len(rows) + 1] = e
          /\ \A n \in DOMAIN rows : rows'[n] = rows[n]
      BY <1>0, <1>2, AppendOne
    <2>2. i \in DOMAIN rows \/ i = Len(rows) + 1
      BY <1>0, <2>1
    <2> QED BY <1>2, <2>1, <2>2 DEF AiRow
  <1>3. SaveAiMessage(r) => pos[r] \in DOMAIN held[r] /\ Current(r) \in AiOf(held[r])
    <2> SUFFICES ASSUME SaveAiMessage(r) PROVE pos[r] \in DOMAIN held[r] /\ Current(r) \in AiOf(held[r])
      OBVIOUS
    <2>1. pos[r] \in DOMAIN held[r]
      BY DEF SaveAiMessage, Saving, InHand, TypeOK
    <2> QED BY <2>1 DEF SaveAiMessage, Current, AiOf
  <1> QED BY <1>1, <1>2, <1>3, RowsGrow

LEMMA MadeGrows ==
    ASSUME TypeOK, InHand, NEW r \in Runs, Step(r)
    PROVE  \A q \in Runs : made[q] \in Nat /\ made'[q] \in Nat /\ made[q] <= made'[q]
  <1>1. made \in [Runs -> Nat]
    BY DEF TypeOK
  <1>2. CASE made' = made
    BY <1>1, <1>2
  <1>3. CASE made' = [made EXCEPT ![r] = made[r] + 1]
    BY <1>1, <1>3
  <1> QED BY <1>2, <1>3, AiStep DEF AiStill, AiGone, AiBegun, AiRun, AiRead, AiMade

LEMMA RowsMadeStep ==
    ASSUME TypeOK, InHand, MessagesKnown, RowsMade, NEW r \in Runs, Step(r)
    PROVE  RowsMade'
  <1> SUFFICES ASSUME NEW i \in DOMAIN rows', AiRow(i)'
               PROVE  rows'[i].id[1] \in Runs /\ rows'[i].id[2] <= made'[rows'[i].id[1]]
    BY DEF RowsMade
  <1>1. ASSUME NEW id \in Ids, id[1] \in Runs, id[2] <= made[id[1]]
        PROVE  id[2] <= made'[id[1]]
    BY <1>1, MadeGrows DEF Ids
  <1>2. CASE i \in DOMAIN rows /\ rows'[i] = rows[i] /\ AiRow(i)
    <2>1. rows[i] \in TableRows
      BY <1>2 DEF TypeOK
    <2>2. rows[i].id \in Ids
      BY <2>1 DEF TableRows
    <2> QED BY <1>1, <1>2, <2>2 DEF RowsMade
  <1>3. CASE rows'[i].id = Current(r).id /\ pos[r] \in DOMAIN held[r] /\ Current(r) \in AiOf(held[r])
    <2>1. Current(r) \in AiAll /\ Current(r).id \in Ids
      BY <1>3, CurrentType DEF AiAll
    <2> QED BY <1>1, <1>3, <2>1, AiKnown
  <1> QED BY <1>2, <1>3, NewAiRow

\* A message with a row keeps it; a new one has none.
LEMMA StoredStep ==
    ASSUME TypeOK, InHand, NEW r \in Runs, Step(r), NEW id
    PROVE  /\ Stored(id) => Stored(id)'
           /\ Stored(id)' => \/ Stored(id)
                             \/ /\ SaveAiMessage(r) /\ id = Current(r).id
                                /\ pos[r] \in DOMAIN held[r] /\ Current(r) \in AiOf(held[r])
  <1>1. Stored(id) => Stored(id)'
    BY RowsKept DEF Stored, AiRow
  <1>2. ASSUME Stored(id)'
        PROVE  \/ Stored(id)
               \/ /\ SaveAiMessage(r) /\ id = Current(r).id
                  /\ pos[r] \in DOMAIN held[r] /\ Current(r) \in AiOf(held[r])
    <2>1. PICK i \in DOMAIN rows' : AiRow(i)' /\ rows'[i].id = id
      BY <1>2 DEF Stored
    <2> QED BY <2>1, NewAiRow DEF Stored
  <1> QED BY <1>1, <1>2

LEMMA NewNotStored ==
    ASSUME TypeOK, RowsMade, NEW r \in Runs
    PROVE  ~Stored(<<r, made[r] + 1>>)
  <1> SUFFICES ASSUME NEW i \in DOMAIN rows, AiRow(i), rows[i].id = <<r, made[r] + 1>> PROVE FALSE
    BY DEF Stored
  <1>1. rows[i].id[1] = r /\ rows[i].id[2] = made[r] + 1 /\ made[r] \in Nat
    BY DEF TypeOK
  <1> QED BY <1>1 DEF RowsMade

LEMMA TablesGrow ==
    ASSUME NEW r \in Runs, Step(r)
    PROVE  /\ recorded \subseteq recorded' /\ torn \subseteq torn'
           /\ outputs \subseteq outputs'
  <1> USE DEF thread, tables, local, past
  <1>1. CASE \E k \in {"chat", "resume"} : Create(r, k)
    BY <1>1 DEF Create
  <1>2. CASE Begin(r) \/ \E call \in Calls \union {"none"} : ModelCalls(r, call)
    BY <1>2 DEF Begin, ModelCalls
  <1>3. CASE ToolRuns(r) \/ ToolAsks(r) \/ CheckInterrupts(r) \/ ReadMessages(r) \/ ReadIds(r)
    BY <1>3 DEF ToolRuns, ToolAsks, CheckInterrupts, ReadMessages, ReadIds
  <1>4. CASE SaveAiMessage(r) \/ AddToolCall(r) \/ SaveToolMessage(r)
    BY <1>4 DEF SaveAiMessage, AddToolCall, SaveToolMessage
  <1>5. CASE SaveFails(r) \/ Finish(r) \/ Refused(r)
    BY <1>5 DEF SaveFails, Finish, Refused, Tear
  <1>6. CASE Blocked(r) \/ GraphFails(r) \/ Cut(r) \/ Abandon(r) \/ Die(r)
    BY <1>6 DEF Blocked, GraphFails, Cut, Abandon, Die, Tear
  <1>7. CASE SavePartial(r) \/ CutAgain(r) \/ Requeue(r)
    BY <1>7 DEF SavePartial, CutAgain, Requeue
  <1> QED BY <1>1, <1>2, <1>3, <1>4, <1>5, <1>6, <1>7 DEF Step

\* A run leaves its tool call behind with a row, or torn.
LEMMA CallLeft ==
    ASSUME TypeOK, NEW r \in Runs, Step(r), at[r] = "call"
    PROVE  Current(r).id \in recorded' \union torn'
  <1>1. AddToolCall(r) \/ SaveFails(r) \/ Cut(r) \/ Die(r)
    BY DEF Step, Create, Begin, ModelCalls, ToolRuns, ToolAsks, CheckInterrupts, ReadMessages, ReadIds,
           SaveAiMessage, SaveToolMessage, Saving, Finish, Refused, Blocked, GraphFails, SavePartial,
           CutAgain, Abandon, Requeue, Handlers
  <1>2. CASE AddToolCall(r)
    BY <1>2 DEF AddToolCall
  <1>3. CASE SaveFails(r) \/ Cut(r) \/ Die(r)
    BY <1>3 DEF SaveFails, Cut, Die, Tear
  <1> QED BY <1>1, <1>2, <1>3

LEMMA CallKeptStays ==
    ASSUME TypeOK, NEW r \in Runs, Step(r), NEW id, CallKept(id)
    PROVE  CallKept(id)'
  <1>1. CASE id \in recorded \union torn
    BY <1>1, TablesGrow DEF CallKept
  <1>2. CASE Adding(id)
    <2>1. PICK q \in Runs : at[q] = "call" /\ Current(q).id = id
      BY <1>2 DEF Adding
    <2>2. CASE q = r
      BY <2>1, <2>2, CallLeft DEF CallKept
    <2>3. CASE q # r
      <3>1. at'[q] = at[q] /\ held'[q] = held[q] /\ pos'[q] = pos[q]
        BY <2>3, OthersKept
      <3>2. at'[q] = "call" /\ Current(q)'.id = id
        BY <2>1, <3>1 DEF Current
      <3> QED BY <3>2 DEF CallKept, Adding
    <2> QED BY <2>2, <2>3
  <1> QED BY <1>1, <1>2 DEF CallKept

LEMMA CallsKeptStep ==
    ASSUME TypeOK, InHand, SaveSound, MessagesKnown, SameCalls, RowsMade, CallsKept, NEW r \in Runs, Step(r)
    PROVE  CallsKept'
  <1> SUFFICES ASSUME NEW m \in AiAll', m.call # "none", Stored(m.id)'
               PROVE  CallKept(m.id)'
    BY DEF CallsKept
  <1>1. CASE m \in AiAll /\ Stored(m.id)
    BY <1>1, CallKeptStays DEF CallsKept
  <1>2. CASE m \in AiAll /\ SaveAiMessage(r) /\ m.id = Current(r).id /\ Current(r) \in AiOf(held[r])
    <2>1. Current(r) \in AiAll
      BY <1>2 DEF AiAll
    <2>2. Current(r).call # "none"
      BY <1>2, <2>1 DEF SameCalls
    <2>3. held' = held /\ pos' = pos /\ at'[r] = "call"
      BY <1>2, <2>2 DEF SaveAiMessage, Goto, TypeOK
    <2>4. Current(r)' = Current(r)
      BY <2>3 DEF Current
    <2> QED BY <1>2, <2>3, <2>4 DEF CallKept, Adding
  <1>3. ASSUME AiMade(r, m), m \in Messages PROVE FALSE
    <2>1. rows' = rows /\ m.id = <<r, made[r] + 1>>
      BY <1>3 DEF AiMade, ModelCalls, tables
    <2>2. Stored(m.id)
      BY <2>1 DEF Stored, AiRow
    <2> QED BY <2>1, <2>2, NewNotStored
  <1>4. m \in AiAll \/ (m \in Messages /\ AiMade(r, m))
    BY AiAllStep
  <1> QED BY <1>1, <1>2, <1>3, <1>4, StoredStep

LEMMA FollowAppend ==
    ASSUME NEW ms \in Seq(Messages), NEW m \in Messages, ResultsFollow(ms),
           m.role = "tool" => \E j \in DOMAIN ms : ms[j].role = "ai" /\ ms[j].id = m.id /\ ms[j].call # "none"
    PROVE  ResultsFollow(Append(ms, m))
  <1> DEFINE new == Append(ms, m)
  <1>1. DOMAIN new = 1 .. Len(ms) + 1 /\ (\A i \in DOMAIN ms : new[i] = ms[i]) /\ new[Len(ms) + 1] = m
    BY AppendOne
  <1>2. DOMAIN ms = 1 .. Len(ms) /\ Len(ms) \in Nat
    OBVIOUS
  <1>3. /\ \A i \in DOMAIN new : i \in DOMAIN ms \/ i = Len(ms) + 1
        /\ \A i \in DOMAIN ms : i \in DOMAIN new /\ i < Len(ms) + 1
    BY <1>1, <1>2
  <1> HIDE DEF new
  <1>4. ASSUME NEW k \in DOMAIN new, new[k].role = "tool"
        PROVE  \E j \in DOMAIN new : j < k /\ new[j].role = "ai" /\ new[j].id = new[k].id /\ new[j].call # "none"
    <2>1. CASE k \in DOMAIN ms
      BY <1>1, <1>3, <1>4, <2>1 DEF ResultsFollow
    <2>2. CASE k = Len(ms) + 1
      BY <1>1, <1>3, <1>4, <2>2
    <2> QED BY <1>3, <2>1, <2>2
  <1> QED BY <1>4 DEF ResultsFollow

\* Answering a call puts the result behind it.
LEMMA FollowResult ==
    ASSUME NEW ms \in Seq(Messages), KnownIn(ms, made), ResultsFollow(ms), Dangling(ms)
    PROVE  ResultsFollow(Append(ms, Result(Last(ms)))) /\ Append(ms, Result(Last(ms))) \in Seq(Messages)
  <1>1. ms # <<>> /\ Last(ms).call # "none" /\ Len(ms) \in DOMAIN ms /\ Last(ms) = ms[Len(ms)]
    BY LastType DEF Dangling, Last
  <1>2. ms[Len(ms)].role = "ai" /\ ms[Len(ms)].call # "none"
    BY <1>1 DEF KnownIn
  <1>3. Result(Last(ms)) \in Messages /\ Result(Last(ms)).id = ms[Len(ms)].id
    BY <1>1, LastType, MessageTypes DEF Result, Message
  <1>4. Append(ms, Result(Last(ms))) \in Seq(Messages)
    BY <1>3, AppendOne
  <1> QED BY <1>1, <1>2, <1>3, <1>4, FollowAppend

LEMMA FollowStart ==
    ASSUME TypeOK, MessagesKnown, CallsFirst, NEW r \in Runs
    PROVE  ResultsFollow(Start(r))
  <1>1. msgs \in Seq(Messages) /\ KnownIn(msgs, made) /\ ResultsFollow(msgs)
    BY DEF TypeOK, MessagesKnown, CallsFirst
  <1>2. Patched(msgs) \in Seq(Messages) /\ ResultsFollow(Patched(msgs))
    BY <1>1, FollowResult DEF Patched
  <1>3. Human(r) \in Messages /\ Human(r).role = "human"
    BY MessageTypes DEF Human, Message
  <1> QED BY <1>1, <1>2, <1>3, FollowAppend DEF Start

LEMMA CallsFirstStep ==
    ASSUME TypeOK, InHand, MessagesKnown, CallsFirst, NEW r \in Runs, Step(r)
    PROVE  CallsFirst'
  <1>0. /\ msgs \in Seq(Messages) /\ held[r] \in Seq(Messages) /\ made[r] \in Nat
        /\ KnownIn(held[r], made) /\ ResultsFollow(held[r]) /\ ResultsFollow(msgs)
    BY DEF TypeOK, MessagesKnown, CallsFirst
  <1>1. ASSUME ResultsFollow(msgs'), ResultsFollow(held'[r]) PROVE CallsFirst'
    <2>1. \A q \in Runs : ResultsFollow(held'[q])
      BY <1>1, OthersKept DEF CallsFirst
    <2> QED BY <1>1, <2>1 DEF CallsFirst, ResultsFollow
  <1>2. CASE AiStill(r)
    BY <1>0, <1>1, <1>2 DEF AiStill
  <1>3. CASE AiGone(r)
    BY <1>0, <1>1, <1>3 DEF AiGone, ResultsFollow
  <1>4. CASE AiBegun(r)
    BY <1>1, <1>4, FollowStart DEF AiBegun, Begin, Extend, TypeOK
  <1>5. CASE AiRun(r)
    <2>1. Dangling(held[r])
      BY <1>5 DEF AiRun, InHand
    <2>2. msgs' = Append(held[r], Result(Last(held[r]))) /\ held'[r] = Append(held[r], Result(Last(held[r])))
      BY <1>5 DEF AiRun, ToolRuns, Extend, TypeOK
    <2>3. ResultsFollow(Append(held[r], Result(Last(held[r]))))
      BY <1>0, <2>1, FollowResult
    <2> QED BY <1>1, <2>2, <2>3
  <1>6. CASE AiRead(r)
    BY <1>0, <1>1, <1>6 DEF AiRead
  <1>7. ASSUME NEW call \in Calls \union {"none"}, ModelCalls(r, call) PROVE CallsFirst'
    <2> DEFINE m == Message("ai", <<r, made'[r]>>, call)
    <2>1. msgs' = Append(held[r], m) /\ held'[r] = Append(held[r], m) /\ made'[r] \in Nat
      BY <1>7 DEF ModelCalls, Extend, TypeOK
    <2>2. m \in Messages /\ m.role = "ai"
      BY <2>1, MessageTypes DEF Message
    <2> HIDE DEF m
    <2>3. ResultsFollow(Append(held[r], m))
      BY <1>0, <2>2, FollowAppend
    <2> QED BY <1>1, <2>1, <2>3
  <1> QED BY <1>2, <1>3, <1>4, <1>5, <1>6, <1>7, AiStep DEF AiMade

LEMMA ToldStep ==
    ASSUME TypeOK, NEW r \in Runs, Step(r)
    PROVE  /\ \A q \in Runs : q # r => told'[q] = told[q]
           /\ "warning" \in told[r] => "warning" \in told'[r] \/ at'[r] = "queued"
  <1> USE DEF Tell, thread, tables, local, past, TypeOK
  <1>1. CASE \E k \in {"chat", "resume"} : Create(r, k)
    BY <1>1 DEF Create
  <1>2. CASE Begin(r) \/ \E call \in Calls \union {"none"} : ModelCalls(r, call)
    BY <1>2 DEF Begin, ModelCalls
  <1>3. CASE ToolRuns(r) \/ ToolAsks(r) \/ CheckInterrupts(r) \/ ReadMessages(r) \/ ReadIds(r)
    BY <1>3 DEF ToolRuns, ToolAsks, CheckInterrupts, ReadMessages, ReadIds
  <1>4. CASE SaveAiMessage(r) \/ AddToolCall(r) \/ SaveToolMessage(r)
    BY <1>4 DEF SaveAiMessage, AddToolCall, SaveToolMessage
  <1>5. CASE SaveFails(r) \/ Finish(r) \/ Refused(r)
    BY <1>5 DEF SaveFails, Finish, Refused
  <1>6. CASE Blocked(r) \/ GraphFails(r) \/ Cut(r) \/ Abandon(r) \/ Die(r)
    BY <1>6 DEF Blocked, GraphFails, Cut, Abandon, Die
  <1>7. CASE SavePartial(r)
    <2>1. PICK new : told' = [told EXCEPT ![r] = @ \union new]
      BY <1>7, Zenon DEF SavePartial
    <2> QED BY <2>1
  <1>8. CASE CutAgain(r) \/ Requeue(r)
    BY <1>8 DEF CutAgain, Requeue, Goto
  <1> QED BY <1>1, <1>2, <1>3, <1>4, <1>5, <1>6, <1>7, <1>8 DEF Step

\* How a run gets to where its save is under way or complete.
LEMMA ReadSteps ==
    ASSUME TypeOK, NEW r \in Runs, Step(r), HasRead(r)'
    PROVE  \/ AiRead(r) /\ at'[r] = "ids"
           \/ HasRead(r) /\ (ReadIds(r) \/ Saves(r) \/ Finish(r))
  <1>0. at \in [Runs -> Places]
    BY DEF TypeOK
  <1> USE DEF HasRead, Goto
  <1>1. CASE SaveFails(r)
    BY <1>0, <1>1 DEF SaveFails, Tell, TypeOK
  <1>2. CASE Stops(r)
    BY <1>0, <1>2 DEF Stops, Stop
  <1>3. CASE Begin(r)
    BY <1>0, <1>3, NextNodeType DEF Begin
  <1>4. CASE \/ \E call \in Calls \union {"none"} : ModelCalls(r, call)
             \/ \E k \in {"chat", "resume"} : Create(r, k)
    BY <1>0, <1>4 DEF ModelCalls, Create
  <1>5. CASE ToolRuns(r) \/ ToolAsks(r) \/ CheckInterrupts(r) \/ Refused(r) \/ SavePartial(r) \/ CutAgain(r) \/ Requeue(r)
    BY <1>0, <1>5 DEF ToolRuns, ToolAsks, CheckInterrupts, AfterQuestion, Refused, SavePartial, CutAgain, Requeue
  <1>6. CASE ReadMessages(r)
    BY <1>0, <1>6 DEF ReadMessages, AiRead, OutOfGraph, thread, past, TypeOK
  <1>7. CASE ReadIds(r) \/ Saves(r) \/ Finish(r)
    <2>1. at[r] \in {"ids", "store", "call"} /\ at'[r] # "queued"
      BY <1>0, <1>7 DEF ReadIds, Saves, SaveAiMessage, AddToolCall, SaveToolMessage, Saving, Finish
    <2> QED BY <1>7, <2>1, ToldStep
  <1> QED BY <1>1, <1>2, <1>3, <1>4, <1>5, <1>6, <1>7, StopsActions DEF Step, Saves

LEMMA KeptStays ==
    ASSUME TypeOK, InHand, NEW r \in Runs, Step(r), NEW m, Kept(m)
    PROVE  Kept(m)'
  BY TablesGrow, StoredStep DEF Kept

\* What the loop passes over is kept already.
LEMMA PassedOver ==
    ASSUME TypeOK, NEW r \in Runs, NEW n \in Nat, NEW l \in Nat, l <= Len(rows), MoveOn(r, n, ExistingIds(l)),
           NEW i \in DOMAIN held[r], n < i, i < pos'[r]
    PROVE  Kept(held[r][i])
  <1>1. held[r] \in Seq(Messages) /\ DOMAIN held[r] = 1 .. Len(held[r]) /\ Len(held[r]) \in Nat
    BY DEF TypeOK
  <1>2. i \notin ToSave(r, ExistingIds(l))
    <2> SUFFICES ASSUME i \in ToSave(r, ExistingIds(l)) PROVE FALSE
      OBVIOUS
    <2> DEFINE later == {j \in ToSave(r, ExistingIds(l)) : j > n}
    <2>1. PICK p \in later \union {Len(held[r]) + 1} : (\A j \in later : p <= j) /\ pos' = [pos EXCEPT ![r] = p]
      BY DEF MoveOn
    <2>2. i \in later /\ pos'[r] = p
      BY <1>1, <2>1 DEF TypeOK
    <2>3. p <= i /\ p \in Nat
      BY <1>1, <2>1, <2>2 DEF ToSave
    <2> QED BY <1>1, <2>2, <2>3
  <1>3. held[r][i].role \in {"human", "ai", "tool"}
    <2>1. held[r][i] \in Messages
      BY <1>1
    <2> QED BY <2>1, MessageFields
  <1>4. held[r][i].role = "human" \/ (held[r][i].role = "ai" /\ held[r][i].id \in ExistingIds(l))
    BY <1>2, <1>3 DEF ToSave
  <1>5. \A id \in ExistingIds(l) : Stored(id)
    BY DEF ExistingIds, Stored, AiRow, TypeOK
  <1> QED BY <1>4, <1>5 DEF Kept

LEMMA SaveCompleteStep ==
    ASSUME TypeOK, InHand, SaveSound, MessagesKnown, CallsKept, CallsFirst, SaveComplete, NEW r \in Runs, Step(r)
    PROVE  SaveComplete'
  <1> DEFINE Complete(q) ==
        HasRead(q) /\ at[q] # "ids" =>
            /\ at[q] = "call" => Current(q).role = "ai" /\ Stored(Current(q).id)
            /\ \A i \in DOMAIN held[q] : at[q] = "done" \/ i < pos[q] => Kept(held[q][i])
  <1>0. at \in [Runs -> Places] /\ from[r] \in Nat /\ pos[r] \in Nat /\ Len(rows) \in Nat
        /\ DOMAIN held[r] = 1 .. Len(held[r]) /\ Len(held[r]) \in Nat
        /\ from[r] <= Len(rows)
    BY DEF TypeOK, SaveSound
  <1>1. ASSUME NEW q \in Runs, q # r PROVE Complete(q)'
    <2>1. at'[q] = at[q] /\ held'[q] = held[q] /\ pos'[q] = pos[q] /\ told'[q] = told[q]
      BY <1>1, OthersKept, ToldStep
    <2>2. PICK h, c : h = held[q] /\ c = Current(q)
      OBVIOUS
    <2>3. Complete(q)
      BY DEF SaveComplete
    <2>4. (HasRead(q)' <=> HasRead(q)) /\ held'[q] = h /\ Current(q)' = c
      BY <2>1, <2>2 DEF HasRead, Current
    <2>5. Stored(c.id) => Stored(c.id)'
      BY StoredStep
    <2>6. \A i \in DOMAIN h : Kept(h[i]) => Kept(h[i])'
      BY KeptStays
    <2>7. HasRead(q)' /\ at'[q] # "ids" =>
            /\ at'[q] = "call" => c.role = "ai" /\ Stored(c.id)'
            /\ \A i \in DOMAIN h : at'[q] = "done" \/ i < pos'[q] => Kept(h[i])'
      BY <2>1, <2>2, <2>3, <2>4, <2>5, <2>6
    <2> QED BY <2>4, <2>7 DEF Kept, Stored, AiRow
  <1>2. ASSUME HasRead(r)', at'[r] # "ids" PROVE Complete(r)'
    <2>1. HasRead(r) /\ (ReadIds(r) \/ Saves(r) \/ Finish(r))
      BY <1>2, ReadSteps
    <2>2. held' = held
      BY <2>1, GoesOn DEF ReadIds, Finish
    <2>3. PICK h : h = held[r]
      OBVIOUS
    <2>4. ASSUME at'[r] = "call" => \E c : c = h[pos'[r]] /\ c.role = "ai" /\ Stored(c.id)',
                 \A i \in DOMAIN h : at'[r] = "done" \/ i < pos'[r] => Kept(h[i])'
          PROVE  Complete(r)'
      <3>1. held'[r] = h /\ Current(r)' = h[pos'[r]]
        BY <2>2, <2>3 DEF Current
      <3> QED BY <2>4, <3>1 DEF Kept, Stored, AiRow
    <2>5. CASE ReadIds(r)
      <3>1. at'[r] = "store" /\ MoveOn(r, 0, ExistingIds(Len(rows)))
        BY <1>0, <2>5 DEF ReadIds, Goto
      <3>2. ASSUME NEW i \in DOMAIN h, i < pos'[r] PROVE Kept(h[i])'
        <4>1. 0 < i /\ i \in DOMAIN held[r]
          BY <1>0, <2>3
        <4>2. Kept(held[r][i])
          BY <1>0, <3>1, <3>2, <4>1, PassedOver
        <4> QED BY <2>3, <4>2, KeptStays
      <3> QED BY <2>4, <3>1, <3>2
    <2>6. CASE Finish(r)
      <3>1. at[r] = "store" /\ pos[r] > Len(held[r]) /\ at'[r] = "done"
        BY <1>0, <2>6 DEF Finish, Saving, Goto
      <3>2. \A i \in DOMAIN h : Kept(h[i])
        BY <1>0, <2>1, <2>3, <3>1 DEF SaveComplete
      <3> QED BY <2>4, <3>1, <3>2, KeptStays
    <2>7. CASE Saves(r)
      <3>0. /\ at[r] \in {"store", "call"} /\ pos[r] \in DOMAIN held[r] /\ at'[r] \in {"store", "call"}
            /\ pos[r] \in DOMAIN h
        BY <2>3, <2>7, GoesOn DEF ToSave
      <3> PICK c : c = Current(r)
        OBVIOUS
      <3>7. c = h[pos[r]] /\ c.id = Current(r).id
        BY <2>3 DEF Current
      <3>1. \A i \in DOMAIN h : i < pos[r] => Kept(h[i])'
        <4>1. \A i \in DOMAIN h : i < pos[r] => Kept(h[i])
          BY <2>1, <2>3, <3>0 DEF SaveComplete
        <4> QED BY <4>1, KeptStays
      <3>2. ASSUME NextMessage(r), Kept(c)' PROVE \A i \in DOMAIN h : i < pos'[r] => Kept(h[i])'
        <4> SUFFICES ASSUME NEW i \in DOMAIN h, i < pos'[r] PROVE Kept(h[i])'
          OBVIOUS
        <4>1. CASE i > pos[r]
          <5>1. Kept(held[r][i])
            BY <1>0, <2>3, <3>2, <4>1, PassedOver DEF NextMessage
          <5> QED BY <2>3, <5>1, KeptStays
        <4>2. CASE i = pos[r]
          BY <3>2, <3>7, <4>2
        <4>3. CASE i < pos[r]
          BY <3>1, <4>3
        <4> QED BY <1>0, <2>3, <4>1, <4>2, <4>3
      <3>3. CASE SaveAiMessage(r)
        <4>1. Stored(c.id)'
          <5>1. rows' = Append(rows, Row("ai", c.id, r)) /\ Row("ai", c.id, r) \in TableRows
            BY <3>0, <3>3, <3>7, CurrentType, RowTypes DEF SaveAiMessage
          <5>2. /\ Len(rows) + 1 \in DOMAIN rows'
                /\ rows'[Len(rows) + 1] = Row("ai", c.id, r)
            BY <1>0, <5>1, AppendOne DEF TypeOK
          <5>3. \E i \in DOMAIN rows' : rows'[i].role = "ai" /\ rows'[i].id = c.id
            BY <5>2 DEF Row
          <5> QED BY <5>3 DEF Stored, AiRow
        <4>2. Kept(c)'
          BY <3>3, <4>1 DEF Kept, SaveAiMessage
        <4>5. c.role = "ai"
          BY <3>3, <3>7 DEF SaveAiMessage
        <4>3. CASE NextMessage(r) /\ at' = at
          BY <1>0, <2>4, <3>2, <3>3, <4>2, <4>3 DEF SaveAiMessage, Saving
        <4>4. CASE pos' = pos
          BY <1>0, <2>4, <3>0, <3>1, <3>7, <4>1, <4>4, <4>5
        <4> QED BY <3>3, <4>3, <4>4 DEF SaveAiMessage
      <3>4. CASE AddToolCall(r)
        <4>1. c.role = "ai" /\ Stored(c.id)
          BY <2>1, <3>4, <3>7 DEF AddToolCall, SaveComplete
        <4>2. Kept(c)'
          BY <4>1, StoredStep DEF Kept
        <4> QED BY <1>0, <2>4, <3>2, <3>4, <4>2 DEF AddToolCall, Goto
      <3>5. CASE SaveToolMessage(r)
        <4>1. /\ c.role = "tool" /\ NextMessage(r) /\ at' = at /\ at[r] = "store"
              /\ outputs' = IF c.id \in recorded THEN outputs \union {c.id} ELSE outputs
              /\ torn' = IF c.id \notin recorded /\ Adding(c.id) THEN torn \union {c.id} ELSE torn
          BY <3>5, <3>7 DEF SaveToolMessage, Saving
        <4>2. PICK j \in DOMAIN h : j < pos[r] /\ h[j].role = "ai" /\ h[j].id = c.id /\ h[j].call # "none"
          <5>1. ResultsFollow(h)
            BY <2>3 DEF CallsFirst
          <5> QED BY <3>0, <3>7, <4>1, <5>1 DEF ResultsFollow
        <4>3. Stored(c.id)
          BY <2>1, <2>3, <4>1, <4>2 DEF SaveComplete, Kept
        <4>4. CallKept(c.id)
          <5>1. h[j] \in AiAll
            BY <2>3, <4>2 DEF AiAll, AiOf
          <5> QED BY <4>2, <4>3, <5>1 DEF CallsKept
        <4>5. c.id \in outputs' \union torn'
          BY <4>1, <4>4 DEF CallKept
        <4>6. Kept(c)'
          BY <4>1, <4>5 DEF Kept
        <4> QED BY <2>4, <3>2, <4>1, <4>6
      <3> QED BY <2>7, <3>3, <3>4, <3>5 DEF Saves
    <2> QED BY <2>1, <2>5, <2>6, <2>7
  <1> QED BY <1>1, <1>2 DEF SaveComplete

LEMMA MetGrows ==
    ASSUME TypeOK, InHand, NEW r \in Runs, Step(r)
    PROVE  /\ met \subseteq met'
           /\ \A q \in Runs : Alone(q)' => Alone(q)
           /\ met' = met \/ (AiBegun(r) /\ met' = met \union {{r, q} : q \in InGraph})
  <1>1. met' = met \/ (AiBegun(r) /\ met' = met \union {{r, q} : q \in InGraph})
    BY AiStep DEF AiStill, AiGone, AiRead, AiRun, AiMade, AiBegun, OutOfGraph, Begin
  <1> QED BY <1>1 DEF Alone

LEMMA OwnKeptStep ==
    ASSUME TypeOK, InHand, MetAll, OwnKept, NEW r \in Runs, Step(r)
    PROVE  OwnKept'
  <1> SUFFICES ASSUME NEW x \in Runs, Alone(x)', NEW n \in 1 .. made'[x]
               PROVE  /\ AiIn(msgs, <<x, n>>)'
                      /\ \A q \in InGraph' : AiIn(held[q], <<x, n>>)'
                      /\ HasRead(x)' => AiIn(held[x], <<x, n>>)'
    BY DEF OwnKept
  <1> DEFINE id == <<x, n>>
  <1>0. made[x] \in Nat /\ made[r] \in Nat /\ n \in Nat /\ n >= 1
    BY MadeGrows DEF TypeOK
  <1>1. Alone(x) /\ met \subseteq met'
    BY MetGrows
  <1>2. \A q \in Runs : q # r => at'[q] = at[q] /\ held'[q] = held[q] /\ told'[q] = told[q]
    BY OthersKept, ToldStep
  \* An old message is where it was.
  <1>3. n <= made[x] => /\ AiIn(msgs, id) /\ (\A q \in InGraph : AiIn(held[q], id))
                        /\ HasRead(x) => AiIn(held[x], id)
    BY <1>0, <1>1 DEF OwnKept
  \* A new one is the run's own.
  <1>4. ASSUME made' = made PROVE n <= made[x]
    BY <1>0, <1>4
  <1>5. ASSUME NEW m \in Messages, AiMade(r, m), ~(n <= made[x])
        PROVE  x = r /\ m.id = id
    <2>1. made' = [made EXCEPT ![r] = made[r] + 1] /\ m.id = <<r, made[r] + 1>> /\ made \in [Runs -> Nat]
      BY <1>5 DEF AiMade, TypeOK
    <2>2. x = r
      BY <1>0, <1>5, <2>1
    <2>3. n = made[r] + 1
      BY <1>0, <1>5, <2>1, <2>2
    <2> QED BY <2>1, <2>2, <2>3
  <1>6. at[r] \in {"model", "tool"} => r \in InGraph
    BY DEF InGraph
  <1>7. AiIn(msgs', id) /\ (at'[r] \in {"model", "tool"} => AiIn(held'[r], id))
    <2>1. CASE AiStill(r) \/ AiGone(r) \/ AiRead(r)
      BY <1>3, <1>4, <2>1 DEF AiStill, AiGone, AiRead, OutOfGraph
    <2>2. CASE AiBegun(r)
      BY <1>3, <1>4, <2>2 DEF AiBegun, AiIn
    <2>3. CASE AiRun(r)
      BY <1>3, <1>4, <1>6, <2>3 DEF AiRun, AiIn
    <2>4. ASSUME NEW m \in Messages, AiMade(r, m)
          PROVE  AiIn(msgs', id) /\ AiIn(held'[r], id)
      <3>1. CASE n <= made[x]
        BY <1>3, <1>6, <2>4, <3>1 DEF AiMade, AiIn
      <3>2. CASE ~(n <= made[x])
        BY <1>5, <2>4, <3>2 DEF AiMade, AiIn
      <3> QED BY <3>1, <3>2
    <2> QED BY <2>1, <2>2, <2>3, <2>4, AiStep
  <1>8. ASSUME NEW q \in InGraph' PROVE AiIn(held'[q], id)
    <2>1. CASE q = r
      BY <1>7, <1>8, <2>1 DEF InGraph
    <2>2. CASE q # r
      <3>1. q \in InGraph /\ held'[q] = held[q] /\ q \in Runs
        BY <1>2, <1>8, <2>2 DEF InGraph
      <3>2. CASE n <= made[x]
        BY <1>3, <3>1, <3>2
      <3>3. CASE ~(n <= made[x])
        <4>1. PICK m \in Messages : AiMade(r, m)
          BY <1>4, <3>3, AiStep DEF AiStill, AiGone, AiRead, AiRun, AiBegun
        <4>2. x = r /\ r \in InGraph
          BY <1>5, <1>6, <3>3, <4>1 DEF AiMade
        <4>3. {r, q} \in met
          BY <2>2, <3>1, <4>2 DEF MetAll
        <4> QED BY <1>1, <2>2, <3>1, <4>2, <4>3 DEF Alone
      <3> QED BY <3>2, <3>3
    <2> QED BY <2>1, <2>2
  <1>9. ASSUME HasRead(x)' PROVE AiIn(held'[x], id)
    <2>1. CASE x # r
      <3>1. HasRead(x) /\ held'[x] = held[x]
        BY <1>2, <1>9, <2>1 DEF HasRead
      <3>2. n <= made[x]
        BY <1>4, <1>5, <2>1, AiStep DEF AiStill, AiGone, AiRead, AiRun, AiBegun
      <3> QED BY <1>3, <3>1, <3>2
    <2>2. CASE x = r
      <3>1. CASE AiRead(r)
        BY <1>3, <1>4, <2>2, <3>1 DEF AiRead
      <3>2. CASE HasRead(r) /\ (ReadIds(r) \/ Saves(r) \/ Finish(r))
        <4>1. held' = held /\ made' = made
          BY <3>2 DEF ReadIds, Saves, SaveAiMessage, AddToolCall, SaveToolMessage, Finish
        <4> QED BY <1>3, <1>4, <2>2, <3>2, <4>1
      <3> QED BY <1>9, <2>2, <3>1, <3>2, ReadSteps
    <2> QED BY <2>1, <2>2
  <1> QED BY <1>7, <1>8, <1>9 DEF AiIn, AiOf

\* A run that exists goes on existing, and one that is done has no step.
LEMMA StepPlaces ==
    ASSUME TypeOK, NEW r \in Runs, Step(r)
    PROVE  /\ at'[r] # "none" /\ at[r] # "done"
           /\ at[r] = "none" => \E k \in {"chat", "resume"} : Create(r, k)
  <1>0. at \in [Runs -> Places]
    BY DEF TypeOK
  <1> USE DEF Goto, Stop
  <1>1. CASE \E k \in {"chat", "resume"} : Create(r, k)
    BY <1>0, <1>1 DEF Create
  <1>2. CASE Begin(r) \/ \E call \in Calls \union {"none"} : ModelCalls(r, call)
    BY <1>0, <1>2, NextNodeType DEF Begin, ModelCalls
  <1>3. CASE ToolRuns(r) \/ ToolAsks(r) \/ CheckInterrupts(r) \/ ReadMessages(r) \/ ReadIds(r)
    BY <1>0, <1>3 DEF ToolRuns, ToolAsks, CheckInterrupts, AfterQuestion, ReadMessages, ReadIds
  <1>4. CASE SaveAiMessage(r) \/ AddToolCall(r) \/ SaveToolMessage(r)
    BY <1>0, <1>4 DEF SaveAiMessage, AddToolCall, SaveToolMessage, Saving
  <1>5. CASE SaveFails(r) \/ Finish(r) \/ Refused(r)
    BY <1>0, <1>5 DEF SaveFails, Finish, Refused
  <1>6. CASE Blocked(r) \/ GraphFails(r) \/ Cut(r) \/ Abandon(r) \/ Die(r)
    <2>1. at[r] \in Interior \union Handlers \union {"queued"}
      BY <1>6 DEF Blocked, GraphFails, Cut, Abandon, Die, Interior, Handlers
    <2>2. \E where \in {"blocked", "failed", "lost", "cut", "dead", "ended"} : at' = [at EXCEPT ![r] = where]
      BY <1>6, StopsActions DEF Stops
    <2> QED BY <1>0, <2>1, <2>2 DEF Interior, Handlers
  <1>7. CASE SavePartial(r) \/ CutAgain(r) \/ Requeue(r)
    BY <1>0, <1>7 DEF SavePartial, CutAgain, Requeue, Handlers
  <1> QED BY <1>1, <1>2, <1>3, <1>4, <1>5, <1>6, <1>7 DEF Step

LEMMA TipReadStep ==
    ASSUME TypeOK, InHand, TipRead, NEW r \in Runs, Step(r)
    PROVE  TipRead'
  <1>1. CASE msgs' = msgs /\ msgs # <<>>
    <2>1. PICK p \in Runs : at[p] # "none" /\ (HasRead(p) => held[p] = msgs)
      BY <1>1 DEF TipRead
    <2>2. CASE p # r
      BY <1>1, <2>1, <2>2, OthersKept, ToldStep DEF TipRead, HasRead
    <2>3. CASE p = r
      <3>1. HasRead(r)' => held'[r] = msgs
        <4>1. CASE AiRead(r)
          BY <4>1 DEF AiRead
        <4>2. CASE HasRead(r) /\ (ReadIds(r) \/ Saves(r) \/ Finish(r))
          <5>1. held' = held
            BY <4>2 DEF ReadIds, Saves, SaveAiMessage, AddToolCall, SaveToolMessage, Finish
          <5> QED BY <2>1, <2>3, <4>2, <5>1
        <4> QED BY <4>1, <4>2, ReadSteps
      <3> QED BY <1>1, <2>3, <3>1, StepPlaces DEF TipRead
    <2> QED BY <2>2, <2>3
  <1>2. CASE msgs' = msgs /\ msgs = <<>>
    BY <1>2 DEF TipRead
  <1>3. CASE held'[r] = msgs'
    BY <1>3, StepPlaces DEF TipRead
  <1>4. CASE Begin(r) \/ ToolRuns(r) \/ \E call \in Calls \union {"none"} : ModelCalls(r, call)
    <2>1. PICK ms : Extend(r, ms)
      BY <1>4 DEF Begin, ToolRuns, ModelCalls
    <2>2. held'[r] = msgs'
      BY <2>1 DEF Extend, TypeOK
    <2> QED BY <1>3, <2>2
  <1> QED BY <1>1, <1>2, <1>4, AiStep DEF AiStill, AiGone, AiRead, AiBegun, AiRun, AiMade

\* A row of a user's question is one of before, or that of the run just created.
LEMMA NewUserRow ==
    ASSUME TypeOK, InHand, NEW r \in Runs, Step(r), NEW i \in DOMAIN rows', rows'[i].role = "user"
    PROVE  \/ i \in DOMAIN rows /\ rows'[i] = rows[i]
           \/ /\ i = Len(rows) + 1 /\ rows'[i].id[1] = r
              /\ \E k \in {"chat", "resume"} : Create(r, k)
  <1>0. rows \in Seq(TableRows) /\ DOMAIN rows = 1 .. Len(rows) /\ Len(rows) \in Nat
    BY DEF TypeOK
  <1>1. ASSUME NEW e \in TableRows, rows' = Append(rows, e)
        PROVE  (i \in DOMAIN rows /\ rows'[i] = rows[i]) \/ (i = Len(rows) + 1 /\ rows'[i] = e)
    <2>1. /\ DOMAIN rows' = 1 .. Len(rows) + 1 /\ rows'[Len(rows) + 1] = e
          /\ \A n \in DOMAIN rows : rows'[n] = rows[n]
      BY <1>0, <1>1, AppendOne
    <2>2. i \in DOMAIN rows \/ i = Len(rows) + 1
      BY <1>0, <2>1
    <2> QED BY <2>1, <2>2
  <1>2. CASE \E k \in {"chat", "resume"} : Create(r, k)
    <2>1. rows' = Append(rows, Row("user", <<r, 0>>, r))
      BY <1>2 DEF Create
    <2> QED BY <1>1, <1>2, <2>1, RowTypes DEF Row
  <1>3. CASE SaveAiMessage(r)
    <2>1. rows' = Append(rows, Row("ai", Current(r).id, r)) /\ pos[r] \in DOMAIN held[r]
      BY <1>3 DEF SaveAiMessage, Saving, InHand, TypeOK
    <2>2. Row("ai", Current(r).id, r) \in TableRows
      BY <2>1, CurrentType, RowTypes
    <2> QED BY <1>1, <2>1, <2>2 DEF Row
  <1>4. CASE SavePartial(r)
    <2>1. rows' = rows \/ rows' = Append(rows, Row("partial", <<r, 0>>, r))
      BY <1>4 DEF SavePartial
    <2> QED BY <1>1, <2>1, RowTypes DEF Row
  <1>5. CASE rows' = rows
    BY <1>5
  <1>6. CASE Begin(r) \/ \E call \in Calls \union {"none"} : ModelCalls(r, call)
    BY <1>5, <1>6 DEF Begin, ModelCalls, tables
  <1>7. CASE ToolRuns(r) \/ ToolAsks(r) \/ CheckInterrupts(r) \/ ReadMessages(r) \/ ReadIds(r)
    BY <1>5, <1>7 DEF ToolRuns, ToolAsks, CheckInterrupts, ReadMessages, ReadIds, tables
  <1>8. CASE AddToolCall(r) \/ SaveToolMessage(r) \/ SaveFails(r) \/ Finish(r) \/ Refused(r)
    BY <1>5, <1>8 DEF AddToolCall, SaveToolMessage, SaveFails, Finish, Refused, tables
  <1>9. CASE Blocked(r) \/ GraphFails(r) \/ Cut(r) \/ Abandon(r) \/ Die(r)
    BY <1>5, <1>9, StopsActions DEF Stops
  <1>10. CASE CutAgain(r) \/ Requeue(r)
    BY <1>5, <1>10 DEF CutAgain, Requeue, tables
  <1> QED BY <1>2, <1>3, <1>4, <1>6, <1>7, <1>8, <1>9, <1>10 DEF Step

LEMMA CreatedInOrderStep ==
    ASSUME TypeOK, InHand, CreatedInOrder, NEW r \in Runs, Step(r)
    PROVE  CreatedInOrder'
  <1>1. \A q \in Runs : q # r => at'[q] = at[q] /\ held'[q] = held[q]
    BY OthersKept
  <1>2. ASSUME NEW x \in Runs, NEW q \in Runs, at'[x] = "none", x < q
        PROVE  at'[q] = "none"
    <2>1. x # r /\ at[x] = "none"
      BY <1>1, <1>2, StepPlaces
    <2>2. at[q] = "none"
      BY <1>2, <2>1 DEF CreatedInOrder
    <2>3. q # r
      <3> SUFFICES ASSUME q = r PROVE FALSE
        OBVIOUS
      <3>1. PICK k : Create(r, k)
        BY <2>2, StepPlaces
      <3>2. x \in 1 .. r - 1
        BY <1>2 DEF Runs
      <3> QED BY <2>1, <3>1, <3>2 DEF Create
    <2> QED BY <1>1, <2>2, <2>3
  <1>3. ASSUME NEW x \in Runs, at'[x] = "none" PROVE held'[x] = <<>>
    BY <1>1, <1>3, StepPlaces DEF CreatedInOrder
  <1>4. ASSUME NEW i \in DOMAIN rows', rows'[i].role = "user"
        PROVE  rows'[i].id[1] \in Runs /\ at'[rows'[i].id[1]] # "none"
    BY <1>1, <1>4, NewUserRow, StepPlaces DEF CreatedInOrder
  <1> QED BY <1>2, <1>3, <1>4 DEF CreatedInOrder

LEMMA CalmStep ==
    ASSUME NEW r \in Runs, Step(r)
    PROVE  \/ calm' = calm
           \/ /\ calm' = calm \union {r} /\ \A q \in 1 .. r - 1 : Settled(q)
              /\ \E k \in {"chat", "resume"} : Create(r, k)
  <1> USE DEF past
  <1>1. CASE \E k \in {"chat", "resume"} : Create(r, k)
    BY <1>1 DEF Create
  <1>2. CASE Begin(r) \/ \E call \in Calls \union {"none"} : ModelCalls(r, call)
    BY <1>2 DEF Begin, ModelCalls
  <1>3. CASE ToolRuns(r) \/ ToolAsks(r) \/ CheckInterrupts(r) \/ ReadMessages(r) \/ ReadIds(r)
    BY <1>3 DEF ToolRuns, ToolAsks, CheckInterrupts, ReadMessages, ReadIds
  <1>4. CASE SaveAiMessage(r) \/ AddToolCall(r) \/ SaveToolMessage(r)
    BY <1>4 DEF SaveAiMessage, AddToolCall, SaveToolMessage
  <1>5. CASE SaveFails(r) \/ Finish(r) \/ Refused(r)
    BY <1>5 DEF SaveFails, Finish, Refused
  <1>6. CASE Blocked(r) \/ GraphFails(r) \/ Cut(r) \/ Abandon(r) \/ Die(r)
    BY <1>6, StopsActions DEF Stops
  <1>7. CASE SavePartial(r) \/ CutAgain(r) \/ Requeue(r)
    BY <1>7 DEF SavePartial, CutAgain, Requeue
  <1> QED BY <1>1, <1>2, <1>3, <1>4, <1>5, <1>6, <1>7 DEF Step

\* When all runs have settled, what is in the thread is stored.
LEMMA TipStored ==
    ASSUME TypeOK, TipRead, SaveComplete, CreatedInOrder, NEW r \in Runs, at[r] = "none",
           \A q \in 1 .. r - 1 : Settled(q)
    PROVE  \A m \in AiOf(msgs) : Stored(m.id)
  <1>1. CASE msgs = <<>>
    BY <1>1, AiEmpty
  <1>2. ASSUME NEW p \in Runs, at[p] # "none", HasRead(p) => held[p] = msgs
        PROVE  \A m \in AiOf(msgs) : Stored(m.id)
    <2>1. p \in 1 .. r - 1
      <3>1. ~(r < p) /\ p # r
        BY <1>2 DEF CreatedInOrder
      <3> QED BY <3>1 DEF Runs
    <2>2. HasRead(p) /\ at[p] = "done" /\ held[p] = msgs
      BY <1>2, <2>1 DEF Settled, HasRead
    <2>3. \A i \in DOMAIN msgs : Kept(msgs[i])
      BY <2>2 DEF SaveComplete
    <2> QED BY <2>3 DEF AiOf, Kept
  <1> QED BY <1>1, <1>2 DEF TipRead

LEMMA CalmInvStep ==
    ASSUME TypeOK, InHand, SaveSound, TipRead, SaveComplete, CreatedInOrder, CalmInv, NEW r \in Runs, Step(r)
    PROVE  CalmInv'
  <1>0. /\ rows \in Seq(TableRows) /\ DOMAIN rows = 1 .. Len(rows) /\ Len(rows) \in Nat
        /\ from[r] \in Nat /\ pos[r] \in Nat /\ Len(held[r]) \in Nat
        /\ \A q \in Runs : q \in Nat
    BY DEF TypeOK, Runs
  <1>1. \A q \in Runs : q # r => /\ at'[q] = at[q] /\ held'[q] = held[q]
                                 /\ pos'[q] = pos[q] /\ from'[q] = from[q]
    BY OthersKept
  <1>2. at[r] # "done" /\ at'[r] # "none"
    BY StepPlaces
  <1>3. ASSUME NEW id, NEW i, StoredBefore(id, i) PROVE StoredBefore(id, i)'
    BY <1>3, RowsKept DEF StoredBefore, AiRow
  \* A run that was calm before.
  <1>4. ASSUME NEW a \in calm
        PROVE  /\ at'[a] # "none" /\ \A q \in Runs : q < a => at'[q] = "done"
               /\ \A i \in DOMAIN rows' : rows'[i].role = "user" /\ rows'[i].id[1] = a => CalmBefore(a, i)'
    <2>1. a \in Runs /\ at[a] # "none" /\ (\A q \in Runs : q < a => at[q] = "done") /\ r >= a
      <3>1. a \in Runs /\ at[a] # "none" /\ \A q \in Runs : q < a => at[q] = "done"
        BY DEF CalmInv, TypeOK
      <3> QED BY <1>0, <1>2, <3>1
    <2>2. at'[a] # "none" /\ \A q \in Runs : q < a => at'[q] = "done"
      BY <1>1, <1>2, <2>1
    <2>3. ASSUME NEW i \in DOMAIN rows', rows'[i].role = "user", rows'[i].id[1] = a
          PROVE  CalmBefore(a, i)'
      <3>1. i \in DOMAIN rows /\ rows'[i] = rows[i]
        <4>1. CASE rows'[i].id[1] = r /\ \E k \in {"chat", "resume"} : Create(r, k)
          BY <2>1, <2>3, <4>1 DEF Create
        <4> QED BY <2>3, <4>1, NewUserRow
      <3>2. CalmBefore(a, i)
        BY <2>3, <3>1 DEF CalmInv
      <3> DEFINE Old(m) == m.id[1] < a => StoredBefore(m.id, i)
      <3>3. (\A m \in AiOf(msgs) : Old(m)) /\ \A q \in Runs : q >= a => \A m \in AiOf(held[q]) : Old(m)
        BY <3>2 DEF CalmBefore
      <3>4. (\A m \in AiOf(msgs') : Old(m)) /\ \A m \in AiOf(held'[r]) : Old(m)
        <4>1. ASSUME NEW m \in Messages, AiMade(r, m) PROVE ~(m.id[1] < a)
          BY <1>0, <2>1, <4>1 DEF AiMade
        <4>2. (\A m \in AiOf(msgs) : Old(m)) /\ \A m \in AiOf(held[r]) : Old(m)
          BY <2>1, <3>3
        <4> HIDE DEF Old
        <4>3. ASSUME NEW m \in Messages, AiMade(r, m) PROVE Old(m)
          BY <4>1, <4>3 DEF Old
        <4> QED BY <4>2, <4>3, AiStep, AiEmpty DEF AiStill, AiGone, AiBegun, AiRun, AiRead, AiMade
      <3>5. \A q \in Runs : q >= a => \A m \in AiOf(held'[q]) : Old(m)
        BY <1>1, <3>3, <3>4
      <3>6. ASSUME NEW q \in Runs, q >= a, at'[q] \in {"store", "call"}, pos'[q] <= Len(held'[q])
            PROVE  i <= from'[q]
        <4>1. CASE q # r
          BY <1>1, <3>2, <3>6, <4>1 DEF CalmBefore
        <4>2. CASE q = r /\ Saves(r)
          <5>1. /\ from' = from /\ at[r] \in {"store", "call"} /\ pos[r] \in DOMAIN held[r]
            BY <4>2, GoesOn DEF ToSave
          <5>2. pos[r] <= Len(held[r])
            BY <5>1 DEF TypeOK
          <5> QED BY <3>2, <3>6, <4>2, <5>1, <5>2 DEF CalmBefore
        <4>3. CASE q = r /\ ~Saves(r)
          BY <1>0, <3>1, <3>6, <4>3, NoSave
        <4> QED BY <4>1, <4>2, <4>3
      <3> QED BY <1>3, <3>4, <3>5, <3>6 DEF CalmBefore, AiOf
    <2> QED BY <2>2, <2>3
  \* The run just created.
  <1>5. ASSUME NEW k \in {"chat", "resume"}, Create(r, k), \A q \in 1 .. r - 1 : Settled(q)
        PROVE  /\ at'[r] # "none" /\ \A q \in Runs : q < r => at'[q] = "done"
               /\ \A i \in DOMAIN rows' : rows'[i].role = "user" /\ rows'[i].id[1] = r => CalmBefore(r, i)'
    <2>1. at[r] = "none" /\ UNCHANGED <<msgs, held>> /\ at'[r] = "queued"
      BY <1>5 DEF Create, thread, Goto, TypeOK
    <2>2. \A q \in Runs : q < r => at'[q] = "done"
      BY <1>1, <1>5 DEF Settled, Runs
    <2>3. ASSUME NEW i \in DOMAIN rows', rows'[i].role = "user", rows'[i].id[1] = r
          PROVE  CalmBefore(r, i)'
      <3>1. i = Len(rows) + 1
        BY <2>1, <2>3, NewUserRow DEF CreatedInOrder
      <3>2. \A m \in AiOf(msgs) : StoredBefore(m.id, i)'
        <4>1. \A m \in AiOf(msgs) : StoredBefore(m.id, i)
          BY <1>0, <1>5, <2>1, <3>1, TipStored DEF Stored, StoredBefore
        <4> QED BY <1>3, <4>1
      <3>3. ASSUME NEW q \in Runs, q >= r
            PROVE  held'[q] = <<>> /\ at'[q] \notin {"store", "call"}
        <4>1. at[q] = "none" /\ held[q] = <<>>
          BY <1>0, <2>1, <3>3 DEF CreatedInOrder
        <4> QED BY <1>1, <2>1, <4>1
      <3> QED BY <2>1, <3>2, <3>3, AiEmpty DEF CalmBefore, AiOf
    <2> QED BY <2>1, <2>2, <2>3
  <1> QED BY <1>4, <1>5, CalmStep DEF CalmInv

LEMMA QuestionsStep ==
    ASSUME TypeOK, InHand, SaveSound, MessagesKnown, CreatedInOrder, CalmInv, QuestionsFollowAnswers,
           NEW r \in Runs, Step(r)
    PROVE  QuestionsFollowAnswers'
  <1> SUFFICES ASSUME NEW i \in DOMAIN rows', NEW j \in DOMAIN rows', i < j,
                      rows'[i].role = "user", AiRow(j)', rows'[i].id[1] \in calm'
               PROVE  rows'[j].id[1] >= rows'[i].id[1]
    BY DEF QuestionsFollowAnswers
  <1>0. /\ rows \in Seq(TableRows) /\ DOMAIN rows = 1 .. Len(rows) /\ Len(rows) \in Nat
        /\ \A q \in Runs : q \in Nat
    BY DEF TypeOK, Runs
  <1>1. i \in DOMAIN rows /\ rows'[i] = rows[i]
    BY <1>0, NewUserRow, NewAiRow
  <1> DEFINE a == rows[i].id[1]
  <1>2. a \in calm /\ a \in Runs
    <2>1. a \in Runs /\ at[a] # "none" /\ a \in calm'
      BY <1>1 DEF CreatedInOrder
    <2> HIDE DEF a
    <2>2. calm' = calm \/ (calm' = calm \union {r} /\ at[r] = "none")
      BY CalmStep DEF Create
    <2> QED BY <2>1, <2>2
  <1>3. CASE j \in DOMAIN rows /\ rows'[j] = rows[j] /\ AiRow(j)
    BY <1>1, <1>2, <1>3 DEF QuestionsFollowAnswers
  <1>4. CASE /\ SaveAiMessage(r) /\ rows'[j].id = Current(r).id
             /\ pos[r] \in DOMAIN held[r] /\ Current(r) \in AiOf(held[r])
    <2>1. Saves(r) /\ at[r] = "store" /\ pos[r] <= Len(held[r]) /\ Current(r).role = "ai"
      BY <1>4 DEF Saves, SaveAiMessage, Saving
    <2>2. r >= a
      BY <1>0, <1>2, <2>1 DEF CalmInv
    <2>3. CalmBefore(a, i)
      BY <1>1, <1>2 DEF CalmInv
    <2>4. i <= from[r] /\ from[r] \in Nat /\ from[r] <= Len(rows)
      BY <2>1, <2>2, <2>3 DEF CalmBefore, TypeOK, SaveSound
    <2>5. Current(r).id[1] \in Runs
      BY <1>4, AiKnown DEF AiAll
    <2>6. ASSUME Current(r).id[1] < a PROVE FALSE
      <3>1. PICK k \in DOMAIN rows : k < i /\ AiRow(k) /\ rows[k].id = Current(r).id
        BY <1>4, <2>2, <2>3, <2>6 DEF CalmBefore, StoredBefore
      <3>2. Current(r).id \in ExistingIds(from[r])
        BY <1>0, <1>1, <2>4, <3>1 DEF ExistingIds, AiRow
      <3>3. pos[r] \in ToSave(r, ExistingIds(from[r]))
        BY <2>1, GoesOn
      <3> QED BY <2>1, <3>2, <3>3 DEF ToSave, Current
    <2> QED BY <1>0, <1>1, <1>2, <1>4, <2>5, <2>6
  <1> QED BY <1>3, <1>4, NewAiRow

-----------------------------------------------------------------------------
(* The theorems *)

IInv == TypeOK /\ InHand /\ MessagesKnown /\ SaveSound /\ OwnRows /\ StoredOnce /\ AnswerInv
        /\ StoreInv

LEMMA Initially == Init => IInv
  <1> SUFFICES ASSUME Init PROVE IInv
    OBVIOUS
  <1>1. TypeOK
    BY TypeInit
  <1>2. InHand /\ SaveSound /\ OwnRows /\ StoredOnce
    BY DEF Init, InHand, SaveSound, OwnRows, StoredOnce
  <1>3. MessagesKnown
    BY KnownEmpty DEF Init, MessagesKnown
  <1>4. AnswerInv
    BY DEF Init, AnswerInv, MetAll, AnsweredOnce, InGraph
  <1>5. SameCalls /\ RowsMade /\ CallsKept /\ CallsFirst
    <2>1. AiAll = {}
      BY AiEmpty DEF Init, AiAll
    <2> QED BY <2>1 DEF Init, SameCalls, RowsMade, CallsKept, CallsFirst, ResultsFollow
  <1>6. SaveComplete /\ OwnKept /\ TipRead /\ CreatedInOrder
    BY DEF Init, SaveComplete, OwnKept, TipRead, CreatedInOrder, HasRead
  <1>7. CalmInv /\ QuestionsFollowAnswers
    BY DEF Init, CalmInv, QuestionsFollowAnswers
  <1> QED BY <1>1, <1>2, <1>3, <1>4, <1>5, <1>6, <1>7 DEF IInv, StoreInv

LEMMA Inductive == IInv /\ [Next]_vars => IInv'
  <1> SUFFICES ASSUME IInv, [Next]_vars PROVE IInv'
    OBVIOUS
  <1>1. TypeOK'
    BY TypeStep DEF IInv
  <1>2. ASSUME NEW r \in Runs, Step(r) PROVE IInv'
    <2>1. InHand' /\ MessagesKnown' /\ SaveSound' /\ OwnRows' /\ StoredOnce' /\ AnswerInv'
      BY <1>1, <1>2, InHandStep, MessagesKnownStep, SaveSoundStep, OwnRowsStep, StoredOnceStep, AnswerInvStep DEF IInv
    <2>2. SameCalls' /\ RowsMade' /\ CallsKept' /\ CallsFirst'
      BY <1>2, SameCallsStep, RowsMadeStep, CallsKeptStep, CallsFirstStep DEF IInv, StoreInv
    <2>3. SaveComplete' /\ OwnKept' /\ TipRead' /\ CreatedInOrder'
      BY <1>2, SaveCompleteStep, OwnKeptStep, TipReadStep, CreatedInOrderStep DEF IInv, StoreInv, AnswerInv
    <2>4. CalmInv' /\ QuestionsFollowAnswers'
      BY <1>2, CalmInvStep, QuestionsStep DEF IInv, StoreInv
    <2> QED BY <1>1, <2>1, <2>2, <2>3, <2>4 DEF IInv, StoreInv
  <1>3. CASE UNCHANGED vars
    <2> USE DEF vars, thread, tables, local, past
    <2>1. InHand' /\ MessagesKnown' /\ SaveSound' /\ OwnRows' /\ StoredOnce'
      BY <1>3 DEF IInv, InHand, Dangling, MessagesKnown, KnownIn, SaveSound, ToSave, ExistingIds, OwnRows,
                  StoredOnce, AiRow
    <2>2. AnswerInv'
      BY <1>3 DEF IInv, AnswerInv, MetAll, Past, NotLast, Beside, AnsweredOnce, InGraph, Dangling
    <2>3. SameCalls' /\ RowsMade' /\ CallsKept' /\ CallsFirst'
      BY <1>3 DEF IInv, StoreInv, SameCalls, AiAll, AiOf, RowsMade, AiRow, CallsKept, CallKept, Adding, Current,
                  Stored, CallsFirst, ResultsFollow
    <2>4. SaveComplete'
      BY <1>3 DEF IInv, StoreInv, SaveComplete, HasRead, Kept, Stored, AiRow, Current
    <2>6. OwnKept'
      <3>1. InGraph' = InGraph /\ \A r \in Runs : (HasRead(r)' <=> HasRead(r)) /\ (Alone(r)' <=> Alone(r))
        BY <1>3 DEF InGraph, HasRead, Alone
      <3>2. msgs' = msgs /\ held' = held /\ made' = made
        BY <1>3
      <3>3. OwnKept
        BY DEF IInv, StoreInv
      <3>4. \A id : /\ AiIn(msgs, id)' <=> AiIn(msgs, id)
                    /\ \A q \in Runs : AiIn(held[q], id)' <=> AiIn(held[q], id)
        BY <3>2 DEF AiIn, AiOf
      <3>5. \A q \in InGraph : q \in Runs
        BY DEF InGraph
      <3> QED BY <3>1, <3>2, <3>3, <3>4, <3>5 DEF OwnKept
    <2>7. TipRead' /\ CreatedInOrder'
      BY <1>3 DEF IInv, StoreInv, TipRead, HasRead, CreatedInOrder
    <2>5. CalmInv' /\ QuestionsFollowAnswers'
      BY <1>3 DEF IInv, StoreInv, CalmInv, CalmBefore, StoredBefore, AiOf, AiRow, QuestionsFollowAnswers
    <2> QED BY <1>1, <2>1, <2>2, <2>3, <2>4, <2>5, <2>6, <2>7 DEF IInv, StoreInv
  <1> QED BY <1>2, <1>3, NextIsStep

LEMMA Invariantly == Spec => []IInv
  BY Initially, Inductive, PTL DEF Spec

\* ChatThread is type correct, and a stream that looks at a message has one.
THEOREM TypeCorrect == Spec => [](TypeOK /\ InHand)
  <1>1. IInv => TypeOK /\ InHand
    BY DEF IInv
  <1> QED BY Invariantly, <1>1, PTL

\* save_messages_from_langgraph_state stores an AI message twice only from two
\* runs whose saves overlap, the later one having read the ids before the
\* earlier row was there.
THEOREM AnswerStoredOnce == Spec => []StoredOnce
  <1>1. IInv => StoredOnce
    BY DEF IInv
  <1> QED BY Invariantly, <1>1, PTL

\* However many resumes create_agent_run_view accepts for a question, two of
\* them answer it only if they were in the agent's graph at the same time.
THEOREM QuestionAnsweredOnce == Spec => []AnsweredOnce
  <1>1. IInv => AnsweredOnce
    BY DEF IInv, AnswerInv
  <1> QED BY Invariantly, <1>1, PTL

\* create_agent_run_view stores the question as it creates the run: when every
\* earlier run has settled, none of their answers is stored after it.
THEOREM QuestionsInOrder == Spec => []QuestionsFollowAnswers
  <1>1. IInv => QuestionsFollowAnswers
    BY DEF IInv, StoreInv
  <1> QED BY Invariantly, <1>1, PTL

\* save_messages_from_langgraph_state, when it reports no error, has stored all
\* it read, and a run that was alone in the graph has read all that it made.
THEOREM SettledRunIsStored == Spec => []SettledIsStored
  <1>1. ASSUME IInv, NEW r \in Runs, Settled(r), NEW i \in DOMAIN held[r], NEW m, m = held[r][i]
        PROVE  /\ m.role = "ai" => Stored(m.id)
               /\ m.call # "none" => m.id \in recorded \union torn \/ Adding(m.id)
               /\ m.role = "tool" => m.id \in outputs \union torn
    <2>1. Kept(m)
      BY <1>1 DEF IInv, StoreInv, SaveComplete, HasRead, Settled
    <2>2. CASE m.call # "none"
      <3>1. m.role = "ai"
        BY <1>1, <2>2 DEF IInv, MessagesKnown, KnownIn
      <3>2. m \in AiAll
        BY <1>1, <3>1 DEF AiAll, AiOf
      <3> QED BY <1>1, <2>1, <2>2, <3>1, <3>2 DEF Kept, IInv, StoreInv, CallsKept, CallKept
    <2> QED BY <2>1, <2>2 DEF Kept
  <1>2. ASSUME IInv, NEW r \in Runs, Settled(r), NEW n \in 1 .. made[r], Alone(r)
        PROVE  Stored(<<r, n>>)
    <2>1. HasRead(r) /\ at[r] = "done"
      BY <1>2 DEF HasRead, Settled
    <2>2. AiIn(held[r], <<r, n>>)
      BY <1>2, <2>1 DEF IInv, StoreInv, OwnKept
    <2>3. PICK i \in DOMAIN held[r] : held[r][i].role = "ai" /\ held[r][i].id = <<r, n>>
      BY <2>2 DEF AiIn, AiOf
    <2>4. Kept(held[r][i])
      BY <1>2, <2>1 DEF IInv, StoreInv, SaveComplete
    <2> QED BY <2>3, <2>4 DEF Kept
  <1>3. IInv => SettledIsStored
    BY <1>1, <1>2 DEF SettledIsStored, Alone
  <1> QED BY Invariantly, <1>3, PTL
=============================================================================
