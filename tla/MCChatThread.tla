----------------------------- MODULE MCChatThread -----------------------------
(***************************************************************************)
(* ChatThread for TLC, one complication at a time: a run calls another     *)
(* tool than the asking one, or a fault strikes, or there is a third run,  *)
(* which is a resume.                                                      *)
(***************************************************************************)
EXTENDS ChatThread

CallsTool(ms) == \E i \in DOMAIN ms : ms[i].call = "tool"

Complications == {c \in {"tool", "fault", "third"} :
    CASE c = "tool"  -> CallsTool(msgs) \/ \E r \in Runs : CallsTool(held[r])
      [] c = "fault" -> faults < MaxFaults
      [] c = "third" -> at[3] # "none"}

OneComplication == /\ Cardinality(Complications) <= 1
                   /\ at[3] # "none" => kind[3] = "resume"

MCSpec == Init /\ [][Next /\ OneComplication']_vars
=============================================================================
