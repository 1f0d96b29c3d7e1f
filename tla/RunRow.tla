------------------------------- MODULE RunRow -------------------------------
(***************************************************************************)
(* The status column of one row of the agent_runs table and the three      *)
(* writes AgentRunRepository makes to it.  Every write first takes the row *)
(* lock (SELECT ... FOR UPDATE), so a write is one step; who holds the     *)
(* lock across several steps is for the modules that use these operators.  *)
(***************************************************************************)

TERMINAL_RUN_STATUSES == {"completed", "failed", "cancelled", "interrupted"}

ActiveStatuses == {"pending", "running", "cancel_requested"}

RunStatuses == ActiveStatuses \union TERMINAL_RUN_STATUSES

IsTerminal(s) == s \in TERMINAL_RUN_STATUSES

\* create_run inserts the row with this status.
CreatedStatus == "pending"

\* mark_running: a terminal row is left alone, any other becomes running,
\* a cancel_requested one included.
MarkRunning(s) == IF IsTerminal(s) THEN s ELSE "running"

\* request_cancel: a terminal row is left alone.
RequestCancel(s) == IF IsTerminal(s) THEN s ELSE "cancel_requested"

\* Mutant: the row is overwritten whatever its status.
SetTerminalStatusAlways(s, t) == t

\* Mutant: only a running row is settled, a cancel_requested one is forgotten.
SetTerminalStatusOfRunning(s, t) == IF s = "running" THEN t ELSE s

\* set_terminal_status: the first terminal status is the one that stays.
SetTerminalStatus(s, t) == IF IsTerminal(s) THEN s ELSE t
=============================================================================
