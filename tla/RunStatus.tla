----------------------------- MODULE RunStatus ------------------------------
(***************************************************************************)
(* What the rest of the system may rely on about one run: the life of its  *)
(* status, as the API, the SSE endpoint and the browser read it.           *)
(* It says nothing of workers, queues or signals.  RunWorker implements    *)
(* it, and RunCreation uses its steps for the runs it creates.             *)
(***************************************************************************)
EXTENDS RunRow

VARIABLE status

Init == status = CreatedStatus

\* An attempt starts.  It may do so over a cancel request.
Start == /\ status \in ActiveStatuses
         /\ status' = "running"

AskToCancel == /\ status \in ActiveStatuses
               /\ status' = "cancel_requested"

\* A run nobody started or cancelled can only fail.
Reject == /\ status = "pending"
          /\ status' = "failed"

Finish == /\ status \in {"running", "cancel_requested"}
          /\ status' \in TERMINAL_RUN_STATUSES

Next == Start \/ AskToCancel \/ Reject \/ Finish

Spec == Init /\ [][Next]_status
=============================================================================
