------------------------------ MODULE RunLedger ------------------------------
(***************************************************************************)
(* What connector_runs promises about discovery runs and deltas: a run is  *)
(* 'ok' only if its facts are in the inventory, they land in the step that *)
(* makes it 'ok', and 'error' is final.  ConnectorRun implements it.       *)
(***************************************************************************)
CONSTANT Runs

VARIABLES status,   \* status[r]: "none" until the run is recorded
          landed    \* the runs whose facts are in the inventory

vars == <<status, landed>>

Init == /\ status = [r \in Runs |-> "none"]
        /\ landed = {}

Open(r) == /\ status[r] = "none"
           /\ status' = [status EXCEPT ![r] = "partial"]
           /\ UNCHANGED landed

\* A delta is recorded and lands in one transaction.
Land(r) == /\ status[r] \in {"none", "partial"}
           /\ status' = [status EXCEPT ![r] = "ok"]
           /\ landed' = landed \cup {r}

Fail(r) == /\ status[r] = "partial"
           /\ status' = [status EXCEPT ![r] = "error"]
           /\ UNCHANGED landed

\* The connection broke after COMMIT was executed and before it was confirmed:
\* the run is reported as failed although its facts are there.
Doubt(r) == /\ status[r] = "ok"
            /\ status' = [status EXCEPT ![r] = "error"]
            /\ UNCHANGED landed

Next == \E r \in Runs : Open(r) \/ Land(r) \/ Fail(r) \/ Doubt(r)

Spec == Init /\ [][Next]_vars

=============================================================================
