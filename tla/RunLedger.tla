------------------------------ MODULE RunLedger ------------------------------
(***************************************************************************)
(* What the run API promises about the rows a reader can fetch, whatever   *)
(* the threads that write them do: a run is opened once, closed at most    *)
(* once with a final status, may be marked cancelled at any time, and only *)
(* collects trace records from the moment its row exists.  A backend that  *)
(* does not survive the process may lose everything, and whoever was       *)
(* writing then never writes again.                                        *)
(***************************************************************************)
EXTENDS Integers

CONSTANTS
    Runs,           \* run ids
    FinalStatuses   \* statuses a finished execution may be saved with; none
                    \* of them is "absent", "running" or "cancelled"

VARIABLES
    status,    \* the status column of each run's row
    recorded,  \* steps, tool calls, artifacts and evaluations of the run
    settled    \* nobody will open or close the run any more

ledgerVars == <<status, recorded, settled>>

LedgerTypeOK ==
    /\ status \in [Runs -> FinalStatuses \cup {"absent", "running", "cancelled"}]
    /\ recorded \in [Runs -> Nat]
    /\ settled \in [Runs -> BOOLEAN]

Init ==
    /\ status = [r \in Runs |-> "absent"]
    /\ recorded = [r \in Runs |-> 0]
    /\ settled = [r \in Runs |-> FALSE]

Open(r) ==
    /\ status[r] = "absent"
    /\ ~settled[r]
    /\ status' = [status EXCEPT ![r] = "running"]
    /\ UNCHANGED <<recorded, settled>>

Record(r) ==
    /\ status[r] # "absent"
    /\ recorded' = [recorded EXCEPT ![r] = @ + 1]
    /\ UNCHANGED <<status, settled>>

Close(r) ==
    /\ status[r] \in {"running", "cancelled"}
    /\ ~settled[r]
    /\ \E s \in FinalStatuses : status' = [status EXCEPT ![r] = s]
    /\ settled' = [settled EXCEPT ![r] = TRUE]
    /\ UNCHANGED recorded

Cancel(r) ==
    /\ status[r] # "absent"
    /\ status' = [status EXCEPT ![r] = "cancelled"]
    /\ UNCHANGED <<recorded, settled>>

\* The writers of some runs give up or die; their rows stay as they are.
Settle ==
    /\ settled' \in [Runs -> BOOLEAN]
    /\ \A r \in Runs : settled[r] => settled'[r]
    /\ UNCHANGED <<status, recorded>>

\* Rows and records are lost together, and with them every open run.
Lose ==
    /\ status' = [r \in Runs |-> "absent"]
    /\ recorded' = [r \in Runs |-> 0]
    /\ settled' \in [Runs -> BOOLEAN]
    /\ \A r \in Runs : settled[r] \/ status[r] # "absent" => settled'[r]

Next ==
    \/ \E r \in Runs : Open(r) \/ Record(r) \/ Close(r) \/ Cancel(r)
    \/ Settle
    \/ Lose

Spec == Init /\ [][Next]_ledgerVars

-----------------------------------------------------------------------------

\* A trace record never exists without the row of its run: the foreign keys
\* of agent_steps, tool_calls, artifacts and evaluation_results.
RecordsHaveRun == \A r \in Runs : recorded[r] > 0 => status[r] # "absent"

\* Once nobody writes a run any more, a reader sees its status change only by
\* a cancellation or by the loss of the whole repository.
SettledOnlyCancelled ==
    [][\A r \in Runs :
        settled[r] => status'[r] \in {status[r], "cancelled", "absent"}]_ledgerVars

=============================================================================
