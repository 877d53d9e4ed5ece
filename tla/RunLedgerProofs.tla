-------------------------- MODULE RunLedgerProofs --------------------------
(***************************************************************************)
(* What the run ledger guarantees its readers, for any set of runs and     *)
(* statuses.  RunServiceProofs shows that the service implements it.       *)
(***************************************************************************)
EXTENDS RunLedger, TLAPS

LedgerInv == LedgerTypeOK /\ RecordsHaveRun

LEMMA LedgerInvInit == Init => LedgerInv
BY DEF Init, LedgerInv, LedgerTypeOK, RecordsHaveRun

LEMMA LedgerInvStep ==
    ASSUME "absent" \notin FinalStatuses
    PROVE  LedgerInv /\ [Next]_ledgerVars => LedgerInv'
<1> SUFFICES ASSUME LedgerInv, [Next]_ledgerVars PROVE LedgerInv'
  OBVIOUS
<1> USE DEF LedgerInv, LedgerTypeOK, RecordsHaveRun
<1>1. ASSUME NEW r \in Runs, Open(r) PROVE LedgerInv'
  BY <1>1 DEF Open
<1>2. ASSUME NEW r \in Runs, Record(r) PROVE LedgerInv'
  BY <1>2 DEF Record
<1>3. ASSUME NEW r \in Runs, Close(r) PROVE LedgerInv'
  <2>1. PICK s \in FinalStatuses : status' = [status EXCEPT ![r] = s]
    BY <1>3 DEF Close
  <2>2. LedgerTypeOK'
    BY <1>3, <2>1 DEF Close
  <2>3. RecordsHaveRun'
    BY <1>3, <2>1 DEF Close
  <2>4. QED
    BY <2>2, <2>3
<1>4. ASSUME NEW r \in Runs, Cancel(r) PROVE LedgerInv'
  BY <1>4 DEF Cancel
<1>5. CASE Settle
  BY <1>5 DEF Settle
<1>6. CASE Lose
  BY <1>6 DEF Lose
<1>7. CASE UNCHANGED ledgerVars
  BY <1>7 DEF ledgerVars
<1>8. QED
  BY <1>1, <1>2, <1>3, <1>4, <1>5, <1>6, <1>7 DEF Next

\* Foreign keys, for a reader: whoever finds a trace record finds its run.
THEOREM RecordsBelongToRuns ==
    ASSUME "absent" \notin FinalStatuses
    PROVE  Spec => []RecordsHaveRun
<1>1. LedgerInv => RecordsHaveRun
  BY DEF LedgerInv
<1>2. QED
  BY <1>1, LedgerInvInit, LedgerInvStep, PTL DEF Spec

\* A run nobody writes any more keeps its final status, unless somebody cancels
\* it or the whole repository is lost: it never goes back to running.
THEOREM SettledRunsStay ==
    ASSUME "absent" \notin FinalStatuses
    PROVE  Spec => SettledOnlyCancelled
<1> DEFINE Stays == \A r \in Runs :
                settled[r] => status'[r] \in {status[r], "cancelled", "absent"}
<1>1. ASSUME LedgerInv, Next PROVE Stays
  <2> USE DEF LedgerInv, LedgerTypeOK
  <2>1. ASSUME NEW q \in Runs, Open(q) \/ Record(q) \/ Close(q) \/ Cancel(q) PROVE Stays
    BY <2>1, <1>1 DEF Open, Record, Close, Cancel
  <2>2. CASE Settle \/ Lose
    BY <2>2, <1>1 DEF Settle, Lose
  <2>3. QED
    BY <1>1, <2>1, <2>2 DEF Next
<1>2. LedgerInv /\ [Next]_ledgerVars => [Stays]_ledgerVars
  BY <1>1
<1> HIDE DEF Stays
<1>3. Spec => [][Stays]_ledgerVars
  BY <1>2, LedgerInvInit, LedgerInvStep, PTL DEF Spec
<1>4. QED
  BY <1>3 DEF Stays, SettledOnlyCancelled

=============================================================================
