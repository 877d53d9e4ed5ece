----------------------------- MODULE Autoresearch -----------------------------
(***************************************************************************)
(* Improvement runs over the contracts of one domain                       *)
(* (app/autoresearcher/pipeline.py, app/api/routes_autoresearch.py): the   *)
(* targets are snapshotted, read again to be validated, the evaluations    *)
(* stored for the domain are counted, and the change is kept, discarded or *)
(* left for review.  Meanwhile the file tools of ContractRegistry edit the *)
(* targets, reloads install them, agent runs store evaluations and the     *)
(* process may restart.                                                    *)
(*                                                                         *)
(* Targets are contracts; the prompts, tools.yaml and validators.py among  *)
(* the default targets are shipped with the code and taken to be valid.    *)
(***************************************************************************)
EXTENDS ContractRegistry, FiniteSetsExt

CONSTANTS
    TargetChoices,  \* sets of files a request may name; {} asks for the defaults
    Runs,           \* agent runs of the domain
    StartCounts,    \* <<passed, failed>> evaluations a run may have at the start
    MaxSaves        \* bound on the evaluations stored later

Improvers == Others

ASSUME AutoresearchAssumption ==
    /\ TargetChoices \subseteq SUBSET Files
    /\ StartCounts \subseteq Nat \X Nat
    /\ MaxSaves \in Nat

VARIABLES
    evaluations,    \* the passed and failed evaluations of each run
    saves,          \* evaluations stored since the start
    work,           \* the locals of the improvement runs
    before          \* history: the evaluations when each of them began

storeVars == <<evaluations, saves>>
stillVars == <<fileVars, registered, up, job, restarts, storeVars>>
vars == <<registryVars, storeVars, work, before>>

\* A custom primary metric takes the score of eval_pass_rate.
Metrics == {"eval_pass_rate", "contract_validity", "trace_completeness"}

Work == [targets : SUBSET Files, default : BOOLEAN, metric : Metrics,
         fileLeft : SUBSET Files, exists : SUBSET Files, valid : SUBSET Files,
         runLeft : SUBSET Runs, passed : Nat, failed : Nat,
         basis : {"none", "rate", "proxy", "error"}]

NoWork == [targets |-> {}, default |-> FALSE, metric |-> "eval_pass_rate",
           fileLeft |-> {}, exists |-> {}, valid |-> {},
           runLeft |-> {}, passed |-> 0, failed |-> 0, basis |-> "none"]

AutoresearchTypeOK ==
    /\ TypeOK
    /\ evaluations \in [Runs -> Nat \X Nat]
    /\ saves \in 0..MaxSaves
    /\ work \in [Improvers -> Work]
    /\ before \in [Improvers -> [Runs -> Nat \X Nat]]

Init ==
    /\ RegistryInit
    /\ evaluations \in [Runs -> StartCounts]
    /\ saves = 0
    /\ work = [p \in Improvers |-> NoWork]
    /\ before = [p \in Improvers |-> [r \in Runs |-> <<0, 0>>]]

-----------------------------------------------------------------------------
(* Scores.                                                                 *)

\* round(passed / total, 3) in thousandths; below 2000 evaluations no rate
\* lies halfway.
PassRate(passed, total) == (2000 * passed + total) \div (2 * total)

\* The targets of DEFAULT_MEASUREMENTS: 0.95 for the rate, 1.0 for validity.
RateMet(passed, failed) == PassRate(passed, passed + failed) >= 950
ProxyMet(w) == 20 * Cardinality(w.exists) >= 19 * Cardinality(w.targets)
AllValid(w) == w.valid = w.targets

\* The paths of the fixed context belong to the deployment: the tests
\* directory may not be installed.
Decision(w, evalMet) ==
    IF ~AllValid(w) THEN {"discard"}
    ELSE CASE w.metric = "contract_validity"  -> {"keep"}
           [] w.metric = "trace_completeness" -> {"keep", "needs_review"}
           [] w.metric = "eval_pass_rate" ->
                IF evalMet THEN {"keep"} ELSE {"needs_review"}

-----------------------------------------------------------------------------
(* POST /autoresearch/domains/{domain_id}/improvement-run.                 *)

\* Targets counted from one, past the last agent.
DefaultTargetsOverrun == {<<Builtin, c + 1>> : c \in {0} \cup Present(Builtin)}

\* domain.yaml and the agents under app/domains, wherever the registered
\* contracts came from.
DefaultTargets == {<<Builtin, c>> : c \in {0} \cup Present(Builtin)}

Improve(p, chosen, metric) ==
    LET targets == IF chosen = {} THEN DefaultTargets ELSE chosen IN
    /\ Began(p)
    /\ IF registered[0] = Unloaded
       THEN Answer(p, "404") /\ UNCHANGED work
       ELSE /\ Goto(p, "snapshot")
            /\ work' = [work EXCEPT ![p] =
                 [NoWork EXCEPT !.targets = targets, !.default = (chosen = {}),
                                !.metric = metric, !.fileLeft = targets]]
    /\ before' = [before EXCEPT ![p] = evaluations]
    /\ UNCHANGED <<stillVars, since>>

\* get_repository raises, or a target lies outside the project.
Refuse(p) ==
    /\ Began(p)
    /\ Answer(p, "404") \/ Answer(p, "400")
    /\ UNCHANGED <<stillVars, since, work, before>>

\* snapshot_asset: the summary of a contract parses it, outside any try.
SnapshotAsset(p, f) ==
    LET left == work[p].fileLeft \ {f}
        exists == IF disk[f].kind = "absent" THEN work[p].exists
                                             ELSE work[p].exists \cup {f}
    IN /\ pc[p] = "snapshot" /\ f \in work[p].fileLeft
       /\ IF disk[f].kind = "broken"
          THEN Answer(p, "404") /\ UNCHANGED work
          ELSE /\ work' = [work EXCEPT
                    ![p].exists = exists,
                    ![p].fileLeft = IF left = {} THEN exists ELSE left]
               /\ Goto(p, IF left # {} THEN "snapshot"
                          ELSE IF exists = {} THEN "list_runs" ELSE "validate")
       /\ UNCHANGED <<stillVars, historyVars, before>>

\* Validation that checks only that the file still parses.
ValidateParsed(p, f) ==
    LET left == work[p].fileLeft \ {f} IN
    /\ pc[p] = "validate" /\ f \in work[p].fileLeft
    /\ work' = [work EXCEPT
         ![p].fileLeft = left,
         ![p].valid = IF disk[f].kind # "broken" THEN @ \cup {f} ELSE @]
    /\ Goto(p, IF left = {} THEN "list_runs" ELSE "validate")
    /\ UNCHANGED <<stillVars, historyVars, before>>

\* validate_asset reads the file again; what it raises makes the target
\* invalid.
ValidateAsset(p, f) ==
    LET left == work[p].fileLeft \ {f} IN
    /\ pc[p] = "validate" /\ f \in work[p].fileLeft
    /\ work' = [work EXCEPT
         ![p].fileLeft = left,
         ![p].valid = IF Strict(disk[f]) THEN @ \cup {f} ELSE @]
    /\ Goto(p, IF left = {} THEN "list_runs" ELSE "validate")
    /\ UNCHANGED <<stillVars, historyVars, before>>

\* decide, on nothing that is shared.
Conclude(p, w, met) ==
    /\ \E decision \in Decision(w, met) : Answer(p, decision)
    /\ work' = [work EXCEPT ![p] = [w EXCEPT !.runLeft = {}]]

ConcludeByProxy(p, basis) ==
    Conclude(p, [work[p] EXCEPT !.basis = basis], ProxyMet(work[p]))

ListRuns(p) ==
    /\ pc[p] = "list_runs"
    /\ IF Runs = {}
       THEN ConcludeByProxy(p, "proxy")
       ELSE Goto(p, "evaluations") /\ work' = [work EXCEPT ![p].runLeft = Runs]
    /\ UNCHANGED <<stillVars, historyVars, before>>

ListRunEvaluations(p, r) ==
    LET w == [work[p] EXCEPT !.runLeft = @ \ {r}, !.passed = @ + evaluations[r][1],
                             !.failed = @ + evaluations[r][2]]
    IN /\ pc[p] = "evaluations" /\ r \in work[p].runLeft
       /\ IF w.runLeft # {}
          THEN Goto(p, "evaluations") /\ work' = [work EXCEPT ![p] = w]
          ELSE IF w.passed + w.failed = 0
          THEN Conclude(p, [w EXCEPT !.basis = "proxy"], ProxyMet(w))
          ELSE Conclude(p, [w EXCEPT !.basis = "rate"], RateMet(w.passed, w.failed))
       /\ UNCHANGED <<stillVars, historyVars, before>>

\* An error that leaves the evaluations read so far to decide.
RepositoryFailsHalfway(p) ==
    LET w == work[p] IN
    /\ pc[p] \in {"list_runs", "evaluations"}
    /\ IF w.passed + w.failed = 0
       THEN ConcludeByProxy(p, "error")
       ELSE Conclude(p, [w EXCEPT !.basis = "rate"], RateMet(w.passed, w.failed))
    /\ UNCHANGED <<stillVars, historyVars, before>>

\* An error of the repository is dropped with what was read.
RepositoryFails(p) ==
    /\ pc[p] \in {"list_runs", "evaluations"}
    /\ ConcludeByProxy(p, "error")
    /\ UNCHANGED <<stillVars, historyVars, before>>

-----------------------------------------------------------------------------
(* What goes on meanwhile.                                                 *)

\* An agent run or the judge stores an evaluation.
SaveEvaluation(r) ==
    /\ up /\ saves < MaxSaves
    /\ saves' = saves + 1
    /\ \E i \in {1, 2} : evaluations' = [evaluations EXCEPT ![r][i] = @ + 1]
    /\ UNCHANGED <<registryVars, work, before>>

\* The in-memory repository forgets.
RestartAll ==
    /\ Restart
    /\ evaluations' \in {evaluations, [r \in Runs |-> <<0, 0>>]}
    /\ UNCHANGED <<saves, work, before>>

ImprovementStep(p) ==
    \/ \E chosen \in TargetChoices, metric \in Metrics : Improve(p, chosen, metric)
    \/ Refuse(p)
    \/ \E f \in Files : SnapshotAsset(p, f) \/ ValidateAsset(p, f)
    \/ ListRuns(p)
    \/ \E r \in Runs : ListRunEvaluations(p, r)
    \/ RepositoryFails(p)

Next ==
    \/ \E p \in Improvers : ImprovementStep(p)
    \/ \E r \in Runs : SaveEvaluation(r)
    \/ RegistryNext /\ UNCHANGED <<storeVars, work, before>>
    \/ RestartAll

Spec == Init /\ [][Next]_vars

-----------------------------------------------------------------------------
(* What a keep decision means.                                             *)

\* No edit ran while p did or since.
Unedited(p) == \A e \in Editors : Started(e) => e \in after[p]

\* What an improvement run keeps can be loaded: unless edited meanwhile or
\* since, every target is a valid contract, and with the default targets the
\* process starts again on them.
KeptSurvivesRestart ==
    \A p \in Improvers : answer[p] = "keep" /\ Unedited(p) =>
        /\ \A f \in work[p].targets : Strict(disk[f])
        /\ work[p].default => up /\ ~StartupFails

StoredBefore(p, i) == MapThenSumSet(LAMBDA r : before[p][r][i], Runs)

\* A change kept for its pass rate has counted every evaluation stored before
\* the improvement run began, and the rate, rounded to three digits, is 0.95 or
\* more (0.9495 before rounding); one kept on the proxy had no evaluations to
\* count, unless the repository failed.
KeepCountsStored ==
    \A p \in Improvers : answer[p] = "keep" /\ work[p].metric = "eval_pass_rate" =>
        LET w == work[p] IN
        /\ w.basis = "rate" =>
             /\ w.passed >= StoredBefore(p, 1) /\ w.failed >= StoredBefore(p, 2)
             /\ 2000 * w.passed >= 1899 * (w.passed + w.failed)
        /\ w.basis = "proxy" => StoredBefore(p, 1) + StoredBefore(p, 2) = 0

=============================================================================
