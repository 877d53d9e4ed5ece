----------------------------- MODULE RunService -----------------------------
(***************************************************************************)
(* POST /agents/{agent_id}/run from the request to the response: the       *)
(* duplicate check (app/api/routes_agents.py, app/core/idempotency.py),    *)
(* the runtime that saves the run, executes it and saves its trace         *)
(* (app/core/runtime.py), the repository it writes to and the concurrent   *)
(* POST /runs/{run_id}/cancel (app/api/routes_runs.py).                    *)
(*                                                                         *)
(* Every request is a thread, every repository call and every lock hold a  *)
(* step.  A run is named by the request that started it.  The execution is *)
(* its outcome here; AgentExecution models how it comes about.             *)
(***************************************************************************)
EXTENDS IdempotencyStore

CONSTANTS
    Requests,       \* requests, and the runs they start
    Tenants, Keys,  \* tenants and client_run_ids
    TenantOf,       \* the tenant of each request
    KeyOf,          \* the client_run_id of each request, or NoKey
    NoKey, Pending,
    FinalStatuses,  \* statuses an execution may end with
    Durable,        \* the SQL repository: rows survive, calls may fail
    Evaluations,    \* evaluations saved for each run
    Cancelled,      \* bound on cancellations: the runs somebody cancels
    MaxSteps,       \* bound on the steps an execution records
    MaxCalls,       \* bound on the tool calls an execution saves
    MaxClock,       \* bound on the clock
    MaxFaults       \* bound on repository errors and process crashes

ASSUME ServiceAssumption ==
    /\ TenantOf \in [Requests -> Tenants]
    /\ KeyOf \in [Requests -> Keys \cup {NoKey}]
    /\ NoKey \notin Keys
    /\ Pending \notin Requests
    /\ FinalStatuses # {}
    /\ FinalStatuses \cap {"absent", "running", "cancelled"} = {}
    /\ Durable \in BOOLEAN
    /\ Evaluations \in Nat \ {0}
    /\ Cancelled \subseteq Requests
    /\ MaxSteps \in Nat
    /\ MaxCalls \in Nat
    /\ MaxClock \in Nat
    /\ MaxFaults \in Nat

VARIABLES
    store,     \* the idempotency cache of each tenant
    clock,     \* time.monotonic()
    pc,        \* where each request's thread is
    now,       \* the time the thread sampled for the cache
    status,    \* the status column of each run's row, or "absent"
    trace,     \* how many records of each kind the run has
    outcome,   \* what the execution returned: its status and its steps
    cancel,    \* a cancel request: the row it fetched, not yet written
    reply,     \* the response of each request
    faults,    \* repository errors and crashes so far
    stranded,  \* history: requests that a repository error, a crash or a
               \* result that could not be built ended
    disowned   \* history: runs in progress whose cache entry was pushed out
               \* at capacity, or stamped with an earlier time by an update

cacheVars == <<store, clock, now, disowned>>
rowVars == <<status, trace>>
vars == <<store, clock, pc, now, status, trace, outcome, cancel, reply, faults,
          stranded, disowned>>

\* Where a thread may be: before its run exists, while it executes, while it
\* saves what the execution returned, and once it is over.
Waiting == {"idle", "checking", "resolving"}
Writing == {"executing", "executed"}
Saving == {"tracing", "evaluating", "fetched", "updating"}
Over == {"answered", "crashed"}
\* The run is in progress: it holds its key against duplicates.
InFlight == {"resolving"} \cup Writing \cup {"tracing", "evaluating", "fetched"}

NoTrace == [calls |-> 0, steps |-> 0, artifacts |-> 0, evals |-> 0]

Trace == [calls : 0..MaxCalls, steps : 0..MaxSteps,
          artifacts : 0..1, evals : 0..Evaluations]

Outcome == [status : FinalStatuses, steps : 0..MaxSteps]

RowStatus == FinalStatuses \cup {"absent", "running", "cancelled"}

NoReply == [code |-> 0, run |-> Pending, status |-> "absent", trace |-> NoTrace]

Reply == [code : {0, 200, 400, 409, 422}, run : Requests \cup {Pending},
          status : RowStatus, trace : Trace]

Entry == [run : Requests \cup {Pending}, ts : 0..MaxClock]

Cache == UNION {[held -> Entry] : held \in SUBSET Keys}

TypeOK ==
    /\ store \in [Tenants -> Cache]
    /\ clock \in 0..MaxClock
    /\ pc \in [Requests -> Waiting \cup Writing \cup Saving \cup Over]
    /\ now \in [Requests -> 0..MaxClock]
    /\ status \in [Requests -> RowStatus]
    /\ trace \in [Requests -> Trace]
    /\ outcome \in [Requests -> Outcome]
    /\ cancel \in [Requests -> {"none", "preliminary", "final", "same"}]
    /\ reply \in [Requests -> Reply]
    /\ faults \in 0..MaxFaults
    /\ stranded \subseteq Requests
    /\ disowned \subseteq Requests

Init ==
    /\ store = [t \in Tenants |-> EmptyCache]
    /\ clock = 0
    /\ pc = [r \in Requests |-> "idle"]
    /\ now = [r \in Requests |-> 0]
    /\ status = [r \in Requests |-> "absent"]
    /\ trace = [r \in Requests |-> NoTrace]
    /\ outcome = [r \in Requests |->
                    [status |-> CHOOSE s \in FinalStatuses : TRUE, steps |-> 0]]
    /\ cancel = [r \in Requests |-> "none"]
    /\ reply = [r \in Requests |-> NoReply]
    /\ faults = 0
    /\ stranded = {}
    /\ disowned = {}

-----------------------------------------------------------------------------
(* The route handler up to the runtime.                                    *)

\* The other runs in progress that hold a client_run_id among keys of r's tenant.
Rivals(r, keys) ==
    {q \in Requests \ {r} : /\ TenantOf[q] = TenantOf[r] /\ KeyOf[q] \in keys
                            /\ pc[q] \in InFlight}

\* The response, and the end of the thread.
Answer(r, code, run) ==
    /\ pc' = [pc EXCEPT ![r] = "answered"]
    /\ reply' = [reply EXCEPT ![r] = [code |-> code, run |-> run,
                                      status |-> @.status, trace |-> @.trace]]

\* A model that is not allowlisted or a tenant the key may not use.
Refuse(r) ==
    /\ pc[r] = "idle"
    /\ Answer(r, 422, Pending)
    /\ UNCHANGED <<cacheVars, rowVars, outcome, cancel, faults, stranded>>

\* The request is well formed: with a client_run_id the cache is asked,
\* and check_and_set samples the time.
Accept(r) ==
    /\ pc[r] = "idle"
    /\ IF KeyOf[r] = NoKey
       THEN /\ pc' = [pc EXCEPT ![r] = "resolving"]
            /\ UNCHANGED now
       ELSE /\ pc' = [pc EXCEPT ![r] = "checking"]
            /\ now' = [now EXCEPT ![r] = clock]
    /\ UNCHANGED <<store, clock, rowVars, outcome, cancel, reply, faults,
                   stranded, disowned>>

\* check_and_set finds the key: 409, naming the stored run id.
RejectDuplicate(r) ==
    LET t == TenantOf[r]
        live == Evict(store[t], now[r])
    IN /\ pc[r] = "checking"
       /\ KeyOf[r] \in DOMAIN live
       /\ store' = [store EXCEPT ![t] = live]
       /\ Answer(r, 409, live[KeyOf[r]].run)
       /\ UNCHANGED <<clock, now, rowVars, outcome, cancel, faults, stranded,
                      disowned>>

\* A cache that is asked and only later written lets a rival through.
AdmitUnlocked(r) ==
    LET t == TenantOf[r]
    IN /\ pc[r] = "checking"
       /\ store' = [store EXCEPT ![t] = Store(store[t], KeyOf[r], Pending, now[r])]
       /\ pc' = [pc EXCEPT ![r] = "resolving"]
       /\ UNCHANGED <<clock, now, rowVars, outcome, cancel, reply, faults,
                      stranded, disowned>>

\* check_and_set does not find the key: it is stored as pending, and the run
\* whose entry is pushed out at capacity is no longer protected.
Admit(r) ==
    LET t == TenantOf[r]
        live == Evict(store[t], now[r])
    IN /\ pc[r] = "checking"
       /\ KeyOf[r] \notin DOMAIN live
       /\ \E victims \in Victims(live) :
            /\ store' = [store EXCEPT ![t] =
                    Store(Without(live, victims), KeyOf[r], Pending, now[r])]
            /\ disowned' = disowned \cup Rivals(r, victims)
       /\ pc' = [pc EXCEPT ![r] = "resolving"]
       /\ UNCHANGED <<clock, now, rowVars, outcome, cancel, reply, faults, stranded>>

\* An unknown agent or an input its schema rejects: 400, before any row is
\* written.  The cache entry stays as check_and_set left it.
RejectInput(r) ==
    /\ pc[r] = "resolving"
    /\ Answer(r, 400, Pending)
    /\ UNCHANGED <<cacheVars, rowVars, outcome, cancel, faults, stranded>>

-----------------------------------------------------------------------------
(* The runtime.                                                            *)

\* Without the preliminary row, the tool calls would refer to no run.
OpenRunLate(r) ==
    /\ pc[r] = "resolving"
    /\ pc' = [pc EXCEPT ![r] = "executing"]
    /\ UNCHANGED <<cacheVars, rowVars, outcome, cancel, reply, faults, stranded>>

\* A run id handed out as soon as the row is there, not when it is complete.
OpenRunPublishing(r) ==
    LET t == TenantOf[r]
    IN /\ pc[r] = "resolving"
       /\ status' = [status EXCEPT ![r] = "running"]
       /\ pc' = [pc EXCEPT ![r] = "executing"]
       /\ store' = [store EXCEPT ![t] =
                       IF KeyOf[r] \in DOMAIN store[t]
                       THEN Store(store[t], KeyOf[r], r, now[r]) ELSE store[t]]
       /\ UNCHANGED <<clock, now, disowned, trace, outcome, cancel, reply, faults,
                      stranded>>

\* The preliminary row, with status running.
OpenRun(r) ==
    /\ pc[r] = "resolving"
    /\ status' = [status EXCEPT ![r] = "running"]
    /\ pc' = [pc EXCEPT ![r] = "executing"]
    /\ UNCHANGED <<cacheVars, trace, outcome, cancel, reply, faults, stranded>>

\* A tool call of the execution is saved as it happens.
CallTool(r) ==
    /\ pc[r] = "executing"
    /\ trace[r].calls < MaxCalls
    /\ trace' = [trace EXCEPT ![r].calls = @ + 1]
    /\ UNCHANGED <<cacheVars, pc, status, outcome, cancel, reply, faults, stranded>>

\* If the exceptions of an execution escaped, the row would stay running.
FinishExecutionUncaught(r) ==
    /\ pc[r] = "executing"
    /\ Answer(r, 400, Pending)
    /\ UNCHANGED <<cacheVars, rowVars, outcome, cancel, faults, stranded>>

\* The execution returns, or raises and is turned into a failed one: either
\* way there is a status and a list of steps, none of them saved yet.
FinishExecution(r) ==
    /\ pc[r] = "executing"
    /\ \E o \in Outcome : outcome' = [outcome EXCEPT ![r] = o]
    /\ pc' = [pc EXCEPT ![r] = "executed"]
    /\ UNCHANGED <<cacheVars, rowVars, cancel, reply, faults, stranded>>

\* The result of the run is built outside the try: a null summary, or an
\* artifact whose fields are not strings in the output of a step, is refused
\* by its schema.  The handler answers 400 and the preliminary row stays.
\* Without steps there is neither.
ResultFails(r) ==
    /\ pc[r] = "executed"
    /\ outcome[r].steps > 0
    /\ stranded' = stranded \cup {r}
    /\ Answer(r, 400, Pending)
    /\ UNCHANGED <<cacheVars, rowVars, outcome, cancel, faults>>

\* A guard the code does not have: a cancelled run is left alone, but then
\* its thread would have nothing to go on with.
SaveFinalUnlessCancelled(r) ==
    /\ pc[r] = "executed"
    /\ status[r] = "running"
    /\ status' = [status EXCEPT ![r] = outcome[r].status]
    /\ pc' = [pc EXCEPT ![r] = "tracing"]
    /\ UNCHANGED <<cacheVars, trace, outcome, cancel, reply, faults, stranded>>

\* The final row replaces the preliminary one, whatever its status is now.
SaveFinal(r) ==
    /\ pc[r] = "executed"
    /\ status' = [status EXCEPT ![r] = outcome[r].status]
    /\ pc' = [pc EXCEPT ![r] = "tracing"]
    /\ UNCHANGED <<cacheVars, trace, outcome, cancel, reply, faults, stranded>>

\* A loop that does not stop at the last step the execution returned.
SaveStepOverrun(r) ==
    /\ pc[r] = "tracing"
    /\ trace[r].steps <= outcome[r].steps
    /\ trace' = [trace EXCEPT ![r].steps = @ + 1]
    /\ UNCHANGED <<cacheVars, pc, status, outcome, cancel, reply, faults, stranded>>

\* Each step the execution returned is saved, in order.
SaveStep(r) ==
    /\ pc[r] = "tracing"
    /\ trace[r].steps < outcome[r].steps
    /\ trace' = [trace EXCEPT ![r].steps = @ + 1]
    /\ UNCHANGED <<cacheVars, pc, status, outcome, cancel, reply, faults, stranded>>

\* The trace artifact written while steps are still to be saved.
SaveArtifactEarly(r) ==
    /\ pc[r] = "tracing"
    /\ trace' = [trace EXCEPT ![r].artifacts = 1]
    /\ pc' = [pc EXCEPT ![r] = "evaluating"]
    /\ UNCHANGED <<cacheVars, status, outcome, cancel, reply, faults, stranded>>

\* Every step is saved: the run is read back and its trace artifact saved.
SaveArtifact(r) ==
    /\ pc[r] = "tracing"
    /\ trace[r].steps = outcome[r].steps
    /\ trace' = [trace EXCEPT ![r].artifacts = 1]
    /\ pc' = [pc EXCEPT ![r] = "evaluating"]
    /\ UNCHANGED <<cacheVars, status, outcome, cancel, reply, faults, stranded>>

SaveEvaluation(r) ==
    /\ pc[r] = "evaluating"
    /\ trace[r].evals < Evaluations
    /\ trace' = [trace EXCEPT ![r].evals = @ + 1]
    /\ UNCHANGED <<cacheVars, pc, status, outcome, cancel, reply, faults, stranded>>

\* Every evaluation is saved: the run is read back for the response.
FetchRun(r) ==
    /\ pc[r] = "evaluating"
    /\ trace[r].evals = Evaluations
    /\ reply' = [reply EXCEPT ![r] = [code |-> 0, run |-> r,
                                      status |-> status[r], trace |-> trace[r]]]
    /\ pc' = [pc EXCEPT ![r] = "fetched"]
    /\ UNCHANGED <<cacheVars, rowVars, outcome, cancel, faults, stranded>>

\* Back in the route handler: without a client_run_id the run is the response
\* at once; with one, update is entered first and samples the time.
Respond(r) ==
    /\ pc[r] = "fetched"
    /\ IF KeyOf[r] = NoKey
       THEN Answer(r, 200, r) /\ UNCHANGED now
       ELSE /\ pc' = [pc EXCEPT ![r] = "updating"]
            /\ now' = [now EXCEPT ![r] = clock]
            /\ UNCHANGED reply
    /\ UNCHANGED <<store, clock, rowVars, outcome, cancel, faults, stranded,
                   disowned>>

\* update under the lock.  The entry that is there may be the one of a later
\* run of the same key; if that run was admitted after this thread sampled the
\* time, the stamp it is protected by goes back.
UpdateCache(r) ==
    LET t == TenantOf[r]
        k == KeyOf[r]
    IN /\ pc[r] = "updating"
       /\ IF k \in DOMAIN store[t]
          THEN /\ store' = [store EXCEPT ![t] = Store(store[t], k, r, now[r])]
               /\ disowned' = disowned \cup {q \in Rivals(r, {k}) : now[q] > now[r]}
          ELSE UNCHANGED <<store, disowned>>
       /\ Answer(r, 200, r)
       /\ UNCHANGED <<clock, now, rowVars, outcome, cancel, faults, stranded>>

-----------------------------------------------------------------------------
(* Cancellation, time and failures.                                        *)

\* A cancellation that does not look whether the run exists.
FetchToCancelUnchecked(r) ==
    /\ r \in Cancelled
    /\ cancel[r] = "none"
    /\ cancel' = [cancel EXCEPT ![r] = "final"]
    /\ UNCHANGED <<cacheVars, pc, rowVars, outcome, reply, faults, stranded>>

\* update_run fetches the row of a run that exists.  In memory that is the
\* dictionary of the preliminary run or, once it is saved, of the final one.
\* A SQL row that is cancelled already has nothing to update.
FetchToCancel(r) ==
    /\ r \in Cancelled
    /\ cancel[r] = "none"
    /\ status[r] # "absent"
    /\ cancel' = [cancel EXCEPT ![r] =
                    IF Durable /\ status[r] = "cancelled" THEN "same"
                    ELSE IF pc[r] \in Writing THEN "preliminary" ELSE "final"]
    /\ UNCHANGED <<cacheVars, pc, rowVars, outcome, reply, faults, stranded>>

\* The fetched row is marked cancelled.  In memory a dictionary that the final
\* save has replaced meanwhile is written in vain; in SQL the row is updated.
WriteCancel(r) ==
    /\ cancel[r] # "none"
    /\ cancel' = [cancel EXCEPT ![r] = "none"]
    /\ IF \/ cancel[r] = "same"
          \/ ~Durable /\ cancel[r] = "preliminary" /\ pc[r] \notin Writing
       THEN UNCHANGED status
       ELSE status' = [status EXCEPT ![r] = "cancelled"]
    /\ UNCHANGED <<cacheVars, pc, trace, outcome, reply, faults, stranded>>

Tick ==
    /\ clock < MaxClock
    /\ clock' = clock + 1
    /\ UNCHANGED <<store, pc, now, rowVars, outcome, cancel, reply, faults,
                   stranded, disowned>>

\* A call of the SQL repository raises outside the execution: the handler
\* answers 400 and everything saved so far stays.
RepositoryError(r) ==
    /\ Durable
    /\ faults < MaxFaults
    /\ pc[r] \in {"resolving", "executed", "tracing", "evaluating"}
    /\ faults' = faults + 1
    /\ stranded' = stranded \cup {r}
    /\ Answer(r, 400, Pending)
    /\ UNCHANGED <<cacheVars, rowVars, outcome, cancel>>

\* The process dies and is started again: threads and caches are gone, rows
\* only if they were in memory.
Crash ==
    /\ faults < MaxFaults
    /\ faults' = faults + 1
    /\ pc' = [r \in Requests |-> IF pc[r] \in {"idle"} \cup Over THEN pc[r]
                                 ELSE "crashed"]
    /\ stranded' = stranded \cup {r \in Requests : pc[r] \notin {"idle"} \cup Over}
    /\ store' = [t \in Tenants |-> EmptyCache]
    /\ cancel' = [r \in Requests |-> "none"]
    /\ IF Durable
       THEN UNCHANGED rowVars
       ELSE /\ status' = [r \in Requests |-> "absent"]
            /\ trace' = [r \in Requests |-> NoTrace]
    /\ UNCHANGED <<clock, now, outcome, reply, disowned>>

-----------------------------------------------------------------------------

\* What a request's thread does by itself once the request has been accepted.
Thread(r) ==
    \/ RejectDuplicate(r) \/ Admit(r) \/ RejectInput(r) \/ OpenRun(r)
    \/ CallTool(r) \/ FinishExecution(r) \/ ResultFails(r)
    \/ SaveFinal(r) \/ SaveStep(r)
    \/ SaveArtifact(r) \/ SaveEvaluation(r) \/ FetchRun(r) \/ Respond(r)
    \/ UpdateCache(r)

Next ==
    \/ \E r \in Requests :
        \/ Refuse(r) \/ Accept(r)
        \/ Thread(r)
        \/ FetchToCancel(r) \/ WriteCancel(r)
        \/ RepositoryError(r)
    \/ Tick
    \/ Crash

Spec == Init /\ [][Next]_vars

\* The thread pool runs every accepted request, and every call of a thread
\* returns: model and tool calls have timeouts, the lock is held briefly.
FairSpec == Spec /\ \A r \in Requests : WF_vars(Thread(r))

-----------------------------------------------------------------------------
(* Safety.                                                                 *)

\* Foreign keys: no step, tool call, artifact or evaluation exists before the
\* row of its run, nor after it.  runtime.py:71 inserts the row early for it.
TraceHasRun ==
    \A r \in Requests : status[r] = "absent" => trace[r] = NoTrace

\* The 200 response is the whole run: a status that is not running and every
\* step, the trace artifact and every evaluation, although cancellations and
\* other requests write the repository meanwhile (runtime.py:175-199).
ResponseIsComplete ==
    \A r \in Requests :
        reply[r].code = 200 =>
            /\ reply[r].status \in FinalStatuses \cup {"cancelled"}
            /\ reply[r].trace.steps = outcome[r].steps
            /\ reply[r].trace.artifacts = 1
            /\ reply[r].trace.evals = Evaluations

\* A row that says running has a thread that is still to write the final one,
\* or its request was ended by a repository error, a crash or a result that
\* could not be built: whatever else raises while the run executes (a model, a
\* tool, the output schema) ends in a final row (runtime.py:98-140).
RunningHasThread ==
    \A r \in Requests :
        status[r] = "running" => pc[r] \in Writing \/ r \in stranded

\* Two runs of one client_run_id are in progress together only once the TTL of
\* the first is over, or when an entry was pushed out at capacity or its stamp
\* set back by an update that had sampled its time before.
NoConcurrentDuplicates ==
    \A q, r \in Requests :
        (/\ q # r
         /\ KeyOf[q] # NoKey /\ KeyOf[q] = KeyOf[r] /\ TenantOf[q] = TenantOf[r]
         /\ pc[q] \in InFlight /\ pc[r] \in InFlight
         /\ q \notin disowned /\ r \notin disowned
         /\ now[q] <= now[r])
        => clock - now[q] > TTL

Rejection(r) == pc[r] = "checking" /\ reply'[r].code = 409

\* A 409 that names a run names one of the same tenant and client_run_id whose
\* trace is complete: update comes after everything the runtime saves.
DuplicateNamesFinishedRun ==
    [][\A r \in Requests :
        LET run == reply'[r].run IN
        Rejection(r) /\ run # Pending =>
            /\ TenantOf[run] = TenantOf[r] /\ KeyOf[run] = KeyOf[r]
            /\ status[run] \notin {"absent", "running"}
            /\ trace[run].steps = outcome[run].steps
            /\ trace[run].artifacts = 1
            /\ trace[run].evals = Evaluations]_vars

\* The rows implement the ledger a reader of the run API relies on.
Ledger == INSTANCE RunLedger WITH
    Runs <- Requests,
    recorded <- [r \in Requests |-> trace[r].calls + trace[r].steps
                                    + trace[r].artifacts + trace[r].evals],
    settled <- [r \in Requests |-> pc[r] \in Saving \cup Over]

ImplementsLedger == Ledger!Spec

-----------------------------------------------------------------------------
(* Liveness, and what the documentation says but the code does not do.     *)

\* Every accepted request is answered, unless the process dies under it.
EveryRequestAnswered ==
    \A r \in Requests : pc[r] # "idle" ~> pc[r] \in Over

\* docs/api-guide.md:269, "Marks a run as cancelled": a run that has been
\* marked stays marked as long as its row exists.
CancelSticks ==
    [][\A r \in Requests :
        status[r] = "cancelled" => status'[r] \in {"cancelled", "absent"}]_vars

\* routes_agents.py:79, "already processed as run": a request is turned down
\* as a duplicate only when a run of its client_run_id exists or is under way.
DuplicateHasRun ==
    [][\A r \in Requests :
        Rejection(r) =>
            \E q \in Requests \ {r} :
                /\ TenantOf[q] = TenantOf[r] /\ KeyOf[q] = KeyOf[r]
                /\ status[q] # "absent" \/ pc[q] = "resolving"]_vars

=============================================================================
