# A TLA+ model of neuroagent

neuroagent is a FastAPI service that runs governed agents: an HTTP request
names an agent, the runtime executes its plan or lets a model drive tools,
every tool call goes through a policy and may wait for a human approval, and
the run is stored with its trace and evaluations.  Around it are a document
and vector index, a registry of domain contracts, an autoresearch pipeline, a
critic endpoint and a judge of stored runs.  Handlers are synchronous functions on
a thread pool, so requests interleave at every repository call and every lock, and
the state they share is partly in the process (caches, registries, in-memory repository) and
partly in a SQL database, a vector store and an object store that fail
independently.

## Inventory

| component | state | operations | hard behaviour | what makes it correct |
|---|---|---|---|---|
| Idempotency cache (`app/core/idempotency.py`) | per tenant: client_run_id -> (run id, time) | check_and_set, update, eviction by age and by capacity | clock sampled before the lock, late updates that set an entry back, capacity, restart | never over capacity; a key is admitted again early only when pushed out, lost or set back by an overtaken update |
| Run service (`app/api/routes_agents.py`, `app/core/runtime.py`, `app/api/routes_runs.py`) | the thread of each request, its execution's outcome | run, cancel | concurrent cancel, duplicate requests, failures between two saves | rows before trace, complete responses, no run left running without a cause |
| Run repository (`app/db/*`) | runs, steps, tool calls, artifacts, evaluations, approvals, documents, chunks, embedding records | save_*, update_*, get_* | no transaction spans two calls; in memory, rows are shared dictionaries | foreign keys, one open and one close of each run |
| Static plan (`app/core/planner.py`, `executor.py`) | step index, steps, tokens, output | one action per step | budgets, failing steps, pending approval | budgets respected, completed means done |
| Tool loop (`app/core/tool_loop.py`) | turns, requested calls | model turn, call | exceptions in the middle of a turn, unbounded requests | terminates, calls belong to steps |
| Tool executor, policy, approvals (`app/tools/executor.py`, `policy.py`, `app/core/approvals.py`) | saved calls and approval requests | execute, approve, reject | order of the checks, handlers that raise, saves that fail after a handler returned, decisions at any time | barred tools never run, risky ones never run unapproved; the trace misses one call at most |
| Evaluations (`app/evals`) | none | evaluate a saved run | work from what was saved, not from what happened | catch a refused tool although its call is not saved |
| RAG (`app/tools/rag_tools.py`, `app/rag`) | documents, chunks, vectors, embedding records | ingest, index, search, delete vectors | two stores without a transaction, re-index, skipped indexing, a collection that is created twice, a tenant named by the caller | what is answered as indexed can be found; search finds only existing text, of the tenant or indexed in its name |
| Domain registry (`app/domains/registry.py`, `app/dependencies.py`, `app/api/routes_domains.py`) | contract files under two roots, the dictionaries of domains and agents | start, overlay, reload | file-by-file reload without a lock, overlapping reloads and edits, a strict start and a lenient reload | a quiet reload mirrors its directory, or the part before the file that stopped it; a late one goes back no further than its own beginning |
| File tools (`app/tools/file_tools.py`) | files | write, update, delete | read, replace and write in three steps | sequential updates are kept until one is told to replace another's text |
| Model gateway (`app/model_gateway.py`) | none | prompt section, one class per provider, `complete_simple`, key status | truncation boundary, null and empty replies, missing keys | the newest summaries that fit are sent; the status tells what a run will find |
| Critic endpoint (`app/api/routes_evaluate.py`) | attempts of a request | evaluate | retry of some failures, a confidence that is NaN | the verdict is the first reply that parses, 502 means two tries |
| LLM judge (`app/evals/llm_judge.py`, `app/api/routes_evals.py`) | stored evaluations | judge a run | unusable verdicts, odd scores | only one's own runs can be judged |
| Authentication and tenancy (`app/auth.py`) | none | principal, tenant of a request, access to a record | keys listed twice | runs stay with their tenant |
| Autoresearch (`app/autoresearcher/pipeline.py`) | none between requests | targets, snapshot, validate, measure, decide | files and evaluations that change while they are measured, rounding, swallowed errors | what is kept survives the next start |
| Artifact storage, Obsidian, GitHub and HTTP tools | files and objects | read, write | I/O failures | outside the core; see "Not modelled" |

Requests call the cache, then the runtime; the runtime calls planner, executor
or tool loop, those the tool executor; all write through the repository.
Cancels, approval decisions and document requests come from other threads and
write the same repository.  RAG tools can also be called as tools of a run, and
so can the file tools, which may edit the very contracts the registry loads and
an improvement run measures.

PROJECT.json lists all components and, under `hazards`, what is hard to test,
each with the properties that cover it or the reason why none does yet.

## Modules

- `IdempotencyStore`: the dictionary operations of the cache as pure operators.
- `IdempotencyCache` (EXTENDS it): threads that call `check_and_set` and
  `update`; `now` is sampled in one step (`CallCheck`, `CallUpdate`) and used
  under the lock in another (`RejectDuplicate`, `Admit`, `Update`).  The history
  `admitted` holds the time of a key's latest admission, until a push-out, a
  restart or an update that this admission had overtaken ends its protection.
  `MCIdempotencyCache` instantiates it, `IdempotencyCacheProofs` proves it.
- `RunLedger`: the abstract specification of a reader's view of runs: opened
  once, closed at most once, cancelled at any time, collecting records only
  while its row exists.
- `RunService` (EXTENDS `IdempotencyStore`): a request from the handler to the
  response, one action per repository call or lock hold, with cancels,
  repository errors and crashes.  It implements `RunLedger`.
  `MCRunService` instantiates it.  The execution between the preliminary and
  the final row is only its outcome here; `ResultFails` is the exception of
  `_build_run_result`, which no `try` surrounds.
- `AgentExecution`: that execution: the static plan (`Understand`,
  `ProduceOutput`, `WriteNote`, `CompletePlan`), the tool loop (`RequestTools`,
  `ExecuteRequest`, `AnswerFinally`), `ExecuteTool` with `Policy`, the runtime's
  conclusion (`Conclude`, `Lose`), approval decisions and two evaluations.
  `CallEnds` lists how a tool call ends, the exceptions of the repository on the
  approval request or on the call (`Unsaved`) included.
  Names of actions follow the steps of the plan and the branches of the loop.
- `RagIndex`: documents and vectors.  Every call of a RAG tool is a thread, and
  every call it makes of the repository or of the vector backend is an action;
  the two stores share no transaction and fail, time out or restart
  independently.  `Ingest` .. `SaveChunk` are `DocumentIngestor.ingest`,
  `Index` .. `SaveRecord` are `index_document` (called as a tool or at the end
  of an ingestion), `Search` .. `AnswerLexically` are `search`, and
  `DeleteVectors` is `delete_document_vectors`.  `Fail` says how an exception
  ends the call it is raised in.  `config` tells SQL from in-memory repository
  and Qdrant from the in-memory vector store, which `get_vector_store` makes
  anew for every call, so that it never remembers anything.  `collections` is
  what Qdrant has been told to create, which it refuses to create again
  (`EnsureCollection`), and a vector carries the tenant of the call that upserted
  it, which need not be the document's (`Index`, `Upserted`).
  `MCRagIndex` instantiates it.
- `ContractRegistry`: the files of one domain under `CONTRACTS_DIR` and under
  `app/domains`, what the process has loaded of them (`registered`: the version
  each contract came from), the reload route (`Reload`, one `LoadContract` per
  file, `LoadFails`), the file tools (`WriteFile`, `UpdateFile`, `DeleteFile`,
  then `Open`, `Close`, `Unlink`) and the restart of the process.  A file's `edits`
  are the calls whose text it holds; an update may be told to replace the text of
  some of them (`old`, which `Close` drops).  The two sets
  of rules are told apart: `Strict` is what the start demands, `Lenient` and
  `Skips` what a reload forgives.  `MCContractRegistry` instantiates it,
  `ContractRegistryProofs` proves it.
- `Autoresearch` (EXTENDS `ContractRegistry`): an improvement run over the same
  files while they are edited, while runs are evaluated and across restarts:
  `Improve`, `SnapshotAsset`, `ValidateAsset`, `ListRuns`,
  `ListRunEvaluations` or `RepositoryFails`, and `Decision`.  The pass rate is
  computed in integers as `round(.., 3)` does (`PassRate`).
  `MCAutoresearch` instantiates it, `AutoresearchProofs` proves it.
- `ModelCalls`: what is asked of a model outside the loop.  `settings` says
  which provider is configured and which keys are known.  A run builds its
  prompt section (`BuildSection`, one `IncludeSummary` per prior summary),
  completes (`CompleteRun`) and is summarised (`Summarise`), and `EndRun` says what
  becomes of its row; the critic is
  `Evaluate` and `AskCritic`; the judge is `FetchRun`, `AskJudge` and
  `SaveEvaluation`.  A reply is one of a few kinds, and one operator per
  provider says what becomes of it.  `MCModelCalls` instantiates it,
  `ModelCallsProofs` proves it.
- `RunServiceProofs`, `RunLedgerProofs`, `RagIndexProofs`,
  `AgentExecutionProofs`: theorems, see "Proofs".

Choices that the modules share.  A run or a document is named by the request or
the call that makes it.  A value of the request that is read once
(`index_vectors`, `strict_vector`) is chosen in the step that reads it, and the
size of a document in the step that saves its last chunk: nothing observes the
choice before.  Chunk numbers stand for the chunks in the order of their
offsets; every chunk holds a term of every query and one embedding model is in
use, so a search may return any chunk it is allowed to look at.  A call of
`index_document` that names no tenant behaves as one that names the document's.
`domain` and the metadata
filters select documents and vectors as the tenant does and are folded into it.
`list_document_chunks` for all matches of one search is one step: chunks are
never removed while a call runs, so reading them one by one gives the same.
A contract file keeps the identifier it declares, so files and contracts
correspond one to one.  A reload installs a file, lists `agents/*.yaml` if that was
`domain.yaml`, and reads the next file in one step: reads of files and writes of
the registry commute.  In
`ModelCalls`, "completed" stands for every final status that asks for a summary,
and texts are their lengths where lengths matter and their kinds elsewhere.

Definitions whose comment starts with a fault ("A loop that ...", "An
off-by-one ...") and whose name extends another's (`ExpiredTooSoon`,
`OpenRunLate`) are mutants: plausible bugs the runs are known to catch.

## Runs

| run | checks | expected |
|---|---|---|
| `idempotency_cache` | types, `CapacityBound`, `RememberedUntilExpiry`, `AdmissionsSpaced` | pass |
| `run_service` | types, `TraceHasRun`, `ResponseIsComplete`, `RunningHasThread`, the refinement `ImplementsLedger`, liveness `EveryRequestAnswered` | pass |
| `deduplication` | `NoConcurrentDuplicates`, `DuplicateNamesFinishedRun` | pass |
| `agent_execution` | types, `PolicyDecides`, `CallsAccountedFor`, `BudgetsRespected`, `CompletedMeansDone`, `EvaluationsCatchViolations`, liveness `ExecutionEnds` | pass |
| `rag_index` | types, `RecordsBacked`, `IndexedIsComplete`, `DurableEvidence`, `IngestedIsFound`, `TenantIsolated`, `CleanIngestIndexed` | pass |
| `contract_registry` | types, `QuietReloadMirrorsDisk`, `FailedReloadStopsHalfway`, `NeverOlder`, `SequentialEditsKept` | pass |
| `autoresearch` | types, `KeptSurvivesRestart`, `KeepCountsStored` | pass |
| `model_calls` | types, `NewestKept`, `CriticTellsTheTruth`, `TenantsApart`, liveness `RequestsAnswered` | pass |
| `lost_cancel` | api-guide: cancel marks a run as cancelled | violation |
| `duplicate_without_run` | the 409 says "already processed as run" | violation |
| `unvalidated_output` | architecture: the runtime validates the output | violation |
| `evidence_lost` | api-guide: search returns repository-backed evidence | violation |

What the four violations show is in PROJECT.json, `findings`: the final row
overwrites a cancellation; a failed request blocks its own retry for the TTL; an
output is saved unvalidated when a later step did not complete; after a restart
with the default backends the vectors outlive the chunks, and a search returns
results without text.

### Where the passing properties stop short of the documentation

The passing properties state what the code guarantees.  Where a document or a
docstring says more, the difference is this:

- README.md:149 says "Duplicates within 10 minutes return 409".  `AdmissionsSpaced`
  has three exceptions: a full cache pushes keys out before, a restart forgets
  them, and an update sets its entry back to the time it sampled before it waited
  for the lock.  In the last case a key is admitted twice within the TTL although
  nothing was pushed out: the first request samples the time for its update; the
  entry expires and a second request is admitted; the update overwrites the
  second's entry with the old time; the next request evicts it and is admitted.
- docs/architecture.md:117 says that tool calls are persisted with their errors;
  a handler that raises leaves no record, and neither does one that returned when
  `save_tool_call` raises (`tools/executor.py:57`).  `CallsAccountedFor` counts
  the handlers that returned, up to one call the repository cost, and
  `EvaluationsCatchViolations` has the same exception: a run that fails this way
  passes `approval_rules_respected`.
- The result of a run is built outside the `try` that saves a failed run
  (`runtime.py:145`).  `RunResult` refuses a summary the model answers with null
  (OpenRouter and Ollama pass it on, `model_gateway.py:479`), and `ArtifactRef`
  refuses an artifact whose type, ref or description is not a string, which the
  output of a step, a model's own JSON, may contain (`runtime.py:232`).  Either
  way the caller gets 400 and the row says running for ever, as after an error of
  the repository in the final save.  `ResultFails` and `EndRun` are these paths;
  `RunningHasThread` lists what may leave a row running, and shows that nothing
  that raises while the run executes does.
- docs/roadmap.md:55 says "Ingested documents produce Postgres metadata and Qdrant
  vectors".  `ensure_collection` creates the collection without asking whether it
  exists (`vectorstore.py:107`) and Qdrant refuses one it has, so only the first
  call that indexes into a collection succeeds; every later ingestion is answered
  with its vectors skipped, or refused with `strict_vector`.  `CleanIngestIndexed`
  names this exception.  `IndexedIsComplete` and the other properties of `RagIndex`
  speak of the indexings that got through, and of collections of one's own.
- `index_document` takes the tenant of its payload before the document's
  (`rag_tools.py:77`), so a caller may index any document it can name for any
  tenant, whose searches then return it.  `TenantIsolated` says what is left: a
  result is the tenant's, or was indexed there in the tenant's name.
- NaN is a number to `json.loads`, and no comparison with it is true.  A critic
  whose confidence is NaN is accepted at the first try, since neither bound of
  `EvaluateResponse` refuses it (`CriticAccepts`); whether the response can be
  written depends on the version of the web framework (`Rendered`).
- `complete_simple` has no branch for Gemini and returns an empty text: with it
  the critic always answers 502 and the judge is always inconclusive
  (`CompleteSimple`).
- `judge_run` says "Never raises", yet `float` of a score too large for a float
  raises `OverflowError` (`llm_judge.py:119`), the outcome "500" of `AskJudge`; a
  score that is NaN is stored as 1.0 (`_bounded`), a pass when the model gave no
  verdict of its own, although the module means an answer without a verdict to be
  "not a pass" (`llm_judge.py:130`).  `Outcomes` follows the code, and no property
  says that a stored pass rests on a verdict.
- The judge route speaks of "a completed run's final output" and does not look at
  the status.
- The start of the process is stricter than a reload, and its rules apply to
  `app/domains` only: a contract that a reload accepts there can keep the process
  from starting.  `KeptSurvivesRestart` shows that a keep decision over the default
  targets excludes it.  A domain that exists only under `CONTRACTS_DIR` has no
  file at the default targets and is never kept with them.
- docs/autoresearcher-layer.md:86 compares with a baseline; `decide` compares with
  fixed thresholds (`Decision`).
- Agents whose file is gone stay registered after a reload
  (`QuietReloadMirrorsDisk` is about the files that load), and a reload answered
  400 has replaced the contracts before the one that stopped it
  (`FailedReloadStopsHalfway`).
- docs/evals.md:35 describes GET /evals/reports by its evaluations; the rows of
  `list_runs` carry none, so that it always totals 0.  Listings are not modelled.

### Bounds

- `idempotency_cache`: 2 threads, 1 tenant, 3 keys, capacity 2, TTL 1, clock to
  3, 1 restart.  Three keys overflow the cache, a clock of three lets an entry
  expire and be written again, two threads suffice for a stale `now` and a late
  update that sets an entry back, because each call touches one key and one thread
  can do all that happens between the two steps of the other.  3.1 million states.
- `run_service`: 2 requests of one key, SQL repository, 1 step, 1 call, 1
  evaluation, 1 fault, cancels of one run, TTL 0 and clock to 1 so that the
  second request may overtake an expired entry.  A run's rows are touched by its
  thread and by cancels only, so two runs show every interaction through the
  cache.  0.5 million states.
- `deduplication`: 3 requests, two of a key and one that pushes its entry out of
  a cache of capacity 1, in-memory repository, at most 1 step, so that a result may
  fail to be built, no tool calls and no cancellations, which do not touch the
  cache; no faults, for a restart forgets every key anyway.
- `agent_execution`: 4 agents that put 5 tools in every class of the policy,
  step limits -1, 1, 2 and none, token limits -1, 2 and none, at most 2 tokens
  per call and 2 calls per turn: limits are hit exactly, overshot and missed.
  Any of the calls may meet a failing repository, which ends the plan's step or the
  whole loop.  0.15 million states.
- `rag_index`: 3 calls, 2 tenants, 2 collections, 2 chunks per document, 1
  result, 1 fault or restart, in three deployments (the defaults, SQL with
  Qdrant, in-memory only).  Three calls are a writer, a second writer or a
  deletion of the same document, and a reader; two chunks give every loop a
  middle and an end and make the result limit bite; a second tenant and a
  second collection are what a result or a record could be confused with, and
  what a call may index a document for; two calls that index into one collection
  are what it takes for Qdrant to refuse it.  2 million states.
  Calls, tenants and collections are symmetric: the run checks no liveness.
- `evidence_lost`: the same calls with the default deployment.
- `contract_registry`: 2 reloads, 2 edits, 2 agents, 3 editable files (the overlay's
  domain.yaml and one agent, one built-in agent), contents written valid or
  mistyped, 1 restart; the domain starts built in or nowhere on disk, and an edit
  may create the overlay.  Two agents
  give a reload a file before, at and after the one an edit changes; two reloads
  are a fast and a slow one; two edits are an update and whatever undoes it,
  an update told to replace the other's text among them.  1.6 million states.
- `autoresearch`: 1 improvement run, 1 edit, 2 agents, 2 runs with evaluations, 1
  evaluation saved meanwhile, 1 restart.  It starts from no evaluations or from
  113 passed and 6 failed, whose rate of 0.9496 is rounded to 0.95: one more
  failure takes it below the threshold.
- `model_calls`: 1 run, 1 critic call, 1 judge call, up to 3 prior summaries with
  entries of length 1 and 2, base 3, header 2, budgets 3, 6 and 8: the budget is
  met exactly, missed by one, and exhausted by the base.  2 tenants and 2 keys,
  each of which may be an admin's and a tenant's at once.  The critic shares
  nothing with the other two and is checked on its own.
Deadlock checking is off where the system may stop: when all requests are
answered, when an execution has ended.

### Fairness

`RunService!FairSpec` assumes weak fairness of each request's thread once the
request has been accepted: threads are not preempted for ever, locks are held
briefly and model and tool calls have timeouts (`model_timeout_seconds`, the
`timeout` of every httpx call).  Nothing is assumed of clients, cancels, clock,
errors or crashes.  `AgentExecution!FairSpec` assumes the same of the one thread
that executes, and `ModelCalls!Spec` of each request that has begun: every call of
a provider has a timeout (`model_timeout_seconds`), and `Step` contains an answer
for every reply, errors included.  `ContractRegistry` and `Autoresearch` state
no liveness: their loops run over finite lists.

## Proofs

TLAPS checks these for every value of the constants that satisfies the named
assumptions (`StoreAssumption`, `CacheAssumption`, ...).

- `IdempotencyCacheProofs`: `TypeCorrect`; `CapacityHolds`, for which finiteness
  of every cache is carried along (`FiniteCaches`), since cardinalities say
  nothing otherwise; `Remembers`, whose inductive invariant `MemoryInv` adds
  that every entry carries the stamp of its key's last write (`EntriesStamped`);
  and the action property `AdmitsSpaced`, from `AdmissionsStamped`: a key is never
  stamped earlier than its latest protected admission, for a thread that was not
  overtaken samples its update after that admission.
- `RunServiceProofs`: the inductive invariant `RowInv` states for every request
  what the repository has at each stage of its thread (`RunAt`): no row before
  `open_run`, a running row and a growing trace after it, a final row when the
  trace is complete, and, after an error, a crash or a result that could not be
  built, the recorded cause.  None
  of the safety properties is inductive alone, since each relates the rows to
  where the thread is.  From it follow `TypeCorrect`, `TraceBelongsToRun`,
  `RunningIsExplained` and `ResponsesComplete`.  `ServiceImplementsLedger` is
  the refinement: `status` maps to itself, `recorded` to the number of a run's
  trace records and `settled` to whether its thread has passed the final row;
  every action is matched with the ledger step it implements or shown to
  stutter.  `DuplicatesExcluded` rests on `DuplicateInv`: every run in progress
  that holds a key is `Protected`, that is, the cache has an entry of its key at
  least as new as the time it was admitted with, or its TTL is over.  Eviction
  takes such an entry away only after the TTL; the other ways to lose it are what
  the history variable `disowned` records: runs whose entry was pushed out at
  capacity by another key's admission, and runs whose stamp an update of an
  earlier run of the key set back to a time it had sampled before they were
  admitted.  A crash ends every run in progress with the cache.
  `DuplicatesNameFinished` rests on `AnswersInv`: an entry is pending or names a
  run that is `Finished` (a final status, all steps, the artifact and all
  evaluations saved), which nothing but a crash that loses rows and cache together
  undoes.  `RequestsRunOut` bounds a request: each stage, tool call, step and
  evaluation uses up one of `WorkLeft`, and `WorkInv` says that a thread never has
  saved more steps than the execution returned.
- `RunLedgerProofs`: on the abstract side, `RecordsBelongToRuns` and
  `SettledRunsStay`; the refinement carries them over to the service.
- `RagIndexProofs`: the inductive invariant `RagInv`.  For every call, `StageAt`
  says which steps its kind allows, `DocumentAt` what the repository has of the
  document it ingests, `IndexAt` how far indexing has come and that each listed
  chunk is stored and, once upserted, backed by a vector that exists or was
  deleted, `SearchAt` that what a search has gathered belongs to its tenant or was
  `Meant` for it and, in SQL, exists, and `ReplyAt` that an answer stays true.
  `VectorsAt` says of every vector that some call put that document into that
  collection for that tenant, which isolation needs.  One set of lemmas
  shows that a step keeps what is true of the other threads (`Kept` lists what
  every step but a restart keeps), then one lemma per action shows the rest.
  From it follow `TypeCorrect`, `RecordsAreBacked`, `IndexedAnswers`,
  `EvidenceIsDurable` and `SearchIsolation`.  `CleanIngestion` adds `CleanAt`: as
  long as an ingestion is `Undisturbed` the only records of its document are those
  it has just saved, in order, so that its next record never meets one that is
  there; and `CollectionsMade`: every collection is there by the doing of a
  `Creator`, a call past its "ensure", so that an undisturbed ingestion refused at
  that step is `Crowded`, not the first to index into its collection.
  `IngestionsFound` adds `FoundAt`: the chunks `Due` to a search, those of its
  tenant's documents ingested when it began, are gathered or still to be asked
  for, and cutting the candidates to the limit loses no more than it must
  (`CutKeeps`, a fact about cardinalities).
- `AgentExecutionProofs`: the inductive invariant `ExecInv` keeps steps, calls and
  spending in step.  `Underway` bounds the model calls by the steps begun, which
  `BudgetsHold` needs; `InStep` says of a saved call whose turn is not through
  that its step is yet to be collected, and `Counted` that there is one saved call
  for each handler that returned and each approval requested, or `OneShort` that
  the repository failed on the last of them and the run ended with it
  (`CallsAccounted`); `Recorded`, or `RecordedBut` for that last handler, and
  `RefusalTold` tie the history of handlers and refusals to what is saved, the
  only thing the evaluations see (`ViolationsCaught`).  `CallKeeps` shows once
  what every tool call keeps, and each action of the two engines has one lemma.
  `PolicyAlwaysDecides` and `CompletedRunsAreDone` follow as well.
  `ExecutionRunsOut` gives an execution its `WorkLeft`: the rest of the plan, or
  the turns the step limit leaves with the calls each may request.  It needs
  `LoopBounded`, that the loop always has a step limit.
- `ContractRegistryProofs`: `PlaceInv` says at which stage each kind of call can be
  and that what a call saw over when it began is over; the others add to it.
  `SinceInv`: what a reload is about to install is no older than what was on disk
  when it began, for versions only grow; `FreshInv` carries that over to the
  contracts it has loaded (`NothingGetsOlder`).  `QuietInv`: a reload that runs
  alone mirrors the files it has passed (`MirrorsSoFar`), and a step of anybody
  else ends its solitude (`QuietReloadsMirror`); a reload that fails alone is left
  where `MirrorsSoFar` ends (`FailedReloadsStopHalfway`).  `TextInv`: a written text is in
  the file or in what a later update has read, or some call overrules it
  (`SequentialUpdatesKept`).
- `AutoresearchProofs`: the inductive invariant `ImproveInv` rests on `PlaceInv`.
  `Measured` says of every improvement run that what it found valid is valid on
  disk, and that its default targets are what is there, while it is unedited; any
  step of an edit ends that (`EditsShow`), every other step changes no file.  From
  it follow `AutoresearchTypeCorrect` and `KeptStarts`: `StartupFails` looks at no
  more than the default targets.  `StoredCounted` rests on `CountInv`: what was
  stored when an improvement run began is still stored while it works, and it has
  counted at least what the runs it has asked for had then (`Counting`).  The
  model sums with a fold over a set, so the module first shows what such a sum
  does (`SumOfGrows`): the sums over the subsets of a finite set exist, do not
  depend on the set they are taken within nor on the element taken first.
- `ModelCallsProofs`: the inductive invariant `CallsInv` states what the context,
  the run, the critic's attempts and the judgement are at each step of their
  thread.  From it follow `TypeCorrect`, `CriticTellsTruth`,
  `TenantsStayApart` and `SectionsFit`;
  `StatusIsForetold` is a fact about the settings alone.  `NewestAreKept` rests on
  `SectionInv`: while a section is built, its length and what remains of the
  budget are those of the newest summaries it holds (`SectionAdds`); since totals
  of suffixes grow (`SuffixGrows`), the first summary that does not fit ends what
  fits together (`CutIsRight`).  `StepsRunOut`: every step of the system moves one
  request nearer to its end and no other, so that `CriticTellsTruth`'s two tries
  and the summaries left to include are all there is to wait for.

Inductions over numbers and finite sets (`NumberInduction`, `SubsetInduction`) are
stated with a set instead of an operator as their parameter and follow from the
existence of minimal elements of a well-founded relation (`WFMin`), so that the
totals of `ModelCalls` and `Autoresearch` can be reasoned about for every input.

Only model-checked: liveness (`EveryRequestAnswered`, `ExecutionEnds`,
`RequestsAnswered`), which needs fairness and ENABLED.  Its safety half is proved
(`RequestsRunOut`, `ExecutionRunsOut`, `StepsRunOut`): a measure in the natural
numbers that each step of a thread lowers and nothing raises.  What TLC adds is
that a thread that is not over can always take a step.  The bounds in these
measures (`MaxCalls`, `MaxRequests`, `MaxSummaries`) are any natural numbers; the code
bounds tool calls by its step limit and by what one model answer requests.

## Not modelled

Formatting, logging, HTTP and SQL wording, provider payloads, JSON schema
validation itself (its verdict is nondeterministic), the validators that look at
the text of an output, S3, Obsidian, GitHub and search I/O, behind the tool
executor an answer or an exception.  Artifact storage: an object put before its
row fails to be written stays unreferenced, and nothing reads objects without
their row.  Contract seeding, an administrator's call, commits in two
transactions.  The insertion order that breaks ties between equal time stamps in
`_evict_oldest` is a nondeterministic choice.  Uuids are fresh names: a run is
named by its request.  The tenant filters of approvals, documents and listings
are left out; tenants appear where they key state and, in `ModelCalls`, where
they guard runs.  The use-case catalogue, the in-memory retriever, the prompts and
the stubs of governance, memory and workers have no state of their own.

## Plan

1. Done: cache, run service and ledger, execution, documents and vectors, registry
   and files, autoresearch, model calls, with the proofs above.
2. Left: refinement proofs for further abstract specifications, such as the rows of
   an ingestion seen by a reader of the document API.
3. Left: an approvals module with the tenants of approval requests.
