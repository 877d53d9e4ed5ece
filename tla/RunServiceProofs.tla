-------------------------- MODULE RunServiceProofs --------------------------
(***************************************************************************)
(* Theorems about the run service, for any number of requests, tenants and *)
(* keys, any outcome of an execution and either repository: its types, the *)
(* rows and the trace of a run through every failure, the completeness of  *)
(* a response, what the duplicate check excludes and what a duplicate's    *)
(* answer names, that the rows implement RunLedger and that every request  *)
(* uses up a finite amount of work.                                        *)
(***************************************************************************)
EXTENDS RunService, TLAPS

-----------------------------------------------------------------------------
(* The operators on one tenant's dictionary.                               *)

\* A cache is a function whose domain and entries are of the right kind.
LEMMA CacheMembership ==
    ASSUME NEW cache \in Cache
    PROVE  /\ DOMAIN cache \subseteq Keys
           /\ \A k \in DOMAIN cache : cache[k] \in Entry
BY DEF Cache

LEMMA CacheFrom ==
    ASSUME NEW held \in SUBSET Keys, NEW cache \in [held -> Entry]
    PROVE  cache \in Cache
BY DEF Cache

LEMMA EmptyCacheType == EmptyCache \in Cache
BY DEF EmptyCache, Cache

LEMMA WithoutType ==
    ASSUME NEW cache \in Cache, NEW keys
    PROVE  Without(cache, keys) \in Cache
<1> DEFINE held == DOMAIN cache \ keys
<1>1. held \in SUBSET Keys
  BY CacheMembership
<1>2. Without(cache, keys) = [k \in held |-> cache[k]]
  BY DEF Without
<1>3. \A k \in held : cache[k] \in Entry
  BY CacheMembership
<1>4. Without(cache, keys) \in [held -> Entry]
  BY <1>2, <1>3
<1>5. QED
  BY <1>1, <1>4, CacheFrom

LEMMA EvictType ==
    ASSUME NEW cache \in Cache, NEW time
    PROVE  Evict(cache, time) \in Cache
BY WithoutType DEF Evict

LEMMA StoreType ==
    ASSUME NEW cache \in Cache, NEW key \in Keys,
           NEW run \in Requests \cup {Pending}, NEW time \in 0..MaxClock
    PROVE  Store(cache, key, run, time) \in Cache
<1> DEFINE held == DOMAIN cache \cup {key}
<1>1. [run |-> run, ts |-> time] \in Entry
  BY DEF Entry
<1>2. held \in SUBSET Keys
  BY CacheMembership
<1>3. \A k \in DOMAIN cache : cache[k] \in Entry
  BY CacheMembership
<1>4. Store(cache, key, run, time) \in [held -> Entry]
  BY <1>1, <1>3 DEF Store
<1>5. QED
  BY <1>2, <1>4, CacheFrom

-----------------------------------------------------------------------------
(* Types.                                                                  *)

Stages == Waiting \cup Writing \cup Saving \cup Over

\* A reply whose code and run are set is a reply.
LEMMA AnswerType ==
    ASSUME NEW r \in Requests, NEW code \in {0, 200, 400, 409, 422},
           NEW run \in Requests \cup {Pending},
           pc \in [Requests -> Stages], reply \in [Requests -> Reply],
           Answer(r, code, run)
    PROVE  pc' \in [Requests -> Stages] /\ reply' \in [Requests -> Reply]
<1>1. pc' \in [Requests -> Stages]
  BY DEF Answer, Stages, Over
<1>2. [code |-> code, run |-> run,
       status |-> reply[r].status, trace |-> reply[r].trace] \in Reply
  BY DEF Reply
<1>3. QED
  BY <1>1, <1>2 DEF Answer

LEMMA NoTraceType == NoTrace \in Trace
BY ServiceAssumption DEF NoTrace, Trace

LEMMA NoReplyType == NoReply \in Reply
BY NoTraceType DEF NoReply, Reply, RowStatus

LEMMA TypeInit == Init => TypeOK
<1> SUFFICES ASSUME Init PROVE TypeOK
  OBVIOUS
<1>1. (CHOOSE s \in FinalStatuses : TRUE) \in FinalStatuses
  BY ServiceAssumption
<1>2. [status |-> CHOOSE s \in FinalStatuses : TRUE, steps |-> 0] \in Outcome
  BY <1>1, ServiceAssumption DEF Outcome
<1>3. outcome \in [Requests -> Outcome]
  BY <1>2 DEF Init
<1>4. store \in [Tenants -> Cache] /\ trace \in [Requests -> Trace]
      /\ reply \in [Requests -> Reply]
  BY EmptyCacheType, NoTraceType, NoReplyType DEF Init
<1>5. QED
  BY <1>3, <1>4, ServiceAssumption DEF Init, TypeOK, Waiting, RowStatus

\* What counting one more record does to a run's trace.
LEMMA TraceType ==
    ASSUME trace \in [Requests -> Trace], NEW r \in Requests
    PROVE  /\ trace[r].calls < MaxCalls =>
                [trace EXCEPT ![r].calls = @ + 1] \in [Requests -> Trace]
           /\ trace[r].steps < MaxSteps =>
                [trace EXCEPT ![r].steps = @ + 1] \in [Requests -> Trace]
           /\ [trace EXCEPT ![r].artifacts = 1] \in [Requests -> Trace]
           /\ trace[r].evals < Evaluations =>
                [trace EXCEPT ![r].evals = @ + 1] \in [Requests -> Trace]
<1> USE ServiceAssumption
<1>1. trace[r] \in Trace
  OBVIOUS
<1>2. ASSUME trace[r].calls < MaxCalls
      PROVE  [trace[r] EXCEPT !.calls = @ + 1] \in Trace
  BY <1>1, <1>2 DEF Trace
<1>3. ASSUME trace[r].steps < MaxSteps
      PROVE  [trace[r] EXCEPT !.steps = @ + 1] \in Trace
  BY <1>1, <1>3 DEF Trace
<1>4. [trace[r] EXCEPT !.artifacts = 1] \in Trace
  BY <1>1 DEF Trace
<1>5. ASSUME trace[r].evals < Evaluations
      PROVE  [trace[r] EXCEPT !.evals = @ + 1] \in Trace
  BY <1>1, <1>5 DEF Trace
<1>6. QED
  BY <1>2, <1>3, <1>4, <1>5

\* An action that moves one thread to a stage.
LEMMA StageType ==
    ASSUME pc \in [Requests -> Stages], NEW r \in Requests, NEW stage \in Stages
    PROVE  [pc EXCEPT ![r] = stage] \in [Requests -> Stages]
OBVIOUS

\* Only a request with a client_run_id asks the cache.
ChecksHaveKey == \A r \in Requests : pc[r] = "checking" => KeyOf[r] # NoKey

LEMMA KeyStep == TypeOK /\ ChecksHaveKey /\ [Next]_vars => ChecksHaveKey'
<1> SUFFICES ASSUME TypeOK, ChecksHaveKey, [Next]_vars, NEW q \in Requests,
                    pc'[q] = "checking"
             PROVE  KeyOf[q] # NoKey
  BY DEF ChecksHaveKey
<1>1. ASSUME NEW r \in Requests, Accept(r) PROVE KeyOf[q] # NoKey
  BY <1>1 DEF Accept, TypeOK, ChecksHaveKey
<1>2. ASSUME NEW r \in Requests,
             Refuse(r) \/ Thread(r) \/ FetchToCancel(r) \/ WriteCancel(r)
             \/ RepositoryError(r)
      PROVE  KeyOf[q] # NoKey
  <2>1. pc' = pc \/ \E stage \in Stages \ {"checking"} : pc' = [pc EXCEPT ![r] = stage]
    BY <1>2 DEF Refuse, Thread, RejectDuplicate, Admit, RejectInput, OpenRun, CallTool,
       FinishExecution, ResultFails, SaveFinal, SaveStep, SaveArtifact,
       SaveEvaluation, FetchRun,
       Respond, UpdateCache, FetchToCancel, WriteCancel, RepositoryError, Answer,
       Stages, Waiting, Writing, Saving, Over
  <2>2. QED
    BY <2>1 DEF TypeOK, ChecksHaveKey
<1>3. CASE Tick \/ UNCHANGED vars
  BY <1>3 DEF Tick, vars, ChecksHaveKey
<1>4. CASE Crash
  BY <1>4 DEF Crash, Over, ChecksHaveKey
<1>5. QED
  BY <1>1, <1>2, <1>3, <1>4 DEF Next

LEMMA TypeStep == TypeOK /\ ChecksHaveKey /\ [Next]_vars => TypeOK'
<1> SUFFICES ASSUME TypeOK, ChecksHaveKey, [Next]_vars PROVE TypeOK'
  OBVIOUS
<1> USE ServiceAssumption DEF TypeOK, cacheVars, rowVars
<1>0. /\ \A r \in Requests : TenantOf[r] \in Tenants
      /\ \A r \in Requests : KeyOf[r] # NoKey => KeyOf[r] \in Keys
      /\ pc \in [Requests -> Stages]
  BY DEF Stages
<1>1. ASSUME NEW r \in Requests, Refuse(r) PROVE TypeOK'
  BY <1>0, <1>1, AnswerType DEF Refuse, Stages
<1>2. ASSUME NEW r \in Requests, Accept(r) PROVE TypeOK'
  BY <1>2 DEF Accept, Waiting
<1>3. ASSUME NEW r \in Requests, RejectDuplicate(r) PROVE TypeOK'
  <2> DEFINE live == Evict(store[TenantOf[r]], now[r])
  <2>1. live \in Cache
    BY <1>0, EvictType
  <2>2. live[KeyOf[r]].run \in Requests \cup {Pending}
    BY <1>3, <2>1, CacheMembership DEF RejectDuplicate, Entry
  <2>3. pc' \in [Requests -> Stages] /\ reply' \in [Requests -> Reply]
    BY <1>0, <1>3, <2>2, AnswerType DEF RejectDuplicate
  <2>4. store' \in [Tenants -> Cache]
    BY <1>0, <1>3, <2>1 DEF RejectDuplicate
  <2>5. QED
    BY <1>3, <2>3, <2>4 DEF RejectDuplicate, Stages
<1>4. ASSUME NEW r \in Requests, Admit(r) PROVE TypeOK'
  <2> DEFINE live == Evict(store[TenantOf[r]], now[r])
  <2>0. KeyOf[r] \in Keys
    BY <1>0, <1>4 DEF Admit, ChecksHaveKey
  <2>1. live \in Cache
    BY <1>0, EvictType
  <2>2. PICK victims \in Victims(live) :
          /\ store' = [store EXCEPT ![TenantOf[r]] =
                        Store(Without(live, victims), KeyOf[r], Pending, now[r])]
          /\ disowned' = disowned \cup Rivals(r, victims)
    BY <1>4 DEF Admit
  <2>3. Store(Without(live, victims), KeyOf[r], Pending, now[r]) \in Cache
    BY <2>0, <2>1, WithoutType, StoreType
  <2>4. store' \in [Tenants -> Cache]
    BY <1>0, <2>2, <2>3
  <2>5. disowned' \subseteq Requests
    BY <2>2 DEF Rivals
  <2>6. QED
    BY <1>4, <2>4, <2>5 DEF Admit, Waiting
<1>5. ASSUME NEW r \in Requests, RejectInput(r) PROVE TypeOK'
  BY <1>0, <1>5, AnswerType DEF RejectInput, Stages
<1>6. ASSUME NEW r \in Requests, OpenRun(r) PROVE TypeOK'
  BY <1>6 DEF OpenRun, Writing, RowStatus
<1>7. ASSUME NEW r \in Requests, CallTool(r) PROVE TypeOK'
  BY <1>7, TraceType DEF CallTool
<1>8a. ASSUME NEW r \in Requests, ResultFails(r) PROVE TypeOK'
  BY <1>0, <1>8a, AnswerType DEF ResultFails, Stages
<1>8. ASSUME NEW r \in Requests, FinishExecution(r) PROVE TypeOK'
  BY <1>8 DEF FinishExecution, Writing
<1>9. ASSUME NEW r \in Requests, SaveFinal(r) PROVE TypeOK'
  <2>1. outcome[r].status \in RowStatus
    BY DEF Outcome, RowStatus
  <2>2. QED
    BY <1>9, <2>1 DEF SaveFinal, Saving
<1>10. ASSUME NEW r \in Requests, SaveStep(r) PROVE TypeOK'
  <2>1. trace[r].steps < MaxSteps
    BY <1>10 DEF SaveStep, Trace, Outcome
  <2>2. QED
    BY <1>10, <2>1, TraceType DEF SaveStep
<1>11. ASSUME NEW r \in Requests, SaveArtifact(r) PROVE TypeOK'
  BY <1>11, TraceType DEF SaveArtifact, Saving
<1>12. ASSUME NEW r \in Requests, SaveEvaluation(r) PROVE TypeOK'
  BY <1>12, TraceType DEF SaveEvaluation
<1>13. ASSUME NEW r \in Requests, FetchRun(r) PROVE TypeOK'
  <2>1. [code |-> 0, run |-> r, status |-> status[r], trace |-> trace[r]] \in Reply
    BY DEF Reply
  <2>2. QED
    BY <1>13, <2>1 DEF FetchRun, Saving
<1>14. ASSUME NEW r \in Requests, Respond(r) PROVE TypeOK'
  <2>1. CASE KeyOf[r] = NoKey
    BY <1>0, <1>14, <2>1, AnswerType DEF Respond, Stages
  <2>2. CASE KeyOf[r] # NoKey
    BY <1>14, <2>2 DEF Respond, Saving
  <2>3. QED
    BY <2>1, <2>2
<1>15. ASSUME NEW r \in Requests, UpdateCache(r) PROVE TypeOK'
  <2> DEFINE cache == store[TenantOf[r]]
  <2>1. pc' \in [Requests -> Stages] /\ reply' \in [Requests -> Reply]
    BY <1>0, <1>15, AnswerType DEF UpdateCache
  <2>2. CASE KeyOf[r] \in DOMAIN cache
    <3>1. KeyOf[r] \in Keys
      BY <1>0, <2>2, CacheMembership
    <3>2. Store(cache, KeyOf[r], r, now[r]) \in Cache
      BY <1>0, <3>1, StoreType
    <3>3. store' \in [Tenants -> Cache]
      BY <1>0, <1>15, <2>2, <3>2 DEF UpdateCache
    <3>4. disowned' \subseteq Requests
      BY <1>15, <2>2 DEF UpdateCache, Rivals
    <3>5. QED
      BY <1>15, <2>1, <3>3, <3>4 DEF UpdateCache, Stages
  <2>3. CASE KeyOf[r] \notin DOMAIN cache
    BY <1>15, <2>1, <2>3 DEF UpdateCache, Stages
  <2>4. QED
    BY <2>2, <2>3
<1>16. ASSUME NEW r \in Requests, FetchToCancel(r) PROVE TypeOK'
  BY <1>16 DEF FetchToCancel
<1>17. ASSUME NEW r \in Requests, WriteCancel(r) PROVE TypeOK'
  BY <1>17 DEF WriteCancel, RowStatus
<1>18. ASSUME NEW r \in Requests, RepositoryError(r) PROVE TypeOK'
  BY <1>0, <1>18, AnswerType DEF RepositoryError, Stages
<1>19. CASE Tick
  BY <1>19 DEF Tick
<1>20. CASE Crash
  <2>1. pc' \in [Requests -> Stages]
    BY <1>0, <1>20 DEF Crash, Stages, Over
  <2>2. store' \in [Tenants -> Cache]
    BY <1>20, EmptyCacheType DEF Crash
  <2>3. status' \in [Requests -> RowStatus] /\ trace' \in [Requests -> Trace]
    BY <1>20, NoTraceType DEF Crash, RowStatus
  <2>4. QED
    BY <1>20, <2>1, <2>2, <2>3 DEF Crash, Stages
<1>21. CASE UNCHANGED vars
  BY <1>21 DEF vars
<1>22. QED
  BY <1>1, <1>2, <1>3, <1>4, <1>5, <1>6, <1>7, <1>8, <1>8a, <1>9, <1>10, <1>11,
     <1>12, <1>13, <1>14, <1>15, <1>16, <1>17, <1>18, <1>19, <1>20, <1>21
     DEF Next, Thread

\* Every state of the run service is well typed: rows, traces, replies and
\* caches keep their shape through every interleaving and failure.
THEOREM TypeCorrect == Spec => []TypeOK
<1>1. Init => TypeOK /\ ChecksHaveKey
  BY TypeInit DEF Init, ChecksHaveKey
<1>2. TypeOK /\ ChecksHaveKey /\ [Next]_vars => (TypeOK /\ ChecksHaveKey)'
  BY TypeStep, KeyStep
<1>3. QED
  BY <1>1, <1>2, PTL DEF Spec

-----------------------------------------------------------------------------
(* The rows and the trace of a run.                                        *)

\* What the stage of a request's thread says about the rows of its run.
RowsAt(r) ==
    /\ pc[r] \in Waiting => status[r] = "absent"
    /\ pc[r] \in Writing => status[r] \in {"running", "cancelled"}
    /\ pc[r] \in Saving => status[r] \in FinalStatuses \cup {"cancelled"}
    /\ cancel[r] # "none" => status[r] # "absent"

\* Which records it has written by then.
RecordsAt(r) ==
    /\ pc[r] \in Waiting \cup Writing \cup {"tracing"} => trace[r].artifacts = 0
    /\ pc[r] \in Saving \ {"tracing"} =>
            trace[r].artifacts = 1 /\ trace[r].steps = outcome[r].steps

\* The reply that has been prepared is the one ResponseIsComplete asks for.
ReplyComplete(r) ==
    /\ reply[r].status \in FinalStatuses \cup {"cancelled"}
    /\ reply[r].trace.steps = outcome[r].steps
    /\ reply[r].trace.artifacts = 1
    /\ reply[r].trace.evals = Evaluations

ReplyAt(r) ==
    /\ pc[r] \in {"fetched", "updating"} => ReplyComplete(r)
    /\ reply[r].code = 200 => pc[r] = "answered" /\ ReplyComplete(r)

\* No trace without a row, and no row left running without a cause.
CausesAt(r) ==
    /\ status[r] = "absent" => trace[r] = NoTrace
    /\ status[r] = "running" => pc[r] \in Writing \/ r \in stranded

RunAt(r) == RowsAt(r) /\ RecordsAt(r) /\ ReplyAt(r) /\ CausesAt(r)

\* The invariant of the rows: inductive together with the types.
RowInv ==
    /\ TypeOK
    /\ ChecksHaveKey
    /\ \A r \in Requests : RunAt(r)

LEMMA RowInit == Init => RowInv
<1> SUFFICES ASSUME Init PROVE RowInv
  OBVIOUS
<1>1. TypeOK /\ ChecksHaveKey
  BY TypeInit DEF Init, ChecksHaveKey
<1>2. ASSUME NEW r \in Requests PROVE RunAt(r)
  BY DEF Init, RunAt, RowsAt, RecordsAt, ReplyAt, CausesAt, Writing, Saving,
         NoTrace, NoReply
<1>3. QED
  BY <1>1, <1>2 DEF RowInv

\* One step keeps what RowInv says of a run, whichever request takes it.
LEMMA RunStep ==
    ASSUME RowInv, [Next]_vars, NEW q \in Requests
    PROVE  RunAt(q)'
<1> USE ServiceAssumption DEF RowInv, TypeOK, RunAt, RowsAt, RecordsAt, ReplyAt,
        ReplyComplete, CausesAt, Waiting, Writing, Saving, Over, cacheVars, rowVars,
        Answer, Outcome, RowStatus
<1>1. ASSUME NEW r \in Requests, Refuse(r) PROVE RunAt(q)'
  BY <1>1 DEF Refuse
<1>2. ASSUME NEW r \in Requests, Accept(r) PROVE RunAt(q)'
  BY <1>2 DEF Accept
<1>3. ASSUME NEW r \in Requests, RejectDuplicate(r) PROVE RunAt(q)'
  BY <1>3 DEF RejectDuplicate
<1>4. ASSUME NEW r \in Requests, Admit(r) PROVE RunAt(q)'
  BY <1>4 DEF Admit
<1>5. ASSUME NEW r \in Requests, RejectInput(r) PROVE RunAt(q)'
  BY <1>5 DEF RejectInput
<1>6. ASSUME NEW r \in Requests, OpenRun(r) PROVE RunAt(q)'
  BY <1>6 DEF OpenRun
<1>7. ASSUME NEW r \in Requests, CallTool(r) PROVE RunAt(q)'
  BY <1>7 DEF CallTool
<1>8a. ASSUME NEW r \in Requests, ResultFails(r) PROVE RunAt(q)'
  BY <1>8a DEF ResultFails
<1>8. ASSUME NEW r \in Requests, FinishExecution(r) PROVE RunAt(q)'
  BY <1>8 DEF FinishExecution
<1>9. ASSUME NEW r \in Requests, SaveFinal(r) PROVE RunAt(q)'
  BY <1>9 DEF SaveFinal
<1>10. ASSUME NEW r \in Requests, SaveStep(r) PROVE RunAt(q)'
  BY <1>10 DEF SaveStep
<1>11. ASSUME NEW r \in Requests, SaveArtifact(r) PROVE RunAt(q)'
  BY <1>11 DEF SaveArtifact
<1>12. ASSUME NEW r \in Requests, SaveEvaluation(r) PROVE RunAt(q)'
  BY <1>12 DEF SaveEvaluation
<1>13. ASSUME NEW r \in Requests, FetchRun(r) PROVE RunAt(q)'
  BY <1>13 DEF FetchRun
<1>14. ASSUME NEW r \in Requests, Respond(r) PROVE RunAt(q)'
  BY <1>14 DEF Respond
<1>15. ASSUME NEW r \in Requests, UpdateCache(r) PROVE RunAt(q)'
  BY <1>15 DEF UpdateCache
<1>16. ASSUME NEW r \in Requests, FetchToCancel(r) PROVE RunAt(q)'
  BY <1>16 DEF FetchToCancel
<1>17. ASSUME NEW r \in Requests, WriteCancel(r) PROVE RunAt(q)'
  BY <1>17 DEF WriteCancel
<1>18. ASSUME NEW r \in Requests, RepositoryError(r) PROVE RunAt(q)'
  BY <1>18 DEF RepositoryError
<1>19. CASE Tick
  BY <1>19 DEF Tick
<1>20. CASE Crash
  BY <1>20 DEF Crash
<1>21. CASE UNCHANGED vars
  BY <1>21 DEF vars
<1>22. QED
  BY <1>1, <1>2, <1>3, <1>4, <1>5, <1>6, <1>7, <1>8, <1>8a, <1>9, <1>10, <1>11,
     <1>12, <1>13, <1>14, <1>15, <1>16, <1>17, <1>18, <1>19, <1>20, <1>21
     DEF Next, Thread

LEMMA RowStep == RowInv /\ [Next]_vars => RowInv'
<1> SUFFICES ASSUME RowInv, [Next]_vars PROVE RowInv'
  OBVIOUS
<1>1. TypeOK' /\ ChecksHaveKey'
  BY TypeStep, KeyStep DEF RowInv
<1>2. \A q \in Requests : RunAt(q)'
  BY RunStep
<1>3. QED
  BY <1>1, <1>2 DEF RowInv

THEOREM RowInvariant == Spec => []RowInv
BY RowInit, RowStep, PTL DEF Spec

\* Foreign keys: whatever fails, no trace record exists without its run's row.
THEOREM TraceBelongsToRun == Spec => []TraceHasRun
<1>1. RowInv => TraceHasRun
  BY DEF RowInv, RunAt, CausesAt, TraceHasRun
<1>2. QED
  BY <1>1, RowInvariant, PTL

\* A row says running only while its thread executes the run, or because an
\* error of the repository, a crash or a result that could not be built ended
\* the request: nothing the execution itself raises leaves such a row.
THEOREM RunningIsExplained == Spec => []RunningHasThread
<1>1. RowInv => RunningHasThread
  BY DEF RowInv, RunAt, CausesAt, RunningHasThread
<1>2. QED
  BY <1>1, RowInvariant, PTL

\* A 200 response carries every step, the trace artifact, every evaluation and
\* a final status, however other requests and cancellations interleave.
THEOREM ResponsesComplete == Spec => []ResponseIsComplete
<1>1. RowInv => ResponseIsComplete
  BY DEF RowInv, RunAt, ReplyAt, ReplyComplete, ResponseIsComplete
<1>2. QED
  BY <1>1, RowInvariant, PTL

-----------------------------------------------------------------------------
(* The rows implement the ledger.                                          *)

\* What RunLedger calls recorded and settled.
Records(r) == trace[r].calls + trace[r].steps + trace[r].artifacts + trace[r].evals
Recorded == [r \in Requests |-> Records(r)]
IsSettled(r) == pc[r] \in Saving \cup Over
Settled == [r \in Requests |-> IsSettled(r)]

LEMMA LedgerNames ==
    /\ Ledger!ledgerVars = <<status, Recorded, Settled>>
    /\ \A r \in Requests : Recorded[r] = Records(r) /\ (Settled[r] <=> IsSettled(r))
BY DEF Ledger!ledgerVars, Recorded, Records, Settled, IsSettled

\* The requests not concerned stay as settled as they were.
LEMMA SettledSame ==
    ASSUME \A r \in Requests : IsSettled(r)' <=> IsSettled(r)
    PROVE  Settled' = Settled
<1>1. \A r \in Requests : IsSettled(r)' = IsSettled(r)
  BY DEF IsSettled
<1>2. QED
  BY <1>1, Zenon DEF Settled

LEMMA SettledOne ==
    ASSUME NEW r \in Requests, IsSettled(r)',
           \A q \in Requests \ {r} : IsSettled(q)' <=> IsSettled(q)
    PROVE  Settled' = [Settled EXCEPT ![r] = TRUE]
<1>1. IsSettled(r)' = TRUE
  BY Zenon DEF IsSettled
<1>2. \A q \in Requests \ {r} : IsSettled(q)' = IsSettled(q)
  BY DEF IsSettled
<1>3. \A q \in Requests : IsSettled(q)' = IF q = r THEN TRUE ELSE IsSettled(q)
  BY <1>1, <1>2
<1>4. QED
  BY <1>3 DEF Settled

LEMMA SettledBoolean == Settled' \in [Requests -> BOOLEAN]
<1>1. \A r \in Requests : IsSettled(r)' \in BOOLEAN
  BY DEF IsSettled
<1>2. QED
  BY <1>1 DEF Settled

\* One more record of one run.
LEMMA RecordedOne ==
    ASSUME TypeOK, NEW r \in Requests,
           \/ trace' = [trace EXCEPT ![r].calls = @ + 1]
           \/ trace' = [trace EXCEPT ![r].steps = @ + 1]
           \/ trace' = [trace EXCEPT ![r].evals = @ + 1]
           \/ trace' = [trace EXCEPT ![r].artifacts = 1] /\ trace[r].artifacts = 0
    PROVE  Recorded' = [Recorded EXCEPT ![r] = @ + 1]
<1>1. trace[r] \in Trace
  BY DEF TypeOK
<1>2. Records(r)' = Records(r) + 1
  <2>1. /\ trace[r].calls \in Int /\ trace[r].steps \in Int
        /\ trace[r].artifacts \in Int /\ trace[r].evals \in Int
    BY <1>1, ServiceAssumption DEF Trace
  <2>2. CASE trace' = [trace EXCEPT ![r].calls = @ + 1]
    BY <2>1, <1>1, <2>2 DEF Records, TypeOK, Trace
  <2>3. CASE trace' = [trace EXCEPT ![r].steps = @ + 1]
    BY <2>1, <1>1, <2>3 DEF Records, TypeOK, Trace
  <2>4. CASE trace' = [trace EXCEPT ![r].evals = @ + 1]
    BY <2>1, <1>1, <2>4 DEF Records, TypeOK, Trace
  <2>5. CASE trace' = [trace EXCEPT ![r].artifacts = 1] /\ trace[r].artifacts = 0
    BY <2>1, <1>1, <2>5 DEF Records, TypeOK, Trace
  <2>6. QED
    BY <2>2, <2>3, <2>4, <2>5
<1>3. \A q \in Requests \ {r} : Records(q)' = Records(q)
  BY DEF Records, TypeOK
<1>4. QED
  BY <1>2, <1>3 DEF Recorded

LEMMA LedgerInit == Init => Ledger!Init
<1> SUFFICES ASSUME Init PROVE Ledger!Init
  OBVIOUS
<1>1. \A r \in Requests : Records(r) = 0
  BY DEF Init, NoTrace, Records
<1>2. \A r \in Requests : IsSettled(r) = FALSE
  BY DEF Init, IsSettled, Saving, Over
<1>3. Recorded = [r \in Requests |-> 0]
  BY <1>1 DEF Recorded
<1>4. Settled = [r \in Requests |-> FALSE]
  BY <1>2, Zenon DEF Settled
<1>5. QED
  BY <1>3, <1>4 DEF Init, Ledger!Init, Recorded, Records, Settled, IsSettled

\* What the ledger's actions are about here.
LEMMA LedgerActions ==
    ASSUME NEW r \in Requests
    PROVE  /\ Ledger!Open(r) <=>
                /\ status[r] = "absent" /\ ~Settled[r]
                /\ status' = [status EXCEPT ![r] = "running"]
                /\ Recorded' = Recorded /\ Settled' = Settled
           /\ Ledger!Record(r) <=>
                /\ status[r] # "absent"
                /\ Recorded' = [Recorded EXCEPT ![r] = @ + 1]
                /\ status' = status /\ Settled' = Settled
           /\ Ledger!Close(r) <=>
                /\ status[r] \in {"running", "cancelled"} /\ ~Settled[r]
                /\ \E s \in FinalStatuses : status' = [status EXCEPT ![r] = s]
                /\ Settled' = [Settled EXCEPT ![r] = TRUE]
                /\ Recorded' = Recorded
           /\ Ledger!Cancel(r) <=>
                /\ status[r] # "absent"
                /\ status' = [status EXCEPT ![r] = "cancelled"]
                /\ Recorded' = Recorded /\ Settled' = Settled
BY DEF Ledger!Open, Ledger!Record, Ledger!Close, Ledger!Cancel, Recorded, Records,
   Settled, IsSettled

LEMMA LedgerFailures ==
    /\ Ledger!Settle <=>
        /\ Settled' \in [Requests -> BOOLEAN]
        /\ \A r \in Requests : Settled[r] => Settled'[r]
        /\ status' = status /\ Recorded' = Recorded
    /\ Ledger!Lose <=>
        /\ status' = [r \in Requests |-> "absent"]
        /\ Recorded' = [r \in Requests |-> 0]
        /\ Settled' \in [Requests -> BOOLEAN]
        /\ \A r \in Requests : Settled[r] \/ status[r] # "absent" => Settled'[r]
BY DEF Ledger!Settle, Ledger!Lose, Recorded, Records, Settled, IsSettled

\* A thread that moves on without a row or a record being written and without
\* being settled is invisible to the ledger.
LEMMA Invisible ==
    ASSUME UNCHANGED <<status, trace>>,
           \A r \in Requests : IsSettled(r)' <=> IsSettled(r)
    PROVE  UNCHANGED Ledger!ledgerVars
<1>1. Recorded' = Recorded
  BY DEF Recorded, Records
<1>2. Settled' = Settled
  BY SettledSame
<1>3. QED
  BY <1>1, <1>2, LedgerNames DEF Ledger!ledgerVars, Recorded, Records, Settled, IsSettled

\* A thread that ends without writing a row settles its run.
LEMMA Settles ==
    ASSUME NEW r \in Requests, UNCHANGED <<status, trace>>, IsSettled(r)',
           \A q \in Requests \ {r} : IsSettled(q)' <=> IsSettled(q)
    PROVE  Ledger!Settle
<1>1. Recorded' = Recorded
  BY DEF Recorded, Records
<1>2. \A q \in Requests : Settled[q] => Settled'[q]
  <2>1. \A q \in Requests :
          (Settled[q] <=> IsSettled(q)) /\ (Settled'[q] <=> IsSettled(q)')
    BY DEF Settled
  <2>2. QED
    BY <2>1
<1>3. QED
  BY <1>1, <1>2, SettledBoolean, LedgerFailures

\* Every step of the service is a step of the ledger or changes nothing in it.
LEMMA LedgerStep ==
    ASSUME RowInv, [Next]_vars
    PROVE  Ledger!Next \/ UNCHANGED Ledger!ledgerVars
<1> USE DEF Waiting, Writing, Saving, Over, cacheVars, rowVars, IsSettled
<1>0. /\ pc \in [Requests -> Stages] /\ status \in [Requests -> RowStatus]
      /\ \A r \in Requests : RunAt(r)
      /\ TypeOK
  BY DEF RowInv, TypeOK, Stages
<1>1. ASSUME NEW r \in Requests, Refuse(r) \/ RejectDuplicate(r) \/ RejectInput(r)
                                 \/ ResultFails(r) \/ RepositoryError(r)
      PROVE  Ledger!Next
  <2>1. UNCHANGED <<status, trace>> /\ pc' = [pc EXCEPT ![r] = "answered"]
    BY <1>1 DEF Refuse, RejectDuplicate, RejectInput, ResultFails, RepositoryError, Answer
  <2>2. Ledger!Settle
    BY <1>0, <2>1, Settles
  <2>3. QED
    BY <2>2 DEF Ledger!Next
<1>2. ASSUME NEW r \in Requests,
             \/ Accept(r) \/ Admit(r) \/ FinishExecution(r) \/ FetchRun(r)
             \/ Respond(r) \/ UpdateCache(r) \/ FetchToCancel(r)
      PROVE  UNCHANGED Ledger!ledgerVars
  <2>1. UNCHANGED <<status, trace>>
    BY <1>2 DEF Accept, Admit, FinishExecution, FetchRun, Respond, UpdateCache,
           FetchToCancel
  <2>2. \A q \in Requests : IsSettled(q)' <=> IsSettled(q)
    BY <1>0, <1>2 DEF Accept, Admit, FinishExecution, FetchRun, Respond, UpdateCache,
       FetchToCancel, Answer
  <2>3. QED
    BY <2>1, <2>2, Invisible
<1>3. ASSUME NEW r \in Requests, OpenRun(r) PROVE Ledger!Next
  <2>1. status[r] = "absent" /\ ~IsSettled(r)
    BY <1>0, <1>3 DEF OpenRun, RunAt, RowsAt
  <2>2. \A q \in Requests : IsSettled(q)' <=> IsSettled(q)
    BY <1>0, <1>3 DEF OpenRun
  <2>3. Recorded' = Recorded
    BY <1>3 DEF OpenRun, Recorded, Records
  <2>4. Ledger!Open(r)
    BY <1>3, <2>1, <2>2, <2>3, SettledSame, LedgerNames, LedgerActions DEF OpenRun
  <2>5. QED
    BY <2>4 DEF Ledger!Next
<1>4. ASSUME NEW r \in Requests, CallTool(r) \/ SaveStep(r) \/ SaveArtifact(r)
                                 \/ SaveEvaluation(r)
      PROVE  Ledger!Next
  <2>1. status[r] # "absent"
    BY <1>0, <1>4, ServiceAssumption
       DEF CallTool, SaveStep, SaveArtifact, SaveEvaluation, RunAt, RowsAt
  <2>2. Recorded' = [Recorded EXCEPT ![r] = @ + 1]
    <3>1. pc[r] = "tracing" => trace[r].artifacts = 0
      BY <1>0 DEF RunAt, RecordsAt
    <3>2. QED
      BY <1>0, <1>4, <3>1, RecordedOne
         DEF CallTool, SaveStep, SaveArtifact, SaveEvaluation
  <2>3. \A q \in Requests : IsSettled(q)' <=> IsSettled(q)
    BY <1>0, <1>4 DEF CallTool, SaveStep, SaveArtifact, SaveEvaluation
  <2>4. status' = status
    BY <1>4 DEF CallTool, SaveStep, SaveArtifact, SaveEvaluation
  <2>5. Ledger!Record(r)
    BY <2>1, <2>2, <2>3, <2>4, SettledSame, LedgerActions
  <2>6. QED
    BY <2>5 DEF Ledger!Next
<1>5. ASSUME NEW r \in Requests, SaveFinal(r) PROVE Ledger!Next
  <2>1. status[r] \in {"running", "cancelled"} /\ ~IsSettled(r)
    BY <1>0, <1>5 DEF SaveFinal, RunAt, RowsAt
  <2>2. \E s \in FinalStatuses : status' = [status EXCEPT ![r] = s]
    BY <1>0, <1>5 DEF SaveFinal, TypeOK, Outcome
  <2>3. IsSettled(r)' /\ \A q \in Requests \ {r} : IsSettled(q)' <=> IsSettled(q)
    BY <1>0, <1>5 DEF SaveFinal
  <2>4. Recorded' = Recorded
    BY <1>5 DEF SaveFinal, Recorded, Records
  <2>5. Settled' = [Settled EXCEPT ![r] = TRUE]
    BY <2>3, SettledOne
  <2>6. Ledger!Close(r)
    BY <2>1, <2>2, <2>4, <2>5, LedgerNames, LedgerActions
  <2>7. QED
    BY <2>6 DEF Ledger!Next
<1>6. ASSUME NEW r \in Requests, WriteCancel(r)
      PROVE  Ledger!Next \/ UNCHANGED Ledger!ledgerVars
  <2>1. \A q \in Requests : IsSettled(q)' <=> IsSettled(q)
    BY <1>6 DEF WriteCancel
  <2>2. CASE status' = status
    <3>1. UNCHANGED <<status, trace>>
      BY <1>6, <2>2 DEF WriteCancel
    <3>2. QED
      BY <2>1, <3>1, Invisible
  <2>3. CASE status' = [status EXCEPT ![r] = "cancelled"]
    <3>1. status[r] # "absent"
      BY <1>0, <1>6 DEF WriteCancel, RunAt, RowsAt
    <3>2. Recorded' = Recorded
      BY <1>6 DEF WriteCancel, Recorded, Records
    <3>3. Ledger!Cancel(r)
      BY <2>1, <2>3, <3>1, <3>2, SettledSame, LedgerActions
    <3>4. QED
      BY <3>3 DEF Ledger!Next
  <2>4. QED
    BY <1>6, <2>2, <2>3 DEF WriteCancel
<1>7. CASE Tick \/ UNCHANGED vars
  <2>1. UNCHANGED <<status, trace, pc>>
    BY <1>7 DEF Tick, vars
  <2>2. QED
    BY <2>1, Invisible
<1>8. CASE Crash
  <2>1. \A q \in Requests : (IsSettled(q) => IsSettled(q)')
                            /\ (status[q] # "absent" => IsSettled(q)')
    BY <1>0, <1>8 DEF Crash, RunAt, RowsAt, Stages
  <2>2. \A q \in Requests :
          Settled[q] \/ (~Durable /\ status[q] # "absent") => Settled'[q]
    <3>1. \A q \in Requests :
          (Settled[q] <=> IsSettled(q)) /\ (Settled'[q] <=> IsSettled(q)')
      BY DEF Settled
    <3>2. QED
      BY <2>1, <3>1
  <2>3. CASE Durable
    <3>1. UNCHANGED <<status, trace>>
      BY <1>8, <2>3 DEF Crash
    <3>2. Recorded' = Recorded
      BY <3>1 DEF Recorded, Records
    <3>3. Ledger!Settle
      BY <2>2, <3>1, <3>2, SettledBoolean, LedgerFailures
    <3>4. QED
      BY <3>3 DEF Ledger!Next
  <2>4. CASE ~Durable
    <3>1. /\ status' = [q \in Requests |-> "absent"]
          /\ trace' = [q \in Requests |-> NoTrace]
      BY <1>8, <2>4 DEF Crash
    <3>2. Recorded' = [q \in Requests |-> 0]
      BY <3>1 DEF Recorded, Records, NoTrace
    <3>3. Ledger!Lose
      BY <2>2, <2>4, <3>1, <3>2, SettledBoolean, LedgerFailures
    <3>4. QED
      BY <3>3 DEF Ledger!Next
  <2>5. QED
    BY <2>3, <2>4
<1>9. QED
  BY <1>1, <1>2, <1>3, <1>4, <1>5, <1>6, <1>7, <1>8 DEF Next, Thread

\* The rows of the run service, with every interleaving, cancellation, error and
\* crash, implement the ledger a reader of the run API relies on.
THEOREM ServiceImplementsLedger == Spec => ImplementsLedger
<1>1. RowInv /\ [Next]_vars => [Ledger!Next]_(Ledger!ledgerVars)
  BY LedgerStep
<1>2. QED
  BY <1>1, LedgerInit, RowInvariant, PTL DEF Spec, ImplementsLedger, Ledger!Spec

-----------------------------------------------------------------------------
(* Duplicates in progress.                                                 *)

\* The cache holds an entry of the key that is at least as new as time.
Guarded(cache, key, time) == key \in DOMAIN cache /\ cache[key].ts >= time

\* Eviction takes a guarding entry away only once its TTL is over.
LEMMA EvictGuards ==
    ASSUME NEW cache \in Cache, NEW key, NEW time \in 0..MaxClock,
           NEW present \in 0..MaxClock, Guarded(cache, key, time)
    PROVE  Guarded(Evict(cache, present), key, time) \/ present - time > TTL
<1>1. /\ key \in DOMAIN cache /\ cache[key].ts \in 0..MaxClock
      /\ cache[key].ts >= time
  BY CacheMembership DEF Guarded, Entry
<1>2. CASE present - cache[key].ts > TTL
  BY <1>1, <1>2, ServiceAssumption, StoreAssumption
<1>3. CASE ~(present - cache[key].ts > TTL)
  <2>1. key \in DOMAIN cache \ ExpiredKeys(cache, present)
    BY <1>1, <1>3 DEF ExpiredKeys
  <2>2. QED
    BY <1>1, <2>1 DEF Evict, Without, Guarded
<1>4. QED
  BY <1>2, <1>3

\* Deleting other keys, and storing a newer entry, keep a guard.
LEMMA WithoutGuards ==
    ASSUME NEW cache, NEW key, NEW time, NEW keys, key \notin keys,
           Guarded(cache, key, time)
    PROVE  Guarded(Without(cache, keys), key, time)
BY DEF Guarded, Without

LEMMA StoreGuards ==
    ASSUME NEW cache, NEW key, NEW time, NEW stored, NEW run, NEW stamp,
           IF key = stored THEN stamp >= time ELSE Guarded(cache, key, time)
    PROVE  Guarded(Store(cache, stored, run, stamp), key, time)
BY DEF Guarded, Store

\* The cache knows of a run in progress as long as its TTL lasts.
Protected(q) ==
    Guarded(store[TenantOf[q]], KeyOf[q], now[q]) \/ clock - now[q] > TTL

\* A thread samples the time before it uses it.
TimesPast == \A q \in Requests : now[q] <= clock

\* So it is with every run in progress whose entry nobody took away.
HoldersProtected ==
    \A q \in Requests :
        KeyOf[q] # NoKey /\ pc[q] \in InFlight /\ q \notin disowned => Protected(q)

\* The invariant of duplicates in progress: inductive as it stands.
DuplicateInv ==
    /\ TypeOK
    /\ ChecksHaveKey
    /\ TimesPast
    /\ HoldersProtected
    /\ NoConcurrentDuplicates

LEMMA TimesPastStep == TypeOK /\ TimesPast /\ [Next]_vars => TimesPast'
<1> SUFFICES ASSUME TypeOK, TimesPast, [Next]_vars PROVE TimesPast'
  OBVIOUS
<1> USE ServiceAssumption DEF TypeOK, TimesPast, cacheVars
<1>1. ASSUME NEW r \in Requests, Accept(r) \/ Respond(r) PROVE TimesPast'
  <2>1. /\ clock' = clock
        /\ now' = now \/ now' = [now EXCEPT ![r] = clock]
    BY <1>1 DEF Accept, Respond
  <2>2. QED
    BY <2>1
<1>2. ASSUME NEW r \in Requests,
             \/ Refuse(r) \/ RejectDuplicate(r) \/ Admit(r) \/ RejectInput(r)
             \/ ResultFails(r)
             \/ OpenRun(r) \/ CallTool(r) \/ FinishExecution(r) \/ SaveFinal(r)
             \/ SaveStep(r) \/ SaveArtifact(r) \/ SaveEvaluation(r) \/ FetchRun(r)
             \/ UpdateCache(r) \/ FetchToCancel(r) \/ WriteCancel(r)
             \/ RepositoryError(r)
      PROVE  TimesPast'
  <2>1. UNCHANGED <<now, clock>>
    BY <1>2 DEF Refuse, RejectDuplicate, Admit, RejectInput, OpenRun, CallTool,
       FinishExecution, ResultFails, SaveFinal, SaveStep, SaveArtifact,
       SaveEvaluation, FetchRun,
       UpdateCache, FetchToCancel, WriteCancel, RepositoryError
  <2>2. QED
    BY <2>1
<1>3. CASE Tick
  BY <1>3 DEF Tick
<1>4. CASE Crash \/ UNCHANGED vars
  BY <1>4 DEF Crash, vars
<1>5. QED
  BY <1>1, <1>2, <1>3, <1>4 DEF Next, Thread

\* A request with a key that is in progress after a step was so before, with
\* the same time, unless the step admits it.
LEMMA InProgressBefore ==
    ASSUME TypeOK, [Next]_vars, NEW q \in Requests, KeyOf[q] # NoKey,
           pc'[q] \in InFlight
    PROVE  /\ now'[q] = now[q]
           /\ pc[q] \in InFlight \/ Admit(q)
           /\ clock' \in Nat /\ clock' >= clock
           /\ q \in disowned => q \in disowned'
<1> USE ServiceAssumption DEF TypeOK, cacheVars, InFlight, Writing
<1>1. ASSUME NEW r \in Requests, Accept(r) \/ Respond(r)
      PROVE  /\ now'[q] = now[q] /\ pc[q] \in InFlight
             /\ clock' = clock /\ disowned' = disowned
  <2>1. CASE q = r
    BY <1>1, <2>1 DEF Accept, Respond
  <2>2. CASE q # r
    BY <1>1, <2>2 DEF Accept, Respond, Answer
  <2>3. QED
    BY <2>1, <2>2
<1>2. ASSUME NEW r \in Requests, Admit(r)
      PROVE  /\ now'[q] = now[q] /\ (pc[q] \in InFlight \/ q = r)
             /\ clock' = clock /\ disowned \subseteq disowned'
  BY <1>2 DEF Admit
<1>3. ASSUME NEW r \in Requests,
             \/ Refuse(r) \/ RejectDuplicate(r) \/ RejectInput(r) \/ ResultFails(r)
             \/ FetchToCancel(r) \/ WriteCancel(r) \/ RepositoryError(r)
      PROVE  /\ now'[q] = now[q] /\ pc[q] \in InFlight
             /\ clock' = clock /\ disowned' = disowned
  BY <1>3 DEF Refuse, RejectDuplicate, RejectInput, ResultFails,
     FetchToCancel, WriteCancel, RepositoryError, Answer
<1>4. ASSUME NEW r \in Requests,
             \/ OpenRun(r) \/ CallTool(r) \/ FinishExecution(r) \/ SaveFinal(r)
             \/ SaveStep(r) \/ SaveArtifact(r) \/ SaveEvaluation(r) \/ FetchRun(r)
      PROVE  /\ now'[q] = now[q] /\ pc[q] \in InFlight
             /\ clock' = clock /\ disowned' = disowned
  BY <1>4 DEF OpenRun, CallTool, FinishExecution, SaveFinal, SaveStep, SaveArtifact,
     SaveEvaluation, FetchRun
<1>5. ASSUME NEW r \in Requests, UpdateCache(r)
      PROVE  /\ now'[q] = now[q] /\ pc[q] \in InFlight
             /\ clock' = clock /\ disowned \subseteq disowned'
  BY <1>5 DEF UpdateCache, Answer
<1>6. CASE Tick
  BY <1>6 DEF Tick
<1>7. ~Crash
  BY DEF Crash, Over
<1>8. CASE UNCHANGED vars
  BY <1>8 DEF vars
<1>9. QED
  BY <1>1, <1>2, <1>3, <1>4, <1>5, <1>6, <1>7, <1>8 DEF Next, Thread

\* What a step does to the caches: nothing, or one operation of one request.
LEMMA CacheSteps ==
    ASSUME [Next]_vars
    PROVE  \/ store' = store
           \/ \E r \in Requests : RejectDuplicate(r) \/ Admit(r) \/ UpdateCache(r)
           \/ Crash
BY DEF Next, Thread, Refuse, Accept, RejectInput, OpenRun, CallTool, FinishExecution,
   ResultFails, SaveFinal, SaveStep, SaveArtifact, SaveEvaluation, FetchRun,
   Respond, FetchToCancel,
   WriteCancel, RepositoryError, Tick, vars, cacheVars

\* A run in progress keeps its guard through a step, until its TTL is over.
LEMMA ProtectedStep ==
    ASSUME DuplicateInv, [Next]_vars, NEW q \in Requests, KeyOf[q] # NoKey,
           pc[q] \in InFlight, pc'[q] \in InFlight, q \notin disowned'
    PROVE  Protected(q)'
<1> USE ServiceAssumption, StoreAssumption
<1> DEFINE t == TenantOf[q]
           k == KeyOf[q]
<1>0. /\ t \in Tenants /\ k \in Keys /\ store[t] \in Cache
      /\ now[q] \in 0..MaxClock /\ clock \in 0..MaxClock
      /\ \A r \in Requests : now[r] \in 0..MaxClock /\ now[r] <= clock
  BY DEF DuplicateInv, TypeOK, TimesPast
<1>1. /\ now'[q] = now[q] /\ clock' \in Nat /\ clock' >= clock
      /\ q \notin disowned
  BY InProgressBefore DEF DuplicateInv
<1>2. Guarded(store[t], k, now[q]) \/ clock - now[q] > TTL
  BY <1>1 DEF DuplicateInv, HoldersProtected, Protected
<1> SUFFICES Guarded(store'[t], k, now[q]) \/ clock - now[q] > TTL
  <2>1. clock - now[q] > TTL => clock' - now'[q] > TTL
    BY <1>0, <1>1
  <2>2. Guarded(store'[t], k, now[q]) => Guarded(store[t], k, now[q])'
    BY <1>1 DEF Guarded
  <2>3. QED
    BY <2>1, <2>2, <1>1 DEF Protected
<1> SUFFICES ASSUME Guarded(store[t], k, now[q])
             PROVE  Guarded(store'[t], k, now[q]) \/ clock - now[q] > TTL
  BY <1>2
<1>3. ASSUME NEW r \in Requests
      PROVE  Guarded(Evict(store[t], now[r]), k, now[q]) \/ clock - now[q] > TTL
  <2>1. Guarded(Evict(store[t], now[r]), k, now[q]) \/ now[r] - now[q] > TTL
    BY <1>0, EvictGuards
  <2>2. now[r] - now[q] > TTL => clock - now[q] > TTL
    BY <1>0
  <2>3. QED
    BY <2>1, <2>2
<1>4. ASSUME NEW r \in Requests, RejectDuplicate(r)
      PROVE  Guarded(store'[t], k, now[q]) \/ clock - now[q] > TTL
  <2>1. CASE TenantOf[r] = t
    <3>1. store'[t] = Evict(store[t], now[r])
      BY <1>0, <1>4, <2>1 DEF RejectDuplicate, DuplicateInv, TypeOK
    <3>2. QED
      BY <1>3, <3>1
  <2>2. CASE TenantOf[r] # t
    BY <1>0, <1>4, <2>2 DEF RejectDuplicate, DuplicateInv, TypeOK
  <2>3. QED
    BY <2>1, <2>2
<1>5. ASSUME NEW r \in Requests, Admit(r)
      PROVE  Guarded(store'[t], k, now[q]) \/ clock - now[q] > TTL
  <2>1. CASE TenantOf[r] = t
    <3> DEFINE live == Evict(store[t], now[r])
    <3>1. PICK victims \in Victims(live) :
            /\ store' = [store EXCEPT ![t] =
                          Store(Without(live, victims), KeyOf[r], Pending, now[r])]
            /\ disowned' = disowned \cup Rivals(r, victims)
      BY <1>5, <2>1 DEF Admit
    <3>2. KeyOf[r] \notin DOMAIN live /\ r # q
      BY <1>5, <2>1 DEF Admit, InFlight, Writing
    <3>3. k \notin victims
      BY <3>1, <3>2, <2>1 DEF Rivals
    <3>4. CASE clock - now[q] > TTL
      BY <3>4
    <3>5. CASE Guarded(live, k, now[q])
      <4>1. Guarded(Without(live, victims), k, now[q])
        BY <3>3, <3>5, WithoutGuards
      <4>2. k # KeyOf[r]
        BY <3>2, <3>5 DEF Guarded
      <4>3. Guarded(Store(Without(live, victims), KeyOf[r], Pending, now[r]), k, now[q])
        BY <4>1, <4>2, StoreGuards
      <4>4. store'[t] = Store(Without(live, victims), KeyOf[r], Pending, now[r])
        BY <1>0, <3>1 DEF DuplicateInv, TypeOK
      <4>5. QED
        BY <4>3, <4>4
    <3>6. QED
      BY <1>3, <3>4, <3>5
  <2>2. CASE TenantOf[r] # t
    BY <1>0, <1>5, <2>2 DEF Admit, DuplicateInv, TypeOK
  <2>3. QED
    BY <2>1, <2>2
<1>6. ASSUME NEW r \in Requests, UpdateCache(r)
      PROVE  Guarded(store'[t], k, now[q]) \/ clock - now[q] > TTL
  <2>1. CASE TenantOf[r] = t /\ KeyOf[r] \in DOMAIN store[t]
    <3>1. /\ store' = [store EXCEPT ![t] = Store(store[t], KeyOf[r], r, now[r])]
          /\ disowned' = disowned \cup {p \in Rivals(r, {KeyOf[r]}) : now[p] > now[r]}
          /\ r # q
      BY <1>6, <2>1 DEF UpdateCache, InFlight, Writing
    <3>2. k = KeyOf[r] => now[r] >= now[q]
      BY <1>0, <3>1, <2>1 DEF Rivals
    <3>3. Guarded(Store(store[t], KeyOf[r], r, now[r]), k, now[q])
      BY <3>2, StoreGuards
    <3>4. store'[t] = Store(store[t], KeyOf[r], r, now[r])
      BY <1>0, <3>1 DEF DuplicateInv, TypeOK
    <3>5. QED
      BY <3>3, <3>4
  <2>2. CASE ~(TenantOf[r] = t /\ KeyOf[r] \in DOMAIN store[t])
    <3>1. store'[t] = store[t]
      BY <1>0, <1>6, <2>2 DEF UpdateCache, DuplicateInv, TypeOK
    <3>2. QED
      BY <3>1
  <2>3. QED
    BY <2>1, <2>2
<1>7. ~Crash
  <2>1. pc[q] \notin {"idle"} \cup Over /\ "crashed" \notin InFlight
    BY DEF InFlight, Writing, Over
  <2>2. QED
    BY <2>1 DEF Crash
<1>8. QED
  BY <1>4, <1>5, <1>6, <1>7, CacheSteps

\* The request a step admits is guarded by the entry that is stored for it, and
\* the requests of its key that are in progress have outlived their TTL.
LEMMA AdmitProtects ==
    ASSUME DuplicateInv, NEW q \in Requests, Admit(q)
    PROVE  /\ Protected(q)'
           /\ \A r \in Requests :
                /\ r # q /\ KeyOf[r] = KeyOf[q] /\ TenantOf[r] = TenantOf[q]
                /\ pc[r] \in InFlight /\ r \notin disowned
                => clock - now[r] > TTL
<1> USE ServiceAssumption, StoreAssumption
<1> DEFINE t == TenantOf[q]
           k == KeyOf[q]
           live == Evict(store[t], now[q])
<1>0. /\ t \in Tenants /\ k \in Keys /\ store[t] \in Cache
      /\ clock \in 0..MaxClock /\ k # NoKey
      /\ \A r \in Requests : now[r] \in 0..MaxClock /\ now[r] <= clock
  BY DEF DuplicateInv, TypeOK, TimesPast, ChecksHaveKey, Admit
<1>1. Protected(q)'
  <2>1. PICK victims \in Victims(live) :
            store' = [store EXCEPT ![t] =
                          Store(Without(live, victims), k, Pending, now[q])]
    BY DEF Admit
  <2>2. /\ store'[t] = Store(Without(live, victims), k, Pending, now[q])
        /\ now'[q] = now[q] /\ now[q] \in Int
    BY <1>0, <2>1 DEF DuplicateInv, TypeOK, Admit
  <2>3. Guarded(Store(Without(live, victims), k, Pending, now[q]), k, now[q])
    BY <2>2, StoreGuards
  <2>4. Guarded(store[t], k, now[q])'
    BY <2>2, <2>3 DEF Guarded
  <2>5. QED
    BY <2>4 DEF Protected
<1>2. ASSUME NEW r \in Requests, r # q, KeyOf[r] = k, TenantOf[r] = t,
             pc[r] \in InFlight, r \notin disowned
      PROVE  clock - now[r] > TTL
  <2>1. Guarded(store[t], k, now[r]) \/ clock - now[r] > TTL
    BY <1>0, <1>2 DEF DuplicateInv, HoldersProtected, Protected
  <2>2. Guarded(store[t], k, now[r]) => now[q] - now[r] > TTL
    <3>1. k \notin DOMAIN live
      BY DEF Admit
    <3>2. Guarded(store[t], k, now[r]) =>
            Guarded(live, k, now[r]) \/ now[q] - now[r] > TTL
      BY <1>0, EvictGuards
    <3>3. QED
      BY <3>1, <3>2 DEF Guarded
  <2>3. now[q] - now[r] > TTL => clock - now[r] > TTL
    BY <1>0
  <2>4. QED
    BY <2>1, <2>2, <2>3
<1>3. QED
  BY <1>1, <1>2

LEMMA HoldersStep == DuplicateInv /\ [Next]_vars => HoldersProtected'
<1> SUFFICES ASSUME DuplicateInv, [Next]_vars, NEW q \in Requests, KeyOf[q] # NoKey,
                    pc'[q] \in InFlight, q \notin disowned'
             PROVE  Protected(q)'
  BY DEF HoldersProtected
<1>1. pc[q] \in InFlight \/ Admit(q)
  BY InProgressBefore DEF DuplicateInv
<1>2. QED
  BY <1>1, ProtectedStep, AdmitProtects

LEMMA DuplicatesStep == DuplicateInv /\ [Next]_vars => NoConcurrentDuplicates'
<1> SUFFICES ASSUME DuplicateInv, [Next]_vars, NEW q \in Requests, NEW r \in Requests,
                    q # r, KeyOf[q] # NoKey, KeyOf[q] = KeyOf[r],
                    TenantOf[q] = TenantOf[r],
                    pc'[q] \in InFlight, pc'[r] \in InFlight,
                    q \notin disowned', r \notin disowned', now'[q] <= now'[r]
             PROVE  clock' - now'[q] > TTL
  BY DEF NoConcurrentDuplicates
<1> USE ServiceAssumption, StoreAssumption
<1>1. /\ now'[q] = now[q] /\ now'[r] = now[r] /\ clock' \in Nat /\ clock' >= clock
      /\ q \notin disowned /\ r \notin disowned
      /\ pc[q] \in InFlight \/ Admit(q)
      /\ pc[r] \in InFlight \/ Admit(r)
  BY InProgressBefore DEF DuplicateInv
<1>2. now[q] \in Nat /\ now[r] \in Nat /\ clock \in Nat
  BY DEF DuplicateInv, TypeOK
<1>3. clock - now[q] > TTL
  <2>1. CASE pc[q] \in InFlight /\ pc[r] \in InFlight
    BY <1>1, <2>1 DEF DuplicateInv, NoConcurrentDuplicates
  <2>2. CASE pc[q] \in InFlight /\ Admit(r)
    BY <1>1, <2>2, AdmitProtects
  <2>3. CASE Admit(q) /\ pc[r] \in InFlight
    <3>1. clock - now[r] > TTL
      BY <1>1, <2>3, AdmitProtects
    <3>2. QED
      BY <1>1, <1>2, <3>1
  <2>4. CASE Admit(q) /\ Admit(r)
    <3>1. pc[q] = "checking" /\ pc' = [pc EXCEPT ![r] = "resolving"]
      BY <2>4 DEF Admit
    <3>2. QED
      BY <3>1 DEF DuplicateInv, TypeOK, InFlight, Writing
  <2>5. QED
    BY <1>1, <2>1, <2>2, <2>3, <2>4
<1>4. QED
  BY <1>1, <1>2, <1>3

THEOREM DuplicateInvariant == Spec => []DuplicateInv
<1>1. Init => DuplicateInv
  <2> SUFFICES ASSUME Init PROVE DuplicateInv
    OBVIOUS
  <2>1. \A q \in Requests : pc[q] = "idle" /\ now[q] = 0 /\ clock = 0
    BY DEF Init
  <2>2. QED
    BY <2>1, TypeInit DEF DuplicateInv, ChecksHaveKey, TimesPast, HoldersProtected,
       NoConcurrentDuplicates, InFlight, Writing
<1>2. DuplicateInv /\ [Next]_vars => DuplicateInv'
  BY TypeStep, KeyStep, TimesPastStep, HoldersStep, DuplicatesStep DEF DuplicateInv
<1>3. QED
  BY <1>1, <1>2, PTL DEF Spec

\* Two runs of one client_run_id are in progress together only once the TTL of
\* the first is over, however checks, updates, evictions and slow threads
\* interleave; the runs capacity or a late update took the entry of are excepted.
THEOREM DuplicatesExcluded == Spec => []NoConcurrentDuplicates
<1>1. DuplicateInv => NoConcurrentDuplicates
  BY DEF DuplicateInv
<1>2. QED
  BY <1>1, DuplicateInvariant, PTL

-----------------------------------------------------------------------------
(* What a 409 names.                                                       *)

\* The run is over and all of it has been saved.
Finished(run) ==
    /\ pc[run] = "answered"
    /\ status[run] \in FinalStatuses \cup {"cancelled"}
    /\ trace[run].steps = outcome[run].steps
    /\ trace[run].artifacts = 1
    /\ trace[run].evals = Evaluations

\* What an entry of a tenant's cache answers with.
Names(entry, t, k) ==
    entry.run # Pending =>
        /\ entry.run \in Requests
        /\ TenantOf[entry.run] = t /\ KeyOf[entry.run] = k
        /\ Finished(entry.run)

\* An entry is pending, or it names a finished run of its tenant and key.
EntriesFinished ==
    \A t \in Tenants : \A k \in DOMAIN store[t] : Names(store[t][k], t, k)

\* A request has no code before it is answered, and has every evaluation once
\* its run has been read back.
AnswersAt(r) ==
    /\ pc[r] # "answered" => reply[r].code = 0
    /\ pc[r] \in {"fetched", "updating"} => trace[r].evals = Evaluations

AnswersInv ==
    /\ RowInv
    /\ \A r \in Requests : AnswersAt(r)
    /\ EntriesFinished

LEMMA AnswersStep ==
    ASSUME RowInv, NEW q \in Requests, AnswersAt(q), [Next]_vars
    PROVE  AnswersAt(q)'
<1> USE ServiceAssumption DEF RowInv, TypeOK, AnswersAt, Over, cacheVars, rowVars, Answer
<1>1. ASSUME NEW r \in Requests, Refuse(r) \/ RejectDuplicate(r) \/ RejectInput(r)
                                 \/ ResultFails(r) \/ RepositoryError(r)
      PROVE  AnswersAt(q)'
  BY <1>1 DEF Refuse, RejectDuplicate, RejectInput, ResultFails, RepositoryError
<1>2. ASSUME NEW r \in Requests, Accept(r) \/ Admit(r) \/ OpenRun(r) \/ CallTool(r)
                                 \/ FinishExecution(r) \/ SaveFinal(r) \/ SaveStep(r)
      PROVE  AnswersAt(q)'
  BY <1>2 DEF Accept, Admit, OpenRun, CallTool, FinishExecution, SaveFinal, SaveStep
<1>3. ASSUME NEW r \in Requests, SaveArtifact(r) \/ SaveEvaluation(r)
      PROVE  AnswersAt(q)'
  BY <1>3 DEF SaveArtifact, SaveEvaluation
<1>4. ASSUME NEW r \in Requests, FetchRun(r) PROVE AnswersAt(q)'
  BY <1>4 DEF FetchRun
<1>5. ASSUME NEW r \in Requests, Respond(r) PROVE AnswersAt(q)'
  BY <1>5 DEF Respond
<1>6. ASSUME NEW r \in Requests, UpdateCache(r) PROVE AnswersAt(q)'
  BY <1>6 DEF UpdateCache
<1>7. ASSUME NEW r \in Requests, FetchToCancel(r) \/ WriteCancel(r) PROVE AnswersAt(q)'
  BY <1>7 DEF FetchToCancel, WriteCancel
<1>8. CASE Tick \/ UNCHANGED vars
  BY <1>8 DEF Tick, vars
<1>9. CASE Crash
  BY <1>9 DEF Crash
<1>10. QED
  BY <1>1, <1>2, <1>3, <1>4, <1>5, <1>6, <1>7, <1>8, <1>9 DEF Next, Thread

\* A finished run stays as it is, cancellations apart, until the process dies.
LEMMA FinishedStays ==
    ASSUME RowInv, NEW q \in Requests, Finished(q), [Next]_vars, ~Crash
    PROVE  Finished(q)'
<1> USE ServiceAssumption DEF RowInv, TypeOK, Finished, cacheVars, rowVars, Answer
<1>1. ASSUME NEW r \in Requests, Refuse(r) \/ RejectDuplicate(r) \/ RejectInput(r)
                                 \/ ResultFails(r) \/ RepositoryError(r)
      PROVE  Finished(q)'
  BY <1>1 DEF Refuse, RejectDuplicate, RejectInput, ResultFails, RepositoryError
<1>2. ASSUME NEW r \in Requests, Accept(r) \/ Admit(r) \/ OpenRun(r) \/ CallTool(r)
                                 \/ FinishExecution(r) \/ SaveFinal(r) \/ SaveStep(r)
      PROVE  Finished(q)'
  <2>1. pc[r] # "answered" /\ q # r
    BY <1>2 DEF Accept, Admit, OpenRun, CallTool, FinishExecution, SaveFinal, SaveStep
  <2>2. QED
    BY <1>2, <2>1
       DEF Accept, Admit, OpenRun, CallTool, FinishExecution, SaveFinal, SaveStep
<1>3. ASSUME NEW r \in Requests, SaveArtifact(r) \/ SaveEvaluation(r) \/ FetchRun(r)
                                 \/ Respond(r) \/ UpdateCache(r)
      PROVE  Finished(q)'
  <2>1. pc[r] # "answered" /\ q # r
    BY <1>3 DEF SaveArtifact, SaveEvaluation, FetchRun, Respond, UpdateCache
  <2>2. QED
    BY <1>3, <2>1 DEF SaveArtifact, SaveEvaluation, FetchRun, Respond, UpdateCache
<1>4. ASSUME NEW r \in Requests, FetchToCancel(r) \/ WriteCancel(r) PROVE Finished(q)'
  BY <1>4 DEF FetchToCancel, WriteCancel
<1>5. CASE Tick \/ UNCHANGED vars
  BY <1>5 DEF Tick, vars
<1>6. QED
  BY <1>1, <1>2, <1>3, <1>4, <1>5 DEF Next, Thread

\* Eviction and deletion leave entries of the cache.
LEMMA LeftEntries ==
    ASSUME NEW cache, NEW keys
    PROVE  \A k \in DOMAIN Without(cache, keys) :
                k \in DOMAIN cache /\ Without(cache, keys)[k] = cache[k]
BY DEF Without

\* Every entry after a step is an entry before it, a pending one, or the one a
\* request that has finished stores for itself.
LEMMA EntriesAfter ==
    ASSUME TypeOK, [Next]_vars, NEW t \in Tenants, NEW k \in DOMAIN store'[t]
    PROVE  \/ k \in DOMAIN store[t] /\ store'[t][k] = store[t][k] /\ ~Crash
           \/ store'[t][k].run = Pending
           \/ \E r \in Requests : /\ UpdateCache(r)
                                  /\ store'[t][k].run = r
                                  /\ t = TenantOf[r] /\ k = KeyOf[r]
<1> USE ServiceAssumption DEF TypeOK
<1>0. ~Crash
  BY DEF Crash, EmptyCache
<1>1. CASE store' = store
  BY <1>0, <1>1
<1>2. ASSUME NEW r \in Requests, RejectDuplicate(r)
      PROVE  k \in DOMAIN store[t] /\ store'[t][k] = store[t][k]
  <2>1. store'[t] = IF t = TenantOf[r] THEN Evict(store[t], now[r]) ELSE store[t]
    BY <1>2 DEF RejectDuplicate
  <2>2. QED
    BY <2>1, LeftEntries DEF Evict
<1>3. ASSUME NEW r \in Requests, Admit(r)
      PROVE  \/ k \in DOMAIN store[t] /\ store'[t][k] = store[t][k]
             \/ store'[t][k].run = Pending
  <2> DEFINE live == Evict(store[t], now[r])
  <2>1. CASE t = TenantOf[r]
    <3>1. PICK victims \in Victims(live) :
              store' = [store EXCEPT ![t] =
                            Store(Without(live, victims), KeyOf[r], Pending, now[r])]
      BY <1>3, <2>1 DEF Admit
    <3> DEFINE left == Without(live, victims)
    <3>2. store'[t] = Store(left, KeyOf[r], Pending, now[r])
      BY <3>1
    <3>3. \A j \in DOMAIN left : j \in DOMAIN store[t] /\ left[j] = store[t][j]
      BY LeftEntries DEF Evict
    <3> HIDE DEF left
    <3>4. CASE k = KeyOf[r]
      BY <3>2, <3>4 DEF Store
    <3>5. CASE k # KeyOf[r]
      <4>1. k \in DOMAIN left /\ store'[t][k] = left[k]
        BY <3>2, <3>5 DEF Store
      <4>2. QED
        BY <3>3, <4>1
    <3>6. QED
      BY <3>4, <3>5
  <2>2. CASE t # TenantOf[r]
    BY <1>3, <2>2 DEF Admit
  <2>3. QED
    BY <2>1, <2>2
<1>4. ASSUME NEW r \in Requests, UpdateCache(r)
      PROVE  \/ k \in DOMAIN store[t] /\ store'[t][k] = store[t][k]
             \/ store'[t][k].run = r /\ t = TenantOf[r] /\ k = KeyOf[r]
  <2>1. CASE t = TenantOf[r] /\ KeyOf[r] \in DOMAIN store[t]
    <3>1. store'[t] = Store(store[t], KeyOf[r], r, now[r])
      BY <1>4, <2>1 DEF UpdateCache
    <3>2. QED
      BY <2>1, <3>1 DEF Store
  <2>2. CASE ~(t = TenantOf[r] /\ KeyOf[r] \in DOMAIN store[t])
    <3>1. store'[t] = store[t]
      BY <1>4, <2>2 DEF UpdateCache
    <3>2. QED
      BY <3>1
  <2>3. QED
    BY <2>1, <2>2
<1>5. QED
  BY <1>0, <1>1, <1>2, <1>3, <1>4, CacheSteps

LEMMA EntriesStep == AnswersInv /\ [Next]_vars => EntriesFinished'
<1> SUFFICES ASSUME AnswersInv, [Next]_vars, NEW t \in Tenants,
                    NEW k \in DOMAIN store'[t]
             PROVE  Names(store[t][k], t, k)'
  BY DEF EntriesFinished
<1>0. RowInv /\ TypeOK
  BY DEF AnswersInv, RowInv
<1>1. CASE k \in DOMAIN store[t] /\ store'[t][k] = store[t][k] /\ ~Crash
  <2>1. Names(store[t][k], t, k)
    BY <1>1 DEF AnswersInv, EntriesFinished
  <2>2. ASSUME store[t][k].run # Pending
        PROVE  Finished(store[t][k].run)'
    BY <1>0, <1>1, <2>1, <2>2, FinishedStays DEF Names
  <2>3. QED
    BY <1>1, <2>1, <2>2 DEF Names, Finished
<1>2. CASE store'[t][k].run = Pending
  BY <1>2 DEF Names
<1>3. ASSUME NEW r \in Requests, UpdateCache(r), store'[t][k].run = r,
             t = TenantOf[r], k = KeyOf[r]
      PROVE  Names(store[t][k], t, k)'
  <2>1. /\ pc'[r] = "answered"
        /\ pc[r] = "updating"
        /\ UNCHANGED <<status, trace, outcome>>
    BY <1>0, <1>3 DEF UpdateCache, Answer, TypeOK, rowVars
  <2>2. Finished(r)'
    BY <2>1 DEF Finished, AnswersInv, AnswersAt, RowInv, RunAt, RowsAt, RecordsAt, Saving
  <2>3. QED
    BY <1>3, <2>2 DEF Names, Finished
<1>4. QED
  BY <1>0, <1>1, <1>2, <1>3, EntriesAfter

THEOREM AnswersInvariant == Spec => []AnswersInv
<1>1. Init => AnswersInv
  <2> SUFFICES ASSUME Init PROVE AnswersInv
    OBVIOUS
  <2>1. \A r \in Requests : AnswersAt(r)
    BY DEF Init, AnswersAt, NoReply
  <2>2. EntriesFinished
    BY DEF Init, EntriesFinished, EmptyCache
  <2>3. QED
    BY <2>1, <2>2, RowInit DEF AnswersInv
<1>2. AnswersInv /\ [Next]_vars => AnswersInv'
  BY RowStep, AnswersStep, EntriesStep DEF AnswersInv
<1>3. QED
  BY <1>1, <1>2, PTL DEF Spec

\* A 409 comes from the request's own look at the cache.
LEMMA RejectionStep ==
    ASSUME AnswersInv, [Next]_vars, NEW r \in Requests, Rejection(r)
    PROVE  RejectDuplicate(r)
<1> USE DEF Rejection, AnswersInv, AnswersAt, RowInv, TypeOK, Answer
<1>1. pc[r] = "checking" /\ reply[r].code = 0 /\ reply'[r].code = 409
  OBVIOUS
<1>2. ASSUME NEW q \in Requests, Refuse(q) \/ RejectInput(q) \/ ResultFails(q)
                                 \/ RepositoryError(q)
                                 \/ FetchRun(q) \/ Respond(q) \/ UpdateCache(q)
      PROVE  FALSE
  BY <1>1, <1>2
     DEF Refuse, RejectInput, ResultFails, RepositoryError, FetchRun, Respond, UpdateCache
<1>3. ASSUME NEW q \in Requests, RejectDuplicate(q) PROVE q = r
  BY <1>1, <1>3 DEF RejectDuplicate
<1>4. ASSUME NEW q \in Requests,
             \/ Accept(q) \/ Admit(q) \/ OpenRun(q) \/ CallTool(q)
             \/ FinishExecution(q) \/ SaveFinal(q) \/ SaveStep(q)
             \/ SaveArtifact(q) \/ SaveEvaluation(q) \/ FetchToCancel(q)
             \/ WriteCancel(q)
      PROVE  FALSE
  BY <1>1, <1>4 DEF Accept, Admit, OpenRun, CallTool, FinishExecution, SaveFinal,
     SaveStep, SaveArtifact, SaveEvaluation, FetchToCancel, WriteCancel
<1>5. ~(Tick \/ Crash \/ UNCHANGED vars)
  BY <1>1 DEF Tick, Crash, vars
<1>6. QED
  BY <1>2, <1>3, <1>4, <1>5 DEF Next, Thread

\* A 409 that names a run names one of the same tenant and client_run_id, and
\* everything the runtime saves for that run has been saved.
THEOREM DuplicatesNameFinished == Spec => DuplicateNamesFinishedRun
<1>1. ASSUME AnswersInv, [Next]_vars, NEW r \in Requests, Rejection(r),
             reply'[r].run # Pending
      PROVE  LET run == reply'[r].run IN
             /\ TenantOf[run] = TenantOf[r] /\ KeyOf[run] = KeyOf[r]
             /\ status[run] \notin {"absent", "running"}
             /\ trace[run].steps = outcome[run].steps
             /\ trace[run].artifacts = 1
             /\ trace[run].evals = Evaluations
  <2> DEFINE t == TenantOf[r]
             k == KeyOf[r]
  <2>1. RejectDuplicate(r)
    BY <1>1, RejectionStep
  <2>2. k \in DOMAIN store[t] /\ Evict(store[t], now[r])[k] = store[t][k]
    BY <2>1, LeftEntries DEF RejectDuplicate, Evict
  <2>3. reply'[r].run = store[t][k].run
    <3>1. Answer(r, 409, Evict(store[t], now[r])[k].run)
      BY <2>1, Zenon DEF RejectDuplicate
    <3>2. reply \in [Requests -> Reply]
      BY <1>1 DEF AnswersInv, RowInv, TypeOK
    <3>3. QED
      BY <2>2, <3>1, <3>2 DEF Answer
  <2>4. t \in Tenants
    BY ServiceAssumption
  <2>5. Names(store[t][k], t, k)
    BY <1>1, <2>2, <2>4 DEF AnswersInv, EntriesFinished
  <2>6. QED
    BY <1>1, <2>3, <2>5, ServiceAssumption DEF Names, Finished
<1>2. AnswersInv /\ [Next]_vars =>
        [\A r \in Requests :
            LET run == reply'[r].run IN
            Rejection(r) /\ run # Pending =>
                /\ TenantOf[run] = TenantOf[r] /\ KeyOf[run] = KeyOf[r]
                /\ status[run] \notin {"absent", "running"}
                /\ trace[run].steps = outcome[run].steps
                /\ trace[run].artifacts = 1
                /\ trace[run].evals = Evaluations]_vars
  BY <1>1
<1>3. QED
  BY <1>2, AnswersInvariant, PTL DEF Spec, DuplicateNamesFinishedRun


-----------------------------------------------------------------------------
(* Every request ends: the safety half of its being answered.              *)

\* The steps a thread at a stage has left at most: an execution may still save
\* its tool calls, tracing the steps it returned, then come the evaluations.
Work(stage, saved, returned) ==
    CASE stage = "idle"       -> 9 + MaxCalls + MaxSteps + Evaluations
      [] stage = "checking"   -> 8 + MaxCalls + MaxSteps + Evaluations
      [] stage = "resolving"  -> 7 + MaxCalls + MaxSteps + Evaluations
      [] stage = "executing"  -> 6 + (MaxCalls - saved.calls) + MaxSteps + Evaluations
      [] stage = "executed"   -> 5 + MaxSteps + Evaluations
      [] stage = "tracing"    -> 4 + (returned.steps - saved.steps) + Evaluations
      [] stage = "evaluating" -> 3 + (Evaluations - saved.evals)
      [] stage = "fetched"    -> 2
      [] stage = "updating"   -> 1
      [] OTHER                -> 0

WorkLeft(r) == Work(pc[r], trace[r], outcome[r])

\* No more steps are saved than the execution returned.
StepsAt(r) ==
    /\ pc[r] \in Writing => trace[r].steps = 0
    /\ pc[r] = "tracing" => trace[r].steps <= outcome[r].steps

WorkInv == RowInv /\ \A r \in Requests : StepsAt(r)

\* A request's own steps use up its work, and nothing that others do, no
\* cancellation, error or crash, gives any of it back.
Nearer(r) ==
    /\ WorkLeft(r) \in Nat /\ WorkLeft(r)' \in Nat
    /\ WorkLeft(r)' <= WorkLeft(r)
    /\ Thread(r) => WorkLeft(r)' < WorkLeft(r)

LEMMA WorkIs ==
    ASSUME NEW saved, NEW returned
    PROVE  /\ Work("idle", saved, returned) = 9 + MaxCalls + MaxSteps + Evaluations
           /\ Work("checking", saved, returned) = 8 + MaxCalls + MaxSteps + Evaluations
           /\ Work("resolving", saved, returned) = 7 + MaxCalls + MaxSteps + Evaluations
           /\ Work("executing", saved, returned)
                = 6 + (MaxCalls - saved.calls) + MaxSteps + Evaluations
           /\ Work("executed", saved, returned) = 5 + MaxSteps + Evaluations
           /\ Work("tracing", saved, returned)
                = 4 + (returned.steps - saved.steps) + Evaluations
           /\ Work("evaluating", saved, returned) = 3 + (Evaluations - saved.evals)
           /\ Work("fetched", saved, returned) = 2
           /\ Work("updating", saved, returned) = 1
           /\ \A over \in Over : Work(over, saved, returned) = 0
BY DEF Work, Over

\* The work a request has left is a number.
LEMMA WorkIsNumber ==
    ASSUME WorkInv, NEW r \in Requests
    PROVE  WorkLeft(r) \in Nat
<1>1. /\ MaxCalls \in Nat /\ MaxSteps \in Nat /\ Evaluations \in Nat
      /\ trace[r].calls \in 0..MaxCalls /\ trace[r].evals \in 0..Evaluations
      /\ trace[r].steps \in Nat /\ outcome[r].steps \in Nat
      /\ pc[r] \in Waiting \cup Writing \cup Saving \cup Over
  BY ServiceAssumption DEF WorkInv, RowInv, TypeOK, Trace, Outcome
<1>2. pc[r] = "tracing" => trace[r].steps <= outcome[r].steps
  BY DEF WorkInv, StepsAt
<1>3. CASE pc[r] \in Over
  <2>1. WorkLeft(r) = 0
    BY <1>3, WorkIs, Zenon DEF WorkLeft
  <2>2. QED
    BY <2>1
<1>4. CASE pc[r] \in Waiting
  BY <1>1, <1>4, WorkIs DEF WorkLeft, Waiting
<1>5. CASE pc[r] \in Writing
  BY <1>1, <1>5, WorkIs DEF WorkLeft, Writing
<1>6. CASE pc[r] \in Saving
  BY <1>1, <1>2, <1>6, WorkIs DEF WorkLeft, Saving
<1>7. QED
  BY <1>1, <1>3, <1>4, <1>5, <1>6

\* Whatever happens, a request goes on by a step of its own, is begun, is over,
\* or stays where it is.
LEMMA StepsOfRequest ==
    ASSUME RowInv, [Next]_vars, NEW q \in Requests
    PROVE  \/ Thread(q)
           \/ Accept(q)
           \/ pc'[q] \in Over
           \/ pc'[q] = pc[q] /\ pc[q] = "idle"
           \/ pc'[q] = pc[q] /\ trace'[q] = trace[q] /\ outcome'[q] = outcome[q]
<1> USE DEF RowInv, TypeOK, Answer, Over, rowVars
<1>1. ASSUME NEW r \in Requests, Thread(r), r # q
      PROVE  pc'[q] = pc[q] /\ trace'[q] = trace[q] /\ outcome'[q] = outcome[q]
  <2>1. CASE \/ RejectDuplicate(r) \/ Admit(r) \/ RejectInput(r)
             \/ ResultFails(r) \/ OpenRun(r)
    BY <1>1, <2>1 DEF RejectDuplicate, Admit, RejectInput, ResultFails, OpenRun
  <2>2. CASE CallTool(r) \/ FinishExecution(r) \/ SaveFinal(r) \/ SaveStep(r)
    BY <1>1, <2>2 DEF CallTool, FinishExecution, SaveFinal, SaveStep
  <2>3. CASE SaveArtifact(r) \/ SaveEvaluation(r) \/ FetchRun(r)
    BY <1>1, <2>3 DEF SaveArtifact, SaveEvaluation, FetchRun
  <2>4. CASE Respond(r) \/ UpdateCache(r)
    BY <1>1, <2>4 DEF Respond, UpdateCache
  <2>5. QED
    BY <1>1, <2>1, <2>2, <2>3, <2>4 DEF Thread
<1>2. ASSUME NEW r \in Requests,
             Refuse(r) \/ FetchToCancel(r) \/ WriteCancel(r) \/ RepositoryError(r)
      PROVE  \/ pc'[q] \in Over
             \/ pc'[q] = pc[q] /\ trace'[q] = trace[q] /\ outcome'[q] = outcome[q]
  BY <1>2 DEF Refuse, FetchToCancel, WriteCancel, RepositoryError
<1>3. ASSUME NEW r \in Requests, Accept(r), r # q
      PROVE  pc'[q] = pc[q] /\ trace'[q] = trace[q] /\ outcome'[q] = outcome[q]
  BY <1>3 DEF Accept
<1>4. CASE Tick \/ UNCHANGED vars
  BY <1>4 DEF Tick, vars
<1>5. CASE Crash
  BY <1>5 DEF Crash
<1>6. QED
  BY <1>1, <1>2, <1>3, <1>4, <1>5 DEF Next

\* Each step of a request's own thread uses up some of its work.
LEMMA ThreadUsesUp ==
    ASSUME WorkInv, NEW r \in Requests, Thread(r) \/ Accept(r)
    PROVE  WorkLeft(r)' < WorkLeft(r)
<1>1. /\ MaxCalls \in Nat /\ MaxSteps \in Nat /\ Evaluations \in Nat
      /\ trace[r].calls \in 0..MaxCalls /\ trace[r].evals \in 0..Evaluations
      /\ trace[r].steps \in 0..MaxSteps /\ outcome[r].steps \in 0..MaxSteps
  BY ServiceAssumption DEF WorkInv, RowInv, TypeOK, Trace, Outcome
<1>2. WorkLeft(r)' = Work(pc'[r], trace'[r], outcome'[r])
  BY DEF WorkLeft, Work
<1>3. WorkLeft(r) \in Nat
  BY WorkIsNumber
<1>4. /\ pc \in [Requests -> Waiting \cup Writing \cup Saving \cup Over]
      /\ trace \in [Requests -> Trace] /\ outcome \in [Requests -> Outcome]
  BY DEF WorkInv, RowInv, TypeOK
<1> USE DEF WorkLeft, Answer, rowVars
<1>5. CASE /\ pc'[r] = "answered"
           /\ pc[r] \in {"checking", "resolving", "executed", "fetched", "updating"}
  <2>1. WorkLeft(r)' = 0
    BY <1>2, <1>5, WorkIs DEF Over
  <2>2. WorkLeft(r) > 0
    BY <1>1, <1>5, WorkIs
  <2>3. QED
    BY <2>1, <2>2
<1>6. CASE RejectDuplicate(r) \/ RejectInput(r) \/ ResultFails(r) \/ UpdateCache(r)
  <2>1. /\ pc'[r] = "answered"
        /\ pc[r] \in {"checking", "resolving", "executed", "updating"}
    BY <1>4, <1>6 DEF RejectDuplicate, RejectInput, ResultFails, UpdateCache
  <2>2. QED
    BY <1>5, <2>1
<1>7. CASE Admit(r) \/ OpenRun(r) \/ Accept(r)
  <2>1. \/ pc[r] = "checking" /\ pc'[r] = "resolving"
        \/ pc[r] = "resolving" /\ pc'[r] = "executing" /\ trace'[r] = trace[r]
        \/ pc[r] = "idle" /\ pc'[r] \in {"checking", "resolving"}
    BY <1>4, <1>7 DEF Admit, OpenRun, Accept
  <2>2. QED
    BY <1>1, <1>2, <2>1, WorkIs
<1>8. CASE CallTool(r)
  <2>1. /\ pc[r] = "executing" /\ pc'[r] = "executing"
        /\ trace'[r].calls = trace[r].calls + 1
    BY <1>4, <1>8 DEF CallTool, Trace
  <2>2. QED
    BY <1>1, <1>2, <2>1, WorkIs
<1>9. CASE FinishExecution(r)
  <2>1. pc[r] = "executing" /\ pc'[r] = "executed"
    BY <1>4, <1>9 DEF FinishExecution
  <2>2. QED
    BY <1>1, <1>2, <2>1, WorkIs
<1>10. CASE SaveFinal(r)
  <2>1. /\ pc[r] = "executed" /\ pc'[r] = "tracing"
        /\ trace'[r] = trace[r] /\ outcome'[r] = outcome[r]
    BY <1>4, <1>10 DEF SaveFinal
  <2>2. QED
    BY <1>1, <1>2, <2>1, WorkIs
<1>11. CASE SaveStep(r)
  <2>1. /\ pc[r] = "tracing" /\ pc'[r] = "tracing" /\ outcome'[r] = outcome[r]
        /\ trace'[r].steps = trace[r].steps + 1
    BY <1>4, <1>11 DEF SaveStep, Trace
  <2>2. QED
    BY <1>1, <1>2, <2>1, WorkIs
<1>12. CASE SaveArtifact(r)
  <2>1. /\ pc[r] = "tracing" /\ pc'[r] = "evaluating"
        /\ trace[r].steps = outcome[r].steps
        /\ trace'[r].evals = trace[r].evals
    BY <1>4, <1>12 DEF SaveArtifact, Trace
  <2>2. QED
    BY <1>1, <1>2, <2>1, WorkIs
<1>13. CASE SaveEvaluation(r)
  <2>1. /\ pc[r] = "evaluating" /\ pc'[r] = "evaluating"
        /\ trace'[r].evals = trace[r].evals + 1
    BY <1>4, <1>13 DEF SaveEvaluation, Trace
  <2>2. QED
    BY <1>1, <1>2, <2>1, WorkIs
<1>14. CASE FetchRun(r)
  <2>1. pc[r] = "evaluating" /\ pc'[r] = "fetched"
    BY <1>4, <1>14 DEF FetchRun
  <2>2. QED
    BY <1>1, <1>2, <2>1, WorkIs
<1>15. CASE Respond(r)
  <2>1. pc[r] = "fetched" /\ pc'[r] \in {"answered", "updating"}
    BY <1>4, <1>15 DEF Respond
  <2>2. QED
    BY <1>2, <1>5, <2>1, WorkIs
<1>16. QED
  BY <1>6, <1>7, <1>8, <1>9, <1>10, <1>11, <1>12, <1>13, <1>14, <1>15 DEF Thread

LEMMA NearerStep ==
    ASSUME WorkInv, [Next]_vars, NEW r \in Requests, WorkLeft(r)' \in Nat
    PROVE  Nearer(r)
<1>1. WorkLeft(r) \in Nat
  BY WorkIsNumber
<1>2. WorkLeft(r)' = Work(pc'[r], trace'[r], outcome'[r])
  BY DEF WorkLeft, Work
<1>3. CASE Thread(r) \/ Accept(r)
  <2>1. WorkLeft(r)' < WorkLeft(r)
    BY <1>3, ThreadUsesUp
  <2>2. QED
    BY <1>1, <2>1 DEF Nearer
<1>4. CASE ~(Thread(r) \/ Accept(r))
  <2>1. \/ pc'[r] \in Over
        \/ pc'[r] = pc[r] /\ pc[r] = "idle"
        \/ pc'[r] = pc[r] /\ trace'[r] = trace[r] /\ outcome'[r] = outcome[r]
    BY <1>4, StepsOfRequest DEF WorkInv
  <2>2. WorkLeft(r)' <= WorkLeft(r)
    <3>1. CASE pc'[r] \in Over
      <4>1. WorkLeft(r)' = 0
        BY <1>2, <3>1, WorkIs
      <4>2. QED
        BY <1>1, <4>1
    <3>2. CASE pc'[r] = pc[r] /\ pc[r] = "idle"
      <4>1. WorkLeft(r)' = WorkLeft(r)
        BY <1>2, <3>2, WorkIs DEF WorkLeft
      <4>2. QED
        BY <1>1, <4>1
    <3>3. CASE pc'[r] = pc[r] /\ trace'[r] = trace[r] /\ outcome'[r] = outcome[r]
      <4>1. WorkLeft(r)' = WorkLeft(r)
        BY <1>2, <3>3 DEF WorkLeft
      <4>2. QED
        BY <1>1, <4>1
    <3>4. QED
      BY <2>1, <3>1, <3>2, <3>3
  <2>3. QED
    BY <1>1, <1>4, <2>2 DEF Nearer
<1>5. QED
  BY <1>3, <1>4

LEMMA StepsStep == WorkInv /\ [Next]_vars => WorkInv'
<1> SUFFICES ASSUME WorkInv, [Next]_vars PROVE WorkInv'
  OBVIOUS
<1>1. RowInv /\ RowInv'
  BY RowStep DEF WorkInv
<1>2. ASSUME NEW r \in Requests PROVE StepsAt(r)'
  <2>1. /\ pc \in [Requests -> Waiting \cup Writing \cup Saving \cup Over]
        /\ trace \in [Requests -> Trace] /\ outcome \in [Requests -> Outcome]
        /\ trace[r].steps \in Nat /\ outcome[r].steps \in Nat
        /\ StepsAt(r)
    BY ServiceAssumption DEF WorkInv, RowInv, TypeOK, Trace, Outcome
  <2>2. pc[r] \in Waiting => trace[r].steps = 0
    BY <1>1 DEF RowInv, RunAt, RowsAt, CausesAt, NoTrace
  <2> USE <2>1 DEF StepsAt, Answer, rowVars, Waiting, Writing, Saving, Over
  <2>3. CASE RejectDuplicate(r) \/ RejectInput(r) \/ ResultFails(r) \/ UpdateCache(r)
    BY <2>3 DEF RejectDuplicate, RejectInput, ResultFails, UpdateCache
  <2>4. CASE Admit(r) \/ OpenRun(r) \/ Accept(r)
    BY <2>2, <2>4 DEF Admit, OpenRun, Accept
  <2>5. CASE CallTool(r) \/ FinishExecution(r)
    BY <2>5 DEF CallTool, FinishExecution, Trace
  <2>6. CASE SaveFinal(r)
    BY <2>6 DEF SaveFinal
  <2>7. CASE SaveStep(r)
    BY <2>7 DEF SaveStep
  <2>8. CASE SaveArtifact(r) \/ SaveEvaluation(r)
    BY <2>8 DEF SaveArtifact, SaveEvaluation
  <2>9. CASE FetchRun(r) \/ Respond(r)
    BY <2>9 DEF FetchRun, Respond
  <2>10. CASE ~(Thread(r) \/ Accept(r))
    BY <1>1, <2>10, StepsOfRequest
  <2>11. QED
    BY <2>3, <2>4, <2>5, <2>6, <2>7, <2>8, <2>9, <2>10 DEF Thread
<1>3. QED
  BY <1>1, <1>2 DEF WorkInv

\* No request can go on for ever: every step of its thread uses up some of a
\* finite amount of work, and no duplicate, cancellation, repository error or
\* crash gives any of it back.
THEOREM RequestsRunOut == Spec => [][\A r \in Requests : Nearer(r)]_vars
<1>1. Init => WorkInv
  BY RowInit DEF Init, WorkInv, StepsAt, Writing
<1>2. WorkInv => \A r \in Requests : WorkLeft(r) \in Nat
  BY WorkIsNumber
<1>3. /\ WorkInv /\ [Next]_vars
      /\ (\A r \in Requests : WorkLeft(r) \in Nat)'
      => [\A r \in Requests : Nearer(r)]_vars
  BY NearerStep
<1>4. QED
  BY <1>1, <1>2, <1>3, StepsStep, PTL DEF Spec

=============================================================================
