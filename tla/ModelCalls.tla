------------------------------ MODULE ModelCalls ------------------------------
(***************************************************************************)
(* What is asked of a model provider and what becomes of its replies       *)
(* (app/model_gateway.py): agent runs with a loop context                  *)
(* (app/core/runtime.py), the critic (app/api/routes_evaluate.py) and the  *)
(* judge of finished or unfinished runs (app/evals/llm_judge.py,           *)
(* app/api/routes_evals.py), with the caller's tenant (app/auth.py).       *)
(*                                                                         *)
(* A reply is known by its shape; what an agent run does besides asking    *)
(* the model is AgentExecution and RunService.                             *)
(***************************************************************************)
EXTENDS Integers, Sequences, FiniteSets

CONSTANTS
    Runners,        \* requests that run an agent
    Critics,        \* calls of POST /v1/evaluate
    Judges,         \* calls of POST /evals/judge/{run_id}
    Tenants,
    DefaultTenant,
    Keys,           \* API keys a caller may send
    NoKey,          \* no X-API-Key header
    SettingsChoices,
    CallerChoices,  \* sets of requests that come in the same behaviour
    Budgets,        \* values of neuroagent_loop_context_max_chars
    Bases,          \* lengths of header, goal and state document
    Lengths,        \* lengths of a summary's entry
    Header,         \* length of the summaries' header
    MaxSummaries    \* bound on the prior summaries of a loop context

Threads == Runners \cup Critics \cup Judges

Providers == {"stub", "openai", "openrouter", "anthropic", "gemini", "ollama", "other"}

\* The key of the provider, authentication, and who the API keys belong to: a
\* key may be listed as an admin key, for a tenant, as both or not at all.
Settings == [provider : Providers, keyed : BOOLEAN, auth : BOOLEAN,
             admins : SUBSET Keys, tenantOf : [Keys -> Tenants \cup {"none"}],
             restricted : BOOLEAN]

ASSUME ModelCallsAssumption ==
    /\ SettingsChoices \subseteq Settings /\ CallerChoices \subseteq SUBSET Threads
    /\ DefaultTenant \in Tenants /\ NoKey \notin Keys /\ "none" \notin Tenants
    /\ Runners \cap Critics = {} /\ Judges \cap (Runners \cup Critics) = {}
    /\ Budgets \subseteq Int /\ Bases \subseteq Nat /\ Header \in Nat \ {0}
    /\ Lengths \subseteq Nat \ {0} /\ MaxSummaries \in Nat

VARIABLES
    settings,       \* of the process
    callers,        \* the requests that come in
    pc,             \* where each request is
    answer,         \* what it answered
    context,        \* the loop context section a run is building
    runs,           \* the row of each run
    critic,         \* the attempts of each call of the critic
    judge,          \* what each judge works on
    evaluations     \* the judgements stored

vars == <<settings, callers, pc, answer, context, runs, critic, judge, evaluations>>

-----------------------------------------------------------------------------
(* Replies.                                                                *)

\* What a provider sends: an error, a timeout or a body that is not JSON; a
\* body without text; white space, prose or a JSON array; an object without
\* the caller's fields; the object asked for, bare, in a fence, in a fence
\* after prose, inside prose; one whose number is NaN, or too big for a float.
Replies == {"error", "silent", "prose", "object", "bare", "fenced", "late_fenced",
            "inside", "nan", "huge"}

\* _extract_json: the first fence, or the whole text, is an object.
Object(text) ==
    text \in {"object", "bare", "fenced", "late_fenced", "nan", "huge"}

\* A gateway that was built answers an object or raises ModelGatewayError, or
\* the error of a body it cannot read; the run fails in either case.
Content(reply) == IF Object(reply) THEN "content" ELSE "error"

StubModel(reply) == "content"

OpenAIResponses(reply) == IF settings.keyed THEN Content(reply) ELSE "missing"

OpenAICompatibleChat(key, reply) == IF key THEN Content(reply) ELSE "missing"

OllamaChat(reply) == OpenAICompatibleChat(TRUE, reply)

AnthropicMessages(reply) == IF settings.keyed THEN Content(reply) ELSE "missing"

GeminiGenerateContent(reply) == IF settings.keyed THEN Content(reply) ELSE "missing"

\* get_model_gateway().complete; "missing" is raised by get_model_gateway.
Complete(reply) ==
    CASE settings.provider = "stub"       -> StubModel(reply)
      [] settings.provider = "openai"     -> OpenAIResponses(reply)
      [] settings.provider = "openrouter" -> OpenAICompatibleChat(settings.keyed, reply)
      [] settings.provider = "anthropic"  -> AnthropicMessages(reply)
      [] settings.provider = "gemini"     -> GeminiGenerateContent(reply)
      [] settings.provider = "ollama"     -> OllamaChat(reply)
      [] settings.provider = "other"      -> "missing"

GatewayMissing == \A reply \in Replies : Complete(reply) = "missing"

\* model_status: what GET /models/status says of the key.
KeyStatus ==
    CASE settings.provider \in {"stub", "ollama"} -> "not_required"
      [] settings.provider = "other" -> "unknown_provider"
      [] OTHER -> IF settings.keyed THEN "configured" ELSE "missing_key"

\* The text a chat message holds may be null, which is passed on.
ChatText(reply) ==
    CASE reply = "error"  -> "empty"
      [] reply = "silent" -> "null"
      [] OTHER -> reply

\* complete_simple: whatever goes wrong is an empty text.
CompleteSimple(reply) ==
    CASE settings.provider = "stub" -> "echo"
      [] settings.provider \in {"openai", "anthropic"} ->
            IF settings.keyed /\ reply \notin {"error", "silent"}
            THEN reply ELSE "empty"
      [] settings.provider \in {"openrouter", "ollama"} -> ChatText(reply)
      [] OTHER -> "empty"

Texts == (Replies \ {"error", "silent"}) \cup {"empty", "null", "echo"}

-----------------------------------------------------------------------------
(* Callers.                                                                *)

Admin(key) == ~settings.auth \/ key \in settings.admins

\* api_principal; the admins belong to the default tenant.
Known(key) == Admin(key) \/ (key \in Keys /\ settings.tenantOf[key] # "none")

TenantOf(key) == IF Admin(key) THEN DefaultTenant ELSE settings.tenantOf[key]

\* A check that the key is one of the service, whoever's it is.
MayUseAny(key, tenant) == Known(key)

\* tenant_for_request and ensure_tenant_access.
MayUse(key, tenant) == Admin(key) \/ TenantOf(key) = tenant

NoRun == [status |-> "none", tenant |-> DefaultTenant, key |-> NoKey]

Run == [status : {"none", "running", "completed", "failed"}, tenant : Tenants,
        key : Keys \cup {NoKey}]

NoContext == [budget |-> 0, base |-> 0, summaries |-> <<>>, included |-> 0,
              remaining |-> 0, length |-> 0]

Context == [budget : Int, base : Nat, summaries : Seq(Lengths), included : Nat,
            remaining : Int, length : Nat]

NoAttempt == [tries |-> 0, last |-> "none", lost |-> FALSE]

\* lost: an earlier reply was not one to retry.
Attempts == [tries : 0..2, last : Texts \cup {"none"}, lost : BOOLEAN]

Outcome == [passed : BOOLEAN, score : {"low", "high"}, reply : Texts]

NoJudge == [of |-> "none", key |-> NoKey,
            outcome |-> [passed |-> FALSE, score |-> "low", reply |-> "empty"]]

Judgement == [of : Runners \cup {"none"}, key : Keys \cup {NoKey}, outcome : Outcome]

TypeOK ==
    /\ settings \in Settings /\ callers \subseteq Threads
    /\ pc \in [Threads -> {"idle", "truncate", "complete", "summarise", "ask", "call",
                           "save", "over"}]
    /\ answer \in [Threads -> {"none", "400", "401", "403", "404", "409", "422",
                               "500", "502", "200"}]
    /\ context \in [Runners -> Context]
    /\ runs \in [Runners -> Run]
    /\ critic \in [Critics -> Attempts]
    /\ judge \in [Judges -> Judgement]
    /\ evaluations \subseteq Judges

Init ==
    /\ settings \in SettingsChoices /\ callers \in CallerChoices
    /\ pc = [p \in Threads |-> "idle"]
    /\ answer = [p \in Threads |-> "none"]
    /\ context = [p \in Runners |-> NoContext]
    /\ runs = [p \in Runners |-> NoRun]
    /\ critic = [p \in Critics |-> NoAttempt]
    /\ judge = [p \in Judges |-> NoJudge]
    /\ evaluations = {}

Goto(p, at) ==
    /\ pc' = [pc EXCEPT ![p] = at]
    /\ UNCHANGED answer

Answer(p, what) ==
    /\ pc' = [pc EXCEPT ![p] = "over"]
    /\ answer' = [answer EXCEPT ![p] = what]

Begin(p) ==
    /\ pc[p] = "idle" /\ p \in callers
    /\ UNCHANGED <<settings, callers>>

-----------------------------------------------------------------------------
(* Agent runs.                                                             *)

\* The request is refused: its key, the model it asks for, its tenant, a
\* duplicate, no gateway, no such agent or invalid input; or its row is written.
\* An execution that ends before it asks the model is AgentExecution's.
RunAgent(p, key, tenant) ==
    /\ Begin(p)
    /\ \/ ~Known(key) /\ Answer(p, "401") /\ UNCHANGED runs
       \/ Known(key) /\ Answer(p, "422") /\ UNCHANGED runs
       \/ Known(key) /\ ~MayUse(key, tenant) /\ Answer(p, "403") /\ UNCHANGED runs
       \/ /\ Known(key) /\ MayUse(key, tenant)
          /\ \E what \in {"400", "409"} : Answer(p, what)
          /\ UNCHANGED runs
       \/ /\ Known(key) /\ MayUse(key, tenant) /\ ~GatewayMissing
          /\ \E at \in {"truncate", "complete"} : Goto(p, at)
          /\ runs' = [runs EXCEPT ![p] = [status |-> "running", tenant |-> tenant,
                                          key |-> key]]
    /\ UNCHANGED <<context, critic, judge, evaluations>>

\* What is left for the entries.
Remaining(budget, base) == budget - base - Header

\* _build_loop_context_section up to its loop; an empty list of summaries, or
\* a base that takes the whole budget, is the base alone.
BuildSection(p, budget, base, summaries) ==
    /\ pc[p] = "truncate" /\ context[p] = NoContext
    /\ context' = [context EXCEPT ![p] =
          [budget |-> budget, base |-> base, summaries |-> summaries, included |-> 0,
           remaining |-> Remaining(budget, base), length |-> base]]
    /\ Goto(p, IF base >= budget \/ summaries = <<>> THEN "complete" ELSE "truncate")
    /\ UNCHANGED <<settings, callers, runs, critic, judge, evaluations>>

\* The newest summary that is not included yet.
Entry(c) == c.summaries[Len(c.summaries) - c.included]

\* An entry that would fill the budget exactly is left out.
FitsBelow(c) == Entry(c) < c.remaining

Fits(c) == Entry(c) <= c.remaining

\* One round of the loop; the header counts with the first entry.
IncludeSummary(p) ==
    LET c == context[p] IN
    /\ pc[p] = "truncate" /\ c # NoContext
    /\ IF c.included = Len(c.summaries) \/ ~Fits(c)
       THEN Goto(p, "complete") /\ UNCHANGED context
       ELSE /\ context' = [context EXCEPT ![p] =
                  [c EXCEPT !.included = @ + 1, !.remaining = @ - Entry(c),
                            !.length = @ + Entry(c)
                                         + (IF c.included = 0 THEN Header ELSE 0)]]
            /\ Goto(p, "truncate")
    /\ UNCHANGED <<settings, callers, runs, critic, judge, evaluations>>

\* The result and the row of a run that is over.  ArtifactRef may refuse what the
\* output says of an artifact, and the repository may fail: nothing catches either,
\* and the row says running for ever.  What fails after the row is RunService's.
EndRun(p, status) ==
    \/ Answer(p, "400") /\ UNCHANGED runs
    \/ /\ \E what \in {"200", "400"} : Answer(p, what)
       /\ runs' = [runs EXCEPT ![p].status = status]

\* A failed execution ends without a summary; so does content that does not
\* validate.
CompleteRun(p, reply) ==
    /\ pc[p] = "complete"
    /\ \/ Complete(reply) = "content" /\ Goto(p, "summarise") /\ UNCHANGED runs
       \/ EndRun(p, "failed")
    /\ context' = [context EXCEPT ![p] = NoContext]
    /\ UNCHANGED <<settings, callers, critic, judge, evaluations>>

\* RunResult takes no null for its summary either.
Summarise(p, reply) ==
    /\ pc[p] = "summarise"
    /\ IF CompleteSimple(reply) = "null"
       THEN Answer(p, "400") /\ UNCHANGED runs
       ELSE EndRun(p, "completed")
    /\ UNCHANGED <<settings, callers, context, critic, judge, evaluations>>

-----------------------------------------------------------------------------
(* The critic.                                                             *)

\* _parse_evaluate_response: only a text that begins with the fence is taken
\* out of it; json.loads reads NaN, and no comparison with NaN is true, so that
\* neither bound of EvaluateResponse refuses it.
CriticAccepts(text) == text \in {"bare", "fenced", "nan"}

\* What the caller sees of a verdict: the versions of the web framework that
\* pyproject.toml allows write NaN as null or fail on it.
Rendered(text) == IF text = "nan" THEN {"200", "500"} ELSE {"200"}

\* Errors that are caught and retried; null has no strip method.
Retried(text) == ~CriticAccepts(text) /\ text # "null"

\* _validate_model: a request names no model, or one of the list.
Allowed(override) == override = "none" \/ (override = "listed" /\ settings.restricted)

Evaluate(p, key, override) ==
    /\ Begin(p)
    /\ \/ ~Known(key) /\ Answer(p, "401")
       \/ Known(key) /\ ~Allowed(override) /\ Answer(p, "422")
       \/ Known(key) /\ Allowed(override) /\ Goto(p, "ask")
    /\ UNCHANGED <<context, runs, critic, judge, evaluations>>

\* A second retry.
AfterFailureThrice(p, tries) == IF tries = 3 THEN Answer(p, "502") ELSE Goto(p, "ask")

\* A critic that is not asked again.
AfterFailureOnce(p, tries) == Answer(p, "502")

\* range(2).
AfterFailure(p, tries) == IF tries = 2 THEN Answer(p, "502") ELSE Goto(p, "ask")

\* Attempts that are not counted.
AttemptUncounted(p) == 1

Attempt(p) == critic[p].tries + 1

AskCritic(p, reply) ==
    LET text == CompleteSimple(reply)
        tries == Attempt(p)
    IN /\ pc[p] = "ask"
       /\ critic' = [critic EXCEPT ![p] =
            [tries |-> tries, last |-> text,
             lost |-> critic[p].last # "none" /\ ~Retried(critic[p].last)]]
       /\ CASE CriticAccepts(text) -> \E what \in Rendered(text) : Answer(p, what)
            [] text = "null"       -> Answer(p, "500")
            [] Retried(text)       -> AfterFailure(p, tries)
       /\ UNCHANGED <<settings, callers, context, runs, judge, evaluations>>

-----------------------------------------------------------------------------
(* The judge.                                                              *)

\* _parse finds a score: a fence anywhere, or whatever lies between braces; NaN
\* and numbers without bound are scores to float().
JudgeAccepts(text) == text \in {"bare", "fenced", "late_fenced", "inside", "nan", "huge"}

\* judge_run: a Boolean verdict counts, else the score; min and max take NaN
\* for 1.0, the best score there is.  The score of an object without the fields
\* does not parse.
Outcomes(text) ==
    IF JudgeAccepts(text)
    THEN [passed : BOOLEAN, reply : {text},
          score : IF text = "nan" THEN {"high"} ELSE {"low", "high"}]
    ELSE {[passed |-> FALSE, score |-> "low", reply |-> text]}

FetchRun(p, key, r) ==
    /\ Begin(p)
    /\ \/ ~Known(key) /\ Answer(p, "401") /\ UNCHANGED judge
       \/ /\ Known(key)
          /\ runs[r].status = "none" \/ ~MayUse(key, runs[r].tenant)
          /\ Answer(p, "404") /\ UNCHANGED judge
       \/ /\ Known(key)
          /\ runs[r].status # "none" /\ MayUse(key, runs[r].tenant)
          /\ Goto(p, "call")
          /\ judge' = [judge EXCEPT ![p] =
                [of |-> r, key |-> key, outcome |-> NoJudge.outcome]]
    /\ UNCHANGED <<context, runs, critic, evaluations>>

\* The agent of the run is not registered any more.
LoseAgent(p) ==
    /\ pc[p] = "call"
    /\ Answer(p, "404")
    /\ UNCHANGED <<settings, callers, context, runs, critic, judge, evaluations>>

\* A score that overflows escapes judge_run.
AskJudge(p, reply) ==
    LET text == CompleteSimple(reply) IN
    /\ pc[p] = "call"
    /\ IF text = "huge"
       THEN Answer(p, "500") /\ UNCHANGED judge
       ELSE /\ \E outcome \in Outcomes(text) :
                  judge' = [judge EXCEPT ![p].outcome = outcome]
            /\ Goto(p, "save")
    /\ UNCHANGED <<settings, callers, context, runs, critic, evaluations>>

SaveEvaluation(p) ==
    /\ pc[p] = "save"
    /\ \/ evaluations' = evaluations \cup {p} /\ Answer(p, "200")
       \/ UNCHANGED evaluations /\ Answer(p, "500")
    /\ UNCHANGED <<settings, callers, context, runs, critic, judge>>

-----------------------------------------------------------------------------
Summaries == UNION {[1..n -> Lengths] : n \in 0..MaxSummaries}

Step(p) ==
    \/ p \in Runners /\
         \/ \E budget \in Budgets, base \in Bases, summaries \in Summaries :
               BuildSection(p, budget, base, summaries)
         \/ IncludeSummary(p)
         \/ \E reply \in Replies : CompleteRun(p, reply) \/ Summarise(p, reply)
    \/ p \in Critics /\ \E reply \in Replies : AskCritic(p, reply)
    \/ p \in Judges /\
         \/ LoseAgent(p)
         \/ \E reply \in Replies : AskJudge(p, reply)
         \/ SaveEvaluation(p)

Next ==
    \/ \E p \in Threads : Step(p)
    \/ \E key \in IF settings.auth THEN Keys \cup {NoKey} ELSE {NoKey} :
         \/ \E p \in Runners, tenant \in Tenants : RunAgent(p, key, tenant)
         \/ \E p \in Critics, override \in {"none", "listed", "unlisted"} :
               Evaluate(p, key, override)
         \/ \E p \in Judges, r \in Runners : FetchRun(p, key, r)

\* Every request to a provider has a timeout, so that its thread goes on.
Spec == Init /\ [][Next]_vars /\ \A p \in Threads : WF_vars(Step(p))

-----------------------------------------------------------------------------
(* What the callers rely on.                                               *)

Suffix(c, n) == SubSeq(c.summaries, Len(c.summaries) - n + 1, Len(c.summaries))

\* The length of the entries of a sequence.
Total(entries) ==
    LET sum[i \in 0..Len(entries)] == IF i = 0 THEN 0 ELSE sum[i - 1] + entries[i]
    IN sum[Len(entries)]

\* A section that was built is within its budget unless the base alone is
\* longer, and then it is the base.
SectionFits ==
    \A p \in Runners : LET c == context[p] IN
        /\ c.included > 0 => c.length <= c.budget
        /\ c.included = 0 => c.length = c.base

\* The section that is sent holds the newest summaries, and as many of them as
\* fit together: a summary is left out only when it and all newer ones do not
\* fit.
NewestKept ==
    \A p \in Runners : LET c == context[p] IN
        pc[p] = "complete" /\ c # NoContext =>
            /\ c.length = c.base + Total(Suffix(c, c.included))
                          + (IF c.included > 0 THEN Header ELSE 0)
            /\ \A n \in 1..Len(c.summaries) :
                  n > c.included <=> c.base + Header + Total(Suffix(c, n)) > c.budget

\* The critic's verdict is the first reply that parses, a confidence that is no
\* number included; it gives up after two replies it could retry and no other; the
\* caller is told of a verdict, of malformed output or of an error accordingly.
CriticTellsTheTruth ==
    \A p \in Critics : LET c == critic[p] IN
        /\ ~c.lost
        /\ answer[p] = "502" <=> c.tries = 2 /\ Retried(c.last)
        /\ answer[p] \in {"200", "500"} <=> CriticAccepts(c.last) \/ c.last = "null"
        /\ answer[p] = "200" => CriticAccepts(c.last)
        /\ answer[p] = "500" => c.last \in {"null", "nan"}

\* With authentication, a run belongs to the tenant its caller's key is for,
\* and is judged for that tenant's keys and the admins only.
TenantsApart ==
    settings.auth =>
        /\ \A r \in Runners :
             runs[r].status # "none" /\ runs[r].key \notin settings.admins
             => runs[r].tenant = settings.tenantOf[runs[r].key]
        /\ \A p \in Judges : judge[p].of # "none" /\ judge[p].key \notin settings.admins
             => runs[judge[p].of].tenant = settings.tenantOf[judge[p].key]

\* What GET /models/status says of the provider is what running an agent would
\* find: the key is missing or the provider unknown just when no gateway can
\* be built.
StatusForetells == GatewayMissing <=> KeyStatus \in {"missing_key", "unknown_provider"}

\* Every request that was begun is answered, however the model replies.
RequestsAnswered ==
    \A p \in Threads : pc[p] # "idle" ~> pc[p] = "over"

===============================================================================
