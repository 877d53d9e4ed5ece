--------------------------- MODULE AgentExecution ---------------------------
(***************************************************************************)
(* What happens between the preliminary and the final row of a run: the    *)
(* static plan of app/core/planner.py and app/core/executor.py, or the     *)
(* model-driven loop of app/core/tool_loop.py when the host passes tools;  *)
(* every tool call goes through app/tools/executor.py, which asks the      *)
(* policy and may ask for a human approval; and the runtime turns what     *)
(* comes back, or the exception, into the run it saves, which the          *)
(* evaluations then inspect.  Humans decide approvals meanwhile.           *)
(***************************************************************************)
EXTENDS Integers, Sequences, FiniteSets

CONSTANTS
    Tools,        \* tool ids a plan or the model may name
    Registered,   \* the tools of the run's registry
    NoteTool,     \* obsidian.write_note
    Agents,       \* what agent and tool contracts say about the tools
    StepLimits,   \* values of max_steps; a missing one is NoLimit
    TokenLimits,  \* values of max_tokens; a missing one is NoLimit
    NoLimit,
    MaxUsage,     \* bound on the tokens of one model call
    MaxRequests   \* bound on the tool calls one model answer requests

\* An agent with the contracts of the tools it meets: allowed_tools (empty:
\* any tool), forbidden_tools, tools whose allowed_domains leave its domain
\* out, tools that require approval or are of high or critical risk, and
\* human_approval_required_for.
AgentContract == [allowed : SUBSET Tools, forbidden : SUBSET Tools,
                  foreign : SUBSET Tools, risky : SUBSET Tools,
                  expected : SUBSET Tools]

\* Zero is not a limit: the route and the runtime replace it by the default,
\* and the loop always has a step limit.  A negative one is not refused.
ASSUME ExecutionAssumption ==
    /\ Registered \subseteq Tools
    /\ NoteTool \in Registered
    /\ Agents # {}
    /\ Agents \subseteq AgentContract
    /\ NoLimit \notin Int
    /\ StepLimits \subseteq (Int \ {0}) \cup {NoLimit}
    /\ TokenLimits \subseteq (Int \ {0}) \cup {NoLimit}
    /\ MaxUsage \in Nat
    /\ MaxRequests \in Nat \ {0}

VARIABLES
    agent, engine, limit,  \* what the run was started with
    index,      \* steps gone through
    requests,   \* tool calls of the current model answer still to execute
    steps,      \* the steps collected so far: type and status
    spent,      \* tokens the model calls of the run have cost
    output,     \* the final output, if there is one, and its validity
    result,     \* the run the runtime saves: its status, usage and error
    calls,      \* tool calls saved in the repository
    approvals,  \* approval requests saved in the repository
    handled,    \* history: handlers invoked, and whether they returned
    refused,    \* history: tools the policy refused
    lastUsage,  \* history: tokens of the last model call
    asked       \* history: model calls made

repoVars == <<calls, approvals>>
toolVars == <<calls, approvals, handled, refused>>
modelVars == <<spent, lastUsage, asked>>
startVars == <<agent, engine, limit>>
vars == <<startVars, index, requests, steps, output, result, toolVars, modelVars>>

Errors == {"none", "schema", "tool", "not found", "policy", "model", "model denied",
           "repository"}

Statuses == {"completed", "failed", "pending_approval", "max_steps", "max_tokens"}

NoResult == [status |-> "running", usage |-> 0, error |-> "none"]

TypeOK ==
    /\ agent \in Agents
    /\ engine \in {"plan", "loop"}
    /\ limit \in [steps : StepLimits, tokens : TokenLimits]
    /\ index \in Nat
    /\ requests \in Seq(Tools)
    /\ steps \in Seq([type : {"agent_reasoning", "tool_call"},
                      status : {"completed", "failed", "pending_approval"}])
    /\ spent \in Nat
    /\ output \in {"none", "valid", "invalid"}
    /\ result \in [status : Statuses \cup {"running"}, usage : Nat, error : Errors]
    /\ calls \in Seq([tool : Tools, step : Nat,
                      approval : {"not_required", "pending"}])
    /\ approvals \in Seq([tool : Tools, status : {"pending", "approved", "rejected"}])
    /\ handled \in Seq([tool : Tools, ok : BOOLEAN])
    /\ refused \subseteq Tools
    /\ lastUsage \in 0..MaxUsage
    /\ asked \in Nat

Init ==
    /\ agent \in Agents
    /\ engine \in {"plan", "loop"}
    /\ limit \in [steps : StepLimits, tokens : TokenLimits]
    /\ engine = "loop" => limit.steps # NoLimit
    /\ index = 0
    /\ requests = <<>>
    /\ steps = <<>>
    /\ spent = 0
    /\ output = "none"
    /\ result = NoResult
    /\ calls = <<>>
    /\ approvals = <<>>
    /\ handled = <<>>
    /\ refused = {}
    /\ lastUsage = 0
    /\ asked = 0

-----------------------------------------------------------------------------
(* The parts both engines use.                                             *)

\* Asking for an approval before looking at what is forbidden.
PolicyAskingFirst(t) ==
    IF t \in agent.risky THEN "ask"
    ELSE IF \/ t \in agent.forbidden
            \/ agent.allowed # {} /\ t \notin agent.allowed
            \/ t \in agent.foreign
    THEN "refuse"
    ELSE "run"

\* ToolPolicy.validate: what is not permitted is refused before anything is
\* put up for approval.
Policy(t) ==
    IF \/ t \in agent.forbidden
       \/ agent.allowed # {} /\ t \notin agent.allowed
       \/ t \in agent.foreign
    THEN "refuse"
    ELSE IF t \in agent.risky THEN "ask" ELSE "run"

\* How a tool call may end.  The handler may return or raise, and the SQL
\* repository may raise: on the approval request, on the call that records a
\* saved request, or on the call of a handler that has returned.
CallEnds(t) ==
    IF t \notin Registered THEN {"not found"}
    ELSE CASE Policy(t) = "refuse" -> {"policy"}
           [] Policy(t) = "ask" -> {"pending", "request unsaved", "pending unsaved"}
           [] Policy(t) = "run" -> {"returned", "tool", "returned unsaved"}

Unsaved == {"request unsaved", "pending unsaved", "returned unsaved"}

\* The error of a call that raised.
ErrorOf(end) == IF end \in Unsaved THEN "repository" ELSE end

\* What a call did before it ended.
Invoked == {"returned", "tool", "returned unsaved"}
PutUp == {"pending", "pending unsaved"}

\* ToolExecutor.execute that saves only the calls of invoked handlers.
ExecuteToolUnlogged(t, end, step) ==
    /\ handled' = IF end \in Invoked
                  THEN Append(handled, [tool |-> t, ok |-> end # "tool"])
                  ELSE handled
    /\ refused' = IF end = "policy" THEN refused \cup {t} ELSE refused
    /\ approvals' = IF end \in PutUp
                    THEN Append(approvals, [tool |-> t, status |-> "pending"])
                    ELSE approvals
    /\ calls' = IF end = "returned"
                THEN Append(calls, [tool |-> t, step |-> step,
                                    approval |-> "not_required"])
                ELSE calls

\* ToolExecutor.execute, for a call of step `step` that ends as `end`.
ExecuteTool(t, end, step) ==
    /\ handled' = IF end \in Invoked
                  THEN Append(handled, [tool |-> t, ok |-> end # "tool"])
                  ELSE handled
    /\ refused' = IF end = "policy" THEN refused \cup {t} ELSE refused
    /\ approvals' = IF end \in PutUp
                    THEN Append(approvals, [tool |-> t, status |-> "pending"])
                    ELSE approvals
    /\ calls' = IF end \in {"returned", "pending"}
                THEN Append(calls,
                        [tool |-> t, step |-> step,
                         approval |-> IF end = "pending" THEN "pending"
                                      ELSE "not_required"])
                ELSE calls

Running == result.status = "running"

Step(type, status) == [type |-> type, status |-> status]

\* One model call, for some number of tokens.
AskModel ==
    /\ asked' = asked + 1
    /\ \E usage \in 0..MaxUsage :
        /\ lastUsage' = usage
        /\ spent' = spent + usage

\* A model call that raises: a denied one says "403 Forbidden".
ModelErrors == {"model", "model denied"}

ModelFails ==
    /\ asked' = asked + 1
    /\ lastUsage' = 0
    /\ UNCHANGED spent

\* The check of the runtime would also accept what it cannot validate.
ConcludeUnchecked(status, out, error) ==
    /\ result' = [status |-> status, usage |-> spent', error |-> error]
    /\ output' = out

\* The runtime takes over what the execution returned.  Only the output of a
\* completed execution is validated; an invalid one makes the run fail.
Conclude(status, out, error) ==
    LET schemaError == status = "completed" /\ out # "valid"
    IN /\ result' = IF schemaError
                    THEN [status |-> "failed", usage |-> spent', error |-> "schema"]
                    ELSE [status |-> status, usage |-> spent', error |-> error]
       /\ output' = IF schemaError THEN "none" ELSE out

\* The runtime catches an exception of the execution itself: there are no
\* steps, no output and no usage, only the error.
Lose(error) ==
    /\ result' = [status |-> "failed", usage |-> 0, error |-> error]
    /\ output' = "none"
    /\ steps' = <<>>
    /\ requests' = <<>>

-----------------------------------------------------------------------------
(* The static plan.                                                        *)

Plan == IF NoteTool \in agent.allowed
        THEN <<"understand_request", "produce_output", "write_obsidian_note">>
        ELSE <<"understand_request", "produce_output">>

StepsLeft == engine = "plan" => index < Len(Plan)

OverSteps == StepsLeft /\ limit.steps # NoLimit /\ index >= limit.steps

\* An off-by-one: the budget only counts as used up when it is exceeded.
OverTokensLate == StepsLeft /\ limit.tokens # NoLimit /\ spent > limit.tokens

OverTokens == StepsLeft /\ limit.tokens # NoLimit /\ spent >= limit.tokens

AtStep(name) ==
    /\ engine = "plan" /\ Running
    /\ index < Len(Plan)
    /\ Plan[index + 1] = name
    /\ ~OverSteps /\ ~OverTokens

Understand ==
    /\ AtStep("understand_request")
    /\ steps' = Append(steps, Step("agent_reasoning", "completed"))
    /\ index' = index + 1
    /\ UNCHANGED <<startVars, requests, output, result, toolVars, modelVars>>

\* The model's answer becomes the final output, not validated yet.
ProduceOutput ==
    /\ AtStep("produce_output")
    /\ AskModel
    /\ output' \in {"valid", "invalid"}
    /\ steps' = Append(steps, Step("agent_reasoning", "completed"))
    /\ index' = index + 1
    /\ UNCHANGED <<startVars, requests, result, toolVars>>

ProduceOutputFails ==
    /\ AtStep("produce_output")
    /\ ModelFails
    /\ steps' = Append(steps, Step("agent_reasoning", "failed"))
    /\ \E e \in ModelErrors : Conclude("failed", output, e)
    /\ UNCHANGED <<startVars, index, requests, toolVars>>

\* The tool step: an exception or a pending approval ends the plan.
WriteNote ==
    /\ AtStep("write_obsidian_note")
    /\ UNCHANGED <<startVars, requests, modelVars>>
    /\ \E end \in CallEnds(NoteTool) :
        /\ ExecuteTool(NoteTool, end, index)
        /\ CASE end = "returned" ->
                  /\ steps' = Append(steps, Step("tool_call", "completed"))
                  /\ index' = index + 1
                  /\ UNCHANGED <<output, result>>
             [] end = "pending" ->
                  /\ steps' = Append(steps, Step("tool_call", "pending_approval"))
                  /\ Conclude("pending_approval", output, "none")
                  /\ UNCHANGED index
             [] OTHER ->
                  /\ steps' = Append(steps, Step("tool_call", "failed"))
                  /\ Conclude("failed", output, ErrorOf(end))
                  /\ UNCHANGED index

\* After the last step: produce_output is always among them, so the model is
\* not asked again for an output.
CompletePlan ==
    /\ engine = "plan" /\ Running
    /\ index = Len(Plan)
    /\ UNCHANGED <<startVars, index, requests, steps, toolVars, modelVars>>
    /\ Conclude("completed", output, "none")

-----------------------------------------------------------------------------
(* The tool-calling loop.                                                  *)

AtTurn == engine = "loop" /\ Running /\ requests = <<>> /\ ~OverSteps /\ ~OverTokens

RequestLists == UNION {[1..n -> Tools] : n \in 1..MaxRequests}

\* The model answers with the tool calls it wants.
RequestTools ==
    /\ AtTurn
    /\ AskModel
    /\ requests' \in RequestLists
    /\ UNCHANGED <<startVars, index, steps, output, result, toolVars>>

\* The model answers without tool calls: that is the final output.
AnswerFinally ==
    /\ AtTurn
    /\ AskModel
    /\ steps' = Append(steps, Step("agent_reasoning", "completed"))
    /\ \E out \in {"valid", "invalid"} : Conclude("completed", out, "none")
    /\ UNCHANGED <<startVars, index, requests, toolVars>>

LoopModelFails ==
    /\ AtTurn
    /\ ModelFails
    /\ \E e \in ModelErrors : Lose(e)
    /\ UNCHANGED <<startVars, index, toolVars>>

\* The next requested call.  The turn's step is collected after its last one,
\* a pending approval does not stop the loop, an exception ends it.
ExecuteRequest ==
    /\ engine = "loop" /\ Running
    /\ requests # <<>>
    /\ \E end \in CallEnds(Head(requests)) :
        /\ ExecuteTool(Head(requests), end, index)
        /\ IF end \in {"returned", "pending"}
           THEN /\ requests' = Tail(requests)
                /\ IF Tail(requests) = <<>>
                   THEN /\ steps' = Append(steps, Step("tool_call", "completed"))
                        /\ index' = index + 1
                   ELSE UNCHANGED <<steps, index>>
                /\ UNCHANGED <<output, result>>
           ELSE Lose(ErrorOf(end)) /\ UNCHANGED index
    /\ UNCHANGED <<startVars, modelVars>>

-----------------------------------------------------------------------------

\* Breaking on used-up tokens without a status for it.
RunOutOfSteps ==
    /\ Running /\ requests = <<>>
    /\ UNCHANGED <<startVars, index, requests, steps, toolVars, modelVars>>
    /\ OverSteps /\ Conclude("max_steps", output, "none")

\* A budget is used up at the beginning of a step or a turn.
RunOut ==
    /\ Running /\ requests = <<>>
    /\ UNCHANGED <<startVars, index, requests, steps, toolVars, modelVars>>
    /\ \/ OverSteps /\ Conclude("max_steps", output, "none")
       \/ ~OverSteps /\ OverTokens /\ Conclude("max_tokens", output, "none")

\* A decision that overwrites the request instead of updating its status.
DecideOverwriting(i, decision) ==
    /\ approvals' = [approvals EXCEPT ![i] = [status |-> decision]]
    /\ UNCHANGED <<startVars, index, requests, steps, output, result, calls,
                   handled, refused, modelVars>>

\* A human approves or rejects a request, or changes the decision, at any
\* time: nothing is resumed and no record but the request changes.
Decide(i, decision) ==
    /\ approvals' = [approvals EXCEPT ![i].status = decision]
    /\ UNCHANGED <<startVars, index, requests, steps, output, result, calls,
                   handled, refused, modelVars>>

Execution ==
    \/ Understand \/ ProduceOutput \/ ProduceOutputFails \/ WriteNote
    \/ CompletePlan
    \/ RequestTools \/ AnswerFinally \/ LoopModelFails \/ ExecuteRequest
    \/ RunOut

Next ==
    \/ Execution
    \/ \E i \in DOMAIN approvals, decision \in {"approved", "rejected"} :
            Decide(i, decision)

Spec == Init /\ [][Next]_vars

\* The request's thread runs on: model and tool calls have timeouts.
FairSpec == Spec /\ WF_vars(Execution)

-----------------------------------------------------------------------------
(* The evaluations of the saved run (app/evals/validators.py).             *)

\* _looks_like_tool_policy_error without the fragments of ToolPolicyError.
LooksDeniedOnly(error) == error = "model denied"

\* The error messages that contain one of the fragments the check looks for:
\* those of the policy, and any other that says "forbidden".
LooksLikePolicyError(error) == error \in {"policy", "model denied"}

ToolPolicyRespected ==
    /\ ~LooksLikePolicyError(result.error)
    /\ \A i \in DOMAIN calls :
        /\ calls[i].tool \notin agent.forbidden
        /\ agent.allowed # {} => calls[i].tool \in agent.allowed

\* A call asks for an approval if its contract requires one or the agent
\* expects one; those that are only of high risk are pending anyway.
ApprovalRulesRespected ==
    \A i \in DOMAIN calls :
        calls[i].tool \in agent.risky \cup agent.expected
        => calls[i].approval \in {"pending", "approved"}

-----------------------------------------------------------------------------
(* Properties.                                                             *)

Barred(t) ==
    \/ t \in agent.forbidden
    \/ agent.allowed # {} /\ t \notin agent.allowed
    \/ t \in agent.foreign

\* Governance: a tool the contracts bar is neither run nor put up for an
\* approval that could make it look legitimate, and a risky tool never runs,
\* whatever the model requests and whatever is approved meanwhile.
PolicyDecides ==
    /\ \A i \in DOMAIN handled : ~Barred(handled[i].tool)
                                 /\ handled[i].tool \notin agent.risky
    /\ \A i \in DOMAIN approvals : ~Barred(approvals[i].tool)

Unapproved == {i \in DOMAIN calls : calls[i].approval = "not_required"}
Pending == {i \in DOMAIN calls : calls[i].approval = "pending"}
Returned == {i \in DOMAIN handled : handled[i].ok}

\* The trace tells what happened: one saved call for every handler that
\* returned and for every approval requested, up to the one call a failing
\* repository may have cost (tools/executor.py:37, 57), and then the run ends
\* with that error and nothing runs after it; in a run that did not fail every
\* saved call belongs to a tool step of the trace, although steps are
\* collected after the calls (tool_loop.py:157-177).
CallsAccountedFor ==
    /\ Cardinality(Unapproved) <= Cardinality(Returned)
    /\ Cardinality(Pending) <= Len(approvals)
    /\ LET due == Cardinality(Returned) + Len(approvals)
       IN \/ Len(calls) = due
          \/ Len(calls) = due - 1 /\ result.error = "repository"
    /\ result.status \notin {"running", "failed"} =>
        \A i \in DOMAIN calls :
            /\ calls[i].step < Len(steps)
            /\ steps[calls[i].step + 1].type = "tool_call"

\* Budgets: max_steps bounds the model calls and the steps, no model call
\* starts with max_tokens used up, and the status tells which one stopped it.
BudgetsRespected ==
    /\ limit.steps # NoLimit =>
        LET most == IF limit.steps > 0 THEN limit.steps ELSE 0
        IN /\ asked <= most
           /\ Len(steps) <= most
           /\ result.status = "max_steps" => Len(steps) = most
    /\ limit.tokens # NoLimit =>
        /\ asked > 0 => spent - lastUsage < limit.tokens
        /\ result.status = "max_tokens" => spent >= limit.tokens
    /\ result.status = "max_steps" => limit.steps # NoLimit
    /\ result.status = "max_tokens" => limit.tokens # NoLimit

\* A completed run has a validated output, all its steps went well, in the
\* plan's case all of them were taken, and its usage is what was spent.
CompletedMeansDone ==
    result.status = "completed" =>
        /\ output = "valid"
        /\ result.error = "none"
        /\ result.usage = spent
        /\ \A i \in DOMAIN steps : steps[i].status = "completed"
        /\ engine = "plan" => Len(steps) = Len(Plan)
        /\ engine = "loop" => steps[Len(steps)].type = "agent_reasoning"

\* The evaluations see what went wrong although the refused call itself is
\* never saved: a run with a refused tool fails tool_policy_respected, and one
\* whose handlers ran a tool the agent expects an approval for fails
\* approval_rules_respected.  They miss only the last handler of a run whose
\* saved calls fall short of its handlers, when the repository fails on it.
EvaluationsCatchViolations ==
    ~Running =>
        /\ refused # {} => ~ToolPolicyRespected
        /\ \A i \in DOMAIN handled :
            /\ handled[i].ok /\ handled[i].tool \in agent.expected
            /\ Cardinality(Unapproved) < Cardinality(Returned) => i < Len(handled)
            => ~ApprovalRulesRespected

\* Every execution ends, with a budget or without, whatever the model asks.
ExecutionEnds == <>~Running

\* docs/architecture.md, model output rule, "The runtime validates the object
\* against the agent output schema": a saved output is a validated one.
FinalOutputValidated == ~Running /\ output # "none" => output = "valid"

=============================================================================
