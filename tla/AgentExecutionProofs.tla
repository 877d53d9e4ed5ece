------------------------ MODULE AgentExecutionProofs ------------------------
(***************************************************************************)
(* Theorems about the execution of a run, for any tools, agents, budgets   *)
(* and bounds: what the policy lets happen, what budgets bound, what the   *)
(* trace accounts for, what "completed" means, what the evaluations catch  *)
(* and that every execution uses up a finite amount of work.               *)
(***************************************************************************)
EXTENDS AgentExecution, FiniteSetTheorems, TLAPS

-----------------------------------------------------------------------------
(* The inductive invariant.                                                *)

\* Every handler but the last that returned has its saved call.
RecordedBut ==
    \A i \in DOMAIN handled : handled[i].ok /\ i < Len(handled) =>
        \E j \in DOMAIN calls : /\ calls[j].tool = handled[i].tool
                                /\ calls[j].approval = "not_required"

\* Every handler that returned has its saved call.
Recorded ==
    \A i \in DOMAIN handled : handled[i].ok =>
        \E j \in DOMAIN calls : /\ calls[j].tool = handled[i].tool
                                /\ calls[j].approval = "not_required"

\* One saved call for each handler that returned and each approval requested.
Counted ==
    /\ Cardinality(Unapproved) = Cardinality(Returned)
    /\ Cardinality(Pending) = Len(approvals)

\* The repository failed on the call of the last handler, or on the call of
\* the last approval request.
OneShort ==
    \/ /\ RecordedBut
       /\ Cardinality(Returned) = Cardinality(Unapproved) + 1
       /\ Cardinality(Pending) = Len(approvals)
    \/ /\ Recorded
       /\ Cardinality(Unapproved) = Cardinality(Returned)
       /\ Len(approvals) = Cardinality(Pending) + 1

\* The accounts are complete, up to the call the repository failed on.
Accounted ==
    \/ Recorded /\ Counted
    \/ OneShort /\ result.error = "repository"

\* A refused call ends the run with the policy's error.
RefusalTold == refused # {} => result.error = "policy"

Most == IF limit.steps > 0 THEN limit.steps ELSE 0

\* While the execution runs, the collected steps are those gone through, all
\* of them went well, and no more model calls were made than steps begun.
Underway ==
    Running =>
        /\ result.error = "none"
        /\ Len(steps) = index
        /\ \A i \in DOMAIN steps : steps[i].status = "completed"
        /\ engine = "plan" => requests = <<>> /\ index <= Len(Plan)
        /\ asked <= index + (IF requests = <<>> THEN 0 ELSE 1)
        /\ limit.steps # NoLimit =>
              /\ index <= Most
              /\ requests # <<>> => index < limit.steps

\* A saved call belongs to a collected tool step, or to the step that the
\* loop will collect when the calls of its turn are through.
InStep(call) ==
    \/ /\ call.step < Len(steps)
       /\ steps[call.step + 1].type = "tool_call"
    \/ Running /\ engine = "loop" /\ requests # <<>> /\ call.step = index

Traced == result.status # "failed" => \A i \in DOMAIN calls : InStep(calls[i])

ExecInv ==
    /\ TypeOK
    /\ PolicyDecides
    /\ Accounted
    /\ RefusalTold
    /\ Underway
    /\ Traced
    /\ BudgetsRespected
    /\ CompletedMeansDone

-----------------------------------------------------------------------------
(* Sequences and what a tool call does.                                    *)

\* The indices of a sequence are finitely many.
LEMMA IndicesFinite ==
    ASSUME NEW S, NEW s \in Seq(S), NEW T \in SUBSET DOMAIN s
    PROVE  IsFiniteSet(T)
<1>1. DOMAIN s = 1..Len(s) /\ Len(s) \in Int
  OBVIOUS
<1>2. IsFiniteSet(1..Len(s))
  BY <1>1, FS_Interval
<1>3. QED
  BY <1>1, <1>2, FS_Subset

\* The ways a tool call ends and what each of them saves.
LEMMA CallEffects ==
    ASSUME NEW t \in Tools, NEW end \in CallEnds(t), NEW step, ExecuteTool(t, end, step)
    PROVE  \/ /\ end = "returned" /\ Policy(t) = "run"
              /\ handled' = Append(handled, [tool |-> t, ok |-> TRUE])
              /\ calls' = Append(calls, [tool |-> t, step |-> step,
                                         approval |-> "not_required"])
              /\ UNCHANGED <<approvals, refused>>
           \/ /\ end = "tool" /\ Policy(t) = "run"
              /\ handled' = Append(handled, [tool |-> t, ok |-> FALSE])
              /\ UNCHANGED <<calls, approvals, refused>>
           \/ /\ end = "pending" /\ Policy(t) = "ask"
              /\ approvals' = Append(approvals, [tool |-> t, status |-> "pending"])
              /\ calls' = Append(calls, [tool |-> t, step |-> step,
                                         approval |-> "pending"])
              /\ UNCHANGED <<handled, refused>>
           \/ /\ end = "returned unsaved" /\ Policy(t) = "run"
              /\ handled' = Append(handled, [tool |-> t, ok |-> TRUE])
              /\ UNCHANGED <<calls, approvals, refused>>
           \/ /\ end = "pending unsaved" /\ Policy(t) = "ask"
              /\ approvals' = Append(approvals, [tool |-> t, status |-> "pending"])
              /\ UNCHANGED <<handled, calls, refused>>
           \/ /\ end = "policy" /\ refused' = refused \cup {t}
              /\ UNCHANGED <<handled, calls, approvals>>
           \/ /\ end \in {"not found", "request unsaved"}
              /\ UNCHANGED <<handled, calls, approvals, refused>>
<1>1. \/ end \in {"returned", "tool", "returned unsaved"} /\ Policy(t) = "run"
      \/ end \in {"pending", "pending unsaved"} /\ Policy(t) = "ask"
      \/ end \in {"policy", "not found", "request unsaved"}
  <2>1. Policy(t) \in {"refuse", "ask", "run"}
    BY DEF Policy
  <2>2. QED
    BY <2>1, Zenon DEF CallEnds
<1>2. QED
  BY <1>1 DEF ExecuteTool, Invoked, PutUp

\* The error of a call that raised is one a run may end with.
LEMMA ErrorTypes ==
    ASSUME NEW t \in Tools, NEW end \in CallEnds(t), end \notin {"returned", "pending"}
    PROVE  /\ ErrorOf(end) \in Errors
           /\ end \in Unsaved <=> ErrorOf(end) = "repository"
           /\ end = "policy" => ErrorOf(end) = "policy"
<1>1. Policy(t) \in {"refuse", "ask", "run"}
  BY DEF Policy
<1>2. end \in {"tool", "policy", "not found"} \cup Unsaved
  BY <1>1, Zenon DEF CallEnds, Unsaved
<1>3. QED
  BY <1>2 DEF ErrorOf, Unsaved, Errors

\* What runs and what is put up for an approval is not barred.
LEMMA PolicyRules ==
    ASSUME NEW t \in Tools
    PROVE  /\ Policy(t) = "run" => ~Barred(t) /\ t \notin agent.risky
           /\ Policy(t) = "ask" => ~Barred(t)
BY DEF Policy, Barred


\* Appending an element adds its index to the indices, and changes no other.
LEMMA Appended ==
    ASSUME NEW S, NEW s \in Seq(S), NEW e \in S
    PROVE  /\ Append(s, e) \in Seq(S)
           /\ Len(s) \in Nat
           /\ DOMAIN s = 1..Len(s)
           /\ DOMAIN Append(s, e) = DOMAIN s \cup {Len(s) + 1}
           /\ Len(s) + 1 \notin DOMAIN s
           /\ \A i \in DOMAIN s : Append(s, e)[i] = s[i]
           /\ Append(s, e)[Len(s) + 1] = e
OBVIOUS

\* Adding a new index to a selection of indices of s.
LEMMA OneMore ==
    ASSUME NEW S, NEW s \in Seq(S), NEW T \in SUBSET DOMAIN s
    PROVE  /\ Cardinality(T \cup {Len(s) + 1}) = Cardinality(T) + 1
           /\ Cardinality(T) \in Nat
<1>1. IsFiniteSet(T)
  BY IndicesFinite
<1>2. Len(s) + 1 \notin T
  OBVIOUS
<1>3. QED
  BY <1>1, <1>2, FS_AddElement, FS_CardinalityType

Handled == [tool : Tools, ok : BOOLEAN]
Call == [tool : Tools, step : Nat, approval : {"not_required", "pending"}]
Approval == [tool : Tools, status : {"pending", "approved", "rejected"}]

\* The parts of TypeOK about the tools.
ToolTypes ==
    /\ handled \in Seq(Handled)
    /\ calls \in Seq(Call)
    /\ approvals \in Seq(Approval)
    /\ refused \subseteq Tools

\* A returned handler stays recorded when calls are only appended, and the one
\* that is appended with its call is recorded too.
LEMMA StaysRecorded ==
    ASSUME ToolTypes, ToolTypes', Recorded,
           \A j \in DOMAIN calls : j \in DOMAIN calls' /\ calls'[j] = calls[j],
           \A i \in DOMAIN handled' :
              \/ i \in DOMAIN handled /\ handled'[i] = handled[i]
              \/ ~handled'[i].ok
              \/ \E j \in DOMAIN calls' : /\ calls'[j].tool = handled'[i].tool
                                          /\ calls'[j].approval = "not_required"
    PROVE  Recorded'
<1> SUFFICES ASSUME NEW i \in DOMAIN handled', handled'[i].ok
             PROVE  \E j \in DOMAIN calls' : /\ calls'[j].tool = handled'[i].tool
                                             /\ calls'[j].approval = "not_required"
  BY DEF Recorded
<1>1. CASE i \in DOMAIN handled /\ handled'[i] = handled[i]
  <2>1. PICK j \in DOMAIN calls : /\ calls[j].tool = handled[i].tool
                                  /\ calls[j].approval = "not_required"
    BY <1>1, Zenon DEF Recorded
  <2>2. j \in DOMAIN calls' /\ calls'[j] = calls[j]
    BY <2>1
  <2>3. QED
    BY <1>1, <2>1, <2>2, Zenon
<1>2. QED
  BY <1>1, Zenon

\* A tool call keeps the types, the policy's decisions and the accounts.
LEMMA CallKeeps ==
    ASSUME ToolTypes, PolicyDecides, Recorded, Counted, UNCHANGED agent,
           NEW t \in Tools, NEW end \in CallEnds(t), NEW step \in Nat,
           ExecuteTool(t, end, step),
           end \in Unsaved => result'.error = "repository"
    PROVE  ToolTypes' /\ PolicyDecides' /\ Accounted'
<1> USE DEF ToolTypes
<1> DEFINE h(ok) == [tool |-> t, ok |-> ok]
           c(a) == [tool |-> t, step |-> step, approval |-> a]
           q == [tool |-> t, status |-> "pending"]
<1>1. h(TRUE) \in Handled /\ h(FALSE) \in Handled /\ q \in Approval
      /\ c("pending") \in Call /\ c("not_required") \in Call
  BY DEF Handled, Call, Approval
<1>2. \A u \in Tools : Barred(u)' = Barred(u)
  BY DEF Barred
<1>3. CASE /\ Policy(t) = "run"
           /\ handled' = Append(handled, h(TRUE))
           /\ calls' = Append(calls, c("not_required"))
           /\ UNCHANGED <<approvals, refused>>
  <2>1. ToolTypes'
    BY <1>1, <1>3, Appended
  <2>2. PolicyDecides'
    BY <1>1, <1>2, <1>3, Appended, PolicyRules DEF PolicyDecides, Barred
  <2>3. Recorded'
    <3>1. \A j \in DOMAIN calls : j \in DOMAIN calls' /\ calls'[j] = calls[j]
      BY <1>1, <1>3, Appended
    <3>2. /\ Len(calls) + 1 \in DOMAIN calls'
          /\ calls'[Len(calls) + 1] = c("not_required")
      BY <1>1, <1>3, Appended
    <3>3. \A i \in DOMAIN handled' :
             (i \in DOMAIN handled /\ handled'[i] = handled[i]) \/ handled'[i].tool = t
      BY <1>1, <1>3, Appended
    <3>4. c("not_required").tool = t /\ c("not_required").approval = "not_required"
      OBVIOUS
    <3>5. \A i \in DOMAIN handled' :
             \/ i \in DOMAIN handled /\ handled'[i] = handled[i]
             \/ \E j \in DOMAIN calls' : /\ calls'[j].tool = handled'[i].tool
                                         /\ calls'[j].approval = "not_required"
      <4> HIDE DEF c
      <4> QED
        BY <3>2, <3>3, <3>4, Zenon
    <3>6. QED
      BY <2>1, <3>1, <3>5, StaysRecorded
  <2>4. Returned' = Returned \cup {Len(handled) + 1} /\ Returned \subseteq DOMAIN handled
    BY <1>1, <1>3, Appended DEF Returned
  <2>5. /\ Unapproved' = Unapproved \cup {Len(calls) + 1}
        /\ Unapproved \subseteq DOMAIN calls
    BY <1>1, <1>3, Appended DEF Unapproved
  <2>6. Pending' = Pending
    BY <1>1, <1>3, Appended DEF Pending
  <2>7. Counted'
    BY <1>3, <2>4, <2>5, <2>6, OneMore DEF Counted
  <2>8. QED
    BY <2>1, <2>2, <2>3, <2>7 DEF Accounted
<1>4. CASE /\ Policy(t) = "run"
           /\ handled' = Append(handled, h(FALSE))
           /\ UNCHANGED <<calls, approvals, refused>>
  <2>1. ToolTypes'
    BY <1>1, <1>4, Appended
  <2>2. PolicyDecides'
    BY <1>1, <1>2, <1>4, Appended, PolicyRules DEF PolicyDecides, Barred
  <2>3. Recorded'
    <3>1. \A i \in DOMAIN handled' :
             (i \in DOMAIN handled /\ handled'[i] = handled[i]) \/ ~handled'[i].ok
      BY <1>1, <1>4, Appended
    <3>2. QED
      BY <1>4, <2>1, <3>1, StaysRecorded
  <2>4. Returned' = Returned /\ Unapproved' = Unapproved /\ Pending' = Pending
    BY <1>1, <1>4, Appended DEF Returned, Unapproved, Pending
  <2>5. QED
    BY <1>4, <2>1, <2>2, <2>3, <2>4 DEF Counted, Accounted
<1>5. CASE /\ Policy(t) = "ask"
           /\ approvals' = Append(approvals, q)
           /\ calls' = Append(calls, c("pending"))
           /\ UNCHANGED <<handled, refused>>
  <2>1. ToolTypes'
    BY <1>1, <1>5, Appended
  <2>2. PolicyDecides'
    BY <1>1, <1>2, <1>5, Appended, PolicyRules DEF PolicyDecides, Barred
  <2>3. Recorded'
    <3>1. \A j \in DOMAIN calls : j \in DOMAIN calls' /\ calls'[j] = calls[j]
      BY <1>1, <1>5, Appended
    <3>2. QED
      BY <1>5, <2>1, <3>1, StaysRecorded
  <2>4. Returned' = Returned /\ Unapproved' = Unapproved
    BY <1>1, <1>5, Appended DEF Returned, Unapproved
  <2>5. Pending' = Pending \cup {Len(calls) + 1} /\ Pending \subseteq DOMAIN calls
    BY <1>1, <1>5, Appended DEF Pending
  <2>6. Len(approvals') = Len(approvals) + 1
    BY <1>1, <1>5
  <2>7. Counted'
    BY <2>4, <2>5, <2>6, OneMore DEF Counted
  <2>8. QED
    BY <2>1, <2>2, <2>3, <2>7 DEF Accounted
<1>6. CASE UNCHANGED <<handled, calls, approvals>> /\ refused' \subseteq Tools
  <2>1. Returned' = Returned /\ Unapproved' = Unapproved /\ Pending' = Pending
    BY <1>6 DEF Returned, Unapproved, Pending
  <2>2. QED
    BY <1>6, <2>1 DEF PolicyDecides, Barred, Recorded, Counted, Accounted
<1>7. CASE /\ Policy(t) = "run" /\ result'.error = "repository"
           /\ handled' = Append(handled, h(TRUE))
           /\ UNCHANGED <<calls, approvals, refused>>
  <2>1. ToolTypes'
    BY <1>1, <1>7, Appended
  <2>2. PolicyDecides'
    BY <1>1, <1>2, <1>7, Appended, PolicyRules DEF PolicyDecides, Barred
  <2>3. RecordedBut'
    <3>1. /\ Len(handled') = Len(handled) + 1 /\ Len(handled) \in Nat
          /\ DOMAIN handled' = 1..Len(handled) + 1
          /\ \A i \in 1..Len(handled) : i \in DOMAIN handled /\ handled'[i] = handled[i]
      BY <1>1, <1>7
    <3>2. \A i \in DOMAIN handled' :
             i < Len(handled') => i \in DOMAIN handled /\ handled'[i] = handled[i]
      BY <3>1
    <3>3. SUFFICES ASSUME NEW i \in DOMAIN handled', handled'[i].ok, i < Len(handled')
                   PROVE  \E j \in DOMAIN calls' :
                             /\ calls'[j].tool = handled'[i].tool
                             /\ calls'[j].approval = "not_required"
      BY DEF RecordedBut
    <3>4. i \in DOMAIN handled /\ handled'[i] = handled[i]
      BY <3>2, <3>3
    <3>5. PICK j \in DOMAIN calls : /\ calls[j].tool = handled[i].tool
                                    /\ calls[j].approval = "not_required"
      BY <3>3, <3>4, Zenon DEF Recorded
    <3>6. QED
      BY <1>7, <3>4, <3>5, Zenon
  <2>4. Returned' = Returned \cup {Len(handled) + 1} /\ Returned \subseteq DOMAIN handled
    BY <1>1, <1>7, Appended DEF Returned
  <2>5. Unapproved' = Unapproved /\ Pending' = Pending
    BY <1>7 DEF Unapproved, Pending
  <2>6. OneShort'
    BY <1>7, <2>3, <2>4, <2>5, OneMore DEF Counted, OneShort
  <2>7. QED
    BY <1>7, <2>1, <2>2, <2>6 DEF Accounted
<1>8. CASE /\ Policy(t) = "ask" /\ result'.error = "repository"
           /\ approvals' = Append(approvals, q)
           /\ UNCHANGED <<handled, calls, refused>>
  <2>1. ToolTypes'
    BY <1>1, <1>8, Appended
  <2>2. PolicyDecides'
    BY <1>1, <1>2, <1>8, Appended, PolicyRules DEF PolicyDecides, Barred
  <2>3. Recorded'
    BY <1>8, Zenon DEF Recorded
  <2>4. Returned' = Returned /\ Unapproved' = Unapproved /\ Pending' = Pending
    BY <1>8 DEF Returned, Unapproved, Pending
  <2>5. Len(approvals') = Len(approvals) + 1
    BY <1>1, <1>8
  <2>6. OneShort'
    BY <2>3, <2>4, <2>5 DEF Counted, OneShort
  <2>7. QED
    BY <1>8, <2>1, <2>2, <2>6 DEF Accounted
<1>9. /\ "returned unsaved" \in Unsaved /\ "pending unsaved" \in Unsaved
  BY DEF Unsaved
<1>10. QED
  BY <1>3, <1>4, <1>5, <1>6, <1>7, <1>8, <1>9, CallEffects

\* A tool call keeps the saved calls, and the one it adds names its step.
LEMMA CallSteps ==
    ASSUME ToolTypes, NEW t \in Tools, NEW end \in CallEnds(t), NEW step \in Nat,
           ExecuteTool(t, end, step)
    PROVE  \A i \in DOMAIN calls' : \/ i \in DOMAIN calls /\ calls'[i] = calls[i]
                                   \/ calls'[i].step = step
<1> DEFINE c(a) == [tool |-> t, step |-> step, approval |-> a]
<1>1. c("pending") \in Call /\ c("not_required") \in Call /\ calls \in Seq(Call)
      /\ c("pending").step = step /\ c("not_required").step = step
  BY DEF Call, ToolTypes
<1>2. \/ calls' = Append(calls, c("pending"))
      \/ calls' = Append(calls, c("not_required"))
      \/ calls' = calls
  BY CallEffects
<1> HIDE DEF c
<1>3. QED
  BY <1>1, <1>2, Appended

\* A human decision changes the status of one request and nothing else.
LEMMA DecideKeeps ==
    ASSUME ExecInv, NEW i \in DOMAIN approvals,
           NEW decision \in {"approved", "rejected"}, Decide(i, decision)
    PROVE  ExecInv'
<1>1. approvals \in Seq(Approval) /\ approvals[i] \in Approval
  <2>1. approvals \in Seq(Approval)
    BY DEF ExecInv, TypeOK, Approval
  <2>2. QED
    BY <2>1
<1>2. /\ approvals' \in Seq(Approval)
      /\ Len(approvals') = Len(approvals)
      /\ DOMAIN approvals' = DOMAIN approvals
      /\ \A j \in DOMAIN approvals : approvals'[j].tool = approvals[j].tool
  BY <1>1 DEF Decide, Approval
<1>3. UNCHANGED <<startVars, index, requests, steps, output, result, calls, handled,
                  refused, modelVars>>
  BY DEF Decide
<1>4. TypeOK'
  BY <1>2, <1>3 DEF ExecInv, TypeOK, Approval, startVars, modelVars
<1>5. PolicyDecides'
  BY <1>2, <1>3 DEF ExecInv, PolicyDecides, Barred, startVars
<1>6. Accounted' /\ RefusalTold'
  BY <1>2, <1>3
     DEF ExecInv, Accounted, OneShort, Counted, Recorded, RecordedBut, RefusalTold,
         Unapproved, Returned, Pending
<1>7. Underway' /\ Traced'
  BY <1>3 DEF ExecInv, Underway, Traced, InStep, Running, Most, Plan, startVars, modelVars
<1>8. BudgetsRespected' /\ CompletedMeansDone'
  BY <1>3 DEF ExecInv, BudgetsRespected, CompletedMeansDone, Plan, startVars, modelVars
<1>9. QED
  BY <1>4, <1>5, <1>6, <1>7, <1>8 DEF ExecInv

-----------------------------------------------------------------------------
(* What the steps of an execution share.                                   *)

StepRecord == [type : {"agent_reasoning", "tool_call"},
               status : {"completed", "failed", "pending_approval"}]
Outputs == {"none", "valid", "invalid"}
Results == [status : Statuses \cup {"running"}, usage : Nat, error : Errors]

\* The budgets, apart: the steps and model calls, the tokens, and the status
\* that names a budget that was set.
StepBudget ==
    limit.steps # NoLimit =>
        /\ asked <= Most
        /\ Len(steps) <= Most
        /\ result.status = "max_steps" => Len(steps) = Most

TokenBudget ==
    limit.tokens # NoLimit =>
        /\ asked > 0 => spent - lastUsage < limit.tokens
        /\ result.status = "max_tokens" => spent >= limit.tokens

LimitNamed ==
    /\ result.status = "max_steps" => limit.steps # NoLimit
    /\ result.status = "max_tokens" => limit.tokens # NoLimit

LEMMA BudgetParts == BudgetsRespected <=> StepBudget /\ TokenBudget /\ LimitNamed
BY DEF BudgetsRespected, StepBudget, TokenBudget, LimitNamed, Most

\* What the engine keeps of a run: everything but the types and the tools.
RunInv ==
    /\ RefusalTold
    /\ Underway
    /\ Traced
    /\ StepBudget
    /\ TokenBudget
    /\ LimitNamed
    /\ CompletedMeansDone

\* The types of what the engine keeps.
RunTypes ==
    /\ agent \in Agents
    /\ engine \in {"plan", "loop"}
    /\ limit \in [steps : StepLimits, tokens : TokenLimits]
    /\ index \in Nat
    /\ requests \in Seq(Tools)
    /\ steps \in Seq(StepRecord)
    /\ spent \in Nat
    /\ output \in Outputs
    /\ result \in Results
    /\ lastUsage \in 0..MaxUsage
    /\ asked \in Nat

LEMMA InvParts ==
    ExecInv <=> /\ RunTypes /\ ToolTypes
                /\ PolicyDecides /\ Accounted /\ RunInv
BY BudgetParts
   DEF ExecInv, RunInv, RunTypes, ToolTypes, TypeOK, StepRecord, Outputs, Results,
       Handled, Call, Approval

LEMMA InvPartsNext ==
    ASSUME RunTypes', ToolTypes', PolicyDecides', Accounted', RefusalTold',
           Underway', Traced', StepBudget', TokenBudget', LimitNamed', CompletedMeansDone'
    PROVE  ExecInv'
<1>1. BudgetsRespected'
  BY DEF BudgetsRespected, StepBudget, TokenBudget, LimitNamed, Most
<1>2. TypeOK'
  BY DEF RunTypes, ToolTypes, TypeOK, StepRecord, Outputs, Results, Handled, Call,
         Approval
<1>3. QED
  BY <1>1, <1>2 DEF ExecInv

\* Limits are integers, not zero, where they are set.
LEMMA LimitTypes ==
    ASSUME RunTypes
    PROVE  /\ limit.steps # NoLimit => limit.steps \in Int /\ limit.steps # 0
           /\ limit.tokens # NoLimit => limit.tokens \in Int /\ limit.tokens # 0
           /\ limit.steps # NoLimit => /\ Most \in Nat
                                       /\ 0 < limit.steps => Most = limit.steps
                                       /\ limit.steps < 0 => Most = 0
<1>1. limit.steps \in StepLimits /\ limit.tokens \in TokenLimits
  BY DEF RunTypes
<1>2. /\ limit.steps # NoLimit => limit.steps \in Int /\ limit.steps # 0
      /\ limit.tokens # NoLimit => limit.tokens \in Int /\ limit.tokens # 0
  BY <1>1, ExecutionAssumption
<1>3. limit.steps \in Int =>
         /\ Most \in Nat
         /\ 0 < limit.steps => Most = limit.steps
         /\ limit.steps < 0 => Most = 0
  BY DEF Most
<1>4. QED
  BY <1>2, <1>3

\* What Conclude leaves, by the status it is given.
LEMMA Concludes ==
    ASSUME NEW status \in Statuses, NEW out \in Outputs, NEW error \in Errors,
           spent' \in Nat, Conclude(status, out, error)
    PROVE  /\ result' \in Results /\ output' \in Outputs
           /\ result'.status \in {status, "failed"}
           /\ status # "completed" => result'.status = status /\ result'.error = error
           /\ result'.status = "completed" => /\ output' = "valid"
                                              /\ result'.error = error
                                              /\ result'.usage = spent'
BY DEF Conclude, Statuses, Results, Errors, Outputs

\* A model call, answered or not, starts while tokens are left.
LEMMA TokensKept ==
    ASSUME RunTypes, RunTypes', TokenBudget, UNCHANGED limit,
           \/ UNCHANGED modelVars
           \/ AskModel /\ StepsLeft /\ ~OverTokens
           \/ ModelFails /\ StepsLeft /\ ~OverTokens,
           result'.status = "max_tokens" =>
               spent' = spent /\ (result.status = "max_tokens" \/ OverTokens)
    PROVE  TokenBudget'
<1> SUFFICES ASSUME limit.tokens # NoLimit
             PROVE  /\ asked' > 0 => spent' - lastUsage' < limit.tokens
                    /\ result'.status = "max_tokens" => spent' >= limit.tokens
  BY DEF TokenBudget
<1>1. limit.tokens \in Int /\ spent \in Nat /\ spent' \in Nat /\ lastUsage' \in Nat
      /\ asked \in Nat /\ lastUsage \in Nat
  <2>1. \A n \in 0..MaxUsage : n \in Nat
    BY ExecutionAssumption
  <2>2. QED
    BY <2>1, LimitTypes DEF RunTypes
<1>2. result'.status = "max_tokens" => spent' >= limit.tokens
  BY <1>1 DEF TokenBudget, OverTokens
<1>3. CASE UNCHANGED modelVars
  BY <1>1, <1>2, <1>3 DEF TokenBudget, modelVars
<1>4. CASE AskModel /\ StepsLeft /\ ~OverTokens
  <2>1. spent' = spent + lastUsage' /\ spent < limit.tokens
    BY <1>1, <1>4 DEF AskModel, OverTokens
  <2>2. QED
    BY <1>1, <1>2, <2>1
<1>5. CASE ModelFails /\ StepsLeft /\ ~OverTokens
  <2>1. spent' = spent /\ lastUsage' = 0 /\ spent < limit.tokens
    BY <1>1, <1>5 DEF ModelFails, OverTokens
  <2>2. QED
    BY <1>1, <1>2, <2>1
<1>6. QED
  BY <1>3, <1>4, <1>5

\* A step that ends the run as failed leaves nothing to show but the budgets
\* and the policy's error.
LEMMA FailureKeeps ==
    ASSUME result'.status = "failed", refused' # {} => result'.error = "policy"
    PROVE  RefusalTold' /\ Underway' /\ Traced' /\ LimitNamed' /\ CompletedMeansDone'
BY DEF RefusalTold, Underway, Traced, LimitNamed, CompletedMeansDone, Running

\* The plan has its two or three steps in order.
LEMMA PlanShape ==
    /\ Len(Plan) \in {2, 3}
    /\ Plan[1] = "understand_request"
    /\ Plan[2] = "produce_output"
    /\ Len(Plan) = 3 => Plan[3] = "write_obsidian_note"
BY DEF Plan

\* What holds before a step of the execution, in one place.
LEMMA Before ==
    ASSUME RunTypes, ToolTypes, RunInv, Running
    PROVE  /\ refused = {}
           /\ result.error = "none" /\ result.status = "running"
           /\ Len(steps) = index
           /\ \A i \in DOMAIN steps : steps[i].status = "completed"
           /\ engine = "plan" => requests = <<>> /\ index <= Len(Plan)
           /\ asked <= index + 1
           /\ requests = <<>> => asked <= index
           /\ limit.steps # NoLimit =>
                 /\ index <= Most
                 /\ requests # <<>> => index < limit.steps
           /\ \A i \in DOMAIN calls : InStep(calls[i])
           /\ Accounted => Recorded /\ Counted
<1>1. result.status = "running" /\ result.error = "none"
  BY DEF RunInv, Underway, Running
<1>2. refused = {}
  BY <1>1 DEF RunInv, RefusalTold
<1>3. \A i \in DOMAIN calls : InStep(calls[i])
  BY <1>1 DEF RunInv, Traced
<1>4. asked <= index + (IF requests = <<>> THEN 0 ELSE 1)
  BY DEF RunInv, Underway
<1>5. asked <= index + 1 /\ (requests = <<>> => asked <= index)
  BY <1>4 DEF RunTypes
<1>6. QED
  BY <1>1, <1>2, <1>3, <1>5 DEF RunInv, Underway, Accounted

\* A step that is collected is one more, within the budget, and so are the
\* calls it made or collects.
LEMMA Collected ==
    ASSUME RunTypes, ToolTypes, ToolTypes', RunInv, Running, UNCHANGED startVars,
           NEW s \in StepRecord, steps' = Append(steps, s),
           limit.steps # NoLimit => index < limit.steps,
           asked' \in Nat, asked' <= index + 1,
           \/ requests = <<>> /\ UNCHANGED calls
           \/ /\ s.type = "tool_call"
              /\ \A i \in DOMAIN calls' :
                    \/ i \in DOMAIN calls /\ calls'[i] = calls[i]
                    \/ calls'[i].step = index
    PROVE  /\ steps' \in Seq(StepRecord)
           /\ Len(steps') = index + 1
           /\ steps'[index + 1] = s
           /\ s.status = "completed" =>
                 \A i \in DOMAIN steps' : steps'[i].status = "completed"
           /\ \A i \in DOMAIN calls' : /\ calls'[i].step < Len(steps')
                                       /\ steps'[calls'[i].step + 1].type = "tool_call"
           /\ limit.steps # NoLimit => /\ index + 1 <= Most
                                       /\ asked' <= Most
                                       /\ Len(steps') <= Most
<1>1. /\ steps \in Seq(StepRecord) /\ index \in Nat /\ Len(steps) = index
      /\ \A i \in DOMAIN steps : steps[i].status = "completed"
      /\ \A i \in DOMAIN calls : InStep(calls[i])
  BY Before DEF RunTypes
<1>2. /\ steps' \in Seq(StepRecord)
      /\ Len(steps') = index + 1
      /\ DOMAIN steps' = 1..(index + 1)
      /\ steps'[index + 1] = s
      /\ \A i \in 1..index : steps'[i] = steps[i] /\ i \in DOMAIN steps
  BY <1>1
<1>3. s.status = "completed" => \A i \in DOMAIN steps' : steps'[i].status = "completed"
  BY <1>1, <1>2
<1>4. \A i \in DOMAIN calls : calls[i].step \in Nat
  <2>1. \A c \in Call : c.step \in Nat
    BY DEF Call
  <2>2. QED
    BY <2>1 DEF ToolTypes
<1>5. ASSUME NEW i \in DOMAIN calls'
      PROVE  calls'[i].step < Len(steps') /\ steps'[calls'[i].step + 1].type = "tool_call"
  <2>1. CASE i \in DOMAIN calls /\ calls'[i] = calls[i] /\ calls[i].step < Len(steps)
             /\ steps[calls[i].step + 1].type = "tool_call"
    BY <1>1, <1>2, <1>4, <2>1
  <2>2. CASE calls'[i].step = index /\ s.type = "tool_call"
    BY <1>1, <1>2, <2>2
  <2>3. QED
    BY <1>1, <2>1, <2>2 DEF InStep
<1>6. limit.steps # NoLimit => index + 1 <= Most /\ asked' <= Most
  BY <1>1, LimitTypes
<1>7. QED
  BY <1>2, <1>3, <1>5, <1>6

\* A step that was collected well and did not end the run.
LEMMA GoesOn ==
    ASSUME RunTypes, ToolTypes, ToolTypes', RunInv, Running,
           UNCHANGED <<startVars, result, refused>>,
           NEW s \in StepRecord, s.status = "completed", steps' = Append(steps, s),
           limit.steps # NoLimit => index < limit.steps, StepsLeft,
           asked' \in Nat, asked' <= index + 1, index' = index + 1, requests' = <<>>,
           \/ requests = <<>> /\ UNCHANGED calls
           \/ /\ s.type = "tool_call"
              /\ \A i \in DOMAIN calls' :
                    \/ i \in DOMAIN calls /\ calls'[i] = calls[i]
                    \/ calls'[i].step = index
    PROVE  /\ steps' \in Seq(StepRecord)
           /\ RefusalTold' /\ Underway' /\ Traced' /\ StepBudget' /\ LimitNamed'
           /\ CompletedMeansDone'
<1>1. /\ steps' \in Seq(StepRecord)
      /\ Len(steps') = index + 1
      /\ \A i \in DOMAIN steps' : steps'[i].status = "completed"
      /\ \A i \in DOMAIN calls' : /\ calls'[i].step < Len(steps')
                                  /\ steps'[calls'[i].step + 1].type = "tool_call"
      /\ limit.steps # NoLimit => /\ index + 1 <= Most
                                  /\ asked' <= Most
                                  /\ Len(steps') <= Most
  BY Collected
<1>2. result'.status = "running" /\ result'.error = "none" /\ refused' = {}
  BY Before
<1>3. index \in Nat /\ UNCHANGED <<Most, Plan>> /\ limit' = limit /\ engine' = engine
  BY DEF RunTypes, Most, Plan, startVars
<1>4. engine = "plan" => index' <= Len(Plan)
  BY <1>3, PlanShape DEF StepsLeft
<1>5. Underway'
  BY <1>1, <1>2, <1>3, <1>4 DEF Underway
<1>6. Traced' /\ StepBudget' /\ LimitNamed' /\ CompletedMeansDone' /\ RefusalTold'
  BY <1>1, <1>2, <1>3
     DEF Traced, InStep, StepBudget, LimitNamed, CompletedMeansDone, RefusalTold
<1>7. QED
  BY <1>1, <1>5, <1>6

-----------------------------------------------------------------------------
(* The actions of the static plan.                                         *)

\* A step of the plan begins with steps and tokens left.
LEMMA AtStepFacts ==
    ASSUME RunTypes, NEW name, AtStep(name)
    PROVE  /\ Running /\ engine = "plan" /\ StepsLeft /\ ~OverTokens
           /\ limit.steps # NoLimit => index < limit.steps
<1>1. Running /\ engine = "plan" /\ StepsLeft /\ ~OverTokens /\ ~OverSteps
  BY DEF AtStep, StepsLeft
<1>2. limit.steps # NoLimit => index < limit.steps
  BY <1>1, LimitTypes DEF OverSteps, RunTypes
<1>3. QED
  BY <1>1, <1>2

LEMMA StepTypes ==
    ASSUME NEW type \in {"agent_reasoning", "tool_call"},
           NEW status \in {"completed", "failed", "pending_approval"}
    PROVE  /\ Step(type, status) \in StepRecord
           /\ Step(type, status).type = type
           /\ Step(type, status).status = status
BY DEF Step, StepRecord

\* The tools are left alone.
LEMMA ToolsStay ==
    ASSUME ToolTypes, PolicyDecides, Accounted, UNCHANGED <<startVars, toolVars>>,
           (RunInv /\ Running) \/ UNCHANGED result
    PROVE  ToolTypes' /\ PolicyDecides' /\ Accounted'
<1>1. result.error = "repository" => result' = result
  BY DEF RunInv, Underway
<1>2. ToolTypes' /\ PolicyDecides'
  BY DEF ToolTypes, PolicyDecides, Barred, toolVars, startVars
<1>3. (Recorded <=> Recorded') /\ (Counted <=> Counted') /\ (OneShort <=> OneShort')
  BY DEF OneShort, Recorded, RecordedBut, Counted, Unapproved, Pending, Returned, toolVars
<1>4. QED
  BY <1>1, <1>2, <1>3 DEF Accounted

LEMMA UnderstandKeeps ==
    ASSUME ExecInv, Understand
    PROVE  ExecInv'
<1>1. /\ RunTypes /\ ToolTypes /\ RunInv
      /\ PolicyDecides /\ Accounted
  BY InvParts
<1>2. /\ steps' = Append(steps, Step("agent_reasoning", "completed"))
      /\ index' = index + 1
      /\ UNCHANGED <<startVars, requests, output, result, toolVars, modelVars>>
  BY DEF Understand
<1>3. /\ Running /\ engine = "plan" /\ StepsLeft
      /\ limit.steps # NoLimit => index < limit.steps
  BY <1>1, AtStepFacts DEF Understand
<1>4. requests = <<>> /\ asked <= index
  BY <1>1, <1>3, Before
<1>5. ToolTypes' /\ PolicyDecides' /\ Accounted'
  BY <1>1, <1>2, <1>3, ToolsStay
<1>6. index \in Nat /\ asked' = asked /\ asked \in Nat /\ asked' <= index + 1
  BY <1>1, <1>2, <1>4 DEF RunTypes, modelVars
<1>7. /\ steps' \in Seq(StepRecord)
      /\ RefusalTold' /\ Underway' /\ Traced' /\ StepBudget' /\ LimitNamed'
      /\ CompletedMeansDone'
  BY <1>1, <1>2, <1>3, <1>4, <1>5, <1>6, StepTypes, GoesOn DEF toolVars
<1>8. RunTypes'
  BY <1>1, <1>2, <1>7 DEF RunTypes, startVars, modelVars
<1>9. TokenBudget'
  BY <1>1, <1>2, <1>8, TokensKept DEF RunInv, startVars, modelVars
<1>10. QED
  BY <1>5, <1>7, <1>8, <1>9, InvPartsNext

\* A model call is counted and costs what it costs.
LEMMA ModelTypes ==
    ASSUME RunTypes, AskModel \/ ModelFails
    PROVE  /\ asked' = asked + 1 /\ asked' \in Nat /\ spent' \in Nat
           /\ lastUsage' \in 0..MaxUsage
<1>1. \A n \in 0..MaxUsage : n \in Nat
  BY ExecutionAssumption
<1>2. 0 \in 0..MaxUsage
  BY ExecutionAssumption
<1>3. QED
  BY <1>1, <1>2 DEF RunTypes, AskModel, ModelFails

LEMMA ProduceOutputKeeps ==
    ASSUME ExecInv, ProduceOutput
    PROVE  ExecInv'
<1>1. /\ RunTypes /\ ToolTypes /\ RunInv
      /\ PolicyDecides /\ Accounted
  BY InvParts
<1>2. /\ AskModel
      /\ output' \in {"valid", "invalid"}
      /\ steps' = Append(steps, Step("agent_reasoning", "completed"))
      /\ index' = index + 1
      /\ UNCHANGED <<startVars, requests, result, toolVars>>
  BY DEF ProduceOutput
<1>3. /\ Running /\ engine = "plan" /\ StepsLeft /\ ~OverTokens
      /\ limit.steps # NoLimit => index < limit.steps
  BY <1>1, AtStepFacts DEF ProduceOutput
<1>4. requests = <<>> /\ asked <= index
  BY <1>1, <1>3, Before
<1>5. ToolTypes' /\ PolicyDecides' /\ Accounted'
  BY <1>1, <1>2, <1>3, ToolsStay
<1>6. asked' = asked + 1 /\ asked' \in Nat /\ spent' \in Nat /\ lastUsage' \in 0..MaxUsage
  BY <1>1, <1>2, ModelTypes
<1>7. index \in Nat /\ asked' <= index + 1
  BY <1>1, <1>4, <1>6 DEF RunTypes
<1>8. /\ steps' \in Seq(StepRecord)
      /\ RefusalTold' /\ Underway' /\ Traced' /\ StepBudget' /\ LimitNamed'
      /\ CompletedMeansDone'
  BY <1>1, <1>2, <1>3, <1>4, <1>5, <1>6, <1>7, StepTypes, GoesOn DEF toolVars
<1>9. RunTypes'
  BY <1>1, <1>2, <1>6, <1>7, <1>8 DEF RunTypes, Outputs, startVars
<1>10. result'.status = "running" /\ UNCHANGED limit
  BY <1>1, <1>2, <1>3, Before DEF startVars
<1>11. TokenBudget'
  BY <1>1, <1>2, <1>3, <1>9, <1>10, TokensKept DEF RunInv
<1>12. QED
  BY <1>5, <1>8, <1>9, <1>11, InvPartsNext

LEMMA ProduceOutputFailsKeeps ==
    ASSUME ExecInv, ProduceOutputFails
    PROVE  ExecInv'
<1>1. /\ RunTypes /\ ToolTypes /\ RunInv
      /\ PolicyDecides /\ Accounted
  BY InvParts
<1>2. /\ ModelFails
      /\ steps' = Append(steps, Step("agent_reasoning", "failed"))
      /\ UNCHANGED <<startVars, index, requests, toolVars>>
  BY DEF ProduceOutputFails
<1>3. PICK e \in ModelErrors : Conclude("failed", output, e)
  BY DEF ProduceOutputFails
<1>4. /\ Running /\ engine = "plan" /\ StepsLeft /\ ~OverTokens
      /\ limit.steps # NoLimit => index < limit.steps
  BY <1>1, AtStepFacts DEF ProduceOutputFails
<1>5. requests = <<>> /\ asked <= index /\ refused = {}
  BY <1>1, <1>4, Before
<1>6. ToolTypes' /\ PolicyDecides' /\ Accounted'
  BY <1>1, <1>2, <1>4, ToolsStay
<1>7. asked' = asked + 1 /\ asked' \in Nat /\ spent' \in Nat /\ lastUsage' \in 0..MaxUsage
  BY <1>1, <1>2, ModelTypes
<1>8. index \in Nat /\ asked' <= index + 1
  BY <1>1, <1>5, <1>7 DEF RunTypes
<1>9. /\ result' \in Results /\ output' \in Outputs /\ result'.status = "failed"
  <2>1. /\ "failed" \in Statuses /\ e \in Errors /\ output \in Outputs
        /\ "failed" # "completed"
    BY <1>1, <1>3 DEF Statuses, ModelErrors, Errors, RunTypes
  <2>2. QED
    BY <1>3, <1>7, <2>1, Concludes
<1>10. /\ steps' \in Seq(StepRecord)
       /\ limit.steps # NoLimit => asked' <= Most /\ Len(steps') <= Most
  BY <1>1, <1>2, <1>4, <1>5, <1>6, <1>7, <1>8, StepTypes, Collected DEF toolVars
<1>11. RunTypes'
  BY <1>1, <1>2, <1>7, <1>9, <1>10 DEF RunTypes, startVars
<1>12. RefusalTold' /\ Underway' /\ Traced' /\ LimitNamed' /\ CompletedMeansDone'
  BY <1>2, <1>5, <1>9, FailureKeeps DEF toolVars
<1>13. StepBudget'
  BY <1>2, <1>9, <1>10 DEF StepBudget, Most, startVars
<1>14. TokenBudget'
  BY <1>1, <1>2, <1>4, <1>9, <1>11, TokensKept DEF RunInv, startVars
<1>15. QED
  BY <1>6, <1>11, <1>12, <1>13, <1>14, InvPartsNext

LEMMA CompletePlanKeeps ==
    ASSUME ExecInv, CompletePlan
    PROVE  ExecInv'
<1>1. /\ RunTypes /\ ToolTypes /\ RunInv
      /\ PolicyDecides /\ Accounted
  BY InvParts
<1>2. /\ engine = "plan" /\ Running /\ index = Len(Plan)
      /\ UNCHANGED <<startVars, index, requests, steps, toolVars, modelVars>>
      /\ Conclude("completed", output, "none")
  BY DEF CompletePlan
<1>3. /\ requests = <<>> /\ refused = {} /\ Len(steps) = index
      /\ \A i \in DOMAIN steps : steps[i].status = "completed"
      /\ \A i \in DOMAIN calls : InStep(calls[i])
  BY <1>1, <1>2, Before
<1>4. ToolTypes' /\ PolicyDecides' /\ Accounted'
  BY <1>1, <1>2, ToolsStay
<1>5. /\ result' \in Results /\ output' \in Outputs
      /\ result'.status \in {"completed", "failed"}
      /\ result'.status = "completed" => /\ output' = "valid"
                                         /\ result'.error = "none"
                                         /\ result'.usage = spent'
  <2>1. /\ "completed" \in Statuses /\ "none" \in Errors /\ output \in Outputs
        /\ spent' \in Nat
    BY <1>1, <1>2 DEF Statuses, Errors, RunTypes, modelVars
  <2>2. QED
    BY <1>2, <2>1, Concludes
<1>6. RunTypes'
  BY <1>1, <1>2, <1>5 DEF RunTypes, startVars, modelVars
<1>7. RefusalTold' /\ Underway' /\ LimitNamed'
  BY <1>2, <1>3, <1>5 DEF RefusalTold, Underway, LimitNamed, Running, toolVars
<1>8. Traced'
  BY <1>2, <1>3 DEF Traced, InStep, toolVars
<1>9. StepBudget'
  BY <1>1, <1>2, <1>5 DEF RunInv, StepBudget, Most, startVars, modelVars
<1>10. TokenBudget'
  BY <1>1, <1>2, <1>5, <1>6, TokensKept DEF RunInv, startVars
<1>11. CompletedMeansDone'
  BY <1>2, <1>3, <1>5 DEF CompletedMeansDone, Plan, startVars
<1>12. QED
  BY <1>4, <1>6, <1>7, <1>8, <1>9, <1>10, <1>11, InvPartsNext

LEMMA WriteNoteKeeps ==
    ASSUME ExecInv, WriteNote
    PROVE  ExecInv'
<1>1. /\ RunTypes /\ ToolTypes /\ RunInv
      /\ PolicyDecides /\ Accounted
  BY InvParts
<1>2. NoteTool \in Tools
  BY ExecutionAssumption
<1>3. UNCHANGED <<startVars, requests, modelVars>>
  BY DEF WriteNote
<1>4. PICK end \in CallEnds(NoteTool) :
        /\ ExecuteTool(NoteTool, end, index)
        /\ CASE end = "returned" ->
                  /\ steps' = Append(steps, Step("tool_call", "completed"))
                  /\ index' = index + 1
                  /\ UNCHANGED <<output, result>>
             [] end = "pending" ->
                  /\ steps' = Append(steps, Step("tool_call", "pending_approval"))
                  /\ Conclude("pending_approval", output, "none")
                  /\ UNCHANGED index
             [] OTHER ->
                  /\ steps' = Append(steps, Step("tool_call", "failed"))
                  /\ Conclude("failed", output, ErrorOf(end))
                  /\ UNCHANGED index
  BY Zenon DEF WriteNote
<1>5. /\ Running /\ engine = "plan" /\ StepsLeft /\ ~OverTokens
      /\ limit.steps # NoLimit => index < limit.steps
  BY <1>1, AtStepFacts DEF WriteNote
<1>6. /\ requests = <<>> /\ asked <= index /\ refused = {} /\ result.status = "running"
      /\ Recorded /\ Counted
  BY <1>1, <1>5, Before
<1>7. index \in Nat /\ asked' = asked /\ asked' \in Nat /\ asked' <= index + 1
      /\ spent' = spent /\ spent' \in Nat
  BY <1>1, <1>3, <1>6 DEF RunTypes, modelVars
<1>8. ToolTypes' /\ PolicyDecides' /\ Accounted'
  <2>1. ASSUME end \in Unsaved
        PROVE  result'.error = "repository"
    <3>1. end # "returned" /\ end # "pending"
      BY <2>1 DEF Unsaved
    <3>2. Conclude("failed", output, ErrorOf(end))
      BY <1>4, <3>1, Zenon
    <3>3. ErrorOf(end) = "repository"
      BY <2>1 DEF ErrorOf
    <3>4. QED
      BY <3>2, <3>3 DEF Conclude
  <2>2. agent' = agent
    BY <1>3 DEF startVars
  <2>3. QED
    BY <1>1, <1>2, <1>4, <1>6, <1>7, <2>1, <2>2, CallKeeps
<1>9. \A i \in DOMAIN calls' : \/ i \in DOMAIN calls /\ calls'[i] = calls[i]
                               \/ calls'[i].step = index
  BY <1>1, <1>2, <1>4, <1>7, CallSteps
<1>10. CASE end = "returned"
  <2>1. /\ steps' = Append(steps, Step("tool_call", "completed"))
        /\ index' = index + 1
        /\ UNCHANGED <<output, result>>
    BY <1>4, <1>10, Zenon
  <2>2. refused' = refused
    BY <1>2, <1>4, <1>10, CallEffects
  <2>3. /\ steps' \in Seq(StepRecord)
        /\ RefusalTold' /\ Underway' /\ Traced' /\ StepBudget' /\ LimitNamed'
        /\ CompletedMeansDone'
    BY <1>1, <1>3, <1>5, <1>6, <1>7, <1>8, <1>9, <2>1, <2>2, StepTypes, GoesOn
  <2>4. RunTypes'
    BY <1>1, <1>3, <1>7, <2>1, <2>3 DEF RunTypes, startVars, modelVars
  <2>5. TokenBudget'
    BY <1>1, <1>3, <1>6, <2>1, <2>4, TokensKept DEF RunInv, startVars
  <2>6. QED
    BY <1>8, <2>3, <2>4, <2>5, InvPartsNext
<1>11. ASSUME NEW status \in {"pending_approval", "failed"}, NEW error \in Errors,
              steps' = Append(steps, Step("tool_call", status)),
              Conclude(status, output, error), UNCHANGED index,
              refused' # {} => status = "failed" /\ error = "policy"
       PROVE  ExecInv'
  <2>1. /\ result' \in Results /\ output' \in Outputs
        /\ result'.status = status /\ result'.error = error
    <3>1. status \in Statuses /\ status # "completed" /\ output \in Outputs
      BY <1>1 DEF Statuses, RunTypes
    <3>2. QED
      BY <1>7, <1>11, <3>1, Concludes
  <2>2. /\ steps' \in Seq(StepRecord)
        /\ \A i \in DOMAIN calls' : /\ calls'[i].step < Len(steps')
                                    /\ steps'[calls'[i].step + 1].type = "tool_call"
        /\ limit.steps # NoLimit => asked' <= Most /\ Len(steps') <= Most
    BY <1>1, <1>3, <1>5, <1>6, <1>7, <1>8, <1>9, <1>11, StepTypes, Collected
  <2>3. RunTypes'
    BY <1>1, <1>3, <1>7, <1>11, <2>1, <2>2 DEF RunTypes, startVars, modelVars
  <2>4. RefusalTold' /\ Underway' /\ Traced' /\ LimitNamed' /\ CompletedMeansDone'
    BY <1>11, <2>1, <2>2
       DEF RefusalTold, Underway, Traced, InStep, LimitNamed, CompletedMeansDone, Running
  <2>5. StepBudget'
    BY <1>3, <2>1, <2>2 DEF StepBudget, Most, startVars
  <2>6. TokenBudget'
    BY <1>1, <1>3, <2>1, <2>3, TokensKept DEF RunInv, startVars
  <2>7. QED
    BY <1>8, <2>3, <2>4, <2>5, <2>6, InvPartsNext
<1>12. CASE end = "pending"
  <2>1. /\ steps' = Append(steps, Step("tool_call", "pending_approval"))
        /\ Conclude("pending_approval", output, "none")
        /\ UNCHANGED index
    BY <1>4, <1>12, Zenon
  <2>2. refused' = {}
    BY <1>2, <1>4, <1>6, <1>12, CallEffects
  <2>3. "none" \in Errors
    BY DEF Errors
  <2>4. QED
    BY <1>11, <2>1, <2>2, <2>3
<1>13. CASE end # "returned" /\ end # "pending"
  <2>1. /\ steps' = Append(steps, Step("tool_call", "failed"))
        /\ Conclude("failed", output, ErrorOf(end))
        /\ UNCHANGED index
    BY <1>4, <1>13, Zenon
  <2>2. refused' # {} => end = "policy"
    BY <1>2, <1>4, <1>6, <1>13, CallEffects
  <2>3. ErrorOf(end) \in Errors /\ (end = "policy" => ErrorOf(end) = "policy")
    BY <1>2, <1>13, ErrorTypes
  <2>4. QED
    BY <1>11, <2>1, <2>2, <2>3
<1>14. QED
  BY <1>10, <1>12, <1>13

-----------------------------------------------------------------------------
(* The actions of the loop.                                                *)

\* A turn begins with steps and tokens left.
LEMMA AtTurnFacts ==
    ASSUME RunTypes, AtTurn
    PROVE  /\ Running /\ engine = "loop" /\ requests = <<>> /\ StepsLeft /\ ~OverTokens
           /\ limit.steps # NoLimit => index < limit.steps
<1>1. /\ Running /\ engine = "loop" /\ requests = <<>> /\ StepsLeft
      /\ ~OverTokens /\ ~OverSteps
  BY DEF AtTurn, StepsLeft
<1>2. limit.steps # NoLimit => index < limit.steps
  BY <1>1, LimitTypes DEF OverSteps, RunTypes
<1>3. QED
  BY <1>1, <1>2

LEMMA RequestToolsKeeps ==
    ASSUME ExecInv, RequestTools
    PROVE  ExecInv'
<1>1. /\ RunTypes /\ ToolTypes /\ RunInv
      /\ PolicyDecides /\ Accounted
  BY InvParts
<1>2. /\ AskModel
      /\ requests' \in RequestLists
      /\ UNCHANGED <<startVars, index, steps, output, result, toolVars>>
  BY DEF RequestTools
<1>3. /\ Running /\ engine = "loop" /\ requests = <<>> /\ StepsLeft /\ ~OverTokens
      /\ limit.steps # NoLimit => index < limit.steps
  BY <1>1, AtTurnFacts DEF RequestTools
<1>4. /\ asked <= index /\ refused = {}
      /\ result.status = "running" /\ result.error = "none"
      /\ Len(steps) = index
      /\ \A i \in DOMAIN steps : steps[i].status = "completed"
      /\ \A i \in DOMAIN calls : InStep(calls[i])
  BY <1>1, <1>3, Before
<1>5. requests' \in Seq(Tools) /\ requests' # <<>>
  <2>1. PICK n \in 1..MaxRequests : requests' \in [1..n -> Tools]
    BY <1>2 DEF RequestLists
  <2>2. n \in Nat /\ n > 0
    BY <2>1, ExecutionAssumption
  <2>3. Len(requests') = n /\ requests' \in Seq(Tools)
    BY <2>1, <2>2
  <2>4. QED
    BY <2>2, <2>3
<1>6. ToolTypes' /\ PolicyDecides' /\ Accounted'
  BY <1>1, <1>2, <1>3, ToolsStay
<1>7. asked' = asked + 1 /\ asked' \in Nat /\ spent' \in Nat /\ lastUsage' \in 0..MaxUsage
  BY <1>1, <1>2, ModelTypes
<1>8. RunTypes'
  BY <1>1, <1>2, <1>5, <1>7 DEF RunTypes, startVars
<1>9. /\ index \in Nat /\ asked' <= index + 1
      /\ limit.steps # NoLimit => index <= Most /\ asked' <= Most
  BY <1>1, <1>3, <1>4, <1>7, LimitTypes DEF RunTypes
<1>10. Underway'
  BY <1>2, <1>3, <1>4, <1>5, <1>9 DEF Underway, Most, startVars
<1>11. Traced' /\ RefusalTold' /\ CompletedMeansDone' /\ LimitNamed'
  BY <1>2, <1>3, <1>4
     DEF Traced, InStep, RefusalTold, CompletedMeansDone, LimitNamed, toolVars, startVars
<1>12. StepBudget'
  BY <1>2, <1>4, <1>9 DEF StepBudget, Most, startVars
<1>13. TokenBudget'
  BY <1>1, <1>2, <1>3, <1>4, <1>8, TokensKept DEF RunInv, startVars
<1>14. QED
  BY <1>6, <1>8, <1>10, <1>11, <1>12, <1>13, InvPartsNext

LEMMA AnswerFinallyKeeps ==
    ASSUME ExecInv, AnswerFinally
    PROVE  ExecInv'
<1>1. /\ RunTypes /\ ToolTypes /\ RunInv
      /\ PolicyDecides /\ Accounted
  BY InvParts
<1>2. /\ AskModel
      /\ steps' = Append(steps, Step("agent_reasoning", "completed"))
      /\ UNCHANGED <<startVars, index, requests, toolVars>>
  BY DEF AnswerFinally
<1>3. PICK out \in {"valid", "invalid"} : Conclude("completed", out, "none")
  BY DEF AnswerFinally
<1>4. /\ Running /\ engine = "loop" /\ requests = <<>> /\ StepsLeft /\ ~OverTokens
      /\ limit.steps # NoLimit => index < limit.steps
  BY <1>1, AtTurnFacts DEF AnswerFinally
<1>5. asked <= index /\ refused = {}
  BY <1>1, <1>4, Before
<1>6. ToolTypes' /\ PolicyDecides' /\ Accounted'
  BY <1>1, <1>2, <1>4, ToolsStay
<1>7. asked' = asked + 1 /\ asked' \in Nat /\ spent' \in Nat /\ lastUsage' \in 0..MaxUsage
  BY <1>1, <1>2, ModelTypes
<1>8. index \in Nat /\ asked' <= index + 1
  BY <1>1, <1>5, <1>7 DEF RunTypes
<1>9. /\ result' \in Results /\ output' \in Outputs
      /\ result'.status \in {"completed", "failed"}
      /\ result'.status = "completed" => /\ output' = "valid"
                                         /\ result'.error = "none"
                                         /\ result'.usage = spent'
  <2>1. "completed" \in Statuses /\ "none" \in Errors /\ out \in Outputs
    BY <1>3 DEF Statuses, Errors, Outputs
  <2>2. QED
    BY <1>3, <1>7, <2>1, Concludes
<1>10. /\ steps' \in Seq(StepRecord)
       /\ Len(steps') = index + 1
       /\ steps'[index + 1].type = "agent_reasoning"
       /\ \A i \in DOMAIN steps' : steps'[i].status = "completed"
       /\ \A i \in DOMAIN calls' : /\ calls'[i].step < Len(steps')
                                   /\ steps'[calls'[i].step + 1].type = "tool_call"
       /\ limit.steps # NoLimit => asked' <= Most /\ Len(steps') <= Most
  BY <1>1, <1>2, <1>4, <1>6, <1>7, <1>8, StepTypes, Collected DEF toolVars
<1>11. RunTypes'
  BY <1>1, <1>2, <1>7, <1>9, <1>10 DEF RunTypes, startVars
<1>12. RefusalTold' /\ Underway' /\ Traced' /\ LimitNamed'
  BY <1>2, <1>5, <1>9, <1>10
     DEF RefusalTold, Underway, Traced, InStep, LimitNamed, Running, toolVars
<1>13. CompletedMeansDone'
  BY <1>2, <1>4, <1>9, <1>10 DEF CompletedMeansDone, startVars
<1>14. StepBudget'
  BY <1>2, <1>9, <1>10 DEF StepBudget, Most, startVars
<1>15. TokenBudget'
  BY <1>1, <1>2, <1>4, <1>9, <1>11, TokensKept DEF RunInv, startVars
<1>16. QED
  BY <1>6, <1>11, <1>12, <1>13, <1>14, <1>15, InvPartsNext

\* Nothing happens.
LEMMA StutterKeeps ==
    ASSUME ExecInv,
           UNCHANGED <<startVars, index, requests, steps, output, result, toolVars,
                       modelVars>>
    PROVE  ExecInv'
<1>1. /\ RunTypes /\ ToolTypes /\ RunInv
      /\ PolicyDecides /\ Accounted
  BY InvParts
<1>2. ToolTypes' /\ PolicyDecides' /\ Accounted'
  BY <1>1, ToolsStay
<1>3. RunTypes'
  BY <1>1 DEF RunTypes, startVars, modelVars
<1>4. RefusalTold' /\ Underway' /\ Traced' /\ LimitNamed' /\ CompletedMeansDone'
  BY <1>1
     DEF RunInv, RefusalTold, Underway, Traced, InStep, LimitNamed, CompletedMeansDone,
         Running, Plan, Most, startVars, toolVars, modelVars
<1>5. StepBudget' /\ TokenBudget'
  BY <1>1 DEF RunInv, StepBudget, TokenBudget, Most, startVars, modelVars
<1>6. QED
  BY <1>2, <1>3, <1>4, <1>5, InvPartsNext

\* An exception loses what the loop collected.
LEMMA LoseKeeps ==
    ASSUME RunTypes, ToolTypes, RunInv, Running, UNCHANGED <<startVars, index>>,
           ToolTypes', PolicyDecides', Accounted',
           NEW error \in Errors, Lose(error), refused' # {} => error = "policy",
           asked' \in Nat, spent' \in Nat, lastUsage' \in 0..MaxUsage,
           asked' <= index + 1, limit.steps # NoLimit => index < limit.steps,
           \/ UNCHANGED modelVars
           \/ ModelFails /\ StepsLeft /\ ~OverTokens
    PROVE  ExecInv'
<1>1. /\ result' = [status |-> "failed", usage |-> 0, error |-> error]
      /\ output' = "none" /\ steps' = <<>> /\ requests' = <<>>
  BY DEF Lose
<1>2. result' \in Results /\ output' \in Outputs /\ result'.status = "failed"
      /\ result'.error = error
  BY <1>1 DEF Results, Outputs, Statuses
<1>3. steps' \in Seq(StepRecord) /\ requests' \in Seq(Tools) /\ Len(steps') = 0
  BY <1>1
<1>4. RunTypes'
  BY <1>2, <1>3 DEF RunTypes, startVars
<1>5. RefusalTold' /\ Underway' /\ Traced' /\ LimitNamed' /\ CompletedMeansDone'
  BY <1>2, FailureKeeps
<1>6. StepBudget'
  <2>1. limit.steps # NoLimit => asked' <= Most /\ 0 <= Most
    BY LimitTypes DEF RunTypes
  <2>2. QED
    BY <1>2, <1>3, <2>1 DEF StepBudget, Most, startVars
<1>7. TokenBudget'
  BY <1>2, <1>4, TokensKept DEF RunInv, startVars
<1>8. QED
  BY <1>4, <1>5, <1>6, <1>7, InvPartsNext

LEMMA LoopModelFailsKeeps ==
    ASSUME ExecInv, LoopModelFails
    PROVE  ExecInv'
<1>1. /\ RunTypes /\ ToolTypes /\ RunInv
      /\ PolicyDecides /\ Accounted
  BY InvParts
<1>2. ModelFails /\ UNCHANGED <<startVars, index, toolVars>>
  BY DEF LoopModelFails
<1>3. PICK e \in ModelErrors : Lose(e)
  BY DEF LoopModelFails
<1>4. /\ Running /\ engine = "loop" /\ requests = <<>> /\ StepsLeft /\ ~OverTokens
      /\ limit.steps # NoLimit => index < limit.steps
  BY <1>1, AtTurnFacts DEF LoopModelFails
<1>5. asked <= index /\ refused' = {}
  BY <1>1, <1>2, <1>4, Before DEF toolVars
<1>6. ToolTypes' /\ PolicyDecides' /\ Accounted'
  BY <1>1, <1>2, <1>4, ToolsStay
<1>7. asked' = asked + 1 /\ asked' \in Nat /\ spent' \in Nat /\ lastUsage' \in 0..MaxUsage
  BY <1>1, <1>2, ModelTypes
<1>8. asked' <= index + 1 /\ e \in Errors
  <2>1. asked' <= index + 1
    BY <1>1, <1>5, <1>7 DEF RunTypes
  <2>2. e \in Errors
    BY <1>3 DEF ModelErrors, Errors
  <2>3. QED
    BY <2>1, <2>2
<1>9. QED
  BY <1>1, <1>2, <1>3, <1>4, <1>5, <1>6, <1>7, <1>8, LoseKeeps

LEMMA ExecuteRequestKeeps ==
    ASSUME ExecInv, ExecuteRequest
    PROVE  ExecInv'
<1>1. /\ RunTypes /\ ToolTypes /\ RunInv
      /\ PolicyDecides /\ Accounted
  BY InvParts
<1>2. engine = "loop" /\ Running /\ requests # <<>> /\ UNCHANGED <<startVars, modelVars>>
  BY DEF ExecuteRequest
<1>3. PICK end \in CallEnds(Head(requests)) :
        /\ ExecuteTool(Head(requests), end, index)
        /\ IF end \in {"returned", "pending"}
           THEN /\ requests' = Tail(requests)
                /\ IF Tail(requests) = <<>>
                   THEN /\ steps' = Append(steps, Step("tool_call", "completed"))
                        /\ index' = index + 1
                   ELSE UNCHANGED <<steps, index>>
                /\ UNCHANGED <<output, result>>
           ELSE Lose(ErrorOf(end)) /\ UNCHANGED index
  BY DEF ExecuteRequest
<1>4. Head(requests) \in Tools /\ Tail(requests) \in Seq(Tools)
  BY <1>1, <1>2 DEF RunTypes
<1>5. /\ index \in Nat /\ StepsLeft
      /\ refused = {} /\ result.status = "running" /\ result.error = "none"
      /\ Len(steps) = index
      /\ \A i \in DOMAIN steps : steps[i].status = "completed"
      /\ \A i \in DOMAIN calls : InStep(calls[i])
      /\ asked <= index + 1
      /\ limit.steps # NoLimit => index < limit.steps /\ index <= Most
      /\ Recorded /\ Counted
  BY <1>1, <1>2, Before DEF RunTypes, StepsLeft
<1>6. /\ asked' = asked /\ asked' \in Nat /\ spent' = spent /\ spent' \in Nat
      /\ lastUsage' \in 0..MaxUsage /\ asked' <= index + 1
  BY <1>1, <1>2, <1>5 DEF RunTypes, modelVars
<1>7. ToolTypes' /\ PolicyDecides' /\ Accounted'
  <2>1. ASSUME end \in Unsaved
        PROVE  result'.error = "repository"
    <3>1. end \notin {"returned", "pending"} /\ ErrorOf(end) = "repository"
      BY <2>1 DEF Unsaved, ErrorOf
    <3>2. Lose(ErrorOf(end))
      BY <1>3, <3>1
    <3>3. QED
      BY <3>1, <3>2 DEF Lose
  <2>2. agent' = agent
    BY <1>2 DEF startVars
  <2>3. QED
    BY <1>1, <1>3, <1>4, <1>5, <2>1, <2>2, CallKeeps
<1>8. \A i \in DOMAIN calls' : \/ i \in DOMAIN calls /\ calls'[i] = calls[i]
                               \/ calls'[i].step = index
  BY <1>1, <1>3, <1>4, <1>5, CallSteps
<1>9. CASE end \notin {"returned", "pending"}
  <2>1. Lose(ErrorOf(end)) /\ UNCHANGED index
    BY <1>3, <1>9
  <2>2. (refused' # {} => ErrorOf(end) = "policy") /\ ErrorOf(end) \in Errors
    BY <1>3, <1>4, <1>5, <1>9, CallEffects, ErrorTypes
  <2>3. QED
    BY <1>1, <1>2, <1>5, <1>6, <1>7, <2>1, <2>2, LoseKeeps
<1>10. CASE end \in {"returned", "pending"}
  <2>1. requests' = Tail(requests) /\ UNCHANGED <<output, result>>
    BY <1>3, <1>10
  <2>2. refused' = refused
    BY <1>3, <1>4, <1>10, CallEffects
  <2>3. CASE Tail(requests) = <<>>
    <3>1. steps' = Append(steps, Step("tool_call", "completed")) /\ index' = index + 1
      BY <1>3, <1>10, <2>3
    <3>2. /\ steps' \in Seq(StepRecord)
          /\ RefusalTold' /\ Underway' /\ Traced' /\ StepBudget' /\ LimitNamed'
          /\ CompletedMeansDone'
      BY <1>1, <1>2, <1>5, <1>6, <1>7, <1>8, <2>1, <2>2, <2>3, <3>1, StepTypes, GoesOn
    <3>3. RunTypes'
      BY <1>1, <1>2, <1>4, <1>5, <1>6, <2>1, <3>1, <3>2 DEF RunTypes, startVars
    <3>4. TokenBudget'
      BY <1>1, <1>2, <1>5, <2>1, <3>3, TokensKept DEF RunInv, startVars
    <3>5. QED
      BY <1>7, <3>2, <3>3, <3>4, InvPartsNext
  <2>4. CASE Tail(requests) # <<>>
    <3>1. UNCHANGED <<steps, index>>
      BY <1>3, <1>10, <2>4
    <3>2. RunTypes'
      BY <1>1, <1>2, <1>4, <1>5, <1>6, <2>1, <3>1 DEF RunTypes, startVars
    <3>3. Underway'
      BY <1>2, <1>5, <1>6, <2>1, <2>4, <3>1 DEF Underway, Most, startVars
    <3>4. Traced'
      <4>1. Running' /\ engine' = "loop" /\ requests' # <<>>
        BY <1>2, <1>5, <2>1, <2>4 DEF Running, startVars
      <4>2. SUFFICES ASSUME NEW i \in DOMAIN calls'
                     PROVE  \/ /\ calls'[i].step < Len(steps')
                               /\ steps'[calls'[i].step + 1].type = "tool_call"
                            \/ calls'[i].step = index'
        BY <4>1 DEF Traced, InStep
      <4>3. CASE i \in DOMAIN calls /\ calls'[i] = calls[i]
        BY <1>5, <3>1, <4>3 DEF InStep
      <4>4. QED
        BY <1>8, <3>1, <4>3
    <3>5. RefusalTold' /\ CompletedMeansDone' /\ LimitNamed'
      BY <1>5, <2>1, <2>2 DEF RefusalTold, CompletedMeansDone, LimitNamed
    <3>6. StepBudget'
      BY <1>1, <1>2, <1>5, <2>1, <3>1 DEF RunInv, StepBudget, Most, startVars, modelVars
    <3>7. TokenBudget'
      BY <1>1, <1>2, <1>5, <2>1, <3>2, TokensKept DEF RunInv, startVars
    <3>8. QED
      BY <1>7, <3>2, <3>3, <3>4, <3>5, <3>6, <3>7, InvPartsNext
  <2>5. QED
    BY <2>3, <2>4
<1>11. QED
  BY <1>9, <1>10

LEMMA RunOutKeeps ==
    ASSUME ExecInv, RunOut
    PROVE  ExecInv'
<1>1. /\ RunTypes /\ ToolTypes /\ RunInv
      /\ PolicyDecides /\ Accounted
  BY InvParts
<1>2. /\ Running /\ requests = <<>>
      /\ UNCHANGED <<startVars, index, requests, steps, toolVars, modelVars>>
  BY DEF RunOut
<1>3. /\ refused = {} /\ Len(steps) = index
      /\ \A i \in DOMAIN calls : InStep(calls[i])
      /\ limit.steps # NoLimit => index <= Most
  BY <1>1, <1>2, Before
<1>4. ToolTypes' /\ PolicyDecides' /\ Accounted'
  BY <1>1, <1>2, ToolsStay
<1>5. ASSUME NEW status \in {"max_steps", "max_tokens"}, Conclude(status, output, "none"),
             status = "max_steps" => OverSteps,
             status = "max_tokens" => OverTokens
      PROVE  ExecInv'
  <2>1. result' \in Results /\ output' \in Outputs /\ result'.status = status
    <3>1. /\ status \in Statuses /\ status # "completed" /\ "none" \in Errors
          /\ output \in Outputs /\ spent' \in Nat
      BY <1>1, <1>2 DEF Statuses, Errors, RunTypes, modelVars
    <3>2. QED
      BY <1>5, <3>1, Concludes
  <2>2. RunTypes'
    BY <1>1, <1>2, <2>1 DEF RunTypes, startVars, modelVars
  <2>3. RefusalTold' /\ Underway' /\ CompletedMeansDone'
    BY <1>2, <1>3, <2>1 DEF RefusalTold, Underway, CompletedMeansDone, Running, toolVars
  <2>4. Traced'
    BY <1>2, <1>3 DEF Traced, InStep, toolVars
  <2>5. LimitNamed'
    BY <1>2, <1>5, <2>1 DEF LimitNamed, OverSteps, OverTokens, startVars
  <2>6. limit.steps # NoLimit /\ status = "max_steps" => Len(steps) = Most
    BY <1>1, <1>3, <1>5, LimitTypes DEF OverSteps, RunTypes
  <2>7. StepBudget'
    BY <1>1, <1>2, <2>1, <2>6 DEF RunInv, StepBudget, Most, startVars, modelVars
  <2>8. TokenBudget'
    BY <1>1, <1>2, <1>5, <2>1, <2>2, TokensKept DEF RunInv, startVars, modelVars
  <2>9. QED
    BY <1>4, <2>2, <2>3, <2>4, <2>5, <2>7, <2>8, InvPartsNext
<1>6. CASE OverSteps /\ Conclude("max_steps", output, "none")
  BY <1>5, <1>6
<1>7. CASE OverTokens /\ Conclude("max_tokens", output, "none")
  BY <1>5, <1>7
<1>8. QED
  BY <1>6, <1>7 DEF RunOut

-----------------------------------------------------------------------------
(* The theorems.                                                           *)

LEMMA InvInit == Init => ExecInv
<1> SUFFICES ASSUME Init PROVE ExecInv
  OBVIOUS
<1>1. /\ calls = <<>> /\ handled = <<>> /\ approvals = <<>> /\ steps = <<>>
      /\ requests = <<>> /\ refused = {} /\ index = 0 /\ asked = 0 /\ spent = 0
      /\ lastUsage = 0 /\ output = "none"
      /\ result = [status |-> "running", usage |-> 0, error |-> "none"]
  BY DEF Init, NoResult
<1>2. 0 \in 0..MaxUsage
  BY ExecutionAssumption
<1>3. RunTypes
  <2>1. result \in Results /\ output \in Outputs
    BY <1>1 DEF Results, Outputs, Errors
  <2>2. requests \in Seq(Tools) /\ steps \in Seq(StepRecord)
    BY <1>1
  <2>3. QED
    BY <1>1, <1>2, <2>1, <2>2 DEF RunTypes, Init
<1>4. ToolTypes
  BY <1>1 DEF ToolTypes
<1>5. PolicyDecides /\ Recorded
  BY <1>1 DEF PolicyDecides, Recorded
<1>6. Counted
  <2>1. Unapproved = {} /\ Returned = {} /\ Pending = {} /\ Len(approvals) = 0
    BY <1>1 DEF Unapproved, Returned, Pending
  <2>2. QED
    BY <2>1, FS_EmptySet DEF Counted
<1>7. limit.steps # NoLimit => Most \in Nat
  BY <1>3, LimitTypes
<1>8. Len(steps) = 0 /\ DOMAIN steps = {} /\ DOMAIN calls = {} /\ Len(Plan) >= 0
  BY <1>1, PlanShape
<1>9. RunInv
  BY <1>1, <1>7, <1>8
     DEF RunInv, RefusalTold, Underway, Traced, StepBudget, TokenBudget, LimitNamed,
         CompletedMeansDone, Running
<1>10. QED
  BY <1>3, <1>4, <1>5, <1>6, <1>9, InvParts DEF Accounted

LEMMA InvNext == ExecInv /\ [Next]_vars => ExecInv'
<1> SUFFICES ASSUME ExecInv, [Next]_vars PROVE ExecInv'
  OBVIOUS
<1>1. CASE Understand
  BY <1>1, UnderstandKeeps
<1>2. CASE ProduceOutput
  BY <1>2, ProduceOutputKeeps
<1>3. CASE ProduceOutputFails
  BY <1>3, ProduceOutputFailsKeeps
<1>4. CASE WriteNote
  BY <1>4, WriteNoteKeeps
<1>5. CASE CompletePlan
  BY <1>5, CompletePlanKeeps
<1>6. CASE RequestTools
  BY <1>6, RequestToolsKeeps
<1>7. CASE AnswerFinally
  BY <1>7, AnswerFinallyKeeps
<1>8. CASE LoopModelFails
  BY <1>8, LoopModelFailsKeeps
<1>9. CASE ExecuteRequest
  BY <1>9, ExecuteRequestKeeps
<1>10. CASE RunOut
  BY <1>10, RunOutKeeps
<1>11. ASSUME NEW i \in DOMAIN approvals, NEW decision \in {"approved", "rejected"},
              Decide(i, decision)
       PROVE  ExecInv'
  BY <1>11, DecideKeeps
<1>12. CASE UNCHANGED vars
  <2>1. UNCHANGED <<startVars, index, requests, steps, output, result, toolVars,
                    modelVars>>
    BY <1>12 DEF vars
  <2>2. QED
    BY <2>1, StutterKeeps
<1>13. QED
  BY <1>1, <1>2, <1>3, <1>4, <1>5, <1>6, <1>7, <1>8, <1>9, <1>10, <1>11, <1>12
     DEF Next, Execution

\* The execution keeps its invariant, whatever tools, agents and budgets there
\* are: where it runs, steps, calls and spending are in step with one another.
THEOREM ExecutionInvariant == Spec => []ExecInv
<1>1. Init => ExecInv
  BY InvInit
<1>2. ExecInv /\ [Next]_vars => ExecInv'
  BY InvNext
<1>3. QED
  BY <1>1, <1>2, PTL DEF Spec

\* Every state of an execution is well typed.
THEOREM TypeCorrect == Spec => []TypeOK
<1>1. ExecInv => TypeOK
  BY DEF ExecInv
<1>2. QED
  BY <1>1, ExecutionInvariant, PTL

\* Governance: no barred tool is run or put up for an approval, and no risky
\* tool runs, whatever model and humans do (tools/policy.py, tools/executor.py).
THEOREM PolicyAlwaysDecides == Spec => []PolicyDecides
<1>1. ExecInv => PolicyDecides
  BY DEF ExecInv
<1>2. QED
  BY <1>1, ExecutionInvariant, PTL

\* Every saved call either awaits an approval or needs none.
LEMMA SavedCalls ==
    ASSUME ToolTypes
    PROVE  /\ Len(calls) = Cardinality(Unapproved) + Cardinality(Pending)
           /\ Cardinality(Unapproved) \in Nat /\ Cardinality(Pending) \in Nat
<1>1. calls \in Seq(Call)
  BY DEF ToolTypes
<1>2. /\ DOMAIN calls = 1..Len(calls) /\ Len(calls) \in Nat
      /\ \A i \in DOMAIN calls : calls[i] \in Call
  BY <1>1
<1>3. \A c \in Call : c.approval \in {"not_required", "pending"}
  BY DEF Call
<1>4. /\ Unapproved \cup Pending = DOMAIN calls /\ Unapproved \cap Pending = {}
      /\ Unapproved \subseteq DOMAIN calls /\ Pending \subseteq DOMAIN calls
  BY <1>2, <1>3 DEF Unapproved, Pending
<1>5. IsFiniteSet(Unapproved) /\ IsFiniteSet(Pending)
  BY <1>1, <1>4, IndicesFinite
<1>6. Cardinality(1..Len(calls)) = Len(calls)
  BY <1>2, FS_Interval
<1>7. /\ Cardinality(Unapproved) \in Nat /\ Cardinality(Pending) \in Nat
      /\ Cardinality({}) = 0
  BY <1>5, FS_CardinalityType, FS_EmptySet
<1>8. Cardinality(Unapproved \cup Pending) =
        Cardinality(Unapproved) + Cardinality(Pending) - Cardinality(Unapproved \cap Pending)
  BY <1>5, FS_Union
<1>9. Len(calls) = Cardinality(Unapproved) + Cardinality(Pending) - Cardinality({})
  BY <1>2, <1>4, <1>6, <1>8, Zenon
<1>10. QED
  BY <1>7, <1>9

\* The trace of a run accounts for its handlers, approvals and saved calls
\* (tools/executor.py, core/tool_loop.py).
THEOREM CallsAccounted == Spec => []CallsAccountedFor
<1>1. ExecInv => CallsAccountedFor
  <2> SUFFICES ASSUME ExecInv PROVE CallsAccountedFor
    OBVIOUS
  <2>1. /\ Len(calls) = Cardinality(Unapproved) + Cardinality(Pending)
        /\ Cardinality(Unapproved) \in Nat /\ Cardinality(Pending) \in Nat
    BY SavedCalls, InvParts
  <2>2. Accounted
    BY DEF ExecInv
  <2>3. Len(approvals) \in Nat
    BY DEF ExecInv, TypeOK
  <2>4. \A i \in DOMAIN calls :
          result.status \notin {"running", "failed"} =>
            /\ calls[i].step < Len(steps)
            /\ steps[calls[i].step + 1].type = "tool_call"
    BY DEF ExecInv, Traced, InStep, Running
  <2>5. CASE Counted
    BY <2>1, <2>3, <2>4, <2>5 DEF Counted, CallsAccountedFor
  <2>6. CASE OneShort /\ result.error = "repository"
    BY <2>1, <2>3, <2>4, <2>6 DEF OneShort, CallsAccountedFor
  <2>7. QED
    BY <2>2, <2>5, <2>6 DEF Accounted
<1>2. QED
  BY <1>1, ExecutionInvariant, PTL

\* Step and token limits bound every run, and its status names the one that
\* stopped it (core/executor.py, core/tool_loop.py).
THEOREM BudgetsHold == Spec => []BudgetsRespected
<1>1. ExecInv => BudgetsRespected
  BY DEF ExecInv
<1>2. QED
  BY <1>1, ExecutionInvariant, PTL

\* A completed run did all it was to do, and its output is valid
\* (core/runtime.py, core/executor.py, core/tool_loop.py).
THEOREM CompletedRunsAreDone == Spec => []CompletedMeansDone
<1>1. ExecInv => CompletedMeansDone
  BY DEF ExecInv
<1>2. QED
  BY <1>1, ExecutionInvariant, PTL

\* The evaluations fail a run with a refused tool and one that ran a tool for
\* which the agent expects an approval, up to the last handler of a run whose
\* repository failed (evals/validators.py, tools/executor.py).
THEOREM ViolationsCaught == Spec => []EvaluationsCatchViolations
<1>1. ExecInv => EvaluationsCatchViolations
  <2> SUFFICES ASSUME ExecInv
               PROVE  /\ refused # {} => ~ToolPolicyRespected
                      /\ \A i \in DOMAIN handled :
                           /\ handled[i].ok /\ handled[i].tool \in agent.expected
                           /\ Cardinality(Unapproved) < Cardinality(Returned)
                                => i < Len(handled)
                           => ~ApprovalRulesRespected
    BY Zenon DEF EvaluationsCatchViolations
  <2>1. refused # {} => ~ToolPolicyRespected
    BY DEF ExecInv, RefusalTold, ToolPolicyRespected, LooksLikePolicyError
  <2>2. ASSUME NEW i \in DOMAIN handled, handled[i].ok,
               handled[i].tool \in agent.expected,
               Cardinality(Unapproved) < Cardinality(Returned) => i < Len(handled)
        PROVE  ~ApprovalRulesRespected
    <3>1. PICK j \in DOMAIN calls : /\ calls[j].tool = handled[i].tool
                                    /\ calls[j].approval = "not_required"
      <4>1. CASE Recorded
        BY <2>2, <4>1, Zenon DEF Recorded
      <4>2. CASE /\ RecordedBut
                 /\ Cardinality(Returned) = Cardinality(Unapproved) + 1
        <5>1. Cardinality(Unapproved) \in Nat
          BY SavedCalls, InvParts
        <5>2. i < Len(handled)
          BY <2>2, <4>2, <5>1
        <5>3. QED
          BY <2>2, <4>2, <5>2, Zenon DEF RecordedBut
      <4>3. QED
        BY <4>1, <4>2 DEF ExecInv, Accounted, OneShort
    <3>2. /\ calls[j].tool \in agent.risky \cup agent.expected
          /\ calls[j].approval \notin {"pending", "approved"}
      BY <2>2, <3>1
    <3>3. QED
      BY <3>2, Zenon DEF ApprovalRulesRespected
  <2>3. QED
    BY <2>1, <2>2
<1>2. QED
  BY <1>1, ExecutionInvariant, PTL


-----------------------------------------------------------------------------
(* An execution runs out of work: the safety half of its ending, for any   *)
(* limits, plan and answers of the model.                                  *)

\* The turns the step limit leaves.
TurnsLeft == IF limit.steps > index THEN limit.steps - index ELSE 0

\* At most this many steps end the execution: of the plan what is left of it,
\* of the loop its turns with the calls each may request, and the last step
\* that saves the result.
WorkLeft ==
    IF ~Running THEN 0
    ELSE IF engine = "plan" THEN 1 + (Len(Plan) - index)
    ELSE IF requests = <<>> THEN 1 + TurnsLeft * (MaxRequests + 1)
    ELSE 1 + (TurnsLeft - 1) * (MaxRequests + 1) + Len(requests)

\* The loop always has a step limit, and a turn's calls are bounded.
LoopBounded ==
    /\ engine = "loop" => limit.steps # NoLimit
    /\ Len(requests) <= MaxRequests

WorkInv == ExecInv /\ LoopBounded

\* The execution's steps use up its work; a human's decision leaves it alone.
Nearer ==
    /\ WorkLeft \in Nat /\ WorkLeft' \in Nat
    /\ Execution => WorkLeft' < WorkLeft
    /\ ~Execution => WorkLeft' = WorkLeft

\* One turn less leaves room for the calls of a turn and one.
LEMMA OneTurn ==
    ASSUME NEW t \in Nat, t > 0, NEW k \in Nat
    PROVE  /\ t - 1 \in Nat
           /\ t * k \in Nat /\ (t - 1) * k \in Nat
           /\ t * k = (t - 1) * k + k
<1>1. t - 1 \in Nat /\ t = (t - 1) + 1
  BY SMT
<1>2. \A n \in Nat : n * k \in Nat /\ (n + 1) * k = n * k + k
  BY SMT
<1>3. QED
  BY <1>1, <1>2

\* The work of a loop is a number, and what the turns add to it.
LEMMA LoopWork ==
    ASSUME WorkInv, Running, engine = "loop"
    PROVE  /\ TurnsLeft \in Nat /\ limit.steps \in Int /\ index \in Nat
           /\ TurnsLeft > 0 <=> index < limit.steps
           /\ requests # <<>> => TurnsLeft > 0
           /\ Len(requests) \in Nat /\ Len(requests) <= MaxRequests
           /\ MaxRequests + 1 \in Nat
           /\ requests = <<>> => WorkLeft = 1 + TurnsLeft * (MaxRequests + 1)
           /\ requests # <<>> => WorkLeft = 1 + (TurnsLeft - 1) * (MaxRequests + 1)
                                            + Len(requests)
           /\ WorkLeft \in Nat
<1>1. limit.steps # NoLimit /\ Len(requests) <= MaxRequests
  BY DEF WorkInv, LoopBounded
<1>2. RunTypes /\ RunInv
  BY InvParts DEF WorkInv
<1>3. limit.steps \in Int /\ index \in Nat /\ requests \in Seq(Tools)
  BY <1>1, <1>2, LimitTypes DEF RunTypes
<1>4. TurnsLeft \in Nat /\ (TurnsLeft > 0 <=> index < limit.steps)
  BY <1>3 DEF TurnsLeft
<1>5. requests # <<>> => index < limit.steps
  BY <1>1, <1>2 DEF RunInv, Underway
<1>6. MaxRequests + 1 \in Nat /\ Len(requests) \in Nat
  BY <1>3, ExecutionAssumption
<1>7. engine # "plan"
  OBVIOUS
<1>8. /\ requests = <<>> => WorkLeft = 1 + TurnsLeft * (MaxRequests + 1)
      /\ requests # <<>> => WorkLeft = 1 + (TurnsLeft - 1) * (MaxRequests + 1)
                                       + Len(requests)
  BY <1>7, Zenon DEF WorkLeft
<1>9. CASE requests = <<>>
  <2>1. TurnsLeft * (MaxRequests + 1) \in Nat
    BY <1>4, <1>6
  <2>2. WorkLeft \in Nat
    BY <1>8, <1>9, <2>1
  <2>3. QED
    BY <1>1, <1>3, <1>4, <1>5, <1>6, <1>8, <2>2
<1>10. CASE requests # <<>>
  <2>1. TurnsLeft > 0
    BY <1>4, <1>5, <1>10
  <2>2. (TurnsLeft - 1) * (MaxRequests + 1) \in Nat
    BY <1>4, <1>6, <2>1, OneTurn
  <2>3. WorkLeft \in Nat
    BY <1>6, <1>8, <1>10, <2>2
  <2>4. QED
    BY <1>1, <1>3, <1>4, <1>5, <1>6, <1>8, <2>1, <2>3
<1>11. QED
  BY <1>9, <1>10

\* So is the work of a plan.
LEMMA PlanWork ==
    ASSUME WorkInv, Running, engine = "plan"
    PROVE  /\ index \in Nat /\ Len(Plan) \in Nat /\ index <= Len(Plan)
           /\ WorkLeft = 1 + (Len(Plan) - index)
           /\ WorkLeft \in Nat
<1>1. RunTypes /\ RunInv
  BY InvParts DEF WorkInv
<1>2. index \in Nat /\ index <= Len(Plan)
  BY <1>1 DEF RunTypes, RunInv, Underway
<1>3. Len(Plan) \in Nat
  BY PlanShape
<1>4. WorkLeft = 1 + (Len(Plan) - index)
  BY Zenon DEF WorkLeft
<1>5. QED
  BY <1>2, <1>3, <1>4

LEMMA WorkIsNumber == WorkInv => WorkLeft \in Nat
<1> SUFFICES ASSUME WorkInv PROVE WorkLeft \in Nat
  OBVIOUS
<1>1. engine \in {"plan", "loop"}
  BY DEF WorkInv, ExecInv, TypeOK
<1>2. CASE ~Running
  BY <1>2 DEF WorkLeft
<1>3. CASE Running
  BY <1>1, <1>3, LoopWork, PlanWork
<1>4. QED
  BY <1>2, <1>3

\* A concluded execution has no work left.
LEMMA NoWork ==
    ASSUME WorkInv, Running, result'.status # "running"
    PROVE  WorkLeft' < WorkLeft
<1>1. engine \in {"plan", "loop"}
  BY DEF WorkInv, ExecInv, TypeOK
<1>2. WorkLeft' = 0
  BY DEF WorkLeft, Running
<1>3. CASE engine = "plan"
  BY <1>2, <1>3, PlanWork
<1>4. CASE engine = "loop"
  <2>1. CASE requests = <<>>
    <3>1. TurnsLeft * (MaxRequests + 1) \in Nat
      BY <1>4, LoopWork
    <3>2. QED
      BY <1>2, <1>4, <2>1, <3>1, LoopWork
  <2>2. CASE requests # <<>>
    <3>1. (TurnsLeft - 1) * (MaxRequests + 1) \in Nat
      BY <1>4, <2>2, LoopWork, OneTurn
    <3>2. QED
      BY <1>2, <1>4, <2>2, <3>1, LoopWork
  <2>3. QED
    BY <2>1, <2>2
<1>5. QED
  BY <1>1, <1>3, <1>4

\* Saving a result concludes the execution.
LEMMA SavedIsNearer ==
    ASSUME WorkInv, Running,
           NEW status \in Statuses, NEW out, NEW error,
           Conclude(status, out, error) \/ Lose(error)
    PROVE  WorkLeft' < WorkLeft
<1>1. status # "running"
  BY DEF Statuses
<1>2. CASE Conclude(status, out, error)
  BY <1>1, <1>2, NoWork DEF Conclude
<1>3. CASE Lose(error)
  BY <1>3, NoWork DEF Lose
<1>4. QED
  BY <1>2, <1>3

\* Going one step on in the plan.
LEMMA PlanStepIsNearer ==
    ASSUME WorkInv, Running, engine = "plan", index < Len(Plan), index' = index + 1,
           UNCHANGED <<startVars, result>>
    PROVE  WorkLeft' < WorkLeft
<1>1. Running' /\ engine' = "plan" /\ Len(Plan)' = Len(Plan)
  BY DEF Running, startVars, Plan
<1>2. WorkLeft' = 1 + (Len(Plan) - (index + 1))
  BY <1>1, Zenon DEF WorkLeft
<1>3. QED
  BY <1>2, PlanWork

\* Requesting the calls of a turn uses the turn up.
LEMMA RequestToolsNearer ==
    ASSUME WorkInv, RequestTools
    PROVE  WorkLeft' < WorkLeft /\ Len(requests') <= MaxRequests
<1>1. RunTypes
  BY InvParts DEF WorkInv
<1>2. Running /\ engine = "loop" /\ requests = <<>>
  BY <1>1, AtTurnFacts DEF RequestTools
<1>3. limit.steps # NoLimit
  BY <1>2 DEF WorkInv, LoopBounded
<1>4. index < limit.steps
  BY <1>1, <1>3, AtTurnFacts DEF RequestTools
<1>5. PICK n \in 1..MaxRequests : requests' \in [1..n -> Tools]
  BY DEF RequestTools, RequestLists
<1>6. n \in Nat /\ 1 <= n /\ n <= MaxRequests /\ MaxRequests \in Nat
  BY <1>5, ExecutionAssumption
<1>7. Len(requests') = n /\ requests' # <<>>
  BY <1>5, <1>6
<1>8. Running' /\ engine' # "plan" /\ TurnsLeft' = TurnsLeft
  BY <1>2 DEF RequestTools, Running, startVars, TurnsLeft
<1>9. WorkLeft' = 1 + (TurnsLeft - 1) * (MaxRequests + 1) + n
  <2>1. WorkLeft' = 1 + (TurnsLeft' - 1) * (MaxRequests + 1) + Len(requests')
    BY <1>7, <1>8, Zenon DEF WorkLeft
  <2>2. QED
    BY <1>7, <1>8, <2>1
<1>10. /\ WorkLeft = 1 + TurnsLeft * (MaxRequests + 1)
       /\ TurnsLeft \in Nat /\ TurnsLeft > 0 /\ MaxRequests + 1 \in Nat
  BY <1>2, <1>4, LoopWork
<1>11. /\ (TurnsLeft - 1) * (MaxRequests + 1) \in Nat
       /\ TurnsLeft * (MaxRequests + 1)
            = (TurnsLeft - 1) * (MaxRequests + 1) + (MaxRequests + 1)
  BY <1>10, OneTurn
<1> DEFINE rest == (TurnsLeft - 1) * (MaxRequests + 1)
<1>12. /\ WorkLeft' = 1 + rest + n
       /\ WorkLeft = 1 + (rest + (MaxRequests + 1))
       /\ rest \in Nat
  BY <1>9, <1>10, <1>11
<1> HIDE DEF rest
<1>13. QED
  BY <1>6, <1>7, <1>12

\* An executed request is gone; with the last one of a turn, so is the turn.
LEMMA ExecuteRequestNearer ==
    ASSUME WorkInv, ExecuteRequest
    PROVE  WorkLeft' < WorkLeft /\ Len(requests') <= MaxRequests
<1>1. Running /\ engine = "loop" /\ requests # <<>>
  BY DEF ExecuteRequest
<1>2. UNCHANGED <<startVars, modelVars>>
  BY DEF ExecuteRequest
<1>3. MaxRequests \in Nat
  BY ExecutionAssumption
<1>4. requests \in Seq(Tools)
  BY DEF WorkInv, ExecInv, TypeOK
<1>5. PICK end \in CallEnds(Head(requests)) :
         IF end \in {"returned", "pending"}
         THEN /\ requests' = Tail(requests)
              /\ IF Tail(requests) = <<>>
                 THEN /\ steps' = Append(steps, Step("tool_call", "completed"))
                      /\ index' = index + 1
                 ELSE UNCHANGED <<steps, index>>
              /\ UNCHANGED <<output, result>>
         ELSE Lose(ErrorOf(end)) /\ UNCHANGED index
  BY Zenon DEF ExecuteRequest
<1>6. CASE end \notin {"returned", "pending"}
  <2>1. Lose(ErrorOf(end))
    BY <1>5, <1>6, Zenon
  <2>2. "failed" \in Statuses
    BY DEF Statuses
  <2>3. WorkLeft' < WorkLeft
    BY <1>1, <2>1, <2>2, SavedIsNearer
  <2>4. requests' = <<>>
    BY <2>1 DEF Lose
  <2>5. QED
    BY <1>3, <2>3, <2>4
<1>7. CASE end \in {"returned", "pending"}
  <2> DEFINE rest == (TurnsLeft - 1) * (MaxRequests + 1)
  <2>1. /\ requests' = Tail(requests) /\ result' = result
        /\ Tail(requests) = <<>> => index' = index + 1
        /\ Tail(requests) # <<>> => index' = index
    BY <1>5, <1>7
  <2>2. /\ Tail(requests) \in Seq(Tools) /\ Len(requests) \in Nat
        /\ Len(Tail(requests)) = Len(requests) - 1
        /\ Tail(requests) = <<>> => Len(requests) = 1
    <3>1. Tail(requests) \in Seq(Tools) /\ Len(requests) \in Nat
      BY <1>1, <1>4
    <3>2. Len(Tail(requests)) = Len(requests) - 1
      BY <1>1, <1>4
    <3>3. Tail(requests) = <<>> => Len(Tail(requests)) = 0
      <4>1. Len(<<>>) = 0
        OBVIOUS
      <4>2. QED
        BY <4>1, Zenon
    <3>4. QED
      BY <3>1, <3>2, <3>3
  <2>3. Running' /\ engine' # "plan" /\ limit' = limit
    BY <1>1, <1>2, <2>1 DEF Running, startVars
  <2>4. /\ Len(requests) <= MaxRequests
        /\ TurnsLeft \in Nat /\ TurnsLeft > 0 /\ limit.steps \in Int /\ index \in Nat
        /\ MaxRequests + 1 \in Nat /\ index < limit.steps
        /\ WorkLeft = 1 + rest + Len(requests)
    BY <1>1, LoopWork
  <2>5. rest \in Nat
    BY <2>4, OneTurn
  <2>6. CASE Tail(requests) = <<>>
    <3>1. TurnsLeft' = TurnsLeft - 1
      <4>1. TurnsLeft = limit.steps - index
        BY <2>4 DEF TurnsLeft
      <4>2. TurnsLeft' = IF limit.steps > index + 1 THEN limit.steps - (index + 1) ELSE 0
        BY <2>1, <2>3, <2>6 DEF TurnsLeft
      <4> HIDE DEF rest
      <4>3. limit.steps > index + 1 \/ limit.steps = index + 1
        BY <2>4
      <4>4. CASE limit.steps > index + 1
        BY <2>4, <4>1, <4>2, <4>4
      <4>5. CASE limit.steps = index + 1
        BY <2>4, <4>1, <4>2, <4>5
      <4>6. QED
        BY <4>3, <4>4, <4>5
    <3>2. WorkLeft' = 1 + TurnsLeft' * (MaxRequests + 1)
      BY <2>1, <2>3, <2>6, Zenon DEF WorkLeft
    <3>3. WorkLeft' = 1 + rest
      BY <3>1, <3>2
    <3> HIDE DEF rest
    <3>4. QED
      BY <1>3, <2>1, <2>2, <2>4, <2>5, <2>6, <3>3
  <2>7. CASE Tail(requests) # <<>>
    <3>1. TurnsLeft' = TurnsLeft
      BY <2>1, <2>3, <2>7 DEF TurnsLeft
    <3>2. WorkLeft' = 1 + (TurnsLeft' - 1) * (MaxRequests + 1) + Len(requests')
      BY <2>1, <2>3, <2>7, Zenon DEF WorkLeft
    <3>3. WorkLeft' = 1 + rest + (Len(requests) - 1)
      BY <2>1, <2>2, <3>1, <3>2
    <3> HIDE DEF rest
    <3>4. QED
      BY <1>3, <2>1, <2>2, <2>4, <2>5, <3>3
  <2>8. QED
    BY <2>6, <2>7
<1>8. QED
  BY <1>6, <1>7

\* Every step of an execution uses up some of its work.
LEMMA ExecutionNearer ==
    ASSUME WorkInv, Execution
    PROVE  WorkLeft' < WorkLeft /\ LoopBounded'
<1>1. RunTypes
  BY InvParts DEF WorkInv
<1>2. {"failed", "completed", "pending_approval", "max_steps", "max_tokens"}
        \subseteq Statuses
  BY DEF Statuses
<1>3. Len(requests) <= MaxRequests /\ MaxRequests \in Nat
  BY ExecutionAssumption DEF WorkInv, LoopBounded
<1>4. UNCHANGED startVars => (engine' = "loop" => limit.steps' # NoLimit)
  BY DEF WorkInv, LoopBounded, startVars
<1>5. ASSUME UNCHANGED startVars, requests' \in {requests, <<>>}
      PROVE  LoopBounded'
  BY <1>3, <1>4, <1>5 DEF LoopBounded
<1>6. CASE Understand
  BY <1>1, <1>5, <1>6, AtStepFacts, PlanStepIsNearer DEF Understand, AtStep
<1>7. CASE ProduceOutput
  BY <1>1, <1>5, <1>7, AtStepFacts, PlanStepIsNearer DEF ProduceOutput, AtStep
<1>8. CASE ProduceOutputFails
  <2>1. Running
    BY <1>8 DEF ProduceOutputFails, AtStep
  <2>2. PICK e \in ModelErrors : Conclude("failed", output, e)
    BY <1>8 DEF ProduceOutputFails
  <2>3. QED
    BY <1>2, <1>5, <1>8, <2>1, <2>2, SavedIsNearer DEF ProduceOutputFails
<1>9. CASE WriteNote
  <2>1. /\ Running /\ engine = "plan" /\ index < Len(Plan)
        /\ UNCHANGED <<startVars, requests>>
    BY <1>9 DEF WriteNote, AtStep
  <2>2. PICK end \in CallEnds(NoteTool) :
           CASE end = "returned" ->
                  /\ steps' = Append(steps, Step("tool_call", "completed"))
                  /\ index' = index + 1
                  /\ UNCHANGED <<output, result>>
             [] end = "pending" ->
                  /\ steps' = Append(steps, Step("tool_call", "pending_approval"))
                  /\ Conclude("pending_approval", output, "none")
                  /\ UNCHANGED index
             [] OTHER ->
                  /\ steps' = Append(steps, Step("tool_call", "failed"))
                  /\ Conclude("failed", output, ErrorOf(end))
                  /\ UNCHANGED index
    BY <1>9, Zenon DEF WriteNote
  <2>3. CASE end = "returned"
    <3>1. index' = index + 1 /\ UNCHANGED result
      BY <2>2, <2>3
    <3>2. QED
      BY <1>5, <2>1, <3>1, PlanStepIsNearer
  <2>4. CASE end = "pending"
    <3>1. Conclude("pending_approval", output, "none")
      BY <2>2, <2>4
    <3>2. QED
      BY <1>2, <1>5, <2>1, <3>1, SavedIsNearer
  <2>5. CASE end \notin {"returned", "pending"}
    <3>1. Conclude("failed", output, ErrorOf(end))
      BY <2>2, <2>5
    <3>2. QED
      BY <1>2, <1>5, <2>1, <3>1, SavedIsNearer
  <2>6. QED
    BY <2>3, <2>4, <2>5
<1>10. CASE CompletePlan
  BY <1>2, <1>5, <1>10, SavedIsNearer DEF CompletePlan
<1>11. CASE RequestTools
  <2>1. WorkLeft' < WorkLeft /\ Len(requests') <= MaxRequests
    BY <1>11, RequestToolsNearer
  <2>2. QED
    BY <1>4, <1>11, <2>1 DEF RequestTools, LoopBounded
<1>12. CASE AnswerFinally
  <2>1. PICK out \in {"valid", "invalid"} : Conclude("completed", out, "none")
    BY <1>12 DEF AnswerFinally
  <2>2. QED
    BY <1>1, <1>2, <1>5, <1>12, <2>1, AtTurnFacts, SavedIsNearer DEF AnswerFinally
<1>13. CASE LoopModelFails
  <2>1. PICK e \in ModelErrors : Lose(e)
    BY <1>13 DEF LoopModelFails
  <2>2. requests' = <<>> /\ UNCHANGED startVars
    BY <1>13, <2>1 DEF LoopModelFails, Lose
  <2>3. QED
    BY <1>1, <1>2, <1>5, <1>13, <2>1, <2>2, AtTurnFacts, SavedIsNearer DEF LoopModelFails
<1>14. CASE ExecuteRequest
  <2>1. WorkLeft' < WorkLeft /\ Len(requests') <= MaxRequests
    BY <1>14, ExecuteRequestNearer
  <2>2. QED
    BY <1>4, <1>14, <2>1 DEF ExecuteRequest, LoopBounded
<1>15. CASE RunOut
  <2>1. Running /\ UNCHANGED <<startVars, requests>>
    BY <1>15 DEF RunOut
  <2>2. \/ Conclude("max_steps", output, "none")
        \/ Conclude("max_tokens", output, "none")
    BY <1>15 DEF RunOut
  <2>3. QED
    BY <1>2, <1>5, <2>1, <2>2, SavedIsNearer
<1>16. QED
  BY <1>6, <1>7, <1>8, <1>9, <1>10, <1>11, <1>12, <1>13, <1>14, <1>15 DEF Execution

\* What leaves the run as it is leaves its work as it is.
LEMMA WorkStays ==
    ASSUME WorkInv, UNCHANGED <<startVars, index, requests, result>>
    PROVE  WorkLeft' = WorkLeft /\ LoopBounded'
<1>1. TurnsLeft' = TurnsLeft /\ Running' = Running /\ Plan' = Plan /\ engine' = engine
  BY DEF startVars, TurnsLeft, Running, Plan
<1>2. WorkLeft' = WorkLeft
  BY <1>1 DEF WorkLeft
<1>3. QED
  BY <1>2 DEF WorkInv, LoopBounded, startVars

LEMMA WorkInit == Init => WorkInv
<1> SUFFICES ASSUME Init PROVE WorkInv
  OBVIOUS
<1>1. Len(requests) = 0
  BY DEF Init
<1>2. QED
  BY <1>1, InvInit, ExecutionAssumption DEF Init, WorkInv, LoopBounded

LEMMA WorkStep ==
    WorkInv /\ [Next]_vars =>
        /\ WorkInv'
        /\ Execution => WorkLeft' < WorkLeft
        /\ ~Execution => WorkLeft' = WorkLeft
<1> SUFFICES ASSUME WorkInv, [Next]_vars
             PROVE  /\ WorkInv'
                    /\ Execution => WorkLeft' < WorkLeft
                    /\ ~Execution => WorkLeft' = WorkLeft
  OBVIOUS
<1>1. ExecInv'
  BY InvNext DEF WorkInv
<1>2. CASE Execution
  BY <1>1, <1>2, ExecutionNearer DEF WorkInv
<1>3. CASE ~Execution
  <2>1. UNCHANGED <<startVars, index, requests, result>>
    BY <1>3 DEF Next, Decide, vars, startVars
  <2>2. QED
    BY <1>1, <1>3, <2>1, WorkStays DEF WorkInv
<1>4. QED
  BY <1>2, <1>3

\* Every step of an execution uses up some of a finite amount of work, and no
\* decision of a human gives any back: whatever the model requests, however
\* the tools behave and whatever is approved, an execution that goes on ends.
THEOREM ExecutionRunsOut == Spec => [][Nearer]_vars
<1>1. WorkInv /\ [Next]_vars => WorkInv'
  BY WorkStep
<1>2. WorkInv => WorkLeft \in Nat
  BY WorkIsNumber
<1>3. /\ WorkInv /\ [Next]_vars
      /\ WorkLeft \in Nat /\ (WorkLeft \in Nat)'
      => [Nearer]_vars
  BY WorkStep DEF Nearer
<1>4. QED
  BY <1>1, <1>2, <1>3, WorkInit, PTL DEF Spec

=============================================================================
