--------------------------- MODULE ModelCallsProofs ---------------------------
(***************************************************************************)
(* Theorems about the requests that call a model provider, for any number  *)
(* of requests, tenants and keys, any settings and any reply: their types, *)
(* the budget of the loop context and which prior summaries it keeps, what *)
(* the critic reports, whom a run and its judgement belong to, and that    *)
(* every request uses up its work.                                         *)
(***************************************************************************)
EXTENDS ModelCalls, FiniteSetTheorems, TLAPS

Stages == {"idle", "truncate", "complete", "summarise", "ask", "call", "save", "over"}

Answers == {"none", "400", "401", "403", "404", "409", "422", "500", "502", "200"}

-----------------------------------------------------------------------------
(* The parts of the inductive invariant.                                   *)

\* The locals of a loop context count what was included.
ContextAdds(c) ==
    /\ c.included <= Len(c.summaries)
    /\ c.included = 0 => c.length = c.base
    /\ c.included = 0 /\ c # NoContext => c.remaining = c.budget - c.base - Header
    /\ c.included > 0 => c.length + c.remaining = c.budget /\ c.remaining >= 0

\* The row of a run that is not answered yet.
RunKept(p) ==
    /\ pc[p] = "idle" => runs[p].status = "none"
    /\ pc[p] \in {"truncate", "complete", "summarise"} => runs[p].status = "running"
    /\ runs[p].status # "none" /\ settings.auth =>
         \/ runs[p].key \in settings.admins
         \/ runs[p].tenant = settings.tenantOf[runs[p].key]

\* The attempts of a critic: none, one to retry, or the last.
CriticKept(p) ==
    LET c == critic[p] IN
    /\ pc[p] \in {"idle", "ask", "over"}
    /\ ~c.lost
    /\ pc[p] \in {"idle", "ask"} =>
         (c.tries = 0 /\ c.last = "none") \/ (c.tries = 1 /\ Retried(c.last))
    /\ pc[p] # "over" => answer[p] = "none"
    /\ pc[p] = "over" =>
         /\ answer[p] = "502" <=> c.tries = 2 /\ Retried(c.last)
         /\ answer[p] \in {"200", "500"} <=> CriticAccepts(c.last) \/ c.last = "null"
         /\ answer[p] = "200" => CriticAccepts(c.last)
         /\ answer[p] = "500" => c.last \in {"null", "nan"}

\* What a judge holds.
JudgeKept(p) ==
    LET j == judge[p] IN
    j.of # "none" =>
        /\ runs[j.of].status # "none"
        /\ settings.auth => \/ j.key \in settings.admins
                            \/ runs[j.of].tenant = settings.tenantOf[j.key]

CallsInv ==
    /\ TypeOK
    /\ \A p \in Runners : ContextAdds(context[p]) /\ RunKept(p)
    /\ \A p \in Critics : CriticKept(p)
    /\ \A p \in Judges : JudgeKept(p)

-----------------------------------------------------------------------------
(* Types of the operators.                                                 *)

LEMMA ThreadsApart ==
    /\ Runners \subseteq Threads /\ Critics \subseteq Threads /\ Judges \subseteq Threads
    /\ \A p \in Runners : p \notin Critics /\ p \notin Judges
    /\ \A p \in Critics : p \notin Runners /\ p \notin Judges
    /\ \A p \in Judges : p \notin Runners /\ p \notin Critics
BY ModelCallsAssumption DEF Threads

LEMMA GotoType ==
    ASSUME TypeOK, NEW p \in Threads, NEW at \in Stages, Goto(p, at)
    PROVE  pc' \in [Threads -> Stages] /\ answer' \in [Threads -> Answers]
BY DEF TypeOK, Goto, Stages, Answers

LEMMA AnswerType ==
    ASSUME TypeOK, NEW p \in Threads, NEW what \in Answers, Answer(p, what)
    PROVE  pc' \in [Threads -> Stages] /\ answer' \in [Threads -> Answers]
BY DEF TypeOK, Answer, Stages, Answers

\* A thread that moves or is answered leaves the others where they are.
LEMMA OthersStay ==
    ASSUME TypeOK, NEW p \in Threads,
           \/ \E at \in Stages : Goto(p, at)
           \/ \E what \in Answers : Answer(p, what)
    PROVE  \A q \in Threads \ {p} : pc'[q] = pc[q] /\ answer'[q] = answer[q]
BY DEF TypeOK, Goto, Answer

LEMMA TextsType ==
    ASSUME settings \in Settings, NEW reply \in Replies
    PROVE  CompleteSimple(reply) \in Texts
BY DEF Settings, Providers, CompleteSimple, ChatText, Texts, Replies

\* A null text comes from a chat provider.
LEMMA SummariesType ==
    ASSUME NEW s \in Summaries
    PROVE  s \in Seq(Lengths) /\ Len(s) \in Nat
BY ModelCallsAssumption DEF Summaries

LEMMA OutcomesType ==
    ASSUME NEW text \in Texts, NEW outcome \in Outcomes(text)
    PROVE  outcome \in Outcome
<1> DEFINE scores == IF text = "nan" THEN {"high"} ELSE {"low", "high"}
<1>1. CASE JudgeAccepts(text)
  <2>1. outcome \in [passed : BOOLEAN, reply : {text}, score : scores]
    BY <1>1 DEF Outcomes
  <2>2. outcome.reply = text /\ scores \subseteq {"low", "high"}
    BY <2>1
  <2>3. outcome \in Outcome
    BY <2>1, <2>2 DEF Outcome
  <2>4. QED
    BY <1>1, <2>2, <2>3
<1>2. CASE ~JudgeAccepts(text)
  <2>1. outcome = [passed |-> FALSE, score |-> "low", reply |-> text]
    BY <1>2 DEF Outcomes
  <2>2. ~outcome.passed /\ outcome.score = "low" /\ outcome \in Outcome
    BY <2>1 DEF Outcome
  <2>3. QED
    BY <2>2
<1>3. QED
  BY <1>1, <1>2

-----------------------------------------------------------------------------
(* The initial states.                                                     *)

LEMMA CallsInit == Init => CallsInv
<1> SUFFICES ASSUME Init PROVE CallsInv
  OBVIOUS
<1> USE ModelCallsAssumption
<1>1. NoContext \in Context /\ NoRun \in Run /\ NoAttempt \in Attempts
  BY DEF NoContext, Context, NoRun, Run, NoAttempt, Attempts
<1>2. NoJudge \in Judgement
  BY DEF NoJudge, Judgement, Outcome, Texts
<1>3. TypeOK
  BY <1>1, <1>2 DEF Init, TypeOK
<1>4. \A p \in Runners : ContextAdds(context[p])
  BY DEF Init, ContextAdds, NoContext
<1>5. \A p \in Threads : pc[p] = "idle" /\ answer[p] = "none"
  BY DEF Init
<1>6. \A p \in Runners : RunKept(p)
  BY <1>5, ThreadsApart DEF Init, RunKept, NoRun
<1>7. \A p \in Critics : CriticKept(p)
  BY <1>5, ThreadsApart DEF Init, CriticKept, NoAttempt, Retried, CriticAccepts
<1>8. ASSUME NEW p \in Judges PROVE JudgeKept(p)
  <2>1. judge[p] = NoJudge /\ evaluations = {} /\ pc[p] = "idle" /\ answer[p] = "none"
    BY <1>5, ThreadsApart DEF Init
  <2>2. NoJudge.of = "none" /\ NoJudge.outcome.score = "low" /\ ~NoJudge.outcome.passed
    BY DEF NoJudge
  <2>3. QED
    BY <2>1, <2>2 DEF JudgeKept
<1>9. QED
  BY <1>3, <1>4, <1>6, <1>7, <1>8 DEF CallsInv

-----------------------------------------------------------------------------
(* What a step leaves alone.                                               *)

LEMMA ContextsStay ==
    ASSUME CallsInv, UNCHANGED context
    PROVE  \A q \in Runners : ContextAdds(context[q])'
BY DEF CallsInv, ContextAdds

\* A run that no step moves keeps its row and its answer.
LEMMA RunStays ==
    ASSUME CallsInv, UNCHANGED settings, NEW q \in Runners,
           pc'[q] = pc[q], answer'[q] = answer[q], runs'[q] = runs[q]
    PROVE  RunKept(q)'
BY DEF CallsInv, RunKept

LEMMA CriticStays ==
    ASSUME CallsInv, NEW q \in Critics,
           pc'[q] = pc[q], answer'[q] = answer[q], critic'[q] = critic[q]
    PROVE  CriticKept(q)'
BY DEF CallsInv, CriticKept, Retried, CriticAccepts

\* A judge that no step moves, while runs only begin and end.
LEMMA JudgeStays ==
    ASSUME CallsInv, UNCHANGED settings, NEW q \in Judges, judge'[q] = judge[q],
           \A r \in Runners : runs[r].status # "none" =>
                runs'[r].status # "none" /\ runs'[r].tenant = runs[r].tenant
    PROVE  JudgeKept(q)'
<1>1. judge[q].of # "none" => judge[q].of \in Runners
  BY DEF CallsInv, TypeOK, Judgement
<1>2. JudgeKept(q)
  BY DEF CallsInv
<1>3. QED
  BY <1>1, <1>2 DEF JudgeKept

\* One thread moved.
Moves(p) ==
    \/ \E at \in Stages : Goto(p, at)
    \/ \E what \in Answers : Answer(p, what)

\* A step of a run keeps the invariant if it keeps the run's own part.
LEMMA RunnerStep ==
    ASSUME CallsInv, NEW p \in Runners, Moves(p), TypeOK',
           UNCHANGED <<settings, critic, judge, evaluations>>,
           \A q \in Runners \ {p} : context'[q] = context[q] /\ runs'[q] = runs[q],
           ContextAdds(context[p])', RunKept(p)',
           runs[p].status # "none" =>
                runs'[p].status # "none" /\ runs'[p].tenant = runs[p].tenant
    PROVE  CallsInv'
<1>1. \A q \in Threads \ {p} : pc'[q] = pc[q] /\ answer'[q] = answer[q]
  BY OthersStay, ThreadsApart DEF Moves, CallsInv
<1>2. \A q \in Runners \ {p} : ContextAdds(context[q])'
  BY DEF CallsInv, ContextAdds
<1>3. \A q \in Runners \ {p} : RunKept(q)'
  BY <1>1, RunStays, ThreadsApart
<1>4. \A q \in Critics : CriticKept(q)'
  BY <1>1, CriticStays, ThreadsApart
<1>5. \A q \in Judges : JudgeKept(q)'
  BY <1>1, JudgeStays, ThreadsApart
<1>6. QED
  BY <1>2, <1>3, <1>4, <1>5 DEF CallsInv

\* A step of the critic keeps it if it keeps the critic's part.
LEMMA CriticStep ==
    ASSUME CallsInv, NEW p \in Critics, Moves(p), TypeOK',
           UNCHANGED <<settings, context, runs, judge, evaluations>>,
           \A q \in Critics \ {p} : critic'[q] = critic[q],
           CriticKept(p)'
    PROVE  CallsInv'
<1>1. \A q \in Threads \ {p} : pc'[q] = pc[q] /\ answer'[q] = answer[q]
  BY OthersStay, ThreadsApart DEF Moves, CallsInv
<1>2. \A q \in Runners : ContextAdds(context[q])'
  BY ContextsStay
<1>3. \A q \in Runners : RunKept(q)'
  BY <1>1, RunStays, ThreadsApart
<1>4. \A q \in Critics \ {p} : CriticKept(q)'
  BY <1>1, CriticStays, ThreadsApart
<1>5. \A q \in Judges : JudgeKept(q)'
  BY <1>1, JudgeStays, ThreadsApart
<1>6. QED
  BY <1>2, <1>3, <1>4, <1>5 DEF CallsInv

\* A step of a judge keeps it if it keeps the judge's part.
LEMMA JudgeStep ==
    ASSUME CallsInv, NEW p \in Judges, Moves(p), TypeOK',
           UNCHANGED <<settings, context, runs, critic>>,
           \A q \in Judges \ {p} :
                judge'[q] = judge[q],
           JudgeKept(p)'
    PROVE  CallsInv'
<1>1. \A q \in Threads \ {p} : pc'[q] = pc[q] /\ answer'[q] = answer[q]
  BY OthersStay, ThreadsApart DEF Moves, CallsInv
<1>2. \A q \in Runners : ContextAdds(context[q])'
  BY ContextsStay
<1>3. \A q \in Runners : RunKept(q)'
  BY <1>1, RunStays, ThreadsApart
<1>4. \A q \in Critics : CriticKept(q)'
  BY <1>1, CriticStays, ThreadsApart
<1>5. \A q \in Judges \ {p} : JudgeKept(q)'
  BY <1>1, JudgeStays, ThreadsApart
<1>6. QED
  BY <1>2, <1>3, <1>4, <1>5 DEF CallsInv

-----------------------------------------------------------------------------
(* Agent runs.                                                             *)

\* Whom the row of a new run belongs to.
LEMMA RunsOfTheirTenant ==
    ASSUME settings \in Settings, NEW key \in Keys \cup {NoKey}, NEW tenant \in Tenants,
           Known(key), MayUse(key, tenant), settings.auth
    PROVE  key \in settings.admins \/ tenant = settings.tenantOf[key]
BY DEF Known, MayUse, Admin, TenantOf

LEMMA RunAgentKeeps ==
    ASSUME CallsInv, NEW p \in Runners, NEW key \in Keys \cup {NoKey},
           NEW tenant \in Tenants, RunAgent(p, key, tenant)
    PROVE  CallsInv'
<1> USE ThreadsApart
<1>1. TypeOK /\ ContextAdds(context[p]) /\ RunKept(p) /\ pc[p] = "idle"
  BY DEF CallsInv, RunAgent, Begin
<1>2. /\ UNCHANGED <<settings, callers, context, critic, judge, evaluations>>
      /\ runs[p].status = "none"
  BY <1>1 DEF RunAgent, Begin, RunKept
<1>3. ContextAdds(context[p])'
  BY <1>1, <1>2 DEF ContextAdds
<1>4. ASSUME NEW what \in {"400", "401", "403", "409", "422"},
             Answer(p, what), UNCHANGED runs
      PROVE  CallsInv'
  <2>1. what \in Answers
    BY DEF Answers
  <2>2. pc' \in [Threads -> Stages] /\ answer' \in [Threads -> Answers] /\ Moves(p)
    BY <1>1, <1>4, <2>1, AnswerType DEF Moves
  <2>3. TypeOK'
    BY <1>1, <1>2, <1>4, <2>2 DEF TypeOK, Stages, Answers
  <2>4. RunKept(p)'
    BY <1>1, <1>2, <1>4 DEF RunKept, Answer, TypeOK
  <2>5. QED
    BY <1>2, <1>3, <1>4, <2>2, <2>3, <2>4, RunnerStep
<1>5. ASSUME Known(key), MayUse(key, tenant), NEW at \in {"truncate", "complete"},
             Goto(p, at),
             runs' = [runs EXCEPT ![p] = [status |-> "running", tenant |-> tenant,
                                          key |-> key]]
      PROVE  CallsInv'
  <2>1. at \in Stages
    BY DEF Stages
  <2>2. pc' \in [Threads -> Stages] /\ answer' \in [Threads -> Answers] /\ Moves(p)
    BY <1>1, <1>5, <2>1, GotoType DEF Moves
  <2>3. [status |-> "running", tenant |-> tenant, key |-> key] \in Run
    BY DEF Run
  <2>4. runs' \in [Runners -> Run]
    BY <1>1, <1>5, <2>3 DEF TypeOK
  <2>5. TypeOK'
    BY <1>1, <1>2, <2>2, <2>4 DEF TypeOK, Stages, Answers
  <2>6. runs'[p] = [status |-> "running", tenant |-> tenant, key |-> key] /\ pc'[p] = at
    BY <1>1, <1>5 DEF TypeOK, Goto
  <2>7. settings.auth => key \in settings.admins \/ tenant = settings.tenantOf[key]
    BY <1>1, <1>5, RunsOfTheirTenant DEF TypeOK
  <2>8. RunKept(p)'
    BY <1>2, <2>6, <2>7 DEF RunKept
  <2>9. \A q \in Runners \ {p} : runs'[q] = runs[q]
    BY <1>1, <1>5 DEF TypeOK
  <2>10. QED
    BY <1>2, <1>3, <2>2, <2>5, <2>8, <2>9, RunnerStep
<1>6. QED
  BY <1>4, <1>5 DEF RunAgent

\* A run that only works on its context keeps its row.
LEMMA ContextStep ==
    ASSUME CallsInv, NEW p \in Runners, pc[p] \in {"truncate", "complete"},
           NEW at \in {"truncate", "complete", "summarise"}, Goto(p, at),
           UNCHANGED <<settings, callers, runs, critic, judge, evaluations>>,
           NEW c \in Context, ContextAdds(c), context' = [context EXCEPT ![p] = c]
    PROVE  CallsInv'
<1> USE ThreadsApart
<1>1. TypeOK /\ RunKept(p) /\ at \in Stages
  BY DEF CallsInv, Stages
<1>2. pc' \in [Threads -> Stages] /\ answer' \in [Threads -> Answers] /\ Moves(p)
  BY <1>1, GotoType DEF Moves
<1>3. context' \in [Runners -> Context] /\ context'[p] = c
  BY <1>1 DEF TypeOK
<1>4. TypeOK'
  BY <1>1, <1>2, <1>3 DEF TypeOK, Stages, Answers
<1>5. pc'[p] = at
  BY <1>1 DEF Goto, TypeOK
<1>6. RunKept(p)'
  BY <1>1, <1>5 DEF RunKept
<1>7. ContextAdds(context[p])'
  BY <1>3 DEF ContextAdds
<1>8. \A q \in Runners \ {p} : context'[q] = context[q]
  BY <1>1 DEF TypeOK
<1>9. QED
  BY <1>2, <1>4, <1>6, <1>7, <1>8, RunnerStep

LEMMA BuildSectionKeeps ==
    ASSUME CallsInv, NEW p \in Runners, NEW budget \in Budgets, NEW base \in Bases,
           NEW summaries \in Summaries, BuildSection(p, budget, base, summaries)
    PROVE  CallsInv'
<1> DEFINE c == [budget |-> budget, base |-> base, summaries |-> summaries,
                 included |-> 0, remaining |-> Remaining(budget, base),
                 length |-> base]
<1>1. budget \in Int /\ base \in Nat /\ Header \in Nat
  BY ModelCallsAssumption
<1>2. summaries \in Seq(Lengths) /\ Len(summaries) \in Nat
  BY SummariesType
<1>3. c \in Context
  BY <1>1, <1>2 DEF Context, Remaining
<1>4. ContextAdds(c)
  BY <1>1, <1>2 DEF ContextAdds, Remaining
<1>5. context' = [context EXCEPT ![p] = c] /\ pc[p] = "truncate"
  BY DEF BuildSection
<1>6. PICK at \in {"truncate", "complete"} : Goto(p, at)
  BY DEF BuildSection
<1>7. QED
  BY <1>3, <1>4, <1>5, <1>6, ContextStep DEF BuildSection

\* The entry that is looked at next is one of the summaries.
LEMMA EntryType ==
    ASSUME NEW c \in Context, c.included < Len(c.summaries)
    PROVE  Entry(c) \in Nat \ {0}
<1>1. c.summaries \in Seq(Lengths) /\ c.included \in Nat
  BY DEF Context
<1>2. Len(c.summaries) - c.included \in 1..Len(c.summaries)
  BY <1>1
<1>3. c.summaries[Len(c.summaries) - c.included] \in Lengths
  BY <1>1, <1>2
<1>4. QED
  BY <1>3, ModelCallsAssumption DEF Entry

\* One more entry uses up what it is long; the first one also the header.
LEMMA EntryAdds ==
    ASSUME NEW c \in Context, ContextAdds(c), c # NoContext,
           c.included # Len(c.summaries), Fits(c),
           NEW d, d = [c EXCEPT !.included = @ + 1, !.remaining = @ - Entry(c),
                                !.length = @ + Entry(c)
                                             + (IF c.included = 0 THEN Header ELSE 0)]
    PROVE  d \in Context /\ ContextAdds(d)
<1> DEFINE add == IF c.included = 0 THEN Header ELSE 0
<1>1. /\ c.summaries \in Seq(Lengths) /\ c.included \in Nat /\ c.budget \in Int
      /\ c.base \in Nat /\ c.remaining \in Int /\ c.length \in Nat
      /\ Len(c.summaries) \in Nat
  BY DEF Context
<1>2. c.included < Len(c.summaries)
  BY <1>1 DEF ContextAdds
<1>3. Entry(c) \in Nat /\ Entry(c) > 0
  BY <1>2, EntryType
<1>4. Header \in Nat /\ add \in Nat
  BY ModelCallsAssumption
<1>5. d = [budget |-> c.budget, base |-> c.base, summaries |-> c.summaries,
           included |-> c.included + 1, remaining |-> c.remaining - Entry(c),
           length |-> c.length + Entry(c) + add]
  BY DEF Context
<1>6. d \in Context
  BY <1>1, <1>3, <1>4, <1>5 DEF Context
<1>7. c.remaining - Entry(c) >= 0
  BY <1>1, <1>3 DEF Fits
<1>8. c.length + add + c.remaining = c.budget
  <2>1. CASE c.included = 0
    BY <1>1, <1>4, <2>1 DEF ContextAdds
  <2>2. CASE c.included # 0
    BY <1>1, <2>2 DEF ContextAdds
  <2>3. QED
    BY <2>1, <2>2
<1>9. /\ d.included = c.included + 1 /\ d.summaries = c.summaries
      /\ d.budget = c.budget /\ d.remaining = c.remaining - Entry(c)
      /\ d.length = c.length + Entry(c) + add
  BY <1>5
<1>10. ContextAdds(d)
  <2>1. d.included > 0 /\ d.included # 0 /\ d.included <= Len(d.summaries)
    BY <1>1, <1>2, <1>9
  <2>2. d.length + d.remaining = d.budget
    BY <1>1, <1>3, <1>4, <1>8, <1>9
  <2>3. d.remaining >= 0
    BY <1>7, <1>9
  <2>4. QED
    BY <2>1, <2>2, <2>3 DEF ContextAdds
<1>11. QED
  BY <1>6, <1>10

LEMMA IncludeSummaryKeeps ==
    ASSUME CallsInv, NEW p \in Runners, IncludeSummary(p)
    PROVE  CallsInv'
<1> DEFINE c == context[p]
<1>1. c \in Context /\ ContextAdds(c) /\ context = [context EXCEPT ![p] = c]
  BY DEF CallsInv, TypeOK
<1>2. pc[p] = "truncate" /\ c # NoContext
      /\ UNCHANGED <<settings, callers, runs, critic, judge, evaluations>>
  BY DEF IncludeSummary
<1>3. CASE c.included = Len(c.summaries) \/ ~Fits(c)
  <2>1. Goto(p, "complete") /\ context' = [context EXCEPT ![p] = c]
    BY <1>1, <1>3 DEF IncludeSummary
  <2>2. QED
    BY <1>1, <1>2, <2>1, ContextStep
<1>4. CASE ~(c.included = Len(c.summaries) \/ ~Fits(c))
  <2> DEFINE d == [c EXCEPT !.included = @ + 1, !.remaining = @ - Entry(c),
                            !.length = @ + Entry(c)
                                         + (IF c.included = 0 THEN Header ELSE 0)]
  <2>1. Goto(p, "truncate") /\ context' = [context EXCEPT ![p] = d]
    BY <1>4 DEF IncludeSummary
  <2>2. d \in Context /\ ContextAdds(d)
    BY <1>1, <1>2, <1>4, EntryAdds
  <2>3. QED
    BY <1>2, <2>1, <2>2, ContextStep
<1>5. QED
  BY <1>3, <1>4

\* A run whose request is answered, and whose row is written or left as it is.
LEMMA RunEnds ==
    ASSUME CallsInv, NEW p \in Runners, pc[p] \in {"complete", "summarise"},
           NEW status \in {"running", "completed", "failed"},
           NEW what \in {"200", "400"}, Answer(p, what),
           runs' = [runs EXCEPT ![p].status = status],
           UNCHANGED <<settings, callers, critic, judge, evaluations>>,
           NEW c \in {context[p], NoContext}, context' = [context EXCEPT ![p] = c]
    PROVE  CallsInv'
<1> USE ThreadsApart
<1>1. TypeOK /\ RunKept(p) /\ ContextAdds(context[p]) /\ what \in Answers
  BY DEF CallsInv, Answers
<1>2. pc' \in [Threads -> Stages] /\ answer' \in [Threads -> Answers] /\ Moves(p)
  BY <1>1, AnswerType DEF Moves
<1>3. runs[p] \in Run /\ NoContext \in Context /\ context[p] \in Context
  BY <1>1, ModelCallsAssumption DEF TypeOK, NoContext, Context
<1>4. [runs[p] EXCEPT !.status = status] \in Run
  BY <1>3 DEF Run
<1>5. /\ runs' \in [Runners -> Run] /\ context' \in [Runners -> Context]
      /\ runs'[p] = [runs[p] EXCEPT !.status = status] /\ context'[p] = c
      /\ \A q \in Runners \ {p} : runs'[q] = runs[q] /\ context'[q] = context[q]
  BY <1>1, <1>3, <1>4 DEF TypeOK
<1>6. TypeOK'
  BY <1>1, <1>2, <1>5 DEF TypeOK, Stages, Answers
<1>7. /\ runs'[p].status = status /\ runs'[p].tenant = runs[p].tenant
      /\ runs'[p].key = runs[p].key /\ runs[p].status = "running"
  BY <1>1, <1>3, <1>5 DEF Run, RunKept
<1>8. pc'[p] = "over"
  BY <1>1 DEF TypeOK, Answer
<1>9. RunKept(p)'
  BY <1>1, <1>7, <1>8 DEF RunKept
<1>10. ContextAdds(NoContext)
  BY DEF ContextAdds, NoContext
<1>11. ContextAdds(context[p])'
  BY <1>1, <1>5, <1>10 DEF ContextAdds
<1>12. QED
  BY <1>2, <1>5, <1>6, <1>7, <1>9, <1>11, RunnerStep

LEMMA EndRunKeeps ==
    ASSUME CallsInv, NEW p \in Runners, pc[p] \in {"complete", "summarise"},
           NEW status \in {"completed", "failed"},
           EndRun(p, status) \/ (Answer(p, "400") /\ UNCHANGED runs),
           UNCHANGED <<settings, callers, critic, judge, evaluations>>,
           NEW c \in {context[p], NoContext}, context' = [context EXCEPT ![p] = c]
    PROVE  CallsInv'
<1>1. CASE Answer(p, "400") /\ UNCHANGED runs
  <2>1. runs \in [Runners -> Run] /\ runs[p] \in Run /\ runs[p].status = "running"
    BY DEF CallsInv, TypeOK, RunKept
  <2>2. [runs[p] EXCEPT !.status = "running"] = runs[p]
    BY <2>1 DEF Run
  <2>3. runs' = [runs EXCEPT ![p].status = "running"]
    BY <1>1, <2>1, <2>2
  <2>4. QED
    BY <1>1, <2>3, RunEnds
<1>2. ASSUME NEW what \in {"200", "400"}, Answer(p, what),
             runs' = [runs EXCEPT ![p].status = status]
      PROVE  CallsInv'
  BY <1>2, RunEnds
<1>3. QED
  BY <1>1, <1>2 DEF EndRun

LEMMA CompleteRunKeeps ==
    ASSUME CallsInv, NEW p \in Runners, NEW reply \in Replies, CompleteRun(p, reply)
    PROVE  CallsInv'
<1>1. /\ pc[p] = "complete" /\ context' = [context EXCEPT ![p] = NoContext]
      /\ UNCHANGED <<settings, callers, critic, judge, evaluations>>
  BY DEF CompleteRun
<1>2. CASE Goto(p, "summarise") /\ UNCHANGED runs
  <2>1. NoContext \in Context /\ ContextAdds(NoContext)
    BY ModelCallsAssumption DEF NoContext, Context, ContextAdds
  <2>2. QED
    BY <1>1, <1>2, <2>1, ContextStep
<1>3. CASE EndRun(p, "failed")
  BY <1>1, <1>3, EndRunKeeps
<1>4. QED
  BY <1>2, <1>3 DEF CompleteRun

LEMMA SummariseKeeps ==
    ASSUME CallsInv, NEW p \in Runners, NEW reply \in Replies, Summarise(p, reply)
    PROVE  CallsInv'
<1>1. /\ pc[p] = "summarise" /\ TypeOK
      /\ UNCHANGED <<settings, callers, context, critic, judge, evaluations>>
  BY DEF Summarise, CallsInv
<1>2. context' = [context EXCEPT ![p] = context[p]]
  BY <1>1 DEF TypeOK
<1>3. EndRun(p, "completed") \/ (Answer(p, "400") /\ UNCHANGED runs)
  BY DEF Summarise
<1>4. QED
  BY <1>1, <1>2, <1>3, EndRunKeeps

-----------------------------------------------------------------------------
(* The critic.                                                             *)

LEMMA EvaluateKeeps ==
    ASSUME CallsInv, NEW p \in Critics, NEW key, NEW override, Evaluate(p, key, override)
    PROVE  CallsInv'
<1> USE ThreadsApart
<1>1. /\ pc[p] = "idle" /\ TypeOK /\ CriticKept(p)
      /\ UNCHANGED <<settings, callers, context, runs, critic, judge, evaluations>>
  BY DEF Evaluate, Begin, CallsInv
<1>2. /\ Moves(p) /\ pc' \in [Threads -> Stages] /\ answer' \in [Threads -> Answers]
      /\ \/ pc'[p] = "ask" /\ answer'[p] = answer[p]
         \/ pc'[p] = "over" /\ answer'[p] \in {"401", "422"}
  <2>1. CASE Goto(p, "ask")
    <3>1. "ask" \in Stages
      BY DEF Stages
    <3>2. pc'[p] = "ask" /\ answer'[p] = answer[p]
      BY <1>1, <2>1 DEF TypeOK, Goto
    <3>3. QED
      BY <1>1, <2>1, <3>1, <3>2, GotoType DEF Moves
  <2>2. ASSUME NEW what \in {"401", "422"}, Answer(p, what)
        PROVE  /\ Moves(p) /\ pc' \in [Threads -> Stages]
               /\ answer' \in [Threads -> Answers]
               /\ pc'[p] = "over" /\ answer'[p] = what
    <3>1. what \in Answers
      BY DEF Answers
    <3>2. pc'[p] = "over" /\ answer'[p] = what
      BY <1>1, <2>2 DEF TypeOK, Answer
    <3>3. QED
      BY <1>1, <2>2, <3>1, <3>2, AnswerType DEF Moves
  <2>3. QED
    BY <2>1, <2>2 DEF Evaluate
<1>3. TypeOK'
  BY <1>1, <1>2 DEF TypeOK, Stages, Answers
<1>4. CriticKept(p)'
  BY <1>1, <1>2 DEF CriticKept, CriticAccepts, Retried, TypeOK, Attempts
<1>5. QED
  BY <1>1, <1>2, <1>3, <1>4, CriticStep

LEMMA AskCriticKeeps ==
    ASSUME CallsInv, NEW p \in Critics, NEW reply \in Replies, AskCritic(p, reply)
    PROVE  CallsInv'
<1> USE ThreadsApart
<1> DEFINE text == CompleteSimple(reply)
           tries == critic[p].tries + 1
           next == [tries |-> tries, last |-> text,
                    lost |-> critic[p].last # "none" /\ ~Retried(critic[p].last)]
<1>1. /\ pc[p] = "ask" /\ TypeOK /\ CriticKept(p) /\ critic[p] \in Attempts
      /\ UNCHANGED <<settings, callers, context, runs, judge, evaluations>>
      /\ critic' = [critic EXCEPT ![p] = next]
  BY DEF AskCritic, CallsInv, TypeOK, Attempt
<1>2. text \in Texts
  BY <1>1, TextsType DEF TypeOK
<1>3. tries \in 1..2 /\ next.lost = FALSE /\ (tries = 2 \/ tries = 1)
  <2>1. /\ critic[p].tries = 0 \/ critic[p].tries = 1
        /\ critic[p].last = "none" \/ Retried(critic[p].last)
    BY <1>1 DEF CriticKept
  <2>2. (critic[p].last # "none" /\ ~Retried(critic[p].last)) = FALSE
    BY <2>1
  <2>3. next.lost = FALSE
    BY <2>2
  <2>4. QED
    BY <2>1, <2>3
<1>4. next \in Attempts
  BY <1>2, <1>3 DEF Attempts
<1>5. critic' \in [Critics -> Attempts] /\ critic'[p] = next
  BY <1>1, <1>4 DEF TypeOK
<1>6. \/ CriticAccepts(text) /\ \E what \in Rendered(text) : Answer(p, what)
      \/ text = "null" /\ Answer(p, "500")
      \/ Retried(text) /\ tries = 2 /\ Answer(p, "502")
      \/ Retried(text) /\ tries = 1 /\ Goto(p, "ask")
  <2>1. CASE CriticAccepts(text)
    <3>1. text # "null" /\ ~Retried(text)
      BY <2>1 DEF CriticAccepts, Retried
    <3>2. QED
      BY <2>1, <3>1 DEF AskCritic
  <2>2. CASE text = "null"
    <3>1. ~CriticAccepts(text) /\ ~Retried(text)
      BY <2>2 DEF CriticAccepts, Retried
    <3>2. QED
      BY <2>2, <3>1 DEF AskCritic
  <2>3. CASE ~CriticAccepts(text) /\ text # "null"
    <3>1. Retried(text)
      BY <2>3 DEF Retried
    <3>2. AfterFailure(p, tries)
      BY <2>3, <3>1 DEF AskCritic, Attempt
    <3>3. QED
      BY <1>3, <3>1, <3>2 DEF AfterFailure
  <2>4. QED
    BY <2>1, <2>2, <2>3
<1>7. /\ Moves(p) /\ pc' \in [Threads -> Stages] /\ answer' \in [Threads -> Answers]
  <2>1. "ask" \in Stages /\ {"200", "500", "502"} \subseteq Answers
    BY DEF Stages, Answers
  <2>2. QED
    BY <1>1, <1>6, <2>1, GotoType, AnswerType DEF Moves, Rendered
<1>8. TypeOK'
  BY <1>1, <1>5, <1>7 DEF TypeOK, Stages, Answers
<1>9. CriticKept(p)'
  <2>1. /\ critic'[p].tries = tries /\ critic'[p].last = text
        /\ critic'[p].lost = FALSE /\ answer[p] = "none"
    BY <1>1, <1>3, <1>5 DEF CriticKept
  <2>2. ASSUME NEW what \in {"200", "500", "502"}, Answer(p, what)
        PROVE  pc'[p] = "over" /\ answer'[p] = what
    BY <1>1, <2>2 DEF TypeOK, Answer
  <2>3. ASSUME CriticAccepts(text), NEW what \in Rendered(text), Answer(p, what)
        PROVE  CriticKept(p)'
    <3>1. what = "200" \/ (what = "500" /\ text = "nan")
      BY <2>3 DEF Rendered
    <3>2. QED
      BY <2>1, <2>2, <2>3, <3>1 DEF CriticKept, Retried, CriticAccepts
  <2>4. CASE text = "null" /\ Answer(p, "500")
    BY <2>1, <2>2, <2>4 DEF CriticKept, Retried, CriticAccepts
  <2>5. CASE Retried(text) /\ tries = 2 /\ Answer(p, "502")
    BY <2>1, <2>2, <2>5 DEF CriticKept, Retried, CriticAccepts
  <2>6. CASE Retried(text) /\ tries = 1 /\ Goto(p, "ask")
    <3>1. pc'[p] = "ask" /\ answer'[p] = "none"
      BY <1>1, <2>1, <2>6 DEF TypeOK, Goto
    <3>2. QED
      BY <2>1, <2>6, <3>1 DEF CriticKept, Retried, CriticAccepts
  <2>7. QED
    BY <1>6, <2>3, <2>4, <2>5, <2>6
<1>10. \A q \in Critics \ {p} : critic'[q] = critic[q]
  BY <1>1 DEF TypeOK
<1>11. QED
  BY <1>1, <1>7, <1>8, <1>9, <1>10, CriticStep

-----------------------------------------------------------------------------
(* The judge.                                                              *)

LEMMA FetchRunKeeps ==
    ASSUME CallsInv, NEW p \in Judges, NEW key \in Keys \cup {NoKey}, NEW r \in Runners,
           FetchRun(p, key, r)
    PROVE  CallsInv'
<1> USE ThreadsApart
<1>1. /\ pc[p] = "idle" /\ TypeOK /\ JudgeKept(p)
      /\ UNCHANGED <<settings, callers, context, runs, critic, evaluations>>
  BY DEF FetchRun, Begin, CallsInv, JudgeKept
<1>2. ASSUME NEW what \in {"401", "404"}, Answer(p, what), UNCHANGED judge
      PROVE  CallsInv'
  <2>1. what \in Answers
    BY DEF Answers
  <2>2. pc' \in [Threads -> Stages] /\ answer' \in [Threads -> Answers] /\ Moves(p)
    BY <1>1, <1>2, <2>1, AnswerType DEF Moves
  <2>3. TypeOK'
    BY <1>1, <1>2, <2>2 DEF TypeOK, Stages, Answers
  <2>4. JudgeKept(p)'
    BY <1>1, <1>2 DEF JudgeKept
  <2>5. QED
    BY <1>1, <1>2, <2>2, <2>3, <2>4, JudgeStep
<1>3. ASSUME Known(key), runs[r].status # "none", MayUse(key, runs[r].tenant),
             Goto(p, "call"),
             judge' = [judge EXCEPT ![p] =
                [of |-> r, key |-> key, outcome |-> NoJudge.outcome]]
      PROVE  CallsInv'
  <2> DEFINE j == [of |-> r, key |-> key,
                   outcome |-> [passed |-> FALSE, score |-> "low", reply |-> "empty"]]
  <2>1. judge' = [judge EXCEPT ![p] = j]
    BY <1>3 DEF NoJudge
  <2>2. j.outcome \in Outcome
    BY DEF Outcome, Texts
  <2>3. j \in Judgement
    BY <2>2 DEF Judgement
  <2>4. judge' \in [Judges -> Judgement] /\ judge'[p] = j
    BY <1>1, <2>1, <2>3 DEF TypeOK
  <2>5. "call" \in Stages
    BY DEF Stages
  <2>6. pc' \in [Threads -> Stages] /\ answer' \in [Threads -> Answers] /\ Moves(p)
    BY <1>1, <1>3, <2>5, GotoType DEF Moves
  <2>7. TypeOK'
    BY <1>1, <2>4, <2>6 DEF TypeOK, Stages, Answers
  <2>8. runs[r].tenant \in Tenants
    BY <1>1 DEF TypeOK, Run
  <2>9. settings.auth => \/ key \in settings.admins
                         \/ runs[r].tenant = settings.tenantOf[key]
    BY <1>1, <1>3, <2>8, RunsOfTheirTenant DEF TypeOK
  <2>10. JudgeKept(p)'
    <3>1. judge'[p].of = r /\ judge'[p].key = key
      BY <2>4
    <3>2. QED
      BY <1>1, <1>3, <2>9, <3>1 DEF JudgeKept
  <2>11. \A q \in Judges \ {p} : judge'[q] = judge[q]
    BY <1>1, <2>1 DEF TypeOK
  <2>12. QED
    BY <1>1, <2>6, <2>7, <2>10, <2>11, JudgeStep
<1>4. QED
  BY <1>2, <1>3 DEF FetchRun

LEMMA LoseAgentKeeps ==
    ASSUME CallsInv, NEW p \in Judges, LoseAgent(p)
    PROVE  CallsInv'
<1> USE ThreadsApart
<1>1. /\ pc[p] = "call" /\ TypeOK /\ JudgeKept(p)
      /\ UNCHANGED <<settings, callers, context, runs, critic, judge, evaluations>>
      /\ Answer(p, "404") /\ "404" \in Answers
  BY DEF LoseAgent, CallsInv, JudgeKept, Answers
<1>2. pc' \in [Threads -> Stages] /\ answer' \in [Threads -> Answers] /\ Moves(p)
  BY <1>1, AnswerType DEF Moves
<1>3. TypeOK'
  BY <1>1, <1>2 DEF TypeOK, Stages, Answers
<1>4. JudgeKept(p)'
  BY <1>1 DEF JudgeKept
<1>5. QED
  BY <1>1, <1>2, <1>3, <1>4, JudgeStep

LEMMA AskJudgeKeeps ==
    ASSUME CallsInv, NEW p \in Judges, NEW reply \in Replies, AskJudge(p, reply)
    PROVE  CallsInv'
<1> USE ThreadsApart
<1>1. /\ pc[p] = "call" /\ TypeOK /\ JudgeKept(p)
      /\ UNCHANGED <<settings, callers, context, runs, critic, evaluations>>
      /\ judge[p] \in Judgement
  BY DEF AskJudge, CallsInv, JudgeKept, TypeOK
<1>2. CASE CompleteSimple(reply) = "huge"
  <2>1. Answer(p, "500") /\ UNCHANGED judge /\ "500" \in Answers
    BY <1>2 DEF AskJudge, Answers
  <2>2. pc' \in [Threads -> Stages] /\ answer' \in [Threads -> Answers] /\ Moves(p)
    BY <1>1, <2>1, AnswerType DEF Moves
  <2>3. TypeOK'
    BY <1>1, <2>1, <2>2 DEF TypeOK, Stages, Answers
  <2>4. JudgeKept(p)'
    BY <1>1, <2>1 DEF JudgeKept
  <2>5. QED
    BY <1>1, <2>1, <2>2, <2>3, <2>4, JudgeStep
<1>3. CASE CompleteSimple(reply) # "huge"
  <2>1. PICK outcome \in Outcomes(CompleteSimple(reply)) :
               judge' = [judge EXCEPT ![p].outcome = outcome]
    BY <1>3 DEF AskJudge
  <2>2. outcome \in Outcome
    BY <1>1, TextsType, OutcomesType DEF TypeOK
  <2> DEFINE j == [of |-> judge[p].of, key |-> judge[p].key, outcome |-> outcome]
  <2>3. [judge[p] EXCEPT !.outcome = outcome] = j
    BY <1>1 DEF Judgement
  <2>4. j \in Judgement
    BY <1>1, <2>2 DEF Judgement
  <2>5. judge' \in [Judges -> Judgement] /\ judge'[p] = j
    BY <1>1, <2>1, <2>3, <2>4 DEF TypeOK
  <2>6. Goto(p, "save") /\ "save" \in Stages
    BY <1>3 DEF AskJudge, Stages
  <2>7. pc' \in [Threads -> Stages] /\ answer' \in [Threads -> Answers] /\ Moves(p)
    BY <1>1, <2>6, GotoType DEF Moves
  <2>8. TypeOK'
    BY <1>1, <2>5, <2>7 DEF TypeOK, Stages, Answers
  <2>9. judge'[p].of = judge[p].of /\ judge'[p].key = judge[p].key
    BY <2>5
  <2>10. JudgeKept(p)'
    BY <1>1, <2>9 DEF JudgeKept
  <2>11. \A q \in Judges \ {p} : judge'[q] = judge[q]
    BY <1>1, <2>1 DEF TypeOK
  <2>12. QED
    BY <1>1, <2>7, <2>8, <2>10, <2>11, JudgeStep
<1>4. QED
  BY <1>2, <1>3

LEMMA SaveEvaluationKeeps ==
    ASSUME CallsInv, NEW p \in Judges, SaveEvaluation(p)
    PROVE  CallsInv'
<1> USE ThreadsApart
<1>1. /\ pc[p] = "save" /\ TypeOK /\ JudgeKept(p)
      /\ UNCHANGED <<settings, callers, context, runs, critic, judge>>
  BY DEF SaveEvaluation, CallsInv, JudgeKept
<1>2. /\ Moves(p) /\ pc' \in [Threads -> Stages] /\ answer' \in [Threads -> Answers]
      /\ evaluations' \in {evaluations \cup {p}, evaluations}
  <2>1. ASSUME NEW what \in {"200", "500"}, Answer(p, what)
        PROVE  /\ Moves(p) /\ pc' \in [Threads -> Stages]
               /\ answer' \in [Threads -> Answers]
    <3>1. what \in Answers
      BY DEF Answers
    <3>2. QED
      BY <1>1, <2>1, <3>1, AnswerType DEF Moves
  <2>2. QED
    BY <2>1 DEF SaveEvaluation
<1>3. TypeOK'
  BY <1>1, <1>2 DEF TypeOK, Stages, Answers
<1>4. JudgeKept(p)'
  BY <1>1, <1>2 DEF JudgeKept
<1>5. QED
  BY <1>1, <1>2, <1>3, <1>4, JudgeStep

-----------------------------------------------------------------------------
(* Every step.                                                             *)

LEMMA CallsStutter == CallsInv /\ UNCHANGED vars => CallsInv'
<1> SUFFICES ASSUME CallsInv, UNCHANGED vars PROVE CallsInv'
  OBVIOUS
<1> USE ThreadsApart DEF vars
<1>1. TypeOK'
  BY DEF CallsInv, TypeOK
<1>2. \A q \in Runners : ContextAdds(context[q])'
  BY ContextsStay
<1>3. \A q \in Runners : RunKept(q)'
  BY RunStays
<1>4. \A q \in Critics : CriticKept(q)'
  BY CriticStays
<1>5. \A q \in Judges : JudgeKept(q)'
  BY JudgeStays
<1>6. QED
  BY <1>1, <1>2, <1>3, <1>4, <1>5 DEF CallsInv

LEMMA CallsStep == CallsInv /\ [Next]_vars => CallsInv'
<1> SUFFICES ASSUME CallsInv, Next PROVE CallsInv'
  BY CallsStutter
<1>1. ASSUME NEW p \in Threads, Step(p) PROVE CallsInv'
  <2>1. CASE p \in Runners /\ \E budget \in Budgets, base \in Bases, s \in Summaries :
                BuildSection(p, budget, base, s)
    BY <2>1, BuildSectionKeeps
  <2>2. CASE p \in Runners /\ IncludeSummary(p)
    BY <2>2, IncludeSummaryKeeps
  <2>3. CASE p \in Runners /\ \E reply \in Replies :
                CompleteRun(p, reply) \/ Summarise(p, reply)
    BY <2>3, CompleteRunKeeps, SummariseKeeps
  <2>4. CASE p \in Critics /\ \E reply \in Replies : AskCritic(p, reply)
    BY <2>4, AskCriticKeeps
  <2>5. CASE p \in Judges /\ LoseAgent(p)
    BY <2>5, LoseAgentKeeps
  <2>6. CASE p \in Judges /\ \E reply \in Replies : AskJudge(p, reply)
    BY <2>6, AskJudgeKeeps
  <2>7. CASE p \in Judges /\ SaveEvaluation(p)
    BY <2>7, SaveEvaluationKeeps
  <2>8. QED
    BY <1>1, <2>1, <2>2, <2>3, <2>4, <2>5, <2>6, <2>7 DEF Step
<1>2. ASSUME NEW key \in Keys \cup {NoKey},
             \/ \E p \in Runners, tenant \in Tenants : RunAgent(p, key, tenant)
             \/ \E p \in Critics, override \in {"none", "listed", "unlisted"} :
                   Evaluate(p, key, override)
             \/ \E p \in Judges, r \in Runners : FetchRun(p, key, r)
      PROVE  CallsInv'
  BY <1>2, RunAgentKeeps, EvaluateKeeps, FetchRunKeeps
<1>3. QED
  BY <1>1, <1>2 DEF Next

\* In every state what each request holds agrees with where it is.
THEOREM CallsInvariant == Spec => []CallsInv
BY CallsInit, CallsStep, PTL DEF Spec

\* Every variable of the model calls has its type.
THEOREM TypeCorrect == Spec => []TypeOK
<1>1. CallsInv => TypeOK
  BY DEF CallsInv
<1>2. QED
  BY <1>1, CallsInvariant, PTL

\* A loop context section with summaries is within neuroagent_loop_context_max_chars,
\* one without them is its header, goal and state document alone.
THEOREM SectionsFit == Spec => []SectionFits
<1>1. CallsInv => SectionFits
  <2> SUFFICES ASSUME CallsInv, NEW p \in Runners
               PROVE  /\ context[p].included > 0 => context[p].length <= context[p].budget
                      /\ context[p].included = 0 => context[p].length = context[p].base
    BY DEF SectionFits
  <2>1. context[p] \in Context /\ ContextAdds(context[p])
    BY DEF CallsInv, TypeOK
  <2>2. /\ context[p].included \in Nat /\ context[p].length \in Nat
        /\ context[p].budget \in Int /\ context[p].remaining \in Int
    BY <2>1 DEF Context
  <2>3. QED
    BY <2>1, <2>2 DEF ContextAdds
<1>2. QED
  BY <1>1, CallsInvariant, PTL

\* The critic stops at the first reply that parses, NaN for a confidence included,
\* asks again once and only after a reply to retry, and tells its caller which it
\* was, whatever the provider (routes_evaluate.py:87).
THEOREM CriticTellsTruth == Spec => []CriticTellsTheTruth
<1>1. CallsInv => CriticTellsTheTruth
  <2> SUFFICES ASSUME CallsInv, NEW p \in Critics
               PROVE  /\ ~critic[p].lost
                      /\ answer[p] = "502"
                            <=> critic[p].tries = 2 /\ Retried(critic[p].last)
                      /\ answer[p] \in {"200", "500"}
                            <=> CriticAccepts(critic[p].last) \/ critic[p].last = "null"
                      /\ answer[p] = "200" => CriticAccepts(critic[p].last)
                      /\ answer[p] = "500" => critic[p].last \in {"null", "nan"}
    BY DEF CriticTellsTheTruth
  <2>1. CriticKept(p) /\ pc[p] \in {"idle", "ask", "over"}
    BY DEF CallsInv, CriticKept
  <2>2. CASE pc[p] = "over"
    BY <2>1, <2>2 DEF CriticKept
  <2>3. CASE pc[p] \in {"idle", "ask"}
    BY <2>1, <2>3 DEF CriticKept, Retried, CriticAccepts
  <2>4. QED
    BY <2>1, <2>2, <2>3
<1>2. QED
  BY <1>1, CallsInvariant, PTL

\* With authentication, runs and judgements stay with the tenant of the key, or
\* with the admins.
THEOREM TenantsStayApart == Spec => []TenantsApart
<1>1. CallsInv => TenantsApart
  BY DEF CallsInv, RunKept, JudgeKept, TenantsApart
<1>2. QED
  BY <1>1, CallsInvariant, PTL

\* GET /models/status says that the key is missing or the provider is unknown
\* just when running an agent finds no gateway.
THEOREM StatusIsForetold == Spec => []StatusForetells
<1>1. TypeOK => StatusForetells
  <2> SUFFICES ASSUME TypeOK PROVE StatusForetells
    OBVIOUS
  <2>1. settings.provider \in Providers /\ settings.keyed \in BOOLEAN
    BY DEF TypeOK, Settings
  <2>2. "bare" \in Replies /\ Content("bare") = "content"
    BY DEF Replies, Content, Object
  <2>3. \A reply \in Replies : Content(reply) # "missing"
    BY DEF Content
  <2>4. QED
    BY <2>1, <2>2, <2>3 DEF Providers, StatusForetells, GatewayMissing, Complete,
       KeyStatus, StubModel, OpenAIResponses, OpenAICompatibleChat, OllamaChat,
       AnthropicMessages, GeminiGenerateContent
<1>2. QED
  BY <1>1, TypeCorrect, PTL

-----------------------------------------------------------------------------
(* Totals of sequences.                                                    *)

\* What holds of zero and of the successor of any number it holds of holds of
\* every number: P is the set of those it holds of.
LEMMA NumberInduction ==
    ASSUME NEW P, 0 \in P, \A n \in Nat : n \in P => n + 1 \in P
    PROVE  \A n \in Nat : n \in P
<1> SUFFICES ASSUME NEW N \in Nat, N \notin P PROVE FALSE
  OBVIOUS
<1> DEFINE S == 0..N
           Bad == {T \in SUBSET S : \E i \in S : T = 0..i /\ i \notin P}
<1>1. IsWellFoundedOn(StrictSubsetOrdering(S), SUBSET S)
  <2>1. IsFiniteSet(S)
    BY FS_Interval
  <2> HIDE DEF S
  <2>2. QED
    BY <2>1, FS_StrictSubsetOrderingWellFounded, FS_FiniteSubsetsOfFinite
<1>2. Bad \subseteq SUBSET S /\ Bad # {}
  <2>1. N \in S /\ S \in Bad
    OBVIOUS
  <2>2. QED
    BY <2>1
<1>3. PICK T \in Bad : \A U \in Bad : ~ (<<U, T>> \in StrictSubsetOrdering(S))
  <2> HIDE DEF Bad, S
  <2>1. QED
    BY <1>1, <1>2, WFMin
<1>4. PICK i \in S : T = 0..i /\ i \notin P
  OBVIOUS
<1>5. i \in Nat /\ i # 0 /\ i - 1 \in Nat /\ i - 1 \in S
  BY <1>4
<1>6. i - 1 \in P
  <2> SUFFICES ASSUME i - 1 \notin P PROVE FALSE
    OBVIOUS
  <2> DEFINE U == 0..(i - 1)
  <2>1. U \in Bad /\ U \in SUBSET S /\ T \in SUBSET S
    BY <1>5
  <2>2. U \subseteq T /\ U # T
    BY <1>4, <1>5
  <2>3. <<U, T>> \in StrictSubsetOrdering(S)
    <3>1. StrictSubsetOrdering(S) =
            {ss \in (SUBSET S) \X (SUBSET S) : ss[1] \subseteq ss[2] /\ ss[1] # ss[2]}
      BY DEF StrictSubsetOrdering
    <3> DEFINE uu == <<U, T>>
    <3> HIDE DEF U, S, Bad
    <3>2. uu \in (SUBSET S) \X (SUBSET S) /\ uu[1] = U /\ uu[2] = T
      BY <2>1
    <3>3. uu \in StrictSubsetOrdering(S)
      <4> HIDE DEF uu
      <4>1. QED
        BY <2>2, <3>1, <3>2
    <3>4. QED
      BY <3>3
  <2>4. QED
    BY <1>3, <2>1, <2>3
<1>7. QED
  BY <1>4, <1>5, <1>6

\* f gives each number up to n the sum of as many entries of e.
Sums(e, n, f) == f = [i \in 0..n |-> IF i = 0 THEN 0 ELSE f[i - 1] + e[i]]

LEMMA SumsIs ==
    ASSUME NEW e, NEW n \in Nat, NEW f, Sums(e, n, f)
    PROVE  f[0] = 0 /\ \A i \in 1..n : f[i] = f[i - 1] + e[i]
<1> DEFINE term(i) == IF i = 0 THEN 0 ELSE f[i - 1] + e[i]
<1>1. f = [i \in 0..n |-> term(i)]
  BY DEF Sums
<1> HIDE DEF term
<1>2. \A i \in 0..n : f[i] = term(i)
  BY <1>1
<1>3. f[0] = term(0) /\ \A i \in 1..n : f[i] = term(i)
  BY <1>2
<1>4. QED
  BY <1>3 DEF term

LEMMA SumsExist ==
    ASSUME NEW e
    PROVE  \A n \in Nat : \E f : Sums(e, n, f)
<1> DEFINE P == {n \in Nat : \E f : Sums(e, n, f)}
<1>1. 0 \in P
  <2> DEFINE f == [i \in 0..0 |-> 0]
  <2>1. f = [i \in 0..0 |-> IF i = 0 THEN 0 ELSE f[i - 1] + e[i]]
    OBVIOUS
  <2>2. Sums(e, 0, f)
    BY <2>1 DEF Sums
  <2>3. QED
    BY <2>2
<1>2. ASSUME NEW n \in Nat, n \in P PROVE n + 1 \in P
  <2>1. PICK f : Sums(e, n, f)
    BY <1>2
  <2> DEFINE next(i) == IF i = n + 1 THEN f[n] + e[n + 1] ELSE f[i]
             g == [i \in 0..(n + 1) |-> next(i)]
             term(i) == IF i = 0 THEN 0 ELSE g[i - 1] + e[i]
  <2>2. f[0] = 0 /\ \A i \in 1..n : f[i] = f[i - 1] + e[i]
    BY <2>1, SumsIs
  <2>3. ASSUME NEW i \in 0..(n + 1) PROVE next(i) = term(i)
    <3>1. CASE i = 0
      BY <2>2, <3>1
    <3>2. CASE i = n + 1
      BY <3>2
    <3>3. CASE i \in 1..n
      <4>1. f[i] = f[i - 1] + e[i] /\ i - 1 \in 0..(n + 1) /\ i - 1 # n + 1
        BY <2>2, <3>3
      <4>2. QED
        BY <3>3, <4>1
    <3>4. QED
      BY <3>1, <3>2, <3>3
  <2>4. Sums(e, n + 1, g)
    <3>1. g = [i \in 0..(n + 1) |-> term(i)]
      <4> HIDE DEF next, term
      <4>1. QED
        BY <2>3
    <3>2. QED
      BY <3>1 DEF Sums
  <2>5. QED
    BY <2>4
<1>3. \A n \in Nat : n \in P
  <2> HIDE DEF P
  <2>1. QED
    BY <1>1, <1>2, NumberInduction
<1>4. QED
  BY <1>3

LEMMA TotalIs ==
    ASSUME NEW e, Len(e) \in Nat
    PROVE  \E f : Sums(e, Len(e), f) /\ Total(e) = f[Len(e)]
<1> DEFINE table(f) == f = [i \in 0..Len(e) |-> IF i = 0 THEN 0 ELSE f[i - 1] + e[i]]
<1>1. Total(e) = (CHOOSE f : table(f))[Len(e)]
  BY DEF Total
<1>2. \A f : table(f) <=> Sums(e, Len(e), f)
  BY DEF Sums
<1>3. PICK f : Sums(e, Len(e), f)
  BY SumsExist
<1> HIDE DEF table
<1>4. table(CHOOSE g : table(g))
  BY <1>2, <1>3
<1>5. QED
  BY <1>1, <1>2, <1>4

\* The sums of natural numbers grow.
LEMMA SumsGrow ==
    ASSUME NEW s \in Seq(Nat), NEW f, Sums(s, Len(s), f)
    PROVE  \A j \in 0..Len(s) :
              f[j] \in Nat /\ \A i \in 0..j : f[i] \in Nat /\ f[i] <= f[j]
<1> DEFINE P == {j \in Nat :
                    j <= Len(s) => /\ f[j] \in Nat
                                   /\ \A i \in 0..j : f[i] \in Nat /\ f[i] <= f[j]}
<1>1. f[0] = 0 /\ \A i \in 1..Len(s) : f[i] = f[i - 1] + s[i]
  BY SumsIs
<1>2. 0 \in P
  BY <1>1
<1>3. ASSUME NEW j \in Nat, j \in P PROVE j + 1 \in P
  <2> SUFFICES ASSUME j + 1 <= Len(s)
               PROVE  /\ f[j + 1] \in Nat
                      /\ \A i \in 0..(j + 1) : f[i] \in Nat /\ f[i] <= f[j + 1]
    OBVIOUS
  <2>1. j + 1 \in 1..Len(s) /\ s[j + 1] \in Nat
    OBVIOUS
  <2>2. f[j + 1] = f[j] + s[j + 1]
    BY <1>1, <2>1
  <2>3. f[j] \in Nat /\ \A i \in 0..j : f[i] \in Nat /\ f[i] <= f[j]
    BY <1>3
  <2>4. ASSUME NEW i \in 0..(j + 1) PROVE f[i] \in Nat /\ f[i] <= f[j + 1]
    <3>1. CASE i = j + 1
      BY <2>1, <2>2, <2>3, <3>1
    <3>2. CASE i \in 0..j
      <4>1. f[i] <= f[j] /\ f[i] \in Nat
        BY <2>3, <3>2
      <4>2. QED
        BY <2>1, <2>2, <2>3, <4>1
    <3>3. QED
      BY <3>1, <3>2
  <2>5. QED
    BY <2>1, <2>2, <2>3, <2>4
<1>4. \A j \in Nat : j \in P
  <2> HIDE DEF P
  <2>1. QED
    BY <1>2, <1>3, NumberInduction
<1>5. QED
  BY <1>4

\* The total of the entries past the first m is a difference of sums.
LEMMA SuffixTotal ==
    ASSUME NEW s \in Seq(Nat), NEW f, Sums(s, Len(s), f), NEW m \in 0..Len(s)
    PROVE  Total(SubSeq(s, m + 1, Len(s))) = f[Len(s)] - f[m]
<1> DEFINE e == SubSeq(s, m + 1, Len(s))
           L == Len(s) - m
<1>1. /\ Len(s) \in Nat /\ L \in Nat /\ Len(e) = L
      /\ \A i \in 1..L : e[i] = s[m + i]
  OBVIOUS
<1>2. /\ \A i \in 1..Len(s) : f[i] = f[i - 1] + s[i]
      /\ \A i \in 0..Len(s) : f[i] \in Nat
  BY SumsIs, SumsGrow
<1> HIDE DEF e
<1>3. PICK g : Sums(e, Len(e), g) /\ Total(e) = g[Len(e)]
  BY <1>1, TotalIs
<1>4. g[0] = 0 /\ \A i \in 1..L : g[i] = g[i - 1] + s[m + i]
  <2>1. g[0] = 0 /\ \A i \in 1..L : g[i] = g[i - 1] + e[i]
    BY <1>1, <1>3, SumsIs
  <2>2. QED
    BY <1>1, <2>1
<1> DEFINE Q == {i \in Nat : i <= L => g[i] = f[m + i] - f[m]}
<1>5. 0 \in Q
  BY <1>2, <1>4
<1>6. ASSUME NEW i \in Nat, i \in Q PROVE i + 1 \in Q
  <2> SUFFICES ASSUME i + 1 <= L PROVE g[i + 1] = f[m + (i + 1)] - f[m]
    OBVIOUS
  <2>1. i + 1 \in 1..L /\ m + (i + 1) \in 1..Len(s) /\ m + i \in 0..Len(s)
    BY <1>1
  <2>2. g[i + 1] = g[i] + s[m + (i + 1)]
    <3>1. (i + 1) - 1 = i
      OBVIOUS
    <3>2. QED
      BY <1>4, <2>1, <3>1
  <2>3. f[m + (i + 1)] = f[m + i] + s[m + (i + 1)]
    <3>1. (m + (i + 1)) - 1 = m + i
      OBVIOUS
    <3>2. QED
      BY <1>2, <2>1, <3>1
  <2>4. g[i] = f[m + i] - f[m]
    BY <1>6, <2>1
  <2>5. f[m + i] \in Nat /\ f[m] \in Nat /\ s[m + (i + 1)] \in Nat
    BY <1>2, <2>1
  <2>6. QED
    BY <2>2, <2>3, <2>4, <2>5
<1>7. \A i \in Nat : i \in Q
  <2> HIDE DEF Q
  <2>1. QED
    BY <1>5, <1>6, NumberInduction
<1>8. L \in Q /\ m + L = Len(s)
  BY <1>1, <1>7
<1>9. g[L] = f[Len(s)] - f[m]
  BY <1>1, <1>8
<1> HIDE DEF L
<1>10. QED
  BY <1>1, <1>3, <1>9 DEF e

-----------------------------------------------------------------------------
(* The section of the newest summaries.                                    *)

\* The totals of the newest summaries: none, one more, and growing.
LEMMA SuffixGrows ==
    ASSUME NEW c \in Context
    PROVE  /\ Total(Suffix(c, 0)) = 0
           /\ \A n \in 0..Len(c.summaries) : Total(Suffix(c, n)) \in Nat
           /\ \A n \in 0..(Len(c.summaries) - 1) :
                Total(Suffix(c, n + 1))
                = c.summaries[Len(c.summaries) - n] + Total(Suffix(c, n))
           /\ \A n \in 0..Len(c.summaries) : \A m \in 0..n :
                Total(Suffix(c, m)) <= Total(Suffix(c, n))
<1> DEFINE s == c.summaries
           L == Len(s)
<1>1. s \in Seq(Nat) /\ L \in Nat
  <2>1. s \in Seq(Lengths)
    BY DEF Context
  <2>2. Lengths \subseteq Nat
    BY ModelCallsAssumption
  <2> HIDE DEF s
  <2>3. \A i \in 1..L : s[i] \in Nat
    <3>1. \A i \in 1..L : s[i] \in Lengths
      BY <2>1
    <3>2. QED
      BY <2>2, <3>1
  <2>4. QED
    BY <2>1, <2>3
<1> HIDE DEF s
<1>2. PICK f : Sums(s, L, f)
  BY <1>1, SumsExist
<1>3. /\ f[0] = 0 /\ \A i \in 1..L : f[i] = f[i - 1] + s[i]
      /\ \A j \in 0..L : f[j] \in Nat /\ \A i \in 0..j : f[i] \in Nat /\ f[i] <= f[j]
  BY <1>1, <1>2, SumsIs, SumsGrow
<1>4. ASSUME NEW n \in 0..L
      PROVE  Total(Suffix(c, n)) = f[L] - f[L - n] /\ L - n \in 0..L
  <2>1. L - n \in 0..L /\ L - n + 1 = (L - n) + 1
    BY <1>1
  <2>2. Suffix(c, n) = SubSeq(s, (L - n) + 1, L)
    BY DEF Suffix, s
  <2>3. Total(SubSeq(s, (L - n) + 1, L)) = f[L] - f[L - n]
    BY <1>1, <1>2, <2>1, SuffixTotal
  <2>4. QED
    BY <2>1, <2>2, <2>3
<1>5. L \in 0..L /\ 0 \in 0..L /\ L - 0 = L
  BY <1>1
<1>6. Total(Suffix(c, 0)) = 0
  <2>1. Total(Suffix(c, 0)) = f[L] - f[L - 0]
    BY <1>4, <1>5
  <2>2. QED
    BY <1>3, <1>5, <2>1
<1>7. ASSUME NEW n \in 0..L PROVE Total(Suffix(c, n)) \in Nat
  <2>1. f[L - n] <= f[L] /\ f[L - n] \in Nat /\ f[L] \in Nat
    BY <1>1, <1>3, <1>4, <1>5
  <2>2. QED
    BY <1>4, <2>1
<1>8. ASSUME NEW n \in 0..(L - 1)
      PROVE  Total(Suffix(c, n + 1)) = s[L - n] + Total(Suffix(c, n))
  <2>1. /\ n \in 0..L /\ n + 1 \in 0..L /\ L - n \in 1..L
        /\ L - (n + 1) = (L - n) - 1 /\ L - (n + 1) \in 0..L
    BY <1>1
  <2>2. f[L - n] = f[L - (n + 1)] + s[L - n]
    BY <1>3, <2>1
  <2>3. f[L] \in Nat /\ f[L - n] \in Nat /\ f[L - (n + 1)] \in Nat /\ s[L - n] \in Nat
    BY <1>1, <1>3, <1>4, <1>5, <2>1
  <2>4. /\ Total(Suffix(c, n + 1)) = f[L] - f[L - (n + 1)]
        /\ Total(Suffix(c, n)) = f[L] - f[L - n]
    BY <1>4, <2>1
  <2>5. QED
    BY <2>2, <2>3, <2>4
<1>9. ASSUME NEW n \in 0..L, NEW m \in 0..n
      PROVE  Total(Suffix(c, m)) <= Total(Suffix(c, n))
  <2>1. m \in 0..L /\ L - n \in 0..(L - m)
    BY <1>1
  <2>2. f[L - n] <= f[L - m] /\ f[L - n] \in Nat /\ f[L - m] \in Nat /\ f[L] \in Nat
    BY <1>3, <1>4, <1>5, <2>1
  <2>3. QED
    BY <1>4, <2>1, <2>2
<1>10. QED
  BY <1>6, <1>7, <1>8, <1>9 DEF s

\* The section so far holds the newest summaries and their header, what remains
\* is what they leave of the budget, and a section that is complete holds as
\* many as fit together.
SectionAdds(p) ==
    LET c == context[p]
        held == Total(Suffix(c, c.included))
    IN c # NoContext =>
        /\ pc[p] \in {"truncate", "complete"}
        /\ c.length = c.base + held + (IF c.included > 0 THEN Header ELSE 0)
        /\ c.remaining = c.budget - c.base - Header - held
        /\ pc[p] = "complete" =>
             \A n \in 1..Len(c.summaries) :
                n > c.included <=> c.base + Header + Total(Suffix(c, n)) > c.budget

\* Inductive together with what each thread holds.
SectionInv ==
    /\ CallsInv
    /\ \A p \in Runners : SectionAdds(p)

\* The loop stops where the next entry and all it has no longer fit.
LEMMA CutIsRight ==
    ASSUME NEW c \in Context, ContextAdds(c), c # NoContext,
           c.remaining = c.budget - c.base - Header - Total(Suffix(c, c.included)),
           c.included = Len(c.summaries) \/ ~Fits(c),
           NEW n \in 1..Len(c.summaries)
    PROVE  n > c.included <=> c.base + Header + Total(Suffix(c, n)) > c.budget
<1> DEFINE k == c.included
           held == Total(Suffix(c, k))
<1>1. /\ k \in Nat /\ c.budget \in Int /\ c.base \in Nat /\ Len(c.summaries) \in Nat
      /\ Header \in Nat /\ k <= Len(c.summaries)
  BY ModelCallsAssumption DEF Context, ContextAdds
<1>2. held \in Nat /\ Total(Suffix(c, n)) \in Nat
  BY <1>1, SuffixGrows
<1>3. CASE n > k
  <2>1. k < Len(c.summaries) /\ ~Fits(c)
    BY <1>1, <1>3
  <2>2. c.summaries[Len(c.summaries) - k] > c.remaining
    <3>1. Entry(c) \in Nat /\ c.remaining \in Int
      BY <2>1, EntryType DEF Context
    <3>2. QED
      BY <2>1, <3>1 DEF Fits, Entry
  <2>3. c.summaries[Len(c.summaries) - k] \in Nat
    BY <2>1, EntryType DEF Entry
  <2>4. Total(Suffix(c, k + 1)) = c.summaries[Len(c.summaries) - k] + held
    <3>1. k \in 0..(Len(c.summaries) - 1)
      BY <1>1, <2>1
    <3>2. QED
      BY <3>1, SuffixGrows
  <2>5. Total(Suffix(c, k + 1)) <= Total(Suffix(c, n))
    <3>1. n \in 0..Len(c.summaries) /\ k + 1 \in 0..n
      BY <1>1, <1>3
    <3>2. QED
      BY <3>1, SuffixGrows
  <2>6. c.remaining = c.budget - c.base - Header - held
    OBVIOUS
  <2>7. c.base + Header + Total(Suffix(c, n)) > c.budget
    <3> DEFINE more == Total(Suffix(c, k + 1))
               entry == c.summaries[Len(c.summaries) - k]
               all == Total(Suffix(c, n))
    <3>1. more = entry + held /\ more <= all /\ entry > c.remaining
      BY <2>2, <2>4, <2>5
    <3>2. entry \in Nat /\ all \in Nat
      BY <1>2, <2>3
    <3> HIDE DEF more, entry, all, held, k
    <3>3. c.base + Header + all > c.budget
      BY <1>1, <1>2, <2>6, <3>1, <3>2
    <3>4. QED
      BY <3>3 DEF all
  <2>8. QED
    BY <1>3, <2>7
<1>4. CASE n <= k
  <2>1. c.remaining >= 0 /\ c.remaining \in Int
    BY <1>1, <1>4 DEF ContextAdds, Context
  <2>2. Total(Suffix(c, n)) <= held
    <3>1. k \in 0..Len(c.summaries) /\ n \in 0..k
      BY <1>1, <1>4
    <3>2. QED
      BY <3>1, SuffixGrows
  <2>3. c.remaining = c.budget - c.base - Header - held
    OBVIOUS
  <2> HIDE DEF held
  <2>4. QED
    BY <1>1, <1>2, <1>4, <2>1, <2>2, <2>3
<1>5. QED
  BY <1>1, <1>3, <1>4

LEMMA SectionStays ==
    ASSUME NEW p \in Runners, SectionAdds(p), context'[p] = context[p], pc'[p] = pc[p]
    PROVE  SectionAdds(p)'
BY DEF SectionAdds

LEMMA BuildSectionAdds ==
    ASSUME CallsInv, CallsInv', NEW p \in Runners, NEW budget \in Budgets,
           NEW base \in Bases, NEW summaries \in Summaries,
           BuildSection(p, budget, base, summaries)
    PROVE  SectionAdds(p)'
<1> USE ThreadsApart
<1> DEFINE c == [budget |-> budget, base |-> base, summaries |-> summaries,
                 included |-> 0, remaining |-> Remaining(budget, base),
                 length |-> base]
<1>1. budget \in Int /\ base \in Nat /\ Header \in Nat /\ Header > 0
  BY ModelCallsAssumption
<1>2. context'[p] = c /\ c \in Context
  BY DEF BuildSection, CallsInv, TypeOK
<1>3. /\ c.budget = budget /\ c.base = base /\ c.summaries = summaries
      /\ c.included = 0 /\ c.length = base /\ c.remaining = budget - base - Header
  BY DEF Remaining
<1>4. pc'[p] = IF base >= budget \/ summaries = <<>> THEN "complete" ELSE "truncate"
  BY DEF BuildSection, Goto, CallsInv, TypeOK
<1> HIDE DEF c
<1>5. /\ Total(Suffix(c, 0)) = 0
      /\ \A n \in 0..Len(c.summaries) : Total(Suffix(c, n)) \in Nat
  BY <1>2, SuffixGrows
<1>6. ASSUME pc'[p] = "complete", NEW n \in 1..Len(c.summaries)
      PROVE  n > c.included <=> c.base + Header + Total(Suffix(c, n)) > c.budget
  <2>1. Len(c.summaries) \in Nat
    BY <1>3, SummariesType
  <2>2. base >= budget
    BY <1>3, <1>4, <1>6, <2>1
  <2>3. Total(Suffix(c, n)) \in Nat /\ n \in Nat /\ n > 0
    BY <1>5, <2>1
  <2>4. QED
    BY <1>1, <1>3, <2>2, <2>3
<1>7. /\ c.length = c.base + Total(Suffix(c, c.included))
                    + (IF c.included > 0 THEN Header ELSE 0)
      /\ c.remaining = c.budget - c.base - Header - Total(Suffix(c, c.included))
  BY <1>1, <1>3, <1>5
<1>8. QED
  BY <1>2, <1>4, <1>6, <1>7 DEF SectionAdds

LEMMA IncludeSummaryAdds ==
    ASSUME CallsInv, CallsInv', NEW p \in Runners, SectionAdds(p), IncludeSummary(p)
    PROVE  SectionAdds(p)'
<1> USE ThreadsApart
<1> DEFINE c == context[p]
           held == Total(Suffix(c, c.included))
<1>1. c \in Context /\ ContextAdds(c) /\ TypeOK
  BY DEF CallsInv, TypeOK
<1>2. /\ pc[p] = "truncate" /\ c # NoContext
      /\ c.length = c.base + held + (IF c.included > 0 THEN Header ELSE 0)
      /\ c.remaining = c.budget - c.base - Header - held
  BY DEF IncludeSummary, SectionAdds
<1>3. CASE c.included = Len(c.summaries) \/ ~Fits(c)
  <2>1. pc'[p] = "complete" /\ context'[p] = c
    BY <1>1, <1>3 DEF IncludeSummary, Goto, TypeOK
  <2>2. \A n \in 1..Len(c.summaries) :
           n > c.included <=> c.base + Header + Total(Suffix(c, n)) > c.budget
    BY <1>1, <1>2, <1>3, CutIsRight
  <2>3. QED
    BY <1>2, <2>1, <2>2 DEF SectionAdds
<1>4. CASE ~(c.included = Len(c.summaries) \/ ~Fits(c))
  <2> DEFINE add == IF c.included = 0 THEN Header ELSE 0
             d == [c EXCEPT !.included = @ + 1, !.remaining = @ - Entry(c),
                            !.length = @ + Entry(c)
                                         + (IF c.included = 0 THEN Header ELSE 0)]
  <2>1. pc'[p] = "truncate" /\ context'[p] = d
    BY <1>1, <1>4 DEF IncludeSummary, Goto, TypeOK
  <2>2. /\ d.included = c.included + 1 /\ d.summaries = c.summaries
        /\ d.budget = c.budget /\ d.base = c.base /\ d.remaining = c.remaining - Entry(c)
        /\ d.length = c.length + Entry(c) + add
    BY <1>1 DEF Context
  <2>3. /\ c.included \in Nat /\ c.budget \in Int /\ c.base \in Nat
        /\ Len(c.summaries) \in Nat /\ Header \in Nat /\ c.length \in Nat
        /\ c.remaining \in Int
    BY <1>1, ModelCallsAssumption DEF Context
  <2>4. c.included \in 0..(Len(c.summaries) - 1) /\ c.included < Len(c.summaries)
    BY <1>1, <1>4, <2>3 DEF ContextAdds
  <2>5. Entry(c) \in Nat /\ held \in Nat
    <3>1. c.included \in 0..Len(c.summaries)
      BY <2>3, <2>4
    <3>2. QED
      BY <1>1, <2>4, <3>1, EntryType, SuffixGrows
  <2>6. Total(Suffix(c, c.included + 1)) = Entry(c) + held
    BY <1>1, <2>4, SuffixGrows DEF Entry
  <2> HIDE DEF d
  <2>7. Suffix(d, d.included) = Suffix(c, c.included + 1)
    BY <2>2 DEF Suffix
  <2>8. Total(Suffix(d, d.included)) = Entry(c) + held
    BY <2>6, <2>7
  <2>9. d.remaining = d.budget - d.base - Header - Total(Suffix(d, d.included))
    <3> HIDE DEF held, c
    <3>1. QED
      BY <1>2, <2>2, <2>3, <2>5, <2>8
  <2>10. d.length = d.base + Total(Suffix(d, d.included))
                    + (IF d.included > 0 THEN Header ELSE 0)
    <3> HIDE DEF held, c
    <3>1. c.length + add = c.base + held + Header
      <4>1. CASE c.included = 0
        BY <1>2, <2>3, <2>5, <4>1
      <4>2. CASE c.included # 0
        BY <1>2, <2>3, <2>5, <4>2
      <4>3. QED
        BY <4>1, <4>2
    <3>2. d.included > 0 /\ add \in Nat
      BY <2>2, <2>3
    <3> HIDE DEF add
    <3>3. d.length = (c.length + add) + Entry(c)
      BY <2>2, <2>3, <2>5, <3>2
    <3>4. d.length = d.base + (Entry(c) + held) + Header
      BY <2>2, <2>3, <2>5, <3>1, <3>3
    <3>5. QED
      BY <2>8, <3>2, <3>4
  <2>11. QED
    BY <2>1, <2>9, <2>10 DEF SectionAdds
<1>5. QED
  BY <1>3, <1>4

\* A request that is answered, or that goes on past its context, has none.
LEMMA NoSection ==
    ASSUME NEW p \in Runners, context'[p] = NoContext
    PROVE  SectionAdds(p)'
BY DEF SectionAdds

\* A step moves one request, and only a runner's own steps touch its context.
LEMMA OneMoves ==
    ASSUME CallsInv, Next
    PROVE  \E p \in Threads :
              /\ \A q \in Threads \ {p} : pc'[q] = pc[q]
              /\ \A q \in Runners \ {p} : context'[q] = context[q]
              /\ p \in Runners =>
                   \/ \E budget \in Budgets, base \in Bases, summaries \in Summaries :
                         BuildSection(p, budget, base, summaries)
                   \/ IncludeSummary(p)
                   \/ context'[p] = NoContext
                   \/ pc[p] \in {"idle", "summarise"} /\ UNCHANGED context
<1> USE ThreadsApart
<1>1. TypeOK
  BY DEF CallsInv
<1>2. ASSUME NEW p \in Threads, NEW at, Goto(p, at)
      PROVE  \A q \in Threads \ {p} : pc'[q] = pc[q]
  BY <1>1, <1>2 DEF Goto, TypeOK
<1>3. ASSUME NEW p \in Threads, NEW what, Answer(p, what)
      PROVE  \A q \in Threads \ {p} : pc'[q] = pc[q]
  BY <1>1, <1>3 DEF Answer, TypeOK
<1>4. ASSUME NEW p \in Runners, NEW budget \in Budgets, NEW base \in Bases,
             NEW summaries \in Summaries, BuildSection(p, budget, base, summaries)
      PROVE  /\ \A q \in Threads \ {p} : pc'[q] = pc[q]
             /\ \A q \in Runners \ {p} : context'[q] = context[q]
  BY <1>1, <1>2, <1>4 DEF BuildSection, TypeOK
<1>5. ASSUME NEW p \in Runners, IncludeSummary(p)
      PROVE  /\ \A q \in Threads \ {p} : pc'[q] = pc[q]
             /\ \A q \in Runners \ {p} : context'[q] = context[q]
  BY <1>1, <1>2, <1>5 DEF IncludeSummary, TypeOK
<1>6. ASSUME NEW p \in Runners, NEW reply \in Replies, CompleteRun(p, reply)
      PROVE  /\ \A q \in Threads \ {p} : pc'[q] = pc[q]
             /\ \A q \in Runners \ {p} : context'[q] = context[q]
             /\ context'[p] = NoContext
  BY <1>1, <1>2, <1>3, <1>6 DEF CompleteRun, EndRun, TypeOK
<1>7. ASSUME NEW p \in Runners, NEW reply \in Replies, Summarise(p, reply)
      PROVE  /\ \A q \in Threads \ {p} : pc'[q] = pc[q]
             /\ pc[p] = "summarise" /\ UNCHANGED context
  BY <1>3, <1>7 DEF Summarise, EndRun
<1>8. ASSUME NEW p \in Runners, NEW key, NEW tenant, RunAgent(p, key, tenant)
      PROVE  /\ \A q \in Threads \ {p} : pc'[q] = pc[q]
             /\ pc[p] = "idle" /\ UNCHANGED context
  BY <1>2, <1>3, <1>8 DEF RunAgent, Begin
<1>9. ASSUME NEW p \in Critics, \E reply \in Replies : AskCritic(p, reply)
      PROVE  (\A q \in Threads \ {p} : pc'[q] = pc[q]) /\ UNCHANGED context
  <2>1. PICK reply \in Replies : AskCritic(p, reply)
    BY <1>9
  <2>2. \/ \E what : Answer(p, what)
        \/ \E at : Goto(p, at)
    <3> DEFINE text == CompleteSimple(reply)
    <3>1. CASE CriticAccepts(text)
      BY <2>1, <3>1 DEF AskCritic, CriticAccepts, Retried, Rendered
    <3>2. CASE text = "null"
      BY <2>1, <3>2 DEF AskCritic, CriticAccepts, Retried
    <3>3. CASE ~CriticAccepts(text) /\ text # "null"
      BY <2>1, <3>3 DEF AskCritic, Retried, AfterFailure
    <3>4. QED
      BY <3>1, <3>2, <3>3
  <2>3. UNCHANGED context
    BY <2>1 DEF AskCritic
  <2>4. QED
    BY <1>2, <1>3, <2>2, <2>3
<1>10. ASSUME NEW p \in Critics, NEW key, NEW override, Evaluate(p, key, override)
       PROVE  (\A q \in Threads \ {p} : pc'[q] = pc[q]) /\ UNCHANGED context
  BY <1>2, <1>3, <1>10 DEF Evaluate
<1>11. ASSUME NEW p \in Judges,
              \/ LoseAgent(p)
              \/ \E reply \in Replies : AskJudge(p, reply)
              \/ SaveEvaluation(p)
              \/ \E key, r : FetchRun(p, key, r)
       PROVE  (\A q \in Threads \ {p} : pc'[q] = pc[q]) /\ UNCHANGED context
  BY <1>2, <1>3, <1>11 DEF LoseAgent, AskJudge, SaveEvaluation, FetchRun
<1>12. CASE \E p \in Threads : Step(p)
  <2>1. PICK p \in Threads : Step(p)
    BY <1>12
  <2>2. CASE p \in Runners
    BY <1>4, <1>5, <1>6, <1>7, <2>1, <2>2 DEF Step
  <2>3. CASE p \in Critics
    BY <1>9, <2>1, <2>3 DEF Step
  <2>4. CASE p \in Judges
    BY <1>11, <2>1, <2>4 DEF Step
  <2>5. QED
    BY <2>1, <2>2, <2>3, <2>4 DEF Step
<1>13. CASE \E key \in Keys \cup {NoKey} :
              \/ \E p \in Runners, tenant \in Tenants : RunAgent(p, key, tenant)
              \/ \E p \in Critics, override \in {"none", "listed", "unlisted"} :
                    Evaluate(p, key, override)
              \/ \E p \in Judges, r \in Runners : FetchRun(p, key, r)
  BY <1>8, <1>10, <1>11, <1>13
<1>14. QED
  BY <1>12, <1>13 DEF Next

LEMMA SectionInit == Init => SectionInv
<1> SUFFICES ASSUME Init PROVE SectionInv
  OBVIOUS
<1>1. CallsInv
  BY CallsInit
<1>2. \A p \in Runners : SectionAdds(p)
  BY DEF Init, SectionAdds
<1>3. QED
  BY <1>1, <1>2 DEF SectionInv

LEMMA SectionStep == SectionInv /\ [Next]_vars => SectionInv'
<1> SUFFICES ASSUME SectionInv, [Next]_vars PROVE SectionInv'
  OBVIOUS
<1> USE ThreadsApart
<1>1. CallsInv /\ CallsInv' /\ \A p \in Runners : SectionAdds(p)
  BY CallsStep DEF SectionInv
<1>2. CASE Next
  <2>1. PICK p \in Threads :
              /\ \A q \in Threads \ {p} : pc'[q] = pc[q]
              /\ \A q \in Runners \ {p} : context'[q] = context[q]
              /\ p \in Runners =>
                   \/ \E budget \in Budgets, base \in Bases, summaries \in Summaries :
                         BuildSection(p, budget, base, summaries)
                   \/ IncludeSummary(p)
                   \/ context'[p] = NoContext
                   \/ pc[p] \in {"idle", "summarise"} /\ UNCHANGED context
    BY <1>1, <1>2, OneMoves
  <2>2. \A q \in Runners \ {p} : SectionAdds(q)'
    BY <1>1, <2>1, SectionStays
  <2>3. ASSUME p \in Runners PROVE SectionAdds(p)'
    <3>1. CASE \E budget \in Budgets, base \in Bases, summaries \in Summaries :
                  BuildSection(p, budget, base, summaries)
      BY <1>1, <2>3, <3>1, BuildSectionAdds
    <3>2. CASE IncludeSummary(p)
      BY <1>1, <2>3, <3>2, IncludeSummaryAdds
    <3>3. CASE context'[p] = NoContext
      BY <2>3, <3>3, NoSection
    <3>4. CASE pc[p] \in {"idle", "summarise"} /\ UNCHANGED context
      <4>1. context[p] = NoContext
        BY <1>1, <2>3, <3>4 DEF SectionAdds
      <4>2. QED
        BY <2>3, <3>4, <4>1, NoSection
    <3>5. QED
      BY <2>1, <2>3, <3>1, <3>2, <3>3, <3>4
  <2>4. QED
    BY <1>1, <2>2, <2>3 DEF SectionInv
<1>3. CASE UNCHANGED vars
  <2>1. \A p \in Runners : SectionAdds(p)'
    BY <1>1, <1>3, SectionStays DEF vars
  <2>2. QED
    BY <1>1, <2>1 DEF SectionInv
<1>4. QED
  BY <1>2, <1>3

\* The length and the rest of the budget that a loop context section is built
\* with are those of the newest summaries it holds.
THEOREM SectionInvariant == Spec => []SectionInv
BY SectionInit, SectionStep, PTL DEF Spec

\* The section that is sent holds the newest summaries, and just as many as fit
\* together, for every budget and any number of summaries of any length.
THEOREM NewestAreKept == Spec => []NewestKept
<1>1. SectionInv => NewestKept
  BY DEF SectionInv, SectionAdds, NewestKept
<1>2. QED
  BY <1>1, SectionInvariant, PTL

-----------------------------------------------------------------------------
(* Every request ends.                                                     *)

\* The stages each kind of request goes through.
Placed(p) ==
    /\ p \in Runners => pc[p] \in {"idle", "truncate", "complete", "summarise", "over"}
    /\ p \in Critics => pc[p] \in {"idle", "ask", "over"}
    /\ p \in Judges => pc[p] \in {"idle", "call", "save", "over"}

PlacedInv == SectionInv /\ \A p \in Threads : Placed(p)

\* The steps a request has left at most: with a loop context, one for each
\* prior summary that is not included yet; for a critic, the tries it has left.
WorkLeft(p) ==
    CASE pc[p] = "idle"      -> MaxSummaries + 5
      [] pc[p] = "truncate"  -> IF context[p] = NoContext THEN MaxSummaries + 4
                                ELSE Len(context[p].summaries) - context[p].included + 3
      [] pc[p] = "complete"  -> 2
      [] pc[p] = "summarise" -> 1
      [] pc[p] = "ask"       -> 3 - critic[p].tries
      [] pc[p] = "call"      -> 2
      [] pc[p] = "save"      -> 1
      [] pc[p] = "over"      -> 0

\* One request has moved, and has less work left than before.
Nearer(p) ==
    /\ WorkLeft(p) \in Nat /\ WorkLeft(p)' \in Nat
    /\ WorkLeft(p)' < WorkLeft(p)
    /\ \A q \in Threads \ {p} : WorkLeft(q)' = WorkLeft(q)

\* What the work left is, case by case, before and after a step.
LEMMA WorkLeftIs ==
    ASSUME NEW p
    PROVE  /\ pc[p] = "idle" => WorkLeft(p) = MaxSummaries + 5
           /\ pc[p] = "truncate" /\ context[p] = NoContext =>
                WorkLeft(p) = MaxSummaries + 4
           /\ pc[p] = "truncate" /\ context[p] # NoContext =>
                WorkLeft(p) = Len(context[p].summaries) - context[p].included + 3
           /\ pc[p] = "complete" => WorkLeft(p) = 2
           /\ pc[p] = "summarise" => WorkLeft(p) = 1
           /\ pc[p] = "ask" => WorkLeft(p) = 3 - critic[p].tries
           /\ pc[p] = "call" => WorkLeft(p) = 2
           /\ pc[p] = "save" => WorkLeft(p) = 1
           /\ pc[p] = "over" => WorkLeft(p) = 0
BY DEF WorkLeft

LEMMA WorkLeftThen ==
    ASSUME NEW p
    PROVE  /\ pc'[p] = "truncate" /\ context'[p] = NoContext =>
                WorkLeft(p)' = MaxSummaries + 4
           /\ pc'[p] = "truncate" /\ context'[p] # NoContext =>
                WorkLeft(p)' = Len(context'[p].summaries) - context'[p].included + 3
           /\ pc'[p] = "complete" => WorkLeft(p)' = 2
           /\ pc'[p] = "summarise" => WorkLeft(p)' = 1
           /\ pc'[p] = "ask" => WorkLeft(p)' = 3 - critic'[p].tries
           /\ pc'[p] = "call" => WorkLeft(p)' = 2
           /\ pc'[p] = "save" => WorkLeft(p)' = 1
           /\ pc'[p] = "over" => WorkLeft(p)' = 0
BY DEF WorkLeft

\* Who does not move has as much work left as before.
LEMMA WorkStays ==
    ASSUME PlacedInv, NEW p \in Threads, pc'[p] = pc[p],
           p \in Runners => context'[p] = context[p],
           p \in Critics => critic'[p] = critic[p]
    PROVE  WorkLeft(p)' = WorkLeft(p) /\ Placed(p)'
<1> USE ThreadsApart
<1>1. Placed(p) /\ p \in Runners \cup Critics \cup Judges
  BY DEF PlacedInv, Threads
<1>2. CASE p \in Runners
  <2>1. pc[p] # "ask" /\ context'[p] = context[p]
    BY <1>1, <1>2 DEF Placed
  <2>2. QED
    BY <1>1, <2>1 DEF WorkLeft, Placed
<1>3. CASE p \in Critics
  <2>1. pc[p] # "truncate" /\ critic'[p] = critic[p]
    BY <1>1, <1>3 DEF Placed
  <2>2. QED
    BY <1>1, <2>1 DEF WorkLeft, Placed
<1>4. CASE p \in Judges
  <2>1. pc[p] # "truncate" /\ pc[p] # "ask"
    BY <1>1, <1>4 DEF Placed
  <2>2. QED
    BY <1>1, <2>1 DEF WorkLeft, Placed
<1>5. QED
  BY <1>1, <1>2, <1>3, <1>4

\* Where a step that goes on, or answers, leads.
LEMMA MovedTo ==
    ASSUME CallsInv, NEW p \in Threads, NEW at,
           Goto(p, at) \/ (at = "over" /\ \E what : Answer(p, what))
    PROVE  pc'[p] = at /\ \A q \in Threads \ {p} : pc'[q] = pc[q]
<1>1. TypeOK
  BY DEF CallsInv
<1>2. QED
  BY <1>1 DEF TypeOK, Goto, Answer

\* A step of p alone to where it has less work left.
LEMMA MovesNearer ==
    ASSUME PlacedInv, NEW p \in Threads,
           \A q \in Threads \ {p} : pc'[q] = pc[q],
           \A q \in Runners \ {p} : context'[q] = context[q],
           \A q \in Critics \ {p} : critic'[q] = critic[q],
           WorkLeft(p) \in Nat, WorkLeft(p)' \in Nat, WorkLeft(p)' < WorkLeft(p),
           Placed(p)'
    PROVE  Nearer(p) /\ \A q \in Threads : Placed(q)'
BY WorkStays DEF Nearer

LEMMA RunAgentNearer ==
    ASSUME PlacedInv, NEW p \in Runners, NEW key, NEW tenant, RunAgent(p, key, tenant)
    PROVE  Nearer(p) /\ \A q \in Threads : Placed(q)'
<1> USE ThreadsApart
<1>1. pc[p] = "idle" /\ UNCHANGED <<context, critic>> /\ CallsInv
  BY DEF RunAgent, Begin, PlacedInv, SectionInv
<1>2. context[p] = NoContext
  BY <1>1 DEF PlacedInv, SectionInv, SectionAdds
<1>3. \/ \E what : Answer(p, what)
      \/ Goto(p, "truncate") \/ Goto(p, "complete")
  BY DEF RunAgent
<1>4. /\ pc'[p] \in {"over", "truncate", "complete"}
      /\ \A q \in Threads \ {p} : pc'[q] = pc[q]
  BY <1>1, <1>3, MovedTo
<1>5. WorkLeft(p) = MaxSummaries + 5
  BY <1>1, WorkLeftIs
<1>6. WorkLeft(p)' \in {0, MaxSummaries + 4, 2}
  BY <1>1, <1>2, <1>4, WorkLeftThen
<1>7. MaxSummaries \in Nat /\ Placed(p)'
  BY <1>4, ModelCallsAssumption DEF Placed
<1>8. QED
  BY <1>1, <1>4, <1>5, <1>6, <1>7, MovesNearer

LEMMA BuildSectionNearer ==
    ASSUME PlacedInv, NEW p \in Runners, NEW budget \in Budgets, NEW base \in Bases,
           NEW summaries \in Summaries, BuildSection(p, budget, base, summaries)
    PROVE  Nearer(p) /\ \A q \in Threads : Placed(q)'
<1> USE ThreadsApart
<1> DEFINE c == [budget |-> budget, base |-> base, summaries |-> summaries,
                 included |-> 0, remaining |-> Remaining(budget, base),
                 length |-> base]
<1>1. /\ pc[p] = "truncate" /\ context[p] = NoContext /\ CallsInv
      /\ UNCHANGED critic /\ context' = [context EXCEPT ![p] = c]
  BY DEF BuildSection, PlacedInv, SectionInv
<1>2. context'[p] = c /\ \A q \in Runners \ {p} : context'[q] = context[q]
  BY <1>1 DEF CallsInv, TypeOK
<1>3. /\ pc'[p] \in {"complete", "truncate"}
      /\ \A q \in Threads \ {p} : pc'[q] = pc[q]
  <2>1. Goto(p, "complete") \/ Goto(p, "truncate")
    BY DEF BuildSection
  <2>2. QED
    BY <1>1, <2>1, MovedTo
<1>4. c.summaries = summaries /\ c.included = 0
  OBVIOUS
<1>5. Len(summaries) \in 0..MaxSummaries /\ MaxSummaries \in Nat
  BY ModelCallsAssumption DEF Summaries
<1>6. WorkLeft(p) = MaxSummaries + 4
  BY <1>1, WorkLeftIs
<1> HIDE DEF c
<1>7. WorkLeft(p)' \in Nat /\ WorkLeft(p)' < MaxSummaries + 4
  <2>1. CASE pc'[p] = "complete"
    BY <1>5, <2>1, WorkLeftThen
  <2>2. CASE pc'[p] = "truncate" /\ c # NoContext
    <3>1. WorkLeft(p)' = Len(summaries) - 0 + 3
      BY <1>2, <1>4, <2>2, WorkLeftThen
    <3>2. QED
      BY <1>5, <3>1
  <2>3. c # NoContext
    <3>1. budget \in Int /\ base \in Nat /\ Header \in Nat \ {0}
      BY ModelCallsAssumption
    <3>2. /\ c.budget = budget /\ c.base = base
          /\ c.remaining = budget - base - Header
      BY DEF c, Remaining
    <3>3. NoContext.budget = 0 /\ NoContext.base = 0 /\ NoContext.remaining = 0
      BY DEF NoContext
    <3>4. QED
      BY <3>1, <3>2, <3>3
  <2>4. QED
    BY <1>3, <2>1, <2>2, <2>3
<1>8. Placed(p)'
  BY <1>3 DEF Placed
<1>9. QED
  BY <1>1, <1>2, <1>3, <1>5, <1>6, <1>7, <1>8, MovesNearer

LEMMA IncludeSummaryNearer ==
    ASSUME PlacedInv, NEW p \in Runners, IncludeSummary(p)
    PROVE  Nearer(p) /\ \A q \in Threads : Placed(q)'
<1> USE ThreadsApart
<1> DEFINE c == context[p]
           d == [c EXCEPT !.included = @ + 1, !.remaining = @ - Entry(c),
                          !.length = @ + Entry(c)
                                       + (IF c.included = 0 THEN Header ELSE 0)]
<1>1. /\ pc[p] = "truncate" /\ c # NoContext /\ CallsInv /\ UNCHANGED critic
      /\ c \in Context /\ ContextAdds(c)
  BY DEF IncludeSummary, PlacedInv, SectionInv, CallsInv, TypeOK
<1>2. WorkLeft(p) = Len(c.summaries) - c.included + 3
  BY <1>1, WorkLeftIs
<1>3. c.included \in Nat /\ Len(c.summaries) \in Nat /\ c.included <= Len(c.summaries)
  BY <1>1 DEF Context, ContextAdds
<1>4. \A q \in Runners \ {p} : context'[q] = context[q]
  BY <1>1 DEF IncludeSummary, CallsInv, TypeOK
<1>5. CASE c.included = Len(c.summaries) \/ ~Fits(c)
  <2>1. Goto(p, "complete")
    BY <1>5 DEF IncludeSummary
  <2>2. pc'[p] = "complete" /\ \A q \in Threads \ {p} : pc'[q] = pc[q]
    BY <1>1, <2>1, MovedTo
  <2>3. WorkLeft(p)' = 2 /\ Placed(p)'
    BY <2>2, WorkLeftThen DEF Placed
  <2> HIDE DEF c
  <2>4. WorkLeft(p) \in Nat /\ 2 < WorkLeft(p)
    BY <1>2, <1>3
  <2>5. QED
    BY <1>1, <1>4, <2>2, <2>3, <2>4, MovesNearer
<1>6. CASE ~(c.included = Len(c.summaries) \/ ~Fits(c))
  <2>1. Goto(p, "truncate") /\ context'[p] = d
    BY <1>1, <1>6 DEF IncludeSummary, CallsInv, TypeOK
  <2>2. pc'[p] = "truncate" /\ \A q \in Threads \ {p} : pc'[q] = pc[q]
    BY <1>1, <2>1, MovedTo
  <2>3. d.included = c.included + 1 /\ d.summaries = c.summaries
    BY <1>1 DEF Context
  <2>4. d # NoContext
    <3>1. NoContext.included = 0
      BY DEF NoContext
    <3> HIDE DEF d, c
    <3>2. QED
      BY <1>3, <2>3, <3>1
  <2> HIDE DEF d
  <2>5. WorkLeft(p)' = Len(c.summaries) - (c.included + 1) + 3 /\ Placed(p)'
    BY <2>1, <2>2, <2>3, <2>4, WorkLeftThen DEF Placed
  <2> HIDE DEF c
  <2>6. WorkLeft(p) \in Nat /\ WorkLeft(p)' \in Nat /\ WorkLeft(p)' < WorkLeft(p)
    BY <1>2, <1>3, <1>6, <2>5
  <2>7. QED
    BY <1>1, <1>4, <2>2, <2>5, <2>6, MovesNearer
<1>7. QED
  BY <1>5, <1>6

\* A run that is past its context, or a judge that has begun.
LEMMA LateStepNearer ==
    ASSUME PlacedInv, NEW p \in Threads, UNCHANGED critic,
           \A q \in Runners \ {p} : context'[q] = context[q],
           \/ /\ p \in Runners
              /\ \/ pc[p] = "complete" /\ Goto(p, "summarise")
                 \/ pc[p] \in {"complete", "summarise"} /\ \E what : Answer(p, what)
           \/ /\ p \in Judges
              /\ \/ pc[p] = "call" /\ Goto(p, "save")
                 \/ pc[p] \in {"call", "save"} /\ \E what : Answer(p, what)
    PROVE  Nearer(p) /\ \A q \in Threads : Placed(q)'
<1> USE ThreadsApart
<1>1. CallsInv
  BY DEF PlacedInv, SectionInv
<1>2. /\ \A q \in Threads \ {p} : pc'[q] = pc[q]
      /\ \/ pc[p] = "complete" /\ pc'[p] = "summarise" /\ p \in Runners
         \/ pc[p] = "call" /\ pc'[p] = "save" /\ p \in Judges
         \/ pc[p] \in {"complete", "summarise", "call", "save"} /\ pc'[p] = "over"
  BY <1>1, MovedTo
<1>3. WorkLeft(p) \in Nat /\ WorkLeft(p)' \in Nat /\ WorkLeft(p)' < WorkLeft(p)
  BY <1>2, WorkLeftIs, WorkLeftThen
<1>4. Placed(p)'
  BY <1>2 DEF Placed
<1>5. QED
  BY <1>2, <1>3, <1>4, MovesNearer

LEMMA EvaluateNearer ==
    ASSUME PlacedInv, NEW p \in Critics, NEW key, NEW override, Evaluate(p, key, override)
    PROVE  Nearer(p) /\ \A q \in Threads : Placed(q)'
<1> USE ThreadsApart
<1>1. /\ pc[p] = "idle" /\ UNCHANGED <<context, critic>> /\ CallsInv /\ CriticKept(p)
      /\ critic[p] \in Attempts
  BY DEF Evaluate, Begin, PlacedInv, SectionInv, CallsInv, TypeOK
<1>2. Goto(p, "ask") \/ \E what : Answer(p, what)
  BY DEF Evaluate
<1>3. pc'[p] \in {"over", "ask"} /\ \A q \in Threads \ {p} : pc'[q] = pc[q]
  BY <1>1, <1>2, MovedTo
<1>4. critic[p].tries \in {0, 1}
  BY <1>1 DEF CriticKept
<1>5. WorkLeft(p) = MaxSummaries + 5 /\ WorkLeft(p)' \in {0, 3 - critic[p].tries}
  BY <1>1, <1>3, WorkLeftIs, WorkLeftThen
<1>6. MaxSummaries \in Nat /\ Placed(p)'
  BY <1>3, ModelCallsAssumption DEF Placed
<1>7. QED
  BY <1>1, <1>3, <1>4, <1>5, <1>6, MovesNearer

LEMMA AskCriticNearer ==
    ASSUME PlacedInv, NEW p \in Critics, NEW reply \in Replies, AskCritic(p, reply)
    PROVE  Nearer(p) /\ \A q \in Threads : Placed(q)'
<1> USE ThreadsApart
<1> DEFINE text == CompleteSimple(reply)
           tries == critic[p].tries + 1
<1>1. /\ pc[p] = "ask" /\ UNCHANGED context /\ CallsInv /\ CriticKept(p) /\ TypeOK
  BY DEF AskCritic, PlacedInv, SectionInv, CallsInv
<1>2. critic[p].tries \in {0, 1}
  BY <1>1 DEF CriticKept
<1>3. critic'[p].tries = tries /\ \A q \in Critics \ {p} : critic'[q] = critic[q]
  BY <1>1 DEF AskCritic, Attempt, TypeOK
<1>4. (\E what : Answer(p, what)) \/ (Goto(p, "ask") /\ tries # 2)
  <2>1. CASE CriticAccepts(text)
    BY <2>1 DEF AskCritic, CriticAccepts, Retried
  <2>2. CASE text = "null"
    BY <2>2 DEF AskCritic, CriticAccepts, Retried
  <2>3. CASE ~CriticAccepts(text) /\ text # "null"
    BY <2>3 DEF AskCritic, Retried, AfterFailure, Attempt
  <2>4. QED
    BY <2>1, <2>2, <2>3
<1>5. /\ \A q \in Threads \ {p} : pc'[q] = pc[q]
      /\ pc'[p] = "over" \/ (pc'[p] = "ask" /\ tries # 2)
  BY <1>1, <1>4, MovedTo
<1>6. WorkLeft(p) = 3 - critic[p].tries
  BY <1>1, WorkLeftIs
<1>7. WorkLeft(p)' \in {0, 3 - (critic[p].tries + 1)}
  BY <1>3, <1>5, WorkLeftThen
<1>8. Placed(p)'
  BY <1>5 DEF Placed
<1>9. WorkLeft(p) \in Nat /\ WorkLeft(p)' \in Nat /\ WorkLeft(p)' < WorkLeft(p)
  BY <1>2, <1>6, <1>7
<1>10. QED
  BY <1>1, <1>3, <1>5, <1>8, <1>9, MovesNearer

LEMMA FetchRunNearer ==
    ASSUME PlacedInv, NEW p \in Judges, NEW key, NEW r, FetchRun(p, key, r)
    PROVE  Nearer(p) /\ \A q \in Threads : Placed(q)'
<1> USE ThreadsApart
<1>1. pc[p] = "idle" /\ UNCHANGED <<context, critic>> /\ CallsInv
  BY DEF FetchRun, Begin, PlacedInv, SectionInv
<1>2. Goto(p, "call") \/ \E what : Answer(p, what)
  BY DEF FetchRun
<1>3. pc'[p] \in {"over", "call"} /\ \A q \in Threads \ {p} : pc'[q] = pc[q]
  BY <1>1, <1>2, MovedTo
<1>4. WorkLeft(p) = MaxSummaries + 5 /\ WorkLeft(p)' \in {0, 2}
  BY <1>1, <1>3, WorkLeftIs, WorkLeftThen
<1>5. MaxSummaries \in Nat /\ Placed(p)'
  BY <1>3, ModelCallsAssumption DEF Placed
<1>6. QED
  BY <1>1, <1>3, <1>4, <1>5, MovesNearer

\* Every step brings one request nearer to its end and no other further off.
LEMMA StepNearer ==
    ASSUME PlacedInv, Next
    PROVE  (\E p \in Threads : Nearer(p)) /\ \A q \in Threads : Placed(q)'
<1> USE ThreadsApart
<1>1. ASSUME NEW p \in Runners, NEW reply \in Replies,
             CompleteRun(p, reply) \/ Summarise(p, reply)
      PROVE  Nearer(p) /\ \A q \in Threads : Placed(q)'
  <2>1. /\ \/ pc[p] = "complete" /\ Goto(p, "summarise")
           \/ pc[p] \in {"complete", "summarise"} /\ \E what : Answer(p, what)
        /\ UNCHANGED critic
    BY <1>1 DEF CompleteRun, Summarise, EndRun
  <2>2. \A q \in Runners \ {p} : context'[q] = context[q]
    BY <1>1 DEF CompleteRun, Summarise, PlacedInv, SectionInv, CallsInv, TypeOK
  <2>3. QED
    BY <2>1, <2>2, LateStepNearer
<1>2. ASSUME NEW p \in Judges, NEW reply \in Replies,
             LoseAgent(p) \/ AskJudge(p, reply) \/ SaveEvaluation(p)
      PROVE  Nearer(p) /\ \A q \in Threads : Placed(q)'
  <2>1. /\ \/ pc[p] = "call" /\ Goto(p, "save")
           \/ pc[p] \in {"call", "save"} /\ \E what : Answer(p, what)
        /\ UNCHANGED <<critic, context>>
    BY <1>2 DEF LoseAgent, AskJudge, SaveEvaluation
  <2>2. QED
    BY <2>1, LateStepNearer
<1>3. "error" \in Replies
  BY DEF Replies
<1>4. CASE \E p \in Threads : Step(p)
  <2>1. PICK p \in Threads : Step(p)
    BY <1>4
  <2>2. CASE p \in Runners
    BY <1>1, <2>1, <2>2, BuildSectionNearer, IncludeSummaryNearer DEF Step
  <2>3. CASE p \in Critics
    BY <2>1, <2>3, AskCriticNearer DEF Step
  <2>4. CASE p \in Judges
    BY <1>2, <1>3, <2>1, <2>4 DEF Step
  <2>5. QED
    BY <2>1, <2>2, <2>3, <2>4 DEF Step
<1>5. CASE \E key \in Keys \cup {NoKey} :
              \/ \E p \in Runners, tenant \in Tenants : RunAgent(p, key, tenant)
              \/ \E p \in Critics, override \in {"none", "listed", "unlisted"} :
                    Evaluate(p, key, override)
              \/ \E p \in Judges, r \in Runners : FetchRun(p, key, r)
  BY <1>5, RunAgentNearer, EvaluateNearer, FetchRunNearer
<1>6. QED
  BY <1>4, <1>5 DEF Next

LEMMA PlacedInit == Init => PlacedInv
<1> SUFFICES ASSUME Init PROVE PlacedInv
  OBVIOUS
<1>1. SectionInv
  BY SectionInit
<1>2. \A p \in Threads : Placed(p)
  BY DEF Init, Placed
<1>3. QED
  BY <1>1, <1>2 DEF PlacedInv

LEMMA PlacedStep == PlacedInv /\ [Next]_vars => PlacedInv'
<1> SUFFICES ASSUME PlacedInv, [Next]_vars PROVE PlacedInv'
  OBVIOUS
<1>1. SectionInv'
  BY SectionStep DEF PlacedInv
<1>2. CASE Next
  BY <1>1, <1>2, StepNearer DEF PlacedInv
<1>3. CASE UNCHANGED vars
  BY <1>1, <1>3 DEF PlacedInv, Placed, vars
<1>4. QED
  BY <1>2, <1>3

\* Each step of the system brings one request nearer to its end and leaves the
\* work of all others as it is: no request is begun twice, no critic asks for
\* ever and no summary is looked at again, whatever the model replies.
THEOREM StepsRunOut == Spec => [][\E p \in Threads : Nearer(p)]_vars
<1>1. PlacedInv /\ [Next]_vars => [\E p \in Threads : Nearer(p)]_vars
  BY StepNearer
<1>2. QED
  BY <1>1, PlacedInit, PlacedStep, PTL DEF Spec

=============================================================================
