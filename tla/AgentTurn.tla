----------------------------- MODULE AgentTurn -----------------------------
(***************************************************************************)
(* Turns of the agent (server/agent): each passes the gate, may be served  *)
(* from the completion cache, assembles its context, plans, lets the model *)
(* call tools through the one chokepoint runTool, heals itself within a    *)
(* budget, verifies, and records what became of it.  A model call and a    *)
(* call of lifeos-api may fail at any time, an answer of the latter may be *)
(* lost, and the model may ask for several tools at once.                  *)
(***************************************************************************)
EXTENDS Naturals, FiniteSets

CONSTANTS
  Turns,
  Prompts, Multi, Actiony,    \* needsPlanning and looksActiony of a prompt
  Tools, Writes, Gated, Forbidden, \* the registry and its classification
  Substitutable,              \* keys of SUBSTITUTES
  Lanes,                      \* tool calls of one turn that may overlap
  MAX_STEPS, RECOVERY_BUDGET, QUERY_BREAKER_THRESHOLD,
  DailyBudget,                \* dailyTokenBudget, a query costing one token
  ApiKey,                     \* isCacheMode()
  None

ASSUME AgentAssumption ==
  /\ Multi \subseteq Prompts /\ Actiony \subseteq Prompts
  /\ Writes \cup Gated \cup Forbidden \cup Substitutable \subseteq Tools
  /\ Substitutable \cap (Writes \cup Gated \cup Forbidden) = {}
  /\ {MAX_STEPS, RECOVERY_BUDGET, QUERY_BREAKER_THRESHOLD, DailyBudget} \subseteq Nat
  /\ ApiKey \in BOOLEAN /\ IsFiniteSet(Lanes)
  /\ None \notin {"first", "second", "gated"}

VARIABLES
  turn,     \* the ctx of each turn
  call,     \* the tool calls in flight
  spent,    \* tokens of today's agent.turn events
  cache,    \* prompts with a stored completion
  planRow,  \* the pipeline_run row of a turn: its status, or None
  done      \* history: what each turn changed outside itself

Pcs == {"idle", "gate", "spend", "probe", "context", "rewrite", "plan", "execute", "replan",
        "replanned", "critique", "refine", "judge", "exhausted", "degrade", "final",
        "persist", "failed", "ended", "dead"}
CallPcs == {None, "first", "second", "gated"}
Outcomes == {"gate_unavailable", "kill_switch", "budget_exhausted", "completed", "abstained",
             "awaiting_approval", "degraded", "step_budget_exhausted", "failed"}
Kinds == {"paused", "exhausted", "denied", "strategy", "escalation", "turn", "memory", "lesson"}

Contexts ==
  [pc : Pcs, prompt : Prompts \cup {None}, dryRun : BOOLEAN, steps : Nat,
   ledger : SUBSET BOOLEAN, pending : BOOLEAN, budget : Nat, overdraft : Nat,
   argRepaired : SUBSET Tools, replanned : BOOLEAN, queryFailures : Nat,
   breakerOpen : BOOLEAN, weak : BOOLEAN, plan : BOOLEAN, tokens : Nat,
   unsure : BOOLEAN, outcome : Outcomes \cup {None}]

TypeOK ==
  /\ turn \in [Turns -> Contexts]
  /\ call \in [Turns -> [Lanes -> [pc : CallPcs, tool : Tools \cup {None}, stale : BOOLEAN]]]
  /\ spent \in Nat /\ cache \subseteq Prompts \cup {None}
  /\ planRow \in [Turns -> {"running", None} \cup Outcomes]
  /\ done \in [Turns -> [posts : SUBSET Kinds, acted : BOOLEAN]]

vars == <<turn, call, spent, cache, planRow, done>>
NoCall == [pc |-> None, tool |-> None, stale |-> FALSE]

NewTurn ==
  [pc |-> "idle", prompt |-> None, dryRun |-> FALSE,
   steps |-> 0, ledger |-> {}, pending |-> FALSE,
   budget |-> RECOVERY_BUDGET, overdraft |-> 0, argRepaired |-> {}, replanned |-> FALSE,
   queryFailures |-> 0, breakerOpen |-> FALSE,
   weak |-> FALSE, plan |-> FALSE, tokens |-> 0, unsure |-> FALSE,
   outcome |-> None]

InitWith(ctx) ==
  /\ turn = [t \in Turns |-> ctx]
  /\ call = [t \in Turns |-> [l \in Lanes |-> NoCall]]
  /\ spent \in 0..DailyBudget /\ cache \in SUBSET Prompts   \* of earlier turns
  /\ planRow = [t \in Turns |-> None]
  /\ done = [t \in Turns |-> [posts |-> {}, acted |-> FALSE]]

Init == InitWith(NewTurn)

----
(* Helpers: a step of turn t that replaces its context. *)

At(t, pc) == turn[t].pc = pc
Becomes(t, ctx) == turn' = [turn EXCEPT ![t] = ctx]
\* runAgentTurn returns, and its ctx is dropped.  A call it left in flight charges that
\* ctx still, here the new one: nobody reads either, and each order is also one before the end.
Ends(t, outcome) ==
  Becomes(t, [NewTurn EXCEPT !.pc = "ended", !.dryRun = turn[t].dryRun, !.outcome = outcome])
Goes(t, pc) == Becomes(t, [turn[t] EXCEPT !.pc = pc])
HasBudget(ctx) == ctx.budget > 0
CacheEligible(t) ==
  ApiKey /\ turn[t].prompt \notin Multi \cup Actiony /\ ~turn[t].dryRun
IsQuestion(t) == turn[t].prompt \notin Actiony

\* recordRecovery; Nat has no room below zero, so what is owed is kept apart.
RecordRecovery(ctx) ==
  IF ctx.budget > 0 THEN [ctx EXCEPT !.budget = @ - 1]
                    ELSE [ctx EXCEPT !.overdraft = @ + 1]

\* Best-effort writes that a turn attempts when it is not a dry run.
Posts(t, kinds) ==
  done' = [done EXCEPT ![t].posts = IF turn[t].dryRun THEN @ ELSE @ \cup kinds]

\* wrapQueryFnWithBreaker: what a model call that ends, or throws, leaves.
QueryOk(ctx) == [ctx EXCEPT !.queryFailures = 0]
QueryThrew(ctx) ==
  IF ctx.breakerOpen THEN ctx
  ELSE [ctx EXCEPT !.queryFailures = @ + 1,
                   !.breakerOpen = ctx.queryFailures + 1 >= QUERY_BREAKER_THRESHOLD]
Answers(ctx) == ~ctx.breakerOpen

\* addUsage: the tokens of a call are on its result message.  Counts beyond the
\* budget are alike.
Capped(n) == IF n > DailyBudget THEN DailyBudget ELSE n
Spend(ctx) == [QueryOk(ctx) EXCEPT !.tokens = Capped(@ + 1)]
----
(* The gate, the cache and the context. *)

Start(t, prompt, dryRun) ==
  /\ At(t, "idle")
  /\ Becomes(t, [turn[t] EXCEPT !.pc = "gate", !.prompt = prompt, !.dryRun = dryRun])
  /\ UNCHANGED <<call, spent, cache, planRow, done>>

\* A refusal of the gate ends the turn with an event at most.
Refuse(t, outcome, kinds) ==
  /\ Ends(t, outcome)
  /\ Posts(t, kinds)
  /\ UNCHANGED <<call, spent, cache, planRow>>

ReadGateConfig(t) ==
  /\ At(t, "gate")
  /\ \/ Refuse(t, "gate_unavailable", {})
     \/ Refuse(t, "kill_switch", {"paused"})
     \/ Goes(t, "spend") /\ UNCHANGED <<call, spent, cache, planRow, done>>

\* An answer that is not ok counts as no config here, and as no events there.
SumTodaysTokens(t) ==
  /\ At(t, "spend")
  /\ \/ Refuse(t, "gate_unavailable", {})
     \/ \E seen \in {spent, 0} :
          \/ seen >= DailyBudget /\ Refuse(t, "budget_exhausted", {"exhausted"})
          \/ /\ seen < DailyBudget
             /\ Goes(t, IF CacheEligible(t) THEN "probe" ELSE "context")
             /\ UNCHANGED <<call, spent, cache, planRow, done>>

\* The exact layer finds the prompt, the semantic one a prompt near to it.
Probe(t) ==
  /\ At(t, "probe")
  /\ \/ /\ cache # {}
        /\ Becomes(t, [turn[t] EXCEPT !.pc = "final", !.outcome = "completed"])
     \/ Goes(t, "context")
  /\ UNCHANGED <<call, spent, cache, planRow, done>>

AfterContext(t) == IF turn[t].prompt \in Multi THEN "plan" ELSE "execute"

\* The snapshot, the recent turns and the recalled memory; correctiveRetrieve
\* grades what a question recalled.
AssembleContext(t) ==
  /\ At(t, "context")
  /\ \/ Goes(t, AfterContext(t))
     \/ IsQuestion(t) /\ Goes(t, "rewrite")
  /\ UNCHANGED <<call, spent, cache, planRow, done>>

\* One rewrite and a second recall; its outcome is logged in a dry run too.
CorrectiveRetrieve(t) ==
  /\ At(t, "rewrite")
  /\ \/ /\ Answers(turn[t])
        /\ \E weak \in BOOLEAN :
             Becomes(t, [QueryOk(turn[t]) EXCEPT !.pc = AfterContext(t), !.weak = weak])
        /\ done' = [done EXCEPT ![t].posts = @ \cup {"strategy"}]
     \/ /\ Becomes(t, [QueryThrew(turn[t]) EXCEPT !.pc = AfterContext(t), !.weak = TRUE])
        /\ UNCHANGED done
  /\ UNCHANGED <<call, spent, cache, planRow>>

\* generatePlan and persistPlan; a plan that does not parse throws as well,
\* after a model call that ended.
GeneratePlan(t) ==
  /\ At(t, "plan")
  /\ \/ /\ Answers(turn[t])
        /\ Becomes(t, [Spend(turn[t]) EXCEPT !.pc = "execute", !.plan = TRUE])
        /\ \E status \in {"running", None} :
             planRow' = [planRow EXCEPT ![t] = IF turn[t].dryRun THEN None ELSE status]
     \/ /\ \E ctx \in {QueryThrew(turn[t])} \cup (IF Answers(turn[t]) THEN {QueryOk(turn[t])} ELSE {}) :
             Becomes(t, [ctx EXCEPT !.pc = "failed"])
        /\ UNCHANGED planRow
  /\ UNCHANGED <<call, spent, cache, done>>
----
(* Execute: the model asks for tools, and every call goes through runTool. *)

Executing(t) == turn[t].pc \in {"execute", "replanned", "refine"}
\* The ledger, of whose entries the turn uses whether there is one, and ok.
Record(ctx, ok) == [ctx EXCEPT !.ledger = @ \cup {ok}]
Stepped(ctx) ==   \* counts beyond MAX_STEPS + 1 are alike
  [ctx EXCEPT !.steps = IF @ > MAX_STEPS THEN @ ELSE @ + 1]
OverLimit(t) == turn[t].steps >= MAX_STEPS

RefuseStep(t) ==
  /\ Executing(t) /\ OverLimit(t)
  /\ Becomes(t, Record(Stepped(turn[t]), FALSE))
  /\ UNCHANGED <<call, spent, cache, planRow, done>>

\* A forbidden name, or a generated tool whose arguments leave the allowlist.
Deny(t, tool) ==
  /\ Executing(t) /\ ~OverLimit(t) /\ tool \in Forbidden
  /\ Becomes(t, Record(Stepped(turn[t]), FALSE))
  /\ Posts(t, {"denied"})
  /\ UNCHANGED <<call, spent, cache, planRow>>

DryCall(t, tool) ==
  /\ Executing(t) /\ ~OverLimit(t) /\ tool \notin Forbidden /\ turn[t].dryRun
  /\ Becomes(t, Record(Stepped(turn[t]), TRUE))
  /\ UNCHANGED <<call, spent, cache, planRow, done>>

BeginCall(t, l, tool) ==
  /\ Executing(t) /\ ~OverLimit(t) /\ tool \notin Forbidden /\ ~turn[t].dryRun
  /\ call[t][l] = NoCall
  /\ Becomes(t, Stepped(turn[t]))
  /\ call' = [call EXCEPT ![t][l] = [pc |-> IF tool \in Gated THEN "gated" ELSE "first",
                                      tool |-> tool, stale |-> FALSE]]
  /\ UNCHANGED <<spent, cache, planRow, done>>

RunTool(t, tool) ==
  RefuseStep(t) \/ Deny(t, tool) \/ DryCall(t, tool) \/ \E l \in Lanes : BeginCall(t, l, tool)

\* What the caller sees of a request: an answer, or a throw.  Only an answer
\* that is ok proves that the write was applied, only a 4xx that it was not;
\* malformed is one of ARG_REPAIR_STATUSES.
HttpResults == {"ok", "malformed", "client", "server", "throw"}
MayApply(res) == IF res = "ok" THEN {TRUE} ELSE IF res \in {"malformed", "client"} THEN {FALSE} ELSE BOOLEAN

\* mutant: hints are given, and charged, without a look at the budget
HintedAnyway(ctx, tool, res) ==
  CASE res = "malformed" /\ tool \notin ctx.argRepaired ->
         RecordRecovery([ctx EXCEPT !.argRepaired = @ \cup {tool}])
    [] res = "server" /\ tool \in Substitutable -> RecordRecovery(ctx)
    [] OTHER -> ctx

\* The rest of runAllowed, and runTool after it: hints spend the budget, a
\* throw leaves no ledger entry.
Hinted(ctx, tool, res) ==
  CASE res = "malformed" /\ tool \notin ctx.argRepaired /\ HasBudget(ctx) ->
         RecordRecovery([ctx EXCEPT !.argRepaired = @ \cup {tool}])
    [] res = "server" /\ tool \in Substitutable /\ HasBudget(ctx) -> RecordRecovery(ctx)
    [] OTHER -> ctx

Finished(ctx, tool, res) ==
  IF res = "throw" THEN ctx ELSE Record(Hinted(ctx, tool, res), res = "ok")

Applies(t, tool, res) ==
  \E applied \in MayApply(res) :
    done' = [done EXCEPT ![t].acted = @ \/ (applied /\ tool \in Writes)]

Transient(res) == res \in {"server", "throw"}
CallAt(t, l, pc) == call[t][l].pc = pc
Returns(t, l) == call' = [call EXCEPT ![t][l] = NoCall]

FirstAttempt(t, l) ==
  /\ CallAt(t, l, "first")
  /\ \E res \in HttpResults :
       LET tool == call[t][l].tool IN
       /\ Applies(t, tool, res)
       /\ IF Transient(res) /\ HasBudget(turn[t])
          THEN call' = [call EXCEPT ![t][l].pc = "second"] /\ UNCHANGED turn
          ELSE Returns(t, l) /\ Becomes(t, Finished(turn[t], tool, res))
  /\ UNCHANGED <<spent, cache, planRow>>

\* After the backoff: the retry is recorded whatever the budget is by then.
SecondAttempt(t, l) ==
  /\ CallAt(t, l, "second")
  /\ \E res \in HttpResults :
       LET tool == call[t][l].tool IN
       /\ Applies(t, tool, res)
       /\ Becomes(t, Finished(RecordRecovery(turn[t]), tool, res))
  /\ Returns(t, l)
  /\ UNCHANGED <<spent, cache, planRow>>

\* A gated tool becomes a row that waits for approval; the turn counts it as
\* pending unless the request threw.
RunGated(t, l) ==
  /\ CallAt(t, l, "gated")
  /\ \E res \in HttpResults, applied \in BOOLEAN :
       /\ applied \in MayApply(res)
       /\ done' = [done EXCEPT ![t].acted = @ \/ applied]
       /\ Becomes(t, IF res = "throw" THEN turn[t]
                     ELSE Record([turn[t] EXCEPT !.pending = TRUE], res = "ok"))
  /\ Returns(t, l)
  /\ UNCHANGED <<spent, cache, planRow>>

\* mutant: what was refined is judged again
AfterPassAgain(t) == IF turn[t].steps > MAX_STEPS THEN "exhausted"
                     ELSE IF turn[t].pending THEN "judge" ELSE "critique"

\* The query of an execute pass ends, once the tools it called have returned.
\* The step budget is looked at before the refinement, not after it ...
AfterPass(t) == IF At(t, "refine") THEN "judge"
                ELSE IF turn[t].steps > MAX_STEPS THEN "exhausted"
                ELSE IF turn[t].pending THEN "judge" ELSE "critique"

ExecuteEnds(t) ==
  /\ Executing(t) /\ Answers(turn[t])
  /\ \A l \in Lanes : call[t][l] = NoCall \/ call[t][l].stale
  /\ LET ctx == Spend(turn[t])
     IN  Becomes(t, [(IF At(t, "replanned") THEN RecordRecovery(ctx) ELSE ctx) EXCEPT !.pc = AfterPass(t)])
  /\ UNCHANGED <<call, spent, cache, planRow, done>>

\* ... or throws, and leaves the calls in flight behind.  The first pass gets
\* one replan, the refinement fails the turn.
CanReplan(ctx) == ~ctx.breakerOpen /\ ~ctx.replanned /\ ctx.plan /\ HasBudget(ctx)

ExecuteThrows(t) ==
  /\ Executing(t)
  /\ LET ctx == QueryThrew(turn[t])
     IN  Becomes(t, CASE At(t, "refine") -> [ctx EXCEPT !.pc = "failed"]
                      [] At(t, "execute") /\ CanReplan(ctx) -> [ctx EXCEPT !.pc = "replan", !.replanned = TRUE]
                      [] At(t, "execute") /\ ~CanReplan(ctx) -> [ctx EXCEPT !.pc = "degrade"]
                      [] At(t, "replanned") -> [RecordRecovery(ctx) EXCEPT !.pc = "degrade"])
  /\ call' = [call EXCEPT ![t] = [l \in Lanes |-> IF call[t][l] = NoCall THEN NoCall
                                                 ELSE [call[t][l] EXCEPT !.stale = TRUE]]]
  /\ UNCHANGED <<spent, cache, planRow, done>>

\* recoverExecuteFailure: the plan is made again; the row keeps the old one.
Replan(t) ==
  /\ At(t, "replan")
  /\ \/ Answers(turn[t]) /\ Becomes(t, [Spend(turn[t]) EXCEPT !.pc = "replanned"])
     \/ \E ctx \in {QueryThrew(turn[t]), QueryOk(turn[t])} :
          Becomes(t, [RecordRecovery(ctx) EXCEPT !.pc = "degrade"])
  /\ UNCHANGED <<call, spent, cache, planRow, done>>
----
(* Verify, abstain, store and record. *)

Critique(t) ==
  /\ At(t, "critique")
  /\ \/ /\ Answers(turn[t])
        /\ \E unsure \in BOOLEAN, next \in {"judge", "refine"} :
             Becomes(t, [Spend(turn[t]) EXCEPT !.pc = next, !.unsure = unsure])
     \/ Becomes(t, [QueryThrew(turn[t]) EXCEPT !.pc = "failed"])
  /\ UNCHANGED <<call, spent, cache, planRow, done>>

Abstains(t) ==
  /\ ~turn[t].pending /\ IsQuestion(t) /\ turn[t].weak /\ turn[t].unsure
  /\ TRUE \notin turn[t].ledger

Cacheable(t, outcome) ==
  outcome = "completed" /\ turn[t].ledger = {} /\ CacheEligible(t)

\* The outcome, and the completion stored for a turn that called no tool.
Judge(t) ==
  /\ At(t, "judge")
  /\ LET outcome == IF turn[t].pending THEN "awaiting_approval"
                    ELSE IF Abstains(t) THEN "abstained" ELSE "completed"
     IN  /\ Becomes(t, [turn[t] EXCEPT !.pc = "final", !.outcome = outcome])
         /\ \/ Cacheable(t, outcome) /\ cache' = cache \cup {turn[t].prompt}
            \/ UNCHANGED cache   \* also when the store fails
  /\ UNCHANGED <<call, spent, planRow, done>>

Escalate(t) ==
  /\ turn[t].pc \in {"exhausted", "degrade"}
  /\ Becomes(t, IF At(t, "degrade")
                THEN [turn[t] EXCEPT !.pc = "final", !.outcome = "degraded", !.tokens = 0]
                ELSE [turn[t] EXCEPT !.pc = "final", !.outcome = "step_budget_exhausted"])
  /\ Posts(t, {"escalation"})
  /\ UNCHANGED <<call, spent, cache, planRow>>

PlanStatus(outcome) ==
  IF outcome = "step_budget_exhausted" THEN "failed" ELSE outcome

\* finalize, its first write: the plan's row.
UpdatePlanStatus(t) ==
  /\ At(t, "final")
  /\ Goes(t, "persist")
  /\ \E status \in {planRow[t], PlanStatus(turn[t].outcome)} :
       planRow' = [planRow EXCEPT ![t] = IF @ = None THEN None ELSE status]
  /\ UNCHANGED <<call, spent, cache, done>>

\* ... then the agent.turn event, the memory, the outcome of the plan's prompt
\* and, of a completed turn, the lesson.
PersistTurn(t) ==
  /\ At(t, "persist")
  /\ Ends(t, turn[t].outcome)
  /\ \/ ~turn[t].dryRun /\ spent' = Capped(spent + turn[t].tokens)
     \/ UNCHANGED spent   \* also when the event is not written
  /\ \E lesson \in SUBSET {"lesson"} :
       /\ lesson # {} => turn[t].outcome = "completed" /\ Answers(turn[t])
       /\ Posts(t, {"turn", "memory"} \cup lesson \cup (IF turn[t].plan THEN {"strategy"} ELSE {}))
  /\ UNCHANGED <<call, cache, planRow>>

\* The outer catch: the turn is recorded with no tokens, and the plan's row is
\* not touched.
FailTurn(t) ==
  /\ At(t, "failed")
  /\ Ends(t, "failed")
  /\ Posts(t, {"turn", "memory"})
  /\ UNCHANGED <<call, spent, cache, planRow>>

\* The process dies; what it asked for last may have been applied before.
Die(t) ==
  /\ turn[t].pc \notin {"idle", "ended", "dead"}
  /\ Becomes(t, [NewTurn EXCEPT !.pc = "dead", !.dryRun = turn[t].dryRun, !.outcome = None])
  /\ call' = [call EXCEPT ![t] = [l \in Lanes |-> NoCall]]
  /\ UNCHANGED <<spent, cache, planRow, done>>

Step(t) ==
  \/ ReadGateConfig(t) \/ SumTodaysTokens(t) \/ Probe(t) \/ AssembleContext(t)
  \/ CorrectiveRetrieve(t) \/ GeneratePlan(t) \/ ExecuteEnds(t) \/ ExecuteThrows(t)
  \/ Replan(t) \/ Critique(t) \/ Judge(t) \/ Escalate(t) \/ UpdatePlanStatus(t)
  \/ PersistTurn(t) \/ FailTurn(t)

Answer(t, l) == FirstAttempt(t, l) \/ SecondAttempt(t, l) \/ RunGated(t, l)

Next ==
  \/ \E t \in Turns, prompt \in Prompts, dryRun \in BOOLEAN : Start(t, prompt, dryRun)
  \/ \E t \in Turns : Step(t)
  \/ \E t \in Turns, tool \in Tools : RunTool(t, tool)
  \/ \E t \in Turns, l \in Lanes : Answer(t, l)
  \/ \E t \in Turns : Die(t)

Spec == Init /\ [][Next]_vars

\* A model call ends or throws in the end, and so does a request.
Fairness == \A t \in Turns : WF_vars(Step(t)) /\ \A l \in Lanes : WF_vars(Answer(t, l))
FairSpec == Spec /\ Fairness
----
Seconds(t) == {l \in Lanes : call[t][l].pc = "second"}
Replanning(t) == IF turn[t].pc \in {"replan", "replanned"} THEN 1 ELSE 0

\* The inductive form of RecoveryBounded: what is owed when the budget is gone.
Balanced ==
  \A t \in Turns :
    /\ turn[t].overdraft > 0 => turn[t].budget = 0
    /\ turn[t].budget = 0 =>
         turn[t].overdraft + Cardinality(Seconds(t)) + Replanning(t) <= Cardinality(Lanes)

\* The recovery budget is shared by the whole turn, but it is looked at before
\* an await and charged after it: by a retry across its backoff, by a replan
\* across the plan and the pass that follows.  What a turn recovers beyond the
\* budget is bounded by the calls that overlap, replan included
\* (recovery.js:62-73, executor.js:121-134, loop.js:146-176).
RecoveryBounded == \A t \in Turns : turn[t].overdraft <= Cardinality(Lanes)

\* A turn ends: it loops neither in its recoveries nor in its refinements
\* (loop.js:139-176, 348-354).
TurnsEnd == \A t \in Turns : At(t, "gate") ~> turn[t].pc \in {"ended", "dead"}
=============================================================================
