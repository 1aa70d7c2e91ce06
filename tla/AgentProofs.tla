---------------------------- MODULE AgentProofs ----------------------------
(***************************************************************************)
(* The self-healing of a turn stays within its budget, and the calls that  *)
(* overlap: proofs for every number of steps, recoveries and lanes.  Then  *)
(* the daily brief, for every number of drainers, jobs and days.           *)
(***************************************************************************)
EXTENDS AgentManual, DailyBrief, FiniteSetTheorems, WellFoundedInduction, TLAPS

CallRecords == [pc : CallPcs, tool : Tools \cup {None}, stale : BOOLEAN]

LEMMA NewTurnTyped == ASSUME AgentAssumption PROVE NewTurn \in Contexts
  BY DEF AgentAssumption, NewTurn, Contexts, Pcs

(* What the operations on a context keep. *)

LEMMA RecordRecoveryTyped ==
  ASSUME NEW ctx \in Contexts
  PROVE  /\ RecordRecovery(ctx) \in Contexts
         /\ RecordRecovery(ctx).pc = ctx.pc
         /\ ctx.budget > 0 => /\ RecordRecovery(ctx).budget = ctx.budget - 1
                              /\ RecordRecovery(ctx).overdraft = ctx.overdraft
         /\ ctx.budget = 0 => /\ RecordRecovery(ctx).budget = 0
                              /\ RecordRecovery(ctx).overdraft = ctx.overdraft + 1
<1>1. CASE ctx.budget > 0
  BY <1>1 DEF RecordRecovery, Contexts
<1>2. CASE ctx.budget = 0
  BY <1>2 DEF RecordRecovery, Contexts
<1> QED BY <1>1, <1>2 DEF Contexts

\* Two contexts alike in what the budget is about.
Alike(c, d) == c.pc = d.pc /\ c.budget = d.budget /\ c.overdraft = d.overdraft

LEMMA QueryTyped ==
  ASSUME AgentAssumption, NEW ctx \in Contexts
  PROVE  /\ QueryOk(ctx) \in Contexts /\ Alike(QueryOk(ctx), ctx)
         /\ Spend(ctx) \in Contexts /\ Alike(Spend(ctx), ctx)
         /\ QueryThrew(ctx) \in Contexts /\ Alike(QueryThrew(ctx), ctx)
<1>1. QueryOk(ctx) \in Contexts /\ Alike(QueryOk(ctx), ctx)
  BY DEF QueryOk, Contexts, Alike
<1>2. \A n \in Nat : Capped(n) \in Nat
  BY DEF Capped, AgentAssumption
<1>3. Spend(ctx) \in Contexts /\ Alike(Spend(ctx), ctx)
  BY <1>1, <1>2 DEF Spend, Contexts, Alike
<1>4. QueryThrew(ctx) \in Contexts /\ Alike(QueryThrew(ctx), ctx)
  <2>1. CASE ctx.breakerOpen
    BY <2>1 DEF QueryThrew, Alike
  <2>2. CASE ~ctx.breakerOpen
    <3> DEFINE d == [ctx EXCEPT !.queryFailures = ctx.queryFailures + 1,
                       !.breakerOpen = ctx.queryFailures + 1 >= QUERY_BREAKER_THRESHOLD]
    <3>1. QueryThrew(ctx) = d
      BY <2>2 DEF QueryThrew
    <3>2. d \in Contexts /\ Alike(d, ctx)
      <4> DEFINE n == ctx.queryFailures + 1
                 open == ctx.queryFailures + 1 >= QUERY_BREAKER_THRESHOLD
      <4>1. n \in Nat /\ open \in BOOLEAN
        BY DEF Contexts
      <4>2. d = [ctx EXCEPT !.queryFailures = n, !.breakerOpen = open]
        OBVIOUS
      <4> HIDE DEF d, n, open
      <4> QED BY <4>1, <4>2 DEF Contexts, Alike
    <3> QED BY <3>1, <3>2
  <2> QED BY <2>1, <2>2
<1> QED BY <1>1, <1>3, <1>4

LEMMA LedgerTyped ==
  ASSUME AgentAssumption, NEW ctx \in Contexts, NEW ok \in BOOLEAN
  PROVE  /\ Stepped(ctx) \in Contexts /\ Alike(Stepped(ctx), ctx)
         /\ Record(ctx, ok) \in Contexts /\ Alike(Record(ctx, ok), ctx)
<1>1. Stepped(ctx) \in Contexts /\ Alike(Stepped(ctx), ctx)
  BY DEF Stepped, Contexts, Alike, AgentAssumption
<1>2. Record(ctx, ok) \in Contexts /\ Alike(Record(ctx, ok), ctx)
  BY DEF Record, Contexts, Alike
<1> QED BY <1>1, <1>2

\* What a finished call leaves: as it was, or one recovery poorer, within the budget.
LEMMA FinishedTyped ==
  ASSUME AgentAssumption, NEW ctx \in Contexts, NEW tool \in Tools, NEW res
  PROVE  /\ Finished(ctx, tool, res) \in Contexts
         /\ Finished(ctx, tool, res).pc = ctx.pc
         /\ Finished(ctx, tool, res).overdraft = ctx.overdraft
         /\ \/ Finished(ctx, tool, res).budget = ctx.budget
            \/ ctx.budget > 0 /\ Finished(ctx, tool, res).budget = ctx.budget - 1
<1> DEFINE h == Hinted(ctx, tool, res)
           good(c) == /\ c \in Contexts /\ c.pc = ctx.pc /\ c.overdraft = ctx.overdraft
                      /\ \/ c.budget = ctx.budget
                         \/ ctx.budget > 0 /\ c.budget = ctx.budget - 1
<1>1. good(h)
  <2>1. CASE res = "malformed" /\ tool \notin ctx.argRepaired /\ HasBudget(ctx)
    <3> DEFINE d == [ctx EXCEPT !.argRepaired = ctx.argRepaired \cup {tool}]
    <3>1. d \in Contexts /\ Alike(d, ctx)
      BY DEF Contexts, Alike
    <3>2. h = RecordRecovery(d)
      BY <2>1 DEF Hinted
    <3>3. d.budget > 0
      BY <2>1, <3>1 DEF HasBudget, Alike
    <3> HIDE DEF d, h
    <3> QED BY <3>1, <3>2, <3>3, RecordRecoveryTyped DEF Alike
  <2>2. CASE /\ ~(res = "malformed" /\ tool \notin ctx.argRepaired /\ HasBudget(ctx))
             /\ res = "server" /\ tool \in Substitutable /\ HasBudget(ctx)
    <3>1. h = RecordRecovery(ctx)
      BY <2>2 DEF Hinted
    <3> HIDE DEF h
    <3> QED BY <2>2, <3>1, RecordRecoveryTyped DEF HasBudget
  <2>3. CASE /\ ~(res = "malformed" /\ tool \notin ctx.argRepaired /\ HasBudget(ctx))
             /\ ~(res = "server" /\ tool \in Substitutable /\ HasBudget(ctx))
    BY <2>3 DEF Hinted
  <2> QED BY <2>1, <2>2, <2>3
<1>2. CASE res = "throw"
  BY <1>2 DEF Finished
<1>3. CASE res # "throw"
  <2>1. Finished(ctx, tool, res) = Record(h, res = "ok")
    BY <1>3 DEF Finished
  <2>2. Record(h, res = "ok") \in Contexts /\ Alike(Record(h, res = "ok"), h)
    <3> HIDE DEF h
    <3>1. h \in Contexts
      BY <1>1
    <3>2. (res = "ok") \in BOOLEAN
      OBVIOUS
    <3> QED BY <3>1, <3>2, LedgerTyped
  <2> HIDE DEF h
  <2> QED BY <1>1, <2>1, <2>2 DEF Alike
<1> QED BY <1>2, <1>3
-----------------------------------------------------------------------------

LEMMA PcTyped ==
  ASSUME NEW ctx \in Contexts, NEW place \in Pcs
  PROVE  /\ [ctx EXCEPT !.pc = place] \in Contexts
         /\ [ctx EXCEPT !.pc = place].pc = place
         /\ [ctx EXCEPT !.pc = place].budget = ctx.budget
         /\ [ctx EXCEPT !.pc = place].overdraft = ctx.overdraft
  BY DEF Contexts
\* A context whose program counter and some other field are set.
Placed(c, place, d) ==
  d \in Contexts /\ d.pc = place /\ d.budget = c.budget /\ d.overdraft = c.overdraft

LEMMA SetTyped ==
  ASSUME NEW c \in Contexts, NEW place \in Pcs
  PROVE  /\ \A p \in Prompts, v \in BOOLEAN : Placed(c, place, [c EXCEPT !.pc = place, !.prompt = p, !.dryRun = v])
         /\ \A v \in BOOLEAN : Placed(c, place, [c EXCEPT !.pc = place, !.weak = v])
         /\ \A v \in BOOLEAN : Placed(c, place, [c EXCEPT !.pc = place, !.plan = v])
         /\ \A v \in BOOLEAN : Placed(c, place, [c EXCEPT !.pc = place, !.replanned = v])
         /\ \A v \in BOOLEAN : Placed(c, place, [c EXCEPT !.pc = place, !.unsure = v])
         /\ \A o \in Outcomes : Placed(c, place, [c EXCEPT !.pc = place, !.outcome = o])
         /\ \A o \in Outcomes : Placed(c, place, [c EXCEPT !.pc = place, !.outcome = o, !.tokens = 0])
<1>1. \A p \in Prompts, v \in BOOLEAN : Placed(c, place, [c EXCEPT !.pc = place, !.prompt = p, !.dryRun = v])
  BY DEF Placed, Contexts
<1>2. \A v \in BOOLEAN : Placed(c, place, [c EXCEPT !.pc = place, !.weak = v])
  BY DEF Placed, Contexts
<1>3. \A v \in BOOLEAN : Placed(c, place, [c EXCEPT !.pc = place, !.plan = v])
  BY DEF Placed, Contexts
<1>4. \A v \in BOOLEAN : Placed(c, place, [c EXCEPT !.pc = place, !.replanned = v])
  BY DEF Placed, Contexts
<1>5. \A v \in BOOLEAN : Placed(c, place, [c EXCEPT !.pc = place, !.unsure = v])
  BY DEF Placed, Contexts
<1>6. \A o \in Outcomes : Placed(c, place, [c EXCEPT !.pc = place, !.outcome = o])
  BY DEF Placed, Contexts
<1>7. \A o \in Outcomes : Placed(c, place, [c EXCEPT !.pc = place, !.outcome = o, !.tokens = 0])
  BY DEF Placed, Contexts
<1> QED BY <1>1, <1>2, <1>3, <1>4, <1>5, <1>6, <1>7

EndOf(place, v, o) == [NewTurn EXCEPT !.pc = place, !.dryRun = v, !.outcome = o]

LEMMA EndTyped ==
  ASSUME AgentAssumption, NEW place \in Pcs, NEW v \in BOOLEAN, NEW o \in Outcomes \cup {None}
  PROVE  /\ EndOf(place, v, o) \in Contexts /\ EndOf(place, v, o).pc = place
         /\ EndOf(place, v, o).overdraft = 0
<1>1. NewTurn \in Contexts /\ NewTurn.overdraft = 0
  BY NewTurnTyped DEF NewTurn
<1> QED BY <1>1 DEF EndOf, Contexts

(* What the steps of a turn, those of its tool calls aside, do to its context. *)

Rep(c) == IF c.pc \in {"replan", "replanned"} THEN 1 ELSE 0
Kept(b, c) == c.budget = b.budget /\ c.overdraft = b.overdraft /\ Rep(c) <= Rep(b)
Reset(c) == c.overdraft = 0 /\ Rep(c) = 0
Replans(b, c) == b.budget > 0 /\ c.budget = b.budget /\ c.overdraft = b.overdraft
Charged(b, c) ==
  /\ Rep(b) = 1 /\ Rep(c) = 0
  /\ \/ b.budget > 0 /\ c.budget = b.budget - 1 /\ c.overdraft = b.overdraft
     \/ b.budget = 0 /\ c.budget = 0 /\ c.overdraft = b.overdraft + 1

Moves(t) ==
  \E c \in Contexts :
    /\ turn' = [turn EXCEPT ![t] = c]
    /\ \/ Kept(turn[t], c) \/ Reset(c) \/ Replans(turn[t], c) \/ Charged(turn[t], c)

LEMMA EndsTyped ==
  ASSUME AgentAssumption, TypeOK, NEW t \in Turns, NEW outcome \in Outcomes, Ends(t, outcome)
  PROVE  Moves(t)
<1> DEFINE c == EndOf("ended", turn[t].dryRun, outcome)
<1>1. turn[t] \in Contexts
  BY DEF TypeOK
<1>2. c \in Contexts /\ Reset(c)
  <2>1. turn[t].dryRun \in BOOLEAN /\ "ended" \in Pcs
    BY <1>1 DEF Contexts, Pcs
  <2>2. c \in Contexts /\ c.pc = "ended" /\ c.overdraft = 0
    BY <2>1, EndTyped
  <2> HIDE DEF c
  <2> QED BY <2>2 DEF Reset, Rep
<1>3. turn' = [turn EXCEPT ![t] = c]
  BY DEF Ends, Becomes, EndOf
<1> QED BY <1>2, <1>3 DEF Moves

\* A step that only moves the turn on, from a context alike.
LEMMA PcMoves ==
  ASSUME TypeOK, NEW t \in Turns, NEW c \in Contexts, Alike(c, turn[t]), NEW place \in Pcs,
         place \notin {"replan", "replanned"} \/ Rep(c) = 1,
         turn' = [turn EXCEPT ![t] = [c EXCEPT !.pc = place]]
  PROVE  Moves(t)
<1> DEFINE d == [c EXCEPT !.pc = place]
<1>1. d \in Contexts /\ d.pc = place /\ d.budget = c.budget /\ d.overdraft = c.overdraft
  BY PcTyped
<1>2. Rep(c) = Rep(turn[t])
  BY DEF Alike, Rep
<1>3. Rep(d) <= Rep(c)
  <2> HIDE DEF d
  <2> QED BY <1>1 DEF Rep
<1>4. turn' = [turn EXCEPT ![t] = d]
  OBVIOUS
<1> HIDE DEF d
<1> QED BY <1>1, <1>2, <1>3, <1>4 DEF Moves, Kept, Alike

\* The end of a replan, whatever it came to.
LEMMA ChargeMoves ==
  ASSUME TypeOK, NEW t \in Turns, NEW c \in Contexts, Alike(c, turn[t]),
         turn[t].pc \in {"replan", "replanned"}, NEW place \in Pcs \ {"replan", "replanned"},
         turn' = [turn EXCEPT ![t] = [RecordRecovery(c) EXCEPT !.pc = place]]
  PROVE  Moves(t)
<1> DEFINE r == RecordRecovery(c)
           d == [r EXCEPT !.pc = place]
<1>1. /\ r \in Contexts
      /\ c.budget > 0 => r.budget = c.budget - 1 /\ r.overdraft = c.overdraft
      /\ c.budget = 0 => r.budget = 0 /\ r.overdraft = c.overdraft + 1
  BY RecordRecoveryTyped
<1>2. d \in Contexts /\ d.pc = place /\ d.budget = r.budget /\ d.overdraft = r.overdraft
  <2> HIDE DEF r
  <2> QED BY <1>1, PcTyped
<1>3. turn' = [turn EXCEPT ![t] = d]
  OBVIOUS
<1>4. c.budget > 0 \/ c.budget = 0
  BY DEF Contexts
<1> HIDE DEF d, r
<1>5. Charged(turn[t], d)
  BY <1>1, <1>2, <1>4 DEF Charged, Alike, Rep
<1> QED BY <1>2, <1>3, <1>5 DEF Moves

Flow(t) ==
  \/ Step(t) \/ RefuseStep(t) \/ Die(t)
  \/ \E prompt \in Prompts, dryRun \in BOOLEAN : Start(t, prompt, dryRun)
  \/ \E tool \in Tools : Deny(t, tool) \/ DryCall(t, tool)
  \/ \E tool \in Tools, l \in Lanes : BeginCall(t, l, tool)

LEMMA FlowMoves ==
  ASSUME AgentAssumption, TypeOK, NEW t \in Turns, Flow(t)
  PROVE  Moves(t)
<1> DEFINE b == turn[t]
<1>0. b \in Contexts /\ Alike(b, b)
  BY DEF TypeOK, Alike
<1>1. CASE \E prompt \in Prompts, dryRun \in BOOLEAN : Start(t, prompt, dryRun)
  <2>1. PICK prompt \in Prompts, dryRun \in BOOLEAN : Start(t, prompt, dryRun)
    BY <1>1
  <2> DEFINE c == [b EXCEPT !.pc = "gate", !.prompt = prompt, !.dryRun = dryRun]
  <2>2. c \in Contexts /\ Kept(b, c)
    <3>1. "gate" \in Pcs
      BY DEF Pcs, Outcomes
    <3>2. Placed(b, "gate", c)
      BY <1>0, <3>1, SetTyped
    <3> HIDE DEF c
    <3> QED BY <1>0, <3>2 DEF Placed, Kept, Alike, Rep
  <2>3. turn' = [turn EXCEPT ![t] = c]
    BY <2>1 DEF Start, Becomes
  <2> QED BY <2>2, <2>3 DEF Moves
<1>2. CASE ReadGateConfig(t) \/ SumTodaysTokens(t)
  <2>1. CASE \E outcome \in Outcomes : Ends(t, outcome)
    BY <2>1, EndsTyped
  <2>2. CASE \E place \in {"spend", "probe", "context"} : turn' = [turn EXCEPT ![t] = [b EXCEPT !.pc = place]]
    BY <1>0, <2>2, PcMoves DEF Pcs
  <2>3. ASSUME NEW outcome, NEW kinds, Refuse(t, outcome, kinds) PROVE Ends(t, outcome)
    BY <2>3 DEF Refuse
  <2>4. {"gate_unavailable", "kill_switch", "budget_exhausted"} \subseteq Outcomes
    BY DEF Outcomes
  <2> QED BY <1>2, <2>1, <2>2, <2>3, <2>4 DEF ReadGateConfig, SumTodaysTokens, Goes, Becomes
<1>3. CASE Probe(t)
  <2>1. CASE turn' = [turn EXCEPT ![t] = [b EXCEPT !.pc = "context"]]
    BY <1>0, <2>1, PcMoves DEF Pcs
  <2>2. CASE turn' = [turn EXCEPT ![t] = [b EXCEPT !.pc = "final", !.outcome = "completed"]]
    <3> DEFINE d == [b EXCEPT !.pc = "final", !.outcome = "completed"]
    <3>1. "final" \in Pcs /\ "completed" \in Outcomes
      BY DEF Pcs, Outcomes
    <3>2. Placed(b, "final", d)
      BY <1>0, <3>1, SetTyped
    <3>3. turn' = [turn EXCEPT ![t] = d]
      BY <2>2
    <3> HIDE DEF d
    <3>4. d \in Contexts /\ Kept(b, d)
      BY <1>0, <3>2 DEF Placed, Kept, Rep
    <3> QED BY <3>3, <3>4 DEF Moves
  <2> QED BY <1>3, <2>1, <2>2 DEF Probe, Goes, Becomes
<1>4. CASE AssembleContext(t)
  BY <1>0, <1>4, PcMoves DEF AssembleContext, Goes, Becomes, AfterContext, Pcs
<1>5. CASE CorrectiveRetrieve(t)
  <2>1. \E c \in {QueryOk(b), QueryThrew(b)}, weak \in BOOLEAN :
          turn' = [turn EXCEPT ![t] = [c EXCEPT !.pc = AfterContext(t), !.weak = weak]]
    BY <1>5 DEF CorrectiveRetrieve, Becomes
  <2>2. PICK c \in {QueryOk(b), QueryThrew(b)}, weak \in BOOLEAN :
          turn' = [turn EXCEPT ![t] = [c EXCEPT !.pc = AfterContext(t), !.weak = weak]]
    BY <2>1
  <2>3. c \in Contexts /\ Alike(c, b)
    BY <1>0, QueryTyped
  <2>4. AfterContext(t) \in {"plan", "execute"}
    BY DEF AfterContext
  <2> DEFINE d == [c EXCEPT !.pc = AfterContext(t), !.weak = weak]
  <2>5. d \in Contexts /\ Kept(b, d)
    <3>1. AfterContext(t) \in Pcs
      BY <2>4 DEF Pcs
    <3>2. Placed(c, AfterContext(t), d)
      BY <2>3, <3>1, SetTyped
    <3> HIDE DEF d
    <3> QED BY <2>3, <3>2, <2>4 DEF Placed, Kept, Alike, Rep
  <2> QED BY <2>2, <2>5 DEF Moves
<1>6. CASE GeneratePlan(t)
  <2>1. CASE turn' = [turn EXCEPT ![t] = [Spend(b) EXCEPT !.pc = "execute", !.plan = TRUE]]
    <3> DEFINE d == [Spend(b) EXCEPT !.pc = "execute", !.plan = TRUE]
    <3>1. Spend(b) \in Contexts /\ Alike(Spend(b), b)
      BY <1>0, QueryTyped
    <3>2. d \in Contexts /\ Kept(b, d)
      <4>1. "execute" \in Pcs
        BY DEF Pcs, Outcomes
      <4>2. Placed(Spend(b), "execute", d)
        BY <3>1, <4>1, SetTyped
      <4> HIDE DEF d
      <4> QED BY <3>1, <4>2 DEF Placed, Kept, Alike, Rep
    <3> QED BY <2>1, <3>2 DEF Moves
  <2>2. CASE \E c \in {QueryThrew(b), QueryOk(b)} : turn' = [turn EXCEPT ![t] = [c EXCEPT !.pc = "failed"]]
    BY <1>0, <2>2, QueryTyped, PcMoves DEF Pcs
  <2> QED BY <1>6, <2>1, <2>2 DEF GeneratePlan, Becomes
<1>7. CASE \/ RefuseStep(t) \/ \E tool \in Tools : Deny(t, tool) \/ DryCall(t, tool)
           \/ \E tool \in Tools, l \in Lanes : BeginCall(t, l, tool)
  <2>1. Stepped(b) \in Contexts /\ Alike(Stepped(b), b)
    BY <1>0, LedgerTyped
  <2>2. \A ok \in BOOLEAN : Record(Stepped(b), ok) \in Contexts /\ Alike(Record(Stepped(b), ok), b)
    BY <2>1, LedgerTyped DEF Alike
  <2>3. \/ turn' = [turn EXCEPT ![t] = Stepped(b)]
        \/ \E ok \in BOOLEAN : turn' = [turn EXCEPT ![t] = Record(Stepped(b), ok)]
    BY <1>7 DEF RefuseStep, Deny, DryCall, BeginCall, Becomes
  <2>4. \A c \in Contexts : Alike(c, b) => Kept(b, c)
    BY <1>0 DEF Alike, Kept, Rep
  <2> QED BY <2>1, <2>2, <2>3, <2>4 DEF Moves
<1>8. CASE ExecuteEnds(t)
  <2>1. Spend(b) \in Contexts /\ Alike(Spend(b), b)
    BY <1>0, QueryTyped
  <2>2. AfterPass(t) \in {"judge", "exhausted", "critique"}
    BY DEF AfterPass
  <2>3. CASE b.pc = "replanned"
    <3>1. turn' = [turn EXCEPT ![t] = [RecordRecovery(Spend(b)) EXCEPT !.pc = AfterPass(t)]]
      BY <1>8, <2>3 DEF ExecuteEnds, Becomes, At
    <3> QED BY <2>1, <2>2, <2>3, <3>1, ChargeMoves DEF Pcs
  <2>4. CASE b.pc # "replanned"
    <3>1. turn' = [turn EXCEPT ![t] = [Spend(b) EXCEPT !.pc = AfterPass(t)]]
      BY <1>8, <2>4 DEF ExecuteEnds, Becomes, At
    <3> QED BY <2>1, <2>2, <3>1, PcMoves DEF Pcs
  <2> QED BY <2>3, <2>4
<1>9. CASE ExecuteThrows(t)
  <2> DEFINE q == QueryThrew(b)
  <2>1. q \in Contexts /\ Alike(q, b)
    BY <1>0, QueryTyped
  <2>2. b.pc \in {"execute", "replanned", "refine"}
    BY <1>9 DEF ExecuteThrows, Executing
  <2>3. CASE b.pc = "refine"
    <3>1. turn' = [turn EXCEPT ![t] = [q EXCEPT !.pc = "failed"]]
      BY <1>9, <2>3 DEF ExecuteThrows, Becomes, At
    <3> QED BY <2>1, <3>1, PcMoves DEF Pcs
  <2>4. CASE b.pc = "execute" /\ CanReplan(q)
    <3> DEFINE d == [q EXCEPT !.pc = "replan", !.replanned = TRUE]
    <3>1. turn' = [turn EXCEPT ![t] = d]
      BY <1>9, <2>4 DEF ExecuteThrows, Becomes, At
    <3>2. d \in Contexts /\ Replans(b, d)
      BY <2>1, <2>4 DEF Contexts, Pcs, Alike, Replans, CanReplan, HasBudget
    <3> QED BY <3>1, <3>2 DEF Moves
  <2>5. CASE b.pc = "execute" /\ ~CanReplan(q)
    <3>1. turn' = [turn EXCEPT ![t] = [q EXCEPT !.pc = "degrade"]]
      BY <1>9, <2>5 DEF ExecuteThrows, Becomes, At
    <3> QED BY <2>1, <3>1, PcMoves DEF Pcs
  <2>6. CASE b.pc = "replanned"
    <3>1. turn' = [turn EXCEPT ![t] = [RecordRecovery(q) EXCEPT !.pc = "degrade"]]
      BY <1>9, <2>6 DEF ExecuteThrows, Becomes, At
    <3> HIDE DEF q
    <3> QED BY <1>0, <2>1, <2>6, <3>1, ChargeMoves DEF Pcs
  <2> QED BY <2>2, <2>3, <2>4, <2>5, <2>6
<1>10. CASE Replan(t)
  <2>1. CASE turn' = [turn EXCEPT ![t] = [Spend(b) EXCEPT !.pc = "replanned"]]
    <3>1. Spend(b) \in Contexts /\ Alike(Spend(b), b)
      BY <1>0, QueryTyped
    <3>2. Rep(Spend(b)) = 1
      BY <1>10, <3>1 DEF Replan, At, Alike, Rep
    <3> QED BY <2>1, <3>1, <3>2, PcMoves DEF Pcs
  <2>2. CASE \E c \in {QueryThrew(b), QueryOk(b)} : turn' = [turn EXCEPT ![t] = [RecordRecovery(c) EXCEPT !.pc = "degrade"]]
    <3>1. PICK c \in {QueryThrew(b), QueryOk(b)} : turn' = [turn EXCEPT ![t] = [RecordRecovery(c) EXCEPT !.pc = "degrade"]]
      BY <2>2
    <3>2. c \in Contexts /\ Alike(c, b)
      BY <1>0, QueryTyped
    <3>3. b.pc \in {"replan", "replanned"}
      BY <1>10 DEF Replan, At
    <3> QED BY <1>0, <3>1, <3>2, <3>3, ChargeMoves DEF Pcs
  <2> QED BY <1>10, <2>1, <2>2 DEF Replan, Becomes
<1>11. CASE Critique(t)
  <2>1. CASE turn' = [turn EXCEPT ![t] = [QueryThrew(b) EXCEPT !.pc = "failed"]]
    BY <1>0, <2>1, QueryTyped, PcMoves DEF Pcs
  <2>2. CASE \E unsure \in BOOLEAN, next \in {"judge", "refine"} :
               turn' = [turn EXCEPT ![t] = [Spend(b) EXCEPT !.pc = next, !.unsure = unsure]]
    <3>1. PICK unsure \in BOOLEAN, next \in {"judge", "refine"} :
               turn' = [turn EXCEPT ![t] = [Spend(b) EXCEPT !.pc = next, !.unsure = unsure]]
      BY <2>2
    <3> DEFINE d == [Spend(b) EXCEPT !.pc = next, !.unsure = unsure]
    <3>2. Spend(b) \in Contexts /\ Alike(Spend(b), b)
      BY <1>0, QueryTyped
    <3>3. d \in Contexts /\ Kept(b, d)
      <4>1. next \in Pcs
        BY DEF Pcs, Outcomes
      <4>2. Placed(Spend(b), next, d)
        BY <3>2, <4>1, SetTyped
      <4> HIDE DEF d
      <4> QED BY <3>2, <4>2 DEF Placed, Kept, Alike, Rep
    <3> QED BY <3>1, <3>3 DEF Moves
  <2> QED BY <1>11, <2>1, <2>2 DEF Critique, Becomes
<1>12. CASE Judge(t)
  <2>1. PICK outcome \in Outcomes : turn' = [turn EXCEPT ![t] = [b EXCEPT !.pc = "final", !.outcome = outcome]]
    BY <1>12 DEF Judge, Becomes, Outcomes
  <2> DEFINE d == [b EXCEPT !.pc = "final", !.outcome = outcome]
  <2>2. d \in Contexts /\ Kept(b, d)
    <3>1. "final" \in Pcs
      BY DEF Pcs, Outcomes
    <3>2. Placed(b, "final", d)
      BY <1>0, <3>1, SetTyped
    <3> HIDE DEF d
    <3> QED BY <1>0, <3>2 DEF Placed, Kept, Alike, Rep
  <2> QED BY <2>1, <2>2 DEF Moves
<1>13. CASE Escalate(t)
  <2>1. CASE turn' = [turn EXCEPT ![t] = [b EXCEPT !.pc = "final", !.outcome = "degraded", !.tokens = 0]]
    <3> DEFINE d == [b EXCEPT !.pc = "final", !.outcome = "degraded", !.tokens = 0]
    <3>1. d \in Contexts /\ Kept(b, d)
      <4>1. "final" \in Pcs /\ "degraded" \in Outcomes
        BY DEF Pcs, Outcomes
      <4>2. Placed(b, "final", d)
        BY <1>0, <4>1, SetTyped
      <4> HIDE DEF d
      <4> QED BY <1>0, <4>2 DEF Placed, Kept, Rep
    <3> QED BY <2>1, <3>1 DEF Moves
  <2>2. CASE turn' = [turn EXCEPT ![t] = [b EXCEPT !.pc = "final", !.outcome = "step_budget_exhausted"]]
    <3> DEFINE d == [b EXCEPT !.pc = "final", !.outcome = "step_budget_exhausted"]
    <3>1. d \in Contexts /\ Kept(b, d)
      <4>1. "final" \in Pcs /\ "step_budget_exhausted" \in Outcomes
        BY DEF Pcs, Outcomes
      <4>2. Placed(b, "final", d)
        BY <1>0, <4>1, SetTyped
      <4> HIDE DEF d
      <4> QED BY <1>0, <4>2 DEF Placed, Kept, Rep
    <3> QED BY <2>2, <3>1 DEF Moves
  <2> QED BY <1>13, <2>1, <2>2 DEF Escalate, Becomes
<1>14. CASE UpdatePlanStatus(t)
  BY <1>0, <1>14, PcMoves DEF UpdatePlanStatus, Goes, Becomes, Pcs
<1>15. CASE PersistTurn(t) \/ FailTurn(t)
  <2>1. CASE FailTurn(t)
    BY <2>1, EndsTyped DEF FailTurn, Outcomes
  <2>2. CASE PersistTurn(t)
    <3> DEFINE d == EndOf("ended", b.dryRun, b.outcome)
    <3>1. d \in Contexts /\ Reset(d)
      <4>1. b.dryRun \in BOOLEAN /\ b.outcome \in Outcomes \cup {None} /\ "ended" \in Pcs
        BY <1>0 DEF Contexts, Pcs
      <4>2. d \in Contexts /\ d.pc = "ended" /\ d.overdraft = 0
        BY <4>1, EndTyped
      <4> HIDE DEF d
      <4> QED BY <4>2 DEF Reset, Rep
    <3>2. turn' = [turn EXCEPT ![t] = d]
      BY <2>2 DEF PersistTurn, Ends, Becomes, EndOf
    <3> QED BY <3>1, <3>2 DEF Moves
  <2> QED BY <1>15, <2>1, <2>2
<1>16. CASE Die(t)
  <2> DEFINE d == EndOf("dead", b.dryRun, None)
  <2>1. d \in Contexts /\ Reset(d)
    <3>1. b.dryRun \in BOOLEAN /\ b.outcome \in Outcomes \cup {None} /\ "dead" \in Pcs
      BY <1>0 DEF Contexts, Pcs
    <3>2. d \in Contexts /\ d.pc = "dead" /\ d.overdraft = 0
      BY <3>1, EndTyped
    <3> HIDE DEF d
    <3> QED BY <3>2 DEF Reset, Rep
  <2>2. turn' = [turn EXCEPT ![t] = d]
    BY <1>16 DEF Die, Becomes, EndOf
  <2> QED BY <2>1, <2>2 DEF Moves
<1> QED BY <1>1, <1>2, <1>3, <1>4, <1>5, <1>6, <1>7, <1>8, <1>9, <1>10, <1>11, <1>12, <1>13, <1>14,
           <1>15, <1>16 DEF Flow, Step
-----------------------------------------------------------------------------
(* The tool calls of a turn, and the balance between them and its budget. *)

Calls == [Lanes -> CallRecords]
Sec(f) == {l \in Lanes : f[l].pc = "second"}
\* A call in flight is one of a tool.
CallsName == \A t \in Turns, l \in Lanes : call[t][l].pc # None => call[t][l].tool \in Tools
Fine(c, f) ==
  /\ c.overdraft > 0 => c.budget = 0
  /\ c.budget = 0 => c.overdraft + Cardinality(Sec(f)) + Rep(c) <= Cardinality(Lanes)

LEMMA BalancedIsFine == Balanced <=> \A t \in Turns : Fine(turn[t], call[t])
  BY DEF Balanced, Fine, Sec, Seconds, Replanning, Rep

LEMMA SecCard ==
  ASSUME AgentAssumption, NEW f, NEW g, Sec(g) \subseteq Sec(f)
  PROVE  /\ Cardinality(Sec(f)) \in Nat /\ Cardinality(Sec(g)) \in Nat /\ Cardinality(Lanes) \in Nat
         /\ Cardinality(Sec(g)) <= Cardinality(Sec(f))
         /\ Cardinality(Sec(f)) <= Cardinality(Lanes)
<1>1. IsFiniteSet(Lanes) /\ Sec(f) \subseteq Lanes
  BY DEF AgentAssumption, Sec
<1>2. IsFiniteSet(Sec(f)) /\ Cardinality(Sec(f)) <= Cardinality(Lanes)
  BY <1>1, FS_Subset
<1>3. IsFiniteSet(Sec(g)) /\ Cardinality(Sec(g)) <= Cardinality(Sec(f))
  BY <1>2, FS_Subset
<1> QED BY <1>1, <1>2, <1>3, FS_CardinalityType

LEMMA FlowFine ==
  ASSUME AgentAssumption, NEW c \in Contexts, NEW d \in Contexts, NEW f, NEW g,
         Fine(c, f), Sec(g) \subseteq Sec(f),
         Kept(c, d) \/ Reset(d) \/ Replans(c, d) \/ Charged(c, d)
  PROVE  Fine(d, g)
<1> DEFINE m == Cardinality(Sec(f))  n == Cardinality(Sec(g))  k == Cardinality(Lanes)
<1>1. m \in Nat /\ n \in Nat /\ k \in Nat /\ n <= m /\ m <= k
  BY SecCard
<1>2. /\ c.budget \in Nat /\ c.overdraft \in Nat /\ d.budget \in Nat /\ d.overdraft \in Nat
      /\ Rep(c) \in {0, 1} /\ Rep(d) \in {0, 1}
  BY DEF Contexts, Rep
<1>3. (c.overdraft > 0 => c.budget = 0) /\ (c.budget = 0 => c.overdraft + m + Rep(c) <= k)
  BY DEF Fine
<1> HIDE DEF m, n, k
<1>4. (d.overdraft > 0 => d.budget = 0) /\ (d.budget = 0 => d.overdraft + n + Rep(d) <= k)
  <2>1. CASE Kept(c, d)
    BY <1>1, <1>2, <1>3, <2>1 DEF Kept
  <2>2. CASE Reset(d)
    BY <1>1, <1>2, <1>3, <2>2 DEF Reset
  <2>3. CASE Replans(c, d)
    BY <1>1, <1>2, <1>3, <2>3 DEF Replans
  <2>4. CASE Charged(c, d)
    BY <1>1, <1>2, <1>3, <2>4 DEF Charged
  <2> QED BY <2>1, <2>2, <2>3, <2>4
<1> QED BY <1>4 DEF Fine, m, n, k

\* A call of lane l returns: paid from the budget, or by what its lane was owed.
Paid(c, d, f, l) ==
  \/ c.budget > 0 /\ d.overdraft = c.overdraft
  \/ c.budget = 0 /\ d.budget = 0 /\ d.overdraft = c.overdraft
  \/ c.budget = 0 /\ d.budget = 0 /\ d.overdraft = c.overdraft + 1 /\ l \in Sec(f)

LEMMA ReturnFine ==
  ASSUME AgentAssumption, NEW c \in Contexts, NEW d \in Contexts, NEW f, NEW g, NEW l \in Lanes,
         Fine(c, f), Sec(g) \subseteq Sec(f) \ {l}, d.pc = c.pc, Paid(c, d, f, l)
  PROVE  Fine(d, g)
<1> DEFINE m == Cardinality(Sec(f))  n == Cardinality(Sec(g))  k == Cardinality(Lanes)
           r == Cardinality(Sec(f) \ {l})
<1>1. IsFiniteSet(Lanes) /\ IsFiniteSet(Sec(f)) /\ Sec(f) \subseteq Lanes
  <2>1. IsFiniteSet(Lanes) /\ Sec(f) \subseteq Lanes
    BY DEF AgentAssumption, Sec
  <2> QED BY <2>1, FS_Subset
<1>2. m \in Nat /\ n \in Nat /\ k \in Nat /\ n <= m /\ m <= k
  BY SecCard
<1>3. n <= k - 1
  <2>1. IsFiniteSet(Lanes \ {l}) /\ Cardinality(Lanes \ {l}) = k - 1
    BY <1>1, FS_RemoveElement
  <2>2. Sec(g) \subseteq Lanes \ {l}
    BY <1>1
  <2> HIDE DEF n, k
  <2> QED BY <2>1, <2>2, FS_Subset DEF n
<1>4. l \in Sec(f) => n <= m - 1
  <2> SUFFICES ASSUME l \in Sec(f) PROVE n <= m - 1
    OBVIOUS
  <2>1. IsFiniteSet(Sec(f) \ {l}) /\ Cardinality(Sec(f) \ {l}) = m - 1
    BY <1>1, FS_RemoveElement
  <2> HIDE DEF n, m
  <2> QED BY <2>1, FS_Subset DEF n
<1>5. /\ c.budget \in Nat /\ c.overdraft \in Nat /\ d.budget \in Nat /\ d.overdraft \in Nat
      /\ Rep(d) \in {0, 1} /\ Rep(d) = Rep(c)
  BY DEF Contexts, Rep
<1>6. (c.overdraft > 0 => c.budget = 0) /\ (c.budget = 0 => c.overdraft + m + Rep(c) <= k)
  BY DEF Fine
<1> HIDE DEF m, n, k
<1>7. (d.overdraft > 0 => d.budget = 0) /\ (d.budget = 0 => d.overdraft + n + Rep(d) <= k)
  BY <1>2, <1>3, <1>4, <1>5, <1>6 DEF Paid
<1> QED BY <1>7 DEF Fine, m, n, k

\* The flow of a turn starts no retry.
LEMMA FlowCalls ==
  ASSUME AgentAssumption, TypeOK, NEW t \in Turns, Flow(t)
  PROVE  \E f \in Calls : call' = [call EXCEPT ![t] = f] /\ Sec(f) \subseteq Sec(call[t])
<1>0. call \in [Turns -> Calls] /\ call[t] \in Calls
  BY DEF TypeOK, Calls, CallRecords
<1>1. CASE UNCHANGED call
  BY <1>0, <1>1
<1>2. CASE \E tool \in Tools, l \in Lanes : BeginCall(t, l, tool)
  <2>1. PICK tool \in Tools, l \in Lanes : BeginCall(t, l, tool)
    BY <1>2
  <2> DEFINE r == [pc |-> IF tool \in Gated THEN "gated" ELSE "first", tool |-> tool, stale |-> FALSE]
             f == [call[t] EXCEPT ![l] = r]
  <2>2. call' = [call EXCEPT ![t] = f]
    BY <2>1, <1>0 DEF BeginCall
  <2>3. r \in CallRecords /\ r.pc # "second"
    BY DEF CallRecords, CallPcs
  <2> HIDE DEF r
  <2>4. f \in Calls /\ Sec(f) \subseteq Sec(call[t])
    BY <1>0, <2>3 DEF Calls, Sec
  <2> QED BY <2>2, <2>4
<1>3. CASE ExecuteThrows(t)
  <2> DEFINE f == [l \in Lanes |-> IF call[t][l] = NoCall THEN NoCall
                                   ELSE [call[t][l] EXCEPT !.stale = TRUE]]
  <2>1. call' = [call EXCEPT ![t] = f]
    BY <1>3 DEF ExecuteThrows
  <2>2. \A l \in Lanes : f[l] \in CallRecords /\ f[l].pc = call[t][l].pc
    BY <1>0 DEF Calls, CallRecords, NoCall
  <2>3. f \in Calls /\ Sec(f) \subseteq Sec(call[t])
    BY <2>2 DEF Calls, Sec
  <2> QED BY <2>1, <2>3
<1>4. CASE Die(t)
  <2> DEFINE f == [l \in Lanes |-> NoCall]
  <2>1. call' = [call EXCEPT ![t] = f]
    BY <1>4 DEF Die
  <2>2. NoCall \in CallRecords /\ NoCall.pc = None
    BY DEF NoCall, CallRecords, CallPcs
  <2>3. f \in Calls
    BY <2>2 DEF Calls
  <2>4. Sec(f) \subseteq Sec(call[t])
    BY <2>2 DEF Sec, AgentAssumption
  <2> QED BY <2>1, <2>3, <2>4
<1> QED BY <1>1, <1>2, <1>3, <1>4 DEF Flow, Step, RefuseStep, Start, Deny, DryCall,
     ReadGateConfig, SumTodaysTokens, Refuse, Probe, AssembleContext, CorrectiveRetrieve,
     GeneratePlan, ExecuteEnds, Replan, Critique, Judge, Escalate, UpdatePlanStatus,
     PersistTurn, FailTurn
\* What the return of a call does: its lane is free, or starts its retry.
Frees(t, l) ==
  \E c \in Contexts :
    /\ turn' = [turn EXCEPT ![t] = c]
    /\ call' = [call EXCEPT ![t] = [call[t] EXCEPT ![l] = NoCall]]
    /\ c.pc = turn[t].pc /\ Paid(turn[t], c, call[t], l)
Retries(t, l) ==
  /\ turn' = turn /\ turn[t].budget > 0 /\ call[t][l].tool \in Tools
  /\ call' = [call EXCEPT ![t] = [call[t] EXCEPT ![l] = [call[t][l] EXCEPT !.pc = "second"]]]

LEMMA FinishPaid ==
  ASSUME AgentAssumption, TypeOK, NEW t \in Turns, NEW l \in Lanes, NEW res,
         call[t][l].tool \in Tools
  PROVE  LET d == Finished(turn[t], call[t][l].tool, res)
         IN  d \in Contexts /\ d.pc = turn[t].pc /\ Paid(turn[t], d, call[t], l)
<1> DEFINE c == turn[t]  d == Finished(c, call[t][l].tool, res)
<1>1. c \in Contexts
  BY DEF TypeOK
<1>2. /\ d \in Contexts /\ d.pc = c.pc /\ d.overdraft = c.overdraft
      /\ d.budget = c.budget \/ (c.budget > 0 /\ d.budget = c.budget - 1)
  BY <1>1, FinishedTyped
<1>3. c.budget > 0 \/ c.budget = 0
  BY <1>1 DEF Contexts
<1> HIDE DEF c, d
<1>4. Paid(c, d, call[t], l)
  BY <1>2, <1>3 DEF Paid
<1> QED BY <1>2, <1>4 DEF c, d

LEMMA RetryPaid ==
  ASSUME AgentAssumption, TypeOK, NEW t \in Turns, NEW l \in Lanes, NEW res,
         call[t][l].tool \in Tools, l \in Sec(call[t])
  PROVE  LET d == Finished(RecordRecovery(turn[t]), call[t][l].tool, res)
         IN  d \in Contexts /\ d.pc = turn[t].pc /\ Paid(turn[t], d, call[t], l)
<1> DEFINE c == turn[t]  r == RecordRecovery(c)  d == Finished(r, call[t][l].tool, res)
<1>1. c \in Contexts
  BY DEF TypeOK
<1>2. /\ r \in Contexts /\ r.pc = c.pc
      /\ c.budget > 0 => r.budget = c.budget - 1 /\ r.overdraft = c.overdraft
      /\ c.budget = 0 => r.budget = 0 /\ r.overdraft = c.overdraft + 1
  BY <1>1, RecordRecoveryTyped
<1>3. /\ d \in Contexts /\ d.pc = r.pc /\ d.overdraft = r.overdraft
      /\ d.budget = r.budget \/ (r.budget > 0 /\ d.budget = r.budget - 1)
  <2> HIDE DEF r
  <2> QED BY <1>2, FinishedTyped
<1>4. c.budget > 0 \/ c.budget = 0
  BY <1>1 DEF Contexts
<1> HIDE DEF c, d, r
<1>5. Paid(c, d, call[t], l)
  BY <1>2, <1>3, <1>4 DEF Paid, c
<1>6. d \in Contexts /\ d.pc = c.pc
  BY <1>2, <1>3
<1> QED BY <1>5, <1>6 DEF c, d, r

LEMMA AnswerReturns ==
  ASSUME AgentAssumption, TypeOK, CallsName, NEW t \in Turns, NEW l \in Lanes, Answer(t, l)
  PROVE  Frees(t, l) \/ Retries(t, l)
<1> DEFINE c == turn[t]  tool == call[t][l].tool
<1>0. c \in Contexts /\ call \in [Turns -> Calls] /\ call[t] \in Calls /\ call[t][l] \in CallRecords
  BY DEF TypeOK, Calls, CallRecords
<1>1. ASSUME Returns(t, l) PROVE call' = [call EXCEPT ![t] = [call[t] EXCEPT ![l] = NoCall]]
  BY <1>1, <1>0 DEF Returns
<1>2. CASE FirstAttempt(t, l)
  <2>1. tool \in Tools
    BY <1>2 DEF FirstAttempt, CallAt, CallsName
  <2>2. PICK res \in HttpResults :
          IF Transient(res) /\ HasBudget(c)
          THEN call' = [call EXCEPT ![t][l].pc = "second"] /\ UNCHANGED turn
          ELSE Returns(t, l) /\ Becomes(t, Finished(c, tool, res))
    BY <1>2 DEF FirstAttempt
  <2>3. CASE Transient(res) /\ HasBudget(c)
    <3>1. call' = [call EXCEPT ![t] = [call[t] EXCEPT ![l] = [call[t][l] EXCEPT !.pc = "second"]]]
      BY <2>2, <2>3, <1>0
    <3> QED BY <2>1, <2>2, <2>3, <3>1 DEF Retries, HasBudget
  <2>4. CASE ~(Transient(res) /\ HasBudget(c))
    <3>1. Finished(c, tool, res) \in Contexts
          /\ Finished(c, tool, res).pc = c.pc /\ Paid(c, Finished(c, tool, res), call[t], l)
      BY <2>1, FinishPaid
    <3> QED BY <1>1, <2>2, <2>4, <3>1 DEF Frees, Becomes
  <2> QED BY <2>3, <2>4
<1>3. CASE SecondAttempt(t, l)
  <2>1. tool \in Tools /\ l \in Sec(call[t])
    BY <1>3 DEF SecondAttempt, CallAt, CallsName, Sec
  <2>2. PICK res \in HttpResults : Becomes(t, Finished(RecordRecovery(c), tool, res)) /\ Returns(t, l)
    BY <1>3 DEF SecondAttempt
  <2> DEFINE d == Finished(RecordRecovery(c), tool, res)
  <2>3. d \in Contexts /\ d.pc = c.pc /\ Paid(c, d, call[t], l)
    BY <2>1, RetryPaid
  <2> QED BY <1>1, <2>2, <2>3 DEF Frees, Becomes
<1>4. CASE RunGated(t, l)
  <2>1. PICK res \in HttpResults :
          Becomes(t, IF res = "throw" THEN c ELSE Record([c EXCEPT !.pending = TRUE], res = "ok"))
          /\ Returns(t, l)
    BY <1>4 DEF RunGated
  <2> DEFINE p == [c EXCEPT !.pending = TRUE]  d == IF res = "throw" THEN c ELSE Record(p, res = "ok")
  <2>2. p \in Contexts /\ Alike(p, c)
    BY <1>0 DEF Contexts, Alike
  <2>3. Record(p, res = "ok") \in Contexts /\ Alike(Record(p, res = "ok"), p)
    <3> HIDE DEF p
    <3> QED BY <2>2, LedgerTyped
  <2>4. d \in Contexts /\ Alike(d, c)
    <3> HIDE DEF p
    <3> QED BY <1>0, <2>2, <2>3 DEF Alike
  <2>5. Paid(c, d, call[t], l)
    <3> HIDE DEF d
    <3> QED BY <1>0, <2>4 DEF Alike, Paid, Contexts
  <2> QED BY <1>1, <2>1, <2>4, <2>5 DEF Frees, Becomes, Alike
<1> QED BY <1>2, <1>3, <1>4 DEF Answer

LEMMA FreesFine ==
  ASSUME AgentAssumption, TypeOK, NEW t \in Turns, NEW l \in Lanes, Fine(turn[t], call[t]),
         Frees(t, l) \/ Retries(t, l)
  PROVE  Fine(turn[t], call[t])'
<1>0. /\ turn \in [Turns -> Contexts] /\ turn[t] \in Contexts
      /\ call \in [Turns -> Calls] /\ call[t] \in Calls
  BY DEF TypeOK, Calls, CallRecords
<1>1. CASE Frees(t, l)
  <2> DEFINE g == [call[t] EXCEPT ![l] = NoCall]
  <2>1. PICK c \in Contexts : /\ turn' = [turn EXCEPT ![t] = c]
                              /\ call' = [call EXCEPT ![t] = g]
                              /\ c.pc = turn[t].pc /\ Paid(turn[t], c, call[t], l)
    BY <1>1 DEF Frees
  <2>2. Sec(g) \subseteq Sec(call[t]) \ {l}
    BY <1>0 DEF Sec, Calls, NoCall, AgentAssumption
  <2> HIDE DEF g
  <2>3. Fine(c, g)
    BY <1>0, <2>1, <2>2, ReturnFine
  <2>4. turn'[t] = c /\ call'[t] = g
    BY <1>0, <2>1
  <2> QED BY <2>3, <2>4 DEF Fine, Sec, Rep
<1>2. CASE Retries(t, l)
  <2>1. turn[t].budget > 0 /\ turn' = turn /\ turn[t].budget \in Nat /\ turn[t].overdraft \in Nat
    BY <1>0, <1>2 DEF Retries, Contexts
  <2>2. turn[t].overdraft = 0
    BY <2>1 DEF Fine
  <2> QED BY <2>1, <2>2 DEF Fine
<1> QED BY <1>1, <1>2
-----------------------------------------------------------------------------
(* The invariant, one step of the system at a time. *)

CallsTyped == call \in [Turns -> Calls] /\ CallsName

LEMMA CallsStep ==
  ASSUME AgentAssumption, TypeOK, CallsName, NEW t \in Turns,
         Flow(t) \/ \E l \in Lanes : Frees(t, l) \/ Retries(t, l)
  PROVE  CallsTyped'
<1> DEFINE named(r) == r.pc # None => r.tool \in Tools
<1>0. /\ call \in [Turns -> Calls] /\ call[t] \in Calls
      /\ \A u \in Turns, l \in Lanes : call[u][l] \in CallRecords /\ named(call[u][l])
  BY DEF TypeOK, Calls, CallRecords, CallsName
<1>1. NoCall \in CallRecords /\ named(NoCall)
  BY DEF NoCall, CallRecords, CallPcs
<1>2. ASSUME NEW f \in Calls, \A l \in Lanes : named(f[l]), call' = [call EXCEPT ![t] = f]
      PROVE  CallsTyped'
  BY <1>0, <1>2 DEF CallsTyped, CallsName
<1>3. ASSUME NEW l \in Lanes, NEW r \in CallRecords, named(r),
             call' = [call EXCEPT ![t] = [call[t] EXCEPT ![l] = r]]
      PROVE  CallsTyped'
  <2> DEFINE f == [call[t] EXCEPT ![l] = r]
  <2>1. f \in Calls /\ \A k \in Lanes : named(f[k])
    BY <1>0, <1>3 DEF Calls
  <2> HIDE DEF f
  <2> QED BY <1>2, <1>3, <2>1 DEF f
<1>4. CASE \E l \in Lanes : Frees(t, l)
  BY <1>1, <1>3, <1>4 DEF Frees
<1>5. CASE \E l \in Lanes : Retries(t, l)
  <2>1. PICK l \in Lanes : Retries(t, l)
    BY <1>5
  <2> DEFINE r == [call[t][l] EXCEPT !.pc = "second"]
  <2>2. r \in CallRecords /\ named(r)
    BY <1>0, <2>1 DEF CallRecords, CallPcs, Retries
  <2>3. call' = [call EXCEPT ![t] = [call[t] EXCEPT ![l] = r]]
    BY <2>1 DEF Retries
  <2> HIDE DEF r
  <2> QED BY <1>3, <2>2, <2>3
<1>6. CASE UNCHANGED call
  BY <1>0, <1>6 DEF CallsTyped, CallsName
<1>7. CASE \E tool \in Tools, l \in Lanes : BeginCall(t, l, tool)
  <2>1. PICK tool \in Tools, l \in Lanes : BeginCall(t, l, tool)
    BY <1>7
  <2> DEFINE r == [pc |-> IF tool \in Gated THEN "gated" ELSE "first", tool |-> tool, stale |-> FALSE]
  <2>2. r \in CallRecords /\ named(r)
    BY DEF CallRecords, CallPcs
  <2>3. call' = [call EXCEPT ![t] = [call[t] EXCEPT ![l] = r]]
    BY <2>1, <1>0 DEF BeginCall
  <2> HIDE DEF r
  <2> QED BY <1>3, <2>2, <2>3
<1>8. CASE ExecuteThrows(t)
  <2> DEFINE f == [l \in Lanes |-> IF call[t][l] = NoCall THEN NoCall
                                   ELSE [call[t][l] EXCEPT !.stale = TRUE]]
  <2>1. call' = [call EXCEPT ![t] = f]
    BY <1>8 DEF ExecuteThrows
  <2>2. \A l \in Lanes : f[l] \in CallRecords /\ named(f[l])
    BY <1>0, <1>1 DEF CallRecords
  <2>3. f \in Calls
    BY <2>2 DEF Calls
  <2> HIDE DEF f
  <2> QED BY <1>2, <2>1, <2>2, <2>3
<1>9. CASE Die(t)
  <2> DEFINE f == [l \in Lanes |-> NoCall]
  <2>1. call' = [call EXCEPT ![t] = f]
    BY <1>9 DEF Die
  <2>2. f \in Calls /\ \A l \in Lanes : named(f[l])
    BY <1>1 DEF Calls
  <2> HIDE DEF f
  <2> QED BY <1>2, <2>1, <2>2
<1> QED BY <1>4, <1>5, <1>6, <1>7, <1>8, <1>9 DEF Flow, Step, RefuseStep, Start, Deny, DryCall,
     ReadGateConfig, SumTodaysTokens, Refuse, Probe, AssembleContext, CorrectiveRetrieve,
     GeneratePlan, ExecuteEnds, Replan, Critique, Judge, Escalate, UpdatePlanStatus,
     PersistTurn, FailTurn

Effects == [posts : SUBSET Kinds, acted : BOOLEAN]
RestTyped ==
  /\ spent \in Nat /\ cache \subseteq Prompts \cup {None}
  /\ planRow \in [Turns -> {"running", None} \cup Outcomes]
  /\ done \in [Turns -> Effects]

LEMMA PostsTyped ==
  ASSUME TypeOK, NEW t \in Turns, NEW kinds \in SUBSET Kinds, Posts(t, kinds)
  PROVE  done' \in [Turns -> Effects]
<1> DEFINE k == IF turn[t].dryRun THEN done[t].posts ELSE done[t].posts \cup kinds
           e == [done[t] EXCEPT !.posts = k]
<1>1. done \in [Turns -> Effects] /\ done[t] \in Effects
  BY DEF TypeOK, Effects
<1>2. done' = [done EXCEPT ![t] = e]
  BY <1>1 DEF Posts
<1>3. k \in SUBSET Kinds
  BY <1>1 DEF Effects
<1> HIDE DEF k
<1>4. e \in Effects
  BY <1>1, <1>3 DEF Effects
<1> HIDE DEF e
<1> QED BY <1>1, <1>2, <1>4

LEMMA ActedTyped ==
  ASSUME TypeOK, NEW t \in Turns, NEW a \in BOOLEAN,
         done' = [done EXCEPT ![t].acted = @ \/ a]
  PROVE  done' \in [Turns -> Effects]
<1> DEFINE x == done[t].acted \/ a
           e == [done[t] EXCEPT !.acted = x]
<1>1. done \in [Turns -> Effects] /\ done[t] \in Effects
  BY DEF TypeOK, Effects
<1>2. done' = [done EXCEPT ![t] = e]
  BY <1>1
<1>3. x \in BOOLEAN
  OBVIOUS
<1> HIDE DEF x
<1>4. e \in Effects
  BY <1>1, <1>3 DEF Effects
<1> HIDE DEF e
<1> QED BY <1>1, <1>2, <1>4

LEMMA RestStep ==
  ASSUME AgentAssumption, TypeOK, NEW t \in Turns,
         Flow(t) \/ \E l \in Lanes : Answer(t, l)
  PROVE  RestTyped'
<1>0. RestTyped /\ turn[t] \in Contexts
  BY DEF TypeOK, RestTyped, Effects
<1>1. spent' \in Nat
  <2>1. CASE PersistTurn(t)
    <3>1. \A n \in Nat : Capped(n) \in Nat
      BY DEF Capped, AgentAssumption
    <3>2. spent' = spent \/ spent' = Capped(spent + turn[t].tokens)
      BY <2>1 DEF PersistTurn
    <3> QED BY <1>0, <3>1, <3>2 DEF RestTyped, Contexts
  <2>2. CASE UNCHANGED spent
    BY <1>0, <2>2 DEF RestTyped
  <2> QED BY <2>1, <2>2 DEF Flow, Step, RefuseStep, Start, Deny, DryCall, BeginCall, Die,
       ReadGateConfig, SumTodaysTokens, Refuse, Probe, AssembleContext, CorrectiveRetrieve,
       GeneratePlan, ExecuteEnds, ExecuteThrows, Replan, Critique, Judge, Escalate,
       UpdatePlanStatus, FailTurn, Answer, FirstAttempt, SecondAttempt, RunGated
<1>2. cache' \subseteq Prompts \cup {None}
  <2>1. CASE Judge(t)
    <3>1. cache' = cache \/ cache' = cache \cup {turn[t].prompt}
      BY <2>1 DEF Judge
    <3> QED BY <1>0, <3>1 DEF RestTyped, Contexts
  <2>2. CASE UNCHANGED cache
    BY <1>0, <2>2 DEF RestTyped
  <2> QED BY <2>1, <2>2 DEF Flow, Step, RefuseStep, Start, Deny, DryCall, BeginCall, Die,
       ReadGateConfig, SumTodaysTokens, Refuse, Probe, AssembleContext, CorrectiveRetrieve,
       GeneratePlan, ExecuteEnds, ExecuteThrows, Replan, Critique, Escalate, PersistTurn,
       UpdatePlanStatus, FailTurn, Answer, FirstAttempt, SecondAttempt, RunGated
<1>3. planRow' \in [Turns -> {"running", None} \cup Outcomes]
  <2>1. ASSUME NEW s \in {"running", None} \cup Outcomes, planRow' = [planRow EXCEPT ![t] = s]
        PROVE  planRow' \in [Turns -> {"running", None} \cup Outcomes]
    BY <1>0, <2>1 DEF RestTyped
  <2>2. CASE GeneratePlan(t)
    BY <1>0, <2>1, <2>2 DEF GeneratePlan, RestTyped
  <2>3. CASE UpdatePlanStatus(t)
    <3>1. PICK status \in {planRow[t], PlanStatus(turn[t].outcome)} :
            planRow' = [planRow EXCEPT ![t] = IF planRow[t] = None THEN None ELSE status]
      BY <2>3 DEF UpdatePlanStatus
    <3>2. "failed" \in Outcomes /\ turn[t].outcome \in Outcomes \cup {None}
      BY <1>0 DEF Contexts, Outcomes
    <3>3. status \in {"running", None} \cup Outcomes
      BY <1>0, <3>2 DEF PlanStatus, RestTyped
    <3> QED BY <2>1, <3>1, <3>3
  <2>4. CASE UNCHANGED planRow
    BY <1>0, <2>4 DEF RestTyped
  <2> QED BY <2>2, <2>3, <2>4 DEF Flow, Step, RefuseStep, Start, Deny, DryCall, BeginCall, Die,
       ReadGateConfig, SumTodaysTokens, Refuse, Probe, AssembleContext, CorrectiveRetrieve,
       ExecuteEnds, ExecuteThrows, Replan, Critique, Judge, Escalate, PersistTurn, FailTurn,
       Answer, FirstAttempt, SecondAttempt, RunGated
<1>4. done' \in [Turns -> Effects]
  <2>1. CASE UNCHANGED done
    BY <1>0, <2>1 DEF RestTyped
  <2>2. CASE \E kinds \in SUBSET Kinds : Posts(t, kinds)
    BY <2>2, PostsTyped
  <2>3. CASE \E a \in BOOLEAN : done' = [done EXCEPT ![t].acted = @ \/ a]
    BY <2>3, ActedTyped
  <2>4. CASE ReadGateConfig(t) \/ SumTodaysTokens(t) \/ Escalate(t) \/ FailTurn(t)
             \/ \E tool \in Tools : Deny(t, tool)
    <3>1. {{}, {"paused"}, {"exhausted"}, {"escalation"}, {"turn", "memory"}, {"denied"}} \subseteq SUBSET Kinds
      BY DEF Kinds
    <3> QED BY <2>1, <2>2, <2>4, <3>1 DEF ReadGateConfig, SumTodaysTokens, Escalate, FailTurn, Deny, Refuse
  <2>5. CASE PersistTurn(t)
    <3>1. PICK lesson \in SUBSET {"lesson"} :
            Posts(t, {"turn", "memory"} \cup lesson \cup (IF turn[t].plan THEN {"strategy"} ELSE {}))
      BY <2>5 DEF PersistTurn
    <3>2. {"turn", "memory"} \cup lesson \cup (IF turn[t].plan THEN {"strategy"} ELSE {}) \in SUBSET Kinds
      BY DEF Kinds
    <3> QED BY <2>2, <3>1, <3>2
  <2>6. CASE CorrectiveRetrieve(t)
    <3> DEFINE k == done[t].posts \cup {"strategy"}  e == [done[t] EXCEPT !.posts = k]
    <3>1. done[t] \in Effects /\ k \in SUBSET Kinds
      BY <1>0 DEF RestTyped, Effects, Kinds
    <3>2. UNCHANGED done \/ done' = [done EXCEPT ![t] = e]
      BY <2>6, <1>0 DEF CorrectiveRetrieve, RestTyped
    <3> HIDE DEF k
    <3>3. e \in Effects
      BY <3>1 DEF Effects
    <3> HIDE DEF e
    <3> QED BY <1>0, <3>2, <3>3 DEF RestTyped
  <2>7. CASE \E l \in Lanes : FirstAttempt(t, l) \/ SecondAttempt(t, l)
    <3>1. PICK l \in Lanes, res \in HttpResults : Applies(t, call[t][l].tool, res)
      BY <2>7 DEF FirstAttempt, SecondAttempt
    <3>2. PICK applied \in MayApply(res) :
            done' = [done EXCEPT ![t].acted = @ \/ (applied /\ call[t][l].tool \in Writes)]
      BY <3>1 DEF Applies
    <3>3. (applied /\ call[t][l].tool \in Writes) \in BOOLEAN
      OBVIOUS
    <3> QED BY <2>3, <3>2, <3>3
  <2>8. CASE \E l \in Lanes : RunGated(t, l)
    <3>1. PICK res \in HttpResults, applied \in BOOLEAN :
            done' = [done EXCEPT ![t].acted = @ \/ applied]
      BY <2>8 DEF RunGated
    <3> QED BY <2>3, <3>1
  <2> QED BY <2>1, <2>4, <2>5, <2>6, <2>7, <2>8 DEF Flow, Step, RefuseStep, Start, DryCall, BeginCall,
       Die, Probe, AssembleContext, GeneratePlan, ExecuteEnds, ExecuteThrows, Replan, Critique,
       Judge, UpdatePlanStatus, Answer
<1> QED BY <1>1, <1>2, <1>3, <1>4 DEF RestTyped

Inv == TypeOK /\ CallsName /\ Balanced

LEMMA InvInit == AgentAssumption /\ Init => Inv
<1> SUFFICES ASSUME AgentAssumption, Init PROVE Inv
  OBVIOUS
<1>1. NewTurn \in Contexts /\ NewTurn.overdraft = 0 /\ NewTurn.pc = "idle"
  BY NewTurnTyped DEF NewTurn
<1>2. NoCall \in CallRecords /\ NoCall.pc = None
  BY DEF NoCall, CallRecords, CallPcs
<1>3. TypeOK /\ CallsName
  BY <1>1, <1>2 DEF Init, InitWith, TypeOK, CallsName, CallRecords
<1>4. \A t \in Turns : Fine(turn[t], call[t])
  <2> TAKE t \in Turns
  <2>1. turn[t].overdraft = 0 /\ Rep(turn[t]) = 0
    BY <1>1 DEF Init, InitWith, Rep
  <2>2. Sec(call[t]) \subseteq Sec(call[t]) /\ Cardinality(Sec(call[t])) \in Nat
        /\ Cardinality(Lanes) \in Nat /\ Cardinality(Sec(call[t])) <= Cardinality(Lanes)
    BY SecCard
  <2> QED BY <2>1, <2>2 DEF Fine
<1> QED BY <1>3, <1>4, BalancedIsFine DEF Inv

LEMMA InvStep == AgentAssumption /\ Inv /\ [Next]_vars => Inv'
<1> SUFFICES ASSUME AgentAssumption, Inv, [Next]_vars PROVE Inv'
  OBVIOUS
<1>0. TypeOK /\ CallsName /\ \A u \in Turns : Fine(turn[u], call[u])
  BY BalancedIsFine DEF Inv
<1>1. ASSUME NEW t \in Turns, Flow(t) \/ \E l \in Lanes : Answer(t, l)
      PROVE  Inv'
  <2>0. /\ turn \in [Turns -> Contexts] /\ turn[t] \in Contexts /\ call \in [Turns -> Calls]
    BY <1>0 DEF TypeOK, Calls, CallRecords
  <2>1. RestTyped' /\ CallsTyped'
    BY <1>0, <1>1, RestStep, CallsStep, AnswerReturns
  <2>2. /\ turn' \in [Turns -> Contexts]
        /\ \A u \in Turns \ {t} : turn'[u] = turn[u] /\ call'[u] = call[u]
    BY <1>0, <1>1, <2>0, FlowMoves, FlowCalls, AnswerReturns DEF Moves, Frees, Retries
  <2>3. Fine(turn[t], call[t])'
    <3>1. CASE Flow(t)
      <4>1. PICK c \in Contexts :
              /\ turn' = [turn EXCEPT ![t] = c]
              /\ Kept(turn[t], c) \/ Reset(c) \/ Replans(turn[t], c) \/ Charged(turn[t], c)
        BY <1>0, <3>1, FlowMoves DEF Moves
      <4>2. PICK f \in Calls : call' = [call EXCEPT ![t] = f] /\ Sec(f) \subseteq Sec(call[t])
        BY <1>0, <3>1, FlowCalls
      <4>3. Fine(c, f)
        BY <1>0, <2>0, <4>1, <4>2, FlowFine
      <4>4. turn'[t] = c /\ call'[t] = f
        BY <2>0, <4>1, <4>2
      <4> QED BY <4>3, <4>4 DEF Fine, Sec, Rep
    <3>2. CASE \E l \in Lanes : Answer(t, l)
      BY <1>0, <3>2, AnswerReturns, FreesFine
    <3> QED BY <1>1, <3>1, <3>2
  <2>4. \A u \in Turns : Fine(turn[u], call[u])'
    <3>1. ASSUME NEW u \in Turns \ {t} PROVE Fine(turn[u], call[u])'
      BY <1>0, <2>2, <3>1 DEF Fine, Sec, Rep
    <3> QED BY <2>3, <3>1
  <2>5. Balanced'
    BY <2>4 DEF Balanced, Fine, Sec, Seconds, Replanning, Rep
  <2>6. TypeOK'
    BY <2>1, <2>2 DEF TypeOK, RestTyped, CallsTyped, Calls, CallRecords, Effects
  <2> QED BY <2>1, <2>5, <2>6 DEF Inv, CallsTyped
<1>2. CASE UNCHANGED vars
  BY <1>2 DEF vars, Inv, TypeOK, CallsName, Balanced, Seconds, Replanning
<1> QED BY <1>1, <1>2 DEF Next, Flow, RunTool
-----------------------------------------------------------------------------

\* Every context, tool call and record of a turn has its type, however long it
\* runs (server/agent/loop.js).
THEOREM TypeCorrect == Spec => []TypeOK
<1>1. Init => Inv
  BY AgentAssumption, InvInit
<1>2. Inv /\ [Next]_vars => Inv'
  BY AgentAssumption, InvStep
<1>3. Inv => TypeOK
  BY DEF Inv
<1> QED BY <1>1, <1>2, <1>3, PTL DEF Spec

\* The recovery budget is checked before an await and charged after it, yet
\* what a turn recovers beyond it never exceeds the calls that may overlap,
\* for any budget and any number of lanes (recovery.js:62-73,
\* executor.js:121-134, loop.js:146-176).
THEOREM RecoveryWithinBounds == Spec => []RecoveryBounded
<1>1. Init => Inv
  BY AgentAssumption, InvInit
<1>2. Inv /\ [Next]_vars => Inv'
  BY AgentAssumption, InvStep
<1>3. Inv => RecoveryBounded
  <2> SUFFICES ASSUME Inv, NEW t \in Turns
               PROVE  turn[t].overdraft <= Cardinality(Lanes)
    BY DEF RecoveryBounded
  <2>1. Fine(turn[t], call[t]) /\ turn[t].overdraft \in Nat /\ turn[t].budget \in Nat
        /\ Rep(turn[t]) \in {0, 1}
    BY BalancedIsFine DEF Inv, TypeOK, Contexts, Rep
  <2>2. Sec(call[t]) \subseteq Sec(call[t]) /\ Cardinality(Sec(call[t])) \in Nat
        /\ Cardinality(Lanes) \in Nat
    BY AgentAssumption, SecCard
  <2> QED BY <2>1, <2>2 DEF Fine
<1> QED BY <1>1, <1>2, <1>3, PTL DEF Spec
-----------------------------------------------------------------------------
(* The manual a turn reads, under the calls of humans. *)

ConfigRows == [status : {"draft", "shadow", "promoted"}, promotedAt : Nat \cup {None}]
Types == {"shadow", "config.promoted", "config.rolledback", None}
Handlings == [pc : {"idle", "shadow", "promote", "flip", "emit"},
              type : Types,
              id : Nat \cup {None}, at : Nat \cup {None}, previous : Nat \cup {None}]
Sayings == [type : Types, id : Nat \cup {None}, previous : Nat \cup {None}]

ConfigsTyped ==
  /\ configs \in Seq(ConfigRows) /\ active \in Nat \cup {None} /\ second \in Nat
  /\ handler \in [Callers -> Handlings]
  /\ events \in Seq(Sayings)

\* What a handler does next is about a config that exists, and to point at it, or to say so,
\* one that was promoted.
HandlerKnows(h) ==
  /\ h.pc \in {"shadow", "promote"} => h.id \in DOMAIN configs
  /\ h.pc = "promote" => h.at # None
  /\ h.pc \in {"flip", "emit"} => Human!WasPromoted(h.id)

ConfigsInv ==
  /\ ConfigsTyped
  /\ \A i \in DOMAIN configs : configs[i].status = "promoted" => Human!WasPromoted(i)
  /\ \A c \in Callers : HandlerKnows(handler[c])
  /\ Human!ActiveWasPromoted

ManualInv == ConfigsInv /\ ManualWasPromoted

\* A promotion is never undone: no step takes a promotion time away.
PromotionsStay == \A i \in Nat \cup {None} : Human!WasPromoted(i) => Human!WasPromoted(i)'
ConfigsStay == \A i \in DOMAIN configs : i \in DOMAIN configs'

LEMMA HandlerStays ==
  ASSUME NEW h \in Handlings, HandlerKnows(h), PromotionsStay, ConfigsStay
  PROVE  /\ h.pc \in {"shadow", "promote"} => h.id \in DOMAIN configs'
         /\ h.pc = "promote" => h.at # None
         /\ h.pc \in {"flip", "emit"} => Human!WasPromoted(h.id)'
<1>1. h.id \in Nat \cup {None}
  BY DEF Handlings
<1> QED BY <1>1 DEF HandlerKnows, PromotionsStay, ConfigsStay

\* A step that leaves the configs alone undoes nothing.
LEMMA ConfigsAlone ==
  ASSUME UNCHANGED configs, ConfigsInv
  PROVE  /\ PromotionsStay /\ ConfigsStay
         /\ \A i \in DOMAIN configs' : configs'[i].status = "promoted" => Human!WasPromoted(i)'
         /\ configs' \in Seq(ConfigRows)
  BY DEF ConfigsInv, ConfigsTyped, PromotionsStay, ConfigsStay, Human!WasPromoted

\* What was promoted stays so, and with it what the pointer and the events name.
LEMMA NamesStay ==
  ASSUME ConfigsInv, PromotionsStay, UNCHANGED <<active, events>>
  PROVE  /\ Human!ActiveWasPromoted'
         /\ active' \in Nat \cup {None} /\ events' \in Seq(Sayings)
<1>1. active \in Nat \cup {None} /\ events \in Seq(Sayings)
  BY DEF ConfigsInv, ConfigsTyped
<1>2. active' # None => Human!WasPromoted(active)'
  BY <1>1 DEF ConfigsInv, Human!ActiveWasPromoted, PromotionsStay
<1>3. ASSUME NEW n \in DOMAIN events' PROVE Human!WasPromoted(events[n].id)'
  <2>1. n \in DOMAIN events /\ events' = events
    BY <1>3
  <2>2. Human!WasPromoted(events[n].id)
    BY <2>1 DEF ConfigsInv, Human!ActiveWasPromoted
  <2>3. PICK i \in Nat \cup {None} : i = events[n].id
    <3>1. events[n] \in Sayings
      BY <1>1, <2>1
    <3> QED BY <3>1 DEF Sayings
  <2>4. Human!WasPromoted(i)'
    BY <2>2, <2>3 DEF PromotionsStay
  <2> QED BY <2>1, <2>3, <2>4 DEF Human!WasPromoted
<1> QED BY <1>1, <1>2, <1>3 DEF Human!ActiveWasPromoted

\* A step of one caller: what it leaves of its own call, and what it wrote, decide.
LEMMA CallerStep ==
  ASSUME ConfigsInv, NEW c \in Callers, NEW h \in Handlings,
         handler' = [handler EXCEPT ![c] = h], HandlerKnows(h)', second' = second,
         PromotionsStay, ConfigsStay, configs' \in Seq(ConfigRows),
         \A i \in DOMAIN configs' : configs'[i].status = "promoted" => Human!WasPromoted(i)',
         active' \in Nat \cup {None}, events' \in Seq(Sayings), Human!ActiveWasPromoted'
  PROVE  ConfigsInv'
<1>1. handler \in [Callers -> Handlings] /\ second \in Nat
  BY DEF ConfigsInv, ConfigsTyped
<1>2. handler' \in [Callers -> Handlings]
  BY <1>1
<1>3. ConfigsTyped'
  BY <1>1, <1>2 DEF ConfigsTyped
<1>4. ASSUME NEW b \in Callers PROVE HandlerKnows(handler[b])'
  <2>1. CASE b = c
    BY <1>1, <2>1 DEF HandlerKnows
  <2>2. CASE b # c
    <3>1. PICK g \in Handlings : g = handler[b]
      BY <1>1
    <3>2. HandlerKnows(g)
      BY <3>1 DEF ConfigsInv
    <3>3. handler'[b] = g
      BY <1>1, <2>2, <3>1
    <3> QED BY <3>2, <3>3, HandlerStays DEF HandlerKnows
  <2> QED BY <2>1, <2>2
<1> QED BY <1>3, <1>4 DEF ConfigsInv

\* An idle caller, which knows nothing.
LEMMA IdleCaller == Human!Idle \in Handlings /\ HandlerKnows(Human!Idle)'
  BY DEF Human!Idle, Handlings, Types, HandlerKnows

\* A call begins: its first reads found the config, and the status they asked for.
LEMMA CalledStep ==
  ASSUME ConfigsInv, NEW c \in Callers, NEW place \in {"shadow", "promote", "flip"},
         NEW type \in Types, NEW i \in DOMAIN configs, NEW at \in Nat \cup {None},
         Human!Called(c, place, type, i, at), place = "promote" => at # None,
         place = "flip" => Human!WasPromoted(i)
  PROVE  ConfigsInv'
<1>1. UNCHANGED <<configs, active, events, second>>
  BY DEF Human!Called
<1>2. PICK h : h = [pc |-> place, type |-> type, id |-> i, at |-> at, previous |-> active]
  OBVIOUS
<1>3. h \in Handlings
  <2>1. i \in Nat /\ active \in Nat \cup {None}
    BY DEF ConfigsInv, ConfigsTyped
  <2> QED BY <1>2, <2>1 DEF Handlings, Types
<1>4. handler' = [handler EXCEPT ![c] = h]
  BY <1>2 DEF Human!Called
<1>5. HandlerKnows(h)'
  BY <1>1, <1>2 DEF HandlerKnows, Human!WasPromoted
<1> QED BY <1>1, <1>3, <1>4, <1>5, ConfigsAlone, NamesStay, CallerStep

\* The UPDATE of shadow has no guard, but takes no promotion time away.
LEMMA ShadowStep ==
  ASSUME ConfigsInv, NEW c \in Callers, Human!Shadow(c)
  PROVE  ConfigsInv' /\ PromotionsStay
<1>1. handler[c] \in Handlings /\ HandlerKnows(handler[c]) /\ configs \in Seq(ConfigRows)
  BY DEF ConfigsInv, ConfigsTyped
<1>2. PICK k \in DOMAIN configs : k = handler[c].id
  BY <1>1 DEF Human!Shadow, HandlerKnows
<1>3. PICK r \in ConfigRows : r = [configs[k] EXCEPT !.status = "shadow"]
  <2>1. configs[k] \in ConfigRows
    BY <1>1
  <2> QED BY <2>1 DEF ConfigRows
<1>4. configs' = [configs EXCEPT ![k] = r]
  BY <1>1, <1>2, <1>3 DEF Human!Shadow
<1>5. configs' \in Seq(ConfigRows) /\ DOMAIN configs' = DOMAIN configs
  BY <1>1, <1>4
<1>6. r.status = "shadow" /\ r.promotedAt = configs[k].promotedAt
  <2>1. configs[k] \in ConfigRows
    BY <1>1
  <2> QED BY <2>1, <1>3 DEF ConfigRows
<1>7. \A i \in DOMAIN configs : configs'[i].promotedAt = configs[i].promotedAt
                              /\ (configs'[i].status = "promoted" => configs[i].status = "promoted")
  BY <1>1, <1>4, <1>6
<1>8. PromotionsStay /\ ConfigsStay
  BY <1>5, <1>7 DEF PromotionsStay, ConfigsStay, Human!WasPromoted
<1>9. ASSUME NEW i \in DOMAIN configs', configs'[i].status = "promoted" PROVE Human!WasPromoted(i)'
  <2>1. i \in DOMAIN configs /\ i \in Nat
    BY <1>1, <1>5
  <2>2. Human!WasPromoted(i)
    BY <1>7, <1>9, <2>1 DEF ConfigsInv
  <2> QED BY <1>8, <2>1, <2>2 DEF PromotionsStay
<1>10. UNCHANGED <<active, events, second>> /\ handler' = [handler EXCEPT ![c] = Human!Idle]
  BY DEF Human!Shadow
<1> QED BY <1>5, <1>8, <1>9, <1>10, IdleCaller, NamesStay, CallerStep

\* The UPDATE of promote gives the config its time.
LEMMA PromoteStep ==
  ASSUME ConfigsInv, NEW c \in Callers, Human!Promote(c)
  PROVE  ConfigsInv' /\ PromotionsStay
<1>1. handler \in [Callers -> Handlings] /\ HandlerKnows(handler[c]) /\ configs \in Seq(ConfigRows)
  BY DEF ConfigsInv, ConfigsTyped
<1>2. PICK k \in DOMAIN configs : k = handler[c].id
  BY <1>1 DEF Human!Promote, HandlerKnows
<1>3. PICK r \in ConfigRows : r = [status |-> "promoted", promotedAt |-> handler[c].at]
  <2>1. handler[c].at \in Nat \cup {None}
    BY <1>1 DEF Handlings
  <2> QED BY <2>1 DEF ConfigRows
<1>4. configs' = [configs EXCEPT ![k] = r]
  BY <1>2, <1>3 DEF Human!Promote
<1>5. configs' \in Seq(ConfigRows) /\ DOMAIN configs' = DOMAIN configs
  BY <1>1, <1>4
<1>6. r.promotedAt # None
  BY <1>1, <1>3 DEF Human!Promote, HandlerKnows
<1>7. \A i \in DOMAIN configs : configs'[i] = configs[i] \/ (i = k /\ configs'[i] = r)
  BY <1>1, <1>4
<1>8. PromotionsStay /\ ConfigsStay
  BY <1>5, <1>6, <1>7 DEF PromotionsStay, ConfigsStay, Human!WasPromoted
<1>9. ASSUME NEW i \in DOMAIN configs', configs'[i].status = "promoted" PROVE Human!WasPromoted(i)'
  <2>1. i \in DOMAIN configs /\ i \in Nat
    BY <1>1, <1>5
  <2>2. CASE configs'[i] = configs[i]
    <3>1. Human!WasPromoted(i)
      BY <1>9, <2>1, <2>2 DEF ConfigsInv
    <3> QED BY <1>8, <2>1, <3>1 DEF PromotionsStay
  <2>3. CASE configs'[i] = r
    BY <1>5, <1>6, <2>1, <2>3 DEF Human!WasPromoted
  <2> QED BY <1>7, <2>1, <2>2, <2>3
<1>10. UNCHANGED <<active, events, second>> /\ handler' = [handler EXCEPT ![c].pc = "flip"]
  BY DEF Human!Promote
<1>11. PICK h \in Handlings : h = [handler[c] EXCEPT !.pc = "flip"]
  BY <1>1 DEF Handlings
<1>12. handler' = [handler EXCEPT ![c] = h]
  BY <1>1, <1>10, <1>11
<1>13. h.pc = "flip" /\ h.id = k
  BY <1>1, <1>2, <1>11 DEF Handlings
<1>14. HandlerKnows(h)'
  <2>1. configs'[k] = r
    BY <1>1, <1>4
  <2> QED BY <1>5, <1>6, <1>13, <2>1 DEF HandlerKnows, Human!WasPromoted
<1> QED BY <1>5, <1>8, <1>9, <1>10, <1>12, <1>14, NamesStay, CallerStep

\* The pointer is flipped to a config the call has seen promoted.
LEMMA FlipStep ==
  ASSUME ConfigsInv, NEW c \in Callers, Human!UpsertActiveRef(c)
  PROVE  ConfigsInv'
<1>1. handler \in [Callers -> Handlings] /\ HandlerKnows(handler[c])
  BY DEF ConfigsInv, ConfigsTyped
<1>2. UNCHANGED <<configs, events, second>> /\ active' = handler[c].id
      /\ handler' = [handler EXCEPT ![c].pc = "emit"] /\ handler[c].pc = "flip"
  BY DEF Human!UpsertActiveRef
<1>3. Human!WasPromoted(handler[c].id)
  BY <1>1, <1>2 DEF HandlerKnows
<1>4. PICK h \in Handlings : h = [handler[c] EXCEPT !.pc = "emit"]
  BY <1>1 DEF Handlings
<1>5. handler' = [handler EXCEPT ![c] = h]
  BY <1>1, <1>2, <1>4
<1>6. h.pc = "emit" /\ h.id = handler[c].id
  BY <1>1, <1>4 DEF Handlings
<1>7. HandlerKnows(h)'
  BY <1>2, <1>3, <1>6 DEF HandlerKnows, Human!WasPromoted
<1>8. active' \in Nat \cup {None} /\ events' \in Seq(Sayings)
  BY <1>1, <1>2 DEF Handlings, ConfigsInv, ConfigsTyped
<1>9. Human!ActiveWasPromoted'
  BY <1>2, <1>3 DEF ConfigsInv, Human!ActiveWasPromoted, Human!WasPromoted
<1> QED BY <1>2, <1>5, <1>7, <1>8, <1>9, ConfigsAlone, CallerStep

\* The event says what the pointer was flipped to.
LEMMA EmitStep ==
  ASSUME ConfigsInv, NEW c \in Callers, Human!EmitEvent(c)
  PROVE  ConfigsInv'
<1>1. handler[c] \in Handlings /\ HandlerKnows(handler[c]) /\ events \in Seq(Sayings)
  BY DEF ConfigsInv, ConfigsTyped
<1>2. UNCHANGED <<configs, active, second>> /\ handler' = [handler EXCEPT ![c] = Human!Idle]
      /\ handler[c].pc = "emit"
  BY DEF Human!EmitEvent
<1>3. PICK e \in Sayings : e = [type |-> handler[c].type, id |-> handler[c].id,
                                previous |-> handler[c].previous]
  BY <1>1 DEF Handlings, Sayings, Types
<1>4. events' = Append(events, e)
  BY <1>3 DEF Human!EmitEvent
<1>5. Human!WasPromoted(e.id)
  BY <1>1, <1>2, <1>3 DEF HandlerKnows
<1>6. active' \in Nat \cup {None} /\ events' \in Seq(Sayings)
  BY <1>1, <1>2, <1>4 DEF ConfigsInv, ConfigsTyped
<1>7. \A n \in DOMAIN events' : events'[n] = e \/ (n \in DOMAIN events /\ events'[n] = events[n])
  BY <1>1, <1>4
<1>8. Human!ActiveWasPromoted'
  BY <1>2, <1>5, <1>7 DEF ConfigsInv, Human!ActiveWasPromoted, Human!WasPromoted
<1> QED BY <1>2, <1>6, <1>8, IdleCaller, ConfigsAlone, CallerStep

LEMMA AbandonStep ==
  ASSUME ConfigsInv, NEW c \in Callers, Human!Abandon(c)
  PROVE  ConfigsInv'
<1>1. UNCHANGED <<configs, active, events, second>> /\ handler' = [handler EXCEPT ![c] = Human!Idle]
  BY DEF Human!Abandon
<1> QED BY <1>1, IdleCaller, ConfigsAlone, NamesStay, CallerStep

\* A draft is the next row, with no time of promotion.
LEMMA CreateStep ==
  ASSUME ConfigsInv, Human!CreateConfig
  PROVE  ConfigsInv' /\ PromotionsStay
<1>1. handler \in [Callers -> Handlings] /\ configs \in Seq(ConfigRows) /\ second \in Nat
  BY DEF ConfigsInv, ConfigsTyped
<1>2. UNCHANGED <<active, events, second, handler>>
  BY DEF Human!CreateConfig
<1>3. PICK r \in ConfigRows : r = [status |-> "draft", promotedAt |-> None]
  BY DEF ConfigRows
<1>4. configs' = Append(configs, r)
  BY <1>3 DEF Human!CreateConfig
<1>5. configs' \in Seq(ConfigRows)
  BY <1>1, <1>4
<1>6. /\ \A i \in DOMAIN configs : i \in DOMAIN configs' /\ configs'[i] = configs[i]
      /\ \A i \in DOMAIN configs' : i \in DOMAIN configs \/ configs'[i] = r
  BY <1>1, <1>4
<1>7. PromotionsStay /\ ConfigsStay
  BY <1>6 DEF PromotionsStay, ConfigsStay, Human!WasPromoted
<1>8. ASSUME NEW i \in DOMAIN configs', configs'[i].status = "promoted" PROVE Human!WasPromoted(i)'
  <2>1. i \in DOMAIN configs /\ i \in Nat /\ configs'[i] = configs[i]
    BY <1>1, <1>3, <1>5, <1>6, <1>8
  <2>2. Human!WasPromoted(i)
    BY <1>8, <2>1 DEF ConfigsInv
  <2> QED BY <1>7, <2>1, <2>2 DEF PromotionsStay
<1>9. ConfigsTyped'
  BY <1>2, <1>5 DEF ConfigsInv, ConfigsTyped
<1>10. ASSUME NEW b \in Callers PROVE HandlerKnows(handler[b])'
  <2>1. PICK g \in Handlings : g = handler[b]
    BY <1>1
  <2>2. HandlerKnows(g)
    BY <2>1 DEF ConfigsInv
  <2> QED BY <1>2, <1>7, <2>1, <2>2, HandlerStays DEF HandlerKnows
<1>11. Human!ActiveWasPromoted'
  BY <1>2, <1>7, NamesStay
<1> QED BY <1>7, <1>8, <1>9, <1>10, <1>11 DEF ConfigsInv

\* A step of the humans' side: what holds of the configs stays true, and no promotion is undone.
LEMMA HumanStep ==
  ASSUME ManualAssumption, ConfigsInv, Human!Next
  PROVE  ConfigsInv' /\ PromotionsStay
<1>1. CASE Human!CreateConfig
  BY <1>1, CreateStep
<1>2. CASE Human!NextSecond
  <2>1. UNCHANGED <<configs, active, events, handler>> /\ second' = second + 1
    BY <1>2 DEF Human!NextSecond
  <2>2. ConfigsTyped'
    BY <2>1 DEF ConfigsInv, ConfigsTyped
  <2> QED BY <2>1, <2>2, ConfigsAlone
            DEF ConfigsInv, HandlerKnows, Human!WasPromoted, Human!ActiveWasPromoted
<1>3. CASE \E c \in Callers : Human!Step(c)
  <2>1. PICK c \in Callers : Human!Step(c)
    BY <1>3
  <2>2. CASE \E i \in DOMAIN configs : \/ Human!RequireDraft(c, i) \/ Human!LoadConfig(c, i)
                                       \/ Human!Rollback(c, i)
    <3>1. PICK i \in DOMAIN configs : \/ Human!RequireDraft(c, i) \/ Human!LoadConfig(c, i)
                                      \/ Human!Rollback(c, i)
      BY <2>2
    <3>2. second \in Nat /\ second # None /\ None \in Nat \cup {None}
      BY ManualAssumption DEF ConfigsInv, ConfigsTyped
    <3>3. CASE Human!RequireDraft(c, i)
      <4>1. Human!Called(c, "shadow", "shadow", i, None)
        BY <3>3 DEF Human!RequireDraft
      <4> QED BY <4>1, <3>2, CalledStep, ConfigsAlone DEF Types, Human!Called
    <3>4. CASE Human!LoadConfig(c, i)
      <4>1. PICK at \in Nat : at = second
        BY <3>2
      <4>2. Human!Called(c, "promote", "config.promoted", i, at)
        BY <3>4, <4>1 DEF Human!LoadConfig
      <4> QED BY <4>1, <4>2, <3>2, CalledStep, ConfigsAlone DEF Types, Human!Called
    <3>5. CASE Human!Rollback(c, i)
      <4>1. Human!Called(c, "flip", "config.rolledback", i, None) /\ configs[i].status = "promoted"
        BY <3>5 DEF Human!Rollback, Human!RollbackTarget, Human!Promoted
      <4>2. Human!WasPromoted(i)
        BY <4>1 DEF ConfigsInv
      <4> QED BY <4>1, <4>2, <3>2, CalledStep, ConfigsAlone DEF Types, Human!Called
    <3> QED BY <3>1, <3>3, <3>4, <3>5
  <2>3. CASE Human!Shadow(c)
    BY <2>3, ShadowStep
  <2>4. CASE Human!Promote(c)
    BY <2>4, PromoteStep
  <2>5. CASE Human!UpsertActiveRef(c)
    BY <2>5, FlipStep, ConfigsAlone DEF Human!UpsertActiveRef
  <2>6. CASE Human!EmitEvent(c)
    BY <2>6, EmitStep, ConfigsAlone DEF Human!EmitEvent
  <2>7. CASE Human!Abandon(c)
    BY <2>7, AbandonStep, ConfigsAlone DEF Human!Abandon
  <2> QED BY <2>1, <2>2, <2>3, <2>4, <2>5, <2>6, <2>7 DEF Human!Step
<1> QED BY <1>1, <1>2, <1>3 DEF Human!Next

LEMMA ManualInvInit == ManualInit => ManualInv
<1> SUFFICES ASSUME ManualInit PROVE ManualInv
  OBVIOUS
<1> USE DEF ManualInit, ConfigsInit, Human!Init
<1>1. ConfigsTyped
  <2>1. handler \in [Callers -> Handlings]
    BY DEF Human!Idle, Handlings, Types
  <2> QED BY <2>1 DEF ConfigsTyped
<1>2. DOMAIN configs = {} /\ DOMAIN events = {}
  OBVIOUS
<1>3. \A c \in Callers : HandlerKnows(handler[c])
  BY DEF HandlerKnows, Human!Idle
<1>4. ManualWasPromoted
  BY DEF ManualWasPromoted
<1> QED BY <1>1, <1>2, <1>3, <1>4 DEF ManualInv, ConfigsInv, Human!ActiveWasPromoted

\* The same, with what the turns have in their contexts.
LEMMA ManualStep ==
  ASSUME ManualAssumption, ManualInv, [ManualNext]_allVars
  PROVE  ManualInv'
<1>1. CASE Human!Next /\ UNCHANGED <<vars, manual>>
  <2>1. ConfigsInv' /\ PromotionsStay
    BY <1>1, HumanStep DEF ManualInv
  <2>2. ASSUME NEW t \in Turns, manual'[t] # None PROVE Human!WasPromoted(manual[t])'
    <3>1. PICK i : i = manual[t]
      OBVIOUS
    <3>2. manual' = manual
      BY <1>1
    <3>3. Human!WasPromoted(i)
      BY <2>2, <3>1, <3>2 DEF ManualInv, ManualWasPromoted
    <3>4. i \in Nat
      BY <3>3 DEF ManualInv, ConfigsInv, ConfigsTyped, Human!WasPromoted
    <3>5. Human!WasPromoted(i)'
      BY <2>1, <3>3, <3>4 DEF PromotionsStay
    <3> QED BY <3>1, <3>2, <3>5 DEF Human!WasPromoted
  <2> QED BY <2>1, <2>2 DEF ManualInv, ManualWasPromoted
<1>2. CASE Next /\ FetchActiveManual /\ UNCHANGED configVars
  <2>1. UNCHANGED <<configs, active, events, second, handler>>
    BY <1>2 DEF configVars
  <2>2. ConfigsInv'
    BY <2>1 DEF ManualInv, ConfigsInv, ConfigsTyped, HandlerKnows, Human!WasPromoted,
                Human!ActiveWasPromoted
  <2>3. ASSUME NEW t \in Turns, manual'[t] # None PROVE Human!WasPromoted(manual'[t])
    <3>1. manual'[t] = active \/ manual'[t] = manual[t]
      BY <1>2, <2>3 DEF FetchActiveManual
    <3> QED BY <2>3, <3>1 DEF ManualInv, ManualWasPromoted, ConfigsInv, Human!ActiveWasPromoted
  <2> QED BY <2>1, <2>2, <2>3 DEF ManualInv, ManualWasPromoted, Human!WasPromoted
<1>3. CASE UNCHANGED allVars
  BY <1>3 DEF allVars, configVars, ManualInv, ManualWasPromoted, ConfigsInv, ConfigsTyped,
              HandlerKnows, Human!WasPromoted, Human!ActiveWasPromoted
<1> QED BY <1>1, <1>2, <1>3 DEF ManualNext

\* A turn follows only a manual a human promoted, and the pointer to it and the events of
\* its history name only such configs, however the handlers of any number of callers overlap
\* or die between their statements (configs.rs:73-168, manual.js:7-8).
THEOREM ManualsWerePromoted == ManualSpec => [](ManualWasPromoted /\ Human!ActiveWasPromoted)
<1>1. ManualInit => ManualInv
  BY ManualInvInit
<1>2. ManualInv /\ [ManualNext]_allVars => ManualInv'
  BY ManualAssumption, ManualStep
<1>3. ManualInv => ManualWasPromoted /\ Human!ActiveWasPromoted
  BY DEF ManualInv, ConfigsInv
<1> QED BY <1>1, <1>2, <1>3, PTL DEF ManualSpec
-----------------------------------------------------------------------------
(***************************************************************************)
(* The daily brief.  A brief costs a job that no run has ended and a       *)
(* drainer; the drainers that are away from the claim and the jobs that    *)
(* are free to be run are bounded together, whatever fails.  On the day    *)
(* that is not over yet this bound holds with the briefs that were sent,   *)
(* since a drainer that finds one sent inserts nothing; once it is over,   *)
(* only the runs that began on it can still log one.                       *)
(***************************************************************************)

\* What has gone wrong so far.
Mishaps == faults + overruns

\* A lease in good order: its owner is still at the job's brief.
Leased(j) ==
  /\ jobs[j].status = "running"
  /\ held[jobs[j].claimed_by] = j
  /\ pc[jobs[j].claimed_by] \in {"agent", "write", "ledger", "done"}

\* Jobs that a run is yet to come of; of those, the ones a worker has lost.
Free == {j \in Jobs : jobs[j].status \in {"queued", "running"} /\ ~Leased(j)}
Lost == {j \in Jobs : jobs[j].status = "running" /\ ~Leased(j)}

Busy == {d \in Drainers : pc[d] \in {"agent", "write", "ledger", "debounce", "insert"}}
Away == {d \in Drainers : pc[d] # "claim"}
RunsOn(y, z) == {d \in Drainers : pc[d] \in {"agent", "write", "ledger"} /\ LocalDay(stamp[d], z) = y}

Shape ==
  /\ BriefTypeOK
  /\ \A d \in Drainers :
       pc[d] \in {"agent", "write", "ledger", "done", "failed"} => held[d] \in Jobs
  /\ \A j \in Jobs : /\ jobs[j].status = "running" => jobs[j].claimed_by \in Drainers
                     /\ jobs[j].status = "queued" => jobs[j].attempts < MaxAttempts

Bounded ==
  /\ Cardinality(Lost) <= Mishaps
  /\ Cardinality(Free) + Cardinality(Away) <= Cardinality(Drainers) + Mishaps

DayBounded(y, z) ==
  IF LocalDay(now, z) <= y
  THEN SentOn(y, z) > 0 =>
         SentOn(y, z) + Cardinality(Free) + Cardinality(Busy) <= Cardinality(Drainers) + Mishaps
  ELSE SentOn(y, z) + Cardinality(RunsOn(y, z)) <= Cardinality(Drainers) + Mishaps

SharedZone(z) == \A d \in Drainers : TzOf[d] = z

BriefInv(z) == Shape /\ Bounded /\ \A y \in Int : DayBounded(y, z)
-----------------------------------------------------------------------------
LEMMA InsertedType ==
  ASSUME NEW t \in [Jobs -> Row], NEW j \in Jobs, NEW p \in Int, NEW n \in Nat
  PROVE  Inserted(t, j, p, n) \in [Jobs -> Row]
BY DEF Inserted, NewRow, Row, Statuses

LEMMA ClaimedType ==
  ASSUME NEW t \in [Jobs -> Row], NEW j \in Jobs, NEW w \in Workers, NEW n \in Nat
  PROVE  Claimed(t, j, w, n) \in [Jobs -> Row]
<1> DEFINE r == [t[j] EXCEPT !.status = "running", !.claimed_by = w,
                             !.claimed_at = n, !.attempts = t[j].attempts + 1]
<1>1. r \in Row
  <2>1. t[j] \in Row
    OBVIOUS
  <2>2. t[j].attempts + 1 \in Nat
    BY <2>1 DEF Row
  <2> QED BY <2>1, <2>2 DEF Row, Statuses
<1>2. Claimed(t, j, w, n) = [t EXCEPT ![j] = r]
  BY DEF Claimed
<1> HIDE DEF r
<1> QED BY <1>1, <1>2

LEMMA FinalisedType ==
  ASSUME NEW t \in [Jobs -> Row], NEW j, NEW w, NEW o \in {"done", "failed"}
  PROVE  Finalised(t, j, w, o) \in [Jobs -> Row]
BY DEF Finalised, Row, Statuses

LEMMA ReapedType ==
  ASSUME NEW t \in [Jobs -> Row], NEW n
  PROVE  Reaped(t, n) \in [Jobs -> Row]
BY DEF Reaped, Row, Statuses

LEMMA ClaimedRows ==
  ASSUME NEW t \in [Jobs -> Row], NEW j \in Jobs, NEW w, NEW n
  PROVE  /\ Claimed(t, j, w, n)[j].status = "running"
         /\ Claimed(t, j, w, n)[j].claimed_by = w
         /\ Claimed(t, j, w, n)[j].claimed_at = n
         /\ Claimed(t, j, w, n)[j].attempts = t[j].attempts + 1
         /\ \A k \in Jobs \ {j} : Claimed(t, j, w, n)[k] = t[k]
<1>1. t[j] \in Row
  OBVIOUS
<1> QED BY <1>1 DEF Claimed, Row

LEMMA FinalisedRows ==
  ASSUME NEW t \in [Jobs -> Row], NEW j \in Jobs, NEW w, NEW o
  PROVE  /\ Holds(t, j, w) => /\ Finalised(t, j, w, o)[j].status = o
                              /\ Finalised(t, j, w, o)[j].attempts = t[j].attempts
         /\ ~ Holds(t, j, w) => Finalised(t, j, w, o)[j] = t[j]
         /\ \A k \in Jobs \ {j} : Finalised(t, j, w, o)[k] = t[k]
<1>1. t[j] \in Row
  OBVIOUS
<1> QED BY <1>1 DEF Finalised, Row

LEMMA ReapedRows ==
  ASSUME NEW t \in [Jobs -> Row], NEW n, NEW k \in Jobs
  PROVE  /\ Reaped(t, n)[k].attempts = t[k].attempts
         /\ k \notin Stuck(t, n) => Reaped(t, n)[k] = t[k]
         /\ k \in Stuck(t, n) =>
              Reaped(t, n)[k].status
                = IF t[k].attempts >= MaxAttempts THEN "failed" ELSE "queued"
<1>1. t[k] \in Row
  OBVIOUS
<1>2. CASE k \in Stuck(t, n)
  BY <1>1, <1>2 DEF Reaped, Row
<1>3. CASE k \notin Stuck(t, n)
  BY <1>3 DEF Reaped
<1> QED BY <1>2, <1>3

LEMMA DayOrder ==
  ASSUME NEW s \in Int, NEW t \in Int, NEW z \in Int, s <= t
  PROVE  LocalDay(s, z) \in Int /\ LocalDay(s, z) <= LocalDay(t, z)
<1> USE BriefAssumption
<1> DEFINE a == s + z
           b == t + z
           D == DaySecs
<1>1. a \in Int /\ b \in Int /\ D \in Nat /\ D > 0 /\ a <= b
  OBVIOUS
<1> HIDE DEF a, b, D
<1>2. a \div D \in Int /\ b \div D \in Int
  BY <1>1
<1>3. a \div D <= b \div D
  BY <1>1
<1> QED
  BY <1>2, <1>3 DEF LocalDay, a, b, D

LEMMA Finite ==
  ASSUME Shape
  PROVE  /\ IsFiniteSet(Jobs) /\ IsFiniteSet(Drainers)
         /\ \A S \in SUBSET Jobs : IsFiniteSet(S) /\ Cardinality(S) \in Nat
         /\ \A S \in SUBSET Drainers : IsFiniteSet(S) /\ Cardinality(S) \in Nat
<1>1. IsFiniteSet(Jobs)
  BY BriefAssumption, FS_Interval
<1> QED
  BY BriefAssumption, <1>1, FS_Subset, FS_CardinalityType

LEMMA OneMore ==
  ASSUME NEW S, NEW T, NEW x, IsFiniteSet(S), T \subseteq S \union {x}
  PROVE  IsFiniteSet(T) /\ Cardinality(T) <= Cardinality(S) + 1
<1>1. IsFiniteSet(S \union {x}) /\ Cardinality(S \union {x}) = IF x \in S THEN Cardinality(S) ELSE Cardinality(S) + 1
  BY FS_AddElement
<1>2. IsFiniteSet(T) /\ Cardinality(T) <= Cardinality(S \union {x})
  BY <1>1, FS_Subset
<1>3. Cardinality(S) \in Nat /\ Cardinality(T) \in Nat
  BY <1>2, FS_CardinalityType
<1> QED
  BY <1>1, <1>2, <1>3

LEMMA OneLess ==
  ASSUME NEW S, NEW T, NEW x \in S, IsFiniteSet(S), T \subseteq S \ {x}
  PROVE  IsFiniteSet(T) /\ Cardinality(T) <= Cardinality(S) - 1
<1>1. IsFiniteSet(S \ {x}) /\ Cardinality(S \ {x}) = Cardinality(S) - 1
  BY FS_RemoveElement
<1> QED
  BY <1>1, FS_Subset, FS_CardinalityType

LEMMA NoMore ==
  ASSUME NEW S, NEW T, IsFiniteSet(S), T \subseteq S
  PROVE  IsFiniteSet(T) /\ Cardinality(T) <= Cardinality(S)
BY FS_Subset

LEMMA SomeMore ==
  ASSUME NEW S, NEW T, NEW U, IsFiniteSet(S), IsFiniteSet(U), T \subseteq S \union U
  PROVE  IsFiniteSet(T) /\ Cardinality(T) <= Cardinality(S) + Cardinality(U)
<1>1. IsFiniteSet(S \union U) /\ Cardinality(S \union U) <= Cardinality(S) + Cardinality(U)
  <2>1. IsFiniteSet(S \cap U)
    BY FS_Intersection
  <2>2. Cardinality(S) \in Nat /\ Cardinality(U) \in Nat /\ Cardinality(S \cap U) \in Nat
    BY <2>1, FS_CardinalityType
  <2>3. Cardinality(S \union U) = Cardinality(S) + Cardinality(U) - Cardinality(S \cap U)
    BY FS_Union
  <2>4. IsFiniteSet(S \union U)
    BY FS_Union
  <2> QED
    BY <2>2, <2>3, <2>4
<1>2. IsFiniteSet(T) /\ Cardinality(T) <= Cardinality(S \union U)
  BY <1>1, FS_Subset
<1>3. Cardinality(T) \in Nat /\ Cardinality(S) \in Nat /\ Cardinality(U) \in Nat /\ Cardinality(S \union U) \in Nat
  BY <1>1, <1>2, FS_CardinalityType
<1> QED
  BY <1>1, <1>2, <1>3
-----------------------------------------------------------------------------
LEMMA SentCount ==
  ASSUME Shape, NEW y, NEW z
  PROVE  IsFiniteSet({n \in DOMAIN ledger : LocalDay(ledger[n], z) = y}) /\ SentOn(y, z) \in Nat
<1>1. IsFiniteSet(DOMAIN ledger)
  <2>1. DOMAIN ledger = 1..Len(ledger) /\ Len(ledger) \in Nat
    BY DEF Shape, BriefTypeOK
  <2> QED
    BY <2>1, FS_Interval
<1> QED
  BY <1>1, FS_Subset, FS_CardinalityType DEF SentOn

LEMMA Counts ==
  ASSUME Shape, NEW y, NEW z
  PROVE  /\ IsFiniteSet(Free) /\ IsFiniteSet(Lost) /\ IsFiniteSet(Busy) /\ IsFiniteSet(Away) /\ IsFiniteSet(RunsOn(y, z))
         /\ Cardinality(Free) \in Nat /\ Cardinality(Lost) \in Nat /\ Cardinality(Busy) \in Nat /\ Cardinality(Away) \in Nat /\ Cardinality(RunsOn(y, z)) \in Nat /\ Cardinality(Drainers) \in Nat /\ SentOn(y, z) \in Nat /\ Mishaps \in Nat
         /\ Cardinality(Busy) <= Cardinality(Away) /\ Cardinality(RunsOn(y, z)) <= Cardinality(Busy)
         /\ Cardinality(RunsOn(y, z)) <= Cardinality(Drainers) /\ Cardinality(Away) <= Cardinality(Drainers)
<1>1. Free \subseteq Jobs /\ Lost \subseteq Jobs /\ Busy \subseteq Drainers /\ Away \subseteq Drainers /\ RunsOn(y, z) \subseteq Drainers
  BY DEF Free, Lost, Busy, Away, RunsOn
<1>2. Busy \subseteq Away /\ RunsOn(y, z) \subseteq Busy
  BY DEF Busy, Away, RunsOn
<1>3. Mishaps \in Nat
  BY DEF Shape, BriefTypeOK, Mishaps
<1>4. /\ IsFiniteSet(Free) /\ IsFiniteSet(Lost) /\ IsFiniteSet(Busy) /\ IsFiniteSet(Away) /\ IsFiniteSet(RunsOn(y, z)) /\ IsFiniteSet(Drainers)
  BY <1>1, Finite
<1>5. Cardinality(Free) \in Nat /\ Cardinality(Lost) \in Nat /\ Cardinality(Busy) \in Nat /\ Cardinality(Away) \in Nat /\ Cardinality(RunsOn(y, z)) \in Nat /\ Cardinality(Drainers) \in Nat
  BY <1>4, FS_CardinalityType
<1>6. Cardinality(Busy) <= Cardinality(Away) /\ Cardinality(RunsOn(y, z)) <= Cardinality(Busy)
  BY <1>2, <1>4, FS_Subset
<1>7. Cardinality(RunsOn(y, z)) <= Cardinality(Drainers) /\ Cardinality(Away) <= Cardinality(Drainers)
  BY <1>1, <1>4, FS_Subset
<1> QED
  BY <1>3, <1>4, <1>5, <1>6, <1>7, SentCount

LEMMA NatSum == \A m, n \in Nat : m + n \in Nat
OBVIOUS

LEMMA MishapsNext ==
  ASSUME Shape'
  PROVE  Mishaps' \in Nat
<1>1. faults' \in Nat /\ overruns' \in Nat
  BY BriefAssumption DEF Shape, BriefTypeOK
<1> QED
  BY <1>1, NatSum DEF Mishaps

\* A step that logs no brief and takes no time.
LEMMA QuietStep ==
  ASSUME NEW z \in Int, BriefInv(z), Shape', Bounded', UNCHANGED <<now, ledger>>,
         Cardinality(Free') + Cardinality(Busy') + Mishaps <= Cardinality(Free) + Cardinality(Busy) + Mishaps',
         Mishaps <= Mishaps',
         \A y \in Int : LocalDay(now, z) > y => RunsOn(y, z)' \subseteq RunsOn(y, z)
  PROVE  BriefInv(z)'
<1> SUFFICES ASSUME NEW y \in Int PROVE DayBounded(y, z)'
  BY DEF BriefInv
<1>1. SentOn(y, z)' = SentOn(y, z) /\ LocalDay(now, z)' = LocalDay(now, z)
  BY DEF SentOn, LocalDay
<1>2. LocalDay(now, z) \in Int
  BY BriefAssumption, DayOrder DEF BriefInv, Shape, BriefTypeOK, Times
<1>3. Cardinality(Free) \in Nat /\ Cardinality(Busy) \in Nat /\ Cardinality(RunsOn(y, z)) \in Nat /\ Cardinality(Drainers) \in Nat /\ SentOn(y, z) \in Nat /\ Mishaps \in Nat
  BY Counts DEF BriefInv
<1>4. Cardinality(Free') \in Nat /\ Cardinality(Busy') \in Nat /\ Cardinality(RunsOn(y, z)') \in Nat /\ Mishaps' \in Nat
  <2>1. Free' \subseteq Jobs /\ Busy' \subseteq Drainers /\ RunsOn(y, z)' \subseteq Drainers
    BY DEF Free, Busy, RunsOn
  <2>2. Mishaps' \in Nat
    BY MishapsNext
  <2> QED
    BY <2>1, <2>2, Finite DEF BriefInv
<1>5. DayBounded(y, z)
  BY DEF BriefInv
<1> DEFINE day == LocalDay(now, z)
<1>8. day <= y /\ (SentOn(y, z) > 0 =>
                    SentOn(y, z) + Cardinality(Free') + Cardinality(Busy') <= Cardinality(Drainers) + Mishaps')
      => DayBounded(y, z)'
  BY <1>1 DEF DayBounded
<1>9. ~(day <= y) /\ SentOn(y, z) + Cardinality(RunsOn(y, z)') <= Cardinality(Drainers) + Mishaps'
      => DayBounded(y, z)'
  BY <1>1 DEF DayBounded
<1>6. CASE LocalDay(now, z) <= y
  <2>1. ASSUME SentOn(y, z) > 0
        PROVE  SentOn(y, z) + Cardinality(Free') + Cardinality(Busy') <= Cardinality(Drainers) + Mishaps'
    <3>1. SentOn(y, z) + Cardinality(Free) + Cardinality(Busy) <= Cardinality(Drainers) + Mishaps
      BY <1>5, <1>6, <2>1 DEF DayBounded
    <3> QED
      BY <1>3, <1>4, <3>1
  <2> QED
    BY <1>6, <1>8, <2>1
<1>7. CASE LocalDay(now, z) > y
  <2>1. Cardinality(RunsOn(y, z)') <= Cardinality(RunsOn(y, z))
    BY <1>7, NoMore, Counts DEF BriefInv
  <2> QED
    BY <1>2, <1>3, <1>4, <1>5, <1>7, <1>9, <2>1 DEF DayBounded
<1> QED
  BY <1>2, <1>6, <1>7
-----------------------------------------------------------------------------
(* The statements of a drainer. *)

LEMMA Owned ==
  ASSUME Shape, NEW j \in Jobs, Leased(j)
  PROVE  jobs[j].claimed_by \in Drainers
BY DEF Shape, Leased

LEMMA ClaimShape ==
  ASSUME Shape, NEW d \in Drainers, Claim(d)
  PROVE  Shape'
<1> USE BriefAssumption
<1>1. CASE Eligible(jobs) = {}
  BY <1>1 DEF Shape, BriefTypeOK, Claim, Go, outputVars, Places
<1>2. ASSUME NEW j \in ClaimChoices(jobs),
             jobs' = Claimed(jobs, j, d, now), held' = [held EXCEPT ![d] = j],
             stamp' = [stamp EXCEPT ![d] = now], Go(d, "agent"),
             UNCHANGED <<now, outputVars, faults, overruns>>
      PROVE  Shape'
  <2>1. j \in Jobs
    BY <1>2 DEF ClaimChoices, Eligible
  <2>2. jobs' \in [Jobs -> Row]
    <3>1. jobs \in [Jobs -> Row] /\ now \in Nat /\ d \in Workers
      BY DEF Shape, BriefTypeOK, Times
    <3> QED
      BY <1>2, <2>1, <3>1, ClaimedType
  <2>3. BriefTypeOK'
    BY <1>2, <2>1, <2>2 DEF Go, Shape, BriefTypeOK, outputVars, Places
  <2>4. \A e \in Drainers : pc'[e] \in {"agent", "write", "ledger", "done", "failed"} => held'[e] \in Jobs
    BY <1>2, <2>1 DEF Go, Shape, BriefTypeOK
  <2>5. \A k \in Jobs : /\ jobs'[k].status = "running" => jobs'[k].claimed_by \in Drainers
                        /\ jobs'[k].status = "queued" => jobs'[k].attempts < MaxAttempts
    <3>1. jobs \in [Jobs -> Row]
      BY DEF Shape, BriefTypeOK
    <3>2. jobs'[j].status = "running" /\ jobs'[j].claimed_by = d /\ \A k \in Jobs \ {j} : jobs'[k] = jobs[k]
      <4> DEFINE t == Claimed(jobs, j, d, now)
      <4>1. t[j].status = "running" /\ t[j].claimed_by = d /\ \A k \in Jobs \ {j} : t[k] = jobs[k]
        BY <2>1, <3>1, ClaimedRows
      <4> QED
        BY <1>2, <4>1
    <3> QED
      BY <3>2 DEF Shape
  <2> QED
    BY <2>3, <2>4, <2>5 DEF Shape
<1> QED
  BY <1>1, <1>2 DEF Claim

LEMMA ClaimInv ==
  ASSUME NEW z \in Int, BriefInv(z), NEW d \in Drainers, Claim(d)
  PROVE  BriefInv(z)'
<1>0. Shape /\ Shape'
  BY ClaimShape DEF BriefInv
<1>c. /\ IsFiniteSet(Free) /\ IsFiniteSet(Lost) /\ IsFiniteSet(Busy) /\ IsFiniteSet(Away)
      /\ Cardinality(Free) \in Nat /\ Cardinality(Lost) \in Nat /\ Cardinality(Busy) \in Nat
      /\ Cardinality(Away) \in Nat /\ Cardinality(Drainers) \in Nat /\ Mishaps \in Nat
  BY <1>0, Counts
<1>a. Away' \subseteq Drainers
  BY DEF Away
<1>b. Cardinality(Away') \in Nat /\ Cardinality(Away') <= Cardinality(Drainers)
  BY <1>0, <1>a, Finite, NoMore
<1>m. Mishaps' = Mishaps /\ UNCHANGED <<now, ledger>>
  BY DEF Claim, Mishaps, outputVars
<1>p. Cardinality(Lost) <= Mishaps /\ Cardinality(Free) + Cardinality(Away) <= Cardinality(Drainers) + Mishaps
  BY DEF BriefInv, Bounded
<1>1. CASE Eligible(jobs) = {}
  <2>1. jobs' = jobs /\ held' = held /\ stamp' = stamp /\ pc' = [pc EXCEPT ![d] = "reap"] /\ pc[d] = "claim"
    BY <1>0, <1>1 DEF Claim, Go
  <2>2. \A e \in Drainers : e # d => pc'[e] = pc[e]
    BY <1>0, <2>1 DEF Shape, BriefTypeOK
  <2>3. \A j \in Jobs : Leased(j)' <=> Leased(j)
    BY <1>0, <2>1, <2>2 DEF Leased, Shape, BriefTypeOK
  <2>4. Lost' = Lost /\ Free' = Free
    BY <2>1, <2>3 DEF Lost, Free
  <2>5. Busy' = Busy
    BY <1>0, <2>1, <2>2 DEF Busy, Shape, BriefTypeOK
  <2>6. Free \subseteq Lost
    BY <1>0, <1>1 DEF Free, Lost, Eligible, Shape
  <2>7. Cardinality(Free) <= Cardinality(Lost)
    BY <1>c, <2>6, NoMore
  <2>8. Bounded'
    BY <1>c, <1>b, <1>m, <1>p, <2>4, <2>7 DEF Bounded
  <2>9. \A y \in Int : RunsOn(y, z)' \subseteq RunsOn(y, z)
    BY <1>0, <2>1 DEF RunsOn, Shape, BriefTypeOK
  <2> QED
    BY <1>0, <1>c, <1>m, <2>4, <2>5, <2>8, <2>9, QuietStep
<1>2. ASSUME NEW j \in ClaimChoices(jobs),
             jobs' = Claimed(jobs, j, d, now), held' = [held EXCEPT ![d] = j],
             stamp' = [stamp EXCEPT ![d] = now], Go(d, "agent")
      PROVE  BriefInv(z)'
  <2>1. j \in Jobs /\ jobs[j].status = "queued"
    BY <1>2 DEF ClaimChoices, Eligible
  <2>2. jobs'[j].status = "running" /\ jobs'[j].claimed_by = d /\ \A k \in Jobs \ {j} : jobs'[k] = jobs[k]
    <3>1. jobs \in [Jobs -> Row]
      BY <1>0 DEF Shape, BriefTypeOK
    <3> QED
      BY <1>2, <2>1, <3>1, ClaimedRows
  <2>3. pc[d] = "claim" /\ pc'[d] = "agent" /\ held'[d] = j /\ stamp'[d] = now
        /\ \A e \in Drainers \ {d} : pc'[e] = pc[e] /\ held'[e] = held[e] /\ stamp'[e] = stamp[e]
    BY <1>0, <1>2 DEF Claim, Go, Shape, BriefTypeOK
  <2>4. j \in Free /\ Leased(j)'
    BY <2>1, <2>2, <2>3 DEF Free, Leased
  <2>5. \A k \in Jobs \ {j} : Leased(k) => Leased(k)'
    BY <1>0, <2>2, <2>3 DEF Leased, Shape
  <2>6. Free' \subseteq Free \ {j} /\ Lost' \subseteq Lost
    BY <2>2, <2>4, <2>5 DEF Free, Lost
  <2>7. Busy' \subseteq Busy \union {d} /\ Away' \subseteq Away \union {d}
    BY <2>3 DEF Busy, Away
  <2>8. /\ Cardinality(Free') <= Cardinality(Free) - 1 /\ Cardinality(Lost') <= Cardinality(Lost)
        /\ Cardinality(Busy') <= Cardinality(Busy) + 1 /\ Cardinality(Away') <= Cardinality(Away) + 1
    BY <1>c, <2>4, <2>6, <2>7, OneLess, OneMore, NoMore
  <2>9. Cardinality(Free') \in Nat /\ Cardinality(Lost') \in Nat /\ Cardinality(Busy') \in Nat
    <3>1. Free' \subseteq Jobs /\ Lost' \subseteq Jobs /\ Busy' \subseteq Drainers
      BY DEF Free, Lost, Busy
    <3> QED
      BY <1>0, <3>1, Finite
  <2>10. Bounded'
    BY <1>b, <1>c, <1>m, <1>p, <2>8, <2>9 DEF Bounded
  <2>11. \A y \in Int : LocalDay(now, z) > y => RunsOn(y, z)' \subseteq RunsOn(y, z)
    <3>1. LocalDay(now, z) \in Int
      BY <1>0, BriefAssumption, DayOrder DEF Shape, BriefTypeOK, Times
    <3> QED
      BY <2>3, <3>1 DEF RunsOn
  <2> QED
    BY <1>0, <1>b, <1>c, <1>m, <2>8, <2>9, <2>10, <2>11, QuietStep
<1> QED
  BY <1>1, <1>2 DEF Claim

\* k mishaps, and f jobs more that a run is yet to come of.
LEMMA Moved ==
  ASSUME NEW z \in Int, BriefInv(z), Shape', UNCHANGED <<now, ledger>>,
         NEW k \in Nat, NEW f \in Int, Mishaps' = Mishaps + k,
         Cardinality(Lost') <= Cardinality(Lost) + k,
         Cardinality(Free') <= Cardinality(Free) + f,
         Cardinality(Busy') <= Cardinality(Busy) + k - f,
         Cardinality(Away') <= Cardinality(Away) + k - f,
         \A y \in Int : RunsOn(y, z)' \subseteq RunsOn(y, z)
  PROVE  BriefInv(z)'
<1>c. /\ Cardinality(Free) \in Nat /\ Cardinality(Lost) \in Nat /\ Cardinality(Busy) \in Nat
      /\ Cardinality(Away) \in Nat /\ Cardinality(Drainers) \in Nat /\ Mishaps \in Nat
  BY Counts DEF BriefInv
<1>n. Cardinality(Free') \in Nat /\ Cardinality(Lost') \in Nat /\ Cardinality(Busy') \in Nat /\ Cardinality(Away') \in Nat
  <2>1. Free' \subseteq Jobs /\ Lost' \subseteq Jobs /\ Busy' \subseteq Drainers /\ Away' \subseteq Drainers
    BY DEF Free, Lost, Busy, Away
  <2> QED
    BY <2>1, Finite DEF BriefInv
<1>p. Cardinality(Lost) <= Mishaps /\ Cardinality(Free) + Cardinality(Away) <= Cardinality(Drainers) + Mishaps
  BY DEF BriefInv, Bounded
<1>1. Bounded'
  <2>1. Cardinality(Lost') <= Mishaps + k /\ Cardinality(Free') + Cardinality(Away') <= Cardinality(Drainers) + Mishaps + k
    BY <1>c, <1>n, <1>p
  <2> QED
    BY <1>c, <2>1 DEF Bounded
<1>2. Cardinality(Free') + Cardinality(Busy') + Mishaps <= Cardinality(Free) + Cardinality(Busy) + Mishaps'
  BY <1>c, <1>n
<1>3. Mishaps <= Mishaps'
  BY <1>c
<1> QED
  BY <1>1, <1>2, <1>3, QuietStep
-----------------------------------------------------------------------------
\* What a step of d leaves alone.
OthersStay(d) ==
  \A e \in Drainers \ {d} : pc'[e] = pc[e] /\ held'[e] = held[e] /\ stamp'[e] = stamp[e]

LEMMA Finites ==
  ASSUME NEW z, BriefInv(z)
  PROVE  IsFiniteSet(Free) /\ IsFiniteSet(Lost) /\ IsFiniteSet(Busy) /\ IsFiniteSet(Away)
BY Counts DEF BriefInv

\* A run goes on, or fails: a fault, and its job is free.
LEMMA RunInv ==
  ASSUME NEW z \in Int, BriefInv(z), Shape', NEW d \in Drainers,
         UNCHANGED <<jobs, now, ledger, held, stamp, overruns>>,
         pc[d] \in {"agent", "write", "ledger"},
         \/ pc' = [pc EXCEPT ![d] = "write"] /\ UNCHANGED faults
         \/ pc' = [pc EXCEPT ![d] = "ledger"] /\ UNCHANGED faults
         \/ pc' = [pc EXCEPT ![d] = "failed"] /\ faults' = faults + 1
  PROVE  BriefInv(z)'
<1>0. Shape
  BY DEF BriefInv
<1>1. pc'[d] \in {"write", "ledger", "failed"} /\ OthersStay(d)
  BY <1>0 DEF OthersStay, Shape, BriefTypeOK
<1>2. Busy' \subseteq Busy /\ Away' \subseteq Away /\ \A y \in Int : RunsOn(y, z)' \subseteq RunsOn(y, z)
  BY <1>1 DEF Busy, Away, RunsOn, OthersStay
<1>3. Mishaps \in Nat /\ faults \in Nat /\ overruns \in Nat
  <2>1. faults \in Nat /\ overruns \in Nat
    BY <1>0, BriefAssumption DEF Shape, BriefTypeOK
  <2> QED
    BY <2>1, NatSum DEF Mishaps
<1>4. CASE pc'[d] # "failed"
  <2>1. \A j \in Jobs : Leased(j) => Leased(j)'
    BY <1>0, <1>1, <1>4 DEF Leased, OthersStay, Shape
  <2>2. Free' \subseteq Free /\ Lost' \subseteq Lost
    BY <2>1 DEF Free, Lost
  <2>3. Mishaps' = Mishaps + 0
    <3>1. faults' = faults /\ overruns' = overruns
      BY <1>0, <1>4 DEF Shape, BriefTypeOK
    <3> QED
      BY <1>3, <3>1 DEF Mishaps
  <2>4. /\ Cardinality(Free') <= Cardinality(Free) + 0 /\ Cardinality(Lost') <= Cardinality(Lost) + 0
        /\ Cardinality(Busy') <= Cardinality(Busy) + 0 - 0 /\ Cardinality(Away') <= Cardinality(Away) + 0 - 0
    BY <1>0, <1>2, <2>2, NoMore, Finites, Counts
  <2> QED
    BY <1>2, <2>3, <2>4, Moved
<1>5. CASE pc'[d] = "failed"
  <2>1. \A j \in Jobs : Leased(j) /\ j # held[d] => Leased(j)'
    BY <1>0, <1>1 DEF Leased, OthersStay, Shape
  <2>2. Free' \subseteq Free \union {held[d]} /\ Lost' \subseteq Lost \union {held[d]}
    BY <2>1 DEF Free, Lost
  <2>3. Mishaps' = Mishaps + 1
    <3>1. faults' = faults + 1 /\ overruns' = overruns
      BY <1>0, <1>5 DEF Shape, BriefTypeOK
    <3> QED
      BY <1>3, <3>1 DEF Mishaps
  <2>4. /\ Cardinality(Free') <= Cardinality(Free) + 1 /\ Cardinality(Lost') <= Cardinality(Lost) + 1
        /\ Cardinality(Busy') <= Cardinality(Busy) /\ Cardinality(Away') <= Cardinality(Away)
    BY <1>2, <2>2, NoMore, OneMore, Finites
  <2>5. Cardinality(Busy) + 1 - 1 = Cardinality(Busy) /\ Cardinality(Away) + 1 - 1 = Cardinality(Away)
    BY <1>0, Counts
  <2> QED
    BY <1>2, <2>3, <2>4, <2>5, Moved
<1> QED
  BY <1>4, <1>5
-----------------------------------------------------------------------------
\* A run, a report or a process fails: a fault, and the job it held is free.
LEMMA FaultInv ==
  ASSUME NEW z \in Int, BriefInv(z), Shape', NEW d \in Drainers,
         UNCHANGED <<jobs, now, ledger, overruns>>, faults' = faults + 1, OthersStay(d),
         pc'[d] \in {"failed", "reap", "claim"}, pc[d] = "claim" => pc'[d] = "claim"
  PROVE  BriefInv(z)'
<1>0. Shape
  BY DEF BriefInv
<1>1. Busy' \subseteq Busy /\ Away' \subseteq Away /\ \A y \in Int : RunsOn(y, z)' \subseteq RunsOn(y, z)
  BY DEF Busy, Away, RunsOn, OthersStay
<1>2. \A j \in Jobs : Leased(j) /\ j # held[d] => Leased(j)'
  BY <1>0 DEF Leased, OthersStay, Shape
<1>3. Free' \subseteq Free \union {held[d]} /\ Lost' \subseteq Lost \union {held[d]}
  BY <1>2 DEF Free, Lost
<1>4. Mishaps' = Mishaps + 1
  <2>1. faults \in Nat /\ overruns \in Nat
    BY <1>0, BriefAssumption DEF Shape, BriefTypeOK
  <2> QED
    BY <2>1 DEF Mishaps
<1>5. /\ Cardinality(Free') <= Cardinality(Free) + 1 /\ Cardinality(Lost') <= Cardinality(Lost) + 1
      /\ Cardinality(Busy') <= Cardinality(Busy) /\ Cardinality(Away') <= Cardinality(Away)
  BY <1>1, <1>3, NoMore, OneMore, Finites
<1>6. Cardinality(Busy) + 1 - 1 = Cardinality(Busy) /\ Cardinality(Away) + 1 - 1 = Cardinality(Away)
  BY <1>0, Counts
<1> QED
  BY <1>1, <1>4, <1>5, <1>6, Moved

\* Neither a mishap nor a job more.
LEMMA CalmInv ==
  ASSUME NEW z \in Int, BriefInv(z), Shape', UNCHANGED <<now, ledger, faults, overruns>>,
         Free' \subseteq Free, Lost' \subseteq Lost, Busy' \subseteq Busy, Away' \subseteq Away,
         \A y \in Int : RunsOn(y, z)' \subseteq RunsOn(y, z)
  PROVE  BriefInv(z)'
<1>1. Mishaps \in Nat /\ Mishaps' = Mishaps
  BY Counts DEF BriefInv, Mishaps
<1>2. /\ Cardinality(Free') <= Cardinality(Free) /\ Cardinality(Lost') <= Cardinality(Lost)
      /\ Cardinality(Busy') <= Cardinality(Busy) /\ Cardinality(Away') <= Cardinality(Away)
  BY NoMore, Finites
<1>3. /\ Cardinality(Free) \in Nat /\ Cardinality(Lost) \in Nat /\ Cardinality(Busy) \in Nat
      /\ Cardinality(Away) \in Nat
  BY Counts DEF BriefInv
<1>4. Mishaps' = Mishaps + 0
  BY <1>1
<1>5. /\ Cardinality(Free') <= Cardinality(Free) + 0 /\ Cardinality(Lost') <= Cardinality(Lost) + 0
      /\ Cardinality(Busy') <= Cardinality(Busy) + 0 - 0 /\ Cardinality(Away') <= Cardinality(Away) + 0 - 0
  BY <1>2, <1>3
<1> QED
  BY <1>4, <1>5, Moved

\* A step that writes no job keeps the shape when the drainer's own values have theirs.
LEMMA DrainerShape ==
  ASSUME Shape, BriefTypeOK', NEW d \in Drainers, OthersStay(d), jobs' = jobs,
         pc'[d] \in {"agent", "write", "ledger", "done", "failed"} => held'[d] \in Jobs
  PROVE  Shape'
BY DEF Shape, OthersStay

LEMMA FaultType ==
  ASSUME Shape, Fault \/ UNCHANGED faults
  PROVE  faults' \in 0..MaxFaults
BY BriefAssumption DEF Shape, BriefTypeOK, Fault

LEMMA PlaceType ==
  ASSUME Shape, NEW d, NEW p \in Places, pc' = [pc EXCEPT ![d] = p]
  PROVE  pc' \in [Drainers -> Places]
BY DEF Shape, BriefTypeOK, Places

LEMMA LeaveType ==
  ASSUME Shape, NEW d, NEW p, Leaves(d, p)
  PROVE  held' \in [Drainers -> Jobs \cup {Null}] /\ stamp' \in [Drainers -> Times]
<1>1. 0 \in Times
  BY BriefAssumption DEF Times
<1> QED
  BY <1>1 DEF Shape, BriefTypeOK, Leaves

LEMMA RunAgentInv ==
  ASSUME NEW z \in Int, BriefInv(z), NEW d \in Drainers, RunAgent(d)
  PROVE  BriefInv(z)'
<1>0. Shape
  BY DEF BriefInv
<1>1. OthersStay(d) /\ held'[d] = held[d]
  BY <1>0 DEF RunAgent, Go, OthersStay, Shape, BriefTypeOK
<1>2. BriefTypeOK'
  <2>1. pc' \in [Drainers -> Places]
    BY <1>0, PlaceType DEF RunAgent, Go, Places
  <2>2. faults' \in 0..MaxFaults
    BY <1>0, FaultType DEF RunAgent
  <2> QED
    BY <1>0, <2>1, <2>2 DEF RunAgent, outputVars, Shape, BriefTypeOK, Places
<1>3. Shape'
  <2>1. held[d] \in Jobs
    BY <1>0 DEF RunAgent, Shape
  <2> QED
    BY <1>0, <1>1, <1>2, <2>1, DrainerShape DEF RunAgent
<1> QED
  BY <1>3, RunInv DEF RunAgent, Go, Fault, outputVars

LEMMA InsertBriefEntityInv ==
  ASSUME NEW z \in Int, BriefInv(z), NEW d \in Drainers, InsertBriefEntity(d)
  PROVE  BriefInv(z)'
<1>0. Shape
  BY DEF BriefInv
<1>1. OthersStay(d) /\ held'[d] = held[d]
  BY <1>0 DEF InsertBriefEntity, Go, OthersStay, Shape, BriefTypeOK
<1>2. BriefTypeOK'
  <2>1. pc' \in [Drainers -> Places]
    BY <1>0, PlaceType DEF InsertBriefEntity, Go, Places
  <2>2. faults' \in 0..MaxFaults
    BY <1>0, FaultType DEF InsertBriefEntity
  <2>3. briefs' \in [Times -> Nat]
    <3>1. briefs \in [Times -> Nat] /\ stamp[d] \in Times
      BY <1>0 DEF Shape, BriefTypeOK
    <3>2. briefs[stamp[d]] + 1 \in Nat
      BY <3>1
    <3> QED
      BY <3>1, <3>2 DEF InsertBriefEntity
  <2> QED
    BY <1>0, <2>1, <2>2, <2>3 DEF InsertBriefEntity, Shape, BriefTypeOK, Places
<1>3. Shape'
  <2>1. held[d] \in Jobs
    BY <1>0 DEF InsertBriefEntity, Shape
  <2> QED
    BY <1>0, <1>1, <1>2, <2>1, DrainerShape DEF InsertBriefEntity
<1> QED
  BY <1>3, RunInv DEF InsertBriefEntity, Go, Fault

LEMMA ReportInv ==
  ASSUME NEW z \in Int, BriefInv(z), NEW d \in Drainers, Report(d)
  PROVE  BriefInv(z)'
<1>0. Shape
  BY DEF BriefInv
<1>1. OthersStay(d) /\ held'[d] = Null /\ pc'[d] = "reap" /\ pc[d] \in {"done", "failed"} /\ held[d] \in Jobs
  BY <1>0 DEF Report, Leaves, Go, OthersStay, Shape, BriefTypeOK
<1>2. pc' \in [Drainers -> Places]
      /\ held' \in [Drainers -> Jobs \cup {Null}] /\ stamp' \in [Drainers -> Times]
  BY <1>0, BriefAssumption DEF Report, Leaves, Go, Shape, BriefTypeOK, Times, Places
<1>3. CASE jobs' = Finalised(jobs, held[d], d, pc[d]) /\ UNCHANGED faults
  <2>1. /\ Holds(jobs, held[d], d) => jobs'[held[d]].status = pc[d]
        /\ ~Holds(jobs, held[d], d) => jobs'[held[d]] = jobs[held[d]]
        /\ \A k \in Jobs \ {held[d]} : jobs'[k] = jobs[k]
    <3>1. jobs \in [Jobs -> Row]
      BY <1>0 DEF Shape, BriefTypeOK
    <3> QED
      BY <1>1, <1>3, <3>1, FinalisedRows
  <2>2. BriefTypeOK'
    <3>1. jobs' \in [Jobs -> Row]
      BY <1>0, <1>1, <1>3, FinalisedType DEF Shape, BriefTypeOK
    <3> QED
      BY <1>0, <1>2, <1>3, <3>1 DEF Report, outputVars, Shape, BriefTypeOK
  <2>3. Shape'
    BY <1>0, <1>1, <2>1, <2>2 DEF Shape, OthersStay
  <2>4. \A j \in Jobs : Leased(j) /\ jobs'[j] = jobs[j] => Leased(j)' \/ jobs[j].claimed_by = d
    BY <1>0, <1>1 DEF Leased, OthersStay, Shape, Report
  <2>5. \A j \in Jobs : Leased(j) /\ jobs[j].claimed_by = d => jobs'[j].status \in {"done", "failed"}
    BY <1>1, <2>1 DEF Leased, Holds
  <2>6. \A j \in Jobs : jobs'[j].status \in {"queued", "running"} => jobs'[j] = jobs[j]
    BY <1>1, <2>1
  <2>7. Free' \subseteq Free /\ Lost' \subseteq Lost
    BY <2>4, <2>5, <2>6 DEF Free, Lost
  <2>8. Busy' \subseteq Busy /\ Away' \subseteq Away /\ \A y \in Int : RunsOn(y, z)' \subseteq RunsOn(y, z)
    BY <1>1 DEF Busy, Away, RunsOn, OthersStay
  <2> QED
    BY <1>3, <2>3, <2>7, <2>8, CalmInv DEF Report, outputVars
<1>4. CASE Fault /\ UNCHANGED jobs
  <2>1. BriefTypeOK'
    <3>1. faults' \in 0..MaxFaults
      BY <1>0, <1>4, FaultType
    <3> QED
      BY <1>0, <1>2, <1>4, <3>1 DEF Report, outputVars, Shape, BriefTypeOK
  <2>2. Shape'
    BY <1>0, <1>1, <1>4, <2>1, DrainerShape
  <2> QED
    BY <1>1, <1>4, <2>2, FaultInv DEF Report, Fault, outputVars
<1> QED
  BY <1>3, <1>4 DEF Report

LEMMA DrainerDiesInv ==
  ASSUME NEW z \in Int, BriefInv(z), NEW d \in Drainers, DrainerDies(d)
  PROVE  BriefInv(z)'
<1>0. Shape
  BY DEF BriefInv
<1>1. OthersStay(d) /\ pc'[d] = "claim"
  BY <1>0 DEF DrainerDies, Leaves, Go, OthersStay, Shape, BriefTypeOK
<1>2. BriefTypeOK'
  <2>1. pc' \in [Drainers -> Places]
    BY <1>0, PlaceType DEF DrainerDies, Leaves, Go, Places
  <2>2. faults' \in 0..MaxFaults
    BY <1>0, FaultType DEF DrainerDies
  <2>3. held' \in [Drainers -> Jobs \cup {Null}] /\ stamp' \in [Drainers -> Times]
    BY <1>0, LeaveType DEF DrainerDies
  <2> QED
    BY <1>0, <2>1, <2>2, <2>3 DEF DrainerDies, outputVars, Shape, BriefTypeOK, Places
<1>3. Shape'
  BY <1>0, <1>1, <1>2, DrainerShape DEF DrainerDies
<1> QED
  BY <1>1, <1>3, FaultInv DEF DrainerDies, Fault, outputVars

LEMMA ReapStuckInv ==
  ASSUME NEW z \in Int, BriefInv(z), NEW d \in Drainers, ReapStuck(d)
  PROVE  BriefInv(z)'
<1>0. Shape
  BY DEF BriefInv
<1> DEFINE H == {j \in Stuck(jobs, now) : held[jobs[j].claimed_by] = j}
<1>1. OthersStay(d) /\ pc[d] = "reap" /\ pc'[d] = "due" /\ held' = held /\ stamp' = stamp
  BY <1>0 DEF ReapStuck, Go, OthersStay, Shape, BriefTypeOK
<1>2. /\ jobs' = Reaped(jobs, now) /\ overruns' = overruns + Cardinality(H)
      /\ UNCHANGED <<now, ledger, briefs, faults>>
  BY DEF ReapStuck, outputVars
<1>3. H \subseteq Jobs /\ IsFiniteSet(H) /\ Cardinality(H) \in Nat
  <2>1. H \subseteq Jobs
    BY DEF Stuck
  <2> QED
    BY <1>0, <2>1, Finite
<1> HIDE DEF H
<1>4. \A k \in Jobs : /\ jobs'[k].attempts = jobs[k].attempts
                      /\ k \notin Stuck(jobs, now) => jobs'[k] = jobs[k]
                      /\ k \in Stuck(jobs, now) =>
                           jobs'[k].status = IF jobs[k].attempts >= MaxAttempts THEN "failed" ELSE "queued"
  BY <1>0, <1>2, ReapedRows DEF Shape, BriefTypeOK
<1>5. BriefTypeOK'
  <2>1. jobs' \in [Jobs -> Row]
    BY <1>0, <1>2, ReapedType DEF Shape, BriefTypeOK
  <2>2. overruns' \in Nat
    BY <1>0, <1>2, <1>3, NatSum DEF Shape, BriefTypeOK
  <2>3. pc' \in [Drainers -> Places]
    BY <1>0 DEF ReapStuck, Go, Shape, BriefTypeOK, Places
  <2> QED
    BY <1>0, <1>1, <1>2, <2>1, <2>2, <2>3 DEF Shape, BriefTypeOK
<1>6. Shape'
  <2>1. \A e \in Drainers :
          pc'[e] \in {"agent", "write", "ledger", "done", "failed"} => held'[e] \in Jobs
    BY <1>0, <1>1 DEF Shape, OthersStay
  <2>2. ASSUME NEW k \in Jobs
        PROVE  /\ jobs'[k].status = "running" => jobs'[k].claimed_by \in Drainers
               /\ jobs'[k].status = "queued" => jobs'[k].attempts < MaxAttempts
    <3>1. jobs[k].attempts \in Nat /\ MaxAttempts \in Nat
      <4>1. jobs[k] \in Row
        BY <1>0 DEF Shape, BriefTypeOK
      <4> QED
        BY <4>1, MaxAttemptsAssumption DEF Row
    <3>2. jobs'[k].status = "queued" => jobs'[k].attempts < MaxAttempts
      BY <1>0, <1>4, <3>1 DEF Shape
    <3>3. jobs'[k].status = "running" => jobs'[k].claimed_by \in Drainers
      BY <1>0, <1>4 DEF Shape
    <3> QED
      BY <3>2, <3>3
  <2> QED
    BY <1>5, <2>1, <2>2 DEF Shape
<1>7. \A j \in Jobs : Leased(j) => j \in H \/ Leased(j)'
  <2> SUFFICES ASSUME NEW j \in Jobs, Leased(j), j \notin H PROVE Leased(j)'
    OBVIOUS
  <2>1. jobs[j].claimed_by \in Drainers /\ jobs[j].claimed_by # d
    BY <1>0, <1>1, Owned DEF Leased
  <2>2. jobs'[j] = jobs[j]
    BY <1>4 DEF H, Leased
  <2> QED
    BY <1>1, <2>1, <2>2 DEF Leased, OthersStay
<1>8. Free' \subseteq Free \union H
  <2> SUFFICES ASSUME NEW j \in Free', j \notin H PROVE j \in Free
    OBVIOUS
  <2>1. j \in Jobs /\ ~Leased(j)
    BY <1>7 DEF Free
  <2>2. jobs[j].status \in {"queued", "running"}
    BY <1>4, <2>1 DEF Free, Stuck
  <2> QED
    BY <2>1, <2>2 DEF Free
<1>9. Lost' \subseteq Lost
  <2> SUFFICES ASSUME NEW j \in Lost' PROVE j \in Lost
    OBVIOUS
  <2>1. j \in Jobs /\ jobs'[j].status = "running" /\ ~(Leased(j)')
    BY DEF Lost
  <2>2. j \notin Stuck(jobs, now)
    BY <1>4, <2>1
  <2> QED
    BY <1>4, <1>7, <2>1, <2>2 DEF Lost, H
<1>10. Busy' \subseteq Busy /\ Away' \subseteq Away /\ \A y \in Int : RunsOn(y, z)' \subseteq RunsOn(y, z)
  BY <1>1 DEF Busy, Away, RunsOn, OthersStay
<1>11. Mishaps' = Mishaps + Cardinality(H)
  <2>1. faults \in Nat /\ overruns \in Nat
    BY <1>0, BriefAssumption DEF Shape, BriefTypeOK
  <2> QED
    BY <1>2, <1>3, <2>1 DEF Mishaps
<1>12. Cardinality(Free') <= Cardinality(Free) + Cardinality(H)
  BY <1>3, <1>8, SomeMore, Finites
<1>13. Cardinality(Lost') <= Cardinality(Lost) /\ Cardinality(Busy') <= Cardinality(Busy)
       /\ Cardinality(Away') <= Cardinality(Away)
  BY <1>9, <1>10, NoMore, Finites
<1>14. /\ Cardinality(Lost') <= Cardinality(Lost) + Cardinality(H)
       /\ Cardinality(Busy') <= Cardinality(Busy) + Cardinality(H) - Cardinality(H)
       /\ Cardinality(Away') <= Cardinality(Away) + Cardinality(H) - Cardinality(H)
  <2>1. /\ Cardinality(Lost) \in Nat /\ Cardinality(Busy) \in Nat /\ Cardinality(Away) \in Nat
    BY <1>0, Counts
  <2>2. Cardinality(Lost') \in Nat
    <3>1. Lost' \subseteq Jobs
      BY DEF Lost
    <3> QED
      BY <1>0, <3>1, Finite
  <2> QED
    BY <1>3, <1>13, <2>1, <2>2
<1> QED
  BY <1>2, <1>3, <1>6, <1>10, <1>11, <1>12, <1>14, Moved
-----------------------------------------------------------------------------
LEMMA DebounceInv ==
  ASSUME NEW z \in Int, BriefInv(z), NEW d \in Drainers, Debounce(d)
  PROVE  BriefInv(z)'
<1>0. Shape
  BY DEF BriefInv
<1>1. OthersStay(d) /\ pc[d] = "debounce" /\ pc'[d] \in {"insert", "claim"}
  BY <1>0 DEF Debounce, Leaves, Go, OthersStay, Shape, BriefTypeOK
<1>2. BriefTypeOK'
  <2>1. pc' \in [Drainers -> Places]
    BY <1>0, PlaceType DEF Debounce, Leaves, Go, Places
  <2>2. held' \in [Drainers -> Jobs \cup {Null}] /\ stamp' \in [Drainers -> Times]
    <3>1. held \in [Drainers -> Jobs \cup {Null}] /\ stamp \in [Drainers -> Times]
      BY <1>0 DEF Shape, BriefTypeOK
    <3> QED
      BY <1>0, <3>1, LeaveType DEF Debounce
  <2> QED
    BY <1>0, <2>1, <2>2 DEF Debounce, outputVars, Shape, BriefTypeOK, Places
<1>3. Shape'
  BY <1>0, <1>1, <1>2, DrainerShape DEF Debounce
<1>4. \A j \in Jobs : Leased(j) => Leased(j)'
  BY <1>0, <1>1 DEF Leased, OthersStay, Shape, Debounce
<1>5. Free' \subseteq Free /\ Lost' \subseteq Lost
  BY <1>4 DEF Free, Lost, Debounce
<1>6. Busy' \subseteq Busy /\ Away' \subseteq Away /\ \A y \in Int : RunsOn(y, z)' \subseteq RunsOn(y, z)
  BY <1>1 DEF Busy, Away, RunsOn, OthersStay
<1> QED
  BY <1>3, <1>5, <1>6, CalmInv DEF Debounce, outputVars

LEMMA InsertJobInv ==
  ASSUME NEW z \in Int, BriefInv(z), NEW d \in Drainers, InsertJob(d)
  PROVE  BriefInv(z)'
<1>0. Shape
  BY DEF BriefInv
<1>1. OthersStay(d) /\ pc[d] = "insert" /\ pc'[d] = "claim" /\ stamp[d] \in Nat
  BY <1>0 DEF InsertJob, Leaves, Go, OthersStay, Shape, BriefTypeOK, Times
<1>2. PICK j \in Jobs : jobs' = Inserted(jobs, j, 0, stamp[d])
  BY DEF InsertJob
<1>3. jobs'[j].status = "queued" /\ jobs'[j].attempts = 0 /\ \A k \in Jobs \ {j} : jobs'[k] = jobs[k]
  <2>1. jobs \in [Jobs -> Row]
    BY <1>0 DEF Shape, BriefTypeOK
  <2> QED
    BY <1>2, <2>1 DEF Inserted, NewRow
<1>4. BriefTypeOK'
  <2>1. pc' \in [Drainers -> Places]
    BY <1>0, PlaceType DEF InsertJob, Leaves, Go, Places
  <2>2. held' \in [Drainers -> Jobs \cup {Null}] /\ stamp' \in [Drainers -> Times]
    BY <1>0, LeaveType DEF InsertJob
  <2>3. jobs' \in [Jobs -> Row]
    <3>1. jobs \in [Jobs -> Row] /\ 0 \in Int
      BY <1>0 DEF Shape, BriefTypeOK
    <3> QED
      BY <1>1, <1>2, <3>1, InsertedType
  <2> QED
    BY <1>0, <2>1, <2>2, <2>3 DEF InsertJob, outputVars, Shape, BriefTypeOK, Places
<1>5. Shape'
  <2>1. \A e \in Drainers :
          pc'[e] \in {"agent", "write", "ledger", "done", "failed"} => held'[e] \in Jobs
    BY <1>0, <1>1 DEF Shape, OthersStay
  <2>2. \A k \in Jobs : /\ jobs'[k].status = "running" => jobs'[k].claimed_by \in Drainers
                        /\ jobs'[k].status = "queued" => jobs'[k].attempts < MaxAttempts
    BY <1>0, <1>3, MaxAttemptsAssumption DEF Shape
  <2> QED
    BY <1>4, <2>1, <2>2 DEF Shape
<1>6. \A k \in Jobs \ {j} : Leased(k) => Leased(k)'
  BY <1>0, <1>1, <1>3 DEF Leased, OthersStay, Shape
<1>7. Free' \subseteq Free \union {j} /\ Lost' \subseteq Lost
  BY <1>3, <1>6 DEF Free, Lost
<1>8. d \in Busy /\ d \in Away /\ Busy' \subseteq Busy \ {d} /\ Away' \subseteq Away \ {d}
      /\ \A y \in Int : RunsOn(y, z)' \subseteq RunsOn(y, z)
  BY <1>1 DEF Busy, Away, RunsOn, OthersStay
<1>9. /\ Cardinality(Free') <= Cardinality(Free) + 1 /\ Cardinality(Lost') <= Cardinality(Lost)
      /\ Cardinality(Busy') <= Cardinality(Busy) - 1 /\ Cardinality(Away') <= Cardinality(Away) - 1
  BY <1>7, <1>8, NoMore, OneMore, OneLess, Finites
<1>10. Mishaps' = Mishaps + 0
  BY <1>0, Counts DEF InsertJob, Mishaps
<1>11. /\ Cardinality(Lost) + 0 = Cardinality(Lost) /\ Cardinality(Busy) + 0 - 1 = Cardinality(Busy) - 1
       /\ Cardinality(Away) + 0 - 1 = Cardinality(Away) - 1
  BY <1>0, Counts
<1> QED
  BY <1>5, <1>8, <1>9, <1>10, <1>11, Moved DEF InsertJob, outputVars

LEMMA Least ==
  ASSUME NEW S, S \subseteq Nat, S # {}
  PROVE  \E n \in S : \A m \in S : n <= m
<1> DEFINE R == {p \in Nat \X Nat : p[1] < p[2]}
<1>1. IsWellFoundedOn(R, Nat)
  BY NatLessThanWellFounded DEF OpToRel
<1>2. \E x \in S : \A y \in S : ~ (<<y, x>> \in R)
  <2> HIDE DEF R
  <2> QED BY <1>1, WFMin
<1>3. PICK n \in S : \A m \in S : ~ (<<m, n>> \in R)
  BY <1>2
<1>4. \A m \in S : n <= m
  <2> SUFFICES ASSUME NEW m \in S, ~(n <= m) PROVE FALSE
    OBVIOUS
  <2>1. n \in Nat /\ m \in Nat /\ m < n
    OBVIOUS
  <2>2. <<m, n>> \in R
    BY <2>1
  <2> QED
    BY <1>3, <2>2
<1> QED
  BY <1>4

LEMMA LastSent ==
  ASSUME Shape, Sent # {}
  PROVE  Max(Sent) \in Sent /\ \A t \in Sent : t <= Max(Sent)
<1>1. Sent \subseteq 0..MaxTime /\ MaxTime \in Nat
  BY BriefAssumption DEF Shape, BriefTypeOK, Sent, Range, Times
<1> DEFINE S == {n \in Nat : MaxTime - n \in Sent}
<1>2. S # {}
  <2>1. PICK t \in Sent : TRUE
    OBVIOUS
  <2>2. MaxTime - t \in Nat /\ MaxTime - (MaxTime - t) = t
    BY <1>1, <2>1
  <2> QED
    BY <2>2
<1>3. PICK n \in S : \A m \in S : n <= m
  BY <1>2, Least
<1>4. \A t \in Sent : t <= MaxTime - n
  <2> SUFFICES ASSUME NEW t \in Sent PROVE t <= MaxTime - n
    OBVIOUS
  <2>1. MaxTime - t \in Nat /\ MaxTime - (MaxTime - t) = t /\ t \in Nat
    BY <1>1
  <2>2. n <= MaxTime - t
    BY <1>3, <2>1
  <2> QED
    BY <1>1, <2>1, <2>2
<1>5. \E x \in Sent : \A y \in Sent : x >= y
  <2>1. MaxTime - n \in Sent
    BY <1>3
  <2>2. \A t \in Sent : MaxTime - n >= t
    BY <1>1, <1>4
  <2> QED
    BY <2>1, <2>2
<1>6. Max(Sent) \in Sent /\ \A y \in Sent : Max(Sent) >= y
  BY <1>5 DEF Max
<1> QED
  BY <1>1, <1>6

LEMMA NoneSent ==
  ASSUME Shape, NEW z \in Int, NEW y \in Int, LocalDay(now, z) <= y, brief_due(now, z)
  PROVE  SentOn(y, z) = 0
<1>1. \A n \in DOMAIN ledger : LocalDay(ledger[n], z) # y
  <2> SUFFICES ASSUME NEW n \in DOMAIN ledger, LocalDay(ledger[n], z) = y PROVE FALSE
    OBVIOUS
  <2>1. ledger[n] \in Sent
    BY DEF Sent, Range
  <2>2. Max(Sent) \in Sent /\ ledger[n] <= Max(Sent)
    BY <2>1, LastSent
  <2>3. Sent \subseteq Int /\ now \in Int
    BY BriefAssumption DEF Shape, BriefTypeOK, Sent, Range, Times
  <2>4. y <= LocalDay(Max(Sent), z) /\ LocalDay(Max(Sent), z) \in Int /\ LocalDay(now, z) \in Int
    <3>1. ledger[n] \in Int /\ Max(Sent) \in Int /\ now \in Int
      BY <2>1, <2>2, <2>3
    <3> QED
      BY <2>2, <3>1, DayOrder
  <2>5. LocalDay(Max(Sent), z) < LocalDay(now, z)
    BY <2>1 DEF brief_due
  <2> QED
    BY <2>4, <2>5
<1>2. {n \in DOMAIN ledger : LocalDay(ledger[n], z) = y} = {}
  BY <1>1
<1> QED
  BY <1>2, FS_EmptySet DEF SentOn

LEMMA CheckDueInv ==
  ASSUME NEW z \in Int, BriefInv(z), NEW d \in Drainers, CheckDue(d), TzOf[d] = z
  PROVE  BriefInv(z)'
<1>0. Shape
  BY DEF BriefInv
<1>1. OthersStay(d) /\ pc[d] = "due" /\ pc'[d] \in {"debounce", "claim"}
  BY <1>0 DEF CheckDue, Leaves, Go, OthersStay, Shape, BriefTypeOK
<1>2. BriefTypeOK'
  <2>1. pc' \in [Drainers -> Places]
    BY <1>0, PlaceType DEF CheckDue, Leaves, Go, Places
  <2>2. held' \in [Drainers -> Jobs \cup {Null}] /\ stamp' \in [Drainers -> Times]
    <3>1. held \in [Drainers -> Jobs \cup {Null}] /\ stamp \in [Drainers -> Times] /\ now \in Times
      BY <1>0 DEF Shape, BriefTypeOK
    <3> QED
      BY <1>0, <3>1, LeaveType DEF CheckDue
  <2> QED
    BY <1>0, <2>1, <2>2 DEF CheckDue, outputVars, Shape, BriefTypeOK, Places
<1>3. Shape'
  BY <1>0, <1>1, <1>2, DrainerShape DEF CheckDue
<1>4. \A j \in Jobs : Leased(j) => Leased(j)'
  BY <1>0, <1>1 DEF Leased, OthersStay, Shape, CheckDue
<1>5. Free' \subseteq Free /\ Lost' \subseteq Lost
  BY <1>4 DEF Free, Lost, CheckDue
<1>6. Away' \subseteq Away /\ \A y \in Int : RunsOn(y, z)' \subseteq RunsOn(y, z)
  BY <1>1 DEF Away, RunsOn, OthersStay
<1>7. CASE ~brief_due(now, TzOf[d])
  <2>1. pc'[d] = "claim"
    BY <1>0, <1>7 DEF CheckDue, Leaves, Go, Shape, BriefTypeOK
  <2>2. Busy' \subseteq Busy
    BY <1>1, <2>1 DEF Busy, OthersStay
  <2> QED
    BY <1>3, <1>5, <1>6, <2>2, CalmInv DEF CheckDue, outputVars
<1>8. CASE brief_due(now, TzOf[d])
  <2>1. UNCHANGED <<now, ledger, faults, overruns>> /\ Mishaps' = Mishaps
    BY DEF CheckDue, outputVars, Mishaps
  <2>c. /\ Cardinality(Free) \in Nat /\ Cardinality(Lost) \in Nat /\ Cardinality(Away) \in Nat
        /\ Cardinality(Drainers) \in Nat /\ Mishaps \in Nat
    BY <1>0, Counts
  <2>n. Cardinality(Free') \in Nat /\ Cardinality(Lost') \in Nat /\ Cardinality(Away') \in Nat
    <3>1. Free' \subseteq Jobs /\ Lost' \subseteq Jobs /\ Away' \subseteq Drainers
      BY DEF Free, Lost, Away
    <3> QED
      BY <1>0, <3>1, Finite
  <2>2. /\ Cardinality(Free') <= Cardinality(Free) /\ Cardinality(Lost') <= Cardinality(Lost)
        /\ Cardinality(Away') <= Cardinality(Away)
    BY <1>5, <1>6, NoMore, Finites
  <2>3. Bounded'
    <3>1. Bounded
      BY DEF BriefInv
    <3> QED
      BY <2>1, <2>2, <2>c, <2>n, <3>1 DEF Bounded
  <2>4. ASSUME NEW y \in Int
        PROVE  DayBounded(y, z)'
    <3>1. SentOn(y, z)' = SentOn(y, z) /\ LocalDay(now, z)' = LocalDay(now, z)
      BY <2>1 DEF SentOn, LocalDay
    <3>2. CASE LocalDay(now, z) <= y
      <4>1. SentOn(y, z) = 0
        BY <1>0, <1>8, <3>2, NoneSent
      <4> QED
        BY <3>1, <3>2, <4>1 DEF DayBounded
    <3>3. CASE ~(LocalDay(now, z) <= y)
      <4>1. Cardinality(RunsOn(y, z)') <= Cardinality(RunsOn(y, z))
        BY <1>0, <1>6, NoMore, Counts
      <4>2. SentOn(y, z) + Cardinality(RunsOn(y, z)) <= Cardinality(Drainers) + Mishaps
        BY <3>3 DEF BriefInv, DayBounded
      <4>3. Cardinality(RunsOn(y, z)') \in Nat /\ Cardinality(RunsOn(y, z)) \in Nat /\ SentOn(y, z) \in Nat
        <5>1. RunsOn(y, z)' \subseteq Drainers
          BY DEF RunsOn
        <5> QED
          BY <1>0, <5>1, Finite, Counts
      <4>4. SentOn(y, z) + Cardinality(RunsOn(y, z)') <= Cardinality(Drainers) + Mishaps
        BY <2>c, <4>1, <4>2, <4>3
      <4> QED
        BY <2>1, <3>1, <3>3, <4>4 DEF DayBounded
    <3> QED
      BY <3>2, <3>3
  <2> QED
    BY <1>3, <2>3, <2>4 DEF BriefInv
<1> QED
  BY <1>7, <1>8
-----------------------------------------------------------------------------
LEMMA Appended ==
  ASSUME NEW S, NEW s \in Seq(S), NEW e \in S
  PROVE  /\ Append(s, e) \in Seq(S) /\ Len(s) \in Nat /\ Len(Append(s, e)) = Len(s) + 1
         /\ Append(s, e)[Len(s) + 1] = e /\ \A n \in 1..Len(s) : Append(s, e)[n] = s[n]
         /\ DOMAIN s = 1..Len(s) /\ DOMAIN Append(s, e) = 1..(Len(s) + 1)
OBVIOUS

\* The day of the new event has one brief more; other days have what they had.
LEMMA SentMore ==
  ASSUME Shape, NEW z \in Int, NEW y \in Int, NEW t \in Times, ledger' = Append(ledger, t)
  PROVE  /\ LocalDay(t, z) # y => SentOn(y, z)' = SentOn(y, z)
         /\ LocalDay(t, z) = y => SentOn(y, z)' <= SentOn(y, z) + 1
         /\ SentOn(y, z)' \in Nat
<1> DEFINE S == {n \in DOMAIN ledger : LocalDay(ledger[n], z) = y}
           T == {n \in DOMAIN ledger' : LocalDay(ledger'[n], z) = y}
           l == Len(ledger) + 1
<1>1. /\ DOMAIN ledger = 1..Len(ledger) /\ DOMAIN ledger' = 1..l /\ Len(ledger) \in Nat
      /\ ledger'[l] = t /\ \A n \in 1..Len(ledger) : ledger'[n] = ledger[n]
  <2>1. ledger \in Seq(Times)
    BY DEF Shape, BriefTypeOK
  <2> QED
    BY <2>1, Appended
<1>2. SentOn(y, z) = Cardinality(S) /\ SentOn(y, z)' = Cardinality(T) /\ IsFiniteSet(S) /\ Cardinality(S) \in Nat
  BY SentCount, FS_CardinalityType DEF SentOn, LocalDay
<1>3. DOMAIN ledger' = DOMAIN ledger \union {l}
  BY <1>1
<1>4. T \subseteq S \union {l}
  BY <1>1, <1>3
<1>5. LocalDay(t, z) # y => T = S
  BY <1>1, <1>3
<1>6. Cardinality(T) <= Cardinality(S) + 1 /\ IsFiniteSet(T)
  BY <1>2, <1>4, OneMore
<1>7. Cardinality(T) \in Nat
  BY <1>6, FS_CardinalityType
<1> QED
  BY <1>2, <1>5, <1>6, <1>7

LEMMA EmitBriefSentInv ==
  ASSUME NEW z \in Int, BriefInv(z), NEW d \in Drainers, EmitBriefSent(d)
  PROVE  BriefInv(z)'
<1>0. Shape
  BY DEF BriefInv
<1>1. OthersStay(d) /\ held' = held /\ held[d] \in Jobs /\ pc[d] = "ledger" /\ pc'[d] \in {"done", "failed"}
      /\ stamp' = stamp /\ stamp[d] \in Times /\ jobs' = jobs /\ now' = now /\ overruns' = overruns
  BY <1>0 DEF EmitBriefSent, Go, OthersStay, Shape, BriefTypeOK
<1>2. Shape'
  <2>1. pc' \in [Drainers -> Places]
    BY <1>0, PlaceType DEF EmitBriefSent, Go, Places
  <2>2. faults' \in 0..MaxFaults
    BY <1>0, FaultType DEF EmitBriefSent
  <2>3. ledger' \in Seq(Times)
    <3>1. ledger \in Seq(Times)
      BY <1>0 DEF Shape, BriefTypeOK
    <3>2. Append(ledger, stamp[d]) \in Seq(Times)
      BY <1>1, <3>1, Appended
    <3> QED
      BY <3>1, <3>2 DEF EmitBriefSent
  <2>4. BriefTypeOK'
    BY <1>0, <2>1, <2>2, <2>3 DEF EmitBriefSent, Shape, BriefTypeOK, Places
  <2> QED
    BY <1>0, <1>1, <2>4, DrainerShape
<1>3. CASE Go(d, "failed") /\ Fault /\ UNCHANGED ledger
  BY <1>1, <1>2, <1>3, RunInv DEF Go, Fault
<1>4. CASE ledger' = Append(ledger, stamp[d]) /\ Go(d, "done") /\ UNCHANGED faults
  <2>1. pc'[d] = "done"
    BY <1>0, <1>4 DEF Go, Shape, BriefTypeOK
  <2>2. \A j \in Jobs : Leased(j) => Leased(j)'
    BY <1>0, <1>1, <2>1 DEF Leased, OthersStay, Shape
  <2>3. Free' \subseteq Free /\ Lost' \subseteq Lost
    BY <1>1, <2>2 DEF Free, Lost
  <2>4. d \in Busy /\ Busy' \subseteq Busy \ {d} /\ Away' \subseteq Away
    BY <1>1, <2>1 DEF Busy, Away, OthersStay
  <2>5. Mishaps' = Mishaps
    BY <1>1, <1>4 DEF Mishaps
  <2>c. /\ Cardinality(Free) \in Nat /\ Cardinality(Lost) \in Nat /\ Cardinality(Busy) \in Nat
        /\ Cardinality(Away) \in Nat /\ Cardinality(Drainers) \in Nat /\ Mishaps \in Nat
        /\ Cardinality(Busy) <= Cardinality(Away)
    BY <1>0, Counts
  <2>n. /\ Cardinality(Free') \in Nat /\ Cardinality(Lost') \in Nat /\ Cardinality(Busy') \in Nat
        /\ Cardinality(Away') \in Nat
    <3>1. Free' \subseteq Jobs /\ Lost' \subseteq Jobs /\ Busy' \subseteq Drainers /\ Away' \subseteq Drainers
      BY DEF Free, Lost, Busy, Away
    <3> QED
      BY <1>0, <3>1, Finite
  <2>6. /\ Cardinality(Free') <= Cardinality(Free) /\ Cardinality(Lost') <= Cardinality(Lost)
        /\ Cardinality(Busy') <= Cardinality(Busy) - 1 /\ Cardinality(Away') <= Cardinality(Away)
    BY <2>3, <2>4, NoMore, OneLess, Finites
  <2>7. Bounded
    BY DEF BriefInv
  <2>8. Bounded'
    BY <2>5, <2>6, <2>c, <2>n, <2>7 DEF Bounded
  <2>9. ASSUME NEW y \in Int
        PROVE  DayBounded(y, z)'
    <3>1. LocalDay(now, z)' = LocalDay(now, z)
      BY <1>1 DEF LocalDay
    <3>2. /\ LocalDay(stamp[d], z) # y => SentOn(y, z)' = SentOn(y, z)
          /\ LocalDay(stamp[d], z) = y => SentOn(y, z)' <= SentOn(y, z) + 1
          /\ SentOn(y, z)' \in Nat
      BY <1>0, <1>1, <1>4, SentMore
    <3>3. SentOn(y, z) \in Nat /\ DayBounded(y, z)
      BY <1>0, Counts DEF BriefInv
    <3>4. CASE LocalDay(now, z) <= y
      <4>1. SentOn(y, z)' + Cardinality(Free') + Cardinality(Busy') <= Cardinality(Drainers) + Mishaps
            \/ SentOn(y, z)' = 0
        <5>1. CASE SentOn(y, z) > 0
          <6>1. SentOn(y, z) + Cardinality(Free) + Cardinality(Busy) <= Cardinality(Drainers) + Mishaps
            BY <3>3, <3>4, <5>1 DEF DayBounded
          <6> QED
            BY <2>6, <2>c, <2>n, <3>2, <3>3, <6>1
        <5>2. CASE SentOn(y, z) = 0
          <6>1. Cardinality(Free) + Cardinality(Away) <= Cardinality(Drainers) + Mishaps
            BY <2>7 DEF Bounded
          <6> QED
            BY <2>6, <2>c, <2>n, <3>2, <3>3, <5>2, <6>1
        <5> QED
          BY <3>3, <5>1, <5>2
      <4> QED
        BY <2>5, <3>1, <3>2, <3>4, <4>1 DEF DayBounded
    <3>5. CASE ~(LocalDay(now, z) <= y)
      <4>1. SentOn(y, z) + Cardinality(RunsOn(y, z)) <= Cardinality(Drainers) + Mishaps
        BY <3>3, <3>5 DEF DayBounded
      <4>2. RunsOn(y, z)' \subseteq RunsOn(y, z) /\ IsFiniteSet(RunsOn(y, z)) /\ Cardinality(RunsOn(y, z)) \in Nat
        BY <1>0, <1>1, <2>1, Counts DEF RunsOn, OthersStay
      <4>3. Cardinality(RunsOn(y, z)') \in Nat /\ Cardinality(RunsOn(y, z)') <= Cardinality(RunsOn(y, z))
        BY <4>2, NoMore, FS_CardinalityType
      <4>4. LocalDay(stamp[d], z) = y => Cardinality(RunsOn(y, z)') <= Cardinality(RunsOn(y, z)) - 1
        <5> SUFFICES ASSUME LocalDay(stamp[d], z) = y
                     PROVE  Cardinality(RunsOn(y, z)') <= Cardinality(RunsOn(y, z)) - 1
          OBVIOUS
        <5>1. d \in RunsOn(y, z) /\ RunsOn(y, z)' \subseteq RunsOn(y, z) \ {d}
          BY <1>1, <2>1 DEF RunsOn, OthersStay
        <5> QED
          BY <4>2, <5>1, OneLess
      <4>5. SentOn(y, z)' + Cardinality(RunsOn(y, z)') <= Cardinality(Drainers) + Mishaps
        BY <2>c, <3>2, <3>3, <4>1, <4>2, <4>3, <4>4
      <4> QED
        BY <2>5, <3>1, <3>5, <4>5 DEF DayBounded
    <3> QED
      BY <3>4, <3>5
  <2> QED
    BY <1>2, <2>8, <2>9 DEF BriefInv
<1> QED
  BY <1>3, <1>4 DEF EmitBriefSent

LEMMA TickInv ==
  ASSUME NEW z \in Int, BriefInv(z), Tick
  PROVE  BriefInv(z)'
<1>0. Shape
  BY DEF BriefInv
<1>1. now' = now + 1 /\ now \in Nat /\ now' \in Times
      /\ UNCHANGED <<jobs, ledger, briefs, pc, held, stamp, faults, overruns>>
  BY <1>0, BriefAssumption DEF Tick, drainVars, outputVars, Shape, BriefTypeOK, Times
<1>2. Shape'
  BY <1>0, <1>1 DEF Shape, BriefTypeOK
<1>3. Free' = Free /\ Lost' = Lost /\ Busy' = Busy /\ Away' = Away /\ Mishaps' = Mishaps
  BY <1>1 DEF Free, Lost, Leased, Busy, Away, Mishaps
<1>4. Bounded'
  BY <1>3 DEF BriefInv, Bounded
<1>5. ASSUME NEW y \in Int
      PROVE  DayBounded(y, z)'
  <2>1. SentOn(y, z)' = SentOn(y, z) /\ RunsOn(y, z)' = RunsOn(y, z) /\ LocalDay(now, z)' = LocalDay(now', z)
    BY <1>1 DEF SentOn, RunsOn, LocalDay
  <2>2. LocalDay(now, z) \in Int /\ LocalDay(now', z) \in Int /\ LocalDay(now, z) <= LocalDay(now', z)
    <3>1. now \in Int /\ now' \in Int /\ now <= now'
      BY <1>1
    <3> QED
      <4>1. \A s, t \in Int : s <= t => LocalDay(s, z) \in Int /\ LocalDay(s, z) <= LocalDay(t, z)
        BY DayOrder
      <4>2. now <= now /\ now' <= now'
        BY <3>1
      <4> QED
        BY <3>1, <4>1, <4>2
  <2>3. /\ Cardinality(Free) \in Nat /\ Cardinality(Busy) \in Nat /\ Cardinality(RunsOn(y, z)) \in Nat
        /\ Cardinality(Drainers) \in Nat /\ Mishaps \in Nat /\ SentOn(y, z) \in Nat
        /\ Cardinality(RunsOn(y, z)) <= Cardinality(Busy) /\ Cardinality(RunsOn(y, z)) <= Cardinality(Drainers)
    BY <1>0, Counts
  <2>4. DayBounded(y, z)
    BY DEF BriefInv
  <2>5. CASE LocalDay(now', z) <= y
    <3>1. LocalDay(now, z) <= y
      BY <2>2, <2>5
    <3> QED
      BY <1>3, <2>1, <2>4, <2>5, <3>1 DEF DayBounded
  <2>6. CASE ~(LocalDay(now', z) <= y)
    <3>1. SentOn(y, z) + Cardinality(RunsOn(y, z)) <= Cardinality(Drainers) + Mishaps
      <4>1. CASE ~(LocalDay(now, z) <= y)
        BY <2>4, <4>1 DEF DayBounded
      <4>2. CASE LocalDay(now, z) <= y /\ SentOn(y, z) > 0
        <5>1. SentOn(y, z) + Cardinality(Free) + Cardinality(Busy) <= Cardinality(Drainers) + Mishaps
          BY <2>4, <4>2 DEF DayBounded
        <5> QED
          BY <2>3, <5>1
      <4>3. CASE SentOn(y, z) = 0
        BY <2>3, <4>3
      <4> QED
        BY <2>3, <4>1, <4>2, <4>3
    <3> QED
      BY <1>3, <2>1, <2>6, <3>1 DEF DayBounded
  <2> QED
    BY <2>5, <2>6
<1> QED
  BY <1>2, <1>4, <1>5 DEF BriefInv

LEMMA BriefInitInv ==
  ASSUME NEW z \in Int, BriefInit
  PROVE  BriefInv(z)
<1>1. Shape
  <2>1. 0 \in Times /\ 0 \in 0..MaxFaults
    BY BriefAssumption DEF Times
  <2>2. jobs \in [Jobs -> Row] /\ \A j \in Jobs : jobs[j].status = "new"
    BY DEF BriefInit, EmptyTable, NewRow, Row, Statuses
  <2>3. ledger \in Seq(Times) /\ briefs \in [Times -> Nat]
    BY DEF BriefInit
  <2>4. BriefTypeOK
    BY <2>1, <2>2, <2>3 DEF BriefInit, BriefTypeOK, Places
  <2> QED
    BY <2>2, <2>4 DEF BriefInit, Shape
<1>2. Free = {} /\ Lost = {} /\ Busy = {} /\ Away = {} /\ \A y : RunsOn(y, z) = {}
  BY DEF BriefInit, EmptyTable, NewRow, Free, Lost, Busy, Away, RunsOn
<1>3. \A y : SentOn(y, z) = 0
  <2> SUFFICES ASSUME NEW y PROVE SentOn(y, z) = 0
    OBVIOUS
  <2>1. {n \in DOMAIN ledger : LocalDay(ledger[n], z) = y} = {}
    <3>1. DOMAIN ledger = 1..Len(ledger) /\ Len(ledger) = 0
      BY <1>1 DEF BriefInit, Shape, BriefTypeOK
    <3> QED
      BY <3>1
  <2> QED
    BY <2>1, FS_EmptySet DEF SentOn
<1>4. Cardinality({}) = 0
  BY FS_EmptySet
<1>5. Mishaps \in Nat /\ Cardinality(Drainers) \in Nat
  BY <1>1, Counts
<1>6. Bounded
  BY <1>2, <1>4, <1>5 DEF Bounded
<1>7. ASSUME NEW y \in Int PROVE DayBounded(y, z)
  BY <1>2, <1>3, <1>4, <1>5 DEF DayBounded
<1> QED
  BY <1>1, <1>6, <1>7 DEF BriefInv

LEMMA BriefStepInv ==
  ASSUME NEW z \in Int, SharedZone(z), BriefInv(z), [BriefNext]_briefVars
  PROVE  BriefInv(z)'
<1>1. CASE Tick
  BY <1>1, TickInv
<1>2. ASSUME NEW d \in Drainers, DrainStep(d)
      PROVE  BriefInv(z)'
  <2>1. TzOf[d] = z
    BY DEF SharedZone
  <2> QED
    BY <1>2, <2>1, ClaimInv, RunAgentInv, InsertBriefEntityInv, EmitBriefSentInv, ReportInv,
       ReapStuckInv, CheckDueInv, DebounceInv, InsertJobInv DEF DrainStep
<1>3. ASSUME NEW d \in Drainers, DrainerDies(d)
      PROVE  BriefInv(z)'
  BY <1>3, DrainerDiesInv
<1>4. CASE UNCHANGED briefVars
  <2>1. UNCHANGED <<jobs, now, ledger, briefs, pc, held, stamp, faults, overruns>>
    BY <1>4 DEF briefVars, outputVars, drainVars
  <2>2. Shape'
    BY <2>1 DEF BriefInv, Shape, BriefTypeOK
  <2>3. Free' \subseteq Free /\ Lost' \subseteq Lost /\ Busy' \subseteq Busy /\ Away' \subseteq Away
        /\ \A y \in Int : RunsOn(y, z)' \subseteq RunsOn(y, z)
    BY <2>1 DEF Free, Lost, Leased, Busy, Away, RunsOn
  <2> QED
    BY <2>1, <2>2, <2>3, CalmInv
<1> QED
  BY <1>1, <1>2, <1>3, <1>4 DEF BriefNext

LEMMA InvBriefs ==
  ASSUME NEW z \in Int, SharedZone(z), BriefInv(z)
  PROVE  BriefsPerDay
<1>0. Shape
  BY DEF BriefInv
<1> SUFFICES ASSUME NEW d \in Drainers, NEW t \in Times
             PROVE  SentOn(LocalDay(t, TzOf[d]), TzOf[d]) <= Cardinality(Drainers) + faults + overruns
  BY DEF BriefsPerDay
<1> DEFINE y == LocalDay(t, z)
<1>1. TzOf[d] = z
  BY DEF SharedZone
<1>2. y \in Int
  BY DayOrder, BriefAssumption DEF Times
<1>3. /\ Cardinality(Free) \in Nat /\ Cardinality(Busy) \in Nat /\ Cardinality(RunsOn(y, z)) \in Nat
      /\ Cardinality(Drainers) \in Nat /\ Mishaps \in Nat /\ SentOn(y, z) \in Nat
  BY <1>0, Counts
<1>4. DayBounded(y, z)
  BY <1>2 DEF BriefInv
<1> HIDE DEF y
<1>5. SentOn(y, z) <= Cardinality(Drainers) + Mishaps
  <2>1. CASE LocalDay(now, z) <= y /\ SentOn(y, z) > 0
    <3>1. SentOn(y, z) + Cardinality(Free) + Cardinality(Busy) <= Cardinality(Drainers) + Mishaps
      BY <1>4, <2>1 DEF DayBounded
    <3> QED
      BY <1>3, <3>1
  <2>2. CASE ~(LocalDay(now, z) <= y)
    <3>1. SentOn(y, z) + Cardinality(RunsOn(y, z)) <= Cardinality(Drainers) + Mishaps
      BY <1>4, <2>2 DEF DayBounded
    <3> QED
      BY <1>3, <3>1
  <2>3. CASE SentOn(y, z) = 0
    BY <1>3, <2>3
  <2> QED
    BY <1>3, <2>1, <2>2, <2>3
<1>6. Cardinality(Drainers) + faults + overruns = Cardinality(Drainers) + Mishaps
  <2>1. faults \in Nat /\ overruns \in Nat
    BY <1>0, BriefAssumption DEF Shape, BriefTypeOK
  <2> QED
    BY <1>3, <2>1 DEF Mishaps
<1> QED
  BY <1>1, <1>5, <1>6 DEF y

\* Where drainers share a zone, a local day sees no more briefs than there are drainers,
\* and one more for each fault and each lease that ran out: the ledger is read before a job
\* is inserted, and each brief of a day after its first was decided on before it
\* (lib.rs:1009-1049), for any number of drainers, jobs, days and attempts.
THEOREM BriefsBounded == BriefSpec => []BriefsPerDay
<1>1. ASSUME NEW z \in Int, SharedZone(z)
      PROVE  BriefSpec => []BriefsPerDay
  <2>1. BriefInit => BriefInv(z)
    BY BriefInitInv
  <2>2. BriefInv(z) /\ [BriefNext]_briefVars => BriefInv(z)'
    BY <1>1, BriefStepInv
  <2>3. BriefInv(z) => BriefsPerDay
    BY <1>1, InvBriefs
  <2> QED
    BY <2>1, <2>2, <2>3, PTL DEF BriefSpec
<1>2. CASE \E z \in Int : SharedZone(z)
  BY <1>1, <1>2
<1>3. CASE ~ \E z \in Int : SharedZone(z)
  <2>1. BriefsPerDay
    <3> SUFFICES ASSUME \A d, e \in Drainers : TzOf[d] = TzOf[e], NEW d \in Drainers PROVE FALSE
      BY DEF BriefsPerDay
    <3>1. SharedZone(TzOf[d]) /\ TzOf[d] \in Int
      BY BriefAssumption DEF SharedZone
    <3> QED
      BY <1>3, <3>1
  <2> QED
    BY <2>1, PTL
<1> QED
  BY <1>2, <1>3
=============================================================================
