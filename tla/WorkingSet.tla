----------------------------- MODULE WorkingSet -----------------------------
(***************************************************************************)
(* The context compiler of lifeos-memory (compiler.rs): the rules of the   *)
(* prompt, the recalled facts and the last turns of a conversation, each   *)
(* cut to its share of a token budget.  Texts are their lengths, and a     *)
(* section keeps the places of the texts it holds.                         *)
(***************************************************************************)
EXTENDS Naturals, Sequences, FiniteSets, SequencesExt, Functions

CONSTANTS
  Lengths, TotalTokens, RulesShare, FactsShare, RecentShare,   \* shares in hundredths
  RECENT_K,
  MaxTexts   \* bound

ASSUME WorkingSetAssumption ==
  {TotalTokens, RulesShare, FactsShare, RecentShare, RECENT_K, MaxTexts} \subseteq Nat /\ Lengths \subseteq Nat

VARIABLES rules, facts, turns, compiled

workingVars == <<rules, facts, turns, compiled>>

Nothing == [rules |-> <<>>, facts |-> <<>>, recent |-> <<>>, dropped |-> <<0, 0, 0>>]

\* Active rules come by confidence, facts by activation, turns as they were said.
WorkingInit ==
  /\ rules \in BoundedSeq(Lengths, MaxTexts) /\ facts \in BoundedSeq(Lengths, MaxTexts)
  /\ turns \in BoundedSeq(Lengths, MaxTexts + 2)
  /\ compiled = Nothing

Share(hundredths) == (TotalTokens * hundredths) \div 100
\* est_tokens, four characters to a token; an item is marked "- ".
Tokens(length) == (length + 3) \div 4
Items(texts) == [p \in DOMAIN texts |-> texts[p] + 2]
Used(texts, places) ==
  LET sum[n \in 0..Len(places)] == IF n = 0 THEN 0 ELSE sum[n - 1] + Tokens(texts[places[n]])
  IN sum[Len(places)]

FilledUntilFull(texts, budget) ==   \* mutant: the first text that does not fit ends it
  LET kept[n \in 0..Len(texts)] ==
        IF n = 0 THEN <<>>
        ELSE IF Len(kept[n - 1]) = n - 1 /\ Used(texts, kept[n - 1]) + Tokens(texts[n]) <= budget
             THEN Append(kept[n - 1], n) ELSE kept[n - 1]
  IN kept[Len(texts)]

\* fill_section: a text that does not fit is dropped whole, and later ones are tried.
Filled(texts, budget) ==
  LET kept[n \in 0..Len(texts)] ==
        IF n = 0 THEN <<>>
        ELSE IF Used(texts, kept[n - 1]) + Tokens(texts[n]) <= budget
             THEN Append(kept[n - 1], n) ELSE kept[n - 1]
  IN kept[Len(texts)]

\* rules_for_prompt: up to the first rule that does not fit, its mark not counted.
PromptRules(budget) ==
  LET over == {p \in DOMAIN rules : Used(rules, [q \in 1..p |-> q]) > budget} IN
  IF over = {} THEN rules ELSE SubSeq(rules, 1, (CHOOSE p \in over : \A q \in over : p <= q) - 1)

\* The newest turn is first pick, and the kept ones are shown as they were said.
Window == IF Len(turns) <= RECENT_K THEN Reverse(turns) ELSE SubSeq(Reverse(turns), 1, RECENT_K)
Compile ==
  /\ compiled = Nothing
  /\ LET asked == PromptRules(Share(RulesShare))
         r == Filled(Items(asked), Share(RulesShare))
         f == Filled(Items(facts), Share(FactsShare))
         w == Filled(Window, Share(RecentShare)) IN
     compiled' = [rules |-> r, facts |-> f,
                  recent |-> Reverse([n \in DOMAIN w |-> Len(turns) + 1 - w[n]]),
                  dropped |-> <<Len(asked) - Len(r), Len(facts) - Len(f), Len(turns) - Len(w)>>]
  /\ UNCHANGED <<rules, facts, turns>>

WorkingSpec == WorkingInit /\ [][Compile]_workingVars
-----------------------------------------------------------------------------
\* kept, in order, are the places in Open of the texts that fit a budget beside those kept
\* before them: the first i of the kept ones are those before a place p.
Cut(texts, kept, budget, Open) ==
  /\ Used(texts, kept) <= budget
  /\ \A i, j \in DOMAIN kept : i < j => kept[i] < kept[j]
  /\ \A p \in DOMAIN texts : \E i \in 0..Len(kept) :
       /\ \A j \in DOMAIN kept : kept[j] < p <=> j <= i
       /\ p \in Range(kept) <=> p \in Open /\ Used(texts, SubSeq(kept, 1, i)) + Tokens(texts[p]) <= budget

\* The rules before the first one that, unmarked, takes them over their share.
Prompted == {p \in DOMAIN rules : \A q \in 1..p : Used(rules, [i \in 1..q |-> i]) <= Share(RulesShare)}

\* compiler.rs, "deterministic and within budget" and "newest win when over budget": each
\* section fits its share, keeps the order, leaves a text out only where it does not fit
\* beside the kept ones, those before it or, of turns, the newer ones, and counts what it
\* leaves out.  Rules are those of the prompt: what the prompt leaves out is counted nowhere.
ContextFits ==
  compiled # Nothing =>
    LET kept == compiled.recent
        after(i) == Used(turns, Reverse(SubSeq(kept, i + 1, Len(kept)))) IN
    /\ Cut(Items(rules), compiled.rules, Share(RulesShare), Prompted)
    /\ Cut(Items(facts), compiled.facts, Share(FactsShare), DOMAIN facts)
    /\ \A i, j \in DOMAIN kept : i < j => kept[i] < kept[j]
    /\ \A t \in DOMAIN turns : \E i \in 0..Len(kept) :
         /\ \A j \in DOMAIN kept : kept[j] > t <=> j > i
         /\ t \in Range(kept) <=> t + RECENT_K > Len(turns) /\ after(i) + Tokens(turns[t]) <= Share(RecentShare)
    /\ Len(compiled.rules) + compiled.dropped[1] = Cardinality(Prompted)
    /\ Len(compiled.facts) + compiled.dropped[2] = Len(facts) /\ Len(kept) + compiled.dropped[3] = Len(turns)

\* compiler.rs:47, "How many candidates didn't fit (never silently hidden)", of the active rules.
RulesAreCounted ==
  compiled # Nothing => Len(compiled.rules) + compiled.dropped[1] = Len(rules)
=============================================================================
