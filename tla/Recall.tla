------------------------------- MODULE Recall -------------------------------
(***************************************************************************)
(* Recall over the memory of one workspace (retrieval.rs, graph.rs,        *)
(* tier.rs promote_nodes, and recall_logged of routes/memory.rs): the      *)
(* lanes, their fusion, spreading activation, the scores, and the return   *)
(* of tiered memories, statement by statement against what goes on around  *)
(* a recall: events and supersedes that are logged and folded, a rebuild   *)
(* that wipes and folds again, tiering and a change of the primary backend *)
(* (module Memory has the steps of a projection and of a tier-out).        *)
(*                                                                         *)
(* All memories are about one entity, whose title, 0, is a word of their   *)
(* texts beside their own numbers.  The smaller id is the older memory;    *)
(* time is in hours and starts at 1, and 0 stands for NULL.                *)
(***************************************************************************)
EXTENDS Naturals, Sequences, SequencesExt, FiniteSetsExt

CONSTANTS
  Askers, Memories, Shelves,
  Queries,    \* the words asked for, none in a turn that needs no memory
  Local,      \* the backend that is read first
  TOP_K, SEEDS, ABSTENTION,
  MaxAsks, MaxChanges, MaxHours   \* bounds

ASSUME RecallAssumption ==
  /\ IsFiniteSet(Shelves) /\ Local \in Shelves /\ Memories \subseteq Nat \ {0} /\ {TOP_K, SEEDS} \subseteq Nat \ {0}
  /\ {ABSTENTION, MaxAsks, MaxChanges, MaxHours} \subseteq Nat

VARIABLES
  logged,     \* what the log says: when each event happened, and which one superseded it
  rows,       \* memory_nodes; the edges of a memory are current while it is not superseded
  embedded,   \* the memories in the vector index
  primary,
  bundles,    \* what each backend holds
  hour, ask, asks, changes

store == <<logged, rows, embedded, primary, bundles>>
recallVars == <<store, hour, ask, asks, changes>>

Put(f, k, v) == [x \in DOMAIN f \union {k} |-> IF x = k THEN v ELSE f[x]]
Text(m) == {m, 0}
\* A stub is the head of the text: it keeps the title.
Content(m) == IF rows[m].bundle = {} THEN Text(m) ELSE {0}

NoAsk == [pc |-> "idle", query |-> {}, multiHop |-> FALSE, asOf |-> 0, now |-> 0,
          rel |-> <<>>, left |-> {}, scored |-> <<>>, answer |-> <<>>,
          cold |-> <<>>, todo |-> <<>>, at |-> <<>>, got |-> {}, stubs |-> {},
          failed |-> {}, mixed |-> FALSE]

RecallInit ==
  /\ logged = <<>> /\ rows = <<>> /\ embedded = {} /\ bundles = [s \in Shelves |-> {}]
  /\ primary \in Shelves
  /\ hour = 1 /\ ask = [a \in Askers |-> NoAsk] /\ asks = 0 /\ changes = 0
-----------------------------------------------------------------------------
(* What changes around a recall. *)

Changes == changes < MaxChanges /\ changes' = changes + 1
\* History: the memories moved under a recall that was reading or restoring them.
Mixes(pcs) == ask' = [a \in Askers |-> [ask[a] EXCEPT !.mixed = @ \/ ask[a].pc \in pcs]]
Reading == {"search", "expand", "score", "rank"}
Restoring == {"strengthen", "backends", "find", "restore", "reread", "answered"}

Row(ts) == [ts |-> ts, invalid |-> 0, by |-> 0, bundle |-> {}, accesses |-> 0]

\* An event is logged and folded: its node, its text in the index, and its edges.
Learn(m) ==
  /\ m = 1 + Cardinality(DOMAIN logged) /\ m \in Memories
  /\ logged' = Put(logged, m, [ts |-> hour, by |-> 0])
  /\ rows' = Put(rows, m, Row(hour))
  /\ UNCHANGED <<embedded, primary, bundles, hour, ask, asks, changes>>

\* invalidate_from_event: the validity ends when the new fact became true.  The
\* event is logged now, or folded again; the first that supersedes a row stays.
Superseded(m, n) ==
  /\ m \in DOMAIN rows /\ n \in DOMAIN logged /\ m < n /\ rows[m].invalid = 0
  /\ \/ logged[m].by = 0 /\ Changes
     \/ logged[m].by = n /\ UNCHANGED changes
  /\ logged' = [logged EXCEPT ![m].by = n]
  /\ rows' = [rows EXCEPT ![m].invalid = logged[n].ts, ![m].by = n]
  /\ Mixes(Reading)
  /\ UNCHANGED <<embedded, primary, bundles, hour, asks>>

\* rebuild_workspace first deletes the nodes and the edges; the vectors stay.
WipeRows ==
  /\ Changes
  /\ rows' = <<>>
  /\ Mixes(Reading \union Restoring)
  /\ UNCHANGED <<logged, embedded, primary, bundles, hour, asks>>

\* Then each event is folded again, by the rebuild or by a projection that overlaps it
\* and may find the row there: its text is whole, its score starts again, and until
\* the event that superseded it is folded too it is valid.
FoldAgain(m) ==
  /\ m \in DOMAIN logged
  /\ IF m \in DOMAIN rows THEN Changes ELSE UNCHANGED changes
  /\ rows' = Put(rows, m, Row(logged[m].ts))
  /\ Mixes(Reading)
  /\ UNCHANGED <<logged, embedded, primary, bundles, hour, asks>>

\* tier_out_cold: one bundle on the primary.
TierOut(M) ==
  /\ Changes
  /\ M # {} /\ \A m \in M : rows[m].bundle = {}
  /\ bundles' = [bundles EXCEPT ![primary] = @ \union {M}]
  /\ rows' = [m \in DOMAIN rows |-> IF m \in M THEN [rows[m] EXCEPT !.bundle = M] ELSE rows[m]]
  /\ Mixes(Restoring)
  /\ UNCHANGED <<logged, embedded, primary, hour, asks>>

MovePrimary(s) ==
  /\ s # primary /\ primary' = s
  /\ UNCHANGED <<logged, rows, embedded, bundles, hour, ask, asks, changes>>

Hour ==
  /\ hour < MaxHours
  /\ hour' = hour + 1
  /\ UNCHANGED <<store, ask, asks, changes>>
-----------------------------------------------------------------------------
(* The lanes and their fusion, in hundredths. *)

\* dense_ranks: candidates a lane cannot distinguish share a rank.
Rank(hits, m) == Cardinality({n \in DOMAIN hits : hits[n] > hits[m]})
Fused(hits, m) == IF m \in DOMAIN hits THEN (100 * 61) \div (61 + Rank(hits, m)) ELSE 0

Hits(words, query) ==
  LET matches == [m \in DOMAIN words |-> Cardinality(words[m] \intersect query)] IN
  [m \in {n \in DOMAIN words : matches[n] > 0} |-> matches[m]]

Linked == {m \in DOMAIN rows : rows[m].by = 0}
\* The index has the whole texts, those of stubs too.
FtsLane(q) == Hits([m \in DOMAIN rows |-> Text(m)], q)
LikeLane(q) == Hits([m \in DOMAIN rows |-> Content(m)], q)
EntityLane(q) == Hits([m \in Linked |-> {0}], q)
\* The nearest vectors are numbered: two at one distance have different ranks.
VectorLane(q) == [m \in embedded |-> 10 * Cardinality(Text(m) \intersect q) + 9 - m]

Relevance(text, like, entity, near) ==
  [m \in UNION {DOMAIN hits : hits \in {text, like, entity, near}} |->
     Fused(text, m) + Fused(like, m) + Fused(entity, m) + Fused(near, m)]

\* expand_seeds: hops over current edges; 0 is the entity, and each memory but the
\* first was caused by the one before it.
Edges == UNION {{{m, 0}, {m, m - 1}} : m \in Linked}
Around(S) == S \union {v \in 0..Max(Memories) : \E s \in S : {v, s} \in Edges}

Above(rel, m) == {n \in DOMAIN rel : rel[n] > rel[m] \/ (rel[n] = rel[m] /\ n < m)}
Spread(rel) ==
  LET seeds == {m \in DOMAIN rel : Cardinality(Above(rel, m)) < SEEDS}
      boost(m) == Max(Range(rel)) \div (IF m \in Around(seeds) THEN 2 ELSE 4)
      near == (Around(Around(seeds)) \ seeds) \ {0}
      old(m) == IF m \in DOMAIN rel THEN rel[m] ELSE 0 IN
  [m \in DOMAIN rel \union near |-> IF m \in near /\ boost(m) > old(m) THEN boost(m) ELSE old(m)]
-----------------------------------------------------------------------------
(* recall_logged and recall. *)

Puts(a, r) == ask' = [ask EXCEPT ![a] = r]
At(a, pc) == ask[a].pc = pc
Keeps == UNCHANGED <<hour, asks, changes>>

\* The read model says what the log says.
AsLogged == DOMAIN rows = DOMAIN logged /\ \A m \in DOMAIN rows : rows[m].by = logged[m].by

\* Memories that are not embedded yet are, best effort, and the gate lets a turn pass.
\* A recall may start amid a rebuild.
Ask(a, q, multiHop, t) ==
  /\ At(a, "idle") /\ asks < MaxAsks
  /\ asks' = asks + 1
  /\ \E M \in {{}, {m \in DOMAIN rows : rows[m].bundle = {}}} : embedded' = embedded \union M
  /\ Puts(a, [NoAsk EXCEPT !.pc = IF q = {} THEN "answered" ELSE "search", !.query = q, !.multiHop = multiHop, !.asOf = t, !.now = hour,
                          !.mixed = ~AsLogged])
  /\ UNCHANGED <<logged, rows, primary, bundles, hour, changes>>

\* The lanes one after the other: each row is read again when it is scored, so a
\* change between two lanes only decides what comes up.  The index and the vectors
\* are best effort.
Search(a) ==
  /\ At(a, "search")
  /\ \E text \in {FtsLane(ask[a].query), <<>>}, near \in {VectorLane(ask[a].query), <<>>} :
       LET rel == Relevance(text, LikeLane(ask[a].query), EntityLane(ask[a].query), near) IN
       Puts(a, [ask[a] EXCEPT !.rel = rel, !.left = DOMAIN rel, !.query = {}, !.multiHop = FALSE,
                              !.pc = IF DOMAIN rel = {} THEN "answered"
                                     ELSE IF ask[a].multiHop THEN "expand" ELSE "score"])
  /\ Keeps /\ UNCHANGED store

Expand(a) ==
  /\ At(a, "expand")
  /\ Puts(a, [ask[a] EXCEPT !.rel = Spread(ask[a].rel), !.left = DOMAIN Spread(ask[a].rel), !.pc = "score"])
  /\ Keeps /\ UNCHANGED store

\* Bi-temporal validity of a row, now or at a point in time.
Valid(m, t) ==
  IF t = 0 THEN rows[m].invalid = 0
  ELSE rows[m].ts <= t /\ (rows[m].invalid = 0 \/ rows[m].invalid > t)

\* Decay per hour to the first order; the first memory is of a salient type.
Recency(age) == 1000 - 5 * age
Importance(m) == IF m = 1 THEN 5 ELSE 3
Frequency(n) == <<100, 169, 210>>[n + 1]
Activation(r, m) ==
  LET reference == IF r.asOf = 0 THEN r.now ELSE r.asOf IN
  r.rel[m] * Recency(IF reference > rows[m].ts THEN reference - rows[m].ts ELSE 0)
    * Importance(m) * Frequency(rows[m].accesses)

Score(a) ==
  /\ At(a, "score")
  /\ \E m \in ask[a].left :
       LET hit == m \in DOMAIN rows /\ Valid(m, ask[a].asOf) IN
       Puts(a, [ask[a] EXCEPT !.left = @ \ {m}, !.pc = IF ask[a].left = {m} THEN "rank" ELSE "score",
                              !.scored = IF hit THEN Put(@, m, Activation(ask[a], m)) ELSE @,
                              !.stubs = IF hit /\ rows[m].bundle # {} THEN @ \union {m} ELSE @])
  /\ Keeps /\ UNCHANGED store

\* Order, cut and abstain; point-in-time recall does not strengthen.  What moved while
\* it read does not matter to the return, unless a row it returns is gone.
ByScore(scored, M) ==
  [n \in 1..Cardinality(M) |-> CHOOSE m \in M : Cardinality(Above(scored, m) \intersect M) = n - 1]

Ranked(scored) ==
  LET order == ByScore(scored, DOMAIN scored) IN [n \in 1..Min({TOP_K, Len(order)}) |-> order[n]]

RankAll(a) ==
  /\ At(a, "rank")
  /\ LET answer == Ranked(ask[a].scored)
         silent == answer = <<>> \/ ask[a].scored[Head(answer)] < ABSTENTION
         cold == ByScore(ask[a].scored, Range(answer) \intersect ask[a].stubs) IN
     IF silent THEN Puts(a, [NoAsk EXCEPT !.pc = "answered"])
     ELSE Puts(a, [NoAsk EXCEPT !.pc = IF ask[a].asOf = 0 THEN "strengthen" ELSE "backends",
                                !.answer = answer, !.cold = cold, !.stubs = Range(cold),
                                !.todo = IF ask[a].asOf = 0 THEN answer ELSE <<>>,
                                !.mixed = ~(Range(cold) \subseteq DOMAIN rows)])
  /\ Keeps /\ UNCHANGED store

Strengthen(a) ==
  /\ At(a, "strengthen")
  /\ LET m == Head(ask[a].todo) IN
     rows' = IF m \in DOMAIN rows THEN [rows EXCEPT ![m].accesses = Min({@ + 1, 2})] ELSE rows
  /\ Puts(a, [ask[a] EXCEPT !.todo = Tail(@), !.pc = IF Len(ask[a].todo) = 1 THEN "backends" ELSE "strengthen"])
  /\ Keeps /\ UNCHANGED <<logged, embedded, primary, bundles>>

\* read_backends: the local store, then what is configured.
ReadBackends(a) ==
  /\ At(a, "backends")
  /\ Puts(a, IF ask[a].cold = <<>> THEN [ask[a] EXCEPT !.pc = "answered"]
             ELSE [ask[a] EXCEPT !.pc = "find", !.todo = ask[a].cold,
                                 !.at = <<Local>> \o SetToSeq(Shelves \ {Local})])
  /\ Keeps /\ UNCHANGED store

\* promote_nodes on one backend: the first bundle it cannot get, parse or put back ends
\* it, and the next backend begins again; a backend that promotes them all ends the loop.
Rereads(r) == [r EXCEPT !.pc = "reread", !.todo = r.cold, !.at = <<>>, !.got = {}]
NextMemory(r) ==
  IF Len(r.todo) = 1 THEN Rereads(r) ELSE [r EXCEPT !.pc = "find", !.todo = Tail(@), !.got = {}]

NextBackendNever(r) ==   \* mutant: only the local store is tried
  Rereads(r)

NextBackend(r) ==
  IF Len(r.at) = 1 THEN Rereads(r) ELSE [r EXCEPT !.pc = "find", !.todo = r.cold, !.at = Tail(@)]

\* History: where a stored bundle could not be had.
Find(a) ==
  /\ At(a, "find")
  /\ LET m == Head(ask[a].todo)
         shelf == Head(ask[a].at) IN
     IF m \notin DOMAIN rows \/ rows[m].bundle = {} THEN Puts(a, NextMemory(ask[a]))
     ELSE IF rows[m].bundle \notin bundles[shelf] THEN Puts(a, NextBackend(ask[a]))
     ELSE \/ Puts(a, [ask[a] EXCEPT !.pc = "restore", !.got = rows[m].bundle])
          \/ Puts(a, NextBackend([ask[a] EXCEPT !.failed = @ \union {<<shelf, m>>}]))
  /\ Keeps /\ UNCHANGED store

RestoreOne(a) ==
  /\ At(a, "restore")
  /\ LET m == Head(ask[a].todo) IN
     rows' = IF m \in DOMAIN rows \intersect ask[a].got THEN [rows EXCEPT ![m].bundle = {}] ELSE rows
  /\ Puts(a, NextMemory(ask[a]))
  /\ Keeps /\ UNCHANGED <<logged, embedded, primary, bundles>>

Reread(a) ==
  /\ At(a, "reread")
  /\ LET m == Head(ask[a].todo) IN
     Puts(a, [ask[a] EXCEPT !.todo = Tail(@), !.pc = IF Len(ask[a].todo) = 1 THEN "answered" ELSE "reread",
                            !.stubs = IF m \in DOMAIN rows /\ rows[m].bundle = {} THEN @ \ {m} ELSE @])
  /\ Keeps /\ UNCHANGED store

\* The ledger event and the answer (the ledger's place in the log is in Memory).
Answer(a) ==
  /\ At(a, "answered")
  /\ Puts(a, NoAsk)
  /\ Keeps /\ UNCHANGED store

RecallNext ==
  \/ WipeRows \/ Hour
  \/ \E m \in Memories : Learn(m) \/ FoldAgain(m) \/ \E n \in Memories : Superseded(m, n)
  \/ \E s \in Shelves : MovePrimary(s)
  \/ \E M \in SUBSET DOMAIN rows : TierOut(M)
  \/ \E a \in Askers :
       \/ \E q \in Queries, hop \in BOOLEAN, t \in 0..hour : Ask(a, q, hop, t)
       \/ Search(a) \/ Expand(a) \/ Score(a) \/ RankAll(a) \/ Strengthen(a) \/ ReadBackends(a)
       \/ Find(a) \/ RestoreOne(a) \/ Reread(a) \/ Answer(a)

RecallSpec == RecallInit /\ [][RecallNext]_recallVars
-----------------------------------------------------------------------------
\* A row without a tiered_ref has its whole text, and what a stub replaces is stored.
StubsAreStored ==
  \A m \in DOMAIN rows : rows[m].bundle = {} \/ \E s \in Shelves : rows[m].bundle \in bundles[s]

\* By the log, m was true at t, or is if t is 0.
Held(m, t) ==
  IF t = 0 THEN logged[m].by = 0
  ELSE logged[m].ts <= t /\ (logged[m].by = 0 \/ logged[logged[m].by].ts > t)

\* The first cold memory of r could not be had where it is stored.
OutOfReach(r) ==
  LET first == Head(r.cold) IN
  /\ \E s \in Shelves : <<s, first>> \in r.failed
  /\ \A s \in Shelves : rows[first].bundle \in bundles[s] \ {{}} => <<s, first>> \in r.failed

\* What a recall scores of what it found is what the log says was true at the time asked
\* about, or is true now (retrieval.rs: "what was true at this unix ts"), although it
\* reads rows that a rebuild replays and supersedes end; and memory.rs:169, "recalled
\* cold memories come back warm": the first of them does, whichever backend has it, if
\* none that has it fails.  Recalls that start on rows that are not the log's, or under
\* which rows move, are excused.
RecallHolds ==
  \A a \in Askers : ~ask[a].mixed =>
    /\ At(a, "rank") => \A m \in DOMAIN ask[a].rel : m \in DOMAIN ask[a].scored <=> Held(m, ask[a].asOf)
    /\ At(a, "answered") /\ ask[a].cold # <<>> /\ Head(ask[a].cold) \in ask[a].stubs => OutOfReach(ask[a])

\* retrieval.rs:134, "Ranks are DENSE": the ranks of a lane leave no gap.
RanksAreDense ==
  \A q \in Queries :
    LET ranks == {Rank(FtsLane(q), m) : m \in DOMAIN FtsLane(q)} IN ranks = 0..(Cardinality(ranks) - 1)

\* memory.rs:169 of every recalled memory, when every backend answers.
AllComeBackWarm ==
  \A a \in Askers : ~ask[a].mixed /\ ask[a].failed = {} /\ At(a, "answered") => ask[a].stubs = {}
=============================================================================
