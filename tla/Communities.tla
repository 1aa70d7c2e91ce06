---------------------------- MODULE Communities -----------------------------
(***************************************************************************)
(* The community map of one workspace (communities.rs): a sleep cycle      *)
(* detects the communities of the graph of current edges and replaces the  *)
(* rows of the map, statement by statement; cycles may overlap or die, and *)
(* the network questions read the map meanwhile.                           *)
(*                                                                         *)
(* Vertices are numbered in the order of their ids.  A community's id is   *)
(* made of its members, so the rows of the map are sets of vertices.       *)
(***************************************************************************)
EXTENDS Naturals, Sequences, FiniteSetsExt

CONSTANTS
  Cycles, Vertices,
  MAX_ITERATIONS, MIN_COMMUNITY_SIZE, ASK_TOP_K,
  MaxRuns, MaxEdits   \* bounds

ASSUME CommunitiesAssumption ==
  /\ IsFiniteSet(Vertices) /\ Vertices \subseteq Nat
  /\ MIN_COMMUNITY_SIZE \in 1..2   \* two vertices are a community
  /\ ASK_TOP_K \in Nat \ {0} /\ {MAX_ITERATIONS, MaxRuns, MaxEdits} \subseteq Nat

VARIABLES
  linked,     \* the current edges
  communities,\* the rows of memory_communities
  cycle, runs, edits,
  builtOf,    \* history: the graph the last cycle that ended read
  torn        \* history: cycles overlapped, or one stopped half way

networkVars == <<linked, communities, cycle, runs, edits, builtOf, torn>>

Pairs == {e \in SUBSET Vertices : Cardinality(e) = 2}
Idle == [pc |-> "idle", graph |-> {}, todo |-> {}]

NetworkInit ==
  /\ linked \in SUBSET Pairs /\ communities = {} /\ builtOf = {}
  /\ cycle = [c \in Cycles |-> Idle] /\ runs = 0 /\ edits = 0 /\ torn = FALSE
-----------------------------------------------------------------------------
(* label_propagation. *)

Neighbours(graph, v) == {w \in Vertices : {v, w} \in graph /\ w # v}
\* The vertices that have an edge, by their ids.
InGraph(graph) ==
  [n \in 1..Cardinality(UNION graph) |->
     CHOOSE v \in UNION graph : Cardinality({w \in UNION graph : w < v}) = n - 1]

\* The most common label around v, the smallest of those.
Best(graph, label, v) ==
  LET count(l) == Cardinality({w \in Neighbours(graph, v) : label[w] = l})
      around == {label[w] : w \in Neighbours(graph, v)} IN
  Min({l \in around : \A k \in around : count(k) <= count(l)})

\* A round visits the vertices in order, and each sees the labels of those before it.
Round(graph, label) ==
  LET order == InGraph(graph)
      seen[n \in 0..Len(order)] ==
        IF n = 0 THEN label
        ELSE [seen[n - 1] EXCEPT ![order[n]] = Best(graph, seen[n - 1], order[n])]
  IN seen[Len(order)]

Rounds(graph, n) ==
  LET labels[i \in 0..n] == IF i = 0 THEN [v \in Vertices |-> v] ELSE Round(graph, labels[i - 1])
  IN labels[n]

Groups(graph, n) ==
  LET label == Rounds(graph, n) IN
  {g \in {{v \in UNION graph : label[v] = l} : l \in Vertices} : Cardinality(g) >= MIN_COMMUNITY_SIZE}

Detected(graph) == Groups(graph, MAX_ITERATIONS)
-----------------------------------------------------------------------------
(* Edges are folded in and invalidated between the statements of a cycle. *)

Edit(e) ==
  /\ edits < MaxEdits /\ edits' = edits + 1
  /\ linked' = IF e \in linked THEN linked \ {e} ELSE linked \union {e}
  /\ UNCHANGED <<communities, cycle, runs, builtOf, torn>>

Steps(c, r) == cycle' = [cycle EXCEPT ![c] = r]
Busy(c) == \E d \in Cycles \ {c} : cycle[d].pc # "idle"

\* rebuild_communities: the graph is read once.
Detect(c) ==
  /\ cycle[c].pc = "idle" /\ runs < MaxRuns
  /\ runs' = runs + 1
  /\ Steps(c, [pc |-> "delete", graph |-> linked, todo |-> Detected(linked)])
  /\ torn' = (torn \/ Busy(c))
  /\ UNCHANGED <<linked, communities, edits, builtOf>>

Built(c) == Steps(c, Idle) /\ builtOf' = cycle[c].graph

DeleteNothing(c) ==   \* mutant: rows of communities that are gone stay
  /\ cycle[c].pc = "delete"
  /\ IF cycle[c].todo = {} THEN Built(c) ELSE Steps(c, [cycle[c] EXCEPT !.pc = "insert"]) /\ UNCHANGED builtOf
  /\ torn' = (torn /\ Busy(c))
  /\ UNCHANGED <<linked, communities, runs, edits>>

\* A cycle that begins alone repairs what others tore.
DeleteAll(c) ==
  /\ cycle[c].pc = "delete"
  /\ communities' = {}
  /\ IF cycle[c].todo = {} THEN Built(c) ELSE Steps(c, [cycle[c] EXCEPT !.pc = "insert"]) /\ UNCHANGED builtOf
  /\ torn' = (torn /\ Busy(c))
  /\ UNCHANGED <<linked, runs, edits>>

\* A row that is there already is an error, and the cycle ends with it.
InsertCommunity(c) ==
  /\ cycle[c].pc = "insert"
  /\ \E g \in cycle[c].todo :
       IF g \in communities
         THEN Steps(c, Idle) /\ torn' = TRUE /\ UNCHANGED <<communities, builtOf>>
         ELSE /\ communities' = communities \union {g}
              /\ UNCHANGED torn
              /\ IF cycle[c].todo = {g} THEN Built(c)
                 ELSE Steps(c, [cycle[c] EXCEPT !.todo = @ \ {g}]) /\ UNCHANGED builtOf
  /\ UNCHANGED <<linked, runs, edits>>

\* A statement fails, or the process dies.
Stop(c) ==
  /\ cycle[c].pc # "idle"
  /\ Steps(c, Idle) /\ torn' = TRUE
  /\ UNCHANGED <<linked, communities, runs, edits, builtOf>>

NetworkNext ==
  \/ \E e \in Pairs : Edit(e)
  \/ \E c \in Cycles : Detect(c) \/ DeleteAll(c) \/ InsertCommunity(c) \/ Stop(c)
-----------------------------------------------------------------------------
(* Questions, as sets of the vertices they name: the k rows that share most with the
   question, those that share nothing included. *)
Shared(question, g) == Cardinality(question \intersect g)
AskNetwork(question, k) ==
  {H \in SUBSET communities :
     /\ Cardinality(H) = Min({k, Cardinality(communities)})
     /\ \A g \in H, f \in communities \ H : Shared(question, g) >= Shared(question, f)}

NetworkSpec == NetworkInit /\ [][NetworkNext]_networkVars
-----------------------------------------------------------------------------
\* One more round would change no label: label_propagation stops there, or when it has
\* done MAX_ITERATIONS.
Stable(graph) ==
  LET label == Rounds(graph, MAX_ITERATIONS) IN \A v \in UNION graph : Best(graph, label, v) = label[v]

\* consolidate.rs:303, "delete+reinsert every cycle is the whole contract", and
\* communities.rs:132, "Deterministic by construction": between cycles that neither overlapped nor died the
\* map has no vertex of the graph that was read in two communities, a question that
\* names one finds its community, and where the labels have settled each vertex is in
\* a community, together with a neighbour.
MapIsWhole ==
  torn \/ (\E c \in Cycles : cycle[c].pc = "insert") \/ LET settled == Stable(builtOf) IN
    \A v \in UNION builtOf :
      /\ settled => \E g \in communities : v \in g /\ Neighbours(builtOf, v) \intersect g # {}
      /\ \A g \in communities : v \in g =>
           /\ \A f \in communities : v \in f => f = g
           /\ \A H \in AskNetwork({v}, ASK_TOP_K) : g \in H
=============================================================================
