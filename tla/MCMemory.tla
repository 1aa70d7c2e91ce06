------------------------------ MODULE MCMemory ------------------------------
(* The parts that turn what happened and what was stored into something to search,
   and what answers from it: a behaviour is about the memory, the ingest of one file,
   recall, the community map or the working set.  Recall's changes stand for the steps
   of the memory; the others share no table.  Handlers are alike, and so are drainers
   and the contents of the file; only safety is checked. *)
EXTENDS Memory, Ingest, Recall, Communities, WorkingSet, TLC

\* On these vertices label_propagation settles before its last round, whatever the graph:
\* MapIsWhole speaks of each of them.
ASSUME AllSettle == \A graph \in SUBSET Pairs : Stable(graph)

VARIABLE focus

Alike == Permutations(MemoryHandlers) \union Permutations(Versions)

\* A part that a behaviour is not about starts in one state.
MCInit ==
  /\ focus \in {"memory", "ingest", "recall", "network", "context"}
  /\ MemoryInit
  /\ IF focus = "ingest" THEN IngestInit ELSE IngestInit /\ media = "text"
  /\ RecallInit /\ primary = Local
  /\ IF focus = "network" THEN NetworkInit ELSE NetworkInit /\ linked = {}
  /\ IF focus = "context" THEN WorkingInit ELSE WorkingInit /\ <<rules, facts, turns>> = <<<<>>, <<>>, <<>>>>

MCNext ==
  \/ focus = "memory" /\ MemoryNext /\ UNCHANGED <<focus, ingestVars, recallVars, networkVars, workingVars>>
  \/ focus = "ingest" /\ IngestNext /\ UNCHANGED <<focus, memoryVars, recallVars, networkVars, workingVars>>
  \/ focus = "recall" /\ RecallNext /\ UNCHANGED <<focus, memoryVars, ingestVars, networkVars, workingVars>>
  \/ focus = "network" /\ NetworkNext /\ UNCHANGED <<focus, memoryVars, ingestVars, recallVars, workingVars>>
  \/ focus = "context" /\ Compile /\ UNCHANGED <<focus, memoryVars, ingestVars, recallVars, networkVars>>

MCSpec == MCInit /\ [][MCNext]_<<focus, memoryVars, ingestVars, recallVars, networkVars, workingVars>>
=============================================================================
