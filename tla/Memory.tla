------------------------------- MODULE Memory -------------------------------
(***************************************************************************)
(* The memory of one workspace (lifeos-memory): the projection of the      *)
(* event log into memory nodes (project.rs), the consolidation cycle       *)
(* (consolidate.rs) and the tiering of cold nodes (tier.rs), run by the    *)
(* drainer and by the API's recall, retain, sleep, rebuild and tier        *)
(* handlers (routes/memory.rs), statement by statement.                    *)
(*                                                                         *)
(* The log is in the order of the inserts; an event's index is its id, and *)
(* the projector reads in (ts, id) order.  All domain events are about one *)
(* entity.  Scores, rules and communities are left out: a cycle emits and  *)
(* the projector folds them as it does summaries.  The 'ledger' stands for *)
(* the memory.* events that the projector skips.                           *)
(***************************************************************************)
EXTENDS Naturals, Sequences, SequencesExt, FiniteSetsExt

CONSTANTS
  MemoryHandlers,
  SETTLE_SECS, EPISODE_GAP_SECS, DAY_ROLLUP_MIN_EPISODES, TIER_MIN_AGE_SECS,
  MaxDomain, MaxRequests, MaxCrashes, MaxTime   \* bounds

ASSUME MemoryAssumption ==
  {SETTLE_SECS, EPISODE_GAP_SECS, DAY_ROLLUP_MIN_EPISODES, TIER_MIN_AGE_SECS,
   MaxDomain, MaxRequests, MaxCrashes, MaxTime} \subseteq Nat

VARIABLES
  log,            \* events: ts, type, and the events they are about
  nodes,          \* memory_nodes by event: who superseded it, where it is tiered
  projected, consolidated,      \* the two (ts, id) cursors
  blobs,          \* bundles on the storage backend
  now, doing, local, requests, crashes,
  disturbed,      \* history: projections overlapped, a rebuild died, an event came late
  again,          \* history: a cycle overlapped another, or died before its cursor
  half            \* history: the last projection died half way

tables == <<log, nodes, projected, consolidated, blobs>>
memoryVars == <<tables, now, doing, local, requests, crashes, disturbed, again, half>>

NoCall == [kind |-> "none", now |-> 0, at |-> <<0, 0>>, batch |-> <<>>,
              outs |-> <<>>, upto |-> <<0, 0>>, bundle |-> {}, left |-> {}]

MemoryInit ==
  /\ log = <<[ts |-> 0, type |-> "domain", about |-> {}]>> /\ nodes = <<>> /\ blobs = {}
  /\ projected = <<0, 0>> /\ consolidated = <<0, 0>>
  /\ now = 1
  /\ doing = [h \in MemoryHandlers |-> "idle"] /\ local = [h \in MemoryHandlers |-> NoCall]
  /\ requests = 0 /\ crashes = 0 /\ disturbed = FALSE /\ again = FALSE /\ half = FALSE

Event(ts, type, about) == [ts |-> ts, type |-> type, about |-> about]
Domain == {i \in DOMAIN log : log[i].type = "domain"}

Key(i) == <<log[i].ts, i>>
Before(k, l) == k[1] < l[1] \/ (k[1] = l[1] /\ k[2] < l[2])
InOrder(S) ==
  [n \in 1..Cardinality(S) |-> CHOOSE i \in S : Cardinality({j \in S : Before(Key(j), Key(i))}) = n - 1]
\* fetch_events_after.
Past(k) == {i \in DOMAIN log : Before(k, Key(i))}
After(k) == InOrder(Past(k))

Go(h, next) == doing' = [doing EXCEPT ![h] = next]
Ends(h) == Go(h, "idle") /\ local' = [local EXCEPT ![h] = NoCall]
Goes == UNCHANGED <<now, requests, crashes>>

Projecting == {"read_projected", "fetch", "apply", "write_projected"}
Others(h) == MemoryHandlers \ {h}
\* h enters a projection: history of overlaps.
Project(h) ==
  /\ Go(h, "read_projected")
  /\ disturbed' = (disturbed \/ \E g \in Others(h) : doing[g] \in Projecting \union {"wipe", "reset"})
-----------------------------------------------------------------------------
(* What starts: a domain event is one INSERT by anyone. *)

DomainEvent ==
  /\ Cardinality(Domain) < MaxDomain
  /\ log' = Append(log, Event(now, "domain", {}))
  /\ UNCHANGED <<nodes, projected, consolidated, blobs, now, doing, local, requests, crashes, disturbed, again, half>>

\* recall_logged and the drain's or the API's cycle project first.
Start(h, kind) ==
  /\ doing[h] = "idle" /\ requests < MaxRequests
  /\ requests' = requests + 1
  /\ local' = [local EXCEPT ![h] = [NoCall EXCEPT !.kind = kind,
                                                   !.now = IF kind \in {"sleep", "tier"} THEN now ELSE 0]]
  /\ \/ kind \in {"recall", "sleep"} /\ Project(h)
     \/ kind = "rebuild" /\ Go(h, "wipe") /\ disturbed' = (disturbed \/ \E g \in Others(h) : doing[g] \in Projecting)
     \/ kind = "tier" /\ Go(h, "find_cold") /\ UNCHANGED disturbed
  /\ again' = (again \/ (kind = "sleep" /\ \E g \in Others(h) : local[g].kind = "sleep"))
  /\ UNCHANGED <<tables, now, crashes, half>>
-----------------------------------------------------------------------------
(* project_workspace. *)

ReadProjected(h) ==
  /\ doing[h] = "read_projected"
  /\ local' = [local EXCEPT ![h].at = projected]
  /\ Go(h, "fetch")
  /\ Goes /\ UNCHANGED <<tables, disturbed, again, half>>

Fetch(h) ==
  /\ doing[h] = "fetch"
  /\ local' = [local EXCEPT ![h].batch = After(local[h].at)]
  /\ Go(h, IF After(local[h].at) = <<>> THEN "write_projected" ELSE "apply")
  /\ Goes /\ UNCHANGED <<tables, disturbed, again, half>>

NodeTypes == {"domain", "summary", "day"}
NoNode == [by |-> 0, tiered |-> {}]
Set(f, i, v) == [j \in DOMAIN f \union {i} |-> IF j = i THEN v ELSE f[j]]

AppliedOver(model, i) ==   \* mutant: a later supersede overwrites the first
  LET e == log[i] IN
  CASE e.type \in NodeTypes -> IF i \in DOMAIN model THEN model ELSE Set(model, i, NoNode)
    [] e.type = "supersede" ->
         [j \in DOMAIN model |-> IF j \in e.about THEN [model[j] EXCEPT !.by = i] ELSE model[j]]
    [] OTHER -> model

\* apply_event: INSERT OR REPLACE of a node; the first supersede of a node counts.  Left
\* out: a domain event whose attrs name what it supersedes does both (project.rs:286-291).
Applied(model, i) ==
  LET e == log[i] IN
  CASE e.type \in NodeTypes -> Set(model, i, NoNode)
    [] e.type = "supersede" ->
         [j \in DOMAIN model |-> IF j \in e.about /\ model[j].by = 0
                                 THEN [model[j] EXCEPT !.by = i] ELSE model[j]]
    [] OTHER -> model

Apply(h) ==
  /\ doing[h] = "apply"
  /\ LET i == Head(local[h].batch) IN
     /\ nodes' = Applied(nodes, i)
     /\ local' = [local EXCEPT ![h].at = Key(i), ![h].batch = Tail(@)]
     /\ Go(h, IF Len(local[h].batch) = 1 THEN "fetch" ELSE "apply")
  /\ Goes /\ UNCHANGED <<log, projected, consolidated, blobs, disturbed, again, half>>

\* A local that is not used again is forgotten.
Continues(h, next) == Go(h, next) /\ local' = [local EXCEPT ![h] = [NoCall EXCEPT !.kind = local[h].kind, !.now = local[h].now]]

\* The upsert does not compare: the cursor may move back.
WriteProjected(h) ==
  /\ doing[h] = "write_projected"
  /\ projected' = local[h].at
  /\ CASE local[h].kind = "recall" -> Continues(h, "promote")
       [] local[h].kind = "sleep" -> Continues(h, "read_consolidated")
       [] OTHER -> Ends(h)
  /\ half' = FALSE
  /\ Goes /\ UNCHANGED <<log, nodes, consolidated, blobs, disturbed, again>>

\* rebuild_workspace.
Wipe(h) ==
  /\ doing[h] = "wipe"
  /\ nodes' = <<>>
  /\ Go(h, "reset")
  /\ Goes /\ UNCHANGED <<log, projected, consolidated, blobs, local, disturbed, again, half>>

ResetProjected(h) ==
  /\ doing[h] = "reset"
  /\ projected' = <<0, 0>>
  /\ Project(h)
  /\ Goes /\ UNCHANGED <<log, nodes, consolidated, blobs, local, again, half>>
-----------------------------------------------------------------------------
(* run_sleep_cycle. *)

ReadConsolidated(h) ==
  /\ doing[h] = "read_consolidated"
  /\ local' = [local EXCEPT ![h].at = consolidated]
  /\ Go(h, "scan")
  /\ Goes /\ UNCHANGED <<tables, disturbed, again, half>>

\* segment_episodes: cut at silence gaps.
Segmented(s) ==
  LET cuts == {n \in DOMAIN s : n = 1 \/ log[s[n]].ts - log[s[n - 1]].ts > EPISODE_GAP_SECS}
      episode(n) == Cardinality({c \in cuts : c <= n}) IN
  [e \in 1..Cardinality(cuts) |-> {s[n] : n \in {m \in DOMAIN s : episode(m) = e}}]

\* previous_event_for_entity.
Previous(i) == {j \in Domain : Before(Key(j), Key(i)) /\ ~\E k \in Domain : Before(Key(j), Key(k)) /\ Before(Key(k), Key(i))}

\* What a cycle started at time t emits for the events s it consumes.
Outputs(s, t) ==
  LET episodes == Segmented(s)
      updates == InOrder({i \in ToSet(s) : Previous(i) # {}}) IN
  [n \in DOMAIN episodes |-> Event(t, "summary", episodes[n])]
    \o (IF Len(episodes) >= DAY_ROLLUP_MIN_EPISODES THEN <<Event(t, "day", ToSet(s))>> ELSE <<>>)
    \o [n \in DOMAIN updates |-> Event(t, "supersede", Previous(updates[n]))]

\* Settled events past the cursor: all before the first that is too young.
Settled(h) ==
  {i \in Past(local[h].at) :
     \A j \in Past(local[h].at) : Before(Key(i), Key(j)) \/ log[j].ts + SETTLE_SECS <= local[h].now}

ScanSettled(h) ==
  /\ doing[h] = "scan"
  /\ LET consumable == InOrder(Settled(h) \intersect Domain) IN
     IF consumable = <<>>
       THEN Ends(h)
       ELSE /\ local' = [local EXCEPT ![h].outs = Outputs(consumable, local[h].now), ![h].at = <<0, 0>>,
                                      ![h].upto = Key(Last(InOrder(Settled(h))))]
            /\ Go(h, "emit")
  /\ Goes /\ UNCHANGED <<tables, disturbed, again, half>>

\* History: an event behind the cursor, or behind where a projection is or died.
Late(h) ==
  LET k == <<local[h].now, Len(log) + 1>>
      reads(g) == IF local[g].batch = <<>> THEN local[g].at ELSE Key(Last(local[g].batch)) IN
  half \/ ~Before(projected, k) \/ \E g \in Others(h) : doing[g] \in Projecting /\ ~Before(reads(g), k)

\* The event carries the time the cycle began, whatever was logged since.
EmitOutput(h) ==
  /\ doing[h] = "emit"
  /\ log' = Append(log, Head(local[h].outs))
  /\ local' = [local EXCEPT ![h].outs = Tail(@)]
  /\ Go(h, IF Len(local[h].outs) = 1 THEN "find_cold" ELSE "emit")
  /\ disturbed' = (disturbed \/ Late(h))
  /\ Goes /\ UNCHANGED <<nodes, projected, consolidated, blobs, again, half>>

WriteConsolidatedNow(h) ==   \* mutant: up to the last event there is
  /\ doing[h] = "write_consolidated"
  /\ consolidated' = IF After(local[h].upto) = <<>> THEN local[h].upto ELSE Key(Last(After(local[h].upto)))
  /\ Project(h)
  /\ local' = [local EXCEPT ![h] = [NoCall EXCEPT !.kind = "fold"]]
  /\ Goes /\ UNCHANGED <<log, nodes, projected, blobs, again, half>>

WriteConsolidated(h) ==
  /\ doing[h] = "write_consolidated"
  /\ consolidated' = local[h].upto
  /\ Project(h)
  /\ local' = [local EXCEPT ![h] = [NoCall EXCEPT !.kind = "fold"]]
  /\ Goes /\ UNCHANGED <<log, nodes, projected, blobs, again, half>>

-----------------------------------------------------------------------------
(* find_cold_nodes, tier_out_cold and promote_nodes.  Old episodic nodes are
   cold; a summary's importance is above the threshold. *)

AfterTier(h) ==
  IF local[h].kind = "sleep"
    THEN Go(h, "write_consolidated") /\ local' = [local EXCEPT ![h].bundle = {}, ![h].left = {}]
    ELSE Ends(h)

Cold(t) == {i \in Domain \intersect DOMAIN nodes : nodes[i].tiered = {} /\ log[i].ts + TIER_MIN_AGE_SECS < t}

FindCold(h) ==
  /\ doing[h] = "find_cold"
  /\ LET cold == Cold(local[h].now) IN
     IF cold = {} THEN AfterTier(h)
     ELSE Go(h, "put") /\ local' = [local EXCEPT ![h].bundle = cold, ![h].left = cold]
  /\ Goes /\ UNCHANGED <<tables, disturbed, again, half>>

\* A bundle is named by what it holds.
PutBundle(h) ==
  /\ doing[h] = "put"
  /\ blobs' = blobs \union {local[h].bundle}
  /\ Go(h, "stub")
  /\ Goes /\ UNCHANGED <<log, nodes, projected, consolidated, local, disturbed, again, half>>

\* One UPDATE per node, if the row is there.
Stub(h) ==
  /\ doing[h] = "stub"
  /\ LET i == Min(local[h].left) IN
     /\ nodes' = IF i \in DOMAIN nodes THEN [nodes EXCEPT ![i].tiered = local[h].bundle] ELSE nodes
     /\ IF local[h].left = {i} THEN AfterTier(h) ELSE local' = [local EXCEPT ![h].left = @ \ {i}] /\ UNCHANGED doing
  /\ Goes /\ UNCHANGED <<log, projected, consolidated, blobs, disturbed, again, half>>

\* recall: a node that is tiered comes back, then the ledger event.
ReadTiered(h) ==
  /\ doing[h] = "promote"
  /\ \/ Go(h, "ledger") /\ UNCHANGED local
     \/ \E i \in DOMAIN nodes :
          /\ nodes[i].tiered \in blobs
          /\ local' = [local EXCEPT ![h].bundle = nodes[i].tiered, ![h].left = {i}]
          /\ Go(h, "restore")
  /\ Goes /\ UNCHANGED <<tables, disturbed, again, half>>

Restore(h) ==
  /\ doing[h] = "restore"
  /\ nodes' = [i \in DOMAIN nodes |-> IF i \in local[h].left \intersect local[h].bundle
                                      THEN [nodes[i] EXCEPT !.tiered = {}] ELSE nodes[i]]
  /\ Continues(h, "ledger")
  /\ Goes /\ UNCHANGED <<log, projected, consolidated, blobs, disturbed, again, half>>

Ledger(h) ==
  /\ doing[h] = "ledger"
  /\ log' = Append(log, Event(now, "ledger", {}))
  /\ Ends(h)
  /\ Goes /\ UNCHANGED <<nodes, projected, consolidated, blobs, disturbed, again, half>>
-----------------------------------------------------------------------------
Tick ==
  /\ now < MaxTime
  /\ now' = now + 1
  /\ UNCHANGED <<tables, doing, local, requests, crashes, disturbed, again, half>>

Crash(h) ==
  /\ doing[h] # "idle" /\ crashes < MaxCrashes
  /\ crashes' = crashes + 1
  /\ again' = (again \/ doing[h] \in {"emit", "write_consolidated"} \/ (local[h].kind = "sleep" /\ local[h].upto # <<0, 0>>))
  /\ disturbed' = (disturbed \/ doing[h] = "reset")
  /\ half' = (half \/ doing[h] \in Projecting)
  /\ Ends(h)
  /\ UNCHANGED <<tables, now, requests>>

Step(h) ==
  \/ ReadProjected(h) \/ Fetch(h) \/ Apply(h) \/ WriteProjected(h) \/ Wipe(h) \/ ResetProjected(h)
  \/ ReadConsolidated(h) \/ ScanSettled(h) \/ EmitOutput(h) \/ WriteConsolidated(h)
  \/ FindCold(h) \/ PutBundle(h) \/ Stub(h) \/ ReadTiered(h) \/ Restore(h) \/ Ledger(h)

MemoryNext ==
  \/ Tick \/ DomainEvent
  \/ \E h \in MemoryHandlers :
       \/ Step(h) \/ Crash(h)
       \/ \E kind \in {"recall", "sleep", "rebuild", "tier"} : Start(h, kind)

MemorySpec == MemoryInit /\ [][MemoryNext]_memoryVars
-----------------------------------------------------------------------------
\* The variables have the values the code can give them.
MemoryTypeOK ==
  /\ \A i \in DOMAIN log : log[i].ts \in 0..MaxTime /\ log[i].about \subseteq Domain
  /\ DOMAIN nodes \subseteq DOMAIN log
  /\ \A i \in DOMAIN nodes : nodes[i].by = 0 \/ log[nodes[i].by].type = "supersede"
  /\ projected[1] \in 0..MaxTime /\ consolidated[1] \in 0..MaxTime

\* What the log up to k says of each node: the first event that supersedes it.
Upto(k) == {i \in DOMAIN log : ~Before(k, Key(i))}
Replayed(k) ==
  LET by(i) == {s \in Upto(k) : log[s].type = "supersede" /\ i \in log[s].about} IN
  [i \in {j \in Upto(k) : log[j].type \in NodeTypes} |->
     IF by(i) = {} THEN 0 ELSE CHOOSE s \in by(i) : \A r \in by(i) \ {s} : Before(Key(s), Key(r))]

\* project.rs, "wipe the read models, fold the log again, get identical rows":
\* between projections the nodes are what the log says up to the cursor, through
\* crashes, repeats and rebuilds that did not overlap and while no event came late;
\* and what a stub replaces is in a stored bundle (tier.rs: "never a loss").
ReadModelIsFold ==
  /\ \A i \in DOMAIN nodes : nodes[i].tiered # {} => nodes[i].tiered \in blobs /\ i \in nodes[i].tiered
  /\ \/ disturbed \/ half
     \/ \E h \in MemoryHandlers : doing[h] \in Projecting \union {"reset"}
     \/ [i \in DOMAIN nodes |-> nodes[i].by] = Replayed(projected)

Summaries(i) == {s \in DOMAIN log : log[s].type = "summary" /\ i \in log[s].about}

\* Every domain event the consolidation cursor has passed is in a summary, and in
\* one only unless cycles overlapped or one died half way.
ConsolidatedOnce ==
  /\ \A i \in Domain : ~Before(consolidated, Key(i)) => Summaries(i) # {}
  /\ again \/ \A i \in Domain : Cardinality(Summaries(i)) <= 1

\* consolidate.rs:23: "the episode they belong to may still be open": two events within
\* a gap of each other are summarized together.
EpisodesWhole ==
  again \/ \A i, j \in Domain :
    (i < j /\ Summaries(i) # {} /\ Summaries(j) # {} /\ log[j].ts - log[i].ts <= EPISODE_GAP_SECS)
      => Summaries(i) = Summaries(j)
=============================================================================
