------------------------------ MODULE Configs ------------------------------
(***************************************************************************)
(* Candidate configs of one kind: a draft is shadowed, promoted by a human *)
(* and rolled back, and a pointer in vcs_refs names the active one.  Each  *)
(* call is a chain of single statements; two callers interleave and a      *)
(* handler may die between any two of its statements.                      *)
(***************************************************************************)
EXTENDS Naturals, FiniteSets, Sequences

CONSTANTS
  Callers,
  MaxConfigs,   \* bound: candidates; their ids are ULIDs, ordered by creation
  MaxCalls,     \* bound: calls of shadow, promote and rollback
  MaxSecond,    \* bound: the clock, which has a granularity of one second
  Null

VARIABLES
  configs,   \* the rows of the configs table, in order of creation
  active,    \* the pointer of kind config_active
  events,    \* config.promoted and config.rolledback
  second,    \* now_secs()
  call,      \* what each caller is doing
  calls

vars == <<configs, active, events, second, call, calls>>

Refs == {Null} \cup 1..MaxConfigs
Idle == [pc |-> "idle", type |-> Null, id |-> Null, at |-> Null, previous |-> Null]

Init ==
  /\ configs = << >>
  /\ active = Null
  /\ events = << >>
  /\ second = 0
  /\ call = [c \in Callers |-> Idle]
  /\ calls = 0

\* POST /configs: a draft; nothing is activated.
CreateConfig ==
  /\ Len(configs) < MaxConfigs
  /\ configs' = Append(configs, [status |-> "draft", promotedAt |-> Null])
  /\ UNCHANGED <<active, events, second, call, calls>>

\* A caller begins a call with what its first reads found.
Called(c, pc, type, i, at) ==
  /\ call[c].pc = "idle" /\ calls < MaxCalls
  /\ calls' = calls + 1
  /\ call' = [call EXCEPT ![c] = [pc |-> pc, type |-> type, id |-> i,
                                  at |-> at, previous |-> active]]
  /\ UNCHANGED <<configs, active, events, second>>

\* shadow: the status is checked by a SELECT of its own ...
RequireDraft(c, i) ==
  configs[i].status = "draft" /\ Called(c, "shadow", "shadow", i, Null)

\* ... and the UPDATE that follows has no guard on it.
Shadow(c) ==
  /\ call[c].pc = "shadow"
  /\ configs' = [configs EXCEPT ![call[c].id].status = "shadow"]
  /\ call' = [call EXCEPT ![c] = Idle]
  /\ UNCHANGED <<active, events, second, calls>>

\* promote: the row is loaded whatever its status; the time and the previous
\* pointer are read.
\* mutant: the pointer is flipped, and the row is not updated
LoadConfigFlips(c, i) == Called(c, "flip", "config.promoted", i, second)

LoadConfig(c, i) == Called(c, "promote", "config.promoted", i, second)

Promote(c) ==
  /\ call[c].pc = "promote"
  /\ configs' = [configs EXCEPT ![call[c].id] =
                   [status |-> "promoted", promotedAt |-> call[c].at]]
  /\ call' = [call EXCEPT ![c].pc = "flip"]
  /\ UNCHANGED <<active, events, second, calls>>

\* ORDER BY promoted_at DESC, id DESC
Later(i, j) ==
  \/ configs[i].promotedAt > configs[j].promotedAt
  \/ configs[i].promotedAt = configs[j].promotedAt /\ i > j

Promoted == {i \in DOMAIN configs : configs[i].status = "promoted"}

\* LIMIT 1 OFFSET 1: there is a target when two configs are promoted.
RollbackTarget(i) == i \in Promoted /\ Cardinality({j \in Promoted : Later(j, i)}) = 1

Rollback(c, i) == RollbackTarget(i) /\ Called(c, "flip", "config.rolledback", i, Null)

\* upsert_active_ref
UpsertActiveRef(c) ==
  /\ call[c].pc = "flip"
  /\ active' = call[c].id
  /\ call' = [call EXCEPT ![c].pc = "emit"]
  /\ UNCHANGED <<configs, events, second, calls>>

EmitEvent(c) ==
  /\ call[c].pc = "emit"
  /\ events' = Append(events, [type |-> call[c].type, id |-> call[c].id,
                               previous |-> call[c].previous])
  /\ call' = [call EXCEPT ![c] = Idle]
  /\ UNCHANGED <<configs, active, second, calls>>

\* The handler dies, or a statement of it fails, which ends the call.
Abandon(c) ==
  /\ call[c].pc # "idle"
  /\ call' = [call EXCEPT ![c] = Idle]
  /\ UNCHANGED <<configs, active, events, second, calls>>

NextSecond ==
  /\ second < MaxSecond
  /\ second' = second + 1
  /\ UNCHANGED <<configs, active, events, call, calls>>

Step(c) ==
  \/ \E i \in DOMAIN configs : RequireDraft(c, i) \/ LoadConfig(c, i) \/ Rollback(c, i)
  \/ Shadow(c) \/ Promote(c) \/ UpsertActiveRef(c) \/ EmitEvent(c) \/ Abandon(c)

Next == CreateConfig \/ (\E c \in Callers : Step(c)) \/ NextSecond

Spec == Init /\ [][Next]_vars
-----------------------------------------------------------------------------
WasPromoted(i) == i \in DOMAIN configs /\ configs[i].promotedAt # Null

\* The pointer, and every event of its history, name a config that a human
\* promoted: a handler that dies, or another one in between, leaves at worst a
\* promoted config that is not active (configs.rs:101-127, 138-168).
ActiveWasPromoted ==
  /\ active # Null => WasPromoted(active)
  /\ \A n \in DOMAIN events : WasPromoted(events[n].id)

\* What configs.rs:150-154 says of a rollback: its order is that of the
\* promotions, so a call that nothing overlaps, after a promotion, goes back to
\* a config other than the one just promoted.
RollbackLeavesPromoted ==
  \A c \in Callers :
    (/\ call[c].pc = "flip" /\ call[c].type = "config.rolledback"
     /\ \A b \in Callers \ {c} : call[b].pc = "idle"
     /\ events # << >>
     /\ events[Len(events)] = [type |-> "config.promoted", id |-> active, previous |-> events[Len(events)].previous])
    => call[c].id # active
=============================================================================
