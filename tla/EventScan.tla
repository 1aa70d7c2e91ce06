----------------------------- MODULE EventScan -----------------------------
(***************************************************************************)
(* The Actions engine of lifeos-actions: every drainer scans the `events`  *)
(* table from a per-workspace cursor kept in the database, enqueues a job  *)
(* and an `action.fired` event for each event a rule matches, and moves    *)
(* the cursor past the batch.  The push fan-out of lifeos-drain scans the  *)
(* same table with the same statements and a cursor of its own.            *)
(*                                                                         *)
(* An event id is a ULID: made by its writer (API, Worker, a drainer) from *)
(* the writer's own clock, larger than the writer's earlier ids, and       *)
(* inserted by a later statement.  Nothing orders the ids of two writers,  *)
(* so an id is any unused number above the writer's last one.  One         *)
(* workspace is modelled: no statement of the scan crosses workspaces.     *)
(***************************************************************************)
EXTENDS Integers, FiniteSets

CONSTANTS
  Writers,      \* processes that emit events
  Scanners,     \* drainers that run the engine
  MaxId,        \* bound on the ids ever made
  BatchLimit,   \* SCAN_BATCH_LIMIT
  MaxAborts     \* bound on scans cut short by an error or a crash

ASSUME MaxIdAssumption == MaxId \in Nat
ASSUME BatchLimitAssumption == BatchLimit \in Nat \ {0}
ASSUME MaxAbortsAssumption == MaxAborts \in Nat

Ids == 1 .. MaxId

VARIABLES
  kind,     \* kind[i]: "unused", "match" (a rule fires on it) or "other"
  events,   \* ids in the events table
  minted,   \* minted[w]: the id writer w made and has not inserted, or 0
  lastId,   \* lastId[w]: the last id writer w made
  cursor,   \* the cursor row; 0 is the empty string
  pc,       \* where each scanner is in process_workspace_events
  from,     \* the cursor value a scanner read
  batch,    \* rows of its SELECT not handled yet, taken in the order of their ids
  upTo,     \* last_id of the rows it has read
  fired,    \* fired[i]: jobs enqueued for event i
  audited,  \* audited[i]: action.fired events for event i
  aborts,   \* scans cut short so far
  late      \* history: ids inserted behind a cursor or a running scan

vars == <<kind, events, minted, lastId, cursor, pc, from, batch, upTo,
          fired, audited, aborts, late>>
eventVars == <<kind, events, minted, lastId, late>>
scanVars == <<cursor, pc, from, batch, upTo, fired, audited, aborts>>

TypeOK ==
  /\ kind \in [Ids -> {"unused", "match", "other"}]
  /\ events \subseteq Ids
  /\ minted \in [Writers -> Ids \cup {0}]
  /\ lastId \in [Writers -> Ids \cup {0}]
  /\ cursor \in Ids \cup {0}
  /\ pc \in [Scanners -> {"idle", "select", "rows", "audit"}]
  /\ from \in [Scanners -> Ids \cup {0}]
  /\ batch \in [Scanners -> SUBSET Ids]
  /\ upTo \in [Scanners -> Ids \cup {0}]
  /\ fired \in [Ids -> Nat]
  /\ audited \in [Ids -> Nat]
  /\ aborts \in 0 .. MaxAborts
  /\ late \subseteq events

Init ==
  /\ kind = [i \in Ids |-> "unused"]
  /\ events = {}
  /\ minted = [w \in Writers |-> 0]
  /\ lastId = [w \in Writers |-> 0]
  /\ cursor = 0
  /\ pc = [s \in Scanners |-> "idle"]
  /\ from = [s \in Scanners |-> 0]
  /\ batch = [s \in Scanners |-> {}]
  /\ upTo = [s \in Scanners |-> 0]
  /\ fired = [i \in Ids |-> 0]
  /\ audited = [i \in Ids |-> 0]
  /\ aborts = 0
  /\ late = {}

-----------------------------------------------------------------------------
\* new_event_id: Generator::generate is monotonic within a process.
MintId(w) ==
  /\ minted[w] = 0
  /\ \E i \in Ids, k \in {"match", "other"} :
       /\ kind[i] = "unused" /\ i > lastId[w]
       /\ kind' = [kind EXCEPT ![i] = k]
       /\ minted' = [minted EXCEPT ![w] = i]
       /\ lastId' = [lastId EXCEPT ![w] = i]
  /\ UNCHANGED <<events, late>>
  /\ UNCHANGED scanVars

\* An id is late when the cursor, or a scan by what it has read, is past it already.
Passed(i) ==
  \/ i <= cursor
  \/ \E s \in Scanners : \/ i <= from[s] \/ i <= upTo[s]
                         \/ \E k \in batch[s] : i <= k

InsertEvent(w) ==
  /\ minted[w] # 0
  /\ events' = events \cup {minted[w]}
  /\ late' = IF Passed(minted[w]) THEN late \cup {minted[w]} ELSE late
  /\ minted' = [minted EXCEPT ![w] = 0]
  /\ UNCHANGED <<kind, lastId>>
  /\ UNCHANGED scanVars

-----------------------------------------------------------------------------
GetCursor(s) ==
  /\ pc[s] = "idle"
  /\ from' = [from EXCEPT ![s] = cursor]
  /\ pc' = [pc EXCEPT ![s] = "select"]
  /\ UNCHANGED <<cursor, batch, upTo, fired, audited, aborts>>
  /\ UNCHANGED eventVars

Above(c) == {i \in events : i > c}

\* Mutant: the LIMIT keeps the newest rows instead of the oldest.
SelectNewest(c) ==
  {i \in Above(c) : Cardinality({k \in Above(c) : k >= i}) <= BatchLimit}

\* The first BatchLimit ids above c.
Select(c) ==
  {i \in Above(c) : Cardinality({k \in Above(c) : k <= i}) <= BatchLimit}

\* Mutant: the cursor is moved when the batch is read, not when it is done.
SelectBatchEager(s) ==
  /\ pc[s] = "select"
  /\ batch' = [batch EXCEPT ![s] = Select(from[s])]
  /\ \/ batch'[s] = {} /\ cursor' = cursor
     \/ cursor' \in batch'[s] /\ \A k \in batch'[s] : k <= cursor'
  /\ from' = [from EXCEPT ![s] = 0]
  /\ pc' = [pc EXCEPT ![s] = "rows"]
  /\ UNCHANGED <<upTo, fired, audited, aborts>>
  /\ UNCHANGED eventVars

SelectBatch(s) ==
  /\ pc[s] = "select"
  /\ batch' = [batch EXCEPT ![s] = Select(from[s])]
  /\ from' = [from EXCEPT ![s] = 0]
  /\ pc' = [pc EXCEPT ![s] = "rows"]
  /\ UNCHANGED <<cursor, upTo, fired, audited, aborts>>
  /\ UNCHANGED eventVars

\* The next row of the batch is the one with the least id.
NextRow(s, i) == i \in batch[s] /\ \A k \in batch[s] : i <= k

\* The row is done and becomes last_id.
RowDone(s, i) ==
  /\ upTo' = [upTo EXCEPT ![s] = i]
  /\ batch' = [batch EXCEPT ![s] = batch[s] \ {i}]

\* A row no rule matches only becomes last_id.
PassRow(s, i) ==
  /\ pc[s] = "rows" /\ NextRow(s, i)
  /\ kind[i] = "other"
  /\ RowDone(s, i)
  /\ UNCHANGED <<cursor, pc, from, fired, audited, aborts>>
  /\ UNCHANGED eventVars

\* INSERT INTO jobs for the row, then INSERT INTO events of action.fired.
FireJob(s, i) ==
  /\ pc[s] = "rows" /\ NextRow(s, i)
  /\ kind[i] = "match"
  /\ fired' = [fired EXCEPT ![i] = fired[i] + 1]
  /\ pc' = [pc EXCEPT ![s] = "audit"]
  /\ UNCHANGED <<cursor, from, batch, upTo, audited, aborts>>
  /\ UNCHANGED eventVars

EmitFired(s, i) ==
  /\ pc[s] = "audit" /\ NextRow(s, i)
  /\ audited' = [audited EXCEPT ![i] = audited[i] + 1]
  /\ RowDone(s, i)
  /\ pc' = [pc EXCEPT ![s] = "rows"]
  /\ UNCHANGED <<cursor, from, fired, aborts>>
  /\ UNCHANGED eventVars

\* After the last row: set_cursor when there was one, an upsert that does not
\* look at the value it replaces.
SetCursor(s) ==
  /\ pc[s] = "rows" /\ batch[s] = {}
  /\ cursor' = IF upTo[s] # 0 THEN upTo[s] ELSE cursor
  /\ upTo' = [upTo EXCEPT ![s] = 0]
  /\ pc' = [pc EXCEPT ![s] = "idle"]
  /\ UNCHANGED <<from, batch, fired, audited, aborts>>
  /\ UNCHANGED eventVars

\* Any statement may fail (`?` returns) and the process may die: the scan's
\* locals are gone, what it wrote stays.
Abort(s) ==
  /\ pc[s] # "idle"
  /\ aborts < MaxAborts
  /\ aborts' = aborts + 1
  /\ pc' = [pc EXCEPT ![s] = "idle"]
  /\ from' = [from EXCEPT ![s] = 0]
  /\ batch' = [batch EXCEPT ![s] = {}]
  /\ upTo' = [upTo EXCEPT ![s] = 0]
  /\ UNCHANGED <<cursor, fired, audited>>
  /\ UNCHANGED eventVars

Scan(s) ==
  \/ GetCursor(s) \/ SelectBatch(s) \/ SetCursor(s)
  \/ \E i \in Ids : PassRow(s, i) \/ FireJob(s, i) \/ EmitFired(s, i)

Next ==
  \/ \E w \in Writers : MintId(w) \/ InsertEvent(w)
  \/ \E s \in Scanners : Scan(s) \/ Abort(s)

Spec == Init /\ [][Next]_vars

\* The poll loop calls the engine on every tick.
FairSpec == Spec /\ \A s \in Scanners : WF_vars(Scan(s))

-----------------------------------------------------------------------------
\* At-least-once: whatever is cut short or runs twice, the cursor never passes
\* a matching event that was in the table in time without its job having been
\* enqueued (jobs are written before set_cursor).
PassedImpliesFired ==
  \A i \in events \ late : kind[i] = "match" /\ i <= cursor => fired[i] > 0

\* The scans catch up: again and again every matching event that reached the
\* table in time has its job, however many batches behind the cursor was.
MatchEventuallyFires ==
  []<>(\A i \in events \ late : kind[i] = "match" => fired[i] > 0)

\* lifeos-actions lib.rs:28-31: the ULID order makes the scan correct.
NoEventSkipped ==
  \A i \in events : kind[i] = "match" /\ i <= cursor => fired[i] > 0
=============================================================================
