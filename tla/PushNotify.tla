----------------------------- MODULE PushNotify -----------------------------
(***************************************************************************)
(* The push tick of the drainers: scan the events behind a cursor, send    *)
(* each gate to every subscription, prune the ones the push service says   *)
(* are gone, and only then move the cursor past the whole batch.           *)
(***************************************************************************)
EXTENDS EventLog

CONSTANTS
  Scanners,    \* the drainers that run the tick
  BatchLimit,  \* SCAN_BATCH_LIMIT
  MaxSubEvents, \* bound: subscribes, unsubscribes and deaths of an endpoint
  MaxAborts    \* bound: ticks cut short

ASSUME PushAssumption == {BatchLimit, MaxSubEvents, MaxAborts} \subseteq Nat

VARIABLES cursor, scan, subEvents, aborts

pushVars == <<cursor, scan, subEvents, aborts>>

NoScan == [pc |-> "idle", batch |-> {}, to |-> {}, last |-> 0]

PushInit ==
  /\ cursor = 0
  /\ scan = [p \in Scanners |-> NoScan]
  /\ subEvents = 0
  /\ aborts = 0

PushTypeOK ==
  /\ cursor \in 0..MaxId
  /\ scan \in [Scanners -> [pc : {"idle", "select", "next", "send"}, batch : SUBSET Ids,
                            to : SUBSET Subs, last : 0..MaxId]]
  /\ subEvents \in 0..MaxSubEvents
  /\ aborts \in 0..MaxAborts

Excused(s) == [e \in Ids |-> IF events[e] = Null THEN Null
                             ELSE [events[e] EXCEPT !.owes = events[e].owes \ {s}]]

SubEvent == subEvents < MaxSubEvents /\ subEvents' = subEvents + 1

\* POST /push/subscribe upserts by endpoint; a dead one comes back with new keys.
Subscribe(s) ==
  /\ SubEvent /\ subs[s] # "live"
  /\ subs' = [subs EXCEPT ![s] = "live"]
  /\ UNCHANGED <<events, nextId, cursor, scan, aborts>>

Unsubscribe(s) ==
  /\ SubEvent /\ subs[s] # "absent"
  /\ subs' = [subs EXCEPT ![s] = "absent"]
  /\ events' = Excused(s)
  /\ UNCHANGED <<nextId, cursor, scan, aborts>>

\* The browser drops the endpoint: its row stays until a push is tried.
Expire(s) ==
  /\ SubEvent /\ subs[s] = "live"
  /\ subs' = [subs EXCEPT ![s] = "dead"]
  /\ UNCHANGED <<events, nextId, cursor, scan, aborts>>

\* get_cursor; `last` is the cursor that was read, then the last row visited.
GetCursor(p) ==
  /\ scan[p].pc = "idle"
  /\ scan' = [scan EXCEPT ![p] = [pc |-> "select", batch |-> {}, to |-> {}, last |-> cursor]]
  /\ UNCHANGED <<cursor, subEvents, aborts, logVars>>

Behind(c) == {e \in Ids : e > c /\ events[e] # Null}
Batch(c) == {e \in Behind(c) : Cardinality({i \in Behind(c) : i <= e}) <= BatchLimit}

\* mutant: the cursor moves when the batch is read.
SelectMoves(p) ==
  LET rows == Batch(scan[p].last) IN
  /\ scan[p].pc = "select"
  /\ scan' = [scan EXCEPT ![p] = IF rows = {} THEN NoScan
       ELSE [pc |-> "next", batch |-> rows, to |-> {}, last |-> scan[p].last]]
  /\ cursor' = IF rows = {} THEN cursor ELSE CHOOSE e \in rows : \A i \in rows : i <= e
  /\ UNCHANGED <<subEvents, aborts, logVars>>

\* The SELECT of one batch; nothing new leaves the cursor alone.
SelectBatch(p) ==
  LET rows == Batch(scan[p].last) IN
  /\ scan[p].pc = "select"
  /\ scan' = [scan EXCEPT ![p] = IF rows = {} THEN NoScan
       ELSE [pc |-> "next", batch |-> rows, to |-> {}, last |-> scan[p].last]]
  /\ UNCHANGED <<cursor, subEvents, aborts, logVars>>

\* The rows of a batch are visited in the order of their ids.
NextRow(p, e) == e \in scan[p].batch /\ \A i \in scan[p].batch : e <= i

\* notification_for_event, and list_subscriptions for one that notifies.
NextEvent(p, e) ==
  /\ scan[p].pc = "next" /\ NextRow(p, e)
  /\ scan' = [scan EXCEPT ![p] =
       [pc |-> IF Notifies(events[e].kind) /\ Registered # {} THEN "send" ELSE "next",
        batch |-> scan[p].batch \ {e},
        to |-> IF Notifies(events[e].kind) THEN Registered ELSE {},
        last |-> e]]
  /\ UNCHANGED <<cursor, subEvents, aborts, logVars>>

\* The push service answers 404 or 410; any other failure leaves the row alone.
Gone(s) == subs[s] = "dead"

\* One send: tried is tried, delivered or not; a dead endpoint is pruned by its
\* row's id, which a subscription renewed since the list was read still has.
Send(p) ==
  /\ scan[p].pc = "send"
  /\ \E s \in scan[p].to :
       /\ scan' = [scan EXCEPT ![p] = [scan[p] EXCEPT
            !.to = scan[p].to \ {s}, !.pc = IF scan[p].to = {s} THEN "next" ELSE "send"]]
       /\ \/ Gone(s) /\ subs' = [subs EXCEPT ![s] = "absent"] /\ events' = Excused(s)
          \/ /\ events' = [events EXCEPT ![scan[p].last] =
                             [@ EXCEPT !.owes = events[scan[p].last].owes \ {s}]]
             /\ UNCHANGED subs
  /\ UNCHANGED <<nextId, cursor, subEvents, aborts>>

SetCursor(p) ==
  /\ scan[p].pc = "next" /\ scan[p].batch = {}
  /\ cursor' = scan[p].last
  /\ scan' = [scan EXCEPT ![p] = NoScan]
  /\ UNCHANGED <<subEvents, aborts, logVars>>

\* A statement fails or the drainer dies: the cursor has not moved.
AbortTick(p) ==
  /\ aborts < MaxAborts /\ scan[p].pc # "idle"
  /\ aborts' = aborts + 1
  /\ scan' = [scan EXCEPT ![p] = NoScan]
  /\ UNCHANGED <<cursor, subEvents, logVars>>

Tick(p) == GetCursor(p) \/ SelectBatch(p) \/ (\E e \in Ids : NextEvent(p, e)) \/ Send(p) \/ SetCursor(p)

\* Another writer's gate (build.node.gated) lands with an id of its own, ahead of
\* an event whose id was taken before and is still on its way.
OtherGate ==
  /\ TakeId
  /\ Insert(nextId, "gate")
  /\ UNCHANGED <<subs, pushVars>>

PushNext ==
  \/ OtherGate
  \/ \E s \in Subs : Subscribe(s) \/ Unsubscribe(s) \/ Expire(s)
  \/ \E p \in Scanners : Tick(p) \/ AbortTick(p)
-----------------------------------------------------------------------------
\* The cursor never passes a gate whose push has not been tried for everyone
\* registered when it was written and ever since: through aborted ticks and
\* overlapping scans (push.rs:402-450).
PassedMeansTried == \A e \in 1..cursor : events[e] # Null => events[e].owes = {}
=============================================================================
