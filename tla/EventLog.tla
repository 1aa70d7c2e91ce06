------------------------------ MODULE EventLog ------------------------------
(***************************************************************************)
(* The events table as the push scan sees it, and the subscriptions of a   *)
(* workspace.  An event takes its id (a ULID) before its INSERT is sent,   *)
(* so an event may become visible behind one with a larger id.             *)
(***************************************************************************)
EXTENDS Naturals, FiniteSets

CONSTANTS
  Subs,    \* the push endpoints of the workspace
  MaxId,   \* bound: events in a behaviour
  Null

ASSUME LogAssumption ==
  /\ MaxId \in Nat
  /\ Null \notin [kind : {"gate", "other"}, owes : SUBSET Subs]

VARIABLES
  events,  \* the rows, by id; "owes" is a history field, see Insert
  nextId,  \* the next id to be taken
  subs     \* push_subscriptions: absent, live, or dead at the push service

logVars == <<events, nextId, subs>>

Ids == 1..MaxId
Registered == {s \in Subs : subs[s] # "absent"}

LogInit ==
  /\ events = [e \in Ids |-> Null]
  /\ nextId = 1
  /\ subs = [s \in Subs |-> "absent"]

LogTypeOK ==
  /\ events \in [Ids -> [kind : {"gate", "other"}, owes : SUBSET Subs] \cup {Null}]
  /\ nextId \in 1..(MaxId + 1)
  /\ subs \in [Subs -> {"absent", "live", "dead"}]

\* notification_for_event: a gate is one of the kinds that push.
Notifies(kind) == kind = "gate"

\* new_id("evt"), evaluated before the statement is sent.
TakeId == nextId \in Ids /\ nextId' = nextId + 1

\* The INSERT lands.  A gate owes a push to everyone registered by then, unless
\* it lands behind an event already visible, which a scan may have passed.
Insert(e, kind) ==
  events' = [events EXCEPT ![e] =
    [kind |-> kind,
     owes |-> IF Notifies(kind) /\ (\A i \in Ids : i > e => events[i] = Null)
              THEN Registered ELSE {}]]
=============================================================================
