------------------------------ MODULE Proposals ------------------------------
(***************************************************************************)
(* Proposals of lifeos-api against the entities they change: create, merge *)
(* and reject (proposal.rs), a plain entity update (entity.rs) and a       *)
(* reconcile (reconcile.rs).  Each handler is a sequence of statements on  *)
(* one connection, with those of other requests in between.                *)
(*                                                                         *)
(* The attrs blob of an entity is the set of writes it shows: an update    *)
(* replaces the blob by its own mark, a merge adds the proposal to what    *)
(* the log replays to.  Every proposal changes all of Targets.             *)
(***************************************************************************)
EXTENDS Naturals, Sequences, SequencesExt

CONSTANTS
  Handlers,      \* requests that may be in progress together
  Targets,       \* a sequence of entities, in the order of a change list
  Props,         \* ids of proposals
  Null,
  MaxRequests, MaxCrashes, MaxTime   \* bounds: requests, handlers that die, seconds

ASSUME ProposalsAssumption ==
  /\ Targets \in Seq(ToSet(Targets)) /\ Targets # <<>>
  /\ Null \notin Props /\ Props \cap (0..MaxRequests) = {}
  /\ {MaxRequests, MaxCrashes, MaxTime} \subseteq Nat

Entities == ToSet(Targets)
Marks == (0..MaxRequests) \union Props   \* an update is known by its number, a merge by its proposal

VARIABLES
  rows,      \* attrs and updated_at of each entity
  log,       \* its entity.created and entity.updated events, in id order
  props,     \* status, needs_rebase and base versions of each proposal
  said,      \* types of the proposal.* events of each proposal
  now,
  pc, req,   \* next statement and local variables of each handler
  requests, crashes,
  overlap,   \* history: proposals two handlers held open copies of at once
  torn,      \* history: proposals whose merge died half way
  clash      \* history: entities with two writes in progress, or a dead writer

dbVars   == <<rows, log, props, said>>
histVars == <<overlap, torn, clash>>
vars == <<dbVars, now, pc, req, requests, crashes, histVars>>

NoProposal == [status |-> "none", rebase |-> FALSE, vers |-> <<>>, ats |-> <<>>]
Request(p, t, copy, plan, stale) ==
  [p |-> p, t |-> t, copy |-> copy, i |-> 1, at |-> 0, vers |-> <<>>, ats |-> <<>>,
   drift |-> FALSE, plan |-> plan, cause |-> FALSE, stale |-> stale]
NoRequest == Request(Null, Null, NoProposal, <<>>, FALSE)

Init ==
  /\ rows = [t \in Entities |-> [attrs |-> {0}, at |-> 0]]
  /\ log = [t \in Entities |-> <<[attrs |-> {0}, by |-> Null, base |-> 0, cause |-> FALSE]>>]
  /\ props = [p \in Props |-> NoProposal]
  /\ said = [p \in Props |-> {}]
  /\ now = 0
  /\ pc = [h \in Handlers |-> "idle"]
  /\ req = [h \in Handlers |-> NoRequest]
  /\ requests = 0 /\ crashes = 0
  /\ overlap = {} /\ torn = {} /\ clash = {}

Replayed(t) == Last(log[t]).attrs     \* replay_entity_attrs
Version(t)  == Len(log[t])            \* latest_event_id

Go(h, next) == pc' = [pc EXCEPT ![h] = next]
Ends(h) == Go(h, "idle") /\ req' = [req EXCEPT ![h] = NoRequest]

\* A request arrives; its first statement runs in the same step.
Begin(h, next, r) ==
  /\ pc[h] = "idle" /\ requests < MaxRequests
  /\ requests' = requests + 1
  /\ Go(h, next)
  /\ req' = [req EXCEPT ![h] = r]
  /\ UNCHANGED <<now, crashes, torn>>

Target(h) == Targets[req[h].i]
\* Handler g is between its two statements on entity t.
Writes(g, t) == \/ pc[g] \in {"emit_put", "write_back"} /\ req[g].t = t
                \/ pc[g] = "apply_emit" /\ Target(g) = t
\* h starts to write t: history of who else is doing so.
StartsWriting(h, t) ==
  clash' = IF \E g \in Handlers \ {h} : Writes(g, t) THEN clash \union {t} ELSE clash

Holding(p) == {g \in Handlers : req[g].p = p}
LoadsOpen(h, p) ==
  /\ props[p].status = "open"
  /\ overlap' = IF Holding(p) \ {h} = {} THEN overlap ELSE overlap \union {p}
-----------------------------------------------------------------------------
(* PUT /api/entity/:id and its reconcile. *)

Event(attrs, by, base, cause) == [attrs |-> attrs, by |-> by, base |-> base, cause |-> cause]

PutUpdate(h, t) ==
  /\ Begin(h, "emit_put", Request(Null, t, NoProposal, <<{requests + 1}>>, FALSE))
  /\ rows' = [rows EXCEPT ![t] = [attrs |-> {requests + 1}, at |-> now]]
  /\ StartsWriting(h, t)
  /\ UNCHANGED <<log, props, said, overlap>>

PutEmitNull(h) ==   \* mutant: a replay event without the attrs
  /\ pc[h] = "emit_put"
  /\ Ends(h)
  /\ UNCHANGED <<dbVars, now, requests, crashes, histVars>>

PutEmit(h) ==
  /\ pc[h] = "emit_put"
  /\ log' = [log EXCEPT ![req[h].t] = Append(@, Event(req[h].plan[1], Null, 0, FALSE))]
  /\ Ends(h)
  /\ UNCHANGED <<rows, props, said, now, requests, crashes, histVars>>

ReconcileReplay(h, t) ==
  /\ Begin(h, "write_back", Request(Null, t, NoProposal, <<Replayed(t)>>, FALSE))
  /\ StartsWriting(h, t)
  /\ UNCHANGED <<dbVars, overlap>>

ReconcileWrite(h) ==
  /\ pc[h] = "write_back"
  /\ rows' = [rows EXCEPT ![req[h].t] = [attrs |-> req[h].plan[1], at |-> now]]
  /\ Ends(h)
  /\ UNCHANGED <<log, props, said, now, requests, crashes, histVars>>
-----------------------------------------------------------------------------
(* Create: a snapshot of every target, the row, the event. *)

BeginCreate(h, p) ==
  /\ props[p] = NoProposal /\ Holding(p) = {}
  /\ Begin(h, "snap_row", Request(p, Null, NoProposal, <<>>, FALSE))
  /\ UNCHANGED <<dbVars, overlap, clash>>

Creating(h) == req[h].copy = NoProposal

\* snapshot: the row, then the log (replay and latest event id).
SnapRow(h) ==
  /\ pc[h] = "snap_row"
  /\ req' = [req EXCEPT ![h] = [req[h] EXCEPT !.at = rows[Target(h)].at]]
  /\ Go(h, "snap_log")
  /\ UNCHANGED <<dbVars, now, requests, crashes, histVars>>

AfterLast(h, next, done) == Go(h, IF req[h].i = Len(Targets) THEN done ELSE next)
NextTarget(h) == IF req[h].i = Len(Targets) THEN 1 ELSE req[h].i + 1

SnapBase(h) ==
  /\ pc[h] = "snap_log" /\ Creating(h)
  /\ req' = [req EXCEPT ![h] = [req[h] EXCEPT !.vers = Append(req[h].vers, Version(Target(h))),
                                              !.ats = Append(req[h].ats, req[h].at),
                                              !.i = NextTarget(h)]]
  /\ AfterLast(h, "snap_row", "insert")
  /\ UNCHANGED <<dbVars, now, requests, crashes, histVars>>

InsertProposal(h) ==
  /\ pc[h] = "insert"
  /\ props' = [props EXCEPT ![req[h].p] =
                 [status |-> "open", rebase |-> FALSE, vers |-> req[h].vers, ats |-> req[h].ats]]
  /\ Go(h, "emit_created")
  /\ UNCHANGED <<rows, log, said, now, req, requests, crashes, histVars>>

Says(h, what) == said' = [said EXCEPT ![req[h].p] = @ \union {what}]

EmitCreated(h) ==
  /\ pc[h] = "emit_created"
  /\ Says(h, "created")
  /\ Ends(h)
  /\ UNCHANGED <<rows, log, props, now, requests, crashes, histVars>>
-----------------------------------------------------------------------------
(* Merge: phase 1 checks every target, phase 2 applies every patch. *)

\* History `stale`: a target had moved on before this merge looked at it.
BeginMerge(h, p) ==
  /\ LoadsOpen(h, p)
  /\ Begin(h, "snap_row", Request(p, Null, props[p], <<>>,
               \E i \in DOMAIN Targets : Version(Targets[i]) # props[p].vers[i]))
  /\ UNCHANGED <<dbVars, clash>>

Drifted(h) ==
  LET r == req[h] IN r.at # r.copy.ats[r.i] \/ Version(Target(h)) # r.copy.vers[r.i]

CheckTargetAlone(h) ==   \* mutant: only the last target's conflict counts
  /\ pc[h] = "snap_log" /\ ~Creating(h)
  /\ req' = [req EXCEPT ![h] =
               [req[h] EXCEPT !.plan = Append(req[h].plan, Replayed(Target(h)) \union {req[h].p}),
                              !.drift = Drifted(h), !.i = NextTarget(h)]]
  /\ AfterLast(h, "snap_row", IF Drifted(h) THEN "flag" ELSE "cause")
  /\ UNCHANGED <<dbVars, now, requests, crashes, histVars>>

CheckTarget(h) ==
  /\ pc[h] = "snap_log" /\ ~Creating(h)
  /\ LET drift == req[h].drift \/ Drifted(h) IN
     /\ req' = [req EXCEPT ![h] =
                  [req[h] EXCEPT !.plan = Append(req[h].plan, Replayed(Target(h)) \union {req[h].p}),
                                 !.drift = drift, !.i = NextTarget(h)]]
     /\ AfterLast(h, "snap_row", IF drift THEN "flag" ELSE "cause")
  /\ UNCHANGED <<dbVars, now, requests, crashes, histVars>>

\* persist_proposal_attrs writes the copy read at the start, changed.
Persist(h, status, rebase) ==
  props' = [props EXCEPT ![req[h].p] = [req[h].copy EXCEPT !.status = status, !.rebase = rebase]]

FlagRebase(h) ==
  /\ pc[h] = "flag"
  /\ Persist(h, req[h].copy.status, TRUE)
  /\ Go(h, "emit_flag")
  /\ UNCHANGED <<rows, log, said, now, req, requests, crashes, histVars>>

\* proposal_created_event_id, and the time of all the writes.
ReadCause(h) ==
  /\ pc[h] = "cause"
  /\ req' = [req EXCEPT ![h] = [req[h] EXCEPT !.cause = "created" \in said[req[h].p], !.at = now]]
  /\ Go(h, "apply")
  /\ UNCHANGED <<dbVars, now, requests, crashes, histVars>>

ApplyRow(h) ==
  /\ pc[h] = "apply"
  /\ rows' = [rows EXCEPT ![Target(h)] = [attrs |-> req[h].plan[req[h].i], at |-> req[h].at]]
  /\ StartsWriting(h, Target(h))
  /\ Go(h, "apply_emit")
  /\ UNCHANGED <<log, props, said, now, req, requests, crashes, overlap, torn>>

ApplyFirst(h) ==   \* mutant: the loop stops after its first target
  /\ pc[h] = "apply_emit"
  /\ LET r == req[h] IN
     log' = [log EXCEPT ![Target(h)] = Append(@, Event(r.plan[r.i], r.p, r.copy.vers[r.i], r.cause))]
  /\ Go(h, "persist_merged")
  /\ UNCHANGED <<rows, props, said, now, req, requests, crashes, histVars>>
ApplyEmit(h) ==
  /\ pc[h] = "apply_emit"
  /\ LET r == req[h] IN
     log' = [log EXCEPT ![Target(h)] = Append(@, Event(r.plan[r.i], r.p, r.copy.vers[r.i], r.cause))]
  /\ req' = [req EXCEPT ![h] = [req[h] EXCEPT !.i = NextTarget(h)]]
  /\ AfterLast(h, "apply", "persist_merged")
  /\ UNCHANGED <<rows, props, said, now, requests, crashes, histVars>>

-----------------------------------------------------------------------------
(* Reject, and what both decisions end in. *)

BeginRejectAny(h, p) ==   \* mutant: no check that the proposal is open
  /\ props[p] # NoProposal
  /\ overlap' = IF Holding(p) \ {h} = {} THEN overlap ELSE overlap \union {p}
  /\ Begin(h, "persist_rejected", Request(p, Null, props[p], <<>>, FALSE))
  /\ UNCHANGED <<dbVars, clash>>

BeginReject(h, p) ==
  /\ LoadsOpen(h, p)
  /\ Begin(h, "persist_rejected", Request(p, Null, props[p], <<>>, FALSE))
  /\ UNCHANGED <<dbVars, clash>>

PersistDecision(h) ==
  /\ \/ pc[h] = "persist_merged" /\ Persist(h, "merged", FALSE) /\ Go(h, "emit_merged")
     \/ pc[h] = "persist_rejected" /\ Persist(h, "rejected", req[h].copy.rebase) /\ Go(h, "emit_rejected")
  /\ UNCHANGED <<rows, log, said, now, req, requests, crashes, histVars>>

EmitDecision(h) ==
  /\ \/ pc[h] = "emit_merged" /\ Says(h, "merged")
     \/ pc[h] = "emit_rejected" /\ Says(h, "rejected")
     \/ pc[h] = "emit_flag" /\ Says(h, "needs_rebase")
  /\ Ends(h)
  /\ UNCHANGED <<rows, log, props, now, requests, crashes, histVars>>
-----------------------------------------------------------------------------
\* A handler dies, or one of its statements fails: nothing is undone.
Crash(h) ==
  /\ pc[h] # "idle" /\ crashes < MaxCrashes
  /\ crashes' = crashes + 1
  /\ clash' = clash \union {t \in Entities : Writes(h, t)}
  /\ torn' = IF pc[h] \in {"apply", "apply_emit", "persist_merged"} THEN torn \union {req[h].p} ELSE torn
  /\ Ends(h)
  /\ UNCHANGED <<dbVars, now, requests, overlap>>

Tick ==
  /\ now < MaxTime
  /\ now' = now + 1
  /\ UNCHANGED <<dbVars, pc, req, requests, crashes, histVars>>

Step(h) ==
  \/ PutEmit(h) \/ ReconcileWrite(h)
  \/ SnapRow(h) \/ SnapBase(h) \/ InsertProposal(h) \/ EmitCreated(h)
  \/ CheckTarget(h) \/ FlagRebase(h) \/ ReadCause(h) \/ ApplyRow(h) \/ ApplyEmit(h)
  \/ PersistDecision(h) \/ EmitDecision(h)

Next ==
  \/ Tick
  \/ \E h \in Handlers :
       \/ Step(h) \/ Crash(h)
       \/ \E t \in Entities : PutUpdate(h, t) \/ ReconcileReplay(h, t)
       \/ \E p \in Props : BeginCreate(h, p) \/ BeginMerge(h, p) \/ BeginReject(h, p)

Spec == Init /\ [][Next]_vars
-----------------------------------------------------------------------------
Applied(p) == {t \in Entities : \E i \in DOMAIN log[t] : log[t][i].by = p}
Applying(p) == \E h \in Holding(p) : pc[h] \in {"apply", "apply_emit", "persist_merged"}

Statements == {"idle", "emit_put", "write_back", "snap_row", "snap_log", "insert", "emit_created",
               "flag", "emit_flag", "cause", "apply", "apply_emit", "persist_merged", "emit_merged",
               "persist_rejected", "emit_rejected"}
Events == [attrs : SUBSET Marks, by : Props \union {Null}, base : Nat, cause : BOOLEAN]
Copies == [status : {"none", "open", "merged", "rejected"}, rebase : BOOLEAN,
           vers : Seq(Nat), ats : Seq(Nat)]
Requests == [p : Props \union {Null}, t : Entities \union {Null}, copy : Copies, i : DOMAIN Targets,
             at : 0..MaxTime, vers : Seq(Nat), ats : Seq(Nat), drift : BOOLEAN,
             plan : Seq(SUBSET Marks), cause : BOOLEAN, stale : BOOLEAN]

\* The variables have the values the code can give them.
TypeOK ==
  /\ rows \in [Entities -> [attrs : SUBSET Marks, at : 0..MaxTime]]
  /\ log \in [Entities -> Seq(Events)] /\ \A t \in Entities : log[t] # <<>>
  /\ props \in [Props -> Copies]
  /\ said \in [Props -> SUBSET {"created", "merged", "rejected", "needs_rebase"}]
  /\ now \in 0..MaxTime
  /\ pc \in [Handlers -> Statements] /\ req \in [Handlers -> Requests]
  /\ requests \in 0..MaxRequests /\ crashes \in 0..MaxCrashes
  /\ overlap \subseteq Props /\ torn \subseteq Props /\ clash \subseteq Entities

\* proposal.rs:458, "all-or-nothing": unless a merge died half way, or is at it,
\* a proposal's events are on all of its targets or on none, however many merges
\* and updates ran together.
AllOrNothing ==
  \A p \in Props : (Applying(p) \/ p \in torn) \/ Applied(p) \in {{}, Entities}

\* A merge never goes over an update that was logged before it started.
DriftIsSeen ==
  \A h \in Handlers : pc[h] \in {"cause", "apply", "apply_emit", "persist_merged"} => ~req[h].stale

\* A merge does all it was accepted for and undoes nothing it did not see
\* (proposal.rs:451-569).
MergesAreWhole == AllOrNothing /\ DriftIsSeen

\* One decision at a time is final: a merged proposal is on all targets and was
\* not also rejected; a rejected one is on none, unless its merge died half way.
DecisionHolds ==
  \A p \in Props \ overlap :
    /\ ~({"merged", "rejected"} \subseteq said[p])
    /\ props[p].status = "merged" => Applied(p) = Entities
    /\ props[p].status = "rejected" /\ p \notin torn => Applied(p) = {}

\* reconcile.rs: where no two writers met and none died between its two
\* statements, the row is what the log replays to.
RowFollowsLog ==
  \A t \in Entities \ clash :
    (\A h \in Handlers : ~Writes(h, t)) => rows[t].attrs = Replayed(t)

\* proposal.rs:458: "if any target drifted or vanished, we refuse": the event of
\* a merge follows the version it was checked against.
MergeFollowsBase ==
  \A t \in Entities : \A i \in DOMAIN log[t] : log[t][i].by # Null => log[t][i].base = i - 1
=============================================================================
