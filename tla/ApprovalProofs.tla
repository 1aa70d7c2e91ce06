--------------------------- MODULE ApprovalProofs ---------------------------
(***************************************************************************)
(* Theorems about Approvals, for any entities, handlers, drainers, jobs    *)
(* and faults, and about what reads the memory of a workspace: Recall,     *)
(* Communities and WorkingSet, for any rows, graph, texts and budget.      *)
(* They share no table, only the lemmas on orders, least numbers and       *)
(* recursive functions; checked by TLAPS.                                  *)
(***************************************************************************)
EXTENDS Approvals, Recall, Communities, WorkingSet, SequencesExt, FiniteSetTheorems, FunctionTheorems,
        SequenceTheorems, WellFoundedInduction, TLAPS

Requests == [entity : Entities, to : Decided, seen : PENDING_STATUSES]

Jobless(e) == \A j \in Jobs : payload[j] # e
Undecided(e) == events[e] = [t \in Decided |-> 0]
Deciding(h) == pc[h] \in {"decided", "recorded"}

\* A handler past its compare-and-swap speaks for its entity: the status is what it
\* asked for, and the statements it has still to send were sent by nobody.
HandlerInv(h) ==
  LET e == req[h].entity  to == req[h].to IN
  /\ pc[h] # "idle" => req[h] \in Requests
  /\ pc[h] = "decided" => status[e] = to /\ Undecided(e) /\ Jobless(e)
  /\ pc[h] = "recorded" =>
       to = "approved" /\ status[e] = to /\ events[e][to] = 1 /\ Jobless(e)

\* No two handlers are past it for one entity.
OneDecider ==
  \A h, g \in Handlers :
    Deciding(h) /\ Deciding(g) /\ req[h].entity = req[g].entity => h = g

EntityInv(e) ==
  /\ status[e] \in PENDING_STATUSES => Undecided(e)
  /\ events[e]["approved"] + events[e]["rejected"] <= 1
  /\ \A to \in Decided : events[e][to] > 0 => status[e] = to
  /\ ~ Jobless(e) => status[e] = "approved" /\ events[e]["approved"] = 1
  /\ launched[e] > 0 \/ e \in told => ~ Jobless(e)

\* A row that was enqueued names an entity, and no other row names it.
JobInv ==
  /\ \A j \in Jobs : phase[j] = "new" <=> payload[j] = None
  /\ \A i, j \in Jobs : payload[i] = payload[j] /\ payload[i] # None => i = j

DrainerInv(d) == step[d] # "idle" => running[d] \in Jobs /\ payload[running[d]] # None

IInv ==
  /\ TypeOK
  /\ \A h \in Handlers : HandlerInv(h)
  /\ OneDecider
  /\ \A e \in Entities : EntityInv(e)
  /\ JobInv
  /\ \A d \in Drainers : DrainerInv(d)

\* The drainers that were granted a job and have not started on it.
Holding(j) == {d \in Drainers : step[d] = "claimed" /\ running[d] = j}

Spent(e) == launched[e] + shrugs[e]

\* Every grant of a job is held, was used for a build, was let be, or was lost.
CountInv ==
  /\ \A j \in Jobs : tries[j] <= MaxAttempts
  /\ \A j \in Jobs : phase[j] # "new" =>
       /\ IsFiniteSet(Holding(j))
       /\ Spent(payload[j]) + Cardinality(Holding(j)) <= tries[j]
  /\ \A e \in Entities : shrugs[e] > 0 => ~ Jobless(e)

\* Why an outcome of a gate may be what it is, to the drainer that reports it and to
\* the queue that holds it.
DoneFor(e) == e \in resumed \/ shrugs[e] > 0
ReasonInv ==
  /\ \A d \in Drainers : step[d] # "idle" /\ BuildGate(payload[running[d]]) =>
       /\ step[d] = "done" => DoneFor(payload[running[d]])
       /\ step[d] \in {"resuming", "failed"} => launched[payload[running[d]]] > 0
  /\ \A j \in Jobs : phase[j] # "new" /\ BuildGate(payload[j]) =>
       /\ phase[j] = "done" => DoneFor(payload[j])
       /\ phase[j] = "failed" => launched[payload[j]] > 0 \/ tries[j] = MaxAttempts
-----------------------------------------------------------------------------
(* Types. *)

LEMMA Undecidedness ==
  ASSUME NEW e \in Entities, TypeOK
  PROVE  Undecided(e) <=> events[e]["approved"] = 0 /\ events[e]["rejected"] = 0
BY DEF Undecided, TypeOK, Decided

LEMMA InitIInv == Init => IInv
<1> SUFFICES ASSUME Init PROVE IInv
  OBVIOUS
<1> USE ApprovalAssumption
<1>1. TypeOK
  BY DEF Init, Lease!Init, TypeOK, PENDING_STATUSES, Decided, BuildGate
<1>2. \A e \in Entities : Undecided(e) /\ events[e]["approved"] = 0 /\ events[e]["rejected"] = 0
  BY DEF Init, Undecided, Decided
<1>3. None \notin Entities /\ \A e \in Entities : Jobless(e)
  BY DEF Init, Jobless
<1>4. \A h \in Handlers : HandlerInv(h) /\ ~ Deciding(h)
  BY DEF Init, HandlerInv, Deciding
<1>5. \A e \in Entities : EntityInv(e)
  BY <1>1, <1>2, <1>3 DEF Init, EntityInv, Decided
<1>6. JobInv
  BY DEF Init, Lease!Init, JobInv
<1> QED BY <1>1, <1>4, <1>5, <1>6 DEF IInv, OneDecider, DrainerInv, Init

\* What the statements of one handler leave alone.
LEMMA TypeOfHandler ==
  ASSUME TypeOK, UNCHANGED <<status, events, payload, leaseVars, drainVars, effectVars>>,
         aborts' \in 0..MaxAborts, NEW h \in Handlers,
         NEW next \in {"idle", "checked", "loaded", "decided", "recorded"},
         pc' = [pc EXCEPT ![h] = next],
         NEW r \in Requests \cup {NoRequest}, req' = [req EXCEPT ![h] = r]
  PROVE  TypeOK'
BY DEF TypeOK, Requests, leaseVars, drainVars, effectVars

\* A handler that only moves between its reads, or ends, disturbs nothing.
LEMMA HandlerMoves ==
  ASSUME IInv, UNCHANGED <<status, events, payload, leaseVars, drainVars, effectVars>>,
         aborts' \in 0..MaxAborts, NEW h \in Handlers,
         NEW next \in {"idle", "checked", "loaded"}, pc' = [pc EXCEPT ![h] = next],
         NEW r \in Requests \cup {NoRequest}, req' = [req EXCEPT ![h] = r],
         next # "idle" => r \in Requests
  PROVE  IInv'
<1>1. TypeOK'
  BY TypeOfHandler DEF IInv
<1>2. pc'[h] = next /\ req'[h] = r /\ \A g \in Handlers \ {h} : pc'[g] = pc[g] /\ req'[g] = req[g]
  BY DEF IInv, TypeOK
<1>3. \A g \in Handlers : HandlerInv(g)'
  BY <1>2 DEF IInv, HandlerInv, Undecided, Jobless
<1>4. OneDecider'
  BY <1>2 DEF IInv, OneDecider, Deciding
<1>5. (\A e \in Entities : EntityInv(e)') /\ JobInv' /\ \A d \in Drainers : DrainerInv(d)'
  BY DEF IInv, EntityInv, JobInv, DrainerInv, Undecided, Jobless, leaseVars, drainVars, effectVars
<1> QED BY <1>1, <1>3, <1>4, <1>5 DEF IInv

LEMMA LoadInv ==
  ASSUME IInv, NEW h \in Handlers, NEW e \in Entities, NEW to \in Decided, NEW typed \in BOOLEAN,
         Load(h, e, to, typed)
  PROVE  IInv'
<1> DEFINE r == [entity |-> e, to |-> to, seen |-> status[e]]
           next == IF h \in Bots /\ to = "approved" THEN "checked" ELSE "loaded"
<1>1. r \in Requests /\ next \in {"idle", "checked", "loaded"}
  BY DEF Load, Requests
<1>2. pc' = [pc EXCEPT ![h] = next] /\ req' = [req EXCEPT ![h] = r]
  BY DEF Load
<1>3. UNCHANGED <<status, events, payload, leaseVars, drainVars, effectVars>> /\ aborts' \in 0..MaxAborts
  BY DEF Load, entityVars, IInv, TypeOK
<1> HIDE DEF r, next
<1> QED BY <1>1, <1>2, <1>3, HandlerMoves

LEMMA ReplyInv ==
  ASSUME IInv, NEW h \in Handlers, Reply(h), aborts' \in 0..MaxAborts,
         UNCHANGED <<status, events, payload, leaseVars, drainVars, effectVars>>
  PROVE  IInv'
BY HandlerMoves DEF Reply

LEMMA ReloadInv ==
  ASSUME IInv, NEW h \in Handlers, Reload(h)
  PROVE  IInv'
<1> DEFINE e == req[h].entity
           r == [req[h] EXCEPT !.seen = status[e]]
<1>1. UNCHANGED <<status, events, payload, leaseVars, drainVars, effectVars>> /\ aborts' \in 0..MaxAborts
  BY DEF Reload, entityVars, IInv, TypeOK
<1>2. CASE status[e] \in PENDING_STATUSES
  <2>1. req[h] \in Requests
    BY DEF Reload, IInv, HandlerInv
  <2>2. r \in Requests
    BY <1>2, <2>1 DEF Requests
  <2>3. pc' = [pc EXCEPT ![h] = "loaded"] /\ req' = [req EXCEPT ![h] = r]
    BY <1>2 DEF Reload
  <2> HIDE DEF r
  <2> QED BY <1>1, <2>2, <2>3, HandlerMoves
<1>3. CASE status[e] \notin PENDING_STATUSES
  BY <1>1, <1>3, ReplyInv DEF Reload
<1> QED BY <1>2, <1>3

LEMMA AbortInv ==
  ASSUME IInv, NEW h \in Handlers, Abort(h)
  PROVE  IInv'
<1>1. aborts' \in 0..MaxAborts
  BY ApprovalAssumption DEF Abort, IInv, TypeOK
<1> QED BY <1>1, ReplyInv DEF Abort, entityVars
-----------------------------------------------------------------------------
(* The three statements that resolve an entity. *)

\* The compare-and-swap succeeds on a pending row only, so for one handler only.
LEMMA CasMatchesPending ==
  ASSUME TypeOK, NEW h \in Handlers, req[h] \in Requests, CasMatches(h, req[h].entity)
  PROVE  status[req[h].entity] \in PENDING_STATUSES
BY DEF CasMatches, Requests

LEMMA CasInv ==
  ASSUME IInv, NEW h \in Handlers, Cas(h)
  PROVE  IInv'
<1> DEFINE e == req[h].entity
           to == req[h].to
<1>1. /\ UNCHANGED <<events, aborts, payload, leaseVars, drainVars, effectVars>>
      /\ pc[h] = "loaded" /\ req[h] \in Requests /\ e \in Entities /\ to \in Decided
  BY DEF Cas, IInv, HandlerInv, Requests
<1>2. CASE ~ CasMatches(h, e)
  <2>1. Reply(h) /\ UNCHANGED status
    BY <1>2 DEF Cas
  <2> QED BY <1>1, <2>1, ReplyInv DEF IInv, TypeOK
<1>3. CASE CasMatches(h, e)
  <2>1. /\ status' = [status EXCEPT ![e] = to] /\ pc' = [pc EXCEPT ![h] = "decided"]
        /\ UNCHANGED req
    BY <1>3 DEF Cas
  <2>2. status[e] \in PENDING_STATUSES
    BY <1>1, <1>3, CasMatchesPending DEF IInv
  <2>3. "approved" \notin PENDING_STATUSES /\ "rejected" \notin PENDING_STATUSES
    BY DEF PENDING_STATUSES
  <2>4. Undecided(e) /\ Jobless(e)
    BY <1>1, <2>2, <2>3 DEF IInv, EntityInv
  <2>5. \A g \in Handlers \ {h} : Deciding(g) => req[g].entity # e
    <3> SUFFICES ASSUME NEW g \in Handlers \ {h}, Deciding(g), req[g].entity = e
                 PROVE  status[e] \in Decided
      BY <2>2, <2>3 DEF Decided
    <3> QED BY DEF IInv, HandlerInv, Deciding, Requests
  <2>6. TypeOK'
    <3>1. status' \in [Entities -> PENDING_STATUSES \cup Decided]
      BY <1>1, <2>1 DEF IInv, TypeOK
    <3>2. pc' \in [Handlers -> {"idle", "checked", "loaded", "decided", "recorded"}]
      BY <2>1 DEF IInv, TypeOK
    <3> QED BY <1>1, <2>1, <3>1, <3>2 DEF IInv, TypeOK, leaseVars, drainVars, effectVars
  <2>7. pc'[h] = "decided" /\ status'[e] = to
        /\ (\A g \in Handlers \ {h} : pc'[g] = pc[g])
        /\ \A n \in Entities \ {e} : status'[n] = status[n]
    BY <1>1, <2>1 DEF IInv, TypeOK
  <2>8. HandlerInv(h)'
    BY <1>1, <2>1, <2>4, <2>7 DEF HandlerInv, Undecided, Jobless
  <2>9. ASSUME NEW g \in Handlers \ {h}
        PROVE  HandlerInv(g)'
    <3>1. Deciding(g) => req[g].entity \in Entities \ {e}
      BY <2>5 DEF IInv, HandlerInv, Deciding, Requests
    <3> QED BY <1>1, <2>1, <2>7, <3>1 DEF IInv, HandlerInv, Deciding, Undecided, Jobless
  <2>10. OneDecider'
    BY <2>1, <2>5, <2>7 DEF IInv, OneDecider, Deciding
  <2>11. ASSUME NEW n \in Entities
         PROVE  EntityInv(n)'
    <3>1. CASE n = e
      <4>1. events[e]["approved"] = 0 /\ events[e]["rejected"] = 0
        BY <1>1, <2>4, Undecidedness DEF IInv
      <4>2. status'[e] \notin PENDING_STATUSES
        BY <1>1, <2>3, <2>7 DEF Decided
      <4>3. launched[e] > 0 \/ e \in told => ~ Jobless(e)
        BY <1>1 DEF IInv, EntityInv
      <4> QED BY <1>1, <2>4, <3>1, <4>1, <4>2, <4>3 DEF EntityInv, Jobless, Decided, effectVars
    <3>2. CASE n # e
      BY <1>1, <2>7, <3>2 DEF IInv, EntityInv, Undecided, Jobless, effectVars
    <3> QED BY <3>1, <3>2
  <2>12. JobInv' /\ \A d \in Drainers : DrainerInv(d)'
    BY <1>1 DEF IInv, JobInv, DrainerInv, leaseVars, drainVars
  <2> QED BY <2>6, <2>8, <2>9, <2>10, <2>11, <2>12 DEF IInv
<1> QED BY <1>2, <1>3

LEMMA EmitInv ==
  ASSUME IInv, NEW h \in Handlers, Emit(h)
  PROVE  IInv'
<1> DEFINE e == req[h].entity
           to == req[h].to
<1>1. /\ UNCHANGED <<status, aborts, payload, leaseVars, drainVars, effectVars>>
      /\ pc[h] = "decided" /\ req[h] \in Requests /\ e \in Entities /\ to \in Decided
      /\ events' = [events EXCEPT ![e] = [events[e] EXCEPT ![to] = events[e][to] + 1]]
      /\ status[e] = to /\ Undecided(e) /\ Jobless(e)
  BY DEF Emit, IInv, HandlerInv, Requests
<1>2. /\ events' \in [Entities -> [Decided -> Nat]]
      /\ events'[e][to] = 1 /\ \A t \in Decided \ {to} : events'[e][t] = 0
      /\ \A n \in Entities \ {e} : events'[n] = events[n]
  BY <1>1 DEF IInv, TypeOK, Undecided
<1>3. \A g \in Handlers \ {h} : Deciding(g) => req[g].entity # e
  BY <1>1 DEF IInv, OneDecider, Deciding
<1>4. /\ pc' \in [Handlers -> {"idle", "checked", "loaded", "decided", "recorded"}]
      /\ \A g \in Handlers \ {h} : pc'[g] = pc[g] /\ req'[g] = req[g]
      /\ \/ to = "approved" /\ pc'[h] = "recorded" /\ req' = req
         \/ to # "approved" /\ pc'[h] = "idle" /\ req' = [req EXCEPT ![h] = NoRequest]
  BY DEF Emit, Reply, IInv, TypeOK
<1>5. TypeOK'
  <2>1. req' \in [Handlers -> [entity : Entities, to : Decided,
                               seen : PENDING_STATUSES] \cup {NoRequest}]
    BY <1>4 DEF IInv, TypeOK
  <2> QED BY <1>1, <1>2, <1>4, <2>1 DEF IInv, TypeOK, leaseVars, drainVars, effectVars
<1>6. HandlerInv(h)'
  BY <1>1, <1>2, <1>4 DEF HandlerInv, Jobless
<1>7. ASSUME NEW g \in Handlers \ {h}
      PROVE  HandlerInv(g)'
  <2>1. Deciding(g) => req[g].entity \in Entities \ {e}
    BY <1>3 DEF IInv, HandlerInv, Deciding, Requests
  <2> QED BY <1>1, <1>2, <1>4, <2>1 DEF IInv, HandlerInv, Deciding, Undecided, Jobless
<1>8. OneDecider'
  BY <1>3, <1>4 DEF IInv, OneDecider, Deciding
<1>9. ASSUME NEW n \in Entities
      PROVE  EntityInv(n)'
  <2>1. CASE n = e
    <3>1. status'[e] \notin PENDING_STATUSES
      BY <1>1 DEF Decided, PENDING_STATUSES
    <3>2. events'[e]["approved"] + events'[e]["rejected"] <= 1
      BY <1>1, <1>2 DEF Decided
    <3>3. \A t \in Decided : events'[e][t] > 0 => status'[e] = t
      BY <1>1, <1>2
    <3>4. launched[e] > 0 \/ e \in told => ~ Jobless(e)
      BY <1>1 DEF IInv, EntityInv
    <3> QED BY <1>1, <2>1, <3>1, <3>2, <3>3, <3>4 DEF EntityInv, Jobless, effectVars
  <2>2. CASE n # e
    BY <1>1, <1>2, <2>2 DEF IInv, EntityInv, Undecided, Jobless, effectVars
  <2> QED BY <2>1, <2>2
<1>10. JobInv' /\ \A d \in Drainers : DrainerInv(d)'
  BY <1>1 DEF IInv, JobInv, DrainerInv, leaseVars, drainVars
<1> QED BY <1>5, <1>6, <1>7, <1>8, <1>9, <1>10 DEF IInv

LEMMA EnqueueInv ==
  ASSUME IInv, NEW h \in Handlers, Enqueue(h)
  PROVE  IInv'
<1> DEFINE e == req[h].entity
<1>1. PICK j \in Jobs :
        /\ phase[j] = "new" /\ phase' = [phase EXCEPT ![j] = "waiting"]
        /\ payload' = [payload EXCEPT ![j] = e]
  BY DEF Enqueue, Lease!Submit
<1>2. /\ UNCHANGED <<owner, tries, status, events, aborts, drainVars, effectVars>>
      /\ Reply(h) /\ pc[h] = "recorded" /\ req[h] \in Requests /\ e \in Entities
      /\ status[e] = "approved" /\ events[e]["approved"] = 1 /\ Jobless(e)
  BY DEF Enqueue, Lease!Submit, IInv, HandlerInv, Requests, entityVars
<1>3. e # None /\ payload[j] = None
  BY <1>1, <1>2, ApprovalAssumption DEF IInv, JobInv
<1>4. /\ payload' \in [Jobs -> Entities \cup {None}]
      /\ payload'[j] = e /\ \A k \in Jobs \ {j} : payload'[k] = payload[k] /\ payload[k] # e
  BY <1>1, <1>2 DEF IInv, TypeOK, Jobless
<1>5. \A g \in Handlers \ {h} : Deciding(g) => req[g].entity # e
  BY <1>2 DEF IInv, OneDecider, Deciding
<1>6. /\ pc' = [pc EXCEPT ![h] = "idle"] /\ req' = [req EXCEPT ![h] = NoRequest]
      /\ pc'[h] = "idle" /\ \A g \in Handlers \ {h} : pc'[g] = pc[g] /\ req'[g] = req[g]
  BY <1>2 DEF Reply, IInv, TypeOK
<1>7. TypeOK'
  <2>1. phase' \in [Jobs -> {"new", "waiting", "leased", "done", "failed"}]
    BY <1>1 DEF IInv, TypeOK
  <2>2. /\ pc' \in [Handlers -> {"idle", "checked", "loaded", "decided", "recorded"}]
        /\ req' \in [Handlers -> [entity : Entities, to : Decided,
                                  seen : PENDING_STATUSES] \cup {NoRequest}]
    BY <1>6 DEF IInv, TypeOK
  <2> QED BY <1>2, <1>4, <2>1, <2>2 DEF IInv, TypeOK, drainVars, effectVars
<1>8. \A n \in Entities \ {e} : Jobless(n) <=> Jobless(n)'
  BY <1>1, <1>3, <1>4, ApprovalAssumption DEF Jobless
<1>9. ASSUME NEW g \in Handlers
      PROVE  HandlerInv(g)'
  <2>1. CASE g = h
    BY <1>6, <2>1 DEF HandlerInv
  <2>2. CASE g # h
    <3>1. Deciding(g) => req[g].entity \in Entities \ {e}
      BY <1>5, <2>2 DEF IInv, HandlerInv, Deciding, Requests
    <3> QED BY <1>2, <1>6, <1>8, <2>2, <3>1 DEF IInv, HandlerInv, Deciding, Undecided
  <2> QED BY <2>1, <2>2
<1>10. OneDecider'
  BY <1>6 DEF IInv, OneDecider, Deciding
<1>11. ASSUME NEW n \in Entities
       PROVE  EntityInv(n)'
  <2>1. CASE n = e
    <3>1. ~ Jobless(n)'
      BY <1>4, <2>1 DEF Jobless
    <3> QED BY <1>2, <2>1, <3>1 DEF IInv, EntityInv, Undecided, PENDING_STATUSES, effectVars
  <2>2. CASE n # e
    BY <1>2, <1>8, <2>2 DEF IInv, EntityInv, Undecided, effectVars
  <2> QED BY <2>1, <2>2
<1>12. JobInv'
  <2>1. \A k \in Jobs : phase'[k] = "new" <=> payload'[k] = None
    BY <1>1, <1>3, <1>4 DEF IInv, JobInv, TypeOK
  <2>2. \A i, k \in Jobs : payload'[i] = payload'[k] /\ payload'[i] # None => i = k
    BY <1>4 DEF IInv, JobInv
  <2> QED BY <2>1, <2>2 DEF JobInv
<1>13. \A d \in Drainers : DrainerInv(d)'
  BY <1>2, <1>3, <1>4 DEF IInv, DrainerInv, drainVars
<1> QED BY <1>7, <1>9, <1>10, <1>11, <1>12, <1>13 DEF IInv
-----------------------------------------------------------------------------
(* The drainers: no statement of theirs touches a decision. *)

\* The leases move as JobLease says: a row that was enqueued stays so.
LEMMA DecisionsStay ==
  ASSUME IInv, UNCHANGED <<entityVars, handlerVars, payload>>, TypeOK',
         \A j \in Jobs : phase'[j] = "new" <=> phase[j] = "new",
         \A d \in Drainers : DrainerInv(d)',
         \A e \in Entities : launched'[e] > 0 \/ e \in told' =>
                               launched[e] > 0 \/ e \in told \/ ~ Jobless(e)
  PROVE  IInv'
<1>1. \A h \in Handlers : HandlerInv(h)'
  BY DEF IInv, HandlerInv, Undecided, Jobless, entityVars, handlerVars
<1>2. OneDecider'
  BY DEF IInv, OneDecider, Deciding, handlerVars
<1>3. \A e \in Entities : EntityInv(e)'
  BY DEF IInv, EntityInv, Undecided, Jobless, entityVars
<1>4. JobInv'
  BY DEF IInv, JobInv
<1> QED BY <1>1, <1>2, <1>3, <1>4 DEF IInv

LEMMA ClaimInv ==
  ASSUME IInv, NEW d \in Drainers, NEW j \in Jobs, Claim(d, j)
  PROVE  IInv'
<1>1. /\ phase[j] = "waiting" /\ phase' = [phase EXCEPT ![j] = "leased"]
      /\ owner' = [owner EXCEPT ![j] = d] /\ tries' = [tries EXCEPT ![j] = tries[j] + 1]
      /\ step' = [step EXCEPT ![d] = "claimed"] /\ running' = [running EXCEPT ![d] = j]
      /\ UNCHANGED <<entityVars, handlerVars, payload, faults, effectVars>>
  BY DEF Claim, Lease!Grant
<1>2. TypeOK'
  BY <1>1 DEF IInv, TypeOK, entityVars, handlerVars, effectVars
<1>3. \A k \in Jobs : phase'[k] = "new" <=> phase[k] = "new"
  BY <1>1 DEF IInv, TypeOK
<1>4. \A g \in Drainers : DrainerInv(g)'
  BY <1>1 DEF IInv, TypeOK, DrainerInv, JobInv
<1> QED BY <1>1, <1>2, <1>3, <1>4, DecisionsStay DEF effectVars

\* A drainer that is at work has the row of an entity.
LEMMA AtWork ==
  ASSUME IInv, NEW d \in Drainers, step[d] # "idle"
  PROVE  /\ running[d] \in Jobs /\ payload[running[d]] \in Entities
         /\ ~ Jobless(payload[running[d]])
BY DEF IInv, TypeOK, DrainerInv, Jobless

LEMMA StartResumeInv ==
  ASSUME IInv, NEW d \in Drainers, StartResume(d)
  PROVE  IInv'
<1> DEFINE e == payload[running[d]]
<1>1. /\ step[d] = "claimed" /\ step' = [step EXCEPT ![d] = "resuming"]
      /\ launched' = [launched EXCEPT ![e] = launched[e] + 1]
      /\ UNCHANGED <<entityVars, handlerVars, payload, leaseVars, running, faults, shrugs, resumed, told>>
  BY DEF StartResume
<1>2. e \in Entities /\ ~ Jobless(e)
  BY <1>1, AtWork
<1>3. TypeOK'
  BY <1>1, <1>2 DEF IInv, TypeOK, entityVars, handlerVars, leaseVars
<1>4. \A g \in Drainers : DrainerInv(g)'
  BY <1>1 DEF IInv, TypeOK, DrainerInv
<1>5. \A n \in Entities : launched'[n] > 0 => launched[n] > 0 \/ ~ Jobless(n)
  BY <1>1, <1>2 DEF IInv, TypeOK
<1> QED BY <1>1, <1>3, <1>4, <1>5, DecisionsStay DEF leaseVars

LEMMA EndResumeInv ==
  ASSUME IInv, NEW d \in Drainers, NEW ok \in BOOLEAN, EndResume(d, ok)
  PROVE  IInv'
<1> DEFINE e == payload[running[d]]
<1>1. /\ step[d] = "resuming" /\ step' = [step EXCEPT ![d] = IF ok THEN "done" ELSE "failed"]
      /\ resumed' = IF ok THEN resumed \cup {e} ELSE resumed
      /\ UNCHANGED <<entityVars, handlerVars, payload, leaseVars, running, faults, launched, shrugs, told>>
  BY DEF EndResume
<1>2. e \in Entities
  BY <1>1, AtWork
<1>3. TypeOK'
  BY <1>1, <1>2 DEF IInv, TypeOK, entityVars, handlerVars, leaseVars
<1>4. \A g \in Drainers : DrainerInv(g)'
  BY <1>1 DEF IInv, TypeOK, DrainerInv
<1> QED BY <1>1, <1>3, <1>4, DecisionsStay DEF leaseVars

LEMMA NoResumeInv ==
  ASSUME IInv, NEW d \in Drainers, NoResume(d)
  PROVE  IInv'
<1> DEFINE e == payload[running[d]]
           outcome == classify_non_build_approval(e)
<1>1. /\ step[d] = "claimed" /\ step' = [step EXCEPT ![d] = outcome]
      /\ told' = IF outcome = "failed" THEN told \cup {e} ELSE told
      /\ outcome \in {"done", "failed"}
      /\ shrugs' = IF BuildGate(e) THEN [shrugs EXCEPT ![e] = shrugs[e] + 1] ELSE shrugs
      /\ UNCHANGED <<entityVars, handlerVars, payload, leaseVars, running, faults, launched, resumed>>
  BY DEF NoResume, classify_non_build_approval
<1>2. e \in Entities /\ ~ Jobless(e)
  BY <1>1, AtWork
<1> HIDE DEF outcome
<1>3. TypeOK'
  BY <1>1, <1>2 DEF IInv, TypeOK, entityVars, handlerVars, leaseVars
<1>4. \A g \in Drainers : DrainerInv(g)'
  BY <1>1 DEF IInv, TypeOK, DrainerInv
<1>5. \A n \in Entities : n \in told' => n \in told \/ ~ Jobless(n)
  BY <1>1, <1>2
<1> QED BY <1>1, <1>3, <1>4, <1>5, DecisionsStay DEF leaseVars

\* How a lease ends, if the drainer still holds it.
LEMMA FinishLease ==
  ASSUME IInv, NEW d \in Drainers, Finish(d)
  PROVE  /\ running[d] \in Jobs /\ step[d] \in {"done", "failed"}
         /\ \/ phase' = [phase EXCEPT ![running[d]] = step[d]] /\ phase[running[d]] = "leased"
            \/ phase' = phase
         /\ owner' \in [Jobs -> Drainers \cup {None}] /\ tries' = tries
<1> DEFINE j == running[d]
<1>1. step[d] \in {"done", "failed"} /\ j \in Jobs
  BY AtWork DEF Finish
<1>2. CASE phase[j] = "leased" /\ owner[j] = d
  BY <1>1, <1>2 DEF Finish, Lease!Resolve, IInv, TypeOK
<1>3. CASE ~ (phase[j] = "leased" /\ owner[j] = d)
  BY <1>1, <1>3 DEF Finish, leaseVars, IInv, TypeOK
<1> QED BY <1>2, <1>3

LEMMA FinishInv ==
  ASSUME IInv, NEW d \in Drainers, Finish(d)
  PROVE  IInv'
<1>1. /\ step' = [step EXCEPT ![d] = "idle"] /\ running' = [running EXCEPT ![d] = None]
      /\ UNCHANGED <<entityVars, handlerVars, payload, faults, effectVars>>
  BY DEF Finish, GoIdle
<1>2. phase' \in [Jobs -> {"new", "waiting", "leased", "done", "failed"}]
      /\ \A k \in Jobs : phase'[k] = "new" <=> phase[k] = "new"
  <2>1. CASE phase' = phase
    BY <2>1 DEF IInv, TypeOK
  <2>2. CASE phase' = [phase EXCEPT ![running[d]] = step[d]] /\ phase[running[d]] = "leased"
    <3>1. running[d] \in Jobs /\ step[d] \in {"done", "failed"}
      BY FinishLease
    <3> QED BY <2>2, <3>1 DEF IInv, TypeOK
  <2> QED BY <2>1, <2>2, FinishLease
<1>3. TypeOK'
  <2>1. owner' \in [Jobs -> Drainers \cup {None}] /\ tries' = tries
    BY FinishLease
  <2>2. /\ step' \in [Drainers -> {"idle", "claimed", "resuming", "done", "failed"}]
        /\ running' \in [Drainers -> Jobs \cup {None}]
    BY <1>1 DEF IInv, TypeOK
  <2> QED BY <1>1, <1>2, <2>1, <2>2 DEF IInv, TypeOK, entityVars, handlerVars, effectVars
<1>4. \A g \in Drainers : DrainerInv(g)'
  BY <1>1 DEF IInv, TypeOK, DrainerInv
<1> QED BY <1>1, <1>2, <1>3, <1>4, DecisionsStay DEF effectVars

LEMMA DieInv ==
  ASSUME IInv, NEW d \in Drainers, Die(d)
  PROVE  IInv'
<1>1. /\ step' = [step EXCEPT ![d] = "idle"] /\ running' = [running EXCEPT ![d] = None]
      /\ faults < MaxFaults /\ faults' = faults + 1
      /\ UNCHANGED <<entityVars, handlerVars, payload, leaseVars, effectVars>>
  BY DEF Die, GoIdle
<1>2. TypeOK'
  BY <1>1, ApprovalAssumption DEF IInv, TypeOK, entityVars, handlerVars, leaseVars, effectVars
<1>3. \A g \in Drainers : DrainerInv(g)'
  BY <1>1 DEF IInv, TypeOK, DrainerInv
<1> QED BY <1>1, <1>2, <1>3, DecisionsStay DEF leaseVars, effectVars

\* What a reap makes of the rows it takes.
LEMMA ReapPhases ==
  ASSUME IInv, NEW d \in Drainers, NEW S \in SUBSET Jobs, Reap(d, S)
  PROVE  /\ phase' \in [Jobs -> {"new", "waiting", "leased", "done", "failed"}]
         /\ owner' \in [Jobs -> Drainers \cup {None}] /\ tries' = tries
         /\ \A k \in Jobs : \/ phase'[k] = phase[k]
                            \/ phase[k] = "leased" /\ phase'[k] \in {"waiting", "failed"}
<1>1. /\ \A k \in S : phase[k] = "leased"
      /\ phase' = [k \in Jobs |->
                     IF k \in S THEN IF tries[k] < MaxAttempts THEN "waiting" ELSE "failed"
                                ELSE phase[k]]
      /\ owner' = [k \in Jobs |-> IF k \in S THEN None ELSE owner[k]]
      /\ tries' = tries
  BY DEF Reap, Lease!Revoke
<1>2. /\ phase \in [Jobs -> {"new", "waiting", "leased", "done", "failed"}]
      /\ owner \in [Jobs -> Drainers \cup {None}]
  BY DEF IInv, TypeOK
<1> QED BY <1>1, <1>2

LEMMA ReapInv ==
  ASSUME IInv, NEW d \in Drainers, NEW S \in SUBSET Jobs, Reap(d, S)
  PROVE  IInv'
<1>1. UNCHANGED <<entityVars, handlerVars, payload, drainVars, effectVars>>
  BY DEF Reap
<1>2. TypeOK'
  BY <1>1, ReapPhases DEF IInv, TypeOK, entityVars, handlerVars, drainVars, effectVars
<1>3. \A k \in Jobs : phase'[k] = "new" <=> phase[k] = "new"
  BY ReapPhases
<1>4. \A g \in Drainers : DrainerInv(g)'
  BY <1>1 DEF IInv, DrainerInv, drainVars
<1> QED BY <1>1, <1>2, <1>3, <1>4, DecisionsStay DEF effectVars

LEMMA StutterInv == IInv /\ UNCHANGED vars => IInv'
BY DEF IInv, TypeOK, HandlerInv, OneDecider, Deciding, EntityInv, JobInv, DrainerInv, Undecided,
       Jobless, vars, entityVars, handlerVars, leaseVars, drainVars, effectVars

LEMMA NextIInv == IInv /\ [Next]_vars => IInv'
<1> SUFFICES ASSUME IInv, [Next]_vars
             PROVE  IInv'
  OBVIOUS
<1>1. ASSUME NEW h \in Handlers, NEW e \in Entities, NEW to \in Decided,
             NEW typed \in IF e \in TypedConfirm THEN BOOLEAN ELSE {FALSE}, Load(h, e, to, typed)
      PROVE  IInv'
  BY <1>1, LoadInv
<1>2. ASSUME NEW h \in Handlers, HandlerStep(h) \/ Abort(h)
      PROVE  IInv'
  BY <1>2, ReloadInv, CasInv, EmitInv, EnqueueInv, AbortInv DEF HandlerStep
<1>3. ASSUME NEW d \in Drainers, (\E j \in Jobs : Claim(d, j)) \/ DrainerStep(d) \/ Die(d)
      PROVE  IInv'
  BY <1>3, ClaimInv, StartResumeInv, EndResumeInv, NoResumeInv, FinishInv, DieInv DEF DrainerStep
<1>4. ASSUME NEW d \in Drainers, NEW S \in SUBSET Jobs, Reap(d, S)
      PROVE  IInv'
  BY <1>4, ReapInv
<1>5. CASE UNCHANGED vars
  BY <1>5, StutterInv
<1> QED BY <1>1, <1>2, <1>3, <1>4, <1>5 DEF Next
-----------------------------------------------------------------------------
(* Every run of a gate's job is accounted for. *)

\* A job that was enqueued has an entity of its own.
LEMMA OwnEntity ==
  ASSUME IInv
  PROVE  /\ \A j \in Jobs : phase[j] # "new" => payload[j] \in Entities
         /\ \A i, j \in Jobs : phase[i] # "new" /\ payload[i] = payload[j] => i = j
         /\ \A d \in Drainers : step[d] # "idle" =>
              running[d] \in Jobs /\ phase[running[d]] # "new"
BY DEF IInv, TypeOK, JobInv, DrainerInv

\* A step that grants nothing and uses up nothing keeps the count.
LEMMA CountStays ==
  ASSUME IInv, CountInv, UNCHANGED <<payload, tries, launched, shrugs>>,
         \A j \in Jobs : phase'[j] = "new" <=> phase[j] = "new",
         \A d \in Drainers : step'[d] = "claimed" => step[d] = "claimed" /\ running'[d] = running[d]
  PROVE  CountInv'
<1>1. ASSUME NEW j \in Jobs, phase'[j] # "new"
      PROVE  /\ IsFiniteSet(Holding(j)')
             /\ launched'[payload'[j]] + shrugs'[payload'[j]] + Cardinality(Holding(j)') <= tries'[j]
  <2>1. IsFiniteSet(Holding(j)) /\ Spent(payload[j]) + Cardinality(Holding(j)) <= tries[j]
    BY <1>1 DEF CountInv
  <2>2. Holding(j)' \subseteq Holding(j)
    BY DEF Holding
  <2>3. IsFiniteSet(Holding(j)') /\ Cardinality(Holding(j)') <= Cardinality(Holding(j))
    BY <2>1, <2>2, FS_Subset
  <2>4. Cardinality(Holding(j)') \in Nat /\ Cardinality(Holding(j)) \in Nat
    BY <2>1, <2>3, FS_CardinalityType
  <2>5. /\ launched'[payload'[j]] + shrugs'[payload'[j]] = Spent(payload[j])
        /\ Spent(payload[j]) \in Nat /\ tries[j] \in Nat
    BY <1>1, OwnEntity DEF IInv, TypeOK, Spent
  <2> QED BY <2>1, <2>3, <2>4, <2>5
<1> QED BY <1>1 DEF CountInv, Spent, Jobless

\* A drainer that uses up the grant it holds.
LEMMA CountUsed ==
  ASSUME IInv, CountInv, NEW d \in Drainers, step[d] = "claimed",
         UNCHANGED <<payload, tries, phase, running>>,
         step' = [step EXCEPT ![d] = step'[d]], step'[d] # "claimed",
         launched' \in [Entities -> Nat], shrugs' \in [Entities -> Nat],
         \A e \in Entities : Spent(e)' = Spent(e) \/ (e = payload[running[d]] /\ Spent(e)' = Spent(e) + 1),
         \A e \in Entities : shrugs'[e] > 0 => shrugs[e] > 0 \/ ~ Jobless(e)
  PROVE  CountInv'
<1>1. ASSUME NEW j \in Jobs, phase[j] # "new"
      PROVE  /\ IsFiniteSet(Holding(j)')
             /\ launched'[payload'[j]] + shrugs'[payload'[j]] + Cardinality(Holding(j)') <= tries[j]
  <2>1. IsFiniteSet(Holding(j)) /\ Spent(payload[j]) + Cardinality(Holding(j)) <= tries[j]
    BY <1>1 DEF CountInv
  <2>2. Holding(j)' = Holding(j) \ {d}
    BY DEF Holding, IInv, TypeOK
  <2>3. /\ IsFiniteSet(Holding(j)')
        /\ Cardinality(Holding(j)') = IF d \in Holding(j) THEN Cardinality(Holding(j)) - 1
                                                          ELSE Cardinality(Holding(j))
    BY <2>1, <2>2, FS_RemoveElement
  <2>4. Cardinality(Holding(j)') \in Nat /\ Cardinality(Holding(j)) \in Nat
    BY <2>1, <2>3, FS_CardinalityType
  <2>5. payload[j] \in Entities /\ Spent(payload[j]) \in Nat /\ tries[j] \in Nat
    BY <1>1, OwnEntity DEF IInv, TypeOK, Spent
  <2>6. payload[j] = payload[running[d]] => d \in Holding(j)
    BY <1>1, OwnEntity DEF Holding
  <2>7. /\ launched'[payload'[j]] + shrugs'[payload'[j]] = Spent(payload[j])'
        /\ \/ Spent(payload[j])' = Spent(payload[j])
           \/ payload[j] = payload[running[d]] /\ Spent(payload[j])' = Spent(payload[j]) + 1
    <3>1. \A e \in Entities : Spent(e)' = launched'[e] + shrugs'[e]
      BY DEF Spent
    <3> QED BY <2>5, <3>1
  <2> QED BY <2>1, <2>3, <2>4, <2>5, <2>6, <2>7
<1> QED BY <1>1 DEF CountInv, Spent, Jobless

LEMMA CountEnqueued ==
  ASSUME IInv, CountInv, NEW h \in Handlers, Enqueue(h)
  PROVE  CountInv'
<1>1. PICK i \in Jobs : /\ phase[i] = "new" /\ phase' = [phase EXCEPT ![i] = "waiting"]
                        /\ payload' = [payload EXCEPT ![i] = req[h].entity]
  BY DEF Enqueue, Lease!Submit
<1>2. UNCHANGED <<tries, step, running, launched, shrugs>>
  BY DEF Enqueue, drainVars, effectVars, Lease!Submit
<1>3. req[h].entity \in Entities /\ Jobless(req[h].entity)
  BY DEF Enqueue, IInv, HandlerInv, Requests
<1>4. ASSUME NEW j \in Jobs, phase'[j] # "new"
      PROVE  /\ IsFiniteSet(Holding(j)')
             /\ launched[payload'[j]] + shrugs[payload'[j]] + Cardinality(Holding(j)') <= tries[j]
  <2>1. CASE j = i
    <3>1. Holding(j)' = {}
      BY <1>1, <1>2, <2>1, OwnEntity DEF Holding
    <3>2. payload'[j] = req[h].entity
      BY <1>1, <2>1 DEF IInv, TypeOK
    <3>3. launched[req[h].entity] = 0 /\ shrugs[req[h].entity] = 0 /\ tries[j] \in Nat
      BY <1>3 DEF CountInv, IInv, EntityInv, TypeOK
    <3> QED BY <3>1, <3>2, <3>3, FS_EmptySet
  <2>2. CASE j # i
    <3>1. Holding(j)' = Holding(j) /\ payload'[j] = payload[j] /\ phase[j] # "new"
      BY <1>1, <1>2, <1>4, <2>2 DEF Holding, IInv, TypeOK
    <3> QED BY <3>1 DEF CountInv, Spent
  <2> QED BY <2>1, <2>2
<1>5. ASSUME NEW e \in Entities, shrugs[e] > 0
      PROVE  ~ Jobless(e)'
  <2>1. PICK j \in Jobs : payload[j] = e
    BY <1>5 DEF CountInv, Jobless
  <2>2. payload[i] = None /\ e # None
    BY <1>1, ApprovalAssumption DEF IInv, JobInv
  <2> QED BY <1>1, <2>1, <2>2 DEF IInv, TypeOK, Jobless
<1> QED BY <1>2, <1>4, <1>5 DEF CountInv, Spent

LEMMA CountClaimed ==
  ASSUME IInv, CountInv, NEW d \in Drainers, NEW i \in Jobs, Claim(d, i)
  PROVE  CountInv'
<1>1. /\ phase[i] = "waiting" /\ phase' = [phase EXCEPT ![i] = "leased"]
      /\ tries[i] < MaxAttempts /\ tries' = [tries EXCEPT ![i] = tries[i] + 1]
      /\ step[d] = "idle" /\ step' = [step EXCEPT ![d] = "claimed"]
      /\ running' = [running EXCEPT ![d] = i]
      /\ UNCHANGED <<payload, launched, shrugs>>
  BY DEF Claim, Lease!Grant, effectVars
<1>2. tries \in [Jobs -> Nat]
  BY DEF IInv, TypeOK
<1>3. ASSUME NEW j \in Jobs, phase'[j] # "new"
      PROVE  /\ IsFiniteSet(Holding(j)')
             /\ Spent(payload[j]) + Cardinality(Holding(j)') <= tries'[j]
  <2>1. phase[j] # "new"
    BY <1>1, <1>3 DEF IInv, TypeOK
  <2>2. IsFiniteSet(Holding(j)) /\ Spent(payload[j]) + Cardinality(Holding(j)) <= tries[j]
    BY <2>1 DEF CountInv
  <2>3. Cardinality(Holding(j)) \in Nat /\ Spent(payload[j]) \in Nat
    BY <2>1, <2>2, FS_CardinalityType, OwnEntity DEF IInv, TypeOK, Spent
  <2>4. CASE j = i
    <3>1. Holding(j)' = Holding(j) \cup {d} /\ d \notin Holding(j)
      BY <1>1, <2>4 DEF Holding, IInv, TypeOK
    <3>2. IsFiniteSet(Holding(j)') /\ Cardinality(Holding(j)') = Cardinality(Holding(j)) + 1
      BY <2>2, <3>1, FS_AddElement
    <3> QED BY <1>1, <1>2, <2>2, <2>3, <2>4, <3>2
  <2>5. CASE j # i
    <3>1. Holding(j)' = Holding(j)
      BY <1>1, <2>5 DEF Holding, IInv, TypeOK
    <3> QED BY <1>1, <1>2, <2>2, <2>5, <3>1
  <2> QED BY <2>4, <2>5
<1>4. \A j \in Jobs : tries'[j] <= MaxAttempts
  BY <1>1, <1>2, ApprovalAssumption DEF CountInv
<1> QED BY <1>1, <1>3, <1>4 DEF CountInv, Spent, Jobless

\* A step that ends no job and reports no outcome keeps the reasons.
LEMMA ReasonStays ==
  ASSUME IInv, ReasonInv,
         \A j \in Jobs : payload'[j] = payload[j] \/ phase[j] = "new",
         \A j \in Jobs : phase'[j] \in {"done", "failed"} => phase'[j] = phase[j] /\ tries'[j] = tries[j],
         \A d \in Drainers : step'[d] \in {"resuming", "done", "failed"} =>
                               step'[d] = step[d] /\ running'[d] = running[d],
         \A e \in Entities : launched[e] > 0 => launched'[e] > 0,
         \A e \in Entities : shrugs[e] > 0 => shrugs'[e] > 0, resumed \subseteq resumed',
         step' \in [Drainers -> {"idle", "claimed", "resuming", "done", "failed"}]
  PROVE  ReasonInv'
<1>1. ASSUME NEW d \in Drainers, step'[d] # "idle", BuildGate(payload'[running'[d]])
      PROVE  /\ step'[d] = "done" => \/ payload'[running'[d]] \in resumed'
                                     \/ shrugs'[payload'[running'[d]]] > 0
             /\ step'[d] \in {"resuming", "failed"} => launched'[payload'[running'[d]]] > 0
  <2>1. CASE step'[d] = "claimed"
    BY <2>1
  <2>2. CASE step'[d] \in {"resuming", "done", "failed"}
    <3>1. step[d] = step'[d] /\ running'[d] = running[d] /\ payload'[running[d]] = payload[running[d]]
          /\ payload[running[d]] \in Entities
      BY <2>2, OwnEntity
    <3> QED BY <1>1, <3>1 DEF ReasonInv, DoneFor, BuildGate
  <2> QED BY <1>1, <2>1, <2>2
<1>2. ASSUME NEW j \in Jobs, phase'[j] # "new", BuildGate(payload'[j])
      PROVE  /\ phase'[j] = "done" => payload'[j] \in resumed' \/ shrugs'[payload'[j]] > 0
             /\ phase'[j] = "failed" => launched'[payload'[j]] > 0 \/ tries'[j] = MaxAttempts
  <2>1. CASE phase'[j] \in {"done", "failed"}
    <3>1. phase[j] = phase'[j] /\ tries'[j] = tries[j] /\ payload'[j] = payload[j] /\ payload[j] \in Entities
      BY <2>1, OwnEntity
    <3> QED BY <1>2, <3>1 DEF ReasonInv, DoneFor, BuildGate
  <2> QED BY <2>1
<1> QED BY <1>1, <1>2 DEF ReasonInv, BuildGate, DoneFor

LEMMA NextAccount ==
  ASSUME IInv, IInv', CountInv, ReasonInv, [Next]_vars
  PROVE  CountInv' /\ ReasonInv'
<1>0. step' \in [Drainers -> {"idle", "claimed", "resuming", "done", "failed"}]
  BY DEF IInv, TypeOK
<1>1. ASSUME NEW h \in Handlers, NEW e \in Entities, NEW to \in Decided,
             NEW typed \in IF e \in TypedConfirm THEN BOOLEAN ELSE {FALSE}, Load(h, e, to, typed)
      PROVE  CountInv' /\ ReasonInv'
  BY <1>0, <1>1, CountStays, ReasonStays DEF Load, leaseVars, drainVars, effectVars
<1>2. ASSUME NEW h \in Handlers, Reload(h) \/ Cas(h) \/ Emit(h) \/ Abort(h)
      PROVE  CountInv' /\ ReasonInv'
  BY <1>0, <1>2, CountStays, ReasonStays DEF Reload, Cas, Emit, Abort, leaseVars, drainVars, effectVars
<1>3. ASSUME NEW h \in Handlers, Enqueue(h)
      PROVE  CountInv' /\ ReasonInv'
  <2>1. PICK j \in Jobs : /\ phase[j] = "new" /\ phase' = [phase EXCEPT ![j] = "waiting"]
                          /\ payload' = [payload EXCEPT ![j] = req[h].entity] /\ tries' = tries
    BY <1>3 DEF Enqueue, Lease!Submit
  <2>2. UNCHANGED <<drainVars, effectVars>>
    BY <1>3 DEF Enqueue
  <2>3. ReasonInv'
    BY <1>0, <2>1, <2>2, ReasonStays DEF drainVars, effectVars, IInv, TypeOK
  <2> QED BY <1>3, <2>3, CountEnqueued
<1>4. ASSUME NEW d \in Drainers, NEW j \in Jobs, Claim(d, j)
      PROVE  CountInv' /\ ReasonInv'
  <2>1. /\ phase' = [phase EXCEPT ![j] = "leased"] /\ tries' = [tries EXCEPT ![j] = tries[j] + 1]
        /\ step' = [step EXCEPT ![d] = "claimed"] /\ running' = [running EXCEPT ![d] = j]
        /\ UNCHANGED <<payload, effectVars>>
    BY <1>4 DEF Claim, Lease!Grant
  <2>2. ReasonInv'
    BY <1>0, <2>1, ReasonStays DEF IInv, TypeOK, effectVars
  <2> QED BY <1>4, <2>2, CountClaimed
<1>5. ASSUME NEW d \in Drainers, StartResume(d)
      PROVE  CountInv' /\ ReasonInv'
  <2> DEFINE e == payload[running[d]]
  <2>1. /\ step[d] = "claimed" /\ step' = [step EXCEPT ![d] = "resuming"]
        /\ launched' = [launched EXCEPT ![e] = launched[e] + 1]
        /\ UNCHANGED <<payload, phase, tries, running, shrugs, resumed>>
    BY <1>5 DEF StartResume, leaseVars
  <2>2. e \in Entities /\ launched \in [Entities -> Nat] /\ shrugs \in [Entities -> Nat]
    BY <2>1, AtWork DEF IInv, TypeOK
  <2>3. CountInv'
    <3>1. \A n \in Entities : Spent(n)' = Spent(n) \/ (n = e /\ Spent(n)' = Spent(n) + 1)
      BY <2>1, <2>2 DEF Spent
    <3>2. step'[d] = "resuming" /\ step' = [step EXCEPT ![d] = step'[d]]
      BY <2>1 DEF IInv, TypeOK
    <3>3. launched' \in [Entities -> Nat] /\ shrugs' \in [Entities -> Nat]
      BY <2>1, <2>2
    <3> QED BY <2>1, <3>1, <3>2, <3>3, CountUsed
  <2>4. ReasonInv'
    <3>1. \A n \in Entities : launched[n] > 0 => launched'[n] > 0
      BY <2>1, <2>2
    <3>2. launched'[e] > 0
      BY <2>1, <2>2
    <3>3. \A g \in Drainers : g # d => step'[g] = step[g]
      BY <2>1 DEF IInv, TypeOK
    <3>4. \A g \in Drainers : step[g] # "idle" => payload[running[g]] \in Entities
      BY OwnEntity
    <3>5. \A j \in Jobs : phase[j] # "new" => payload[j] \in Entities
      BY OwnEntity
    <3>6. step'[d] = "resuming"
      BY <2>1 DEF IInv, TypeOK
    <3> QED BY <2>1, <3>1, <3>2, <3>3, <3>4, <3>5, <3>6 DEF ReasonInv, DoneFor, BuildGate
  <2> QED BY <2>3, <2>4
<1>6. ASSUME NEW d \in Drainers, NEW ok \in BOOLEAN, EndResume(d, ok)
      PROVE  CountInv' /\ ReasonInv'
  <2>1. /\ step[d] = "resuming" /\ step' = [step EXCEPT ![d] = IF ok THEN "done" ELSE "failed"]
        /\ resumed' = IF ok THEN resumed \cup {payload[running[d]]} ELSE resumed
        /\ UNCHANGED <<payload, phase, tries, running, launched, shrugs>>
    BY <1>6 DEF EndResume, leaseVars
  <2>2. CountInv'
    BY <2>1, CountStays DEF IInv, TypeOK
  <2>3. ReasonInv'
    <3>1. \A g \in Drainers : g # d => step'[g] = step[g]
      BY <2>1 DEF IInv, TypeOK
    <3>2. step'[d] = IF ok THEN "done" ELSE "failed"
      BY <2>1 DEF IInv, TypeOK
    <3> QED BY <2>1, <3>1, <3>2 DEF ReasonInv, DoneFor, BuildGate
  <2> QED BY <2>2, <2>3
<1>7. ASSUME NEW d \in Drainers, NoResume(d)
      PROVE  CountInv' /\ ReasonInv'
  <2> DEFINE e == payload[running[d]]
  <2>1. /\ step[d] = "claimed" /\ step' = [step EXCEPT ![d] = classify_non_build_approval(e)]
        /\ shrugs' = IF BuildGate(e) THEN [shrugs EXCEPT ![e] = shrugs[e] + 1] ELSE shrugs
        /\ UNCHANGED <<payload, phase, tries, running, launched, resumed>>
    BY <1>7 DEF NoResume, leaseVars
  <2>2. /\ e \in Entities /\ ~ Jobless(e)
        /\ launched \in [Entities -> Nat] /\ shrugs \in [Entities -> Nat]
    BY <2>1, AtWork DEF IInv, TypeOK
  <2>3. /\ step'[d] = classify_non_build_approval(e) /\ step'[d] # "claimed"
        /\ BuildGate(e) => step'[d] = "done"
    BY <2>1 DEF IInv, TypeOK, classify_non_build_approval, BuildGate
  <2>4. /\ \A n \in Entities : n # e => shrugs'[n] = shrugs[n]
        /\ shrugs'[e] = IF BuildGate(e) THEN shrugs[e] + 1 ELSE shrugs[e]
        /\ shrugs' \in [Entities -> Nat]
    BY <2>1, <2>2
  <2>5. CountInv'
    <3>1. \A n \in Entities : Spent(n)' = Spent(n) \/ (n = e /\ Spent(n)' = Spent(n) + 1)
      BY <2>1, <2>2, <2>4 DEF Spent
    <3>2. \A n \in Entities : shrugs'[n] > 0 => shrugs[n] > 0 \/ ~ Jobless(n)
      BY <2>2, <2>4
    <3>3. step' = [step EXCEPT ![d] = step'[d]] /\ launched' \in [Entities -> Nat]
      BY <2>1, <2>2, <2>3
    <3> QED BY <2>1, <2>3, <2>4, <3>1, <3>2, <3>3, CountUsed
  <2>6. ReasonInv'
    <3>1. \A g \in Drainers : g # d => step'[g] = step[g]
      BY <2>1 DEF IInv, TypeOK
    <3>2. \A n \in Entities : shrugs[n] > 0 => shrugs'[n] > 0
      BY <2>2, <2>4
    <3>3. BuildGate(e) => shrugs'[e] > 0 /\ step'[d] = "done"
      BY <2>2, <2>3, <2>4
    <3>4. \A g \in Drainers : step[g] # "idle" => payload[running[g]] \in Entities
      BY OwnEntity
    <3>5. \A j \in Jobs : phase[j] # "new" => payload[j] \in Entities
      BY OwnEntity
    <3> QED BY <2>1, <3>1, <3>2, <3>3, <3>4, <3>5 DEF ReasonInv, DoneFor, BuildGate
  <2> QED BY <2>5, <2>6
<1>8. ASSUME NEW d \in Drainers, Finish(d)
      PROVE  CountInv' /\ ReasonInv'
  <2>1. /\ step' = [step EXCEPT ![d] = "idle"] /\ running' = [running EXCEPT ![d] = None]
        /\ UNCHANGED <<payload, launched, shrugs, resumed>>
    BY <1>8 DEF Finish, GoIdle, effectVars
  <2>2. /\ running[d] \in Jobs /\ step[d] \in {"done", "failed"} /\ tries' = tries
        /\ phase[running[d]] # "new"
        /\ \A j \in Jobs : phase'[j] = phase[j] \/ (j = running[d] /\ phase'[j] = step[d])
    <3>1. running[d] \in Jobs /\ step[d] \in {"done", "failed"} /\ tries' = tries
      BY <1>8, FinishLease
    <3>2. phase[running[d]] # "new"
      BY <3>1, OwnEntity
    <3>3. \A j \in Jobs : phase'[j] = phase[j] \/ (j = running[d] /\ phase'[j] = step[d])
      <4>1. phase' = [phase EXCEPT ![running[d]] = step[d]] \/ phase' = phase
        BY <1>8, FinishLease
      <4> QED BY <3>1, <4>1 DEF IInv, TypeOK
    <3> QED BY <3>1, <3>2, <3>3
  <2>3. \A g \in Drainers : step'[g] # "idle" => step'[g] = step[g] /\ running'[g] = running[g]
    BY <2>1 DEF IInv, TypeOK
  <2>4. CountInv'
    BY <2>1, <2>2, <2>3, CountStays
  <2>5. ReasonInv'
    <3>1. \A g \in Drainers : step'[g] # "idle" /\ BuildGate(payload[running'[g]]) =>
            /\ step'[g] = "done" => DoneFor(payload[running'[g]])
            /\ step'[g] \in {"resuming", "failed"} => launched[payload[running'[g]]] > 0
      BY <2>3 DEF ReasonInv
    <3>2. \A j \in Jobs : phase'[j] # "new" /\ BuildGate(payload[j]) =>
            /\ phase'[j] = "done" => DoneFor(payload[j])
            /\ phase'[j] = "failed" => launched[payload[j]] > 0 \/ tries[j] = MaxAttempts
      BY <2>2 DEF ReasonInv
    <3> QED BY <2>1, <2>2, <3>1, <3>2 DEF ReasonInv, DoneFor, BuildGate
  <2> QED BY <2>4, <2>5
<1>9. ASSUME NEW d \in Drainers, Die(d)
      PROVE  CountInv' /\ ReasonInv'
  <2>1. /\ step' = [step EXCEPT ![d] = "idle"] /\ running' = [running EXCEPT ![d] = None]
        /\ UNCHANGED <<payload, phase, tries, launched, shrugs, resumed>>
    BY <1>9 DEF Die, GoIdle, leaseVars, effectVars
  <2>2. \A g \in Drainers : step'[g] # "idle" => step'[g] = step[g] /\ running'[g] = running[g]
    BY <2>1 DEF IInv, TypeOK
  <2> QED BY <1>0, <2>1, <2>2, CountStays, ReasonStays
<1>10. ASSUME NEW d \in Drainers, NEW S \in SUBSET Jobs, Reap(d, S)
       PROVE  CountInv' /\ ReasonInv'
  <2>1. UNCHANGED <<payload, step, running, launched, shrugs, resumed, tries>>
    BY <1>10, ReapPhases DEF Reap, drainVars, effectVars
  <2>2. \A j \in Jobs : \/ phase'[j] = phase[j]
                        \/ phase[j] = "leased" /\ phase'[j] \in {"waiting", "failed"}
    BY <1>10, ReapPhases
  <2>3. CountInv'
    BY <2>1, <2>2, CountStays
  <2>4. \A j \in Jobs : phase'[j] = "failed" => phase[j] = "failed" \/ tries[j] = MaxAttempts
    <3>1. \A j \in Jobs : tries[j] \in Nat /\ tries[j] <= MaxAttempts
      BY DEF CountInv, IInv, TypeOK
    <3> QED BY <1>10, <3>1, ApprovalAssumption DEF Reap, Lease!Revoke
  <2>5. ReasonInv'
    BY <2>1, <2>2, <2>4 DEF ReasonInv, DoneFor, BuildGate
  <2> QED BY <2>3, <2>5
<1>11. CASE UNCHANGED vars
  BY <1>0, <1>11, CountStays, ReasonStays DEF vars, leaseVars, drainVars, effectVars
<1> QED BY <1>1, <1>2, <1>3, <1>4, <1>5, <1>6, <1>7, <1>8, <1>9, <1>10, <1>11
        DEF Next, HandlerStep, DrainerStep
-----------------------------------------------------------------------------
\* Handlers, rows, leases and drainers keep their types (approval.rs, lib.rs).
THEOREM TypeCorrect == Spec => []TypeOK
<1>1. IInv => TypeOK
  BY DEF IInv
<1> QED BY InitIInv, NextIInv, <1>1, PTL DEF Spec

\* For any number of racing API and Worker handlers: an entity is decided once, and
\* its event says what its row says (approval.rs:13-15).
THEOREM DecidedOnce == Spec => []OneDecision
<1>1. IInv => OneDecision
  BY DEF IInv, EntityInv, OneDecision
<1> QED BY InitIInv, NextIInv, <1>1, PTL DEF Spec

\* For any number of handlers, drainers, deaths and expired leases: what runs or is
\* reported for an entity follows its one approval (approval.rs:108-110).
THEOREM ApprovedOnlyRuns == Spec => []OnlyApprovedRuns
<1>1. IInv => OnlyApprovedRuns
  <2> SUFFICES ASSUME IInv, NEW e \in Entities
               PROVE  /\ Cardinality(JobsOf(e)) <= 1
                      /\ JobsOf(e) # {} \/ launched[e] > 0 \/ e \in told
                           => status[e] = "approved" /\ events[e]["approved"] = 1
    BY DEF OnlyApprovedRuns
  <2>1. Cardinality(JobsOf(e)) <= 1
    <3>1. CASE JobsOf(e) = {}
      BY <3>1, FS_EmptySet
    <3>2. ASSUME NEW j \in JobsOf(e)
          PROVE  Cardinality(JobsOf(e)) <= 1
      <4>1. JobsOf(e) = {j}
        BY ApprovalAssumption DEF IInv, JobInv, JobsOf
      <4> QED BY <4>1, FS_Singleton
    <3> QED BY <3>1, <3>2
  <2>2. JobsOf(e) # {} <=> ~ Jobless(e)
    BY DEF JobsOf, Jobless
  <2> QED BY <2>1, <2>2 DEF IInv, EntityInv
<1> QED BY InitIInv, NextIInv, <1>1, PTL DEF Spec

\* Whichever drainers may resume a gate's build, however many die or lose their
\* leases: no grant of its job starts two builds, and the job ends for a reason
\* (lib.rs:84-120, 650-778).
THEOREM GateRunsAreAccounted == Spec => []GateRunsAccounted
<1>1. Init => CountInv /\ ReasonInv
  BY ApprovalAssumption DEF Init, Lease!Init, CountInv, ReasonInv
<1>2. IInv /\ IInv' /\ CountInv /\ ReasonInv /\ [Next]_vars => CountInv' /\ ReasonInv'
  BY NextAccount
<1>3. IInv /\ CountInv /\ ReasonInv => GateRunsAccounted
  <2> SUFFICES ASSUME IInv, CountInv, ReasonInv, NEW j \in Jobs, phase[j] # "new"
               PROVE  launched[payload[j]] + shrugs[payload[j]] <= tries[j]
    BY DEF GateRunsAccounted, ReasonInv, CountInv, DoneFor
  <2>1. /\ IsFiniteSet(Holding(j))
        /\ launched[payload[j]] + shrugs[payload[j]] + Cardinality(Holding(j)) <= tries[j]
    BY DEF CountInv, Spent
  <2>2. Cardinality(Holding(j)) \in Nat
    BY <2>1, FS_CardinalityType
  <2>3. launched[payload[j]] \in Nat /\ shrugs[payload[j]] \in Nat /\ tries[j] \in Nat
    BY OwnEntity DEF IInv, TypeOK
  <2> QED BY <2>1, <2>2, <2>3
<1> QED BY InitIInv, NextIInv, <1>1, <1>2, <1>3, PTL DEF Spec
-----------------------------------------------------------------------------
(* Finite sets in a line, and the list of one in its order. *)

\* above says for each element of C which others come before it, and puts them in a line.
Lined(C, above) ==
  /\ above \in [C -> SUBSET C]
  /\ \A m \in C : m \notin above[m]
  /\ \A m, n \in C : m = n \/ m \in above[n] \/ n \in above[m]
  /\ \A m, n \in C : n \in above[m] => above[n] \subseteq above[m]

LEMMA Lines ==
  ASSUME NEW C, IsFiniteSet(C), NEW above, Lined(C, above)
  PROVE  /\ \A m \in C : Cardinality(above[m]) \in 0..(Cardinality(C) - 1)
         /\ \A m, n \in C : n \in above[m] <=> Cardinality(above[n]) < Cardinality(above[m])
         /\ \A i \in 0..(Cardinality(C) - 1) : \E m \in C : Cardinality(above[m]) = i
<1> DEFINE c == Cardinality(C)
           f == [m \in C |-> Cardinality(above[m])]
<1>1. c \in Nat
  BY FS_CardinalityType
<1>2. \A m \in C : /\ above[m] \subseteq C /\ IsFiniteSet(above[m]) /\ Cardinality(above[m]) \in Nat
                   /\ Cardinality(above[m]) < c
  <2> SUFFICES ASSUME NEW m \in C
               PROVE  above[m] \subseteq C /\ IsFiniteSet(above[m]) /\ Cardinality(above[m]) \in Nat
                      /\ Cardinality(above[m]) < c
    OBVIOUS
  <2>1. above[m] \subseteq C /\ m \notin above[m]
    BY DEF Lined
  <2>2. IsFiniteSet(above[m]) /\ Cardinality(above[m]) <= c /\ Cardinality(above[m]) \in Nat
    BY <2>1, FS_Subset, FS_CardinalityType
  <2>3. Cardinality(above[m]) # c
    <3>1. c = Cardinality(above[m]) => C = above[m]
      BY <2>1, FS_Subset
    <3> QED
      BY <2>1, <3>1
  <2> QED
    BY <1>1, <2>1, <2>2, <2>3
<1>3. \A m, n \in C : n \in above[m] => Cardinality(above[n]) < Cardinality(above[m])
  <2> SUFFICES ASSUME NEW m \in C, NEW n \in C, n \in above[m]
               PROVE  Cardinality(above[n]) < Cardinality(above[m])
    OBVIOUS
  <2>1. above[n] \subseteq above[m] /\ n \notin above[n]
    BY DEF Lined
  <2>2. Cardinality(above[n]) <= Cardinality(above[m])
    BY <1>2, <2>1, FS_Subset
  <2>3. Cardinality(above[n]) # Cardinality(above[m])
    <3>1. Cardinality(above[m]) = Cardinality(above[n]) => above[m] = above[n]
      BY <1>2, <2>1, FS_Subset
    <3> QED
      BY <2>1, <3>1
  <2> QED
    BY <1>2, <2>2, <2>3
<1>4. \A m, n \in C : Cardinality(above[n]) < Cardinality(above[m]) => n \in above[m]
  <2> SUFFICES ASSUME NEW m \in C, NEW n \in C, Cardinality(above[n]) < Cardinality(above[m]), n \notin above[m]
               PROVE  FALSE
    OBVIOUS
  <2>1. m # n
    BY <1>2
  <2>2. m \in above[n]
    BY <2>1 DEF Lined
  <2>3. Cardinality(above[m]) < Cardinality(above[n])
    BY <1>3, <2>2
  <2> QED
    BY <1>2, <2>3
<1>5. IsFiniteSet(0..(c - 1)) /\ Cardinality(0..(c - 1)) = c
  <2>1. c - 1 \in Int
    BY <1>1
  <2> QED
    BY <1>1, <2>1, FS_Interval
<1>6. f \in Injection(C, 0..(c - 1))
  <2>1. f \in [C -> 0..(c - 1)]
    BY <1>1, <1>2
  <2>2. \A a, b \in DOMAIN f : f[a] = f[b] => a = b
    <3> SUFFICES ASSUME NEW a \in C, NEW b \in C, f[a] = f[b], a # b PROVE FALSE
      OBVIOUS
    <3>1. Cardinality(above[a]) = Cardinality(above[b])
      OBVIOUS
    <3>2. a \in above[b] \/ b \in above[a]
      BY DEF Lined
    <3> QED
      BY <1>2, <1>3, <3>1, <3>2
  <2> QED
    BY <2>1, <2>2 DEF Injection, IsInjective
<1>7. f \in Surjection(C, 0..(c - 1))
  BY <1>5, <1>6, FS_Injection
<1>8. \A i \in 0..(c - 1) : \E m \in C : Cardinality(above[m]) = i
  BY <1>7 DEF Surjection
<1> QED
  BY <1>1, <1>2, <1>3, <1>4, <1>8

LEMMA LineBegins ==
  ASSUME NEW C, IsFiniteSet(C), C # {}, NEW above, Lined(C, above)
  PROVE  \E m \in C : above[m] = {}
<1>1. Cardinality(C) \in Nat /\ Cardinality(C) # 0
  BY FS_CardinalityType, FS_EmptySet
<1>2. 0 \in 0..(Cardinality(C) - 1)
  BY <1>1
<1>3. PICK m \in C : Cardinality(above[m]) = 0
  BY <1>2, Lines
<1>4. IsFiniteSet(above[m])
  BY FS_Subset DEF Lined
<1> QED
  BY <1>3, <1>4, FS_EmptySet

LEMMA LineFull ==
  ASSUME NEW C, IsFiniteSet(C), NEW above, Lined(C, above)
  PROVE  \A n \in 1..Cardinality(C) : \E m \in C : Cardinality(above[m]) = n - 1
<1> SUFFICES ASSUME NEW n \in 1..Cardinality(C) PROVE \E m \in C : Cardinality(above[m]) = n - 1
  OBVIOUS
<1>1. n - 1 \in 0..(Cardinality(C) - 1)
  BY FS_CardinalityType
<1> QED
  BY <1>1, Lines

LEMMA LinedUp ==
  ASSUME NEW C, IsFiniteSet(C), NEW above, Lined(C, above), NEW p \in [1..Cardinality(C) -> C],
         \A n \in 1..Cardinality(C) : Cardinality(above[p[n]]) = n - 1
  PROVE  /\ p \in Seq(C) /\ Len(p) = Cardinality(C)
         /\ Range(p) = C
<1> DEFINE c == Cardinality(C)
<1>1. c \in Nat
  BY FS_CardinalityType
<1>2. \A n \in 1..c : p[n] \in C /\ Cardinality(above[p[n]]) = n - 1
  OBVIOUS
<1>4. p \in Seq(C) /\ Len(p) = c
  BY <1>1
<1>5. \A m \in C : \E n \in 1..c : p[n] = m
  <2> SUFFICES ASSUME NEW m \in C PROVE \E n \in 1..c : p[n] = m
    OBVIOUS
  <2>1. Cardinality(above[m]) \in 0..(c - 1)
    BY Lines
  <2> DEFINE n == Cardinality(above[m]) + 1
  <2>2. n \in 1..c /\ n - 1 = Cardinality(above[m])
    BY <1>1, <2>1
  <2>3. p[n] \in C /\ Cardinality(above[p[n]]) = Cardinality(above[m])
    BY <1>2, <2>2
  <2>4. p[n] = m
    <3>1. \A k, l \in C : k = l \/ k \in above[l] \/ l \in above[k]
      BY DEF Lined
    <3>2. Cardinality(above[m]) \in Int
      BY <2>1
    <3>3. ~(m \in above[p[n]]) /\ ~(p[n] \in above[m])
      BY <2>3, <3>2, Lines
    <3> QED
      BY <2>3, <3>1, <3>3
  <2> QED
    BY <2>2, <2>4
<1>6. DOMAIN p = 1..c
  OBVIOUS
<1>7. Range(p) = C
  BY <1>2, <1>5, <1>6 DEF Range
<1> QED
  BY <1>4, <1>7

\* The members of a finite set, one after the other.
LEMMA InTurn ==
  ASSUME NEW S, IsFiniteSet(S)
  PROVE  SetToSeq(S) \in Seq(S) /\ Range(SetToSeq(S)) = S
<1> DEFINE c == Cardinality(S)
           f == SetToSeq(S)
<1>1. c \in Nat /\ ExistsBijection(1..c, S)
  BY FS_CardinalityType
<1>2. \E g \in [1..c -> S] : IsInjective(g)
  BY <1>1 DEF ExistsBijection, Bijection, Injection
<1>3. f \in [1..c -> S] /\ IsInjective(f)
  BY <1>2 DEF SetToSeq
<1>4. f \in Injection(1..c, S)
  BY <1>3 DEF Injection
<1>5. IsFiniteSet(1..c) /\ Cardinality(1..c) = c
  BY <1>1, FS_Interval
<1>6. f \in Surjection(1..c, S)
  BY <1>4, <1>5, FS_Injection
<1>7. DOMAIN f = 1..c /\ \A x \in S : \E n \in 1..c : f[n] = x
  BY <1>3, <1>6 DEF Surjection
<1>8. Range(f) = S
  BY <1>3, <1>7 DEF Range
<1> QED
  BY <1>1, <1>3, <1>8
-----------------------------------------------------------------------------
(* Least numbers, induction over numbers and functions by recursion. *)

LEMMA LeastOf ==
  ASSUME NEW S, S \subseteq Nat, S # {}
  PROVE  \E n \in S : \A m \in S : n <= m
<1> DEFINE R == {p \in Nat \X Nat : p[1] < p[2]}
<1>1. IsWellFoundedOn(R, Nat)
  BY NatLessThanWellFounded DEF OpToRel
<1>2. \E x \in S : \A y \in S : ~ (<<y, x>> \in R)
  <2> HIDE DEF R
  <2> QED BY <1>1, WFMin
<1>3. PICK n \in S : \A m \in S : ~ (<<m, n>> \in R)
  BY <1>2
<1>4. \A m \in S : n <= m
  <2> SUFFICES ASSUME NEW m \in S, ~(n <= m) PROVE FALSE
    OBVIOUS
  <2>1. n \in Nat /\ m \in Nat /\ m < n
    OBVIOUS
  <2>2. <<m, n>> \in R
    BY <2>1
  <2> QED
    BY <1>3, <2>2
<1> QED
  BY <1>4

LEMMA Induct ==
  ASSUME NEW S, 0 \in S, \A n \in Nat : n \in S => n + 1 \in S
  PROVE  \A n \in Nat : n \in S
<1> SUFFICES ASSUME Nat \ S # {} PROVE FALSE
  OBVIOUS
<1>1. PICK n \in Nat \ S : \A m \in Nat \ S : n <= m
  BY LeastOf
<1>2. n # 0 /\ n - 1 \in Nat /\ n - 1 \in S
  BY <1>1
<1> QED
  BY <1>1, <1>2

\* What a function that recurses from 0 to n computes, where each step maps D to D.
LEMMA RecursionTyped ==
  ASSUME NEW D, NEW n \in Nat, NEW f, f = [i \in 0..n |-> f[i]], f[0] \in D,
         \A i \in 1..n : f[i - 1] \in D => f[i] \in D
  PROVE  f \in [0..n -> D]
<1> DEFINE S == {i \in Nat : i <= n => f[i] \in D}
<1>1. 0 \in S
  OBVIOUS
<1>2. ASSUME NEW i \in Nat, i \in S PROVE i + 1 \in S
  <2> SUFFICES ASSUME i + 1 <= n PROVE f[i + 1] \in D
    BY <1>2
  <2>1. i + 1 \in 1..n /\ (i + 1) - 1 = i /\ f[i] \in D
    BY <1>2
  <2> QED
    BY <2>1
<1>3. \A i \in Nat : i \in S
  <2> HIDE DEF S
  <2> QED
    BY <1>1, <1>2, Induct
<1>4. \A i \in 0..n : f[i] \in D
  BY <1>3
<1> QED
  BY <1>4

Mappings(D, n) == [1..n -> [D -> D]]
Iterated(D, n, base, move) ==
  \E f \in [0..n -> D] : f[0] = base /\ \A i \in 1..n : f[i] = move[i][f[i - 1]]

LEMMA RecursionExists ==
  ASSUME NEW D, NEW n \in Nat, NEW base \in D, NEW move, move \in Mappings(D, n)
  PROVE  Iterated(D, n, base, move)
<1>0. move \in [1..n -> [D -> D]]
  BY DEF Mappings
<1> DEFINE Reaches(k, f) == f \in [0..k -> D] /\ f[0] = base /\ \A i \in 1..k : f[i] = move[i][f[i - 1]]
           S == {k \in Nat : k <= n => \E f : Reaches(k, f)}
<1>1. 0 \in S
  <2>1. Reaches(0, [i \in 0..0 |-> base])
    OBVIOUS
  <2> QED
    BY <2>1
<1>2. ASSUME NEW k \in Nat, k \in S PROVE k + 1 \in S
  <2> SUFFICES ASSUME k + 1 <= n PROVE \E f : Reaches(k + 1, f)
    <3> HIDE DEF Reaches
    <3> QED
      OBVIOUS
  <2>0. k <= n
    OBVIOUS
  <2>01. \E f : Reaches(k, f)
    <3> HIDE DEF Reaches
    <3> QED
      BY <1>2, <2>0
  <2>1. PICK f : Reaches(k, f)
    BY <2>01, Zenon
  <2>2. k + 1 \in 1..n /\ k \in 0..k
    OBVIOUS
  <2>3. f[k] \in D
    BY <2>1, <2>2
  <2>4. move[k + 1] \in [D -> D]
    BY <1>0, <2>2
  <2>5. move[k + 1][f[k]] \in D
    BY <2>3, <2>4
  <2>6. PICK g : g = [i \in 0..(k + 1) |-> IF i = k + 1 THEN move[k + 1][f[k]] ELSE f[i]]
    OBVIOUS
  <2>7. \A i \in 0..k : f[i] \in D /\ g[i] = f[i]
    BY <2>1, <2>6
  <2>8. g[k + 1] = move[k + 1][f[k]]
    BY <2>6
  <2>9. \A i \in 0..(k + 1) : i \in 0..k \/ i = k + 1
    OBVIOUS
  <2>10. g \in [0..(k + 1) -> D]
    BY <2>5, <2>6, <2>7, <2>8, <2>9
  <2>11. g[0] = base
    BY <2>1, <2>7
  <2>12. \A i \in 1..(k + 1) : g[i] = move[i][g[i - 1]]
    <3> SUFFICES ASSUME NEW i \in 1..(k + 1) PROVE g[i] = move[i][g[i - 1]]
      OBVIOUS
    <3>1. i - 1 \in 0..k
      OBVIOUS
    <3>2. g[i - 1] = f[i - 1]
      BY <2>7, <3>1
    <3>3. CASE i = k + 1
      BY <2>8, <3>2, <3>3
    <3>4. CASE i # k + 1
      <4>1. i \in 1..k /\ i \in 0..k
        BY <3>4
      <4> QED
        BY <2>1, <2>7, <3>2, <4>1
    <3> QED
      BY <3>3, <3>4
  <2> QED
    BY <2>10, <2>11, <2>12
<1>3. \A k \in Nat : k \in S
  <2> HIDE DEF S
  <2> QED
    BY <1>1, <1>2, Induct
<1>4. \E f : Reaches(n, f)
  <2> HIDE DEF Reaches
  <2>1. n \in S
    BY <1>3
  <2> QED
    BY <2>1
<1> QED
  BY <1>4 DEF Iterated
-----------------------------------------------------------------------------
(* Recall. *)

Pcs == {"idle", "search", "expand", "score", "rank", "strengthen", "backends", "find", "restore",
        "reread", "answered"}
Scores == UNION {[S -> Int] : S \in SUBSET Memories}
Asks ==
  [pc : Pcs, query : Queries \union {{}}, multiHop : BOOLEAN, asOf : Nat, now : Nat, rel : Scores,
   left : SUBSET Memories, scored : Scores, answer : Seq(Memories), cold : Seq(Memories),
   todo : Seq(Memories), at : Seq(Shelves), got : SUBSET Memories, stubs : SUBSET Memories,
   failed : SUBSET (Shelves \X Memories), mixed : BOOLEAN]
MemoryRows ==
  [ts : Nat \ {0}, invalid : Nat, by : Nat, bundle : SUBSET Memories, accesses : 0..2]

LogEntries == [ts : Nat \ {0}, by : Nat]

RecallTypeOK ==
  /\ \E k \in Nat : logged \in [1..k -> LogEntries] /\ 1..k \subseteq Memories
  /\ DOMAIN rows \subseteq DOMAIN logged /\ rows \in [DOMAIN rows -> MemoryRows]
  /\ embedded \subseteq DOMAIN logged /\ primary \in Shelves /\ bundles \in [Shelves -> SUBSET SUBSET Memories]
  /\ hour \in Nat \ {0} /\ ask \in [Askers -> Asks] /\ asks \in Nat /\ changes \in Nat

\* A row has the time of its event; if it is superseded, it ends when its successor begins.
Dated(m) ==
  /\ rows[m].ts = logged[m].ts
  /\ rows[m].by = 0 => rows[m].invalid = 0
  /\ rows[m].by # 0 => rows[m].by \in DOMAIN logged /\ rows[m].invalid = logged[rows[m].by].ts

\* And what a stub replaces is stored.
RowsHold ==
  /\ \A m \in DOMAIN logged : logged[m].by # 0 => logged[m].by \in DOMAIN logged
  /\ \A m \in DOMAIN rows : Dated(m)
  /\ \A m \in DOMAIN rows : rows[m].bundle = {} \/ m \in rows[m].bundle
  /\ StubsAreStored

Warm(m) == rows[m].bundle = {}

\* The lists of a step that takes their heads, and what a recall has at each step.
Furnished(r) ==
  /\ r.pc \in {"idle", "search", "expand", "score", "rank"} => r.cold = <<>>
  /\ r.pc \in {"search", "expand"} => DOMAIN r.scored = {}
  /\ r.pc = "expand" => DOMAIN r.rel # {}
  /\ r.pc = "rank" => r.left = {}
  /\ r.pc \in {"strengthen", "find", "restore", "reread"} => r.todo # <<>>
  /\ r.pc \in {"find", "restore", "reread"} => r.cold # <<>>
  /\ r.pc \in {"find", "restore"} => r.at # <<>>

\* It knows memories of the log only, and returns rows.
Known(r) ==
  /\ DOMAIN r.rel \subseteq DOMAIN logged /\ r.left \subseteq DOMAIN r.rel
  /\ DOMAIN r.scored \subseteq DOMAIN r.rel \ r.left
  /\ ~r.mixed => Range(r.cold) \subseteq DOMAIN rows

\* Of the candidates it has looked at, those that are true by the log have a score.
Judged(r) ==
  ~r.mixed =>
    /\ r.pc \in {"search", "expand", "score"} => AsLogged
    /\ r.pc \in {"score", "rank"} => \A m \in DOMAIN r.rel \ r.left : m \in DOMAIN r.scored <=> Held(m, r.asOf)

\* Its first cold memory is on a backend it has not tried, or that failed, or has come back.
Returns(r) ==
  LET first == Head(r.cold) IN
  ~r.mixed /\ r.cold # <<>> =>
    /\ r.pc = "find" => \/ Warm(first)
                        \/ /\ r.todo = r.cold
                           /\ \A s \in Shelves : rows[first].bundle \in bundles[s] =>
                                 <<s, first>> \in r.failed \/ \E i \in DOMAIN r.at : r.at[i] = s
    /\ r.pc = "restore" => Warm(first) \/ (r.todo = r.cold /\ first \in r.got)
    /\ r.pc = "reread" => \/ OutOfReach(r)
                          \/ Warm(first) /\ (r.todo = r.cold \/ first \notin r.stubs)
    /\ r.pc = "answered" => first \notin r.stubs \/ OutOfReach(r)

AskHolds(a) == Furnished(ask[a]) /\ Known(ask[a]) /\ Judged(ask[a]) /\ Returns(ask[a])

RecallInv == RecallTypeOK /\ RowsHold /\ \A a \in Askers : AskHolds(a)
-----------------------------------------------------------------------------
LEMMA FiniteSubsets ==
  ASSUME NEW S, NEW T, IsFiniteSet(S), T \subseteq S
  PROVE  IsFiniteSet(T) /\ Cardinality(T) \in Nat
BY FS_Subset, FS_CardinalityType

LEMMA RowsFinite ==
  ASSUME RecallTypeOK
  PROVE  /\ IsFiniteSet(DOMAIN logged) /\ DOMAIN logged \subseteq Memories /\ DOMAIN logged \subseteq Nat \ {0}
         /\ DOMAIN rows \subseteq DOMAIN logged
         /\ \A m \in DOMAIN logged : logged[m] \in LogEntries
         /\ \A m \in DOMAIN rows : rows[m] \in MemoryRows
<1>1. PICK k \in Nat : logged \in [1..k -> LogEntries] /\ 1..k \subseteq Memories
  BY DEF RecallTypeOK
<1>2. DOMAIN logged = 1..k
  BY <1>1
<1>3. IsFiniteSet(1..k)
  BY FS_Interval
<1>4. DOMAIN rows \subseteq DOMAIN logged /\ \A m \in DOMAIN rows : rows[m] \in MemoryRows
  BY DEF RecallTypeOK
<1> QED
  BY <1>1, <1>2, <1>3, <1>4

LEMMA InOrderHolds ==
  ASSUME NEW f \in Scores, NEW M, M \subseteq DOMAIN f, IsFiniteSet(M)
  PROVE  ByScore(f, M) \in Seq(M) /\ Len(ByScore(f, M)) = Cardinality(M)
         /\ Range(ByScore(f, M)) = M
<1>0. PICK above : above = [m \in M |-> Above(f, m) \intersect M]
  OBVIOUS
<1>1. \A m \in M : f[m] \in Int /\ m \in Int /\ m \in DOMAIN f
  <2>1. PICK S \in SUBSET Memories : f \in [S -> Int]
    BY DEF Scores
  <2> QED
    BY <2>1, RecallAssumption
<1>2. \A m, n \in M : n \in above[m] <=> f[n] > f[m] \/ (f[n] = f[m] /\ n < m)
  BY <1>0, <1>1 DEF Above
<1>3. Lined(M, above)
  <2>1. above \in [M -> SUBSET M]
    BY <1>0
  <2>2. \A m \in M : m \notin above[m]
    BY <1>1, <1>2
  <2>3. \A m, n \in M : m = n \/ m \in above[n] \/ n \in above[m]
    BY <1>1, <1>2
  <2>4. \A m, n \in M : n \in above[m] => above[n] \subseteq above[m]
    <3> SUFFICES ASSUME NEW m \in M, NEW n \in M, n \in above[m], NEW l \in above[n]
                 PROVE  l \in above[m]
      OBVIOUS
    <3>1. l \in M
      BY <2>1
    <3> QED
      BY <1>1, <1>2, <3>1
  <2> QED
    BY <2>1, <2>2, <2>3, <2>4 DEF Lined
<1> DEFINE p == ByScore(f, M)
           e(n) == CHOOSE m \in M : Cardinality(Above(f, m) \intersect M) = n - 1
<1>4. \A n \in 1..Cardinality(M) : \E m \in M : Cardinality(above[m]) = n - 1
  BY <1>3, LineFull, Zenon
<1>5. \A n \in 1..Cardinality(M) : e(n) \in M /\ Cardinality(above[e(n)]) = n - 1
  <2> SUFFICES ASSUME NEW n \in 1..Cardinality(M)
               PROVE  e(n) \in M /\ Cardinality(above[e(n)]) = n - 1
    OBVIOUS
  <2>1. \E m \in M : Cardinality(Above(f, m) \intersect M) = n - 1
    BY <1>0, <1>4
  <2> QED
    BY <1>0, <2>1
<1>6. p = [n \in 1..Cardinality(M) |-> e(n)]
  BY DEF ByScore
<1> HIDE DEF p, e
<1>7. p \in [1..Cardinality(M) -> M] /\ \A n \in 1..Cardinality(M) : Cardinality(above[p[n]]) = n - 1
  BY <1>5, <1>6
<1>8. /\ p \in Seq(M) /\ Len(p) = Cardinality(M) /\ Range(p) = M
  BY <1>3, <1>7, LinedUp
<1> QED
  BY <1>8 DEF p

LEMMA MinOf ==
  ASSUME NEW i \in Nat, NEW j \in Nat
  PROVE  Min({i, j}) \in Nat /\ Min({i, j}) <= i /\ Min({i, j}) <= j
<1>1. \E x \in {i, j} : \A y \in {i, j} : x =< y
  OBVIOUS
<1>2. Min({i, j}) \in {i, j} /\ \A y \in {i, j} : Min({i, j}) =< y
  BY <1>1 DEF Min
<1> QED
  BY <1>2

LEMMA RankedHolds ==
  ASSUME NEW f \in Scores, IsFiniteSet(DOMAIN f)
  PROVE  Ranked(f) \in Seq(DOMAIN f)
<1> DEFINE order == ByScore(f, DOMAIN f)
           k == Min({TOP_K, Len(order)})
<1>1. order \in Seq(DOMAIN f)
  BY InOrderHolds
<1>2. Len(order) \in Nat /\ TOP_K \in Nat
  BY <1>1, RecallAssumption
<1>3. k \in Nat /\ k <= Len(order)
  BY <1>2, MinOf
<1> HIDE DEF order
<1>4. \A n \in 1..k : order[n] \in DOMAIN f
  BY <1>1, <1>2, <1>3
<1>5. Ranked(f) = [n \in 1..k |-> order[n]]
  BY DEF Ranked, order
<1> HIDE DEF k
<1> QED
  BY <1>3, <1>4, <1>5
-----------------------------------------------------------------------------
(* The types of what a recall computes. *)

LEMMA FusedType ==
  ASSUME NEW hits, IsFiniteSet(DOMAIN hits), NEW m
  PROVE  Fused(hits, m) \in Int
<1>1. Rank(hits, m) \in Nat
  BY FiniteSubsets DEF Rank
<1> QED
  BY <1>1 DEF Fused

LEMMA RelevanceType ==
  ASSUME NEW D, IsFiniteSet(D), D \subseteq Memories, NEW f, NEW g, NEW h, NEW i,
         DOMAIN f \subseteq D, DOMAIN g \subseteq D, DOMAIN h \subseteq D, DOMAIN i \subseteq D
  PROVE  Relevance(f, g, h, i) \in Scores /\ DOMAIN Relevance(f, g, h, i) \subseteq D
<1> DEFINE S == UNION {DOMAIN hits : hits \in {f, g, h, i}}
<1>1. S \subseteq D
  OBVIOUS
<1>2. IsFiniteSet(DOMAIN f) /\ IsFiniteSet(DOMAIN g) /\ IsFiniteSet(DOMAIN h) /\ IsFiniteSet(DOMAIN i)
  BY FiniteSubsets
<1>3. \A m : Fused(f, m) \in Int /\ Fused(g, m) \in Int /\ Fused(h, m) \in Int /\ Fused(i, m) \in Int
  BY <1>2, FusedType
<1>4. Relevance(f, g, h, i) = [m \in S |-> Fused(f, m) + Fused(g, m) + Fused(h, m) + Fused(i, m)]
  BY DEF Relevance
<1> HIDE DEF S
<1>5. Relevance(f, g, h, i) \in [S -> Int]
  BY <1>3, <1>4
<1> QED
  BY <1>1, <1>5 DEF Scores

LEMMA LanesIn ==
  ASSUME RecallTypeOK, NEW q
  PROVE  /\ DOMAIN FtsLane(q) \subseteq DOMAIN logged /\ DOMAIN LikeLane(q) \subseteq DOMAIN logged
         /\ DOMAIN EntityLane(q) \subseteq DOMAIN logged /\ DOMAIN VectorLane(q) \subseteq DOMAIN logged
<1>1. \A words : DOMAIN Hits(words, q) \subseteq DOMAIN words
  BY DEF Hits
<1>2. Linked \subseteq DOMAIN rows /\ DOMAIN rows \subseteq DOMAIN logged
  BY DEF Linked, RecallTypeOK
<1> QED
  BY <1>1, <1>2 DEF FtsLane, LikeLane, EntityLane, VectorLane, RecallTypeOK

LEMMA LargestOf ==
  ASSUME NEW S, IsFiniteSet(S), S \subseteq Int, S # {}
  PROVE  Max(S) \in S
<1>0. PICK above : above = [m \in S |-> {n \in S : n > m}]
  OBVIOUS
<1>1. Lined(S, above)
  <2>1. above \in [S -> SUBSET S]
    BY <1>0
  <2>2. \A m \in S : m \notin above[m]
    BY <1>0
  <2>3. \A m, n \in S : m = n \/ m \in above[n] \/ n \in above[m]
    BY <1>0
  <2>4. \A m, n \in S : n \in above[m] => above[n] \subseteq above[m]
    <3> SUFFICES ASSUME NEW m \in S, NEW n \in S, n > m, NEW l \in S, l > n PROVE l > m
      BY <1>0
    <3>1. l \in Int /\ m \in Int /\ n \in Int
      OBVIOUS
    <3> QED
      BY <3>1
  <2> QED
    BY <2>1, <2>2, <2>3, <2>4 DEF Lined
<1>4. PICK m \in S : above[m] = {}
  BY <1>1, LineBegins, Zenon
<1>5. \A y \in S : m >= y
  BY <1>0, <1>4
<1> QED
  BY <1>5 DEF Max

LEMMA SpreadHolds ==
  ASSUME RecallTypeOK, NEW f \in Scores, DOMAIN f \subseteq DOMAIN logged, DOMAIN f # {}
  PROVE  Spread(f) \in Scores /\ DOMAIN Spread(f) \subseteq DOMAIN logged
<1>0. IsFiniteSet(DOMAIN logged) /\ DOMAIN logged \subseteq Memories
  BY RowsFinite
<1> DEFINE seeds == {m \in DOMAIN f : Cardinality(Above(f, m)) < SEEDS}
           boost(m) == Max(Range(f)) \div (IF m \in Around(seeds) THEN 2 ELSE 4)
           near == (Around(Around(seeds)) \ seeds) \ {0}
           old(m) == IF m \in DOMAIN f THEN f[m] ELSE 0
<1>1. \A S : S \subseteq DOMAIN logged \union {0} => Around(S) \subseteq DOMAIN logged \union {0}
  <2> SUFFICES ASSUME NEW S, S \subseteq DOMAIN logged \union {0}, NEW v \in Around(S)
               PROVE  v \in DOMAIN logged \union {0}
    OBVIOUS
  <2>1. CASE v \in S
    BY <2>1
  <2>2. CASE v \notin S
    <3>1. PICK s \in S : {v, s} \in Edges
      BY <2>2 DEF Around
    <3>2. PICK m \in Linked : {v, s} = {m, 0} \/ {v, s} = {m, m - 1}
      BY <3>1 DEF Edges
    <3>3. m \in DOMAIN logged
      BY RowsFinite DEF Linked
    <3>4. m - 1 \in DOMAIN logged \union {0}
      <4>1. PICK k \in Nat : DOMAIN logged = 1..k
        BY DEF RecallTypeOK
      <4> QED
        BY <3>3, <4>1
    <3> QED
      BY <3>2, <3>3, <3>4
  <2> QED
    BY <2>1, <2>2
<1>2. near \subseteq DOMAIN logged
  <2>1. seeds \subseteq DOMAIN logged \union {0}
    OBVIOUS
  <2> HIDE DEF seeds
  <2>2. Around(seeds) \subseteq DOMAIN logged \union {0}
    BY <1>1, <2>1
  <2>3. Around(Around(seeds)) \subseteq DOMAIN logged \union {0}
    BY <1>1, <2>2
  <2> QED
    BY <2>3
<1>3. Max(Range(f)) \in Int
  <2>1. f \in [DOMAIN f -> Int] /\ IsFiniteSet(DOMAIN f)
    BY <1>0, FiniteSubsets DEF Scores
  <2>2. f \in Surjection(DOMAIN f, Range(f))
    BY <2>1 DEF Surjection, Range
  <2>3. IsFiniteSet(Range(f))
    BY <2>1, <2>2, FS_Surjection
  <2>4. Range(f) \subseteq Int /\ Range(f) # {}
    BY <2>1 DEF Range
  <2> QED
    BY <2>3, <2>4, LargestOf
<1>4. \A m : boost(m) \in Int
  BY <1>3
<1>5. \A m : old(m) \in Int
  BY DEF Scores
<1>6. Spread(f) = [m \in DOMAIN f \union near |-> IF m \in near /\ boost(m) > old(m) THEN boost(m) ELSE old(m)]
  BY DEF Spread
<1> DEFINE S == DOMAIN f \union near
<1>7. S \subseteq DOMAIN logged
  BY <1>2
<1> HIDE DEF near, boost, old
<1>8. Spread(f) \in [S -> Int]
  BY <1>4, <1>5, <1>6
<1> HIDE DEF S
<1> QED
  BY <1>0, <1>7, <1>8 DEF Scores
-----------------------------------------------------------------------------
(* A recall while others move. *)

Grows == DOMAIN logged \subseteq DOMAIN logged'
SameFacts == (AsLogged => AsLogged') /\ \A m \in DOMAIN logged : logged'[m] = logged[m]
NoColder ==
  /\ DOMAIN rows \subseteq DOMAIN rows' /\ bundles' = bundles
  /\ \A m \in DOMAIN rows : rows'[m].bundle \in {rows[m].bundle, {}}

LEMMA FirstKnown ==
  ASSUME NEW r \in Asks, Known(r), r.cold # <<>>, ~r.mixed
  PROVE  Head(r.cold) \in DOMAIN rows
<1>1. r.cold \in Seq(Memories)
  BY DEF Asks
<1>2. 1 \in DOMAIN r.cold /\ Head(r.cold) = r.cold[1]
  BY <1>1
<1> QED
  BY <1>2 DEF Known, Range

\* What is true by the log stays so while no event supersedes.
LEMMA HeldStays ==
  ASSUME RowsHold, SameFacts, NEW m \in DOMAIN logged, NEW t
  PROVE  Held(m, t)' <=> Held(m, t)
<1>1. logged'[m] = logged[m] /\ (logged[m].by # 0 => logged[m].by \in DOMAIN logged)
  BY DEF SameFacts, RowsHold
<1>2. logged[m].by # 0 => logged'[logged[m].by] = logged[logged[m].by]
  BY <1>1 DEF SameFacts
<1> QED
  BY <1>1, <1>2 DEF Held

\* A memory that could not be had has come back, or is still not to be had.
LEMMA StaysOut ==
  ASSUME NoColder, NEW r, OutOfReach(r), Head(r.cold) \in DOMAIN rows
  PROVE  OutOfReach(r)'
<1>1. PICK h \in DOMAIN rows : h = Head(r.cold)
  OBVIOUS
<1>2. rows'[h].bundle \in {rows[h].bundle, {}} /\ bundles' = bundles
  BY DEF NoColder
<1> QED
  BY <1>1, <1>2 DEF OutOfReach

LEMMA OtherAsk ==
  ASSUME RecallTypeOK, RowsHold, NEW a \in Askers, AskHolds(a), NEW x \in BOOLEAN, ask[a].mixed => x,
         ask'[a] = [ask[a] EXCEPT !.mixed = x], Grows,
         ask[a].pc \in Reading => x \/ SameFacts,
         ask[a].pc \in Restoring => x \/ NoColder
  PROVE  AskHolds(a)'
<1>1. PICK r \in Asks : r = ask[a]
  BY DEF RecallTypeOK
<1>2. PICK q : q = ask'[a]
  OBVIOUS
<1>3. /\ q.pc = r.pc /\ q.cold = r.cold /\ q.scored = r.scored /\ q.rel = r.rel /\ q.left = r.left
      /\ q.todo = r.todo /\ q.at = r.at /\ q.asOf = r.asOf /\ q.got = r.got /\ q.stubs = r.stubs
      /\ q.failed = r.failed /\ q.mixed = x /\ (r.mixed => x)
  BY <1>1, <1>2 DEF Asks
<1>4. Furnished(r) /\ Known(r) /\ Judged(r) /\ Returns(r)
  BY <1>1 DEF AskHolds
<1>5. Furnished(q)
  BY <1>3, <1>4 DEF Furnished
<1>51. r.cold # <<>> => r.pc \in Restoring
  BY <1>4 DEF Furnished, Asks, Pcs, Restoring
<1>52. ~x /\ r.cold # <<>> => NoColder
  BY <1>1, <1>51
<1>53. ~x => Range(r.cold) \subseteq DOMAIN rows'
  <2>1. CASE r.cold = <<>>
    BY <2>1 DEF Range
  <2>2. CASE r.cold # <<>>
    BY <1>3, <1>4, <1>52, <2>2 DEF Known, NoColder
  <2> QED
    BY <2>1, <2>2
<1>6. DOMAIN q.rel \subseteq DOMAIN logged' /\ q.left \subseteq DOMAIN q.rel
      /\ DOMAIN q.scored \subseteq DOMAIN q.rel \ q.left /\ (~q.mixed => Range(q.cold) \subseteq DOMAIN rows')
  BY <1>3, <1>4, <1>53 DEF Known, Grows
<1>7. ~q.mixed =>
        /\ q.pc \in {"search", "expand", "score"} => AsLogged'
        /\ q.pc \in {"score", "rank"} =>
              \A m \in DOMAIN q.rel \ q.left : m \in DOMAIN q.scored <=> Held(m, q.asOf)'
  <2> SUFFICES ASSUME ~q.mixed, q.pc \in Reading
               PROVE  /\ q.pc \in {"search", "expand", "score"} => AsLogged'
                      /\ q.pc \in {"score", "rank"} =>
                            \A m \in DOMAIN q.rel \ q.left : m \in DOMAIN q.scored <=> Held(m, q.asOf)'
    BY DEF Reading
  <2>1. SameFacts /\ ~r.mixed
    BY <1>1, <1>3
  <2>2. q.pc \in {"search", "expand", "score"} => AsLogged'
    BY <1>3, <1>4, <2>1 DEF Judged, SameFacts
  <2>3. ASSUME q.pc \in {"score", "rank"}, NEW m \in DOMAIN q.rel \ q.left
        PROVE  m \in DOMAIN q.scored <=> Held(m, q.asOf)'
    <3>1. m \in DOMAIN logged
      BY <1>3, <1>4 DEF Known
    <3>2. m \in DOMAIN r.scored <=> Held(m, r.asOf)
      BY <1>3, <1>4, <2>1, <2>3 DEF Judged
    <3>3. Held(m, r.asOf)' <=> Held(m, r.asOf)
      BY <2>1, <3>1, HeldStays
    <3> QED
      BY <1>3, <3>2, <3>3
  <2> QED
    BY <2>2, <2>3
<1>8. Returns(q)'
  <2> SUFFICES ASSUME ~q.mixed, q.cold # <<>>
               PROVE  Returns(q)'
    BY DEF Returns
  <2>1. ~r.mixed /\ r.cold # <<>>
    BY <1>3
  <2>2. PICK h \in DOMAIN rows : h = Head(r.cold)
    BY <1>4, <2>1, FirstKnown
  <2>3. NoColder
    BY <1>3, <1>52, <2>1
  <2>4. rows'[h].bundle \in {rows[h].bundle, {}} /\ bundles' = bundles
    BY <2>3 DEF NoColder
  <2>5. Warm(h) => Warm(h)'
    BY <2>4 DEF Warm
  <2>6. OutOfReach(r) => OutOfReach(q)'
    <3>1. OutOfReach(r) => OutOfReach(r)'
      BY <2>2, <2>3, StaysOut
    <3> QED
      BY <1>3, <3>1 DEF OutOfReach
  <2>7. ASSUME q.pc = "find"
        PROVE  \/ Warm(h)'
               \/ /\ q.todo = q.cold
                  /\ \A s \in Shelves : rows'[h].bundle \in bundles'[s] =>
                        <<s, h>> \in q.failed \/ \E i \in DOMAIN q.at : q.at[i] = s
    <3>1. \/ Warm(h)
          \/ /\ r.todo = r.cold
             /\ \A s \in Shelves : rows[h].bundle \in bundles[s] =>
                   <<s, h>> \in r.failed \/ \E i \in DOMAIN r.at : r.at[i] = s
      BY <1>3, <1>4, <2>1, <2>2, <2>7 DEF Returns
    <3> QED
      BY <1>3, <2>4, <2>5, <3>1 DEF Warm
  <2>8. /\ q.pc = "restore" => Warm(h)' \/ (q.todo = q.cold /\ h \in q.got)
        /\ q.pc = "reread" => OutOfReach(q)' \/ (Warm(h)' /\ (q.todo = q.cold \/ h \notin q.stubs))
        /\ q.pc = "answered" => h \notin q.stubs \/ OutOfReach(q)'
    BY <1>3, <1>4, <2>1, <2>2, <2>5, <2>6 DEF Returns
  <2> QED
    BY <1>3, <2>2, <2>7, <2>8 DEF Returns
<1> QED
  BY <1>2, <1>5, <1>6, <1>7, <1>8 DEF AskHolds, Furnished, Known, Judged, Returns, OutOfReach

\* A step of somebody else that no recall can tell.
LEMMA Unnoticed ==
  ASSUME RecallTypeOK, RowsHold, NEW a \in Askers, AskHolds(a), ask'[a] = ask[a], Grows, SameFacts, NoColder
  PROVE  AskHolds(a)'
<1>1. PICK r \in Asks : r = ask[a]
  BY DEF RecallTypeOK
<1>2. r.mixed \in BOOLEAN /\ r = [r EXCEPT !.mixed = r.mixed]
  BY DEF Asks
<1>3. ask'[a] = [ask[a] EXCEPT !.mixed = ask[a].mixed]
  BY <1>1, <1>2
<1> QED
  BY <1>1, <1>2, <1>3, OtherAsk

\* What the store keeps when a step does not write it.
LEMMA StoreStays ==
  ASSUME UNCHANGED <<logged, rows, bundles>>
  PROVE  Grows /\ SameFacts /\ NoColder
BY DEF Grows, SameFacts, NoColder, AsLogged

\* A step of one recall that writes nothing.
LEMMA OneAsk ==
  ASSUME RecallInv, NEW a \in Askers, NEW q \in Asks, Puts(a, q), UNCHANGED <<logged, rows, embedded, primary, bundles, hour, asks, changes>>,
         Furnished(q), Known(q), Judged(q), Returns(q)
  PROVE  RecallInv'
<1>1. ask \in [Askers -> Asks]
  BY DEF RecallInv, RecallTypeOK
<1>2. ask' \in [Askers -> Asks] /\ ask'[a] = q /\ \A b \in Askers \ {a} : ask'[b] = ask[b]
  BY <1>1 DEF Puts
<1>3. RecallTypeOK'
  BY <1>2 DEF RecallInv, RecallTypeOK
<1>4. RowsHold'
  BY DEF RecallInv, RowsHold, Dated, StubsAreStored
<1>5. AskHolds(a)'
  BY <1>2 DEF AskHolds, Furnished, Known, Judged, Returns, AsLogged, Held, OutOfReach, Warm
<1>6. ASSUME NEW b \in Askers \ {a} PROVE AskHolds(b)'
  BY <1>2, StoreStays, Unnoticed DEF RecallInv
<1> QED
  BY <1>3, <1>4, <1>5, <1>6 DEF RecallInv

(* The steps of a recall that write nothing. *)

LEMMA NoAskHolds == NoAsk \in Asks
<1>1. <<>> \in Scores
  <2>1. <<>> \in [{} -> Int]
    OBVIOUS
  <2> QED
    BY <2>1 DEF Scores
<1> QED
  BY <1>1 DEF NoAsk, Asks, Pcs

LEMMA SearchHolds ==
  ASSUME RecallInv, NEW a \in Askers, Search(a)
  PROVE  RecallInv'
<1>1. PICK r \in Asks : r = ask[a]
  BY DEF RecallInv, RecallTypeOK
<1>2. RecallTypeOK
  BY DEF RecallInv
<1>3. r.pc = "search" /\ Furnished(r) /\ Known(r) /\ Judged(r)
  BY <1>1 DEF Search, At, RecallInv, AskHolds
<1>4. PICK text \in {FtsLane(ask[a].query), <<>>}, near \in {VectorLane(ask[a].query), <<>>} :
        Puts(a, [ask[a] EXCEPT !.rel = Relevance(text, LikeLane(ask[a].query), EntityLane(ask[a].query), near),
                               !.left = DOMAIN Relevance(text, LikeLane(ask[a].query), EntityLane(ask[a].query), near),
                               !.query = {}, !.multiHop = FALSE,
                               !.pc = IF DOMAIN Relevance(text, LikeLane(ask[a].query), EntityLane(ask[a].query), near) = {}
                                      THEN "answered"
                                      ELSE IF ask[a].multiHop THEN "expand" ELSE "score"])
  BY Zenon DEF Search
<1>5. DOMAIN text \subseteq DOMAIN logged /\ DOMAIN near \subseteq DOMAIN logged
  BY <1>2, LanesIn
<1>6. PICK rel : rel = Relevance(text, LikeLane(r.query), EntityLane(r.query), near)
  OBVIOUS
<1>7. rel \in Scores /\ DOMAIN rel \subseteq DOMAIN logged /\ DOMAIN logged \subseteq Memories
  <2>1. IsFiniteSet(DOMAIN logged) /\ DOMAIN logged \subseteq Memories
    BY <1>2, RowsFinite
  <2> QED
    BY <1>2, <1>5, <1>6, <2>1, LanesIn, RelevanceType
<1>8. PICK nextPc : nextPc = IF DOMAIN rel = {} THEN "answered"
                  ELSE IF r.multiHop THEN "expand" ELSE "score"
  OBVIOUS
<1>9. nextPc \in {"answered", "expand", "score"} /\ (nextPc = "expand" => DOMAIN rel # {})
  BY <1>8
<1>10. PICK q : q = [r EXCEPT !.rel = rel, !.left = DOMAIN rel, !.query = {}, !.multiHop = FALSE, !.pc = nextPc]
  OBVIOUS
<1>11. Puts(a, q)
  BY <1>1, <1>4, <1>6, <1>8, <1>10
<1>12. /\ q \in Asks /\ q.pc = nextPc /\ q.rel = rel /\ q.left = DOMAIN rel /\ q.scored = r.scored /\ q.cold = r.cold /\ q.mixed = r.mixed
  BY <1>7, <1>9, <1>10 DEF Asks, Pcs
<1>13. r.cold = <<>> /\ DOMAIN r.scored = {}
  BY <1>3 DEF Furnished
<1>14. Furnished(q)
  BY <1>9, <1>12, <1>13 DEF Furnished
<1>15. Known(q)
  BY <1>7, <1>12, <1>13 DEF Known, Range
<1>16. Judged(q) /\ Returns(q)
  BY <1>3, <1>9, <1>12, <1>13 DEF Judged, Returns
<1> QED
  BY <1>11, <1>12, <1>14, <1>15, <1>16, OneAsk DEF Search, Keeps, store

LEMMA ExpandHolds ==
  ASSUME RecallInv, NEW a \in Askers, Expand(a)
  PROVE  RecallInv'
<1>1. PICK r \in Asks : r = ask[a]
  BY DEF RecallInv, RecallTypeOK
<1>2. RecallTypeOK
  BY DEF RecallInv
<1>3. r.pc = "expand" /\ Furnished(r) /\ Known(r) /\ Judged(r)
  BY <1>1 DEF Expand, At, RecallInv, AskHolds
<1>4. r.cold = <<>> /\ DOMAIN r.scored = {} /\ DOMAIN r.rel # {} /\ DOMAIN r.rel \subseteq DOMAIN logged
  BY <1>3 DEF Furnished, Known
<1>5. r.rel \in Scores
  BY DEF Asks
<1>6. PICK rel : rel = Spread(r.rel)
  OBVIOUS
<1>7. rel \in Scores /\ DOMAIN rel \subseteq DOMAIN logged /\ DOMAIN logged \subseteq Memories
  BY <1>2, <1>4, <1>5, <1>6, SpreadHolds, RowsFinite
<1>8. PICK q : q = [r EXCEPT !.rel = rel, !.left = DOMAIN rel, !.pc = "score"]
  OBVIOUS
<1>9. Puts(a, q)
  BY <1>1, <1>6, <1>8 DEF Expand
<1>10. /\ q \in Asks /\ q.pc = "score" /\ q.rel = rel /\ q.left = DOMAIN rel /\ q.scored = r.scored /\ q.cold = r.cold /\ q.mixed = r.mixed
  BY <1>7, <1>8 DEF Asks, Pcs
<1>11. Furnished(q) /\ Judged(q) /\ Returns(q)
  BY <1>3, <1>4, <1>10 DEF Furnished, Judged, Returns
<1>12. Known(q)
  BY <1>4, <1>7, <1>10 DEF Known, Range
<1> QED
  BY <1>9, <1>10, <1>11, <1>12, OneAsk DEF Expand, Keeps, store

LEMMA ActivationType ==
  ASSUME RecallTypeOK, NEW r \in Asks, NEW m \in DOMAIN r.rel, m \in DOMAIN rows
  PROVE  Activation(r, m) \in Int
<1> DEFINE reference == IF r.asOf = 0 THEN r.now ELSE r.asOf
           age == IF reference > rows[m].ts THEN reference - rows[m].ts ELSE 0
<1>1. rows[m] \in MemoryRows
  BY RowsFinite
<1>2. rows[m].ts \in Nat /\ rows[m].accesses \in 0..2
  BY <1>1 DEF MemoryRows
<1>3. reference \in Nat
  BY DEF Asks
<1>4. age \in Int
  BY <1>2, <1>3
<1>5. r.rel[m] \in Int
  <2>1. r.rel \in Scores
    BY DEF Asks
  <2>2. PICK S \in SUBSET Memories : r.rel \in [S -> Int]
    BY <2>1 DEF Scores
  <2> QED
    BY <2>2
<1>6. Recency(age) \in Int
  <2> HIDE DEF age
  <2> QED
    BY <1>4 DEF Recency
<1>7. Importance(m) \in Int
  BY DEF Importance
<1>8. Frequency(rows[m].accesses) \in Int
  <2> DEFINE n == rows[m].accesses
  <2>1. n = 0 \/ n = 1 \/ n = 2
    BY <1>2
  <2>2. n + 1 \in 1..3
    BY <2>1
  <2>3. <<100, 169, 210>> \in [1..3 -> Int]
    OBVIOUS
  <2> HIDE DEF n
  <2>4. Frequency(n) \in Int
    BY <2>2, <2>3 DEF Frequency
  <2> QED
    BY <2>4 DEF n
<1>9. Activation(r, m) = r.rel[m] * Recency(age) * Importance(m) * Frequency(rows[m].accesses)
  BY DEF Activation
<1>10. \A w, x, y, z : w \in Int /\ x \in Int /\ y \in Int /\ z \in Int => w * x * y * z \in Int
  OBVIOUS
<1> HIDE DEF age, reference
<1> QED
  BY <1>5, <1>6, <1>7, <1>8, <1>9, <1>10, Zenon

\* On rows that are the log's, what is valid is what is true by the log.
LEMMA ValidIsHeld ==
  ASSUME RecallTypeOK, RowsHold, AsLogged, NEW m \in DOMAIN logged, NEW t \in Nat
  PROVE  m \in DOMAIN rows /\ (Valid(m, t) <=> Held(m, t))
<1>1. m \in DOMAIN rows /\ rows[m].by = logged[m].by /\ Dated(m)
  BY DEF AsLogged, RowsHold
<1>2. logged[m].by # 0 => logged[logged[m].by].ts \in Nat \ {0}
  BY <1>1, RowsFinite DEF Dated, LogEntries
<1>3. logged[m].ts \in Nat
  BY RowsFinite DEF LogEntries
<1>4. CASE logged[m].by = 0
  BY <1>1, <1>3, <1>4 DEF Valid, Held, Dated
<1>5. CASE logged[m].by # 0
  <2>1. rows[m].invalid = logged[logged[m].by].ts /\ rows[m].ts = logged[m].ts
    BY <1>1, <1>5 DEF Dated
  <2> QED
    BY <1>1, <1>2, <1>3, <1>5, <2>1 DEF Valid, Held
<1> QED
  BY <1>4, <1>5

LEMMA ScoreHolds ==
  ASSUME RecallInv, NEW a \in Askers, Score(a)
  PROVE  RecallInv'
<1>1. PICK r \in Asks : r = ask[a]
  BY DEF RecallInv, RecallTypeOK
<1>2. RecallTypeOK
  BY DEF RecallInv
<1>3. r.pc = "score" /\ Furnished(r) /\ Known(r) /\ Judged(r)
  BY <1>1 DEF Score, At, RecallInv, AskHolds
<1>4. PICK m \in r.left :
        LET hit == m \in DOMAIN rows /\ Valid(m, r.asOf) IN
        Puts(a, [r EXCEPT !.left = @ \ {m}, !.pc = IF r.left = {m} THEN "rank" ELSE "score",
                          !.scored = IF hit THEN Put(@, m, Activation(r, m)) ELSE @,
                          !.stubs = IF hit /\ rows[m].bundle # {} THEN @ \union {m} ELSE @])
  BY <1>1 DEF Score
<1>5. m \in DOMAIN logged /\ m \in DOMAIN r.rel /\ m \in Memories
  BY <1>2, <1>3, RowsFinite DEF Known
<1>6. PICK hit \in BOOLEAN : hit <=> m \in DOMAIN rows /\ Valid(m, r.asOf)
  OBVIOUS
<1>61. ASSUME ~r.mixed PROVE AsLogged /\ (hit <=> Held(m, r.asOf))
  <2>1. AsLogged /\ r.asOf \in Nat
    BY <1>3, <1>61 DEF Judged, Asks
  <2> QED
    BY <1>2, <1>5, <1>6, <2>1, ValidIsHeld DEF RecallInv
<1>7. PICK scored : scored = IF hit THEN Put(r.scored, m, Activation(r, m)) ELSE r.scored
  OBVIOUS
<1>8. scored \in Scores /\ DOMAIN scored = IF hit THEN DOMAIN r.scored \union {m} ELSE DOMAIN r.scored
  <2>1. r.scored \in Scores
    BY DEF Asks
  <2>2. PICK S \in SUBSET Memories : r.scored \in [S -> Int]
    BY <2>1 DEF Scores
  <2>3. hit => Activation(r, m) \in Int
    BY <1>2, <1>5, <1>6, ActivationType
  <2>4. PICK x \in Int : hit => x = Activation(r, m)
    BY <2>3
  <2>5. Put(r.scored, m, x) \in [S \union {m} -> Int]
    BY <2>2 DEF Put
  <2>6. Put(r.scored, m, x) \in Scores /\ DOMAIN Put(r.scored, m, x) = S \union {m}
    BY <1>5, <2>5 DEF Scores
  <2> QED
    BY <1>7, <2>1, <2>2, <2>4, <2>6
<1>9. PICK stubs : stubs = IF hit /\ rows[m].bundle # {} THEN r.stubs \union {m} ELSE r.stubs
  OBVIOUS
<1>10. stubs \in SUBSET Memories
  BY <1>5, <1>9 DEF Asks
<1>11. PICK nextPc : nextPc = IF r.left = {m} THEN "rank" ELSE "score"
  OBVIOUS
<1>12. PICK q : q = [r EXCEPT !.left = @ \ {m}, !.pc = nextPc, !.scored = scored, !.stubs = stubs]
  OBVIOUS
<1>13. Puts(a, q)
  <2>1. (m \in DOMAIN rows /\ Valid(m, r.asOf)) <=> hit
    BY <1>6
  <2> QED
    BY <1>4, <1>7, <1>9, <1>11, <1>12, <2>1
<1>14. /\ q \in Asks /\ q.pc = nextPc /\ q.rel = r.rel /\ q.left = r.left \ {m} /\ q.scored = scored /\ q.cold = r.cold
       /\ q.asOf = r.asOf /\ q.mixed = r.mixed
  BY <1>8, <1>10, <1>11, <1>12 DEF Asks, Pcs
<1>15. r.cold = <<>>
  BY <1>3 DEF Furnished
<1>16. Furnished(q) /\ Returns(q)
  BY <1>11, <1>14, <1>15 DEF Furnished, Returns
<1>17. Known(q)
  BY <1>3, <1>5, <1>8, <1>14 DEF Known
<1>18. Judged(q)
  <2> SUFFICES ASSUME ~r.mixed, NEW n \in DOMAIN q.rel \ q.left
               PROVE  n \in DOMAIN q.scored <=> Held(n, q.asOf)
    BY <1>14, <1>61 DEF Judged
  <2>1. CASE n = m
    <3>1. m \notin DOMAIN r.scored
      BY <1>3 DEF Known
    <3> QED
      BY <1>8, <1>14, <1>61, <2>1, <3>1
  <2>2. CASE n # m
    <3>1. n \in DOMAIN r.rel \ r.left
      BY <1>14, <2>2
    <3>2. n \in DOMAIN r.scored <=> Held(n, r.asOf)
      BY <1>3, <1>14, <3>1 DEF Judged
    <3> QED
      BY <1>8, <1>14, <2>2, <3>2
  <2> QED
    BY <2>1, <2>2
<1> QED
  BY <1>13, <1>14, <1>16, <1>17, <1>18, OneAsk DEF Score, Keeps, store

LEMMA RankHolds ==
  ASSUME RecallInv, NEW a \in Askers, RankAll(a)
  PROVE  RecallInv'
<1>1. PICK r \in Asks : r = ask[a]
  BY DEF RecallInv, RecallTypeOK
<1>2. RecallTypeOK
  BY DEF RecallInv
<1>3. r.pc = "rank" /\ Furnished(r) /\ Known(r)
  BY <1>1 DEF RankAll, At, RecallInv, AskHolds
<1>4. r.scored \in Scores /\ r.asOf \in Nat
  BY DEF Asks
<1>5. DOMAIN r.scored \subseteq DOMAIN logged /\ DOMAIN logged \subseteq Memories
  BY <1>2, <1>3, RowsFinite DEF Known
<1>6. IsFiniteSet(DOMAIN r.scored)
  BY <1>2, <1>5, RowsFinite, FiniteSubsets
<1>7. PICK answer : answer = Ranked(r.scored)
  OBVIOUS
<1>8. answer \in Seq(DOMAIN r.scored)
  BY <1>4, <1>6, <1>7, RankedHolds
<1>9. PICK M : M = Range(answer) \intersect r.stubs
  OBVIOUS
<1>10. M \subseteq DOMAIN r.scored /\ IsFiniteSet(M)
  BY <1>6, <1>8, <1>9, FiniteSubsets DEF Range
<1>11. PICK cold : cold = ByScore(r.scored, M)
  OBVIOUS
<1>12. cold \in Seq(M) /\ Range(cold) = M
  BY <1>4, <1>10, <1>11, InOrderHolds
<1>13. cold \in Seq(Memories) /\ answer \in Seq(Memories) /\ M \in SUBSET Memories
  BY <1>5, <1>8, <1>10, <1>12
<1>14. CASE answer = <<>> \/ r.scored[Head(answer)] < ABSTENTION
  <2>1. PICK q : q = [NoAsk EXCEPT !.pc = "answered"]
    OBVIOUS
  <2>2. Puts(a, q)
    BY <1>1, <1>7, <1>14, <2>1 DEF RankAll
  <2>3. q \in Asks /\ q.pc = "answered" /\ q.cold = <<>> /\ q.rel = <<>> /\ q.scored = <<>> /\ q.left = {}
    BY <2>1, NoAskHolds DEF NoAsk, Asks, Pcs
  <2>4. Furnished(q) /\ Known(q) /\ Judged(q) /\ Returns(q)
    BY <2>3 DEF Furnished, Known, Judged, Returns, Range
  <2> QED
    BY <2>2, <2>3, <2>4, OneAsk DEF RankAll, Keeps, store
<1>15. CASE ~(answer = <<>> \/ r.scored[Head(answer)] < ABSTENTION)
  <2>0. PICK nextPc : nextPc = IF r.asOf = 0 THEN "strengthen" ELSE "backends"
    OBVIOUS
  <2>01. PICK todo : todo = IF r.asOf = 0 THEN answer ELSE <<>>
    OBVIOUS
  <2>03. PICK mixed \in BOOLEAN : mixed = ~(M \subseteq DOMAIN rows)
    OBVIOUS
  <2>02. todo \in Seq(Memories) /\ nextPc \in {"strengthen", "backends"} /\ (nextPc = "strengthen" => todo # <<>>)
    BY <1>13, <1>15, <2>0, <2>01
  <2>1. PICK q : q = [NoAsk EXCEPT !.pc = nextPc, !.answer = answer, !.cold = cold, !.stubs = M, !.todo = todo,
                                   !.mixed = mixed]
    OBVIOUS
  <2>2. Puts(a, q)
    <3>1. Puts(a, [NoAsk EXCEPT !.pc = IF r.asOf = 0 THEN "strengthen" ELSE "backends",
                                !.answer = answer, !.cold = cold, !.stubs = Range(cold),
                                !.todo = IF r.asOf = 0 THEN answer ELSE <<>>,
                                !.mixed = ~(Range(cold) \subseteq DOMAIN rows)])
      BY <1>1, <1>7, <1>9, <1>11, <1>15 DEF RankAll
    <3> QED
      BY <1>12, <2>0, <2>01, <2>03, <2>1, <3>1
  <2>3. /\ q \in Asks /\ q.pc = nextPc /\ q.cold = cold /\ q.rel = <<>> /\ q.scored = <<>> /\ q.left = {}
        /\ q.todo = todo /\ q.mixed = mixed
    <3>1. PICK none \in Asks : none = NoAsk
      BY NoAskHolds
    <3>2. none.rel = <<>> /\ none.scored = <<>> /\ none.left = {}
      BY <3>1 DEF NoAsk
    <3>3. q = [none EXCEPT !.pc = nextPc, !.answer = answer, !.cold = cold, !.stubs = M, !.todo = todo,
                           !.mixed = mixed]
      BY <2>1, <3>1
    <3>4. nextPc \in Pcs
      BY <2>02 DEF Pcs
    <3> QED
      BY <1>13, <2>02, <2>03, <3>2, <3>3, <3>4 DEF Asks
  <2>4. Furnished(q) /\ Judged(q) /\ Returns(q)
    BY <2>02, <2>3 DEF Furnished, Judged, Returns
  <2>5. Known(q)
    <3>1. DOMAIN q.rel = {} /\ DOMAIN q.scored = {} /\ q.left = {}
      BY <2>3
    <3>2. ~q.mixed => Range(q.cold) \subseteq DOMAIN rows
      BY <1>12, <2>03, <2>3
    <3> QED
      BY <3>1, <3>2 DEF Known
  <2> QED
    BY <2>2, <2>3, <2>4, <2>5, OneAsk DEF RankAll, Keeps, store
<1> QED
  BY <1>14, <1>15

LEMMA ReadBackendsHolds ==
  ASSUME RecallInv, NEW a \in Askers, ReadBackends(a)
  PROVE  RecallInv'
<1>1. PICK r \in Asks : r = ask[a]
  BY DEF RecallInv, RecallTypeOK
<1>3. r.pc = "backends" /\ Furnished(r) /\ Known(r)
  BY <1>1 DEF ReadBackends, At, RecallInv, AskHolds
<1>4. CASE r.cold = <<>>
  <2>1. PICK q : q = [r EXCEPT !.pc = "answered"]
    OBVIOUS
  <2>2. Puts(a, q)
    BY <1>1, <1>4, <2>1 DEF ReadBackends
  <2>3. /\ q \in Asks /\ q.pc = "answered" /\ q.cold = <<>> /\ q.rel = r.rel /\ q.scored = r.scored
        /\ q.left = r.left /\ q.mixed = r.mixed
    BY <1>4, <2>1 DEF Asks, Pcs
  <2>4. Furnished(q) /\ Known(q) /\ Judged(q) /\ Returns(q)
    BY <1>3, <1>4, <2>3 DEF Furnished, Known, Judged, Returns
  <2> QED
    BY <2>2, <2>3, <2>4, OneAsk DEF ReadBackends, Keeps, store
<1>5. CASE r.cold # <<>>
  <2>1. PICK at : at = <<Local>> \o SetToSeq(Shelves \ {Local})
    OBVIOUS
  <2>2. IsFiniteSet(Shelves \ {Local}) /\ Local \in Shelves
    BY RecallAssumption, FS_Subset
  <2>3. PICK rest : rest = SetToSeq(Shelves \ {Local})
    OBVIOUS
  <2>4. rest \in Seq(Shelves \ {Local}) /\ Range(rest) = Shelves \ {Local}
    BY <2>2, <2>3, InTurn
  <2>5. /\ at \in Seq(Shelves) /\ at # <<>>
        /\ \A s \in Shelves : \E i \in DOMAIN at : at[i] = s
    <3>1. at = <<Local>> \o rest /\ rest \in Seq(Shelves) /\ <<Local>> \in Seq(Shelves)
      BY <2>1, <2>2, <2>3, <2>4
    <3>2. at \in Seq(Shelves) /\ Len(at) = 1 + Len(rest) /\ at[1] = Local /\ Len(rest) \in Nat
      BY <3>1
    <3>3. \A j \in 1..Len(rest) : at[j + 1] = rest[j]
      BY <3>1
    <3>4. DOMAIN at = 1..Len(at) /\ DOMAIN rest = 1..Len(rest)
      BY <3>1, <3>2
    <3>5. \A s \in Shelves \ {Local} : \E i \in DOMAIN at : at[i] = s
      <4> SUFFICES ASSUME NEW s \in Shelves \ {Local} PROVE \E i \in DOMAIN at : at[i] = s
        OBVIOUS
      <4>1. PICK j \in DOMAIN rest : rest[j] = s
        BY <2>4 DEF Range
      <4>2. j \in 1..Len(rest)
        BY <3>4
      <4>3. at[j + 1] = s
        BY <3>3, <4>1, <4>2
      <4>4. j + 1 \in DOMAIN at
        BY <3>2, <3>4, <4>2
      <4> QED
        BY <4>3, <4>4
    <3>6. 1 \in DOMAIN at
      BY <3>2, <3>4
    <3> QED
      BY <3>2, <3>5, <3>6
  <2>6. PICK q : q = [r EXCEPT !.pc = "find", !.todo = r.cold, !.at = at]
    OBVIOUS
  <2>7. Puts(a, q)
    BY <1>1, <1>5, <2>1, <2>6 DEF ReadBackends
  <2>8. /\ q \in Asks /\ q.pc = "find" /\ q.cold = r.cold /\ q.rel = r.rel /\ q.scored = r.scored
        /\ q.left = r.left /\ q.todo = r.cold /\ q.at = at /\ q.mixed = r.mixed
    BY <2>5, <2>6 DEF Asks, Pcs
  <2>9. Furnished(q) /\ Known(q) /\ Judged(q)
    BY <1>3, <1>5, <2>5, <2>8 DEF Furnished, Known, Judged
  <2>10. Returns(q)
    BY <2>5, <2>8 DEF Returns
  <2> QED
    BY <2>7, <2>8, <2>9, <2>10, OneAsk DEF ReadBackends, Keeps, store
<1> QED
  BY <1>4, <1>5

LEMMA AnswerHolds ==
  ASSUME RecallInv, NEW a \in Askers, Answer(a)
  PROVE  RecallInv'
<1>1. Furnished(NoAsk) /\ Known(NoAsk) /\ Judged(NoAsk) /\ Returns(NoAsk)
  BY DEF NoAsk, Furnished, Known, Judged, Returns, Range
<1> QED
  BY <1>1, NoAskHolds, OneAsk DEF Answer, Keeps, store

LEMMA RestOf ==
  ASSUME NEW S, NEW s \in Seq(S), s # <<>>, Len(s) # 1
  PROVE  /\ Tail(s) \in Seq(S) /\ Tail(s) # <<>> /\ Len(Tail(s)) = Len(s) - 1
<1>1. Len(s) \in Nat /\ Len(s) # 0
  OBVIOUS
<1>2. Tail(s) \in Seq(S) /\ Len(Tail(s)) = Len(s) - 1
  BY <1>1
<1>3. Len(Tail(s)) # 0
  BY <1>1, <1>2
<1>4. Len(<<>>) = 0
  OBVIOUS
<1> QED
  BY <1>2, <1>3, <1>4, Zenon

LEMMA RereadHolds ==
  ASSUME RecallInv, NEW a \in Askers, Reread(a)
  PROVE  RecallInv'
<1>1. PICK r \in Asks : r = ask[a]
  BY DEF RecallInv, RecallTypeOK
<1>3. r.pc = "reread" /\ Furnished(r) /\ Known(r) /\ Returns(r)
  BY <1>1 DEF Reread, At, RecallInv, AskHolds
<1>4. r.todo \in Seq(Memories) /\ r.todo # <<>> /\ r.cold # <<>> /\ r.stubs \in SUBSET Memories
  BY <1>3 DEF Asks, Furnished
<1>5. PICK m : m = Head(r.todo)
  OBVIOUS
<1>6. PICK stubs : stubs = IF m \in DOMAIN rows /\ rows[m].bundle = {} THEN r.stubs \ {m} ELSE r.stubs
  OBVIOUS
<1>7. PICK nextPc : nextPc = IF Len(r.todo) = 1 THEN "answered" ELSE "reread"
  OBVIOUS
<1>8. PICK q : q = [r EXCEPT !.todo = Tail(@), !.pc = nextPc, !.stubs = stubs]
  OBVIOUS
<1>9. Puts(a, q)
  BY <1>1, <1>5, <1>6, <1>7, <1>8 DEF Reread
<1>10. /\ q \in Asks /\ q.pc = nextPc /\ q.cold = r.cold /\ q.rel = r.rel /\ q.scored = r.scored /\ q.left = r.left
       /\ q.stubs = stubs /\ q.mixed = r.mixed /\ q.todo = Tail(r.todo) /\ q.failed = r.failed
  <2>1. Tail(r.todo) \in Seq(Memories) /\ stubs \in SUBSET Memories
    BY <1>4, <1>6
  <2> QED
    BY <1>7, <1>8, <2>1 DEF Asks, Pcs
<1>11. nextPc = "reread" => Tail(r.todo) # <<>>
  BY <1>4, <1>7, RestOf
<1>12. Furnished(q) /\ Known(q) /\ Judged(q)
  BY <1>3, <1>4, <1>7, <1>10, <1>11 DEF Furnished, Known, Judged
<1>13. Returns(q)
  <2> SUFFICES ASSUME ~r.mixed PROVE Returns(q)
    BY <1>10 DEF Returns
  <2>1. PICK h \in DOMAIN rows : h = Head(r.cold)
    BY <1>3, <1>4, FirstKnown
  <2>2. OutOfReach(r) \/ (Warm(h) /\ h \notin stubs)
    BY <1>3, <1>4, <1>5, <1>6, <2>1 DEF Returns, Warm
  <2>3. OutOfReach(r) => OutOfReach(q)
    BY <1>10 DEF OutOfReach
  <2> QED
    BY <1>7, <1>10, <2>1, <2>2, <2>3 DEF Returns
<1> QED
  BY <1>9, <1>10, <1>12, <1>13, OneAsk DEF Reread, Keeps, store

\* What promote_nodes does next, after a memory it has passed.
LEMMA NextMemoryIs ==
  ASSUME NEW r \in Asks, r.pc \in {"find", "restore"}, Furnished(r), NEW q, q = NextMemory(r)
  PROVE  /\ q \in Asks /\ Furnished(q) /\ q.pc \in {"find", "reread"} /\ (q.pc = "reread" => q.todo = q.cold)
         /\ q.cold = r.cold /\ q.rel = r.rel /\ q.scored = r.scored /\ q.left = r.left /\ q.mixed = r.mixed
<1>1. /\ r.todo \in Seq(Memories) /\ r.cold \in Seq(Memories) /\ r.at \in Seq(Shelves)
      /\ r.todo # <<>> /\ r.cold # <<>> /\ r.at # <<>>
  BY DEF Asks, Furnished
<1>2. CASE Len(r.todo) = 1
  <2>1. q = [r EXCEPT !.pc = "reread", !.todo = r.cold, !.at = <<>>, !.got = {}]
    BY <1>2 DEF NextMemory, Rereads
  <2>2. q \in Asks
    <3>1. <<>> \in Seq(Shelves)
      OBVIOUS
    <3> QED
      BY <1>1, <2>1, <3>1, ZenonT(40) DEF Asks, Pcs
  <2>3. /\ q.pc = "reread" /\ q.todo = r.cold /\ q.cold = r.cold /\ q.rel = r.rel /\ q.scored = r.scored
        /\ q.left = r.left /\ q.mixed = r.mixed
    BY <2>1 DEF Asks
  <2> QED
    BY <1>1, <2>2, <2>3 DEF Furnished
<1>3. CASE Len(r.todo) # 1
  <2>1. q = [r EXCEPT !.pc = "find", !.todo = Tail(r.todo), !.got = {}]
    BY <1>3 DEF NextMemory
  <2>2. Tail(r.todo) \in Seq(Memories) /\ Tail(r.todo) # <<>>
    BY <1>1, <1>3, RestOf
  <2>3. q \in Asks
    BY <2>1, <2>2, ZenonT(40) DEF Asks, Pcs
  <2>4. /\ q.pc = "find" /\ q.todo = Tail(r.todo) /\ q.cold = r.cold /\ q.rel = r.rel /\ q.scored = r.scored
        /\ q.left = r.left /\ q.mixed = r.mixed /\ q.at = r.at
    BY <2>1 DEF Asks
  <2> QED
    BY <1>1, <2>2, <2>3, <2>4 DEF Furnished
<1> QED
  BY <1>2, <1>3

LEMMA FindHolds ==
  ASSUME RecallInv, NEW a \in Askers, Find(a)
  PROVE  RecallInv'
<1>1. PICK r \in Asks : r = ask[a]
  BY DEF RecallInv, RecallTypeOK
<1>3. r.pc = "find" /\ Furnished(r) /\ Known(r) /\ Returns(r)
  BY <1>1 DEF Find, At, RecallInv, AskHolds
<1>4. /\ r.todo \in Seq(Memories) /\ r.cold \in Seq(Memories) /\ r.at \in Seq(Shelves)
      /\ r.todo # <<>> /\ r.cold # <<>> /\ r.at # <<>>
  BY <1>3 DEF Asks, Furnished
<1>5. PICK m : m = Head(r.todo)
  OBVIOUS
<1>6. ASSUME ~r.mixed
      PROVE  /\ Head(r.cold) \in DOMAIN rows
             /\ \/ Warm(Head(r.cold))
                \/ /\ r.todo = r.cold
                   /\ \A s \in Shelves : rows[m].bundle \in bundles[s] =>
                         <<s, m>> \in r.failed \/ \E i \in DOMAIN r.at : r.at[i] = s
  BY <1>3, <1>4, <1>5, <1>6, FirstKnown DEF Returns
<1>7. PICK h : h = Head(r.cold)
  OBVIOUS
<1>8. CASE m \notin DOMAIN rows \/ rows[m].bundle = {}
  <2>1. PICK q : q = NextMemory(r)
    OBVIOUS
  <2>2. Puts(a, q)
    BY <1>1, <1>5, <1>8, <2>1 DEF Find
  <2>3. /\ q \in Asks /\ Furnished(q) /\ q.pc \in {"find", "reread"} /\ (q.pc = "reread" => q.todo = q.cold)
        /\ q.cold = r.cold /\ q.rel = r.rel /\ q.scored = r.scored /\ q.left = r.left /\ q.mixed = r.mixed
    BY <1>3, <2>1, NextMemoryIs
  <2>4. ~r.mixed => Warm(h)
    BY <1>5, <1>6, <1>7, <1>8 DEF Warm
  <2>5. Known(q) /\ Judged(q) /\ Returns(q)
    BY <1>3, <1>7, <2>3, <2>4 DEF Known, Judged, Returns
  <2> QED
    BY <2>2, <2>3, <2>5, OneAsk DEF Find, Keeps, store
<1>9. CASE /\ m \in DOMAIN rows /\ rows[m].bundle # {}
           /\ Puts(a, [r EXCEPT !.pc = "restore", !.got = rows[m].bundle])
  <2>1. PICK q : q = [r EXCEPT !.pc = "restore", !.got = rows[m].bundle]
    OBVIOUS
  <2>2. Puts(a, q)
    BY <1>9, <2>1
  <2>3. rows[m].bundle \in SUBSET Memories
    BY <1>9, RowsFinite DEF RecallInv, MemoryRows
  <2>4. /\ q \in Asks /\ q.pc = "restore" /\ q.got = rows[m].bundle /\ q.todo = r.todo /\ q.at = r.at
        /\ q.cold = r.cold /\ q.rel = r.rel /\ q.scored = r.scored /\ q.left = r.left /\ q.mixed = r.mixed
    BY <2>1, <2>3 DEF Asks, Pcs
  <2>5. Furnished(q) /\ Known(q) /\ Judged(q)
    BY <1>3, <1>4, <2>4 DEF Furnished, Known, Judged
  <2>6. m \in rows[m].bundle
    BY <1>9 DEF RecallInv, RowsHold
  <2>7. Returns(q)
    BY <1>4, <1>5, <1>6, <1>7, <2>4, <2>6 DEF Returns
  <2> QED
    BY <2>2, <2>4, <2>5, <2>7, OneAsk DEF Find, Keeps, store
<1>10. ASSUME m \in DOMAIN rows, rows[m].bundle # {}, NEW failed \in SUBSET (Shelves \X Memories),
              r.failed \subseteq failed, rows[m].bundle \in bundles[Head(r.at)] => <<Head(r.at), m>> \in failed,
              Puts(a, NextBackend([r EXCEPT !.failed = failed]))
       PROVE  RecallInv'
  <2>1. PICK q : q = NextBackend([r EXCEPT !.failed = failed])
    OBVIOUS
  <2>2. Puts(a, q)
    BY <1>10, <2>1
  <2>3. Head(r.at) = r.at[1] /\ DOMAIN r.at = 1..Len(r.at) /\ Len(r.at) \in Nat /\ Len(r.at) # 0
    BY <1>4
  <2>4. ASSUME ~r.mixed, ~Warm(h)
        PROVE  /\ r.todo = r.cold /\ h = m
               /\ \A s \in Shelves : rows[m].bundle \in bundles[s] =>
                     <<s, m>> \in failed \/ \E i \in 2..Len(r.at) : r.at[i] = s
    <3>1. r.todo = r.cold /\ h = m
      BY <1>5, <1>6, <1>7, <2>4
    <3>2. ASSUME NEW s \in Shelves, rows[m].bundle \in bundles[s], <<s, m>> \notin failed
          PROVE  \E i \in 2..Len(r.at) : r.at[i] = s
      <4>1. PICK i \in DOMAIN r.at : r.at[i] = s
        BY <1>6, <1>7, <1>10, <2>4, <3>2
      <4>2. i # 1
        BY <1>10, <2>3, <3>2, <4>1
      <4> QED
        BY <2>3, <4>1, <4>2
    <3> QED
      BY <3>1, <3>2
  <2>5. CASE Len(r.at) = 1
    <3>1. q = [r EXCEPT !.failed = failed, !.pc = "reread", !.todo = r.cold, !.at = <<>>, !.got = {}]
      <4>1. PICK w : w = [r EXCEPT !.failed = failed]
        OBVIOUS
      <4>2. w.at = r.at /\ w.cold = r.cold
        BY <4>1 DEF Asks
      <4>3. q = [w EXCEPT !.pc = "reread", !.todo = w.cold, !.at = <<>>, !.got = {}]
        BY <2>1, <2>5, <4>1, <4>2 DEF NextBackend, Rereads
      <4> QED
        BY <4>1, <4>2, <4>3
    <3>2. /\ q \in Asks /\ q.pc = "reread" /\ q.todo = r.cold /\ q.cold = r.cold /\ q.rel = r.rel
          /\ q.scored = r.scored /\ q.left = r.left /\ q.mixed = r.mixed /\ q.failed = failed
      <4>1. <<>> \in Seq(Shelves)
        OBVIOUS
      <4> QED
        BY <1>4, <3>1, <4>1 DEF Asks, Pcs
    <3>3. Furnished(q) /\ Known(q) /\ Judged(q)
      BY <1>3, <1>4, <3>2 DEF Furnished, Known, Judged
    <3>4. ASSUME ~r.mixed PROVE Warm(h) \/ OutOfReach(q)
      <4> SUFFICES ASSUME ~Warm(h) PROVE OutOfReach(q)
        OBVIOUS
      <4>1. /\ h = m /\ h = Head(q.cold)
            /\ \A s \in Shelves : rows[m].bundle \in bundles[s] => <<s, m>> \in failed
        BY <1>7, <2>4, <2>5, <3>2, <3>4
      <4>2. \E s \in Shelves : rows[m].bundle \in bundles[s]
        BY <1>10 DEF RecallInv, RowsHold, StubsAreStored
      <4> QED
        BY <3>2, <4>1, <4>2 DEF OutOfReach
    <3>5. Returns(q)
      BY <1>7, <3>2, <3>4 DEF Returns
    <3> QED
      BY <2>2, <3>2, <3>3, <3>5, OneAsk DEF Find, Keeps, store
  <2>6. CASE Len(r.at) # 1
    <3>1. q = [r EXCEPT !.failed = failed, !.pc = "find", !.todo = r.cold, !.at = Tail(r.at)]
      <4>1. PICK w : w = [r EXCEPT !.failed = failed]
        OBVIOUS
      <4>2. w.at = r.at /\ w.cold = r.cold
        BY <4>1 DEF Asks
      <4>3. q = [w EXCEPT !.pc = "find", !.todo = w.cold, !.at = Tail(w.at)]
        BY <2>1, <2>6, <4>1, <4>2 DEF NextBackend
      <4> QED
        BY <4>1, <4>2, <4>3
    <3>2. PICK at : at = Tail(r.at)
      OBVIOUS
    <3>3. at \in Seq(Shelves) /\ at # <<>> /\ Len(at) = Len(r.at) - 1
      BY <1>4, <2>6, <3>2, RestOf
    <3>4. DOMAIN at = 1..(Len(r.at) - 1) /\ \A i \in 1..(Len(r.at) - 1) : at[i] = r.at[i + 1]
      BY <1>4, <3>2, <3>3
    <3>5. /\ q \in Asks /\ q.pc = "find" /\ q.todo = r.cold /\ q.cold = r.cold /\ q.rel = r.rel
          /\ q.scored = r.scored /\ q.left = r.left /\ q.mixed = r.mixed /\ q.at = at /\ q.failed = failed
      BY <1>4, <3>1, <3>2, <3>3 DEF Asks, Pcs
    <3>6. Furnished(q) /\ Known(q) /\ Judged(q)
      BY <1>3, <1>4, <3>3, <3>5 DEF Furnished, Known, Judged
    <3>7. ASSUME ~r.mixed, ~Warm(h), NEW s \in Shelves, rows[h].bundle \in bundles[s]
          PROVE  <<s, h>> \in failed \/ \E i \in DOMAIN at : at[i] = s
      <4> SUFFICES ASSUME <<s, h>> \notin failed PROVE \E i \in DOMAIN at : at[i] = s
        OBVIOUS
      <4>1. PICK i \in 2..Len(r.at) : r.at[i] = s
        BY <2>4, <3>7
      <4>2. i - 1 \in 1..(Len(r.at) - 1) /\ (i - 1) + 1 = i
        BY <2>3
      <4> QED
        BY <3>4, <4>1, <4>2
    <3>8. Returns(q)
      BY <1>7, <3>5, <3>7 DEF Returns
    <3> QED
      BY <2>2, <3>5, <3>6, <3>8, OneAsk DEF Find, Keeps, store
  <2> QED
    BY <2>5, <2>6
<1>12. CASE m \in DOMAIN rows /\ rows[m].bundle # {} /\ rows[m].bundle \notin bundles[Head(r.at)]
  <2>1. Puts(a, NextBackend(r))
    BY <1>1, <1>5, <1>12 DEF Find
  <2>2. r.failed \in SUBSET (Shelves \X Memories) /\ r = [r EXCEPT !.failed = r.failed]
    BY DEF Asks
  <2> QED
    BY <1>10, <1>12, <2>1, <2>2
<1>13. CASE /\ m \in DOMAIN rows /\ rows[m].bundle # {} /\ rows[m].bundle \in bundles[Head(r.at)]
            /\ Puts(a, NextBackend([r EXCEPT !.failed = @ \union {<<Head(r.at), m>>}]))
  <2>1. PICK failed : failed = r.failed \union {<<Head(r.at), m>>}
    OBVIOUS
  <2>2. m \in Memories /\ Head(r.at) \in Shelves
    BY <1>4, <1>5
  <2>3. failed \in SUBSET (Shelves \X Memories)
    BY <2>1, <2>2 DEF Asks
  <2>4. Puts(a, NextBackend([r EXCEPT !.failed = failed]))
    BY <1>13, <2>1
  <2> QED
    BY <1>10, <1>13, <2>1, <2>3, <2>4
<1>14. \/ m \notin DOMAIN rows \/ rows[m].bundle = {}
       \/ rows[m].bundle \notin bundles[Head(r.at)]
       \/ Puts(a, [r EXCEPT !.pc = "restore", !.got = rows[m].bundle])
       \/ Puts(a, NextBackend([r EXCEPT !.failed = @ \union {<<Head(r.at), m>>}]))
  BY <1>1, <1>5 DEF Find
<1> QED
  BY <1>8, <1>9, <1>12, <1>13, <1>14
-----------------------------------------------------------------------------
(* The steps of a recall that write. *)

LEMMA OneAskWrites ==
  ASSUME RecallInv, NEW a \in Askers, NEW q \in Asks, Puts(a, q), Grows, SameFacts, NoColder,
         RecallTypeOK', RowsHold', Furnished(q), Known(q)', Judged(q)', Returns(q)'
  PROVE  RecallInv'
<1>1. ask \in [Askers -> Asks]
  BY DEF RecallInv, RecallTypeOK
<1>2. ask' \in [Askers -> Asks] /\ ask'[a] = q /\ \A b \in Askers \ {a} : ask'[b] = ask[b]
  BY <1>1 DEF Puts
<1>3. AskHolds(a)'
  BY <1>2 DEF AskHolds, Furnished, Known, Judged, Returns, AsLogged, Held, OutOfReach, Warm
<1>4. ASSUME NEW b \in Askers \ {a} PROVE AskHolds(b)'
  BY <1>2, Unnoticed DEF RecallInv
<1> QED
  BY <1>3, <1>4 DEF RecallInv

\* A step that writes only scores, or brings texts back.
LEMMA RowsTouched ==
  ASSUME RecallInv, NEW f, rows' = f, DOMAIN f = DOMAIN rows, f = [m \in DOMAIN rows |-> f[m]],
         UNCHANGED <<logged, bundles>>,
         \A m \in DOMAIN rows : /\ f[m] \in MemoryRows /\ f[m].ts = rows[m].ts
                                /\ f[m].invalid = rows[m].invalid /\ f[m].by = rows[m].by
                                /\ f[m].bundle \in {rows[m].bundle, {}}
  PROVE  /\ Grows /\ SameFacts /\ NoColder /\ RowsHold'
         /\ DOMAIN rows' \subseteq DOMAIN logged' /\ rows' \in [DOMAIN rows' -> MemoryRows]
<1>1. Grows /\ NoColder
  BY DEF Grows, NoColder
<1>2. AsLogged => AsLogged'
  BY DEF AsLogged
<1>3. SameFacts
  BY <1>2 DEF SameFacts
<1>4. DOMAIN rows' \subseteq DOMAIN logged' /\ rows' \in [DOMAIN rows' -> MemoryRows]
  BY DEF RecallInv, RecallTypeOK
<1>5. \A m \in DOMAIN f : f[m].bundle = {} \/ (m \in f[m].bundle /\ \E s \in Shelves : f[m].bundle \in bundles[s])
  <2> SUFFICES ASSUME NEW m \in DOMAIN f
               PROVE  f[m].bundle = {} \/ (m \in f[m].bundle /\ \E s \in Shelves : f[m].bundle \in bundles[s])
    OBVIOUS
  <2>1. m \in DOMAIN rows /\ f[m].bundle \in {rows[m].bundle, {}}
    OBVIOUS
  <2>2. rows[m].bundle = {} \/ (m \in rows[m].bundle /\ \E s \in Shelves : rows[m].bundle \in bundles[s])
    BY <2>1 DEF RecallInv, RowsHold, StubsAreStored
  <2> QED
    BY <2>1, <2>2
<1>6. ASSUME NEW m \in DOMAIN rows PROVE Dated(m)'
  BY DEF RecallInv, RowsHold, Dated
<1>7. RowsHold'
  BY <1>5, <1>6 DEF RecallInv, RowsHold, StubsAreStored
<1> QED
  BY <1>1, <1>3, <1>4, <1>7

LEMMA AskedHolds ==
  ASSUME RecallInv, NEW a \in Askers, NEW words \in Queries, NEW hop \in BOOLEAN, NEW t \in 0..hour,
         Ask(a, words, hop, t)
  PROVE  RecallInv'
<1>0. RecallTypeOK
  BY DEF RecallInv
<1>1. PICK nextPc \in {"answered", "search"} : nextPc = IF words = {} THEN "answered" ELSE "search"
  OBVIOUS
<1>11. PICK mixed \in BOOLEAN : mixed = ~AsLogged
  OBVIOUS
<1>2. PICK q : q = [NoAsk EXCEPT !.pc = nextPc, !.query = words, !.multiHop = hop, !.asOf = t, !.now = hour, !.mixed = mixed]
  OBVIOUS
<1>3. Puts(a, q)
  BY <1>1, <1>11, <1>2 DEF Ask
<1>4. t \in Nat /\ hour \in Nat
  BY <1>0 DEF RecallTypeOK
<1>5. /\ q \in Asks /\ q.pc = nextPc /\ q.cold = <<>> /\ q.rel = <<>> /\ q.scored = <<>> /\ q.left = {} /\ q.mixed = mixed
  BY <1>2, <1>4, NoAskHolds DEF NoAsk, Asks, Pcs
<1>6. Furnished(q)
  BY <1>5 DEF Furnished
<1>7. Known(q)' /\ Returns(q)'
  BY <1>5 DEF Known, Returns, Range
<1>71. Judged(q)'
  <2>1. AsLogged' <=> AsLogged
    BY DEF AsLogged, Ask
  <2> QED
    BY <1>1, <1>11, <1>5, <2>1 DEF Judged
<1>8. UNCHANGED <<logged, rows, primary, bundles, hour, changes>> /\ asks' = asks + 1
  BY DEF Ask
<1>9. embedded' \subseteq DOMAIN logged
  BY <1>0 DEF Ask, RecallTypeOK
<1>10. ask' \in [Askers -> Asks]
  BY <1>0, <1>3, <1>5 DEF Puts, RecallTypeOK
<1>14. RecallTypeOK'
  BY <1>0, <1>8, <1>9, <1>10 DEF RecallTypeOK
<1>12. RowsHold'
  BY <1>8 DEF RecallInv, RowsHold, Dated, StubsAreStored
<1> QED
  BY <1>3, <1>5, <1>6, <1>7, <1>71, <1>8, <1>14, <1>12, StoreStays, OneAskWrites

LEMMA StrengthenHolds ==
  ASSUME RecallInv, NEW a \in Askers, Strengthen(a)
  PROVE  RecallInv'
<1>0. RecallTypeOK
  BY DEF RecallInv
<1>1. PICK r \in Asks : r = ask[a]
  BY <1>0 DEF RecallTypeOK
<1>2. r.pc = "strengthen" /\ Furnished(r) /\ Known(r)
  BY <1>1 DEF Strengthen, At, RecallInv, AskHolds
<1>3. r.todo \in Seq(Memories) /\ r.todo # <<>>
  BY <1>2 DEF Asks, Furnished
<1>4. PICK f : rows' = f
  OBVIOUS
<1>5. PICK m : m = Head(r.todo)
  OBVIOUS
<1>6. f = IF m \in DOMAIN rows THEN [rows EXCEPT ![m].accesses = Min({@ + 1, 2})] ELSE rows
  BY <1>1, <1>4, <1>5 DEF Strengthen
<1>7. rows \in [DOMAIN rows -> MemoryRows]
  BY <1>0 DEF RecallTypeOK
<1>8. DOMAIN f = DOMAIN rows /\ f = [n \in DOMAIN rows |-> f[n]]
  BY <1>6, <1>7
<1>9. ASSUME NEW n \in DOMAIN rows
      PROVE  /\ f[n] \in MemoryRows /\ f[n].ts = rows[n].ts
             /\ f[n].invalid = rows[n].invalid /\ f[n].by = rows[n].by
             /\ f[n].bundle \in {rows[n].bundle, {}}
  <2>1. rows[n] \in MemoryRows
    BY <1>7
  <2>2. CASE n # m
    BY <1>6, <2>1, <2>2
  <2>3. CASE n = m
    <3>1. PICK once \in Nat : once = rows[n].accesses + 1
      BY <2>1 DEF MemoryRows
    <3>2. PICK x \in 0..2 : x = Min({rows[n].accesses + 1, 2})
      <4>1. Min({once, 2}) \in Nat /\ Min({once, 2}) <= 2
        BY MinOf
      <4>2. Min({once, 2}) \in 0..2
        BY <4>1
      <4> QED
        BY <3>1, <4>2
    <3>3. f[n] = [rows[n] EXCEPT !.accesses = x]
      BY <1>6, <1>7, <2>3, <3>2
    <3> QED
      BY <2>1, <3>3 DEF MemoryRows
  <2> QED
    BY <2>2, <2>3
<1>10. UNCHANGED <<logged, embedded, primary, bundles, hour, asks, changes>>
  BY DEF Strengthen, Keeps
<1>11. /\ Grows /\ SameFacts /\ NoColder /\ RowsHold'
       /\ DOMAIN rows' \subseteq DOMAIN logged' /\ rows' \in [DOMAIN rows' -> MemoryRows]
  <2> HIDE DEF Grows, SameFacts, NoColder, RowsHold
  <2> QED
    BY <1>4, <1>8, <1>9, <1>10, RowsTouched
<1>12. PICK nextPc : nextPc = IF Len(r.todo) = 1 THEN "backends" ELSE "strengthen"
  OBVIOUS
<1>13. PICK q : q = [r EXCEPT !.todo = Tail(@), !.pc = nextPc]
  OBVIOUS
<1>14. Puts(a, q)
  BY <1>1, <1>12, <1>13 DEF Strengthen
<1>15. /\ q \in Asks /\ q.pc = nextPc /\ q.cold = r.cold /\ q.rel = r.rel /\ q.scored = r.scored /\ q.left = r.left
       /\ q.todo = Tail(r.todo) /\ q.mixed = r.mixed
  <2>1. Tail(r.todo) \in Seq(Memories)
    BY <1>3
  <2> QED
    BY <1>12, <1>13, <2>1 DEF Asks, Pcs
<1>16. Furnished(q)
  <2>1. nextPc = "strengthen" => Tail(r.todo) # <<>>
    BY <1>3, <1>12, RestOf
  <2> QED
    BY <1>12, <1>15, <2>1 DEF Furnished
<1>17. Known(q)' /\ Judged(q)' /\ Returns(q)'
  BY <1>2, <1>4, <1>8, <1>10, <1>12, <1>15 DEF Known, Judged, Returns
<1>18. RecallTypeOK'
  <2>1. ask' \in [Askers -> Asks]
    BY <1>0, <1>14, <1>15 DEF Puts, RecallTypeOK
  <2> QED
    BY <1>0, <1>4, <1>8, <1>10, <1>11, <2>1 DEF RecallTypeOK
<1> QED
  BY <1>11, <1>14, <1>15, <1>16, <1>17, <1>18, OneAskWrites

LEMMA RestoreHolds ==
  ASSUME RecallInv, NEW a \in Askers, RestoreOne(a)
  PROVE  RecallInv'
<1>0. RecallTypeOK
  BY DEF RecallInv
<1>1. PICK r \in Asks : r = ask[a]
  BY <1>0 DEF RecallTypeOK
<1>2. r.pc = "restore" /\ Furnished(r) /\ Known(r) /\ Returns(r)
  BY <1>1 DEF RestoreOne, At, RecallInv, AskHolds
<1>3. r.cold # <<>>
  BY <1>2 DEF Furnished
<1>4. PICK f : rows' = f
  OBVIOUS
<1>5. PICK m : m = Head(r.todo)
  OBVIOUS
<1>6. f = IF m \in DOMAIN rows \intersect r.got THEN [rows EXCEPT ![m].bundle = {}] ELSE rows
  BY <1>1, <1>4, <1>5 DEF RestoreOne
<1>7. rows \in [DOMAIN rows -> MemoryRows]
  BY <1>0 DEF RecallTypeOK
<1>8. DOMAIN f = DOMAIN rows /\ f = [n \in DOMAIN rows |-> f[n]]
  BY <1>6, <1>7
<1>9. ASSUME NEW n \in DOMAIN rows
      PROVE  /\ f[n] \in MemoryRows /\ f[n].ts = rows[n].ts
             /\ f[n].invalid = rows[n].invalid /\ f[n].by = rows[n].by
             /\ f[n].bundle \in {rows[n].bundle, {}}
  <2>1. rows[n] \in MemoryRows
    BY <1>7
  <2>2. CASE n # m
    BY <1>6, <2>1, <2>2
  <2>3. CASE n = m /\ n \in r.got
    <3>1. f[n] = [rows[n] EXCEPT !.bundle = {}]
      BY <1>6, <1>7, <2>3
    <3> QED
      BY <2>1, <3>1 DEF MemoryRows
  <2>4. CASE n \notin r.got
    BY <1>6, <2>1, <2>4
  <2> QED
    BY <2>2, <2>3, <2>4
<1>10. UNCHANGED <<logged, embedded, primary, bundles, hour, asks, changes>>
  BY DEF RestoreOne, Keeps
<1>11. /\ Grows /\ SameFacts /\ NoColder /\ RowsHold'
       /\ DOMAIN rows' \subseteq DOMAIN logged' /\ rows' \in [DOMAIN rows' -> MemoryRows]
  <2> HIDE DEF Grows, SameFacts, NoColder, RowsHold
  <2> QED
    BY <1>4, <1>8, <1>9, <1>10, RowsTouched
<1>12. PICK q : q = NextMemory(r)
  OBVIOUS
<1>13. Puts(a, q)
  BY <1>1, <1>12 DEF RestoreOne
<1>14. /\ q \in Asks /\ Furnished(q) /\ q.pc \in {"find", "reread"} /\ (q.pc = "reread" => q.todo = q.cold)
       /\ q.cold = r.cold /\ q.rel = r.rel /\ q.scored = r.scored /\ q.left = r.left /\ q.mixed = r.mixed
  BY <1>2, <1>12, NextMemoryIs
<1>15. PICK h : h = Head(r.cold)
  OBVIOUS
<1>16. ASSUME ~r.mixed PROVE h \in DOMAIN rows /\ f[h].bundle = {}
  <2>0. h \in DOMAIN rows
    BY <1>2, <1>3, <1>15, <1>16, FirstKnown
  <2>1. rows[h].bundle = {} \/ (h = m /\ h \in r.got)
    BY <1>2, <1>3, <1>5, <1>15, <1>16 DEF Returns, Warm
  <2>2. CASE rows[h].bundle = {}
    BY <1>9, <2>0, <2>2
  <2>3. CASE h = m /\ h \in r.got
    BY <1>6, <1>7, <2>0, <2>3
  <2> QED
    BY <2>0, <2>1, <2>2, <2>3
<1>17. Known(q)' /\ Judged(q)'
  BY <1>2, <1>4, <1>8, <1>10, <1>14 DEF Known, Judged
<1>18. Returns(q)'
  BY <1>4, <1>14, <1>15, <1>16 DEF Returns, Warm
<1>19. RecallTypeOK'
  <2>1. ask' \in [Askers -> Asks]
    BY <1>0, <1>13, <1>14 DEF Puts, RecallTypeOK
  <2> QED
    BY <1>0, <1>4, <1>8, <1>10, <1>11, <2>1 DEF RecallTypeOK
<1> QED
  BY <1>11, <1>13, <1>14, <1>17, <1>18, <1>19, OneAskWrites
-----------------------------------------------------------------------------
(* The steps of others. *)

\* A step that asks nothing and that no recall can tell.
LEMMA OthersUnnoticed ==
  ASSUME RecallInv, RecallTypeOK', RowsHold', UNCHANGED ask, Grows, SameFacts, NoColder
  PROVE  RecallInv'
<1>1. ASSUME NEW a \in Askers PROVE AskHolds(a)'
  BY Unnoticed DEF RecallInv
<1> QED
  BY <1>1 DEF RecallInv

LEMMA LearnHolds ==
  ASSUME RecallInv, NEW m \in Memories, Learn(m)
  PROVE  RecallInv'
<1>0. RecallTypeOK
  BY DEF RecallInv
<1>1. PICK k \in Nat : logged \in [1..k -> LogEntries] /\ DOMAIN logged = 1..k /\ 1..k \subseteq Memories
  BY <1>0 DEF RecallTypeOK
<1>2. Cardinality(DOMAIN logged) = k
  BY <1>1, FS_Interval
<1>3. m = k + 1
  BY <1>1, <1>2 DEF Learn
<1>4. PICK f, g : rows' = f /\ logged' = g
  OBVIOUS
<1>5. /\ f = [n \in DOMAIN rows \union {m} |-> IF n = m THEN Row(hour) ELSE rows[n]]
      /\ g = [n \in DOMAIN logged \union {m} |-> IF n = m THEN [ts |-> hour, by |-> 0] ELSE logged[n]]
  BY <1>4 DEF Learn, Put
<1>6. DOMAIN logged \union {m} = 1..(k + 1) /\ k + 1 \in Nat /\ m \notin DOMAIN logged /\ DOMAIN rows \subseteq DOMAIN logged
  BY <1>0, <1>1, <1>3, RowsFinite
<1>7. /\ Row(hour) \in MemoryRows /\ Row(hour).by = 0 /\ Row(hour).invalid = 0 /\ Row(hour).bundle = {}
      /\ Row(hour).ts = hour
  BY <1>0 DEF Row, MemoryRows, RecallTypeOK
<1>8. g \in [1..(k + 1) -> LogEntries] /\ 1..(k + 1) \subseteq Memories
  <2>1. [ts |-> hour, by |-> 0] \in LogEntries
    BY <1>0 DEF LogEntries, RecallTypeOK
  <2> QED
    BY <1>1, <1>5, <1>6, <2>1
<1>9. /\ DOMAIN f = DOMAIN rows \union {m} /\ f[m] = Row(hour) /\ \A n \in DOMAIN rows : f[n] = rows[n]
      /\ DOMAIN g = DOMAIN logged \union {m} /\ g[m] = [ts |-> hour, by |-> 0] /\ \A n \in DOMAIN logged : g[n] = logged[n]
  BY <1>5, <1>6
<1>91. f \in [DOMAIN f -> MemoryRows] /\ DOMAIN f \subseteq DOMAIN g
  BY <1>0, <1>5, <1>6, <1>7, <1>9, RowsFinite
<1>10. UNCHANGED <<embedded, primary, bundles, hour, ask, asks, changes>>
  BY DEF Learn
<1>11. RecallTypeOK'
  BY <1>0, <1>4, <1>6, <1>8, <1>9, <1>91, <1>10 DEF RecallTypeOK
<1>12. RowsHold'
  <2>1. \A n \in DOMAIN g : g[n].by # 0 => g[n].by \in DOMAIN g
    BY <1>9 DEF RecallInv, RowsHold
  <2>2. ASSUME NEW n \in DOMAIN f
        PROVE  /\ f[n].ts = g[n].ts /\ (f[n].by = 0 => f[n].invalid = 0)
               /\ f[n].by # 0 => f[n].by \in DOMAIN g /\ f[n].invalid = g[f[n].by].ts
               /\ f[n].bundle = {} \/ n \in f[n].bundle
               /\ f[n].bundle = {} \/ \E s \in Shelves : f[n].bundle \in bundles[s]
    <3>1. CASE n = m
      BY <1>7, <1>9, <3>1
    <3>2. CASE n # m
      <4>1. n \in DOMAIN rows /\ f[n] = rows[n] /\ n \in DOMAIN logged /\ g[n] = logged[n]
        BY <1>6, <1>9, <3>2
      <4> QED
        BY <1>9, <4>1 DEF RecallInv, RowsHold, Dated, StubsAreStored
    <3> QED
      BY <3>1, <3>2
  <2> QED
    BY <1>4, <1>10, <2>1, <2>2 DEF RowsHold, Dated, StubsAreStored
<1>13. Grows /\ NoColder
  BY <1>4, <1>9, <1>10 DEF Grows, NoColder
<1>14. SameFacts
  <2>1. AsLogged => DOMAIN f = DOMAIN g /\ \A n \in DOMAIN f : f[n].by = g[n].by
    BY <1>6, <1>7, <1>9 DEF AsLogged
  <2> QED
    BY <1>4, <1>9, <2>1 DEF SameFacts, AsLogged
<1> QED
  BY <1>10, <1>11, <1>12, <1>13, <1>14, OthersUnnoticed

LEMMA MixedHolds ==
  ASSUME RecallInv, RecallTypeOK', RowsHold', NEW pcs, Mixes(pcs), Grows,
         Reading \subseteq pcs \/ SameFacts, Restoring \subseteq pcs \/ NoColder
  PROVE  RecallInv'
<1>1. ask \in [Askers -> Asks]
  BY DEF RecallInv, RecallTypeOK
<1>2. ASSUME NEW a \in Askers PROVE AskHolds(a)'
  <2>1. PICK x \in BOOLEAN : x = (ask[a].mixed \/ ask[a].pc \in pcs)
    BY <1>1 DEF Asks
  <2>2. ask'[a] = [ask[a] EXCEPT !.mixed = x]
    BY <2>1 DEF Mixes
  <2>3. ask[a].pc \in Reading => x \/ SameFacts
    BY <2>1
  <2>4. ask[a].pc \in Restoring => x \/ NoColder
    BY <2>1
  <2>5. RecallTypeOK /\ RowsHold /\ AskHolds(a) /\ (ask[a].mixed => x)
    BY <2>1 DEF RecallInv
  <2> QED
    BY <2>2, <2>3, <2>4, <2>5, OtherAsk
<1> QED
  BY <1>2 DEF RecallInv

LEMMA MixesType ==
  ASSUME RecallTypeOK, NEW pcs, Mixes(pcs)
  PROVE  ask' \in [Askers -> Asks]
<1>1. ASSUME NEW a \in Askers PROVE [ask[a] EXCEPT !.mixed = @ \/ ask[a].pc \in pcs] \in Asks
  <2>1. ask[a] \in Asks
    BY DEF RecallTypeOK
  <2> QED
    BY <2>1 DEF Asks
<1> QED
  BY <1>1 DEF Mixes

LEMMA SupersededHolds ==
  ASSUME RecallInv, NEW m \in Memories, NEW n \in Memories, Superseded(m, n)
  PROVE  RecallInv'
<1>0. RecallTypeOK
  BY DEF RecallInv
<1>1. PICK k \in Nat : logged \in [1..k -> LogEntries] /\ DOMAIN logged = 1..k /\ 1..k \subseteq Memories
  BY <1>0 DEF RecallTypeOK
<1>2. m \in DOMAIN rows /\ n \in DOMAIN logged /\ m \in DOMAIN logged /\ n # 0 /\ n \in Nat
  BY <1>0, <1>1, RowsFinite DEF Superseded
<1>3. PICK f, g : rows' = f /\ logged' = g
  OBVIOUS
<1>4. f = [rows EXCEPT ![m].invalid = logged[n].ts, ![m].by = n] /\ g = [logged EXCEPT ![m].by = n]
  BY <1>3 DEF Superseded
<1>5. /\ DOMAIN f = DOMAIN rows /\ \A l \in DOMAIN rows \ {m} : f[l] = rows[l]
      /\ DOMAIN g = DOMAIN logged /\ \A l \in DOMAIN logged \ {m} : g[l] = logged[l]
  BY <1>1, <1>4
<1>6. rows[m] \in MemoryRows /\ logged[m] \in LogEntries /\ logged[n] \in LogEntries
  BY <1>0, <1>2, RowsFinite
<1>7. f[m] = [rows[m] EXCEPT !.invalid = logged[n].ts, !.by = n] /\ g[m] = [logged[m] EXCEPT !.by = n]
  BY <1>2, <1>4
<1>8. /\ f[m] \in MemoryRows /\ f[m].by = n /\ f[m].invalid = logged[n].ts /\ f[m].bundle = rows[m].bundle
      /\ f[m].ts = rows[m].ts
  BY <1>2, <1>6, <1>7 DEF MemoryRows, LogEntries
<1>81. g[m] \in LogEntries /\ g[m].by = n /\ g[m].ts = logged[m].ts
  BY <1>2, <1>6, <1>7 DEF LogEntries
<1>82. \A l \in DOMAIN logged : g[l].ts = logged[l].ts
  BY <1>5, <1>81
<1>9. f \in [DOMAIN f -> MemoryRows] /\ g \in [1..k -> LogEntries]
  BY <1>0, <1>1, <1>4, <1>5, <1>8, <1>81, RowsFinite
<1>10. UNCHANGED <<embedded, primary, bundles, hour, asks>> /\ changes' \in Nat /\ Mixes(Reading)
  BY <1>0 DEF Superseded, Changes, RecallTypeOK
<1>11. RecallTypeOK'
  <2>1. ask' \in [Askers -> Asks]
    BY <1>0, <1>10, MixesType
  <2> QED
    BY <1>0, <1>1, <1>3, <1>5, <1>9, <1>10, <2>1 DEF RecallTypeOK
<1>12. \A l \in DOMAIN rows : f[l].ts = rows[l].ts /\ f[l].bundle = rows[l].bundle
  BY <1>5, <1>8
<1>13. RowsHold'
  <2>1. \A l \in DOMAIN g : g[l].by # 0 => g[l].by \in DOMAIN g
    BY <1>2, <1>5, <1>81 DEF RecallInv, RowsHold
  <2>2. ASSUME NEW l \in DOMAIN f
        PROVE  /\ f[l].ts = g[l].ts /\ (f[l].by = 0 => f[l].invalid = 0)
               /\ f[l].by # 0 => f[l].by \in DOMAIN g /\ f[l].invalid = g[f[l].by].ts
    <3>0. l \in DOMAIN rows /\ l \in DOMAIN logged /\ Dated(l)
      BY <1>0, <1>5, RowsFinite DEF RecallInv, RowsHold
    <3>1. CASE l = m
      BY <1>2, <1>5, <1>8, <1>82, <3>0, <3>1 DEF Dated
    <3>2. CASE l # m
      <4>1. f[l] = rows[l]
        BY <1>5, <3>0, <3>2
      <4> QED
        BY <1>5, <1>82, <3>0, <4>1 DEF Dated
    <3> QED
      BY <3>1, <3>2
  <2>3. \A l \in DOMAIN f : f[l].bundle = {} \/ (l \in f[l].bundle /\ \E s \in Shelves : f[l].bundle \in bundles[s])
    BY <1>5, <1>12 DEF RecallInv, RowsHold, StubsAreStored
  <2> QED
    BY <1>3, <1>10, <2>1, <2>2, <2>3 DEF RowsHold, Dated, StubsAreStored
<1>14. Grows /\ NoColder
  BY <1>3, <1>5, <1>10, <1>12 DEF Grows, NoColder
<1> QED
  BY <1>10, <1>11, <1>13, <1>14, MixedHolds

LEMMA WipeHolds ==
  ASSUME RecallInv, WipeRows
  PROVE  RecallInv'
<1>0. RecallTypeOK
  BY DEF RecallInv
<1>1. /\ UNCHANGED <<logged, embedded, primary, bundles, hour, asks>> /\ changes' \in Nat
      /\ Mixes(Reading \union Restoring) /\ rows' = <<>>
  BY <1>0 DEF WipeRows, Changes, RecallTypeOK
<1>2. DOMAIN rows' = {} /\ rows' \in [DOMAIN rows' -> MemoryRows]
  <2>1. DOMAIN <<>> = {} /\ <<>> \in [{} -> MemoryRows]
    OBVIOUS
  <2> QED
    BY <1>1, <2>1
<1>3. RecallTypeOK'
  <2>1. ask' \in [Askers -> Asks]
    BY <1>0, <1>1, MixesType
  <2> QED
    BY <1>0, <1>1, <1>2, <2>1 DEF RecallTypeOK
<1>4. RowsHold'
  BY <1>1, <1>2 DEF RecallInv, RowsHold, StubsAreStored
<1>5. Grows
  BY <1>1 DEF Grows
<1> QED
  BY <1>1, <1>3, <1>4, <1>5, MixedHolds

LEMMA FoldAgainHolds ==
  ASSUME RecallInv, NEW m \in Memories, FoldAgain(m)
  PROVE  RecallInv'
<1>0. RecallTypeOK
  BY DEF RecallInv
<1>1. /\ UNCHANGED <<logged, embedded, primary, bundles, hour, asks>> /\ changes' \in Nat
      /\ Mixes(Reading) /\ m \in DOMAIN logged
  BY <1>0 DEF FoldAgain, Changes, RecallTypeOK
<1>2. PICK f : rows' = f
  OBVIOUS
<1>3. PICK row : row = Row(logged[m].ts)
  OBVIOUS
<1>4. /\ DOMAIN f = DOMAIN rows \union {m} /\ f[m] = row /\ \A n \in DOMAIN rows \ {m} : f[n] = rows[n]
      /\ f = [n \in DOMAIN f |-> f[n]]
  BY <1>2, <1>3 DEF FoldAgain, Put
<1>5. row \in MemoryRows /\ row.ts = logged[m].ts /\ row.by = 0 /\ row.invalid = 0 /\ row.bundle = {}
  <2>1. logged[m].ts \in Nat \ {0}
    BY <1>0, <1>1, RowsFinite DEF LogEntries
  <2> QED
    BY <1>3, <2>1 DEF Row, MemoryRows
<1>6. f \in [DOMAIN f -> MemoryRows] /\ DOMAIN f \subseteq DOMAIN logged
  BY <1>0, <1>1, <1>4, <1>5, RowsFinite
<1>7. RecallTypeOK'
  <2>1. ask' \in [Askers -> Asks]
    BY <1>0, <1>1, MixesType
  <2> QED
    BY <1>0, <1>1, <1>2, <1>6, <2>1 DEF RecallTypeOK
<1>8. RowsHold'
  <2>1. ASSUME NEW n \in DOMAIN f
        PROVE  /\ f[n].ts = logged[n].ts /\ (f[n].by = 0 => f[n].invalid = 0)
               /\ f[n].by # 0 => f[n].by \in DOMAIN logged /\ f[n].invalid = logged[f[n].by].ts
               /\ f[n].bundle = {} \/ n \in f[n].bundle
               /\ f[n].bundle = {} \/ \E s \in Shelves : f[n].bundle \in bundles[s]
    <3>1. CASE n = m
      BY <1>4, <1>5, <3>1
    <3>2. CASE n # m
      <4>1. n \in DOMAIN rows /\ f[n] = rows[n]
        BY <1>4, <3>2
      <4> QED
        BY <4>1 DEF RecallInv, RowsHold, Dated, StubsAreStored
    <3> QED
      BY <3>1, <3>2
  <2> QED
    BY <1>1, <1>2, <2>1 DEF RecallInv, RowsHold, Dated, StubsAreStored
<1>9. Grows /\ NoColder
  BY <1>1, <1>2, <1>4, <1>5 DEF Grows, NoColder
<1> QED
  BY <1>1, <1>7, <1>8, <1>9, MixedHolds

LEMMA TierHolds ==
  ASSUME RecallInv, NEW M \in SUBSET DOMAIN rows, TierOut(M)
  PROVE  RecallInv'
<1>0. RecallTypeOK
  BY DEF RecallInv
<1>1. rows \in [DOMAIN rows -> MemoryRows] /\ DOMAIN rows \subseteq Memories
  BY <1>0, RowsFinite DEF RecallTypeOK
<1>2. PICK f : rows' = f
  OBVIOUS
<1>3. f = [m \in DOMAIN rows |-> IF m \in M THEN [rows[m] EXCEPT !.bundle = M] ELSE rows[m]]
  BY <1>2 DEF TierOut
<1>4. PICK b : bundles' = b
  OBVIOUS
<1>5. primary \in Shelves /\ bundles \in [Shelves -> SUBSET SUBSET Memories] /\ M \subseteq Memories
  BY <1>0, <1>1 DEF RecallTypeOK
<1>6. b \in [Shelves -> SUBSET SUBSET Memories] /\ M \in b[primary] /\ \A s \in Shelves : bundles[s] \subseteq b[s]
  BY <1>4, <1>5 DEF TierOut
<1>7. DOMAIN f = DOMAIN rows
  BY <1>3
<1>8. ASSUME NEW m \in DOMAIN rows
      PROVE  /\ f[m] \in MemoryRows /\ f[m].ts = rows[m].ts /\ f[m].invalid = rows[m].invalid /\ f[m].by = rows[m].by
             /\ f[m].bundle = IF m \in M THEN M ELSE rows[m].bundle
  <2>1. rows[m] \in MemoryRows
    BY <1>1
  <2>2. CASE m \in M
    BY <1>3, <1>5, <2>1, <2>2 DEF MemoryRows
  <2>3. CASE m \notin M
    BY <1>3, <2>1, <2>3
  <2> QED
    BY <2>2, <2>3
<1>9. f \in [DOMAIN f -> MemoryRows]
  BY <1>1, <1>3, <1>7, <1>8
<1>10. UNCHANGED <<logged, embedded, primary, hour, asks>> /\ changes' = changes + 1 /\ Mixes(Restoring)
  BY DEF TierOut, Changes
<1>11. RecallTypeOK'
  <2>1. ask' \in [Askers -> Asks]
    BY <1>0, <1>10, MixesType
  <2>2. changes' \in Nat
    BY <1>0, <1>10 DEF RecallTypeOK
  <2>3. DOMAIN rows' \subseteq DOMAIN logged' /\ rows' \in [DOMAIN rows' -> MemoryRows]
    BY <1>0, <1>2, <1>7, <1>9, <1>10, RowsFinite
  <2>4. bundles' \in [Shelves -> SUBSET SUBSET Memories]
    BY <1>4, <1>6
  <2> QED
    BY <1>0, <1>10, <2>1, <2>2, <2>3, <2>4 DEF RecallTypeOK
<1>12. RowsHold'
  <2>1. ASSUME NEW l \in DOMAIN f PROVE Dated(l)'
    <3>1. l \in DOMAIN rows /\ Dated(l)
      BY <1>7 DEF RecallInv, RowsHold
    <3> QED
      BY <1>2, <1>8, <1>10, <3>1 DEF Dated
  <2>2. \A l \in DOMAIN f : f[l].bundle = {} \/ (l \in f[l].bundle /\ \E s \in Shelves : f[l].bundle \in b[s])
    <3> SUFFICES ASSUME NEW l \in DOMAIN rows
                 PROVE  f[l].bundle = {} \/ (l \in f[l].bundle /\ \E s \in Shelves : f[l].bundle \in b[s])
      BY <1>7
    <3>1. CASE l \in M
      BY <1>5, <1>6, <1>8, <3>1
    <3>2. CASE l \notin M
      <4>1. rows[l].bundle = {} \/ (l \in rows[l].bundle /\ \E s \in Shelves : rows[l].bundle \in bundles[s])
        BY DEF RecallInv, RowsHold, StubsAreStored
      <4>2. f[l].bundle = rows[l].bundle
        BY <1>8, <3>2
      <4> QED
        BY <1>6, <4>1, <4>2
    <3> QED
      BY <3>1, <3>2
  <2> QED
    BY <1>2, <1>4, <1>10, <2>1, <2>2 DEF RecallInv, RowsHold, StubsAreStored
<1>13. Grows /\ SameFacts
  <2>1. AsLogged => AsLogged'
    BY <1>2, <1>7, <1>8, <1>10 DEF AsLogged
  <2> QED
    BY <1>10, <2>1 DEF Grows, SameFacts
<1> QED
  BY <1>10, <1>11, <1>12, <1>13, MixedHolds

LEMMA RecallStarts == RecallInit => RecallInv
<1> SUFFICES ASSUME RecallInit PROVE RecallInv
  OBVIOUS
<1>1. DOMAIN rows = {} /\ rows = <<>> /\ DOMAIN logged = {} /\ logged = <<>>
  BY DEF RecallInit
<1>2. rows \in [DOMAIN rows -> MemoryRows] /\ logged \in [1..0 -> LogEntries] /\ 1..0 \subseteq Memories
  BY <1>1
<1>3. RecallTypeOK
  BY <1>1, <1>2, NoAskHolds DEF RecallInit, RecallTypeOK
<1>4. RowsHold
  BY <1>1 DEF RowsHold, StubsAreStored
<1>5. ASSUME NEW a \in Askers PROVE AskHolds(a)
  BY <1>5 DEF RecallInit, NoAsk, AskHolds, Furnished, Known, Judged, Returns, Range
<1> QED
  BY <1>3, <1>4, <1>5 DEF RecallInv

LEMMA RecallStep == RecallInv /\ [RecallNext]_recallVars => RecallInv'
<1> SUFFICES ASSUME RecallInv, [RecallNext]_recallVars PROVE RecallInv'
  OBVIOUS
<1>1. ASSUME UNCHANGED <<logged, rows, bundles, embedded, ask, asks>>, primary' \in Shelves, hour' \in Nat \ {0}, changes' \in Nat
      PROVE  RecallInv'
  <2>1. RecallTypeOK'
    BY <1>1 DEF RecallInv, RecallTypeOK
  <2>2. RowsHold'
    BY <1>1 DEF RecallInv, RowsHold, Dated, StubsAreStored
  <2> QED
    BY <1>1, <2>1, <2>2, StoreStays, OthersUnnoticed
<1>2. primary \in Shelves /\ hour \in Nat \ {0} /\ changes \in Nat
  BY DEF RecallInv, RecallTypeOK
<1>3. CASE UNCHANGED recallVars
  BY <1>1, <1>2, <1>3 DEF recallVars, store
<1>4. CASE WipeRows
  BY <1>4, WipeHolds
<1>5. CASE Hour
  <2>1. UNCHANGED <<logged, rows, bundles, embedded, ask, asks, primary, changes>> /\ hour' = hour + 1
    BY <1>5 DEF Hour, store
  <2>2. hour' \in Nat \ {0}
    BY <1>2, <2>1
  <2> QED
    BY <1>1, <1>2, <2>1, <2>2
<1>6. ASSUME NEW m \in Memories, Learn(m) \/ FoldAgain(m) \/ \E n \in Memories : Superseded(m, n)
      PROVE  RecallInv'
  BY <1>6, LearnHolds, FoldAgainHolds, SupersededHolds
<1>7. ASSUME NEW s \in Shelves, MovePrimary(s)
      PROVE  RecallInv'
  <2>1. UNCHANGED <<logged, rows, bundles, embedded, ask, asks, hour>> /\ primary' = s /\ UNCHANGED changes
    BY <1>7 DEF MovePrimary
  <2>2. changes' \in Nat /\ primary' \in Shelves /\ hour' \in Nat \ {0}
    BY <1>2, <2>1
  <2> QED
    BY <1>1, <2>1, <2>2
<1>8. ASSUME NEW M \in SUBSET DOMAIN rows, TierOut(M)
      PROVE  RecallInv'
  BY <1>8, TierHolds
<1>9. ASSUME NEW a \in Askers,
             \/ \E q \in Queries, hop \in BOOLEAN, t \in 0..hour : Ask(a, q, hop, t)
             \/ Search(a) \/ Expand(a) \/ Score(a) \/ RankAll(a) \/ Strengthen(a) \/ ReadBackends(a)
             \/ Find(a) \/ RestoreOne(a) \/ Reread(a) \/ Answer(a)
      PROVE  RecallInv'
  BY <1>9, AskedHolds, SearchHolds, ExpandHolds, ScoreHolds, RankHolds, StrengthenHolds, ReadBackendsHolds,
     FindHolds, RestoreHolds, RereadHolds, AnswerHolds
<1> QED
  BY <1>3, <1>4, <1>5, <1>6, <1>7, <1>8, <1>9 DEF RecallNext

LEMMA RecallShows == RecallInv => RecallHolds
<1> SUFFICES ASSUME RecallInv, NEW a \in Askers, ~ask[a].mixed
             PROVE  /\ At(a, "rank") => \A m \in DOMAIN ask[a].rel : m \in DOMAIN ask[a].scored <=> Held(m, ask[a].asOf)
                    /\ At(a, "answered") /\ ask[a].cold # <<>> /\ Head(ask[a].cold) \in ask[a].stubs =>
                          OutOfReach(ask[a])
  BY DEF RecallHolds
<1>1. PICK r \in Asks : r = ask[a]
  BY DEF RecallInv, RecallTypeOK
<1>2. Furnished(r) /\ Judged(r) /\ Returns(r)
  BY <1>1 DEF RecallInv, AskHolds
<1>3. r.pc = "rank" => \A m \in DOMAIN r.rel : m \in DOMAIN r.scored <=> Held(m, r.asOf)
  BY <1>1, <1>2 DEF Furnished, Judged
<1>4. r.pc = "answered" /\ r.cold # <<>> /\ Head(r.cold) \in r.stubs => OutOfReach(r)
  BY <1>1, <1>2 DEF Returns
<1> QED
  BY <1>1, <1>3, <1>4 DEF At

\* A recall under which no row moves scores exactly what the log says was true at the time
\* asked about, and the first cold memory of its answer comes back warm from whichever
\* backend has it, unless each that has it fails.
THEOREM RecallAnswers == RecallSpec => []RecallHolds
<1>1. RecallInit => RecallInv
  BY RecallStarts
<1>2. RecallInv /\ [RecallNext]_recallVars => RecallInv'
  BY RecallStep
<1>3. RecallInv => RecallHolds
  BY RecallShows
<1> QED
  BY <1>1, <1>2, <1>3, PTL DEF RecallSpec
-----------------------------------------------------------------------------
(* Communities. *)

LEMMA MinIsIn ==
  ASSUME NEW S, S \subseteq Nat, S # {}
  PROVE  Min(S) \in S /\ \A n \in S : Min(S) <= n
<1>1. \E x \in S : \A y \in S : x =< y
  BY LeastOf
<1> QED
  BY <1>1 DEF Min

LEMMA Incident ==
  ASSUME NEW graph, graph \subseteq Pairs, NEW v \in UNION graph
  PROVE  /\ v \in Vertices /\ Neighbours(graph, v) # {} /\ Neighbours(graph, v) \subseteq Vertices
         /\ IsFiniteSet(Neighbours(graph, v)) /\ Neighbours(graph, v) \subseteq UNION graph
<1>1. PICK e \in graph : v \in e
  OBVIOUS
<1>2. e \subseteq Vertices /\ Cardinality(e) = 2
  BY DEF Pairs
<1>3. PICK w \in e : w # v
  <2> SUFFICES ASSUME \A w \in e : w = v PROVE FALSE
    OBVIOUS
  <2>1. e = {v}
    BY <1>1
  <2>2. Cardinality({v}) = 1
    BY FS_Singleton
  <2> QED
    BY <1>2, <2>1, <2>2
<1>4. e = {v, w}
  <2> SUFFICES ASSUME NEW x \in e, x # v, x # w PROVE FALSE
    BY <1>1
  <2>1. IsFiniteSet(e)
    BY <1>2, CommunitiesAssumption, FS_Subset
  <2>2. Cardinality({v, w, x}) = 3
    <3>1. Cardinality({v}) = 1 /\ IsFiniteSet({v})
      BY FS_Singleton
    <3>2. Cardinality({v} \union {w}) = 2 /\ IsFiniteSet({v} \union {w})
      <4>1. w \notin {v}
        BY <1>3
      <4>2. Cardinality({v} \union {w}) = Cardinality({v}) + 1 /\ IsFiniteSet({v} \union {w})
        BY <3>1, <4>1, FS_AddElement, Zenon
      <4> QED
        BY <3>1, <4>2
    <3>3. Cardinality({v} \union {w} \union {x}) = 3
      <4>1. x \notin {v} \union {w}
        OBVIOUS
      <4>2. Cardinality({v} \union {w} \union {x}) = Cardinality({v} \union {w}) + 1
        BY <3>2, <4>1, FS_AddElement, Zenon
      <4> QED
        BY <3>2, <4>2
    <3>4. {v} \union {w} \union {x} = {v, w, x}
      OBVIOUS
    <3> QED
      BY <3>3, <3>4
  <2>3. {v, w, x} \subseteq e
    BY <1>1, <1>3
  <2>4. Cardinality({v, w, x}) <= Cardinality(e)
    BY <2>1, <2>3, FS_Subset
  <2> QED
    BY <1>2, <2>2, <2>4
<1>5. w \in Neighbours(graph, v)
  BY <1>1, <1>2, <1>3, <1>4 DEF Neighbours
<1>6. Neighbours(graph, v) \subseteq Vertices /\ Neighbours(graph, v) \subseteq UNION graph
  BY DEF Neighbours
<1>7. IsFiniteSet(Neighbours(graph, v))
  BY <1>6, CommunitiesAssumption, FS_Subset
<1> QED
  BY <1>1, <1>2, <1>5, <1>6, <1>7

\* The label that a vertex takes is one of a neighbour.
LEMMA BestIsNear ==
  ASSUME NEW graph, graph \subseteq Pairs, NEW v \in UNION graph, NEW label \in [Vertices -> Vertices]
  PROVE  \E w \in Neighbours(graph, v) : Best(graph, label, v) = label[w]
<1> DEFINE near == Neighbours(graph, v)
           count(l) == Cardinality({w \in near : label[w] = l})
           around == {label[w] : w \in near}
           best == {l \in around : \A k \in around : count(k) <= count(l)}
<1>1. near \subseteq Vertices /\ near # {} /\ IsFiniteSet(near)
  BY Incident
<1> HIDE DEF near
<1>2. around # {} /\ around \subseteq Nat
  BY <1>1, CommunitiesAssumption
<1>3. Cardinality(near) \in Nat
  BY <1>1, FS_CardinalityType
<1>4. \A l : count(l) \in Nat /\ count(l) <= Cardinality(near)
  <2> SUFFICES ASSUME NEW l PROVE count(l) \in Nat /\ count(l) <= Cardinality(near)
    OBVIOUS
  <2>1. {w \in near : label[w] = l} \subseteq near
    OBVIOUS
  <2>2. IsFiniteSet({w \in near : label[w] = l}) /\ Cardinality({w \in near : label[w] = l}) <= Cardinality(near)
    BY <1>1, <2>1, FS_Subset
  <2> QED
    BY <2>2, FS_CardinalityType
<1> HIDE DEF count, around
<1> DEFINE Gaps == {n \in Nat : \E l \in around : count(l) = Cardinality(near) - n}
<1>5. Gaps # {}
  <2>1. PICK l \in around : TRUE
    BY <1>2
  <2>2. Cardinality(near) - count(l) \in Nat /\ count(l) = Cardinality(near) - (Cardinality(near) - count(l))
    BY <1>3, <1>4
  <2> QED
    BY <2>2
<1>6. PICK n \in Gaps : \A m \in Gaps : n <= m
  <2> HIDE DEF Gaps
  <2>1. Gaps \subseteq Nat
    BY DEF Gaps
  <2> QED
    BY <1>5, <2>1, LeastOf
<1>7. PICK l \in around : count(l) = Cardinality(near) - n
  OBVIOUS
<1>8. \A k \in around : count(k) <= count(l)
  <2> SUFFICES ASSUME NEW k \in around PROVE count(k) <= count(l)
    OBVIOUS
  <2>1. Cardinality(near) - count(k) \in Gaps
    BY <1>3, <1>4
  <2>2. n <= Cardinality(near) - count(k)
    BY <1>6, <2>1
  <2> QED
    BY <1>3, <1>4, <1>7, <2>2
<1>9. best # {} /\ best \subseteq Nat
  BY <1>2, <1>8
<1>10. Min(best) \in best
  <2> HIDE DEF best
  <2> QED
    BY <1>9, MinIsIn
<1>11. Best(graph, label, v) = Min(best)
  BY DEF Best, best, around, count, near
<1>12. Best(graph, label, v) \in around
  BY <1>10, <1>11
<1> QED
  BY <1>12 DEF around, near

LEMMA InGraphIsIn ==
  ASSUME NEW graph, graph \subseteq Pairs
  PROVE  InGraph(graph) \in Seq(UNION graph)
<1> DEFINE V == UNION graph
<1>1. V \subseteq Vertices /\ IsFiniteSet(V)
  <2>1. V \subseteq Vertices
    BY DEF Pairs
  <2> QED
    BY <2>1, CommunitiesAssumption, FS_Subset
<1>2. V \subseteq Nat
  BY <1>1, CommunitiesAssumption
<1> HIDE DEF V
<1>3. PICK above : above = [v \in V |-> {w \in V : w < v}]
  OBVIOUS
<1>4. Lined(V, above)
  <2>1. above \in [V -> SUBSET V]
    BY <1>3
  <2>2. \A m \in V : m \notin above[m]
    BY <1>2, <1>3
  <2>3. \A m, n \in V : m = n \/ m \in above[n] \/ n \in above[m]
    BY <1>2, <1>3
  <2>4. \A m, n \in V : n \in above[m] => above[n] \subseteq above[m]
    <3> SUFFICES ASSUME NEW m \in V, NEW n \in V, n < m, NEW l \in V, l < n PROVE l < m
      BY <1>3
    <3>1. l \in Nat /\ m \in Nat /\ n \in Nat
      BY <1>2
    <3> QED
      BY <3>1
  <2> QED
    BY <2>1, <2>2, <2>3, <2>4 DEF Lined
<1>5. \A n \in 1..Cardinality(V) : \E v \in V : Cardinality(above[v]) = n - 1
  BY <1>1, <1>4, LineFull, Zenon
<1>6. Cardinality(V) \in Nat
  BY <1>1, FS_CardinalityType
<1> DEFINE e(n) == CHOOSE v \in V : Cardinality({w \in V : w < v}) = n - 1
<1>7. \A n \in 1..Cardinality(V) : e(n) \in V
  <2> SUFFICES ASSUME NEW n \in 1..Cardinality(V) PROVE e(n) \in V
    OBVIOUS
  <2>1. \E v \in V : Cardinality({w \in V : w < v}) = n - 1
    BY <1>3, <1>5
  <2> QED
    BY <2>1
<1>8. InGraph(graph) = [n \in 1..Cardinality(V) |-> e(n)]
  BY DEF InGraph, V
<1> HIDE DEF e
<1>9. InGraph(graph) \in Seq(V)
  BY <1>6, <1>7, <1>8
<1> QED
  BY <1>9 DEF V

LEMMA RoundTyped ==
  ASSUME NEW graph, graph \subseteq Pairs, NEW label \in [Vertices -> Vertices]
  PROVE  Round(graph, label) \in [Vertices -> Vertices]
<1> DEFINE D == [Vertices -> Vertices]
<1>1. PICK order : order = InGraph(graph)
  OBVIOUS
<1>2. order \in Seq(UNION graph)
  BY <1>1, InGraphIsIn
<1>3. PICK k \in Nat : k = Len(order)
  BY <1>2
<1>4. \A n \in 1..k : order[n] \in UNION graph
  BY <1>2, <1>3
<1>5. \A n \in 1..k, l \in D : [l EXCEPT ![order[n]] = Best(graph, l, order[n])] \in D
  <2> SUFFICES ASSUME NEW n \in 1..k, NEW l \in D
               PROVE  [l EXCEPT ![order[n]] = Best(graph, l, order[n])] \in D
    OBVIOUS
  <2>1. Best(graph, l, order[n]) \in Vertices
    BY <1>4, BestIsNear, Incident
  <2> QED
    BY <2>1
<1>6. PICK move : move = [n \in 1..k |-> [l \in D |-> [l EXCEPT ![order[n]] = Best(graph, l, order[n])]]]
  OBVIOUS
<1> HIDE DEF D
<1>7. move \in [1..k -> [D -> D]]
  BY <1>5, <1>6
<1>8. label \in D
  BY DEF D
<1>9. PICK f \in [0..k -> D] : f[0] = label /\ \A n \in 1..k : f[n] = move[n][f[n - 1]]
  <2>1. \E f \in [0..k -> D] : f[0] = label /\ \A n \in 1..k : f[n] = move[n][f[n - 1]]
    <3>1. move \in Mappings(D, k)
      BY <1>7 DEF Mappings
    <3>2. Iterated(D, k, label, move)
      BY <1>3, <1>8, <3>1, RecursionExists, Zenon
    <3> QED
      BY <3>2 DEF Iterated
  <2> QED
    BY <2>1, Zenon
<1> DEFINE Seen(g) == g = [n \in 0..k |-> IF n = 0 THEN label ELSE [g[n - 1] EXCEPT ![order[n]] = Best(graph, g[n - 1], order[n])]]
<1>10. Seen(f)
  <2>1. \A n \in 1..k : f[n - 1] \in D
    BY <1>9
  <2>2. \A n \in 1..k : f[n] = [f[n - 1] EXCEPT ![order[n]] = Best(graph, f[n - 1], order[n])]
    BY <1>6, <1>9, <2>1
  <2>3. f = [n \in 0..k |-> f[n]]
    BY <1>9
  <2>4. \A n \in 0..k : n = 0 \/ n \in 1..k
    OBVIOUS
  <2>5. \A n \in 0..k : f[n] = IF n = 0 THEN label ELSE [f[n - 1] EXCEPT ![order[n]] = Best(graph, f[n - 1], order[n])]
    BY <1>9, <2>2, <2>4
  <2> QED
    BY <2>3, <2>5
<1>11. Round(graph, label) = (CHOOSE g : Seen(g))[k]
  BY <1>1, <1>3 DEF Round
<1>12. PICK g : g = CHOOSE h : Seen(h)
  OBVIOUS
<1>13. Seen(g)
  <2> HIDE DEF Seen
  <2> QED
    BY <1>10, <1>12, Zenon
<1>14. g \in [0..k -> D]
  <2>1. g = [n \in 0..k |-> g[n]] /\ g[0] = label
    BY <1>13
  <2>2. \A n \in 1..k : g[n - 1] \in D => g[n] \in D
    <3> SUFFICES ASSUME NEW n \in 1..k, g[n - 1] \in D PROVE g[n] \in D
      OBVIOUS
    <3>1. n \in 0..k /\ n # 0
      OBVIOUS
    <3>2. g[n] = [g[n - 1] EXCEPT ![order[n]] = Best(graph, g[n - 1], order[n])]
      BY <1>13, <3>1
    <3> QED
      BY <1>5, <3>2
  <2> HIDE DEF Seen
  <2> QED
    BY <1>8, <2>1, <2>2, RecursionTyped
<1> HIDE DEF Seen
<1>15. g[k] \in D
  BY <1>14
<1> QED
  BY <1>11, <1>12, <1>15 DEF D

LEMMA RoundsTyped ==
  ASSUME NEW graph, graph \subseteq Pairs, NEW m \in Nat
  PROVE  Rounds(graph, m) \in [Vertices -> Vertices]
<1> DEFINE D == [Vertices -> Vertices]
<1>1. PICK base : base = [v \in Vertices |-> v]
  OBVIOUS
<1>2. base \in D
  BY <1>1
<1>3. \A l \in D : Round(graph, l) \in D
  BY RoundTyped
<1>4. PICK move : move = [n \in 1..m |-> [l \in D |-> Round(graph, l)]]
  OBVIOUS
<1> HIDE DEF D
<1>5. move \in Mappings(D, m)
  BY <1>3, <1>4 DEF Mappings
<1>6. Iterated(D, m, base, move)
  BY <1>2, <1>5, RecursionExists, Zenon
<1>7. PICK f \in [0..m -> D] : f[0] = base /\ \A n \in 1..m : f[n] = move[n][f[n - 1]]
  BY <1>6 DEF Iterated
<1> DEFINE Labels(g) == g = [n \in 0..m |-> IF n = 0 THEN base ELSE Round(graph, g[n - 1])]
<1>8. Labels(f)
  <2>1. \A n \in 1..m : f[n - 1] \in D
    BY <1>7
  <2>2. \A n \in 1..m : f[n] = Round(graph, f[n - 1])
    BY <1>4, <1>7, <2>1
  <2>3. f = [n \in 0..m |-> f[n]]
    BY <1>7
  <2>4. \A n \in 0..m : n = 0 \/ n \in 1..m
    OBVIOUS
  <2>5. \A n \in 0..m : f[n] = IF n = 0 THEN base ELSE Round(graph, f[n - 1])
    BY <1>7, <2>2, <2>4
  <2> QED
    BY <2>3, <2>5
<1>9. Rounds(graph, m) = (CHOOSE g : Labels(g))[m]
  BY <1>1 DEF Rounds
<1>10. PICK g : g = CHOOSE h : Labels(h)
  OBVIOUS
<1>11. Labels(g)
  <2> HIDE DEF Labels
  <2> QED
    BY <1>8, <1>10, Zenon
<1>12. g \in [0..m -> D]
  <2>1. g = [n \in 0..m |-> g[n]] /\ g[0] = base
    BY <1>11
  <2>2. \A n \in 1..m : g[n - 1] \in D => g[n] \in D
    <3> SUFFICES ASSUME NEW n \in 1..m, g[n - 1] \in D PROVE g[n] \in D
      OBVIOUS
    <3>1. n \in 0..m /\ n # 0
      OBVIOUS
    <3>2. g[n] = Round(graph, g[n - 1])
      BY <1>11, <3>1
    <3> QED
      BY <1>3, <3>2
  <2> HIDE DEF Labels
  <2> QED
    BY <1>2, <2>1, <2>2, RecursionTyped
<1> HIDE DEF Labels
<1>13. g[m] \in D
  BY <1>12
<1> QED
  BY <1>9, <1>10, <1>13 DEF D
-----------------------------------------------------------------------------
(* The communities of a graph. *)

LEMMA GroupsFinite ==
  ASSUME NEW graph, graph \subseteq Pairs
  PROVE  /\ Detected(graph) \subseteq SUBSET Vertices /\ IsFiniteSet(Detected(graph))
         /\ (graph = {} => Detected(graph) = {})
<1> DEFINE label == Rounds(graph, MAX_ITERATIONS)
<1>1. UNION graph \subseteq Vertices
  BY DEF Pairs
<1>2. Detected(graph) \subseteq SUBSET Vertices
  BY <1>1 DEF Detected, Groups
<1>3. IsFiniteSet(SUBSET Vertices)
  BY CommunitiesAssumption, FS_SUBSET
<1>4. IsFiniteSet(Detected(graph))
  BY <1>2, <1>3, FS_Subset
<1>5. ASSUME graph = {} PROVE Detected(graph) = {}
  <2> SUFFICES ASSUME NEW g \in Detected(graph) PROVE FALSE
    OBVIOUS
  <2>1. Cardinality(g) >= MIN_COMMUNITY_SIZE /\ g \subseteq UNION graph
    BY DEF Detected, Groups
  <2>2. g = {}
    BY <1>5, <2>1
  <2> QED
    BY <2>1, <2>2, CommunitiesAssumption, FS_EmptySet
<1> QED
  BY <1>2, <1>4, <1>5

LEMMA OneGroup ==
  ASSUME NEW graph, NEW f \in Detected(graph), NEW g \in Detected(graph), NEW v \in f, v \in g
  PROVE  f = g
<1> DEFINE label == Rounds(graph, MAX_ITERATIONS)
<1>1. Detected(graph) \subseteq {{u \in UNION graph : label[u] = l} : l \in Vertices}
  BY DEF Detected, Groups
<1> HIDE DEF label
<1>2. PICK l \in Vertices : f = {u \in UNION graph : label[u] = l}
  BY <1>1
<1>3. PICK k \in Vertices : g = {u \in UNION graph : label[u] = k}
  BY <1>1
<1> QED
  BY <1>2, <1>3

LEMMA SettledGroup ==
  ASSUME NEW graph, graph \subseteq Pairs, Stable(graph), NEW v \in UNION graph
  PROVE  \E g \in Detected(graph) : v \in g /\ Neighbours(graph, v) \intersect g # {}
<1>1. PICK label : label = Rounds(graph, MAX_ITERATIONS)
  OBVIOUS
<1>2. label \in [Vertices -> Vertices]
  BY <1>1, CommunitiesAssumption, RoundsTyped
<1>3. Best(graph, label, v) = label[v]
  BY <1>1 DEF Stable
<1>4. PICK w \in Neighbours(graph, v) : label[w] = label[v]
  BY <1>2, <1>3, BestIsNear
<1>5. v \in Vertices /\ w \in UNION graph /\ w \in Vertices /\ w # v
  BY Incident DEF Neighbours
<1>6. PICK g : g = {u \in UNION graph : label[u] = label[v]}
  OBVIOUS
<1>7. v \in g /\ w \in g /\ g \subseteq Vertices
  BY <1>4, <1>5, <1>6 DEF Pairs
<1>8. Cardinality(g) >= 2
  <2>1. IsFiniteSet(g)
    BY <1>7, CommunitiesAssumption, FS_Subset
  <2>2. Cardinality({v}) = 1 /\ IsFiniteSet({v})
    BY FS_Singleton
  <2>3. Cardinality({v} \union {w}) = 2
    <3>1. w \notin {v}
      BY <1>5
    <3>2. Cardinality({v} \union {w}) = Cardinality({v}) + 1
      BY <2>2, <3>1, FS_AddElement
    <3> QED
      BY <2>2, <3>2
  <2>4. {v} \union {w} \subseteq g
    BY <1>7
  <2>5. Cardinality({v} \union {w}) <= Cardinality(g)
    BY <2>1, <2>4, FS_Subset
  <2> QED
    BY <2>1, <2>3, <2>5, FS_CardinalityType
<1>9. Cardinality(g) \in Nat
  BY <1>7, CommunitiesAssumption, FS_Subset, FS_CardinalityType
<1>10. Cardinality(g) >= MIN_COMMUNITY_SIZE
  BY <1>8, <1>9, CommunitiesAssumption
<1>11. label[v] \in Vertices
  BY <1>2, <1>5
<1>12. g \in Detected(graph)
  BY <1>1, <1>6, <1>10, <1>11 DEF Detected, Groups
<1> QED
  BY <1>7, <1>12

\* A question that names a vertex of one community is answered with that community.
LEMMA NamedIsFound ==
  ASSUME IsFiniteSet(communities), NEW v, NEW g \in communities, v \in g,
         \A f \in communities : v \in f => f = g, NEW H \in AskNetwork({v}, ASK_TOP_K)
  PROVE  g \in H
<1> SUFFICES ASSUME g \notin H PROVE FALSE
  OBVIOUS
<1> DEFINE k == Min({ASK_TOP_K, Cardinality(communities)})
<1>1. H \subseteq communities /\ Cardinality(H) = k
  BY DEF AskNetwork
<1>2. Cardinality(communities) \in Nat /\ Cardinality(communities) # 0
  BY FS_CardinalityType, FS_EmptySet
<1>3. k \in {ASK_TOP_K, Cardinality(communities)}
  <2>1. {ASK_TOP_K, Cardinality(communities)} \subseteq Nat
    BY <1>2, CommunitiesAssumption
  <2> QED
    BY <2>1, MinIsIn
<1>4. k # 0
  BY <1>2, <1>3, CommunitiesAssumption
<1> HIDE DEF k
<1>5. H # {}
  BY <1>1, <1>4, FS_EmptySet
<1>6. PICK f \in H : f # g
  BY <1>5
<1>7. Shared({v}, f) >= Shared({v}, g)
  BY <1>6 DEF AskNetwork
<1>8. {v} \intersect f = {} /\ {v} \intersect g = {v}
  BY <1>1, <1>6
<1>9. Shared({v}, f) = 0 /\ Shared({v}, g) = 1
  BY <1>8, FS_EmptySet, FS_Singleton DEF Shared
<1> QED
  BY <1>7, <1>9
-----------------------------------------------------------------------------
(* The cycles. *)

NetworkTypeOK ==
  /\ linked \subseteq Pairs /\ builtOf \subseteq Pairs /\ torn \in BOOLEAN
  /\ communities \subseteq SUBSET Vertices
  /\ cycle \in [Cycles -> [pc : {"idle", "delete", "insert"}, graph : SUBSET Pairs, todo : SUBSET SUBSET Vertices]]

Alone == ~torn => \A c, d \in Cycles : cycle[c].pc # "idle" /\ cycle[d].pc # "idle" => c = d

\* What a cycle has still to write.
Writes(c) ==
  /\ cycle[c].pc = "delete" => cycle[c].todo = Detected(cycle[c].graph)
  /\ cycle[c].pc = "insert" /\ ~torn =>
       /\ cycle[c].todo \subseteq Detected(cycle[c].graph)
       /\ communities = Detected(cycle[c].graph) \ cycle[c].todo

NetworkInv ==
  /\ NetworkTypeOK /\ Alone
  /\ \A c \in Cycles : Writes(c)
  /\ torn \/ (\E c \in Cycles : cycle[c].pc = "insert") \/ communities = Detected(builtOf)

LEMMA NetworkStarts == NetworkInit => NetworkInv
<1> SUFFICES ASSUME NetworkInit PROVE NetworkInv
  OBVIOUS
<1>1. {} \subseteq Pairs /\ Detected({}) = {}
  BY GroupsFinite
<1> QED
  BY <1>1 DEF NetworkInit, NetworkInv, NetworkTypeOK, Alone, Writes, Idle

LEMMA MapShows == NetworkInv => MapIsWhole
<1> SUFFICES ASSUME NetworkInv, communities = Detected(builtOf), NEW v \in UNION builtOf
             PROVE  /\ Stable(builtOf) => \E g \in communities : v \in g /\ Neighbours(builtOf, v) \intersect g # {}
                    /\ \A g \in communities : v \in g =>
                         /\ \A f \in communities : v \in f => f = g
                         /\ \A H \in AskNetwork({v}, ASK_TOP_K) : g \in H
  BY DEF NetworkInv, MapIsWhole
<1>1. builtOf \subseteq Pairs
  BY DEF NetworkInv, NetworkTypeOK
<1>2. Stable(builtOf) => \E g \in communities : v \in g /\ Neighbours(builtOf, v) \intersect g # {}
  BY <1>1, SettledGroup
<1>3. IsFiniteSet(communities)
  BY <1>1, GroupsFinite
<1>4. \A f, g \in communities : v \in f /\ v \in g => f = g
  BY OneGroup
<1>5. ASSUME NEW g \in communities, v \in g
      PROVE  \A H \in AskNetwork({v}, ASK_TOP_K) : g \in H
  BY <1>3, <1>4, <1>5, NamedIsFound
<1> QED
  BY <1>2, <1>4, <1>5

LEMMA NetworkStep == NetworkInv /\ [NetworkNext]_networkVars => NetworkInv'
<1> SUFFICES ASSUME NetworkInv, [NetworkNext]_networkVars PROVE NetworkInv'
  OBVIOUS
<1>1. NetworkTypeOK /\ Alone /\ \A c \in Cycles : Writes(c)
  BY DEF NetworkInv
<1>2. torn \/ (\E c \in Cycles : cycle[c].pc = "insert") \/ communities = Detected(builtOf)
  BY DEF NetworkInv
<1> DEFINE Records == [pc : {"idle", "delete", "insert"}, graph : SUBSET Pairs, todo : SUBSET SUBSET Vertices]
<1>3. cycle \in [Cycles -> Records] /\ communities \subseteq SUBSET Vertices
  BY <1>1 DEF NetworkTypeOK
<1>4. Idle \in Records /\ Idle.pc = "idle"
  BY DEF Idle
<1>5. ASSUME UNCHANGED <<communities, cycle, builtOf, torn>>, linked' \subseteq Pairs
      PROVE  NetworkInv'
  BY <1>1, <1>2, <1>5 DEF NetworkInv, NetworkTypeOK, Alone, Writes
<1>6. CASE UNCHANGED networkVars
  BY <1>1, <1>5, <1>6 DEF networkVars, NetworkTypeOK
<1>7. ASSUME NEW e \in Pairs, Edit(e) PROVE NetworkInv'
  <2>1. linked' \subseteq Pairs
    BY <1>1, <1>7 DEF Edit, NetworkTypeOK
  <2> QED
    BY <1>5, <1>7, <2>1 DEF Edit
<1>8. ASSUME NEW c \in Cycles, Detect(c) PROVE NetworkInv'
  <2>1. linked \subseteq Pairs /\ Detected(linked) \subseteq SUBSET Vertices
    BY <1>1, GroupsFinite DEF NetworkTypeOK
  <2>2. PICK r \in Records : r = [pc |-> "delete", graph |-> linked, todo |-> Detected(linked)]
    BY <2>1
  <2>3. cycle' = [cycle EXCEPT ![c] = r] /\ cycle[c].pc = "idle" /\ torn' = (torn \/ Busy(c))
        /\ UNCHANGED <<linked, communities, builtOf>>
    BY <1>8, <2>2 DEF Detect, Steps
  <2>4. r.pc = "delete" /\ r.todo = Detected(r.graph)
    BY <2>2
  <2> HIDE DEF Records
  <2>5. cycle' \in [Cycles -> Records] /\ cycle'[c] = r /\ \A d \in Cycles \ {c} : cycle'[d] = cycle[d]
    BY <1>3, <2>3
  <2>6. NetworkTypeOK'
    BY <1>1, <2>3, <2>5 DEF NetworkTypeOK, Records, Busy
  <2>7. ~torn' => ~torn /\ \A d \in Cycles \ {c} : cycle[d].pc = "idle"
    BY <2>3 DEF Busy
  <2>8. Alone'
    BY <2>5, <2>7 DEF Alone
  <2>9. \A d \in Cycles : Writes(d)'
    BY <1>1, <2>3, <2>4, <2>5, <2>7 DEF Writes
  <2>10. torn' \/ (\E d \in Cycles : cycle'[d].pc = "insert") \/ communities' = Detected(builtOf)
    BY <1>2, <2>3, <2>5, <2>7
  <2> QED
    BY <2>3, <2>6, <2>8, <2>9, <2>10 DEF NetworkInv
<1>9. ASSUME NEW c \in Cycles, DeleteAll(c) PROVE NetworkInv'
  <2>1. PICK o \in Records : o = cycle[c]
    BY <1>3
  <2>2. o.pc = "delete" /\ o.todo = Detected(o.graph) /\ o.graph \in SUBSET Pairs
    BY <1>1, <1>9, <2>1 DEF DeleteAll, Writes
  <2>3. PICK r \in Records : r = IF o.todo = {} THEN Idle ELSE [o EXCEPT !.pc = "insert"]
    BY <1>4
  <2>4. /\ cycle' = [cycle EXCEPT ![c] = r] /\ communities' = {} /\ torn' = (torn /\ Busy(c))
        /\ builtOf' = (IF o.todo = {} THEN o.graph ELSE builtOf) /\ linked' = linked
    BY <1>9, <2>1, <2>3 DEF DeleteAll, Steps, Built
  <2>5. o.todo # {} => r.pc = "insert" /\ r.todo = o.todo /\ r.graph = o.graph
    BY <2>3
  <2>51. o.todo = {} => r.pc = "idle"
    BY <1>4, <2>3
  <2> HIDE DEF Records
  <2>6. cycle' \in [Cycles -> Records] /\ cycle'[c] = r /\ \A d \in Cycles \ {c} : cycle'[d] = cycle[d]
    BY <1>3, <2>4
  <2>7. NetworkTypeOK'
    <3>1. cycle' \in [Cycles -> [pc : {"idle", "delete", "insert"}, graph : SUBSET Pairs, todo : SUBSET SUBSET Vertices]]
      BY <2>6 DEF Records
    <3> QED
      BY <1>1, <2>2, <2>4, <3>1 DEF NetworkTypeOK, Busy
  <2>8. ~torn' => \A d \in Cycles \ {c} : cycle[d].pc = "idle"
    <3>1. ~torn => ~Busy(c)
      BY <1>1, <2>1, <2>2 DEF Alone, Busy
    <3> QED
      BY <2>4, <3>1 DEF Busy
  <2>9. Alone'
    BY <2>6, <2>8 DEF Alone
  <2>10. \A d \in Cycles : Writes(d)'
    <3>1. Writes(c)'
      BY <2>2, <2>4, <2>5, <2>51, <2>6 DEF Writes
    <3>2. ASSUME NEW d \in Cycles \ {c} PROVE Writes(d)'
      BY <1>1, <2>6, <2>8 DEF Writes
    <3> QED
      BY <3>1, <3>2
  <2>11. torn' \/ (\E d \in Cycles : cycle'[d].pc = "insert") \/ communities' = Detected(builtOf)'
    BY <2>2, <2>4, <2>5, <2>6
  <2> QED
    BY <2>7, <2>9, <2>10, <2>11 DEF NetworkInv
<1>10. ASSUME NEW c \in Cycles, InsertCommunity(c) PROVE NetworkInv'
  <2>1. PICK o \in Records : o = cycle[c]
    BY <1>3
  <2>2. PICK g \in o.todo :
          IF g \in communities
            THEN Steps(c, Idle) /\ torn' = TRUE /\ UNCHANGED <<communities, builtOf>>
            ELSE /\ communities' = communities \union {g}
                 /\ UNCHANGED torn
                 /\ IF o.todo = {g} THEN Built(c)
                    ELSE Steps(c, [o EXCEPT !.todo = @ \ {g}]) /\ UNCHANGED builtOf
    BY <1>10, <2>1 DEF InsertCommunity
  <2>3. o.pc = "insert" /\ linked' = linked
    BY <1>10, <2>1 DEF InsertCommunity
  <2>4. ~torn => /\ o.todo \subseteq Detected(o.graph) /\ communities = Detected(o.graph) \ o.todo
                 /\ \A d \in Cycles \ {c} : cycle[d].pc = "idle"
    BY <1>1, <2>1, <2>3 DEF Writes, Alone
  <2>5. CASE g \in communities
    <3>1. cycle' = [cycle EXCEPT ![c] = Idle] /\ torn' = TRUE /\ UNCHANGED <<communities, builtOf>>
      BY <2>2, <2>5 DEF Steps
    <3> HIDE DEF Records
    <3>2. cycle' \in [Cycles -> Records] /\ cycle'[c] = Idle /\ \A d \in Cycles \ {c} : cycle'[d] = cycle[d]
      BY <1>3, <1>4, <3>1
    <3>3. NetworkTypeOK'
      <4>1. cycle' \in [Cycles -> [pc : {"idle", "delete", "insert"}, graph : SUBSET Pairs, todo : SUBSET SUBSET Vertices]]
        BY <3>2 DEF Records
      <4> QED
        BY <1>1, <2>3, <3>1, <4>1 DEF NetworkTypeOK
    <3>4. Alone' /\ \A d \in Cycles : Writes(d)'
      BY <1>1, <1>4, <3>1, <3>2 DEF Alone, Writes
    <3> QED
      BY <3>1, <3>3, <3>4 DEF NetworkInv
  <2>6. CASE g \notin communities
    <3>1. PICK r \in Records : r = IF o.todo = {g} THEN Idle ELSE [o EXCEPT !.todo = @ \ {g}]
      BY <1>4
    <3>2. /\ cycle' = [cycle EXCEPT ![c] = r] /\ communities' = communities \union {g} /\ torn' = torn
          /\ builtOf' = IF o.todo = {g} THEN o.graph ELSE builtOf
      BY <2>1, <2>2, <2>6, <3>1 DEF Steps, Built
    <3>3. o.todo # {g} => r.pc = "insert" /\ r.todo = o.todo \ {g} /\ r.graph = o.graph
      BY <2>3, <3>1
    <3>4. o.todo = {g} => r.pc = "idle"
      BY <1>4, <3>1
    <3>5. o.graph \in SUBSET Pairs /\ g \in SUBSET Vertices
      BY <2>2
    <3> HIDE DEF Records
    <3>6. cycle' \in [Cycles -> Records] /\ cycle'[c] = r /\ \A d \in Cycles \ {c} : cycle'[d] = cycle[d]
      BY <1>3, <3>2
    <3>7. NetworkTypeOK'
      <4>1. cycle' \in [Cycles -> [pc : {"idle", "delete", "insert"}, graph : SUBSET Pairs, todo : SUBSET SUBSET Vertices]]
        BY <3>6 DEF Records
      <4> QED
        BY <1>1, <2>3, <3>2, <3>5, <4>1 DEF NetworkTypeOK
    <3>8. Alone'
      BY <2>4, <3>2, <3>6 DEF Alone
    <3>9. \A d \in Cycles : Writes(d)'
      <4>1. Writes(c)'
        BY <2>4, <3>2, <3>3, <3>4, <3>6 DEF Writes
      <4>2. ASSUME NEW d \in Cycles \ {c} PROVE Writes(d)'
        BY <1>1, <2>4, <3>2, <3>6 DEF Writes
      <4> QED
        BY <4>1, <4>2
    <3>10. torn' \/ (\E d \in Cycles : cycle'[d].pc = "insert") \/ communities' = Detected(builtOf)'
      BY <2>4, <3>2, <3>3, <3>6
    <3> QED
      BY <3>7, <3>8, <3>9, <3>10 DEF NetworkInv
  <2> QED
    BY <2>5, <2>6
<1>11. ASSUME NEW c \in Cycles, Stop(c) PROVE NetworkInv'
  <2>1. cycle' = [cycle EXCEPT ![c] = Idle] /\ torn' = TRUE /\ UNCHANGED <<linked, communities, builtOf>>
    BY <1>11 DEF Stop, Steps
  <2> HIDE DEF Records
  <2>2. cycle' \in [Cycles -> Records] /\ cycle'[c] = Idle /\ \A d \in Cycles \ {c} : cycle'[d] = cycle[d]
    BY <1>3, <1>4, <2>1
  <2>3. NetworkTypeOK'
    <3>1. cycle' \in [Cycles -> [pc : {"idle", "delete", "insert"}, graph : SUBSET Pairs, todo : SUBSET SUBSET Vertices]]
      BY <2>2 DEF Records
    <3> QED
      BY <1>1, <2>1, <3>1 DEF NetworkTypeOK
  <2>4. Alone' /\ \A d \in Cycles : Writes(d)'
    BY <1>1, <1>4, <2>1, <2>2 DEF Alone, Writes
  <2> QED
    BY <2>1, <2>3, <2>4 DEF NetworkInv
<1> QED
  BY <1>6, <1>7, <1>8, <1>9, <1>10, <1>11 DEF NetworkNext

\* Whatever cycles overlap or stop, the map of the next one that runs alone is whole.
THEOREM CommunitiesWhole == NetworkSpec => []MapIsWhole
<1> QED
  BY NetworkStarts, NetworkStep, MapShows, PTL DEF NetworkSpec
-----------------------------------------------------------------------------
(* WorkingSet. *)

LEMMA TokensType ==
  ASSUME NEW n \in Nat
  PROVE  Tokens(n) \in Nat
BY DEF Tokens

\* What Used adds up, place by place.
Sums(f, texts, places) ==
  /\ f \in [0..Len(places) -> Nat] /\ f[0] = 0
  /\ \A n \in 1..Len(places) : f[n] = f[n - 1] + Tokens(texts[places[n]])

LEMMA UsedIs ==
  ASSUME NEW texts \in Seq(Nat), NEW places \in Seq(DOMAIN texts)
  PROVE  \E f : Sums(f, texts, places) /\ Used(texts, places) = f[Len(places)]
<1>1. PICK k \in Nat : k = Len(places)
  OBVIOUS
<1>2. \A n \in 1..k : Tokens(texts[places[n]]) \in Nat
  <2> SUFFICES ASSUME NEW n \in 1..k PROVE Tokens(texts[places[n]]) \in Nat
    OBVIOUS
  <2>1. places[n] \in DOMAIN texts
    BY <1>1
  <2>2. texts[places[n]] \in Nat
    BY <2>1
  <2> QED
    BY <2>2, TokensType
<1>3. PICK cost : cost = [n \in 1..k |-> Tokens(texts[places[n]])]
  OBVIOUS
<1>4. PICK move : move = [n \in 1..k |-> [x \in Nat |-> x + cost[n]]]
  OBVIOUS
<1>5. move \in Mappings(Nat, k)
  BY <1>2, <1>3, <1>4 DEF Mappings
<1>6. Iterated(Nat, k, 0, move)
  BY <1>1, <1>5, RecursionExists
<1>7. PICK f \in [0..k -> Nat] : f[0] = 0 /\ \A n \in 1..k : f[n] = move[n][f[n - 1]]
  BY <1>6 DEF Iterated
<1>8. \A n \in 1..k : f[n - 1] \in Nat /\ f[n] = f[n - 1] + cost[n]
  <2>1. \A n \in 1..k : n - 1 \in 0..k
    OBVIOUS
  <2>2. \A n \in 1..k : f[n - 1] \in Nat
    BY <1>7, <2>1
  <2> QED
    BY <1>4, <1>7, <2>2
<1> DEFINE Adds(g) == g = [n \in 0..k |-> IF n = 0 THEN 0 ELSE g[n - 1] + Tokens(texts[places[n]])]
<1>9. Adds(f)
  <2>1. f = [n \in 0..k |-> f[n]]
    BY <1>7
  <2>2. \A n \in 0..k : n = 0 \/ n \in 1..k
    OBVIOUS
  <2>3. \A n \in 0..k : f[n] = IF n = 0 THEN 0 ELSE f[n - 1] + Tokens(texts[places[n]])
    BY <1>3, <1>7, <1>8, <2>2
  <2> QED
    BY <2>1, <2>3
<1>10. Used(texts, places) = (CHOOSE g : Adds(g))[k]
  BY <1>1 DEF Used
<1>11. PICK g : g = CHOOSE h : Adds(h)
  OBVIOUS
<1>12. Adds(g)
  <2> HIDE DEF Adds
  <2> QED
    BY <1>9, <1>11, Zenon
<1>13. /\ g = [n \in 0..k |-> g[n]] /\ g[0] = 0
       /\ \A n \in 1..k : g[n] = g[n - 1] + Tokens(texts[places[n]])
  <2>1. g = [n \in 0..k |-> g[n]] /\ 0 \in 0..k
    BY <1>12
  <2>2. \A n \in 0..k : g[n] = IF n = 0 THEN 0 ELSE g[n - 1] + Tokens(texts[places[n]])
    BY <1>12
  <2>3. \A n \in 1..k : n \in 0..k /\ n # 0
    OBVIOUS
  <2> HIDE DEF Adds
  <2>4. g[0] = 0
    BY <2>1, <2>2
  <2>5. \A n \in 1..k : g[n] = g[n - 1] + Tokens(texts[places[n]])
    BY <2>2, <2>3
  <2> QED
    BY <2>1, <2>4, <2>5
<1> DEFINE D == Nat
<1>14. g \in [0..k -> D]
  <2>1. \A n \in 1..k : g[n - 1] \in D => g[n] \in D
    <3> SUFFICES ASSUME NEW n \in 1..k, g[n - 1] \in Nat PROVE g[n] \in Nat
      OBVIOUS
    <3>1. Tokens(texts[places[n]]) \in Nat
      BY <1>2
    <3>2. g[n] = g[n - 1] + Tokens(texts[places[n]])
      BY <1>13
    <3>3. \A x, y \in Nat : x + y \in Nat
      OBVIOUS
    <3> QED
      BY <3>1, <3>2, <3>3, Zenon
  <2>2. g[0] \in D
    BY <1>13
  <2>3. g = [n \in 0..k |-> g[n]]
    BY <1>13
  <2> HIDE DEF Adds, D
  <2> QED
    BY <2>1, <2>2, <2>3, RecursionTyped, Zenon
<1> HIDE DEF Adds
<1> QED
  BY <1>1, <1>10, <1>11, <1>13, <1>14 DEF Sums

\* Two functions that start alike and go on alike.
GoOnAlike(f, g, k) == f[0] = g[0] /\ \A n \in 1..k : f[n - 1] = g[n - 1] => f[n] = g[n]

LEMMA SumsAgree ==
  ASSUME NEW k \in Nat, NEW f, NEW g, GoOnAlike(f, g, k)
  PROVE  \A n \in 0..k : f[n] = g[n]
<1>0. f[0] = g[0] /\ \A n \in 1..k : f[n - 1] = g[n - 1] => f[n] = g[n]
  BY DEF GoOnAlike
<1> DEFINE S == {n \in Nat : n <= k => f[n] = g[n]}
<1>1. 0 \in S
  BY <1>0
<1>2. ASSUME NEW n \in Nat, n \in S PROVE n + 1 \in S
  <2> SUFFICES ASSUME n + 1 <= k PROVE f[n + 1] = g[n + 1]
    OBVIOUS
  <2>1. n + 1 \in 1..k /\ (n + 1) - 1 = n /\ f[n] = g[n]
    BY <1>2
  <2> QED
    BY <1>0, <2>1
<1>3. \A n \in Nat : n \in S
  <2> HIDE DEF S
  <2> QED
    BY <1>1, <1>2, Induct
<1> QED
  BY <1>3

LEMMA UsedSame ==
  ASSUME NEW texts \in Seq(Nat), NEW others \in Seq(Nat), NEW p \in Seq(DOMAIN texts), NEW q \in Seq(DOMAIN others),
         Len(p) = Len(q), \A n \in 1..Len(p) : texts[p[n]] = others[q[n]]
  PROVE  Used(texts, p) = Used(others, q) /\ Used(texts, p) \in Nat
<1>1. PICK f : Sums(f, texts, p) /\ Used(texts, p) = f[Len(p)]
  BY UsedIs
<1>2. PICK g : Sums(g, others, q) /\ Used(others, q) = g[Len(q)]
  BY UsedIs
<1>3. PICK k \in Nat : k = Len(p)
  OBVIOUS
<1>4. f[0] = g[0] /\ f \in [0..k -> Nat]
  BY <1>1, <1>2, <1>3 DEF Sums
<1>5. \A n \in 1..k : f[n - 1] = g[n - 1] => f[n] = g[n]
  BY <1>1, <1>2, <1>3 DEF Sums
<1>6. \A n \in 0..k : f[n] = g[n]
  <2>1. GoOnAlike(f, g, k)
    BY <1>4, <1>5 DEF GoOnAlike
  <2> QED
    BY <1>3, <2>1, SumsAgree
<1> QED
  BY <1>1, <1>2, <1>3, <1>4, <1>6

LEMMA UsedEmpty ==
  ASSUME NEW texts \in Seq(Nat)
  PROVE  Used(texts, <<>>) = 0
<1>1. <<>> \in Seq(DOMAIN texts) /\ Len(<<>>) = 0
  OBVIOUS
<1>2. PICK f : Sums(f, texts, <<>>) /\ Used(texts, <<>>) = f[0]
  BY <1>1, UsedIs
<1> QED
  BY <1>2 DEF Sums

LEMMA UsedAppend ==
  ASSUME NEW texts \in Seq(Nat), NEW p \in Seq(DOMAIN texts), NEW x \in DOMAIN texts
  PROVE  Used(texts, Append(p, x)) = Used(texts, p) + Tokens(texts[x]) /\ Used(texts, p) \in Nat
<1>1. PICK q : q = Append(p, x)
  OBVIOUS
<1>2. PICK k \in Nat : k = Len(p)
  OBVIOUS
<1>3. q \in Seq(DOMAIN texts) /\ Len(q) = k + 1 /\ q[k + 1] = x /\ \A n \in 1..k : q[n] = p[n]
  BY <1>1, <1>2
<1>4. PICK f : Sums(f, texts, q) /\ Used(texts, q) = f[Len(q)]
  BY <1>3, UsedIs
<1>5. PICK g : Sums(g, texts, p) /\ Used(texts, p) = g[Len(p)]
  BY UsedIs
<1>6. f[0] = g[0] /\ g \in [0..k -> Nat]
  BY <1>2, <1>4, <1>5 DEF Sums
<1>7. \A n \in 1..k : f[n - 1] = g[n - 1] => f[n] = g[n]
  <2> SUFFICES ASSUME NEW n \in 1..k, f[n - 1] = g[n - 1] PROVE f[n] = g[n]
    OBVIOUS
  <2>1. n \in 1..(k + 1) /\ q[n] = p[n]
    BY <1>3
  <2> QED
    BY <1>2, <1>3, <1>4, <1>5, <2>1 DEF Sums
<1>8. \A n \in 0..k : f[n] = g[n]
  <2>1. GoOnAlike(f, g, k)
    BY <1>6, <1>7 DEF GoOnAlike
  <2> QED
    BY <1>2, <2>1, SumsAgree
<1>9. k + 1 \in 1..(k + 1) /\ (k + 1) - 1 = k
  BY <1>2
<1>10. f[k + 1] = f[k] + Tokens(texts[x])
  BY <1>3, <1>4, <1>9 DEF Sums
<1>11. f[k] = g[k] /\ g[k] \in Nat /\ k \in 0..k
  BY <1>2, <1>6, <1>8
<1> QED
  BY <1>1, <1>2, <1>3, <1>4, <1>5, <1>10, <1>11
-----------------------------------------------------------------------------
(* A section. *)

Fits(texts, k, m, budget) == Used(texts, k) + Tokens(texts[m]) <= budget

\* Text m is kept where it fits beside those before it.
Placed(texts, k, m, budget) ==
  \E i \in 0..Len(k) :
    /\ \A j \in 1..Len(k) : k[j] < m <=> j <= i
    /\ (\E j \in 1..Len(k) : k[j] = m) <=> Fits(texts, SubSeq(k, 1, i), m, budget)

\* The places k of the first n texts, cut to a budget.
CutTo(texts, n, k, budget) ==
  /\ k \in Seq(1..n) /\ Len(k) <= n
  /\ \A i, j \in 1..Len(k) : i < j => k[i] < k[j]
  /\ Used(texts, k) <= budget
  /\ \A m \in 1..n : Placed(texts, k, m, budget)

LEMMA CutNone ==
  ASSUME NEW texts \in Seq(Nat), NEW budget \in Nat
  PROVE  CutTo(texts, 0, <<>>, budget)
<1>1. Used(texts, <<>>) = 0
  BY UsedEmpty
<1>2. <<>> \in Seq(1..0) /\ Len(<<>>) = 0
  OBVIOUS
<1> QED
  BY <1>1, <1>2 DEF CutTo

LEMMA WholePrefix ==
  ASSUME NEW S, NEW k \in Seq(S)
  PROVE  SubSeq(k, 1, Len(k)) = k
OBVIOUS

LEMMA CutMore ==
  ASSUME NEW texts \in Seq(Nat), NEW budget \in Nat, NEW n \in Nat, n + 1 <= Len(texts),
         NEW k, CutTo(texts, n, k, budget), NEW q,
         q = IF Fits(texts, k, n + 1, budget) THEN Append(k, n + 1) ELSE k
  PROVE  CutTo(texts, n + 1, q, budget)
<1>1. /\ k \in Seq(1..n) /\ Len(k) \in Nat /\ Len(k) <= n
      /\ \A i, j \in 1..Len(k) : i < j => k[i] < k[j]
      /\ Used(texts, k) <= budget
  BY DEF CutTo
<1>2. \A j \in 1..Len(k) : k[j] \in 1..n
  <2> QED
    BY <1>1, ElementOfSeq
<1>3. DOMAIN texts = 1..Len(texts) /\ n + 1 \in DOMAIN texts /\ 1..n \subseteq DOMAIN texts
  OBVIOUS
<1>4. k \in Seq(DOMAIN texts)
  BY <1>1, <1>3
<1>5. /\ Used(texts, Append(k, n + 1)) = Used(texts, k) + Tokens(texts[n + 1])
  BY <1>3, <1>4, UsedAppend
<1>6. SubSeq(k, 1, Len(k)) = k
  BY <1>1, WholePrefix
<1>7. \A m \in 1..n : Placed(texts, k, m, budget)
  BY DEF CutTo
<1>8. CASE Fits(texts, k, n + 1, budget)
  <2>1. /\ q \in Seq(1..(n + 1)) /\ Len(q) = Len(k) + 1 /\ q[Len(k) + 1] = n + 1
        /\ \A j \in 1..Len(k) : q[j] = k[j]
    BY <1>1, <1>2, <1>8
  <2>2. \A j \in 1..Len(q) : j \in 1..Len(k) \/ j = Len(k) + 1
    BY <1>1, <2>1
  <2>3. \A i, j \in 1..Len(q) : i < j => q[i] < q[j]
    <3> SUFFICES ASSUME NEW i \in 1..Len(q), NEW j \in 1..Len(q), i < j PROVE q[i] < q[j]
      OBVIOUS
    <3>0. i \in 1..Len(k)
      BY <1>1, <2>1
    <3>1. i \in 1..Len(k) /\ q[i] = k[i] /\ k[i] \in 1..n
      BY <1>2, <2>1, <3>0
    <3>2. CASE j \in 1..Len(k)
      BY <1>1, <2>1, <3>1, <3>2
    <3>3. CASE j = Len(k) + 1
      BY <2>1, <3>1, <3>3
    <3> QED
      BY <2>2, <3>2, <3>3
  <2>4. Used(texts, q) <= budget
    BY <1>5, <1>8 DEF Fits
  <2>5. \A i \in 0..Len(k) : SubSeq(q, 1, i) = SubSeq(k, 1, i)
    BY <1>1, <2>1
  <2>6. ASSUME NEW m \in 1..n
        PROVE  Placed(texts, q, m, budget)
    <3>1. PICK i \in 0..Len(k) :
            /\ \A j \in 1..Len(k) : k[j] < m <=> j <= i
            /\ (\E j \in 1..Len(k) : k[j] = m) <=> Fits(texts, SubSeq(k, 1, i), m, budget)
      BY <1>7 DEF Placed
    <3>2. i \in 0..Len(q) /\ SubSeq(q, 1, i) = SubSeq(k, 1, i)
      BY <1>1, <2>1, <2>5
    <3>3. \A j \in 1..Len(q) : q[j] < m <=> j <= i
      <4> SUFFICES ASSUME NEW j \in 1..Len(q) PROVE q[j] < m <=> j <= i
        OBVIOUS
      <4>1. CASE j \in 1..Len(k)
        BY <2>1, <3>1, <4>1
      <4>2. CASE j = Len(k) + 1
        BY <1>1, <2>1, <4>2
      <4> QED
        BY <2>2, <4>1, <4>2
    <3>4. (\E j \in 1..Len(q) : q[j] = m) <=> (\E j \in 1..Len(k) : k[j] = m)
      <4>1. \A j \in 1..Len(k) : j \in 1..Len(q)
        BY <1>1, <2>1
      <4>2. m # n + 1
        OBVIOUS
      <4> QED
        BY <2>1, <2>2, <4>1, <4>2
    <3> QED
      BY <3>1, <3>2, <3>3, <3>4 DEF Placed
  <2>7. Placed(texts, q, n + 1, budget)
    <3>1. Len(k) \in 0..Len(q) /\ SubSeq(q, 1, Len(k)) = k
      BY <1>1, <1>6, <2>1, <2>5
    <3>2. \A j \in 1..Len(q) : q[j] < n + 1 <=> j <= Len(k)
      <4> SUFFICES ASSUME NEW j \in 1..Len(q) PROVE q[j] < n + 1 <=> j <= Len(k)
        OBVIOUS
      <4>1. CASE j \in 1..Len(k)
        <5>1. q[j] \in 1..n
          BY <1>2, <2>1, <4>1
        <5> QED
          BY <4>1, <5>1
      <4>2. CASE j = Len(k) + 1
        BY <1>1, <2>1, <4>2
      <4> QED
        BY <2>2, <4>1, <4>2
    <3>3. \E j \in 1..Len(q) : q[j] = n + 1
      <4>1. Len(k) + 1 \in 1..Len(q)
        BY <1>1, <2>1
      <4> QED
        BY <2>1, <4>1
    <3> QED
      BY <1>8, <3>1, <3>2, <3>3 DEF Placed
  <2>8. \A m \in 1..(n + 1) : m \in 1..n \/ m = n + 1
    OBVIOUS
  <2>9. Len(q) <= n + 1
    BY <1>1, <2>1
  <2>10. \A m \in 1..(n + 1) : Placed(texts, q, m, budget)
    BY <2>6, <2>7, <2>8
  <2> QED
    BY <2>1, <2>3, <2>4, <2>9, <2>10 DEF CutTo
<1>9. CASE ~Fits(texts, k, n + 1, budget)
  <2>1. q = k
    BY <1>9
  <2>2. k \in Seq(1..(n + 1)) /\ Len(k) <= n + 1
    <3>1. 1..n \subseteq 1..(n + 1)
      OBVIOUS
    <3> QED
      BY <1>1, <3>1
  <2>3. Placed(texts, k, n + 1, budget)
    <3>1. Len(k) \in 0..Len(k)
      BY <1>1
    <3>2. \A j \in 1..Len(k) : k[j] < n + 1 <=> j <= Len(k)
      BY <1>2
    <3>3. ~ \E j \in 1..Len(k) : k[j] = n + 1
      BY <1>2
    <3> QED
      BY <1>6, <1>9, <3>1, <3>2, <3>3 DEF Placed
  <2>4. \A m \in 1..(n + 1) : m \in 1..n \/ m = n + 1
    OBVIOUS
  <2>5. \A m \in 1..(n + 1) : Placed(texts, k, m, budget)
    BY <1>7, <2>3, <2>4
  <2> QED
    BY <1>1, <2>1, <2>2, <2>5 DEF CutTo
<1> QED
  BY <1>8, <1>9

LEMMA FilledHolds ==
  ASSUME NEW texts \in Seq(Nat), NEW budget \in Nat
  PROVE  CutTo(texts, Len(texts), Filled(texts, budget), budget)
<1>1. PICK k \in Nat : k = Len(texts)
  OBVIOUS
<1> DEFINE Taken(n, x) == IF Fits(texts, x, n, budget) THEN Append(x, n) ELSE x
           Taking(g) == g = [n \in 0..k |-> IF n = 0 THEN <<>> ELSE Taken(n, g[n - 1])]
           D == Seq(Nat)
<1>2. PICK move : move = [n \in 1..k |-> [x \in D |-> Taken(n, x)]]
  OBVIOUS
<1>3. move \in Mappings(D, k) /\ <<>> \in D
  <2>1. \A n \in 1..k, x \in D : Taken(n, x) \in D
    <3> SUFFICES ASSUME NEW n \in 1..k, NEW x \in Seq(Nat) PROVE Taken(n, x) \in Seq(Nat)
      OBVIOUS
    <3>1. Append(x, n) \in Seq(Nat)
      OBVIOUS
    <3> QED
      BY <3>1
  <2>2. <<>> \in D
    OBVIOUS
  <2> HIDE DEF Taken, D
  <2> QED
    BY <1>2, <2>1, <2>2 DEF Mappings
<1> HIDE DEF D
<1>4. Iterated(D, k, <<>>, move)
  BY <1>1, <1>3, RecursionExists
<1>5. PICK f \in [0..k -> D] : f[0] = <<>> /\ \A n \in 1..k : f[n] = move[n][f[n - 1]]
  BY <1>4 DEF Iterated
<1>6. Taking(f)
  <2> HIDE DEF Taken
  <2>1. f = [n \in 0..k |-> f[n]]
    BY <1>5
  <2>2. \A n \in 1..k : n - 1 \in 0..k
    OBVIOUS
  <2>3. \A n \in 1..k : f[n - 1] \in D
    BY <1>5, <2>2
  <2>4. \A n \in 1..k : f[n] = Taken(n, f[n - 1])
    BY <1>2, <1>5, <2>3
  <2>5. \A n \in 0..k : n = 0 \/ n \in 1..k
    OBVIOUS
  <2>6. \A n \in 0..k : f[n] = IF n = 0 THEN <<>> ELSE Taken(n, f[n - 1])
    BY <1>5, <2>4, <2>5
  <2> QED
    BY <2>1, <2>6
<1>7. Filled(texts, budget) = (CHOOSE g : Taking(g))[k]
  BY <1>1 DEF Filled, Fits
<1>8. PICK g : g = CHOOSE h : Taking(h)
  OBVIOUS
<1>9. Taking(g)
  <2> HIDE DEF Taking
  <2> QED
    BY <1>6, <1>8, Zenon
<1>10. g[0] = <<>> /\ \A n \in 1..k : g[n] = Taken(n, g[n - 1])
  <2> HIDE DEF Taken
  <2>1. \A n \in 0..k : g[n] = IF n = 0 THEN <<>> ELSE Taken(n, g[n - 1])
    BY <1>9
  <2>2. \A n \in 1..k : n \in 0..k /\ n # 0
    OBVIOUS
  <2>3. 0 \in 0..k
    BY <1>1
  <2> HIDE DEF Taking
  <2> QED
    BY <2>1, <2>2, <2>3
<1> DEFINE S == {n \in Nat : n <= k => CutTo(texts, n, g[n], budget)}
<1>11. 0 \in S
  BY <1>10, CutNone
<1>12. ASSUME NEW n \in Nat, n \in S PROVE n + 1 \in S
  <2> SUFFICES ASSUME n + 1 <= k PROVE CutTo(texts, n + 1, g[n + 1], budget)
    OBVIOUS
  <2>1. n + 1 \in 1..k /\ (n + 1) - 1 = n /\ n <= k
    BY <1>1
  <2>2. CutTo(texts, n, g[n], budget)
    BY <1>12, <2>1
  <2>3. g[n + 1] = IF Fits(texts, g[n], n + 1, budget) THEN Append(g[n], n + 1) ELSE g[n]
    BY <1>10, <2>1
  <2> QED
    BY <1>1, <2>2, <2>3, CutMore
<1>13. \A n \in Nat : n \in S
  <2> HIDE DEF S
  <2> QED
    BY <1>11, <1>12, Induct
<1>14. CutTo(texts, k, g[k], budget)
  BY <1>1, <1>13
<1> QED
  BY <1>1, <1>7, <1>8, <1>14
-----------------------------------------------------------------------------
(* The working set. *)

LEMMA ShareType ==
  ASSUME NEW h \in Nat
  PROVE  Share(h) \in Nat
<1>1. TotalTokens \in Nat
  BY WorkingSetAssumption
<1>2. \A x, y \in Nat : x * y \in Nat
  OBVIOUS
<1>3. PICK x \in Nat : x = TotalTokens * h
  BY <1>1, <1>2
<1>4. x \div 100 \in Nat
  OBVIOUS
<1> QED
  BY <1>3, <1>4 DEF Share

\* A list given by its length and its values.
LEMMA ListedIs ==
  ASSUME NEW S, NEW m \in Nat, NEW s, DOMAIN s = 1..m, s = [n \in 1..m |-> s[n]], \A n \in 1..m : s[n] \in S
  PROVE  s \in Seq(S) /\ Len(s) = m
<1>1. s \in [1..m -> S]
  OBVIOUS
<1> QED
  BY <1>1

\* The rules of the prompt are the first ones, up to the one that goes over its share.
LEMMA PromptIs ==
  ASSUME rules \in Seq(Nat), NEW budget \in Nat
  PROVE  /\ PromptRules(budget) \in Seq(Nat) /\ Len(PromptRules(budget)) <= Len(rules)
         /\ \A p \in 1..Len(PromptRules(budget)) : PromptRules(budget)[p] = rules[p]
         /\ \A p \in 1..Len(rules) :
              p <= Len(PromptRules(budget)) <=> \A q \in 1..p : Used(rules, [i \in 1..q |-> i]) <= budget
<1>0. PICK used : used = [q \in 1..Len(rules) |-> Used(rules, [i \in 1..q |-> i])]
  OBVIOUS
<1>1. \A q \in 1..Len(rules) : used[q] = Used(rules, [i \in 1..q |-> i]) /\ used[q] \in Nat
  <2> SUFFICES ASSUME NEW q \in 1..Len(rules) PROVE Used(rules, [i \in 1..q |-> i]) \in Nat
    BY <1>0
  <2>1. PICK head : head = [i \in 1..q |-> i]
    OBVIOUS
  <2>2. \A i \in 1..q : head[i] \in DOMAIN rules
    BY <2>1
  <2>3. q \in Nat /\ DOMAIN head = 1..q /\ head = [i \in 1..q |-> head[i]]
    BY <2>1
  <2>4. head \in Seq(DOMAIN rules)
    BY <2>2, <2>3, ListedIs
  <2>5. Used(rules, head) \in Nat
    BY <2>4, UsedSame
  <2> QED
    BY <2>1, <2>5
<1>u. used \in [1..Len(rules) -> Nat] /\ Len(rules) \in Nat
  BY <1>0, <1>1
<1> DEFINE over == {p \in DOMAIN rules : Used(rules, [q \in 1..p |-> q]) > budget}
           e == CHOOSE p \in over : \A q \in over : p <= q
<1>2. over = {p \in 1..Len(rules) : used[p] > budget}
  BY <1>1
<1>3. \A p \in 1..Len(rules) : \A q \in 1..p : q \in 1..Len(rules)
  OBVIOUS
<1>4. CASE over = {}
  <2>1. PromptRules(budget) = rules
    BY <1>4 DEF PromptRules
  <2>2. \A q \in 1..Len(rules) : used[q] <= budget
    <3> SUFFICES ASSUME NEW q \in 1..Len(rules) PROVE used[q] <= budget
      OBVIOUS
    <3>1. used[q] \in Nat /\ q \notin over
      BY <1>1, <1>4
    <3>2. ~(used[q] > budget)
      BY <1>2, <3>1
    <3> QED
      BY <3>1, <3>2
  <2>3. \A p \in 1..Len(rules) : p <= Len(rules) /\ \A q \in 1..p : Used(rules, [i \in 1..q |-> i]) <= budget
    BY <1>1, <1>3, <2>2
  <2> QED
    BY <2>1, <2>3
<1>5. CASE over # {}
  <2>1. over \subseteq 1..Len(rules) /\ over \subseteq Nat
    OBVIOUS
  <2>2. PromptRules(budget) = SubSeq(rules, 1, e - 1)
    BY <1>5 DEF PromptRules
  <2> HIDE DEF over
  <2>3. \E p \in over : \A q \in over : p <= q
    BY <1>5, <2>1, LeastOf
  <2>4. e \in over /\ \A q \in over : e <= q
    BY <2>3
  <2>5. PICK n \in 1..Len(rules) : n = e
    BY <2>1, <2>4
  <2> HIDE DEF e
  <2>6. PICK k \in 0..Len(rules) : k = n - 1
    OBVIOUS
  <2>7. SubSeq(rules, 1, k) \in Seq(Nat) /\ Len(SubSeq(rules, 1, k)) = k
        /\ \A p \in 1..k : SubSeq(rules, 1, k)[p] = rules[p]
    OBVIOUS
  <2>8. PromptRules(budget) = SubSeq(rules, 1, k)
    BY <2>2, <2>5, <2>6
  <2>9. used[n] > budget /\ \A q \in 1..Len(rules) : used[q] > budget => n <= q
    BY <1>2, <2>4, <2>5
  <2>10. ASSUME NEW p \in 1..Len(rules)
         PROVE  p <= k <=> \A q \in 1..p : Used(rules, [i \in 1..q |-> i]) <= budget
    <3>1. p <= k <=> \A q \in 1..p : used[q] <= budget
      <4>1. ASSUME p <= k, NEW q \in 1..p PROVE used[q] <= budget
        <5>1. q \in 1..Len(rules) /\ ~(n <= q)
          BY <2>6, <4>1
        <5>2. ~(used[q] > budget) /\ used[q] \in Nat
          BY <1>1, <2>9, <5>1
        <5> QED
          BY <5>2
      <4>2. ASSUME ~(p <= k) PROVE n \in 1..p /\ ~(used[n] <= budget)
        <5>1. n \in 1..p
          BY <2>6, <4>2
        <5>2. used[n] > budget /\ used[n] \in Nat
          BY <1>1, <2>9
        <5> QED
          BY <5>1, <5>2
      <4> QED
        BY <4>1, <4>2
    <3> QED
      BY <1>1, <1>3, <3>1
  <2> QED
    BY <2>6, <2>7, <2>8, <2>10
<1> QED
  BY <1>4, <1>5

LEMMA PromptedIs ==
  ASSUME rules \in Seq(Nat), Share(RulesShare) \in Nat
  PROVE  Prompted = 1..Len(PromptRules(Share(RulesShare))) /\ Cardinality(Prompted) = Len(PromptRules(Share(RulesShare)))
<1>1. PICK k \in Nat : k = Len(PromptRules(Share(RulesShare)))
  BY PromptIs
<1>2. k <= Len(rules) /\ \A p \in 1..Len(rules) :
        p <= k <=> \A q \in 1..p : Used(rules, [i \in 1..q |-> i]) <= Share(RulesShare)
  BY <1>1, PromptIs
<1>3. Prompted = {p \in 1..Len(rules) : p <= k}
  BY <1>2 DEF Prompted
<1>4. Prompted = 1..k
  BY <1>2, <1>3
<1>5. Cardinality(1..k) = k
  BY FS_Interval
<1> QED
  BY <1>1, <1>4, <1>5

\* The turns from the newest on.
LEMMA WindowIs ==
  ASSUME turns \in Seq(Nat)
  PROVE  /\ Window \in Seq(Nat) /\ Len(Window) <= Len(turns)
         /\ \A p \in 1..Len(Window) : Window[p] = turns[Len(turns) + 1 - p]
         /\ \A t \in 1..Len(turns) : t + RECENT_K > Len(turns) <=> Len(turns) + 1 - t <= Len(Window)
<1>0. RECENT_K \in Nat /\ Len(turns) \in Nat
  BY WorkingSetAssumption
<1>1. PICK back : back = Reverse(turns)
  OBVIOUS
<1>2. /\ back \in Seq(Nat) /\ Len(back) = Len(turns)
      /\ \A p \in 1..Len(turns) : back[p] = turns[Len(turns) + 1 - p]
  <2>1. back = [p \in 1..Len(turns) |-> turns[(Len(turns) - p) + 1]]
    BY <1>1 DEF Reverse
  <2>2. \A p \in 1..Len(turns) : (Len(turns) - p) + 1 \in 1..Len(turns) /\ Len(turns) + 1 - p = (Len(turns) - p) + 1
    BY <1>0
  <2>3. \A p \in 1..Len(turns) : turns[p] \in Nat
    BY ElementOfSeq
  <2> QED
    BY <1>0, <2>1, <2>2, <2>3
<1>3. CASE Len(turns) <= RECENT_K
  <2>1. Window = back
    BY <1>1, <1>3 DEF Window
  <2>2. \A t \in 1..Len(turns) : t + RECENT_K > Len(turns) /\ Len(turns) + 1 - t <= Len(turns)
    BY <1>0, <1>3
  <2> QED
    BY <1>2, <2>1, <2>2
<1>4. CASE ~(Len(turns) <= RECENT_K)
  <2>1. PICK w : w = SubSeq(back, 1, RECENT_K)
    OBVIOUS
  <2>2. Window = w
    BY <1>1, <1>4, <2>1 DEF Window
  <2>3. RECENT_K \in 0..Len(back)
    BY <1>0, <1>2, <1>4
  <2>4. w \in Seq(Nat) /\ Len(w) = RECENT_K /\ \A p \in 1..RECENT_K : w[p] = back[p]
    BY <1>0, <1>2, <2>1, <2>3
  <2>5. \A t \in 1..Len(turns) : t + RECENT_K > Len(turns) <=> Len(turns) + 1 - t <= RECENT_K
    BY <1>0
  <2>6. \A p \in 1..RECENT_K : p \in 1..Len(turns)
    BY <1>0, <1>4
  <2>7. \A p \in 1..Len(w) : w[p] = turns[Len(turns) + 1 - p]
    BY <1>2, <2>4, <2>6
  <2>8. Len(w) <= Len(turns)
    BY <1>0, <1>4, <2>4
  <2> QED
    BY <2>2, <2>4, <2>5, <2>7, <2>8
<1> QED
  BY <1>3, <1>4

LEMMA MarkedItems ==
  ASSUME NEW texts \in Seq(Nat)
  PROVE  /\ Items(texts) \in Seq(Nat) /\ Len(Items(texts)) = Len(texts)
         /\ \A p \in 1..Len(texts) : Items(texts)[p] = texts[p] + 2
<1>1. \A p \in 1..Len(texts) : texts[p] \in Nat
  BY ElementOfSeq
<1>2. Items(texts) = [p \in 1..Len(texts) |-> texts[p] + 2]
  BY DEF Items
<1> QED
  BY <1>1, <1>2

\* A section of the first texts is one of the whole.
LEMMA SectionFits ==
  ASSUME NEW first \in Seq(Nat), NEW texts \in Seq(Nat), Len(first) <= Len(texts),
         \A p \in 1..Len(first) : first[p] = texts[p], NEW budget \in Nat
  PROVE  LET w == Filled(Items(first), budget) IN
         Cut(Items(texts), w, budget, 1..Len(first)) /\ Len(w) \in Nat
<1>1. PICK a : a = Items(first)
  OBVIOUS
<1>2. PICK b : b = Items(texts)
  OBVIOUS
<1>3. /\ a \in Seq(Nat) /\ b \in Seq(Nat) /\ Len(a) = Len(first) /\ Len(b) = Len(texts)
      /\ \A p \in 1..Len(first) : a[p] = first[p] + 2
      /\ \A p \in 1..Len(texts) : b[p] = texts[p] + 2
  BY <1>1, <1>2, MarkedItems
<1>4. \A p \in 1..Len(a) : p \in 1..Len(b) /\ a[p] = b[p]
  BY <1>3
<1>5. PICK w : w = Filled(a, budget)
  OBVIOUS
<1>6. CutTo(a, Len(a), w, budget)
  BY <1>3, <1>5, FilledHolds
<1>7. w \in Seq(1..Len(a)) /\ Used(a, w) <= budget
  BY <1>6 DEF CutTo
<1>8. w \in Seq(DOMAIN a) /\ w \in Seq(DOMAIN b)
  <2>1. DOMAIN a = 1..Len(a) /\ DOMAIN b = 1..Len(b)
    BY <1>3
  <2>2. 1..Len(a) \subseteq 1..Len(b)
    BY <1>4
  <2>3. \A S, T : S \subseteq T => Seq(S) \subseteq Seq(T)
    OBVIOUS
  <2> QED
    BY <1>7, <2>1, <2>2, <2>3
<1>9. \A n \in 1..Len(w) : a[w[n]] = b[w[n]]
  <2>1. \A n \in 1..Len(w) : w[n] \in 1..Len(a)
    BY <1>7, ElementOfSeq
  <2> QED
    BY <1>4, <2>1
<1>10. Used(a, w) = Used(b, w)
  BY <1>3, <1>8, <1>9, UsedSame, ZenonT(40)
<1>11. Len(w) \in Nat
  BY <1>7
<1>12. PICK W \in Nat : W = Len(w) /\ DOMAIN w = 1..W
  BY <1>7
<1>13. \A i, j \in 1..W : i < j => w[i] < w[j]
  BY <1>6, <1>12 DEF CutTo
<1>14. \A n \in 1..W : w[n] \in 1..Len(a) /\ w[n] \in Nat
  BY <1>7, <1>12, ElementOfSeq
<1>15. \A p : p \in Range(w) <=> \E j \in 1..W : w[j] = p
  BY <1>12, Zenon DEF Range
<1>16. ASSUME NEW p \in 1..Len(b)
       PROVE  \E i \in 0..W :
              /\ \A j \in 1..W : w[j] < p <=> j <= i
              /\ p \in Range(w) <=> p \in 1..Len(first) /\ Used(b, SubSeq(w, 1, i)) + Tokens(b[p]) <= budget
  <2>1. CASE p \in 1..Len(a)
    <3>1. PICK i \in 0..W :
            /\ \A j \in 1..W : w[j] < p <=> j <= i
            /\ (\E j \in 1..W : w[j] = p) <=> Fits(a, SubSeq(w, 1, i), p, budget)
      BY <1>6, <1>12, <2>1 DEF CutTo, Placed
    <3>2. PICK head : head = SubSeq(w, 1, i)
      OBVIOUS
    <3>3. Len(head) = i /\ i \in Nat /\ \A n \in 1..i : head[n] = w[n] /\ n \in 1..W
      BY <1>7, <1>12, <3>2
    <3>4. DOMAIN head = 1..i /\ head = [n \in 1..i |-> head[n]]
      BY <1>7, <1>12, <3>2
    <3>5. \A n \in 1..i : head[n] \in DOMAIN a /\ head[n] \in DOMAIN b /\ a[head[n]] = b[head[n]]
      <4> SUFFICES ASSUME NEW n \in 1..i PROVE head[n] \in DOMAIN a /\ head[n] \in DOMAIN b /\ a[head[n]] = b[head[n]]
        OBVIOUS
      <4>1. head[n] \in 1..Len(a)
        BY <1>14, <3>3
      <4>2. head[n] \in 1..Len(b) /\ a[head[n]] = b[head[n]]
        BY <1>4, <4>1
      <4>3. DOMAIN a = 1..Len(a) /\ DOMAIN b = 1..Len(b)
        BY <1>3
      <4> QED
        BY <4>1, <4>2, <4>3
    <3>6. head \in Seq(DOMAIN a) /\ head \in Seq(DOMAIN b)
      BY <3>3, <3>4, <3>5, ListedIs
    <3>7. Used(a, head) = Used(b, head)
      <4>1. \A n \in 1..Len(head) : a[head[n]] = b[head[n]]
        BY <3>3, <3>5
      <4> QED
        BY <1>3, <3>6, <4>1, UsedSame, ZenonT(40)
    <3>8. a[p] = b[p] /\ p \in 1..Len(first)
      BY <1>3, <1>4, <2>1
    <3> QED
      BY <1>15, <3>1, <3>2, <3>7, <3>8 DEF Fits
  <2>2. CASE p \notin 1..Len(a)
    <3>1. \A j \in 1..W : w[j] < p /\ w[j] # p /\ j <= W
      <4> SUFFICES ASSUME NEW j \in 1..W PROVE w[j] < p /\ w[j] # p /\ j <= W
        OBVIOUS
      <4>1. w[j] \in 1..Len(a) /\ Len(a) \in Nat /\ p \in Nat
        BY <1>3, <1>14
      <4>2. p > Len(a)
        BY <2>2, <4>1
      <4> QED
        BY <4>1, <4>2
    <3>2. p \notin Range(w) /\ p \notin 1..Len(first)
      BY <1>3, <1>15, <2>2, <3>1
    <3> QED
      <4>1. W \in 0..W
        BY <1>12
      <4> QED
        BY <3>1, <3>2, <4>1
  <2> QED
    BY <2>1, <2>2
<1>17. Cut(b, w, budget, 1..Len(first))
  <2>1. DOMAIN b = 1..Len(b)
    BY <1>3
  <2> QED
    BY <1>7, <1>10, <1>12, <1>13, <1>16, <2>1, Zenon DEF Cut
<1> QED
  BY <1>1, <1>2, <1>5, <1>11, <1>17

\* The turns kept of the window, as they were said.
RecentOf(w) == Reverse([n \in DOMAIN w |-> Len(turns) + 1 - w[n]])

LEMMA RecentIs ==
  ASSUME turns \in Seq(Nat), NEW w \in Seq(1..Len(turns))
  PROVE  /\ RecentOf(w) \in Seq(1..Len(turns)) /\ Len(RecentOf(w)) = Len(w)
         /\ \A j \in 1..Len(w) : RecentOf(w)[j] = Len(turns) + 1 - w[Len(w) + 1 - j]
<1>1. PICK L \in Nat : L = Len(turns)
  OBVIOUS
<1>2. PICK W \in Nat : W = Len(w) /\ DOMAIN w = 1..W
  OBVIOUS
<1>3. PICK back : back = [n \in 1..W |-> L + 1 - w[n]]
  OBVIOUS
<1>4. \A n \in 1..W : w[n] \in 1..L
  BY <1>1, <1>2, ElementOfSeq
<1>5. \A n \in 1..W : back[n] \in 1..L /\ back[n] = L + 1 - w[n]
  BY <1>3, <1>4, SMTT(30)
<1>6. Len(back) = W
  BY <1>3
<1>7. RecentOf(w) = [i \in 1..W |-> back[(W - i) + 1]]
  BY <1>1, <1>2, <1>3, <1>6 DEF RecentOf, Reverse
<1>8. \A i \in 1..W : (W - i) + 1 \in 1..W /\ W + 1 - i = (W - i) + 1
  OBVIOUS
<1>9. PICK kept : kept = RecentOf(w)
  OBVIOUS
<1>10. \A i \in 1..W : kept[i] \in 1..L /\ kept[i] = L + 1 - w[W + 1 - i]
  BY <1>5, <1>7, <1>8, <1>9
<1>11. kept \in Seq(1..L) /\ Len(kept) = W
  <2>1. DOMAIN kept = 1..W /\ kept = [n \in 1..W |-> kept[n]]
    BY <1>7, <1>9
  <2> QED
    BY <1>10, <2>1, ListedIs
<1> QED
  BY <1>1, <1>2, <1>9, <1>10, <1>11

\* The kept turns are in order and leave a turn out only where it does not fit beside the newer ones.
KeptAsSaid(kept, W, budget) ==
  /\ kept \in Seq(1..Len(turns)) /\ Len(kept) = W
  /\ \A i, j \in 1..Len(kept) : i < j => kept[i] < kept[j]
  /\ \A t \in 1..Len(turns) : \E i \in 0..Len(kept) :
       /\ \A j \in 1..Len(kept) : kept[j] > t <=> j > i
       /\ t \in Range(kept) <=>
            /\ t + RECENT_K > Len(turns)
            /\ Used(turns, Reverse(SubSeq(kept, i + 1, Len(kept)))) + Tokens(turns[t]) <= budget

LEMMA RecentHolds ==
  ASSUME turns \in Seq(Nat), NEW budget \in Nat, NEW w, w = Filled(Window, budget),
         NEW kept, kept = RecentOf(w)
  PROVE  KeptAsSaid(kept, Len(w), budget)
<1>1. PICK window : window = Window
  OBVIOUS
<1>2. PICK L \in Nat : L = Len(turns) /\ DOMAIN turns = 1..L
  OBVIOUS
<1>3. /\ window \in Seq(Nat) /\ Len(window) \in Nat /\ Len(window) <= L /\ DOMAIN window = 1..Len(window)
      /\ \A p \in 1..Len(window) : window[p] = turns[L + 1 - p]
      /\ \A t \in 1..L : t + RECENT_K > L <=> L + 1 - t <= Len(window)
  BY <1>1, <1>2, WindowIs
<1>4. CutTo(window, Len(window), w, budget)
  BY <1>1, <1>3, FilledHolds
<1>5. PICK W \in Nat : W = Len(w)
  BY <1>4 DEF CutTo
<1>6. w \in Seq(1..Len(window)) /\ \A i, j \in 1..W : i < j => w[i] < w[j]
  BY <1>4, <1>5 DEF CutTo
<1>7. \A n \in 1..W : w[n] \in 1..Len(window) /\ w[n] \in 1..L
  <2>1. \A n \in 1..W : w[n] \in 1..Len(window)
    BY <1>5, <1>6, ElementOfSeq
  <2> QED
    BY <1>3, <2>1
<1>8. w \in Seq(1..Len(turns)) /\ w \in Seq(DOMAIN window)
  <2>1. 1..Len(window) \subseteq 1..Len(turns)
    BY <1>2, <1>3
  <2>2. \A S, T : S \subseteq T => Seq(S) \subseteq Seq(T)
    OBVIOUS
  <2> QED
    BY <1>3, <1>6, <2>1, <2>2
<1>9. kept \in Seq(1..L) /\ Len(kept) = W /\ \A j \in 1..W : kept[j] = L + 1 - w[W + 1 - j]
  BY <1>2, <1>5, <1>8, RecentIs
<1>10. \A i, j \in 1..W : i < j => kept[i] < kept[j]
  <2> SUFFICES ASSUME NEW i \in 1..W, NEW j \in 1..W, i < j PROVE kept[i] < kept[j]
    OBVIOUS
  <2>1. W + 1 - i \in 1..W /\ W + 1 - j \in 1..W /\ W + 1 - j < W + 1 - i
    OBVIOUS
  <2>2. w[W + 1 - j] < w[W + 1 - i]
    BY <1>6, <2>1
  <2>3. w[W + 1 - j] \in 1..L /\ w[W + 1 - i] \in 1..L
    BY <1>7, <2>1
  <2>4. kept[i] = L + 1 - w[W + 1 - i] /\ kept[j] = L + 1 - w[W + 1 - j]
    BY <1>9
  <2> QED
    BY <2>2, <2>3, <2>4
<1>11. \A t : t \in Range(kept) <=> \E j \in 1..W : kept[j] = t
  <2>1. DOMAIN kept = 1..W
    BY <1>9
  <2> QED
    BY <2>1, Zenon DEF Range
<1>12. ASSUME NEW t \in 1..L
       PROVE  \E i \in 0..W :
              /\ \A j \in 1..W : kept[j] > t <=> j > i
              /\ t \in Range(kept) <=>
                   /\ t + RECENT_K > L
                   /\ Used(turns, Reverse(SubSeq(kept, i + 1, W))) + Tokens(turns[t]) <= budget
  <2>1. PICK m \in 1..L : m = L + 1 - t
    OBVIOUS
  <2>2. \A j \in 1..W : /\ W + 1 - j \in 1..W
                        /\ kept[j] > t <=> w[W + 1 - j] < m
                        /\ kept[j] = t <=> w[W + 1 - j] = m
    <3> SUFFICES ASSUME NEW j \in 1..W
                 PROVE  /\ W + 1 - j \in 1..W
                        /\ kept[j] > t <=> w[W + 1 - j] < m
                        /\ kept[j] = t <=> w[W + 1 - j] = m
      OBVIOUS
    <3>1. W + 1 - j \in 1..W
      OBVIOUS
    <3>2. w[W + 1 - j] \in 1..L /\ kept[j] = L + 1 - w[W + 1 - j]
      BY <1>7, <1>9, <3>1
    <3> QED
      BY <2>1, <3>1, <3>2
  <2>3. CASE m > Len(window)
    <3>1. \A j \in 1..W : kept[j] > t /\ kept[j] # t
      <4> SUFFICES ASSUME NEW j \in 1..W PROVE kept[j] > t /\ kept[j] # t
        OBVIOUS
      <4>1. w[W + 1 - j] \in 1..Len(window)
        BY <1>7, <2>2
      <4>2. w[W + 1 - j] < m
        BY <1>3, <2>3, <4>1
      <4> QED
        BY <2>2, <4>1, <4>2
    <3>2. ~(t + RECENT_K > L)
      BY <1>3, <2>1, <2>3
    <3>3. 0 \in 0..W /\ \A j \in 1..W : j > 0
      OBVIOUS
    <3> QED
      BY <1>11, <3>1, <3>2, <3>3
  <2>4. CASE m <= Len(window)
    <3>1. m \in 1..Len(window) /\ t + RECENT_K > L /\ window[m] = turns[t]
      BY <1>3, <2>1, <2>4, SMTT(30)
    <3>2. PICK i \in 0..W :
            /\ \A j \in 1..W : w[j] < m <=> j <= i
            /\ (\E j \in 1..W : w[j] = m) <=> Fits(window, SubSeq(w, 1, i), m, budget)
      BY <1>4, <1>5, <3>1 DEF CutTo, Placed
    <3>3. PICK k \in 0..W : k = W - i
      OBVIOUS
    <3>4. \A j \in 1..W : kept[j] > t <=> j > k
      <4> SUFFICES ASSUME NEW j \in 1..W PROVE kept[j] > t <=> j > k
        OBVIOUS
      <4>1. w[W + 1 - j] < m <=> W + 1 - j <= i
        BY <2>2, <3>2
      <4> QED
        BY <2>2, <3>3, <4>1
    <3>5. (\E j \in 1..W : kept[j] = t) <=> (\E j \in 1..W : w[j] = m)
      <4>1. ASSUME NEW j \in 1..W, kept[j] = t PROVE \E n \in 1..W : w[n] = m
        BY <2>2, <4>1
      <4>2. ASSUME NEW n \in 1..W, w[n] = m PROVE \E j \in 1..W : kept[j] = t
        <5>1. W + 1 - n \in 1..W /\ W + 1 - (W + 1 - n) = n
          OBVIOUS
        <5>2. kept[W + 1 - n] = t
          BY <2>2, <4>2, <5>1
        <5> QED
          BY <5>1, <5>2
      <4> QED
        BY <4>1, <4>2
    <3>6. PICK tail : tail = SubSeq(kept, k + 1, W)
      OBVIOUS
    <3>7. Len(tail) = i /\ \A n \in 1..i : tail[n] = kept[k + n]
      <4>1. k + 1 \in 1..(W + 1) /\ W - k = i
        BY <3>3
      <4>2. tail = [n \in 1..i |-> kept[k + n]]
        <5>1. tail = [n \in 1..((1 + W) - (k + 1)) |-> kept[((k + 1) + n) - 1]]
          BY <3>6
        <5>2. (1 + W) - (k + 1) = i /\ \A n \in 1..i : ((k + 1) + n) - 1 = k + n
          BY <4>1
        <5> QED
          BY <5>1, <5>2
      <4>3. \A n \in 1..i : tail[n] \in 1..L
        <5> SUFFICES ASSUME NEW n \in 1..i PROVE tail[n] \in 1..L
          OBVIOUS
        <5>1. k + n \in 1..W
          BY <4>1
        <5>2. kept[k + n] \in 1..L
          BY <1>9, <5>1, ElementOfSeq
        <5> QED
          BY <4>2, <5>2
      <4>4. DOMAIN tail = 1..i /\ tail = [n \in 1..i |-> tail[n]]
        BY <4>2
      <4>5. Len(tail) = i
        BY <4>3, <4>4, ListedIs
      <4> QED
        BY <4>2, <4>5
    <3>8. PICK newer : newer = Reverse(tail)
      OBVIOUS
    <3>9. PICK head : head = SubSeq(w, 1, i)
      OBVIOUS
    <3>10. head \in Seq(1..Len(window)) /\ Len(head) = i /\ \A n \in 1..i : head[n] = w[n]
      <4>1. i \in Nat /\ head = [n \in 1..((1 + i) - 1) |-> w[(1 + n) - 1]]
        BY <3>9
      <4>2. (1 + i) - 1 = i /\ \A n \in 1..i : (1 + n) - 1 = n /\ n \in 1..W
        BY <4>1
      <4>3. head = [n \in 1..i |-> w[n]]
        BY <4>1, <4>2
      <4>4. \A n \in 1..i : head[n] = w[n] /\ head[n] \in 1..Len(window)
        BY <1>7, <4>2, <4>3
      <4>5. DOMAIN head = 1..i /\ head = [n \in 1..i |-> head[n]]
        BY <4>3
      <4> QED
        <5>0. i \in Nat /\ \A n \in 1..i : head[n] \in 1..Len(window)
          BY <4>1, <4>4
        <5>1. head \in Seq(1..Len(window)) /\ Len(head) = i
          BY <4>5, <5>0, ListedIs
        <5> QED
          BY <4>4, <5>1
    <3>11. Len(newer) = i /\ \A n \in 1..i : newer[n] = L + 1 - w[n] /\ newer[n] \in 1..L
      <4>1. newer = [n \in 1..i |-> tail[(i - n) + 1]]
        BY <3>7, <3>8 DEF Reverse
      <4>2. \A n \in 1..i : (i - n) + 1 \in 1..i /\ k + ((i - n) + 1) = W + 1 - n /\ W + 1 - n \in 1..W /\ W + 1 - (W + 1 - n) = n
                            /\ n \in 1..W
        BY <3>3
      <4>3. \A n \in 1..i : newer[n] = kept[W + 1 - n]
        <5> SUFFICES ASSUME NEW n \in 1..i PROVE newer[n] = kept[W + 1 - n]
          OBVIOUS
        <5>1. PICK q \in 1..i : q = (i - n) + 1
          BY <4>2
        <5>2. newer[n] = tail[q]
          BY <4>1, <5>1
        <5>3. k + q = W + 1 - n
          BY <4>2, <5>1
        <5>4. tail[q] = kept[k + q]
          BY <3>7
        <5> QED
          BY <5>2, <5>3, <5>4
      <4>4. \A n \in 1..i : newer[n] = L + 1 - w[n]
        BY <1>9, <4>2, <4>3
      <4>5. \A n \in 1..i : w[n] \in 1..L
        BY <1>7, <4>2
      <4>6. \A n \in 1..i : newer[n] \in 1..L
        BY <4>4, <4>5
      <4> QED
        BY <4>1, <4>4, <4>6
    <3>12. newer \in Seq(DOMAIN turns) /\ head \in Seq(DOMAIN window)
      <4>1. DOMAIN newer = 1..i /\ newer = [n \in 1..i |-> newer[n]]
        BY <3>7, <3>8 DEF Reverse
      <4>2. newer \in Seq(1..L)
        <5>1. i \in Nat /\ \A n \in 1..i : newer[n] \in 1..L
          BY <3>11
        <5> QED
          BY <4>1, <5>1, ListedIs
      <4> QED
        BY <1>2, <1>3, <3>10, <4>2
    <3>13. \A n \in 1..i : turns[newer[n]] = window[head[n]]
      <4> SUFFICES ASSUME NEW n \in 1..i PROVE turns[newer[n]] = window[head[n]]
        OBVIOUS
      <4>1. n \in 1..W /\ w[n] \in 1..Len(window)
        BY <1>7
      <4> QED
        BY <1>3, <3>10, <3>11, <4>1
    <3>14. Used(turns, newer) = Used(window, head)
      <4>1. Len(newer) = Len(head) /\ \A n \in 1..Len(newer) : turns[newer[n]] = window[head[n]]
        BY <3>10, <3>11, <3>13
      <4> QED
        BY <1>3, <3>12, <4>1, UsedSame
    <3>15. t \in Range(kept) <=> Used(turns, newer) + Tokens(turns[t]) <= budget
      BY <1>11, <3>1, <3>2, <3>5, <3>9, <3>14 DEF Fits
    <3> QED
      BY <3>1, <3>4, <3>6, <3>8, <3>15
  <2> QED
    BY <1>3, <2>3, <2>4
<1> QED
  BY <1>2, <1>5, <1>9, <1>10, <1>12 DEF KeptAsSaid

WorkingInv ==
  /\ rules \in Seq(Nat) /\ facts \in Seq(Nat) /\ turns \in Seq(Nat)
  /\ ContextFits

LEMMA CompiledFits ==
  ASSUME WorkingInv, Compile
  PROVE  WorkingInv'
<1>1. rules \in Seq(Nat) /\ facts \in Seq(Nat) /\ turns \in Seq(Nat) /\ UNCHANGED <<rules, facts, turns>>
  BY DEF WorkingInv, Compile
<1>2. PICK asked : asked = PromptRules(Share(RulesShare))
  OBVIOUS
<1>3. PICK r : r = Filled(Items(asked), Share(RulesShare))
  OBVIOUS
<1>4. PICK f : f = Filled(Items(facts), Share(FactsShare))
  OBVIOUS
<1>5. PICK w : w = Filled(Window, Share(RecentShare))
  OBVIOUS
<1>6. PICK kept : kept = RecentOf(w)
  OBVIOUS
<1>7. compiled' = [rules |-> r, facts |-> f, recent |-> kept,
                   dropped |-> <<Len(asked) - Len(r), Len(facts) - Len(f), Len(turns) - Len(w)>>]
  BY <1>2, <1>3, <1>4, <1>5, <1>6 DEF Compile, RecentOf
<1>8. Share(RulesShare) \in Nat /\ Share(FactsShare) \in Nat /\ Share(RecentShare) \in Nat
  BY WorkingSetAssumption, ShareType
<1>9. /\ Cut(Items(rules), r, Share(RulesShare), Prompted) /\ Len(r) \in Nat
      /\ Len(asked) = Cardinality(Prompted) /\ Len(asked) \in Nat
  <2>1. asked \in Seq(Nat) /\ Len(asked) <= Len(rules) /\ \A p \in 1..Len(asked) : asked[p] = rules[p]
    BY <1>1, <1>2, <1>8, PromptIs
  <2>2. Cut(Items(rules), r, Share(RulesShare), 1..Len(asked)) /\ Len(r) \in Nat
    BY <1>1, <1>3, <1>8, <2>1, SectionFits
  <2>3. Prompted = 1..Len(asked) /\ Cardinality(Prompted) = Len(asked)
    BY <1>1, <1>2, <1>8, PromptedIs
  <2> QED
    BY <2>1, <2>2, <2>3
<1>10. Cut(Items(facts), f, Share(FactsShare), DOMAIN facts) /\ Len(f) \in Nat
  <2>1. Len(facts) <= Len(facts) /\ DOMAIN facts = 1..Len(facts)
    BY <1>1
  <2>2. Cut(Items(facts), f, Share(FactsShare), 1..Len(facts)) /\ Len(f) \in Nat
    BY <1>1, <1>4, <1>8, <2>1, SectionFits
  <2> QED
    BY <2>1, <2>2
<1>11. KeptAsSaid(kept, Len(w), Share(RecentShare))
  BY <1>1, <1>5, <1>6, <1>8, RecentHolds
<1>12. DOMAIN kept = 1..Len(kept) /\ DOMAIN turns = 1..Len(turns)
       /\ Len(kept) \in Nat /\ Len(turns) \in Nat /\ Len(facts) \in Nat
  BY <1>1, <1>11 DEF KeptAsSaid
<1>13. PICK c : c = compiled'
  OBVIOUS
<1>14. /\ c.rules = r /\ c.facts = f /\ c.recent = kept /\ c.dropped[1] = Len(asked) - Len(r)
       /\ c.dropped[2] = Len(facts) - Len(f) /\ c.dropped[3] = Len(turns) - Len(w)
  BY <1>7, <1>13
<1>15. /\ Len(r) + c.dropped[1] = Cardinality(Prompted)
       /\ Len(kept) + c.dropped[3] = Len(turns) /\ Len(f) + c.dropped[2] = Len(facts)
  BY <1>9, <1>10, <1>11, <1>12, <1>14 DEF KeptAsSaid
<1>16. ContextFits'
  <2>1. \A i, j \in DOMAIN kept : i < j => kept[i] < kept[j]
    BY <1>11, <1>12 DEF KeptAsSaid
  <2>2. \A t \in DOMAIN turns : \E i \in 0..Len(kept) :
          /\ \A j \in DOMAIN kept : kept[j] > t <=> j > i
          /\ t \in Range(kept) <=>
               /\ t + RECENT_K > Len(turns)
               /\ Used(turns, Reverse(SubSeq(kept, i + 1, Len(kept)))) + Tokens(turns[t]) <= Share(RecentShare)
    BY <1>11, <1>12, Zenon DEF KeptAsSaid
  <2>3. Prompted' = Prompted /\ Items(rules)' = Items(rules) /\ Items(facts)' = Items(facts) /\ (DOMAIN facts)' = DOMAIN facts
        /\ Share(RulesShare)' = Share(RulesShare) /\ Share(FactsShare)' = Share(FactsShare)
    BY <1>1 DEF Prompted, Items, Share
  <2>4. Cut(Items(rules), c.rules, Share(RulesShare), Prompted) /\ Cut(Items(facts), c.facts, Share(FactsShare), DOMAIN facts)
    BY <1>9, <1>10, <1>14
  <2> QED
    BY <1>1, <1>13, <1>14, <1>15, <2>1, <2>2, <2>3, <2>4, Zenon DEF ContextFits
<1> QED
  BY <1>1, <1>16 DEF WorkingInv

\* Every context that is compiled is the greedy cut of each section to its budget, in order,
\* and counts what it leaves out of the rules of the prompt, the facts and the turns.
THEOREM ContextsFit == WorkingSpec => []ContextFits
<1>1. WorkingInit => WorkingInv
  <2> SUFFICES ASSUME WorkingInit PROVE WorkingInv
    OBVIOUS
  <2>1. \A n : BoundedSeq(Lengths, n) \subseteq Seq(Nat)
    <3> SUFFICES ASSUME NEW n, NEW s \in BoundedSeq(Lengths, n) PROVE s \in Seq(Nat)
      OBVIOUS
    <3>1. PICK m \in 0..n : s \in [1..m -> Lengths]
      BY DEF BoundedSeq, SeqOf
    <3>2. m \in Nat
      OBVIOUS
    <3>3. DOMAIN s = 1..m /\ s = [k \in 1..m |-> s[k]] /\ \A k \in 1..m : s[k] \in Nat
      BY <3>1, WorkingSetAssumption
    <3> QED
      BY <3>2, <3>3, ListedIs
  <2> QED
    BY <2>1 DEF WorkingInit, WorkingInv, ContextFits
<1>2. WorkingInv /\ [Compile]_workingVars => WorkingInv'
  <2>1. WorkingInv /\ Compile => WorkingInv'
    BY CompiledFits
  <2>2. WorkingInv /\ UNCHANGED workingVars => WorkingInv'
    <3> SUFFICES ASSUME WorkingInv, UNCHANGED workingVars PROVE WorkingInv'
      OBVIOUS
    <3>1. rules' = rules /\ facts' = facts /\ turns' = turns /\ compiled' = compiled
      BY DEF workingVars
    <3>2. /\ Prompted' = Prompted /\ Items(rules)' = Items(rules) /\ Items(facts)' = Items(facts) /\ (DOMAIN facts)' = DOMAIN facts
          /\ Share(RulesShare)' = Share(RulesShare) /\ Share(FactsShare)' = Share(FactsShare)
          /\ Share(RecentShare)' = Share(RecentShare)
      BY <3>1 DEF Prompted, Items, Share
    <3>3. ContextFits'
      BY <3>1, <3>2, Zenon DEF WorkingInv, ContextFits
    <3> QED
      BY <3>1, <3>3 DEF WorkingInv
  <2> QED
    BY <2>1, <2>2
<1>3. WorkingInv => ContextFits
  BY DEF WorkingInv
<1> QED
  BY <1>1, <1>2, <1>3, PTL DEF WorkingSpec
=============================================================================
