------------------------------ MODULE Approvals ------------------------------
(***************************************************************************)
(* A gated entity is resolved by racing handlers of the API (approval.rs)  *)
(* and of the Worker (approvals.ts).  A handler loads the row, checks the  *)
(* typed confirmation, compare-and-swaps the status, appends the decision  *)
(* event and, for an approval, enqueues an execute_approval job; it may    *)
(* die between any two of these statements.  Drainers run the jobs under   *)
(* the leases of JobLease, which JobQueue implements.                      *)
(***************************************************************************)
EXTENDS Integers, FiniteSets

CONSTANTS
  Entities, TypeOf,   \* gated rows and the type each has
  TypedConfirm,       \* rows with attrs.requires_typed_confirm
  Apis, Bots,         \* handlers of lifeos-api, handlers of the Worker
  Drainers, Trusted,  \* drainers, those with LIFEOS_BUILD_PIPELINE on
  MaxJobs, MaxAttempts,  \* bound on job rows; DrainConfig.max_attempts
  None,               \* no job, no entity
  MaxAborts, MaxFaults  \* bounds: handlers that die, drainers that die

ASSUME ApprovalAssumption ==
  /\ Trusted \subseteq Drainers /\ TypedConfirm \subseteq Entities
  /\ MaxAttempts \in Nat \ {0} /\ MaxAborts \in Nat /\ MaxFaults \in Nat
  /\ TypeOf \in [Entities -> {"pending_approval", "storage_backend", "draft"}]
  /\ MaxJobs \in Nat /\ None \notin Nat \cup Entities \cup Drainers

VARIABLES
  status,   \* entities.status
  pc, req,  \* of a handler: its next statement and its request
  events,   \* <type>.approved and <type>.rejected rows of an entity
  payload,  \* entity_id of a job row
  phase, owner, tries,  \* the leases of the jobs
  step, running,        \* of a drainer: its next statement and its claimed job
  launched, \* history: resumes started for an entity
  shrugs,   \* history: times a drainer that may not resume its build let it be
  resumed,  \* history: entities whose resume reported success
  told,     \* history: entities whose approver was notified
  aborts, faults

entityVars  == <<status, events>>
handlerVars == <<pc, req, aborts>>
leaseVars   == <<phase, owner, tries>>
drainVars   == <<step, running, faults>>
effectVars  == <<launched, shrugs, resumed, told>>
vars == <<entityVars, handlerVars, payload, leaseVars, drainVars, effectVars>>

Jobs     == 1..MaxJobs   \* in the order they are enqueued
Handlers == Apis \cup Bots
Decided  == {"approved", "rejected"}
PENDING_STATUSES == {"pending_approval", "awaiting_approval"}
BuildGate(e) == TypeOf[e] = "pending_approval"
NoRequest == [entity |-> None, to |-> "", seen |-> ""]

Lease == INSTANCE JobLease WITH Tasks <- Jobs, Owners <- Drainers,
                                NoOwner <- None, MaxTries <- MaxAttempts

\* Build gates are written awaiting_approval by gate.js, the rest pending_approval.
Init ==
  /\ status = [e \in Entities |->
                 IF BuildGate(e) THEN "awaiting_approval" ELSE "pending_approval"]
  /\ pc = [h \in Handlers |-> "idle"]
  /\ req = [h \in Handlers |-> NoRequest]
  /\ events = [e \in Entities |-> [t \in Decided |-> 0]]
  /\ payload = [j \in Jobs |-> None]
  /\ Lease!Init
  /\ step = [d \in Drainers |-> "idle"]
  /\ running = [d \in Drainers |-> None]
  /\ launched = [e \in Entities |-> 0]
  /\ shrugs = [e \in Entities |-> 0]
  /\ resumed = {} /\ told = {}
  /\ aborts = 0 /\ faults = 0
-----------------------------------------------------------------------------
(* Resolving: the statements of approve and deny. *)

Reply(h) == pc' = [pc EXCEPT ![h] = "idle"] /\ req' = [req EXCEPT ![h] = NoRequest]

\* An approval of a typed-confirm row must carry its phrase.
Confirmed(e, to, typed) == to = "approved" /\ e \in TypedConfirm => typed

\* Any other request is answered 400 or 409 and changes nothing.  The Worker's
\* approve loads the row once to check it and again to resolve it.
Load(h, e, to, typed) ==
  /\ pc[h] = "idle"
  /\ status[e] \in PENDING_STATUSES
  /\ Confirmed(e, to, typed)
  /\ pc' = [pc EXCEPT ![h] = IF h \in Bots /\ to = "approved" THEN "checked" ELSE "loaded"]
  /\ req' = [req EXCEPT ![h] = [entity |-> e, to |-> to, seen |-> status[e]]]
  /\ UNCHANGED <<entityVars, aborts, payload, leaseVars, drainVars, effectVars>>

Reload(h) ==
  LET e == req[h].entity IN
  /\ pc[h] = "checked"
  /\ IF status[e] \in PENDING_STATUSES
       THEN /\ pc' = [pc EXCEPT ![h] = "loaded"]
            /\ req' = [req EXCEPT ![h].seen = status[e]]
       ELSE Reply(h)
  /\ UNCHANGED <<entityVars, aborts, payload, leaseVars, drainVars, effectVars>>

CasMatchesAny(h, e) == TRUE

\* The WHERE clause of the status update: either pending status for the API,
\* the status it read for the Worker.
CasMatches(h, e) ==
  IF h \in Apis THEN status[e] \in PENDING_STATUSES ELSE status[e] = req[h].seen

Cas(h) ==
  LET e == req[h].entity IN
  /\ pc[h] = "loaded"
  /\ IF CasMatches(h, e)
       THEN /\ status' = [status EXCEPT ![e] = req[h].to]
            /\ pc' = [pc EXCEPT ![h] = "decided"]
            /\ UNCHANGED req
       ELSE Reply(h) /\ UNCHANGED status
  /\ UNCHANGED <<events, aborts, payload, leaseVars, drainVars, effectVars>>

\* Mutants: a denial that falls through to the enqueue, an approval that does not
\* reach it.
EmitAndGoOn(h) ==
  LET e == req[h].entity  to == req[h].to IN
  /\ pc[h] = "decided"
  /\ events' = [events EXCEPT ![e] = [events[e] EXCEPT ![to] = events[e][to] + 1]]
  /\ pc' = [pc EXCEPT ![h] = "recorded"]
  /\ UNCHANGED <<req, status, aborts, payload, leaseVars, drainVars, effectVars>>

EmitAndReply(h) ==
  LET e == req[h].entity  to == req[h].to IN
  /\ pc[h] = "decided"
  /\ events' = [events EXCEPT ![e] = [events[e] EXCEPT ![to] = events[e][to] + 1]]
  /\ Reply(h)
  /\ UNCHANGED <<status, aborts, payload, leaseVars, drainVars, effectVars>>

Emit(h) ==
  LET e == req[h].entity  to == req[h].to IN
  /\ pc[h] = "decided"
  /\ events' = [events EXCEPT ![e] = [events[e] EXCEPT ![to] = events[e][to] + 1]]
  /\ IF to = "approved" THEN pc' = [pc EXCEPT ![h] = "recorded"] /\ UNCHANGED req
                        ELSE Reply(h)
  /\ UNCHANGED <<status, aborts, payload, leaseVars, drainVars, effectVars>>

Enqueue(h) ==
  LET j == 1 + Cardinality({k \in Jobs : phase[k] # "new"}) IN
  /\ pc[h] = "recorded"
  /\ j \in Jobs /\ Lease!Submit(j)
  /\ payload' = [payload EXCEPT ![j] = req[h].entity]
  /\ Reply(h)
  /\ UNCHANGED <<entityVars, aborts, drainVars, effectVars>>

\* The process dies, or a statement fails and the handler returns the error.
Abort(h) ==
  /\ pc[h] # "idle" /\ aborts < MaxAborts
  /\ aborts' = aborts + 1
  /\ Reply(h)
  /\ UNCHANGED <<entityVars, payload, leaseVars, drainVars, effectVars>>
-----------------------------------------------------------------------------
(* Executing: run_execute_approval under a lease of the job queue. *)

Claim(d, j) ==
  /\ step[d] = "idle"
  /\ Lease!Grant(j, d)
  /\ step' = [step EXCEPT ![d] = "claimed"]
  /\ running' = [running EXCEPT ![d] = j]
  /\ UNCHANGED <<entityVars, handlerVars, payload, faults, effectVars>>

should_resume_build(d, e) == BuildGate(e) /\ d \in Trusted

StartResume(d) ==
  LET e == payload[running[d]] IN
  /\ step[d] = "claimed"
  /\ should_resume_build(d, e)
  /\ launched' = [launched EXCEPT ![e] = launched[e] + 1]
  /\ step' = [step EXCEPT ![d] = "resuming"]
  /\ UNCHANGED <<entityVars, handlerVars, payload, leaseVars, running, faults, shrugs, resumed, told>>

\* Mutant: a failed resume is tried again under the same lease.
EndResumeAgain(d, ok) ==
  LET e == payload[running[d]] IN
  /\ step[d] = "resuming"
  /\ ok => status[e] = "approved"
  /\ resumed' = IF ok THEN resumed \cup {e} ELSE resumed
  /\ step' = [step EXCEPT ![d] = IF ok THEN "done" ELSE "claimed"]
  /\ UNCHANGED <<entityVars, handlerVars, payload, leaseVars, running, faults, launched, shrugs, told>>

\* resume.js refuses a gate that is not approved; otherwise the build decides.
EndResume(d, ok) ==
  LET e == payload[running[d]] IN
  /\ step[d] = "resuming"
  /\ ok => status[e] = "approved"
  /\ resumed' = IF ok THEN resumed \cup {e} ELSE resumed
  /\ step' = [step EXCEPT ![d] = IF ok THEN "done" ELSE "failed"]
  /\ UNCHANGED <<entityVars, handlerVars, payload, leaseVars, running, faults, launched, shrugs, told>>

\* Nothing to resume here: acknowledge, or refuse to pretend a draft was sent.
classify_non_build_approval(e) ==
  IF TypeOf[e] \in {"storage_backend", "pending_approval"} THEN "done" ELSE "failed"

NoResume(d) ==
  LET e == payload[running[d]]  outcome == classify_non_build_approval(e) IN
  /\ step[d] = "claimed"
  /\ ~ should_resume_build(d, e)
  /\ told' = IF outcome = "failed" THEN told \cup {e} ELSE told
  /\ shrugs' = IF BuildGate(e) THEN [shrugs EXCEPT ![e] = shrugs[e] + 1] ELSE shrugs
  /\ step' = [step EXCEPT ![d] = outcome]
  /\ UNCHANGED <<entityVars, handlerVars, payload, leaseVars, running, faults, launched, resumed>>

GoIdle(d) ==
  step' = [step EXCEPT ![d] = "idle"] /\ running' = [running EXCEPT ![d] = None]

\* complete_job or fail_job: zero rows when the lease was lost meanwhile.
Finish(d) ==
  LET j == running[d] IN
  /\ step[d] \in {"done", "failed"}
  /\ IF phase[j] = "leased" /\ owner[j] = d
       THEN Lease!Resolve(j, d, step[d])
       ELSE UNCHANGED leaseVars
  /\ GoIdle(d)
  /\ UNCHANGED <<entityVars, handlerVars, payload, faults, effectVars>>

\* The drainer dies, or its status write is lost.
Die(d) ==
  /\ step[d] # "idle" /\ faults < MaxFaults
  /\ faults' = faults + 1
  /\ GoIdle(d)
  /\ UNCHANGED <<entityVars, handlerVars, payload, leaseVars, effectVars>>

\* A drainer between two jobs reaps whatever leases have expired.
Reap(d, S) ==
  /\ step[d] = "idle" /\ S # {}
  /\ Lease!Revoke(S)
  /\ UNCHANGED <<entityVars, handlerVars, payload, drainVars, effectVars>>
-----------------------------------------------------------------------------
HandlerStep(h) == Reload(h) \/ Cas(h) \/ Emit(h) \/ Enqueue(h)
DrainerStep(d) == StartResume(d) \/ (\E ok \in BOOLEAN : EndResume(d, ok)) \/ NoResume(d) \/ Finish(d)

Next ==
  \/ \E h \in Handlers, e \in Entities, to \in Decided :
       \E typed \in IF e \in TypedConfirm THEN BOOLEAN ELSE {FALSE} : Load(h, e, to, typed)
  \/ \E h \in Handlers : HandlerStep(h) \/ Abort(h)
  \/ \E d \in Drainers : (\E j \in Jobs : Claim(d, j)) \/ DrainerStep(d) \/ Die(d)
  \/ \E d \in Drainers, S \in SUBSET Jobs : Reap(d, S)

Spec == Init /\ [][Next]_vars

\* Leases nobody works on any more: their drainer died or moved on.
Orphans == {j \in Jobs : phase[j] = "leased" /\ running[owner[j]] # j}

\* A handler and a drainer go on unless they die, a resumed build ends, and the
\* poll loop of an idle drainer claims and reaps.
FairSpec ==
  /\ Spec
  /\ \A h \in Handlers : WF_vars(HandlerStep(h))
  /\ \A d \in Drainers :
       /\ WF_vars(DrainerStep(d))
       /\ WF_vars(\E j \in Jobs : Claim(d, j))
       /\ WF_vars(Orphans # {} /\ Reap(d, Orphans))
-----------------------------------------------------------------------------
JobsOf(e) == {j \in Jobs : payload[j] = e}

\* The shape of every variable.
TypeOK ==
  /\ status \in [Entities -> PENDING_STATUSES \cup Decided]
  /\ pc \in [Handlers -> {"idle", "checked", "loaded", "decided", "recorded"}]
  /\ req \in [Handlers -> [entity : Entities, to : Decided,
                           seen : PENDING_STATUSES] \cup {NoRequest}]
  /\ events \in [Entities -> [Decided -> Nat]]
  /\ payload \in [Jobs -> Entities \cup {None}]
  /\ phase \in [Jobs -> {"new", "waiting", "leased", "done", "failed"}]
  /\ owner \in [Jobs -> Drainers \cup {None}]
  /\ tries \in [Jobs -> Nat]
  /\ step \in [Drainers -> {"idle", "claimed", "resuming", "done", "failed"}]
  /\ running \in [Drainers -> Jobs \cup {None}]
  /\ launched \in [Entities -> Nat] /\ shrugs \in [Entities -> Nat]
  /\ resumed \in SUBSET Entities /\ told \in SUBSET Entities
  /\ aborts \in 0..MaxAborts /\ faults \in 0..MaxFaults

\* However API and Worker handlers race, an entity gets at most one decision
\* event, and that event says what its status says (approval.rs:13-15).
OneDecision ==
  \A e \in Entities :
    /\ events[e]["approved"] + events[e]["rejected"] <= 1
    /\ \A to \in Decided : events[e][to] > 0 => status[e] = to

\* Whatever was enqueued, resumed or reported for an entity follows its one
\* recorded approval: never for a denial, never two jobs (approval.rs:108-110).
OnlyApprovedRuns ==
  \A e \in Entities :
    /\ Cardinality(JobsOf(e)) <= 1
    /\ JobsOf(e) # {} \/ launched[e] > 0 \/ e \in told
         => status[e] = "approved" /\ events[e]["approved"] = 1

\* The job of an approved build gate is done only when a resume succeeded.  Not
\* where an untrusted drainer may claim it (lib.rs:686-689, README section 5).
GateDoneMeansResumed ==
  \A j \in Jobs : phase[j] = "done" /\ BuildGate(payload[j]) => payload[j] \in resumed

\* Drainers of both kinds take the job of a gate from each other, die, lose leases
\* under a running build and report late, yet each grant of it starts at most one
\* build or is let be once, and it ends for a reason: done where a build succeeded or
\* was let be, failed where a build was started or the attempts are used up
\* (lib.rs:84-120, 650-778).
GateRunsAccounted ==
  \A j \in Jobs : phase[j] # "new" /\ BuildGate(payload[j]) =>
    LET e == payload[j] IN
    /\ launched[e] + shrugs[e] <= tries[j] /\ tries[j] <= MaxAttempts
    /\ phase[j] = "done" => e \in resumed \/ shrugs[e] > 0
    /\ phase[j] = "failed" => launched[e] > 0 \/ tries[j] = MaxAttempts

\* Once no handler is working on it, an approved entity has its job
\* (approval.rs:73-74: approving transitions, emits and enqueues).
ApprovalNotLost ==
  \A e \in Entities :
    status[e] = "approved" => JobsOf(e) # {} \/ \E h \in Handlers : req[h].entity = e

\* Drainers die and leases run out, yet every enqueued job is finished, and while
\* no handler died every approved entity has its job.
ApprovedSettles ==
  []<>( /\ \A j \in Jobs : phase[j] \in {"new", "done", "failed"}
        /\ aborts = 0 => \A e \in Entities : status[e] = "approved" => JobsOf(e) # {} )
=============================================================================
