------------------------------ MODULE JobQueue ------------------------------
(***************************************************************************)
(* The drainers of lifeos-drain over the `jobs` table.  A drainer is a     *)
(* single-threaded process that loops: claim a job, run its handler, write *)
(* the outcome, reap stuck jobs, prune old ones, sleep.  Several drainers  *)
(* (the Mac, lifeos-node containers) share one database.  A handler has no *)
(* heartbeat, so a slow one may be reaped and its job run again while it   *)
(* is still running; a process may die at any point and be started again.  *)
(***************************************************************************)
EXTENDS JobsTable

CONSTANTS
  Drainers,      \* drainer processes
  WorkerOf,      \* the lease owner name each process gives itself at start
  Priorities,    \* priorities an enqueue may ask for
  MaxTime,       \* bound on the clock
  FaultHorizon   \* bound: crashes and failed status writes stop after it

ASSUME DrainersAssumption == Null \notin Jobs /\ Null \notin Drainers
ASSUME WorkerOfAssumption == WorkerOf \in [Drainers -> Workers]
ASSUME PrioritiesAssumption == Priorities \subseteq Int
ASSUME MaxTimeAssumption == MaxTime \in Nat

VARIABLES
  jobs,    \* the table
  now,     \* wall clock, in seconds, common to every process
  pc,      \* what each drainer does next
  held,    \* the job whose handler a drainer runs (a local of main's loop)
  since,   \* history: when that handler's claim was made
  starts   \* history: how many times each job's handler was started

vars == <<jobs, now, pc, held, since, starts>>

Phases == {"claim", "run", "reap", "prune", "down"}

TypeOK ==
  /\ jobs \in [Jobs -> Row]
  /\ now \in Nat
  /\ pc \in [Drainers -> Phases]
  /\ held \in [Drainers -> Jobs \cup {Null}]
  /\ since \in [Drainers -> Nat]
  /\ starts \in [Jobs -> Nat]

Init ==
  /\ jobs = EmptyTable
  /\ now = 0
  /\ pc = [d \in Drainers |-> "claim"]
  /\ held = [d \in Drainers |-> Null]
  /\ since = [d \in Drainers |-> 0]
  /\ starts = [j \in Jobs |-> 0]

Runs(d, j) == pc[d] = "run" /\ held[d] = j

\* The handler is over: drainer d drops its job and goes on at `next`.
Leaves(d, next) ==
  /\ pc' = [pc EXCEPT ![d] = next]
  /\ held' = [held EXCEPT ![d] = Null]
  /\ since' = [since EXCEPT ![d] = 0]

-----------------------------------------------------------------------------
Tick ==
  /\ now < MaxTime
  /\ now' = now + 1
  /\ UNCHANGED <<jobs, pc, held, since, starts>>

\* POST /api/job, the Worker and every trigger: one INSERT of a fresh id.
Enqueue(j) ==
  /\ jobs[j].status = "new"
  /\ \E p \in Priorities : jobs' = Inserted(jobs, j, p, now)
  /\ UNCHANGED <<now, pc, held, since, starts>>

ClaimJob(d) ==
  /\ pc[d] = "claim"
  /\ \E j \in ClaimChoices(jobs) :
       /\ jobs' = Claimed(jobs, j, WorkerOf[d], now)
       /\ held' = [held EXCEPT ![d] = j]
       /\ starts' = [starts EXCEPT ![j] = @ + 1]
  /\ pc' = [pc EXCEPT ![d] = "run"]
  /\ since' = [since EXCEPT ![d] = now]
  /\ UNCHANGED now

ClaimNothing(d) ==
  /\ pc[d] = "claim"
  /\ Eligible(jobs) = {}
  /\ pc' = [pc EXCEPT ![d] = "reap"]
  /\ UNCHANGED <<jobs, now, held, since, starts>>

\* The handler returned and complete_job or fail_job was called; with no row
\* updated the lease was lost, which run_job only logs.
FinishJob(d, outcome) ==
  /\ pc[d] = "run"
  /\ jobs' = Finalised(jobs, held[d], WorkerOf[d], outcome)
  /\ Leaves(d, "reap")
  /\ UNCHANGED <<now, starts>>

\* The status write itself failed: run_job logs it and the loop goes on, so
\* the row stays `running` under a worker that no longer runs it.
LoseStatusWrite(d) ==
  /\ pc[d] = "run"
  /\ now <= FaultHorizon
  /\ Leaves(d, "reap")
  /\ UNCHANGED <<jobs, now, starts>>

ReapStuck(d) ==
  /\ pc[d] = "reap"
  /\ jobs' = Reaped(jobs, now)
  /\ pc' = [pc EXCEPT ![d] = "prune"]
  /\ UNCHANGED <<now, held, since, starts>>

Prune(d) ==
  /\ pc[d] = "prune"
  /\ jobs' = Pruned(jobs, now)
  /\ pc' = [pc EXCEPT ![d] = "claim"]
  /\ UNCHANGED <<now, held, since, starts>>

Crash(d) ==
  /\ pc[d] # "down"
  /\ now <= FaultHorizon
  /\ Leaves(d, "down")
  /\ UNCHANGED <<jobs, now, starts>>

\* launchd or the container runtime starts the process again.
Restart(d) ==
  /\ pc[d] = "down"
  /\ pc' = [pc EXCEPT ![d] = "claim"]
  /\ UNCHANGED <<jobs, now, held, since, starts>>

Step(d) ==
  \/ ClaimJob(d)
  \/ ClaimNothing(d)
  \/ \E outcome \in {"done", "failed"} : FinishJob(d, outcome)
  \/ ReapStuck(d)
  \/ Prune(d)
  \/ Restart(d)

Next ==
  \/ Tick
  \/ \E j \in Jobs : Enqueue(j)
  \/ \E d \in Drainers : Step(d) \/ LoseStatusWrite(d) \/ Crash(d)

Spec == Init /\ [][Next]_vars

\* The poll loop never stops on its own and every handler returns; time
\* passes.  Nothing makes a client enqueue or a process crash.
Fairness == WF_vars(Tick) /\ \A d \in Drainers : WF_vars(Step(d))

FairSpec == Spec /\ Fairness

-----------------------------------------------------------------------------
\* main.rs: worker_id "must be unique per running drainer".
DistinctWorkers ==
  \A d, e \in Drainers : WorkerOf[d] = WorkerOf[e] => d = e

\* A job's handler is started at most max_attempts times, whatever crashes,
\* lost status writes and reaps happen in between (claim_job, reap_stuck).
AttemptsBounded == \A j \in Jobs : starts[j] <= MaxAttempts

\* No row is left where neither claim_job nor reap_stuck can ever see it: a
\* queued row still has an attempt left and a running row has a claim time.
NoStrandedRow ==
  \A j \in Jobs :
    /\ jobs[j].status = "queued" => jobs[j].attempts < MaxAttempts
    /\ jobs[j].status = "running" => jobs[j].claimed_at # Null

\* Two processes run the handler of one job at the same time only when the
\* second one started more than stuck_ttl_secs after the first (claim_job's
\* atomic UPDATE and reap_stuck's threshold together).
OverlapOnlyAfterTTL ==
  \A d, e \in Drainers : \A j \in Jobs :
    d # e /\ Runs(d, j) /\ Runs(e, j) =>
      since[d] + StuckTTL < since[e] \/ since[e] + StuckTTL < since[d]

\* The outcome a job ends with is the one its latest claim produced: a worker
\* that stalled past the TTL never writes over the claim that replaced its own
\* (the WHERE clause of complete_job).
StaleOutcomeNeverLands ==
  [][\A j \in Jobs :
       jobs[j].status # "done" /\ jobs'[j].status = "done" =>
         \E d \in Drainers :
           /\ Runs(d, j) /\ pc'[d] # "run"
           /\ since[d] = jobs[j].claimed_at
           /\ \A e \in Drainers : Runs(e, j) => since[e] <= since[d]]_vars

\* Every enqueued job ends: it is run to an outcome or, after the last allowed
\* attempt was reaped, failed.
EveryJobEnds ==
  \A j \in Jobs :
    jobs[j].status = "queued" ~> jobs[j].status \in {"done", "failed"}

\* The drainers implement the abstract lease: the owner of a running row is the
\* drainer whose name is in claimed_by; a deleted row is a purged task.
OwnerOf(j) ==
  IF jobs[j].status = "running"
  THEN CHOOSE d \in Drainers : WorkerOf[d] = jobs[j].claimed_by
  ELSE Null

PhaseOf(j) ==
  CASE jobs[j].status = "queued"  -> "waiting"
    [] jobs[j].status = "running" -> "leased"
    [] jobs[j].status = "gone"    -> "purged"
    [] OTHER                      -> jobs[j].status

Lease == INSTANCE JobLease WITH
  Tasks <- Jobs, Owners <- Drainers, NoOwner <- Null, MaxTries <- MaxAttempts,
  phase <- [j \in Jobs |-> PhaseOf(j)],
  owner <- [j \in Jobs |-> OwnerOf(j)],
  tries <- [j \in Jobs |-> jobs[j].attempts]

LeaseSpec == Lease!Spec
=============================================================================
