----------------------------- MODULE JobsTable -----------------------------
(***************************************************************************)
(* The `jobs` table, one operator per SQL statement that reads or writes   *)
(* it.  Every process of the system (lifeos-api, the Worker, the drainers) *)
(* talks to the queue only through these statements; SQLite serialises     *)
(* writers, so each statement is atomic and the interleaving of statements *)
(* is the concurrency of the system.                                       *)
(*                                                                         *)
(* A table is a function from job ids to rows.  `new` stands for an id no  *)
(* INSERT used yet and `gone` for a row the retention prune deleted: ids   *)
(* are fresh ULIDs, so a deleted id never comes back.  `run_after` is left *)
(* out: no statement of the repository writes it, so it is always NULL.    *)
(***************************************************************************)
EXTENDS Integers

CONSTANTS
  Jobs,          \* job ids
  Workers,       \* lease owner names (claimed_by)
  Null,          \* SQL NULL
  MaxAttempts,   \* DrainConfig.max_attempts
  StuckTTL,      \* DrainConfig.stuck_ttl_secs
  Retention      \* LIFEOS_JOB_RETENTION_DAYS in seconds

ASSUME NullAssumption == Null \notin Workers /\ Null \notin Nat
ASSUME MaxAttemptsAssumption == MaxAttempts \in Nat \ {0}
ASSUME StuckTTLAssumption == StuckTTL \in Nat
ASSUME RetentionAssumption == Retention \in Nat \ {0}

Statuses == {"new", "queued", "running", "done", "failed", "gone"}

Row ==
  [status     : Statuses,
   priority   : Int,
   claimed_by : Workers \cup {Null},
   claimed_at : Nat \cup {Null},
   attempts   : Nat,
   created_at : Nat]

NewRow ==
  [status |-> "new", priority |-> 0, claimed_by |-> Null,
   claimed_at |-> Null, attempts |-> 0, created_at |-> 0]

EmptyTable == [j \in Jobs |-> NewRow]

(***************************************************************************)
(* INSERT INTO jobs ... 'queued', priority, attempts 0, created_at now.    *)
(***************************************************************************)
Inserted(t, j, priority, now) ==
  [t EXCEPT ![j] = [NewRow EXCEPT !.status = "queued",
                                  !.priority = priority,
                                  !.created_at = now]]

(***************************************************************************)
(* claim_job: the SELECT inside the UPDATE.  ORDER BY priority DESC,       *)
(* created_at ASC leaves rows of one second and one priority unordered.    *)
(***************************************************************************)
Eligible(t) ==
  {j \in Jobs : t[j].status = "queued" /\ t[j].attempts < MaxAttempts}

NotAfter(r, s) ==
  \/ r.priority > s.priority
  \/ r.priority = s.priority /\ r.created_at <= s.created_at

ClaimChoices(t) ==
  {j \in Eligible(t) : \A k \in Eligible(t) : NotAfter(t[j], t[k])}

Claimed(t, j, w, now) ==
  [t EXCEPT ![j] = [t[j] EXCEPT !.status = "running",
                                !.claimed_by = w,
                                !.claimed_at = now,
                                !.attempts = t[j].attempts + 1]]

(***************************************************************************)
(* complete_job and fail_job share the lease guard of their WHERE clause:  *)
(* zero rows are updated when the worker no longer holds the job.          *)
(***************************************************************************)
Holds(t, j, w) == t[j].status = "running" /\ t[j].claimed_by = w

\* Mutant: the outcome is written by id alone.
FinalisedUnguarded(t, j, w, outcome) ==
  [t EXCEPT ![j].status = outcome]

Finalised(t, j, w, outcome) ==
  IF Holds(t, j, w) THEN [t EXCEPT ![j].status = outcome] ELSE t

(***************************************************************************)
(* reap_stuck: one UPDATE over every running row claimed before now - TTL. *)
(***************************************************************************)
\* Mutant: the threshold is reached one second early.
StuckAtTTL(t, now) ==
  {j \in Jobs : /\ t[j].status = "running"
                /\ t[j].claimed_at # Null
                /\ t[j].claimed_at <= now - StuckTTL}

Stuck(t, now) ==
  {j \in Jobs : /\ t[j].status = "running"
                /\ t[j].claimed_at # Null
                /\ t[j].claimed_at < now - StuckTTL}

\* Mutant: the cap is tested with > instead of >=.
ReapedOffByOne(t, now) ==
  [j \in Jobs |->
     IF j \in Stuck(t, now)
     THEN [t[j] EXCEPT
             !.status = IF t[j].attempts > MaxAttempts THEN "failed" ELSE "queued",
             !.claimed_by = Null,
             !.claimed_at = Null]
     ELSE t[j]]

Reaped(t, now) ==
  [j \in Jobs |->
     IF j \in Stuck(t, now)
     THEN [t[j] EXCEPT
             !.status = IF t[j].attempts >= MaxAttempts THEN "failed" ELSE "queued",
             !.claimed_by = Null,
             !.claimed_at = Null]
     ELSE t[j]]

(***************************************************************************)
(* prune_old_jobs_and_sessions, the `jobs` half.  PRUNE_BATCH (500 rows)   *)
(* is above the number of rows of any instance, so a call takes them all.  *)
(***************************************************************************)
Prunable(t, now) ==
  {j \in Jobs : /\ t[j].status \in {"done", "failed"}
                /\ t[j].created_at < now - Retention}

Pruned(t, now) ==
  [j \in Jobs |->
     IF j \in Prunable(t, now) THEN [t[j] EXCEPT !.status = "gone"] ELSE t[j]]
=============================================================================
