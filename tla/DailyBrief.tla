------------------------------ MODULE DailyBrief ------------------------------
(***************************************************************************)
(* The daily brief of lifeos-drain in one workspace.  In every turn of its *)
(* loop a drainer claims a daily_brief job and runs it (agent turn, brief  *)
(* entity, brief.sent event, outcome), reaps, and then decides whether a   *)
(* new brief is due: it reads the brief.sent ledger, looks for a pending   *)
(* job and inserts one, in three statements.  Jobs of other kinds, which a *)
(* drainer takes in between, only cost time.                               *)
(***************************************************************************)
EXTENDS JobsTable, Sequences, FiniteSets, FiniteSetsExt, Functions

CONSTANTS
  Drainers,        \* processes, each with a lease owner name of its own
  TzOf,            \* tz_offset_secs, read by each drainer at its start
  DaySecs, HourSecs, BriefHour,  \* 86 400, 3 600 and LIFEOS_BRIEF_HOUR
  MaxJobs, MaxTime,  \* bounds: job rows, clock
  MaxFaults, FaultHorizon  \* bounds: failures and deaths, and the time they stop

ASSUME BriefAssumption ==
  /\ Drainers = Workers /\ IsFiniteSet(Drainers) /\ Jobs = 1..MaxJobs /\ Null \notin Jobs
  /\ TzOf \in [Drainers -> Int]
  /\ {DaySecs, HourSecs} \subseteq Nat \ {0}
  /\ {BriefHour, MaxJobs, MaxTime, MaxFaults, FaultHorizon} \subseteq Nat

Times == 0..MaxTime

VARIABLES
  jobs,     \* the daily_brief rows of the jobs table
  now,      \* wall clock
  ledger,   \* the ts of the brief.sent events, as they were logged
  briefs,   \* brief entities by their created_at
  pc,       \* the next statement of a drainer
  held,     \* the job it runs
  stamp,    \* `now` as its handler or its trigger was given it
  faults,
  overruns  \* history: leases that ran out under a living drainer

drainVars  == <<pc, held, stamp>>
outputVars == <<ledger, briefs>>
briefVars == <<jobs, now, outputVars, drainVars, faults, overruns>>

BriefInit ==
  /\ jobs = EmptyTable /\ now = 0
  /\ ledger = <<>> /\ briefs = [t \in Times |-> 0]
  /\ pc = [d \in Drainers |-> "claim"]
  /\ held = [d \in Drainers |-> Null]
  /\ stamp = [d \in Drainers |-> 0]
  /\ faults = 0 /\ overruns = 0

Tick ==
  /\ now < MaxTime
  /\ now' = now + 1
  /\ UNCHANGED <<jobs, outputVars, drainVars, faults, overruns>>

Go(d, next) == pc' = [pc EXCEPT ![d] = next]

\* Its handler or its trigger is over.
Leaves(d, next) ==
  /\ Go(d, next)
  /\ held' = [held EXCEPT ![d] = Null]
  /\ stamp' = [stamp EXCEPT ![d] = 0]

\* One failed statement, agent turn or process.
Fault == faults < MaxFaults /\ now <= FaultHorizon /\ faults' = faults + 1
-----------------------------------------------------------------------------
(* run_daily_brief under a lease. *)

Claim(d) ==
  /\ pc[d] = "claim"
  /\ IF Eligible(jobs) = {}
       THEN Go(d, "reap") /\ UNCHANGED <<jobs, held, stamp>>
       ELSE \E j \in ClaimChoices(jobs) :
              /\ jobs' = Claimed(jobs, j, d, now)
              /\ held' = [held EXCEPT ![d] = j]
              /\ stamp' = [stamp EXCEPT ![d] = now]
              /\ Go(d, "agent")
  /\ UNCHANGED <<now, outputVars, faults, overruns>>

\* The dry-run agent turn; nothing is written when it fails.
RunAgent(d) ==
  /\ pc[d] = "agent"
  /\ \/ Go(d, "write") /\ UNCHANGED faults
     \/ Go(d, "failed") /\ Fault
  /\ UNCHANGED <<jobs, now, outputVars, held, stamp, overruns>>

InsertBriefEntity(d) ==
  /\ pc[d] = "write"
  /\ \/ /\ briefs' = [briefs EXCEPT ![stamp[d]] = @ + 1]
        /\ Go(d, "ledger") /\ UNCHANGED faults
     \/ Go(d, "failed") /\ Fault /\ UNCHANGED briefs
  /\ UNCHANGED <<jobs, now, ledger, held, stamp, overruns>>

EmitBriefSent(d) ==
  /\ pc[d] = "ledger"
  /\ \/ /\ ledger' = Append(ledger, stamp[d])
        /\ Go(d, "done") /\ UNCHANGED faults
     \/ Go(d, "failed") /\ Fault /\ UNCHANGED ledger
  /\ UNCHANGED <<jobs, now, briefs, held, stamp, overruns>>

\* complete_job or fail_job under the lease guard; the write itself may fail.
Report(d) ==
  /\ pc[d] \in {"done", "failed"}
  /\ \/ jobs' = Finalised(jobs, held[d], d, pc[d]) /\ UNCHANGED faults
     \/ Fault /\ UNCHANGED jobs
  /\ Leaves(d, "reap")
  /\ UNCHANGED <<now, outputVars, overruns>>

ReapStuck(d) ==
  /\ pc[d] = "reap"
  /\ jobs' = Reaped(jobs, now)
  /\ overruns' = overruns + Cardinality({j \in Stuck(jobs, now) : held[jobs[j].claimed_by] = j})
  /\ Go(d, "due")
  /\ UNCHANGED <<now, outputVars, held, stamp, faults>>

\* The process dies; launchd or the container runtime starts it again.
DrainerDies(d) ==
  /\ Fault
  /\ Leaves(d, "claim")
  /\ UNCHANGED <<jobs, now, outputVars, overruns>>
-----------------------------------------------------------------------------
(* maybe_enqueue_daily_brief. *)

LocalDay(t, tz) == (t + tz) \div DaySecs

Sent == Range(ledger)

\* Mutant: the ledger is not consulted.
brief_due_by_hour(t, tz) == ((t + tz) % DaySecs) \div HourSecs >= BriefHour

brief_due(t, tz) ==
  /\ ((t + tz) % DaySecs) \div HourSecs >= BriefHour
  /\ Sent # {} => LocalDay(Max(Sent), tz) < LocalDay(t, tz)

CheckDue(d) ==
  /\ pc[d] = "due"
  /\ IF brief_due(now, TzOf[d])
       THEN /\ stamp' = [stamp EXCEPT ![d] = now]
            /\ Go(d, "debounce") /\ UNCHANGED held
       ELSE Leaves(d, "claim")
  /\ UNCHANGED <<jobs, now, outputVars, faults, overruns>>

\* Mutant: finished jobs hold back new ones too.
PendingEver == {j \in Jobs : jobs[j].status # "new"}

Pending == {j \in Jobs : jobs[j].status \in {"queued", "running"}}

Debounce(d) ==
  /\ pc[d] = "debounce"
  /\ IF Pending = {} THEN Go(d, "insert") /\ UNCHANGED <<held, stamp>>
                     ELSE Leaves(d, "claim")
  /\ UNCHANGED <<jobs, now, outputVars, faults, overruns>>

InsertJob(d) ==
  LET j == 1 + Cardinality({k \in Jobs : jobs[k].status # "new"}) IN
  /\ pc[d] = "insert" /\ j \in Jobs
  /\ jobs' = Inserted(jobs, j, 0, stamp[d])
  /\ Leaves(d, "claim")
  /\ UNCHANGED <<now, outputVars, faults, overruns>>
-----------------------------------------------------------------------------
DrainStep(d) ==
  \/ Claim(d) \/ RunAgent(d) \/ InsertBriefEntity(d) \/ EmitBriefSent(d) \/ Report(d)
  \/ ReapStuck(d) \/ CheckDue(d) \/ Debounce(d) \/ InsertJob(d)

BriefNext == Tick \/ \E d \in Drainers : DrainStep(d) \/ DrainerDies(d)

BriefSpec == BriefInit /\ [][BriefNext]_briefVars

\* Time passes, agent turns end and the poll loop goes on.
FairBriefSpec == BriefSpec /\ WF_briefVars(Tick) /\ \A d \in Drainers : WF_briefVars(DrainStep(d))
-----------------------------------------------------------------------------
Places == {"claim", "agent", "write", "ledger", "done", "failed", "reap", "due", "debounce", "insert"}

\* The shape of every variable.
BriefTypeOK ==
  /\ jobs \in [Jobs -> Row] /\ now \in Times
  /\ ledger \in Seq(Times) /\ briefs \in [Times -> Nat]
  /\ pc \in [Drainers -> Places]
  /\ held \in [Drainers -> Jobs \cup {Null}]
  /\ stamp \in [Drainers -> Times]
  /\ faults \in 0..MaxFaults /\ overruns \in Nat

SentOn(day, tz) == Cardinality({n \in DOMAIN ledger : LocalDay(ledger[n], tz) = day})

\* Where drainers share a zone, a local day sees one brief, and one more only for each
\* other drainer that decided at the same time, each fault and each lease that ran out
\* (lib.rs:1009-1014: the ledger and the debounce together).
BriefsPerDay ==
  (\A d, e \in Drainers : TzOf[d] = TzOf[e]) =>
    \A d \in Drainers, t \in Times :
      SentOn(LocalDay(t, TzOf[d]), TzOf[d]) <= Cardinality(Drainers) + faults + overruns

\* The promise as it is written: at most one brief per workspace per local day.
OneBriefPerDay ==
  \A d \in Drainers, t \in Times : SentOn(LocalDay(t, TzOf[d]), TzOf[d]) <= 1

\* Whatever failed, died or ran late, in the end no drainer finds a brief overdue:
\* a failed or lost brief is made up for on its day or by the next day's.
BriefsCatchUp == []<>(\A d \in Drainers : ~ brief_due(now, TzOf[d]))
=============================================================================
