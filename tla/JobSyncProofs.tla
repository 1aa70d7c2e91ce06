--------------------------- MODULE JobSyncProofs ----------------------------
(***************************************************************************)
(* Theorems about the drainers and the jobs table, for any number of       *)
(* drainers and jobs, any attempt cap, TTL and retention, and an unbounded *)
(* number of faults within whatever bounds the constants give; and about   *)
(* the syncs of connected accounts, for any items and any number of syncs  *)
(* at once.                                                                *)
(***************************************************************************)
EXTENDS JobQueue, Sources, SequenceTheorems, TLAPS

-----------------------------------------------------------------------------
\* The statements of the table keep every row a row.
LEMMA InsertedType ==
  ASSUME NEW t \in [Jobs -> Row], NEW j \in Jobs, NEW p \in Int, NEW n \in Nat
  PROVE  Inserted(t, j, p, n) \in [Jobs -> Row]
BY DEF Inserted, NewRow, Row, Statuses

LEMMA ClaimedType ==
  ASSUME NEW t \in [Jobs -> Row], NEW j \in Jobs, NEW w \in Workers, NEW n \in Nat
  PROVE  Claimed(t, j, w, n) \in [Jobs -> Row]
<1> DEFINE r == [t[j] EXCEPT !.status = "running", !.claimed_by = w,
                             !.claimed_at = n, !.attempts = t[j].attempts + 1]
<1>1. r \in Row
  <2>1. t[j] \in Row
    OBVIOUS
  <2>2. t[j].attempts + 1 \in Nat
    BY <2>1 DEF Row
  <2> QED BY <2>1, <2>2 DEF Row, Statuses
<1>2. Claimed(t, j, w, n) = [t EXCEPT ![j] = r]
  BY DEF Claimed
<1> HIDE DEF r
<1> QED BY <1>1, <1>2

LEMMA FinalisedType ==
  ASSUME NEW t \in [Jobs -> Row], NEW j, NEW w, NEW o \in {"done", "failed"}
  PROVE  Finalised(t, j, w, o) \in [Jobs -> Row]
BY DEF Finalised, Row, Statuses

LEMMA ReapedType ==
  ASSUME NEW t \in [Jobs -> Row], NEW n
  PROVE  Reaped(t, n) \in [Jobs -> Row]
BY DEF Reaped, Row, Statuses

LEMMA PrunedType ==
  ASSUME NEW t \in [Jobs -> Row], NEW n
  PROVE  Pruned(t, n) \in [Jobs -> Row]
BY DEF Pruned, Row, Statuses

\* What each statement does to each row.
LEMMA ClaimedRows ==
  ASSUME NEW t \in [Jobs -> Row], NEW j \in Jobs, NEW w, NEW n
  PROVE  /\ Claimed(t, j, w, n)[j].status = "running"
         /\ Claimed(t, j, w, n)[j].claimed_by = w
         /\ Claimed(t, j, w, n)[j].claimed_at = n
         /\ Claimed(t, j, w, n)[j].attempts = t[j].attempts + 1
         /\ \A k \in Jobs \ {j} : Claimed(t, j, w, n)[k] = t[k]
<1>1. t[j] \in Row
  OBVIOUS
<1> QED BY <1>1 DEF Claimed, Row

LEMMA FinalisedRows ==
  ASSUME NEW t \in [Jobs -> Row], NEW j \in Jobs, NEW w, NEW o
  PROVE  /\ Holds(t, j, w) => /\ Finalised(t, j, w, o)[j].status = o
                              /\ Finalised(t, j, w, o)[j].attempts = t[j].attempts
         /\ ~ Holds(t, j, w) => Finalised(t, j, w, o)[j] = t[j]
         /\ \A k \in Jobs \ {j} : Finalised(t, j, w, o)[k] = t[k]
<1>1. t[j] \in Row
  OBVIOUS
<1> QED BY <1>1 DEF Finalised, Row

LEMMA ReapedRows ==
  ASSUME NEW t \in [Jobs -> Row], NEW n, NEW k \in Jobs
  PROVE  /\ Reaped(t, n)[k].attempts = t[k].attempts
         /\ k \notin Stuck(t, n) => Reaped(t, n)[k] = t[k]
         /\ k \in Stuck(t, n) =>
              Reaped(t, n)[k].status
                = IF t[k].attempts >= MaxAttempts THEN "failed" ELSE "queued"
<1>1. t[k] \in Row
  OBVIOUS
<1>2. CASE k \in Stuck(t, n)
  BY <1>1, <1>2 DEF Reaped, Row
<1>3. CASE k \notin Stuck(t, n)
  BY <1>3 DEF Reaped
<1> QED BY <1>2, <1>3

LEMMA PrunedRows ==
  ASSUME NEW t \in [Jobs -> Row], NEW n, NEW k \in Jobs
  PROVE  /\ Pruned(t, n)[k].attempts = t[k].attempts
         /\ k \notin Prunable(t, n) => Pruned(t, n)[k] = t[k]
         /\ k \in Prunable(t, n) => Pruned(t, n)[k].status = "gone"
<1>1. t[k] \in Row
  OBVIOUS
<1>2. CASE k \in Prunable(t, n)
  BY <1>1, <1>2 DEF Pruned, Row
<1>3. CASE k \notin Prunable(t, n)
  BY <1>3 DEF Pruned
<1> QED BY <1>2, <1>3

\* Every variable keeps its type.
THEOREM TypeCorrect == Spec => []TypeOK
<1>1. Init => TypeOK
  BY DEF Init, TypeOK, EmptyTable, NewRow, Row, Statuses, Phases
<1>2. TypeOK /\ [Next]_vars => TypeOK'
  <2> SUFFICES ASSUME TypeOK, [Next]_vars PROVE TypeOK'
    OBVIOUS
  <2> USE WorkerOfAssumption, PrioritiesAssumption DEF TypeOK, Phases
  <2>1. CASE Tick
    BY <2>1 DEF Tick
  <2>2. ASSUME NEW j \in Jobs, Enqueue(j) PROVE TypeOK'
    <3>1. PICK p \in Priorities : jobs' = Inserted(jobs, j, p, now)
      BY <2>2 DEF Enqueue
    <3>2. jobs' \in [Jobs -> Row]
      BY <3>1, InsertedType
    <3> QED BY <2>2, <3>2 DEF Enqueue
  <2>3. ASSUME NEW d \in Drainers, ClaimJob(d) PROVE TypeOK'
    <3>1. PICK j \in Jobs : /\ jobs' = Claimed(jobs, j, WorkerOf[d], now)
                            /\ held' = [held EXCEPT ![d] = j]
                            /\ starts' = [starts EXCEPT ![j] = @ + 1]
      BY <2>3 DEF ClaimJob, ClaimChoices, Eligible
    <3>2. jobs' \in [Jobs -> Row]
      BY <3>1, ClaimedType
    <3> QED BY <2>3, <3>1, <3>2 DEF ClaimJob
  <2>4. ASSUME NEW d \in Drainers, ClaimNothing(d) PROVE TypeOK'
    BY <2>4 DEF ClaimNothing
  <2>5. ASSUME NEW d \in Drainers, NEW o \in {"done", "failed"}, FinishJob(d, o)
        PROVE  TypeOK'
    <3>1. jobs' \in [Jobs -> Row]
      BY <2>5, FinalisedType DEF FinishJob
    <3> QED BY <2>5, <3>1 DEF FinishJob, Leaves
  <2>6. ASSUME NEW d \in Drainers, LoseStatusWrite(d) PROVE TypeOK'
    BY <2>6 DEF LoseStatusWrite, Leaves
  <2>7. ASSUME NEW d \in Drainers, ReapStuck(d) PROVE TypeOK'
    <3>1. jobs' \in [Jobs -> Row]
      BY <2>7, ReapedType DEF ReapStuck
    <3> QED BY <2>7, <3>1 DEF ReapStuck
  <2>8. ASSUME NEW d \in Drainers, Prune(d) PROVE TypeOK'
    <3>1. jobs' \in [Jobs -> Row]
      BY <2>8, PrunedType DEF Prune
    <3> QED BY <2>8, <3>1 DEF Prune
  <2>9. ASSUME NEW d \in Drainers, Crash(d) PROVE TypeOK'
    BY <2>9 DEF Crash, Leaves
  <2>10. ASSUME NEW d \in Drainers, Restart(d) PROVE TypeOK'
    BY <2>10 DEF Restart
  <2>11. CASE UNCHANGED vars
    BY <2>11 DEF vars
  <2> QED
    BY <2>1, <2>2, <2>3, <2>4, <2>5, <2>6, <2>7, <2>8, <2>9, <2>10, <2>11
    DEF Next, Step
<1> QED BY <1>1, <1>2, PTL DEF Spec

-----------------------------------------------------------------------------
\* The inductive invariant.  The attempts counter of a row counts the starts of
\* its handler and leaves room for one more while the row is queued.
AttemptInv ==
  \A j \in Jobs :
    /\ starts[j] = jobs[j].attempts
    /\ jobs[j].attempts <= MaxAttempts
    /\ jobs[j].status = "new" => jobs[j].attempts = 0
    /\ jobs[j].status = "queued" => jobs[j].attempts < MaxAttempts
    /\ jobs[j].status = "running" => jobs[j].claimed_at \in Nat

\* A drainer in its handler either holds the row with the claim it made, or has
\* been past the TTL when it lost it; whoever holds the row claimed it last.
LeaseOf(d) ==
  /\ held[d] \in Jobs
  /\ since[d] <= now
  /\ Holds(jobs, held[d], WorkerOf[d]) => jobs[held[d]].claimed_at = since[d]
  /\ ~ Holds(jobs, held[d], WorkerOf[d]) => since[d] + StuckTTL < now
  /\ jobs[held[d]].status = "running" => since[d] <= jobs[held[d]].claimed_at

LeaseInv == \A d \in Drainers : pc[d] = "run" => LeaseOf(d)

IInv == TypeOK /\ AttemptInv /\ LeaseInv /\ OverlapOnlyAfterTTL

\* The drainers keep the attempt counts: no step loses or invents a start.
LEMMA AttemptStep ==
  ASSUME TypeOK, TypeOK', AttemptInv, [Next]_vars
  PROVE  AttemptInv'
<1> USE MaxAttemptsAssumption DEF TypeOK, AttemptInv
<1>1. CASE Tick
  BY <1>1 DEF Tick
<1>2. ASSUME NEW j \in Jobs, Enqueue(j) PROVE AttemptInv'
  BY <1>2 DEF Enqueue, Inserted, NewRow, Row
<1>3. ASSUME NEW d \in Drainers, ClaimJob(d) PROVE AttemptInv'
  <2>1. PICK j \in Jobs : /\ jobs[j].attempts < MaxAttempts
                          /\ jobs' = Claimed(jobs, j, WorkerOf[d], now)
                          /\ starts' = [starts EXCEPT ![j] = @ + 1]
    BY <1>3 DEF ClaimJob, ClaimChoices, Eligible
  <2>2. jobs[j] \in Row /\ jobs[j].attempts \in Nat
    BY DEF Row
  <2>3. /\ jobs'[j].attempts = jobs[j].attempts + 1
        /\ jobs'[j].status = "running"
        /\ jobs'[j].claimed_at = now
        /\ \A k \in Jobs \ {j} : jobs'[k] = jobs[k]
    BY <2>1, <2>2 DEF Claimed, Row
  <2>4. /\ starts'[j] = starts[j] + 1
        /\ \A k \in Jobs \ {j} : starts'[k] = starts[k]
    BY <2>1
  <2> QED BY <2>1, <2>2, <2>3, <2>4
<1>4. ASSUME NEW d \in Drainers, ClaimNothing(d) PROVE AttemptInv'
  BY <1>4 DEF ClaimNothing
<1>5. ASSUME NEW d \in Drainers, NEW o \in {"done", "failed"}, FinishJob(d, o)
      PROVE  AttemptInv'
  BY <1>5 DEF FinishJob, Finalised, Row
<1>6. ASSUME NEW d \in Drainers, LoseStatusWrite(d) PROVE AttemptInv'
  BY <1>6 DEF LoseStatusWrite
<1>7. ASSUME NEW d \in Drainers, ReapStuck(d) PROVE AttemptInv'
  <2> SUFFICES ASSUME NEW j \in Jobs
               PROVE  /\ starts'[j] = jobs'[j].attempts
                      /\ jobs'[j].attempts <= MaxAttempts
                      /\ jobs'[j].status = "new" => jobs'[j].attempts = 0
                      /\ jobs'[j].status = "queued" => jobs'[j].attempts < MaxAttempts
                      /\ jobs'[j].status = "running" => jobs'[j].claimed_at \in Nat
    OBVIOUS
  <2>1. jobs' = Reaped(jobs, now) /\ starts' = starts
    BY <1>7 DEF ReapStuck
  <2>2. jobs[j].attempts \in Nat
    BY DEF Row
  <2> QED BY <2>1, <2>2, ReapedRows
<1>8. ASSUME NEW d \in Drainers, Prune(d) PROVE AttemptInv'
  BY <1>8 DEF Prune, Pruned, Row
<1>9. ASSUME NEW d \in Drainers, Crash(d) PROVE AttemptInv'
  BY <1>9 DEF Crash
<1>10. ASSUME NEW d \in Drainers, Restart(d) PROVE AttemptInv'
  BY <1>10 DEF Restart
<1>11. CASE UNCHANGED vars
  BY <1>11 DEF vars
<1> QED
  BY <1>1, <1>2, <1>3, <1>4, <1>5, <1>6, <1>7, <1>8, <1>9, <1>10, <1>11
  DEF Next, Step

\* A drainer in its handler keeps its lease or loses it past the TTL only.
LEMMA LeaseStep ==
  ASSUME DistinctWorkers, TypeOK, TypeOK', AttemptInv, LeaseInv, [Next]_vars
  PROVE  LeaseInv'
<1> SUFFICES ASSUME NEW e \in Drainers, pc'[e] = "run" PROVE LeaseOf(e)'
  BY DEF LeaseInv
<1> USE StuckTTLAssumption DEF TypeOK
<1>a. ASSUME pc[e] = "run", held'[e] = held[e], since'[e] = since[e], now' = now,
             held[e] \in Jobs => jobs'[held[e]] = jobs[held[e]]
      PROVE  LeaseOf(e)'
  BY <1>a DEF LeaseInv, LeaseOf, Holds
<1>1. CASE Tick
  <2>1. /\ pc[e] = "run" /\ held' = held /\ since' = since
        /\ jobs' = jobs /\ now' = now + 1
    BY <1>1 DEF Tick
  <2> QED BY <2>1 DEF LeaseInv, LeaseOf, Holds
<1>2. ASSUME NEW j \in Jobs, Enqueue(j) PROVE LeaseOf(e)'
  <2>1. PICK p \in Priorities : jobs' = Inserted(jobs, j, p, now)
    BY <1>2 DEF Enqueue
  <2>2. jobs'[j].status = "queued" /\ \A k \in Jobs \ {j} : jobs'[k] = jobs[k]
    BY <2>1 DEF Inserted, NewRow
  <2>3. pc[e] = "run" /\ held' = held /\ since' = since /\ now' = now
        /\ jobs[j].status = "new"
    BY <1>2 DEF Enqueue
  <2> QED BY <2>2, <2>3 DEF LeaseInv, LeaseOf, Holds
<1>3. ASSUME NEW d \in Drainers, ClaimJob(d) PROVE LeaseOf(e)'
  <2>1. PICK j \in Jobs : /\ jobs[j].status = "queued"
                          /\ jobs' = Claimed(jobs, j, WorkerOf[d], now)
                          /\ held' = [held EXCEPT ![d] = j]
    BY <1>3 DEF ClaimJob, ClaimChoices, Eligible
  <2>2. /\ jobs'[j].status = "running"
        /\ jobs'[j].claimed_by = WorkerOf[d]
        /\ jobs'[j].claimed_at = now
        /\ \A k \in Jobs \ {j} : jobs'[k] = jobs[k]
    BY <2>1, ClaimedRows
  <2>3. since' = [since EXCEPT ![d] = now] /\ now' = now
        /\ pc' = [pc EXCEPT ![d] = "run"]
    BY <1>3 DEF ClaimJob
  <2>4. CASE e = d
    BY <2>1, <2>2, <2>3, <2>4 DEF LeaseOf, Holds
  <2>5. CASE e # d /\ held[e] = j
    <3>1. pc[e] = "run" /\ held'[e] = j /\ since'[e] = since[e]
      BY <2>1, <2>3, <2>5
    <3>2. ~ Holds(jobs, j, WorkerOf[e]) /\ ~ Holds(jobs', j, WorkerOf[e])
      BY <2>1, <2>2, <2>5 DEF Holds, DistinctWorkers
    <3> QED BY <2>2, <2>3, <2>5, <3>1, <3>2 DEF LeaseInv, LeaseOf
  <2>6. CASE e # d /\ held[e] # j
    BY <1>a, <2>1, <2>2, <2>3, <2>6
  <2> QED BY <2>4, <2>5, <2>6
<1>4. ASSUME NEW d \in Drainers, ClaimNothing(d) PROVE LeaseOf(e)'
  BY <1>4, <1>a DEF ClaimNothing
<1>5. ASSUME NEW d \in Drainers, NEW o \in {"done", "failed"}, FinishJob(d, o)
      PROVE  LeaseOf(e)'
  <2>1. /\ e # d /\ pc[e] = "run" /\ pc[d] = "run"
        /\ held'[e] = held[e] /\ since'[e] = since[e] /\ now' = now
        /\ jobs' = Finalised(jobs, held[d], WorkerOf[d], o)
    BY <1>5 DEF FinishJob, Leaves
  <2>2. held[d] \in Jobs /\ held[e] \in Jobs
    BY <2>1 DEF LeaseInv, LeaseOf
  <2>3. CASE Holds(jobs, held[d], WorkerOf[d]) /\ held[e] = held[d]
    <3>1. jobs'[held[e]].status = o
      BY <2>1, <2>2, <2>3, FinalisedRows
    <3>2. ~ Holds(jobs, held[e], WorkerOf[e])
      BY <2>1, <2>3 DEF Holds, DistinctWorkers
    <3> QED BY <2>1, <2>2, <3>1, <3>2 DEF LeaseInv, LeaseOf, Holds
  <2>4. CASE ~ (Holds(jobs, held[d], WorkerOf[d]) /\ held[e] = held[d])
    BY <1>a, <2>1, <2>2, <2>4, FinalisedRows
  <2> QED BY <2>3, <2>4
<1>6. ASSUME NEW d \in Drainers, LoseStatusWrite(d) PROVE LeaseOf(e)'
  BY <1>6, <1>a DEF LoseStatusWrite, Leaves
<1>7. ASSUME NEW d \in Drainers, ReapStuck(d) PROVE LeaseOf(e)'
  <2>1. /\ pc[e] = "run" /\ held' = held /\ since' = since /\ now' = now
        /\ jobs' = Reaped(jobs, now)
    BY <1>7 DEF ReapStuck
  <2>2. held[e] \in Jobs
    BY <2>1 DEF LeaseInv, LeaseOf
  <2>3. CASE held[e] \in Stuck(jobs, now)
    <3>1. jobs'[held[e]].status \in {"failed", "queued"}
      BY <2>1, <2>2, <2>3, ReapedRows
    <3>2. jobs[held[e]].claimed_at \in Nat /\ jobs[held[e]].claimed_at < now - StuckTTL
          /\ jobs[held[e]].status = "running"
      BY <2>2, <2>3 DEF Stuck, AttemptInv
    <3> QED BY <2>1, <2>2, <3>1, <3>2 DEF LeaseInv, LeaseOf, Holds
  <2>4. CASE held[e] \notin Stuck(jobs, now)
    BY <1>a, <2>1, <2>2, <2>4, ReapedRows
  <2> QED BY <2>3, <2>4
<1>8. ASSUME NEW d \in Drainers, Prune(d) PROVE LeaseOf(e)'
  <2>1. /\ pc[e] = "run" /\ held' = held /\ since' = since /\ now' = now
        /\ jobs' = Pruned(jobs, now)
    BY <1>8 DEF Prune
  <2>2. held[e] \in Jobs
    BY <2>1 DEF LeaseInv, LeaseOf
  <2>3. CASE held[e] \in Prunable(jobs, now)
    <3>1. jobs'[held[e]].status = "gone" /\ jobs[held[e]].status # "running"
      BY <2>1, <2>2, <2>3, PrunedRows DEF Prunable
    <3> QED BY <2>1, <2>2, <3>1 DEF LeaseInv, LeaseOf, Holds
  <2>4. CASE held[e] \notin Prunable(jobs, now)
    BY <1>a, <2>1, <2>2, <2>4, PrunedRows
  <2> QED BY <2>3, <2>4
<1>9. ASSUME NEW d \in Drainers, Crash(d) PROVE LeaseOf(e)'
  BY <1>9, <1>a DEF Crash, Leaves
<1>10. ASSUME NEW d \in Drainers, Restart(d) PROVE LeaseOf(e)'
  BY <1>10, <1>a DEF Restart
<1>11. CASE UNCHANGED vars
  BY <1>11, <1>a DEF vars
<1> QED
  BY <1>1, <1>2, <1>3, <1>4, <1>5, <1>6, <1>7, <1>8, <1>9, <1>10, <1>11
  DEF Next, Step

\* Only ClaimJob starts a handler; every other step keeps or ends it.
LEMMA OverlapStep ==
  ASSUME TypeOK, TypeOK', LeaseInv, OverlapOnlyAfterTTL, [Next]_vars
  PROVE  OverlapOnlyAfterTTL'
<1> USE DEF TypeOK
<1>1. CASE \E d \in Drainers : ClaimJob(d)
  <2>1. PICK d \in Drainers : ClaimJob(d)
    BY <1>1
  <2>2. PICK j \in Jobs : jobs[j].status = "queued" /\ held' = [held EXCEPT ![d] = j]
    BY <2>1 DEF ClaimJob, ClaimChoices, Eligible
  <2>3. /\ since' = [since EXCEPT ![d] = now]
        /\ pc' = [pc EXCEPT ![d] = "run"]
        /\ pc[d] = "claim"
    BY <2>1 DEF ClaimJob
  <2>4. \A e \in Drainers \ {d} : Runs(e, j) => since[e] + StuckTTL < now
    BY <2>2 DEF Runs, LeaseInv, LeaseOf, Holds
  <2>5. \A e \in Drainers \ {d} : /\ \A k \in Jobs : Runs(e, k)' <=> Runs(e, k)
                                 /\ since'[e] = since[e]
    BY <2>2, <2>3 DEF Runs
  <2>6. \A k \in Jobs : Runs(d, k)' => k = j
    BY <2>2 DEF Runs
  <2>7. since'[d] = now
    BY <2>3
  <2> QED BY <2>4, <2>5, <2>6, <2>7 DEF OverlapOnlyAfterTTL
<1>2. CASE ~ \E d \in Drainers : ClaimJob(d)
  <2>1. \A e \in Drainers : pc'[e] = "run" =>
          pc[e] = "run" /\ held'[e] = held[e] /\ since'[e] = since[e]
    BY <1>2 DEF Next, Step, Tick, Enqueue, ClaimNothing, FinishJob, LoseStatusWrite,
                ReapStuck, Prune, Crash, Restart, Leaves, vars
  <2> QED BY <2>1 DEF OverlapOnlyAfterTTL, Runs
<1> QED BY <1>1, <1>2

\* IInv is inductive; it needs every drainer to have a name of its own.
THEOREM Inductive == ASSUME DistinctWorkers PROVE Spec => []IInv
<1>1. Init => IInv
  BY MaxAttemptsAssumption, TypeCorrect
  DEF Init, IInv, TypeOK, AttemptInv, LeaseInv, OverlapOnlyAfterTTL, Runs, EmptyTable,
      NewRow, Row, Statuses, Phases
<1>2. TypeOK /\ TypeOK' /\ IInv /\ [Next]_vars => IInv'
  BY AttemptStep, LeaseStep, OverlapStep DEF IInv
<1>3. Spec => []TypeOK
  BY TypeCorrect
<1> QED BY <1>1, <1>2, <1>3, PTL DEF Spec

\* The attempt counts need nothing of the names.
LEMMA AttemptsInductive == Spec => [](TypeOK /\ AttemptInv)
<1>1. Init => AttemptInv
  <2> SUFFICES ASSUME Init, NEW j \in Jobs
               PROVE  starts[j] = jobs[j].attempts /\ jobs[j].attempts = 0
                      /\ jobs[j].status = "new" /\ 0 < MaxAttempts /\ 0 <= MaxAttempts
    BY DEF AttemptInv
  <2>1. 0 < MaxAttempts /\ 0 <= MaxAttempts
    BY MaxAttemptsAssumption
  <2> QED BY <2>1 DEF Init, EmptyTable, NewRow
<1>2. TypeOK /\ TypeOK' /\ AttemptInv /\ [Next]_vars => AttemptInv'
  BY AttemptStep
<1> QED BY <1>1, <1>2, TypeCorrect, PTL DEF Spec

\* A handler is started at most MaxAttempts times.
THEOREM AttemptsAreBounded == Spec => []AttemptsBounded
<1>1. AttemptInv => AttemptsBounded
  BY DEF AttemptInv, AttemptsBounded
<1> QED BY <1>1, AttemptsInductive, PTL

\* No row is left in a state that neither claim_job nor reap_stuck selects.
THEOREM NothingStrands == Spec => []NoStrandedRow
<1>1. AttemptInv => NoStrandedRow
  BY NullAssumption DEF AttemptInv, NoStrandedRow
<1> QED BY <1>1, AttemptsInductive, PTL

\* Handlers of one job overlap only when the earlier one is past the TTL.
THEOREM HandlersOverlapLate == ASSUME DistinctWorkers PROVE Spec => []OverlapOnlyAfterTTL
<1>1. IInv => OverlapOnlyAfterTTL
  BY DEF IInv
<1> QED BY <1>1, Inductive, PTL

\* The only step that makes a row done is the write of its current holder.
LEMMA DoneStep ==
  ASSUME IInv, IInv', [Next]_vars, NEW j \in Jobs,
         jobs[j].status # "done", jobs'[j].status = "done"
  PROVE  \E d \in Drainers : FinishJob(d, "done") /\ held[d] = j
                             /\ Holds(jobs, j, WorkerOf[d])
<1> USE DEF IInv, TypeOK
<1>1. ~ UNCHANGED jobs
  OBVIOUS
<1>2. ASSUME NEW k \in Jobs, Enqueue(k) PROVE FALSE
  BY <1>2 DEF Enqueue, Inserted, NewRow
<1>3. ASSUME NEW d \in Drainers, ClaimJob(d) PROVE FALSE
  <2>1. PICK k \in Jobs : jobs' = Claimed(jobs, k, WorkerOf[d], now)
    BY <1>3 DEF ClaimJob, ClaimChoices, Eligible
  <2> QED BY <2>1, ClaimedRows
<1>4. ASSUME NEW d \in Drainers, ReapStuck(d) PROVE FALSE
  BY <1>4, ReapedRows DEF ReapStuck
<1>5. ASSUME NEW d \in Drainers, Prune(d) PROVE FALSE
  BY <1>5, PrunedRows DEF Prune
<1>6. ASSUME NEW d \in Drainers, NEW o \in {"done", "failed"}, FinishJob(d, o)
      PROVE  FinishJob(d, "done") /\ held[d] = j /\ Holds(jobs, j, WorkerOf[d])
  <2>1. held[d] \in Jobs
    BY <1>6 DEF FinishJob, LeaseInv, LeaseOf
  <2>2. held[d] = j /\ Holds(jobs, j, WorkerOf[d])
    BY <1>6, <2>1, FinalisedRows DEF FinishJob
  <2>3. o = "done"
    BY <1>6, <2>1, <2>2, FinalisedRows DEF FinishJob
  <2> QED BY <1>6, <2>2, <2>3
<1> QED
  BY <1>1, <1>2, <1>3, <1>4, <1>5, <1>6
  DEF Next, Step, Tick, ClaimNothing, LoseStatusWrite, Crash, Restart, vars

\* The outcome that lands is the one of the latest claim.
THEOREM StaleOutcomesNeverLand ==
  ASSUME DistinctWorkers PROVE Spec => StaleOutcomeNeverLands
<1>1. IInv /\ IInv' /\ [Next]_vars =>
        [\A j \in Jobs :
           jobs[j].status # "done" /\ jobs'[j].status = "done" =>
             \E d \in Drainers :
               /\ Runs(d, j) /\ pc'[d] # "run"
               /\ since[d] = jobs[j].claimed_at
               /\ \A e \in Drainers : Runs(e, j) => since[e] <= since[d]]_vars
  <2> SUFFICES ASSUME IInv, IInv', [Next]_vars, NEW j \in Jobs,
                      jobs[j].status # "done", jobs'[j].status = "done"
               PROVE  \E d \in Drainers :
                        /\ Runs(d, j) /\ pc'[d] # "run"
                        /\ since[d] = jobs[j].claimed_at
                        /\ \A e \in Drainers : Runs(e, j) => since[e] <= since[d]
    OBVIOUS
  <2>1. PICK d \in Drainers : FinishJob(d, "done") /\ held[d] = j
                              /\ Holds(jobs, j, WorkerOf[d])
    BY DoneStep
  <2>2. Runs(d, j) /\ pc'[d] # "run"
    BY <2>1 DEF FinishJob, Leaves, Runs, IInv, TypeOK
  <2>3. since[d] = jobs[j].claimed_at
    BY <2>1, <2>2 DEF IInv, LeaseInv, LeaseOf, Runs
  <2>4. \A e \in Drainers : Runs(e, j) => since[e] <= since[d]
    BY <2>1, <2>3 DEF IInv, LeaseInv, LeaseOf, Runs, Holds
  <2> QED BY <2>2, <2>3, <2>4
<1> QED BY <1>1, Inductive, PTL DEF Spec, StaleOutcomeNeverLands

-----------------------------------------------------------------------------
\* The drainers implement the abstract lease.
\* A name in claimed_by belongs to one drainer, so OwnerOf is that drainer.
LEMMA OwnerOfClaim ==
  ASSUME DistinctWorkers, NEW d \in Drainers
  PROVE  (CHOOSE e \in Drainers : WorkerOf[e] = WorkerOf[d]) = d
BY DEF DistinctWorkers

LEMMA SameRowSameLease ==
  ASSUME NEW j \in Jobs, jobs'[j] = jobs[j]
  PROVE  PhaseOf(j)' = PhaseOf(j) /\ OwnerOf(j)' = OwnerOf(j)
BY DEF PhaseOf, OwnerOf

LEMMA LeaseInit == Init => Lease!Init
BY DEF Init, Lease!Init, EmptyTable, NewRow, PhaseOf, OwnerOf

LEMMA EnqueueSubmits ==
  ASSUME TypeOK, AttemptInv, NEW j \in Jobs, Enqueue(j)
  PROVE  Lease!Submit(j)
<1>1. PICK p \in Priorities : jobs' = Inserted(jobs, j, p, now)
  BY DEF Enqueue
<1>2. /\ jobs[j].status = "new" /\ jobs'[j].status = "queued"
      /\ jobs'[j].attempts = 0 /\ jobs[j].attempts = 0
      /\ \A k \in Jobs \ {j} : jobs'[k] = jobs[k]
  BY <1>1 DEF Enqueue, Inserted, NewRow, TypeOK, AttemptInv
<1>3. PhaseOf(j) = "new" /\ PhaseOf(j)' = "waiting" /\ OwnerOf(j) = Null /\ OwnerOf(j)' = Null
  BY <1>2 DEF PhaseOf, OwnerOf
<1>4. \A k \in Jobs \ {j} : /\ PhaseOf(k)' = PhaseOf(k) /\ OwnerOf(k)' = OwnerOf(k)
                           /\ jobs'[k].attempts = jobs[k].attempts
  BY <1>2, SameRowSameLease
<1> QED BY <1>2, <1>3, <1>4 DEF Lease!Submit

LEMMA ClaimGrants ==
  ASSUME DistinctWorkers, TypeOK, NEW d \in Drainers, ClaimJob(d)
  PROVE  \E j \in Jobs : Lease!Grant(j, d)
<1>1. PICK j \in Jobs : /\ jobs[j].status = "queued" /\ jobs[j].attempts < MaxAttempts
                        /\ jobs' = Claimed(jobs, j, WorkerOf[d], now)
  BY DEF ClaimJob, ClaimChoices, Eligible
<1>2. /\ jobs'[j].status = "running" /\ jobs'[j].claimed_by = WorkerOf[d]
      /\ jobs'[j].attempts = jobs[j].attempts + 1
      /\ \A k \in Jobs \ {j} : jobs'[k] = jobs[k]
  BY <1>1, ClaimedRows DEF TypeOK
<1>3. PhaseOf(j) = "waiting" /\ PhaseOf(j)' = "leased"
  BY <1>1, <1>2 DEF PhaseOf
<1>4. OwnerOf(j)' = d
  BY <1>2, OwnerOfClaim DEF OwnerOf
<1>5. \A k \in Jobs \ {j} : /\ PhaseOf(k)' = PhaseOf(k) /\ OwnerOf(k)' = OwnerOf(k)
                           /\ jobs'[k].attempts = jobs[k].attempts
  BY <1>2, SameRowSameLease
<1> QED BY <1>1, <1>2, <1>3, <1>4, <1>5 DEF Lease!Grant

LEMMA FinishResolves ==
  ASSUME DistinctWorkers, TypeOK, LeaseInv, NEW d \in Drainers,
         NEW o \in {"done", "failed"}, FinishJob(d, o)
  PROVE  (\E j \in Jobs : Lease!Resolve(j, d, o)) \/ jobs' = jobs
<1>1. held[d] \in Jobs /\ jobs' = Finalised(jobs, held[d], WorkerOf[d], o)
  BY DEF FinishJob, LeaseInv, LeaseOf
<1>2. CASE Holds(jobs, held[d], WorkerOf[d])
  <2>0. PICK j \in Jobs : j = held[d]
    BY <1>1
  <2>1. /\ jobs[j].status = "running" /\ jobs[j].claimed_by = WorkerOf[d]
        /\ jobs'[j].status = o /\ jobs'[j].attempts = jobs[j].attempts
        /\ \A k \in Jobs \ {j} : jobs'[k] = jobs[k]
    BY <1>1, <1>2, <2>0, FinalisedRows DEF TypeOK, Holds
  <2>2. PhaseOf(j) = "leased" /\ PhaseOf(j)' = o /\ OwnerOf(j)' = Null
    <3>1. PhaseOf(j) = "leased"
      BY <2>1 DEF PhaseOf
    <3>2. PhaseOf(j)' = o
      BY <2>1 DEF PhaseOf
    <3>3. OwnerOf(j)' = Null
      BY <2>1 DEF OwnerOf
    <3> QED BY <3>1, <3>2, <3>3
  <2>3. OwnerOf(j) = d
    BY <2>1, OwnerOfClaim DEF OwnerOf
  <2>4. \A k \in Jobs \ {j} : /\ PhaseOf(k)' = PhaseOf(k) /\ OwnerOf(k)' = OwnerOf(k)
                             /\ jobs'[k].attempts = jobs[k].attempts
    BY <2>1, SameRowSameLease
  <2> QED BY <2>1, <2>2, <2>3, <2>4 DEF Lease!Resolve
<1>3. CASE ~ Holds(jobs, held[d], WorkerOf[d])
  BY <1>1, <1>3 DEF Finalised
<1> QED BY <1>2, <1>3

LEMMA ReapRevokes ==
  ASSUME TypeOK, AttemptInv, NEW d \in Drainers, ReapStuck(d)
  PROVE  Lease!Revoke(Stuck(jobs, now))
<1> DEFINE S == Stuck(jobs, now)
<1>1. jobs' = Reaped(jobs, now) /\ S \subseteq Jobs
  BY DEF ReapStuck, Stuck
<1>2. \A j \in Jobs : jobs'[j].attempts = jobs[j].attempts /\ jobs[j].attempts \in Nat
  BY <1>1, ReapedRows DEF TypeOK, Row
<1>3. ASSUME NEW j \in S
      PROVE  /\ PhaseOf(j) = "leased" /\ OwnerOf(j)' = Null
             /\ PhaseOf(j)' = IF jobs[j].attempts < MaxAttempts THEN "waiting" ELSE "failed"
  <2>1. jobs[j].status = "running"
    BY DEF Stuck
  <2>2. jobs'[j].status = IF jobs[j].attempts >= MaxAttempts THEN "failed" ELSE "queued"
    BY <1>1, ReapedRows DEF TypeOK
  <2>3. jobs[j].attempts \in Nat
    BY <1>1, <1>2
  <2> QED BY <2>1, <2>2, <2>3, MaxAttemptsAssumption DEF PhaseOf, OwnerOf
<1>4. \A j \in Jobs \ S : PhaseOf(j)' = PhaseOf(j) /\ OwnerOf(j)' = OwnerOf(j)
  BY <1>1, ReapedRows, SameRowSameLease DEF TypeOK
<1> HIDE DEF S
<1>5. Lease!Revoke(S)
  BY <1>1, <1>2, <1>3, <1>4 DEF Lease!Revoke
<1> QED BY <1>5 DEF S

LEMMA PrunePurges ==
  ASSUME TypeOK, NEW d \in Drainers, Prune(d)
  PROVE  Lease!Purge(Prunable(jobs, now))
<1> DEFINE S == Prunable(jobs, now)
<1>1. jobs' = Pruned(jobs, now) /\ S \subseteq Jobs
  BY DEF Prune, Prunable
<1>2. \A j \in Jobs : jobs'[j].attempts = jobs[j].attempts
  BY <1>1, PrunedRows DEF TypeOK
<1>3. ASSUME NEW j \in S
      PROVE  /\ PhaseOf(j) \in {"done", "failed"} /\ PhaseOf(j)' = "purged"
             /\ OwnerOf(j) = Null /\ OwnerOf(j)' = Null
  <2>1. jobs[j].status \in {"done", "failed"}
    BY DEF Prunable
  <2>2. jobs'[j].status = "gone"
    BY <1>1, PrunedRows DEF TypeOK
  <2> QED BY <2>1, <2>2 DEF PhaseOf, OwnerOf
<1>4. \A j \in Jobs \ S : PhaseOf(j)' = PhaseOf(j) /\ OwnerOf(j)' = OwnerOf(j)
  BY <1>1, PrunedRows, SameRowSameLease DEF TypeOK
<1> HIDE DEF S
<1>5. Lease!Purge(S)
  BY <1>1, <1>2, <1>3, <1>4 DEF Lease!Purge
<1> QED BY <1>5 DEF S

\* Every step of the drainers is a step of the abstract lease or leaves it alone.
THEOREM QueueImplementsLease == ASSUME DistinctWorkers PROVE Spec => LeaseSpec
<1>1. IInv /\ IInv' /\ [Next]_vars => [Lease!Next]_(Lease!leaseVars)
  <2> SUFFICES ASSUME IInv, IInv', [Next]_vars
               PROVE  Lease!Next \/ UNCHANGED Lease!leaseVars
    OBVIOUS
  <2>1. CASE jobs' = jobs
    BY <2>1 DEF Lease!leaseVars, PhaseOf, OwnerOf
  <2>2. ASSUME NEW j \in Jobs, Enqueue(j) PROVE Lease!Next
    BY <2>2, EnqueueSubmits DEF IInv, Lease!Next
  <2>3. ASSUME NEW d \in Drainers, ClaimJob(d) PROVE Lease!Next
    BY <2>3, ClaimGrants DEF IInv, Lease!Next
  <2>4. ASSUME NEW d \in Drainers, NEW o \in {"done", "failed"}, FinishJob(d, o)
        PROVE  Lease!Next \/ UNCHANGED Lease!leaseVars
    BY <2>1, <2>4, FinishResolves DEF IInv, Lease!Next
  <2>5. ASSUME NEW d \in Drainers, ReapStuck(d) PROVE Lease!Next
    BY <2>5, ReapRevokes DEF IInv, Lease!Next, Stuck
  <2>6. ASSUME NEW d \in Drainers, Prune(d) PROVE Lease!Next
    BY <2>6, PrunePurges DEF IInv, Lease!Next, Prunable
  <2> QED
    BY <2>1, <2>2, <2>3, <2>4, <2>5, <2>6
    DEF Next, Step, Tick, ClaimNothing, LoseStatusWrite, Crash, Restart, vars
<1> QED BY <1>1, LeaseInit, Inductive, PTL DEF Spec, LeaseSpec, Lease!Spec
-----------------------------------------------------------------------------
(* The mirror of a provider.  Every step of a sync is about the statements it still
   has: what it has not put yet it will put before it tells of it, and an item it
   listed is left, or on its way, or mirrored.  A sync owes an event of an entity
   only while it alone inserted it, so no two can tell of one, and what was told of
   once is owed by nobody. *)

StatementSet ==
  [do : {"put"}, key : Keys] \union [do : {"tell"}, key : Keys, of : SUBSET Keys]
    \union [do : {"seek", "link"}, page : Items]
    \union [do : {"call"}, what : {"list", "detail", "history"}]
    \union [do : {"insert"}, handle : Handles \union {NoHandle}, status : {"pending", "active"}]
    \union [do : {"delete", "revoke"}, row : Nat] \union [do : {"create"}]

Calls == [op : {"idle", "sync", "done", "other"}, todo : Seq(StatementSet),
          left : SUBSET Items, fresh : SUBSET Keys, seen : SUBSET Items]

SourcesTyped ==
  /\ remote \subseteq Items /\ mirror \subseteq Keys
  /\ told \in [Keys -> Nat] /\ edges \in [Items -> Nat]
  /\ rows \in Seq([handle : Handles \union {NoHandle}, status : {"pending", "active", "revoked"}])
  /\ call \in [Clients -> Calls]

Puts(todo, n, k) == todo[n].do = "put" /\ todo[n].key = k
Tells(todo, n, k) == todo[n].do = "tell" /\ todo[n].key = k
PutBefore(todo, n, k) == \E m \in 1..(n - 1) : Puts(todo, m, k)

\* An event is about one entity, and no two of a list are about the same.
WellFormed(todo) ==
  \A n \in DOMAIN todo : todo[n].do = "tell" =>
    /\ todo[n].of = (IF todo[n].key[1] = "note" THEN {<<"page", todo[n].key[2]>>, todo[n].key}
                     ELSE {todo[n].key})
    /\ \A m \in DOMAIN todo : Tells(todo, m, todo[n].key) => m = n

\* The event of k is owed: this sync inserted it, and is past its upsert.
WillTell(todo, fresh, k) == k \in fresh /\ \E n \in DOMAIN todo : Tells(todo, n, k) /\ ~PutBefore(todo, n, k)

WillMirror(todo, k) == k \in mirror \/ \E n \in DOMAIN todo : Puts(todo, n, k)
WillLink(todo, i) == edges[i] > 0 \/ \E n \in DOMAIN todo : todo[n].do \in {"seek", "link"} /\ todo[n].page = i
HistoryDue(todo) == \E n \in DOMAIN todo : todo[n].do = "call" /\ todo[n].what = "history"

\* What the sync h mirrors of item i is there, or among its statements.
Whole(h, i) ==
  /\ \A k \in Mirrored(i) : WillMirror(h.todo, k)
  /\ provider = "notion" /\ i % 2 = 1 => WillLink(h.todo, i)

HandlerInv(h) ==
  /\ WellFormed(h.todo)
  /\ h.fresh \subseteq mirror /\ h.seen \subseteq remote
  /\ \A n \in DOMAIN h.todo : h.todo[n].do = "tell" =>
       h.todo[n].key \in mirror \/ PutBefore(h.todo, n, h.todo[n].key)
  /\ provider = "slack" /\ h.seen # {} => WillMirror(h.todo, <<"channel", One>>)
  /\ \A i \in h.seen : i \in h.left \/ HistoryDue(h.todo) \/ Whole(h, i)
  /\ h.op = "done" => h.todo = <<>> /\ h.left = {}

ToldInv ==
  /\ \A k \in Keys : told[k] > 0 => k \in mirror
  /\ \A k \in Keys : k[1] # "note" =>
       /\ told[k] <= 1
       /\ \A c \in Clients : WillTell(call[c].todo, call[c].fresh, k) => told[k] = 0
       /\ \A c, d \in Clients :
            WillTell(call[c].todo, call[c].fresh, k) /\ WillTell(call[d].todo, call[d].fresh, k) => c = d

SourcesInv == (\A c \in Clients : HandlerInv(call[c])) /\ ToldInv
LEMMA SequenceOf2 == ASSUME NEW S, NEW a \in S, NEW b \in S PROVE <<a, b>> \in Seq(S)
OBVIOUS

LEMMA SequenceOf3 == ASSUME NEW S, NEW a \in S, NEW b \in S, NEW c \in S PROVE <<a, b, c>> \in Seq(S)
OBVIOUS

LEMMA SequenceOf4 ==
  ASSUME NEW S, NEW a \in S, NEW b \in S, NEW c \in S, NEW d \in S
  PROVE  <<a, b, c, d>> \in Seq(S)
OBVIOUS

LEMMA SequenceOf5 ==
  ASSUME NEW S, NEW a \in S, NEW b \in S, NEW c \in S, NEW d \in S, NEW e \in S
  PROVE  <<a, b, c, d, e>> \in Seq(S)
OBVIOUS

LEMMA SyncOf ==
  ASSUME NEW i \in Items, SourcesAssumption
  PROVE  /\ One \in Items
         /\ GmailSync(i) \in Seq(StatementSet) /\ SlackHistory(i) \in Seq(StatementSet)
         /\ NotionSync(i) \in Seq(StatementSet) /\ CalendarSync(i) \in Seq(StatementSet)
         /\ DriveSync(i) \in Seq(StatementSet) /\ ParseEmails(i) \in Seq(StatementSet)
         /\ SlackSync \in Seq(StatementSet)
<1>1. One \in Items
  BY DEF One, SourcesAssumption
<1>2. ASSUME NEW type \in EntityKinds, NEW j \in Items
      PROVE  <<type, j>> \in Keys /\ Put(type, j) \in StatementSet /\ Tell(type, j) \in StatementSet
  BY <1>2 DEF Put, Tell, Keys, StatementSet
<1>3. Call("detail") \in StatementSet /\ Call("history") \in StatementSet
  BY DEF Call, StatementSet
<1>4. GmailSync(i) \in Seq(StatementSet)
  <2>1. Put("thread", One) \in StatementSet /\ Tell("thread", One) \in StatementSet
    BY <1>1, <1>2 DEF EntityKinds
  <2>2. Put("email", i) \in StatementSet /\ Tell("email", i) \in StatementSet
    BY <1>2 DEF EntityKinds
  <2> QED BY <1>3, <2>1, <2>2, SequenceOf5 DEF GmailSync
<1>5. NotionSync(i) \in Seq(StatementSet)
  <2>1. [do |-> "seek", page |-> i] \in StatementSet
    BY DEF StatementSet
  <2>2. [do |-> "tell", key |-> <<"note", i>>, of |-> {<<"page", i>>, <<"note", i>>}] \in StatementSet
    <3>1. <<"note", i>> \in Keys /\ <<"page", i>> \in Keys
      BY <1>2 DEF EntityKinds
    <3> QED BY <3>1 DEF StatementSet
  <2>3. Put("page", i) \in StatementSet /\ Put("note", i) \in StatementSet
    BY <1>2 DEF EntityKinds
  <2>4. Put("db", i) \in StatementSet /\ Tell("db", i) \in StatementSet
    BY <1>2 DEF EntityKinds
  <2> QED BY <2>1, <2>2, <2>3, <2>4, SequenceOf2, SequenceOf4 DEF NotionSync
<1>6. SlackSync \in Seq(StatementSet)
  <2>1. Put("channel", One) \in StatementSet /\ Tell("channel", One) \in StatementSet
    BY <1>1, <1>2 DEF EntityKinds
  <2> QED BY <1>3, <2>1, SequenceOf3 DEF SlackSync
<1>7. ASSUME NEW type \in EntityKinds
      PROVE  <<Put(type, i), Tell(type, i)>> \in Seq(StatementSet)
  BY <1>2, SequenceOf2
<1>8. SlackHistory(i) \in Seq(StatementSet) /\ CalendarSync(i) \in Seq(StatementSet)
  BY <1>7 DEF SlackHistory, CalendarSync, EntityKinds
<1>9. DriveSync(i) \in Seq(StatementSet) /\ ParseEmails(i) \in Seq(StatementSet)
  BY <1>7 DEF DriveSync, ParseEmails, EntityKinds
<1> QED BY <1>1, <1>4, <1>5, <1>6, <1>8, <1>9

\* What is left when the first statement is done.
LEMMA Popped ==
  ASSUME NEW todo \in Seq(StatementSet), todo # <<>>
  PROVE  /\ Tail(todo) \in Seq(StatementSet) /\ 1 \in DOMAIN todo /\ Head(todo) = todo[1]
         /\ DOMAIN Tail(todo) = 1..(Len(todo) - 1) /\ DOMAIN todo = 1..Len(todo) /\ Len(todo) \in Nat
         /\ \A n \in DOMAIN Tail(todo) : Tail(todo)[n] = todo[n + 1] /\ n + 1 \in DOMAIN todo
         /\ \A n \in DOMAIN todo : n = 1 \/ (n - 1 \in DOMAIN Tail(todo) /\ todo[n] = Tail(todo)[n - 1])
<1>1. Len(todo) \in Nat \ {0} /\ DOMAIN todo = 1..Len(todo)
  BY EmptySeq, LenProperties
<1>2. Tail(todo) \in Seq(StatementSet) /\ Len(Tail(todo)) = Len(todo) - 1 /\ Head(todo) = todo[1]
  BY HeadTailProperties
<1>3. DOMAIN Tail(todo) = 1..(Len(todo) - 1)
  BY <1>2, LenProperties
<1>4. \A n \in 1..(Len(todo) - 1) : Tail(todo)[n] = todo[n + 1]
  BY <1>1, HeadTailProperties DEF Tail
<1> QED BY <1>1, <1>2, <1>3, <1>4

LEMMA PopTells ==
  ASSUME NEW todo \in Seq(StatementSet), todo # <<>>, NEW f, NEW k, ~Puts(todo, 1, k),
         WillTell(Tail(todo), f, k)
  PROVE  WillTell(todo, f, k)
<1>1. PICK n \in DOMAIN Tail(todo) : Tells(Tail(todo), n, k) /\ ~PutBefore(Tail(todo), n, k)
  BY DEF WillTell
<1>2. n + 1 \in DOMAIN todo /\ Tells(todo, n + 1, k) /\ n \in Nat
  BY <1>1, Popped DEF Tells
<1>3. ASSUME NEW m \in 1..(n + 1 - 1), Puts(todo, m, k) PROVE FALSE
  <2>1. m # 1 /\ m - 1 \in 1..(n - 1) /\ m \in DOMAIN todo
    BY <1>1, <1>2, <1>3, Popped
  <2>2. Puts(Tail(todo), m - 1, k)
    BY <1>3, <2>1, Popped DEF Puts
  <2> QED BY <1>1, <2>1, <2>2 DEF PutBefore
<1> QED BY <1>2, <1>3 DEF WillTell, PutBefore

LEMMA PopShape ==
  ASSUME NEW todo \in Seq(StatementSet), todo # <<>>, WellFormed(todo)
  PROVE  WellFormed(Tail(todo))
<1> SUFFICES ASSUME NEW n \in DOMAIN Tail(todo), Tail(todo)[n].do = "tell"
             PROVE  /\ Tail(todo)[n].of = (IF Tail(todo)[n].key[1] = "note"
                                           THEN {<<"page", Tail(todo)[n].key[2]>>, Tail(todo)[n].key}
                                           ELSE {Tail(todo)[n].key})
                    /\ \A m \in DOMAIN Tail(todo) : Tells(Tail(todo), m, Tail(todo)[n].key) => m = n
  BY DEF WellFormed
<1>1. n + 1 \in DOMAIN todo /\ Tail(todo)[n] = todo[n + 1] /\ n \in Nat
  BY Popped
<1>2. ASSUME NEW m \in DOMAIN Tail(todo), Tells(Tail(todo), m, Tail(todo)[n].key) PROVE m = n
  <2>1. m + 1 \in DOMAIN todo /\ Tells(todo, m + 1, todo[n + 1].key) /\ m \in Nat
    BY <1>1, <1>2, Popped DEF Tells
  <2>2. m + 1 = n + 1
    BY <1>1, <2>1 DEF WellFormed
  <2> QED BY <1>1, <2>1, <2>2
<1> QED BY <1>1, <1>2 DEF WellFormed
Announced(todo) == \A n \in DOMAIN todo : todo[n].do = "tell" => PutBefore(todo, n, todo[n].key)

LEMMA PairShape ==
  ASSUME NEW type \in EntityKinds, NEW i \in Items, type # "note"
  PROVE  LET todo == <<Put(type, i), Tell(type, i)>> IN
         WellFormed(todo) /\ Announced(todo) /\ Puts(todo, 1, <<type, i>>)
<1> DEFINE todo == <<Put(type, i), Tell(type, i)>>
<1>1. /\ DOMAIN todo = {1, 2} /\ todo[1].do = "put" /\ todo[1].key = <<type, i>>
      /\ todo[2].do = "tell" /\ todo[2].key = <<type, i>> /\ todo[2].of = {<<type, i>>}
  BY DEF Put, Tell
<1> HIDE DEF todo
<1>2. WellFormed(todo)
  BY <1>1 DEF WellFormed, Tells
<1>3. Puts(todo, 1, <<type, i>>)
  BY <1>1 DEF Puts
<1>4. Announced(todo)
  BY <1>1, <1>3 DEF Announced, PutBefore
<1> QED BY <1>2, <1>3, <1>4 DEF todo

LEMMA GmailShape ==
  ASSUME NEW i \in Items
  PROVE  LET todo == GmailSync(i) IN
         /\ WellFormed(todo) /\ Announced(todo) /\ 2 \in DOMAIN todo /\ 4 \in DOMAIN todo
         /\ Puts(todo, 2, <<"thread", One>>) /\ Puts(todo, 4, <<"email", i>>)
<1> DEFINE todo == GmailSync(i)
<1>1. /\ DOMAIN todo = 1..5 /\ todo[1].do = "call"
      /\ todo[2].do = "put" /\ todo[2].key = <<"thread", One>>
      /\ todo[3].do = "tell" /\ todo[3].key = <<"thread", One>> /\ todo[3].of = {<<"thread", One>>}
      /\ todo[4].do = "put" /\ todo[4].key = <<"email", i>>
      /\ todo[5].do = "tell" /\ todo[5].key = <<"email", i>> /\ todo[5].of = {<<"email", i>>}
  BY DEF Put, Tell, Call, GmailSync
<1> HIDE DEF todo
<1>2. \A n \in DOMAIN todo : todo[n].do = "tell" => n = 3 \/ n = 5
  BY <1>1
<1>6. todo[3].key[1] # "note" /\ todo[5].key[1] # "note" /\ todo[3].key # todo[5].key
  BY <1>1
<1>3. WellFormed(todo)
  BY <1>1, <1>2, <1>6 DEF WellFormed, Tells
<1>4. Puts(todo, 2, <<"thread", One>>) /\ Puts(todo, 4, <<"email", i>>)
  BY <1>1 DEF Puts
<1>5. Announced(todo)
  BY <1>1, <1>2, <1>4 DEF Announced, PutBefore
<1> QED BY <1>1, <1>3, <1>4, <1>5 DEF todo

LEMMA NotionShape ==
  ASSUME NEW i \in Items, i % 2 # 0
  PROVE  LET todo == NotionSync(i) IN
         /\ WellFormed(todo) /\ Announced(todo) /\ {1, 2, 3} \subseteq DOMAIN todo
         /\ Puts(todo, 1, <<"page", i>>) /\ Puts(todo, 2, <<"note", i>>)
         /\ todo[3].do = "seek" /\ todo[3].page = i
<1> DEFINE todo == NotionSync(i)
<1>1. /\ DOMAIN todo = 1..4
      /\ todo[1].do = "put" /\ todo[1].key = <<"page", i>>
      /\ todo[2].do = "put" /\ todo[2].key = <<"note", i>>
      /\ todo[3].do = "seek" /\ todo[3].page = i
      /\ todo[4].do = "tell" /\ todo[4].key = <<"note", i>> /\ todo[4].of = {<<"page", i>>, <<"note", i>>}
  BY DEF Put, NotionSync
<1> HIDE DEF todo
<1>2. \A n \in DOMAIN todo : todo[n].do = "tell" => n = 4
  BY <1>1
<1>6. todo[4].key[1] = "note" /\ todo[4].key[2] = i
  BY <1>1
<1>3. WellFormed(todo)
  BY <1>1, <1>2, <1>6 DEF WellFormed, Tells
<1>4. Puts(todo, 1, <<"page", i>>) /\ Puts(todo, 2, <<"note", i>>)
  BY <1>1 DEF Puts
<1>5. Announced(todo)
  BY <1>1, <1>2, <1>4 DEF Announced, PutBefore
<1> QED BY <1>1, <1>3, <1>4, <1>5 DEF todo

LEMMA SlackShape ==
  /\ WellFormed(SlackSync) /\ Announced(SlackSync) /\ {1, 3} \subseteq DOMAIN SlackSync
  /\ Puts(SlackSync, 1, <<"channel", One>>) /\ HistoryDue(SlackSync)
<1> DEFINE todo == SlackSync
<1>1. /\ DOMAIN todo = 1..3 /\ todo[3].do = "call" /\ todo[3].what = "history"
      /\ todo[1].do = "put" /\ todo[1].key = <<"channel", One>>
      /\ todo[2].do = "tell" /\ todo[2].key = <<"channel", One>> /\ todo[2].of = {<<"channel", One>>}
  BY DEF Put, Tell, Call, SlackSync
<1> HIDE DEF todo
<1>2. \A n \in DOMAIN todo : todo[n].do = "tell" => n = 2
  BY <1>1
<1>7. todo[2].key[1] # "note"
  BY <1>1
<1>3. WellFormed(todo)
  BY <1>1, <1>2, <1>7 DEF WellFormed, Tells
<1>4. Puts(todo, 1, <<"channel", One>>)
  BY <1>1 DEF Puts
<1>5. Announced(todo)
  BY <1>1, <1>2, <1>4 DEF Announced, PutBefore
<1>6. HistoryDue(todo)
  BY <1>1 DEF HistoryDue
<1> QED BY <1>1, <1>3, <1>4, <1>5, <1>6 DEF todo

\* What a sync does for an item mirrors all of it, and tells of nothing it has not put.
LEMMA StatementsShape ==
  ASSUME NEW i \in Items, SourcesAssumption
  PROVE  /\ Statements(i) \in Seq(StatementSet) /\ WellFormed(Statements(i)) /\ Announced(Statements(i))
         /\ \A k \in Mirrored(i) :
              \/ \E n \in DOMAIN Statements(i) : Puts(Statements(i), n, k)
              \/ (provider = "slack" /\ k = <<"channel", One>>)
         /\ provider = "notion" /\ i % 2 = 1 =>
              \E n \in DOMAIN Statements(i) : Statements(i)[n].do = "seek" /\ Statements(i)[n].page = i
<1>1. CASE provider = "gmail"
  BY <1>1, GmailShape, SyncOf DEF Statements, Mirrored
<1>2. CASE provider = "notion" /\ i % 2 # 0
  BY <1>2, NotionShape, SyncOf DEF Statements, Mirrored
<1>3. ASSUME NEW type \in EntityKinds, type # "note", Statements(i) = <<Put(type, i), Tell(type, i)>>,
             \A k \in Mirrored(i) : k = <<type, i>> \/ (provider = "slack" /\ k = <<"channel", One>>)
      PROVE  /\ WellFormed(Statements(i)) /\ Announced(Statements(i))
             /\ \A k \in Mirrored(i) :
                  \/ \E n \in DOMAIN Statements(i) : Puts(Statements(i), n, k)
                  \/ (provider = "slack" /\ k = <<"channel", One>>)
  <2>1. 1 \in DOMAIN Statements(i)
    BY <1>3
  <2> QED BY <1>3, <2>1, PairShape
<1>4. CASE provider = "notion" /\ i % 2 = 0
  <2>1. Statements(i) = <<Put("db", i), Tell("db", i)>> /\ Mirrored(i) = {<<"db", i>>}
    BY <1>4 DEF Statements, NotionSync, Mirrored
  <2>2. Statements(i) \in Seq(StatementSet)
    BY <1>4, SyncOf DEF Statements
  <2>3. \A k \in Mirrored(i) : k = <<"db", i>> \/ (provider = "slack" /\ k = <<"channel", One>>)
    BY <2>1
  <2> QED BY <1>3, <1>4, <2>1, <2>2, <2>3 DEF EntityKinds
<1>5. CASE provider = "slack"
  <2>1. Statements(i) = <<Put("message", i), Tell("message", i)>>
    BY <1>5 DEF Statements, SlackHistory
  <2>2. Statements(i) \in Seq(StatementSet)
    BY <1>5, SyncOf DEF Statements
  <2>4. Mirrored(i) = {<<"channel", One>>, <<"message", i>>}
    BY <1>5 DEF Mirrored
  <2>3. \A k \in Mirrored(i) : k = <<"message", i>> \/ (provider = "slack" /\ k = <<"channel", One>>)
    BY <1>5, <2>4
  <2> QED BY <1>3, <1>5, <2>1, <2>2, <2>3 DEF EntityKinds
<1>6. CASE provider = "calendar"
  <2>1. Statements(i) = <<Put("event", i), Tell("event", i)>>
    BY <1>6 DEF Statements, CalendarSync
  <2>2. Statements(i) \in Seq(StatementSet)
    BY <1>6, SyncOf DEF Statements
  <2>4. Mirrored(i) = {<<"event", i>>}
    BY <1>6 DEF Mirrored
  <2>3. \A k \in Mirrored(i) : k = <<"event", i>> \/ (provider = "slack" /\ k = <<"channel", One>>)
    BY <1>6, <2>4
  <2> QED BY <1>3, <1>6, <2>1, <2>2, <2>3 DEF EntityKinds
<1>7. CASE provider = "drive"
  <2>1. Statements(i) = <<Put("file", i), Tell("file", i)>>
    BY <1>7 DEF Statements, DriveSync
  <2>2. Statements(i) \in Seq(StatementSet)
    BY <1>7, SyncOf DEF Statements
  <2>4. Mirrored(i) = {<<"file", i>>}
    BY <1>7 DEF Mirrored
  <2>3. \A k \in Mirrored(i) : k = <<"file", i>> \/ (provider = "slack" /\ k = <<"channel", One>>)
    BY <1>7, <2>4
  <2> QED BY <1>3, <1>7, <2>1, <2>2, <2>3 DEF EntityKinds
<1>8. CASE provider \notin {"gmail", "slack", "notion", "calendar", "drive"}
  <2>1. Statements(i) = <<Put("booking", i), Tell("booking", i)>>
    BY <1>8 DEF Statements, ParseEmails
  <2>2. Statements(i) \in Seq(StatementSet)
    BY <1>8, SyncOf DEF Statements
  <2>4. Mirrored(i) = {<<"booking", i>>}
    BY <1>8 DEF Mirrored
  <2>3. \A k \in Mirrored(i) : k = <<"booking", i>> \/ (provider = "slack" /\ k = <<"channel", One>>)
    BY <1>8, <2>4
  <2> QED BY <1>3, <1>8, <2>1, <2>2, <2>3 DEF EntityKinds
<1> QED BY <1>1, <1>2, <1>4, <1>5, <1>6, <1>7, <1>8

LEMMA AnnouncedTellsNothing ==
  ASSUME NEW todo, Announced(todo) PROVE \A f, k : ~WillTell(todo, f, k)
BY DEF Announced, WillTell, Tells
\* What no step takes back.
Grows ==
  /\ provider' = provider /\ remote \subseteq remote' /\ mirror \subseteq mirror'
  /\ \A i \in Items : edges[i] > 0 => edges'[i] > 0

LEMMA SyncRests ==
  ASSUME SourcesTyped, Grows, NEW c \in Clients, HandlerInv(call[c]), call'[c] = call[c]
  PROVE  HandlerInv(call[c])'
<1>1. call[c].seen \subseteq Items
  BY DEF HandlerInv, SourcesTyped
<1>2. \A k : WillMirror(call[c].todo, k) => WillMirror(call[c].todo, k)'
  BY DEF WillMirror, Grows, Puts
<1>3. \A i \in Items : WillLink(call[c].todo, i) => WillLink(call[c].todo, i)'
  BY DEF WillLink, Grows
<1>4. \A i : Mirrored(i)' = Mirrored(i)
  BY DEF Mirrored, Grows
<1>5. \A i \in Items : Whole(call[c], i) => Whole(call[c], i)'
  BY <1>2, <1>3, <1>4 DEF Whole, Grows
<1>6. \A i \in call'[c].seen : i \in call'[c].left \/ HistoryDue(call'[c].todo) \/ Whole(call[c], i)'
  BY <1>1, <1>5 DEF HandlerInv
<1>7. provider' = "slack" /\ call'[c].seen # {} => WillMirror(call[c].todo, <<"channel", One>>)'
  BY <1>2 DEF HandlerInv, Grows
<1>8. \A n \in DOMAIN call'[c].todo : call'[c].todo[n].do = "tell" =>
         call'[c].todo[n].key \in mirror' \/ PutBefore(call'[c].todo, n, call'[c].todo[n].key)
  BY DEF HandlerInv, Grows
<1>9. /\ WellFormed(call'[c].todo)
      /\ call'[c].fresh \subseteq mirror' /\ call'[c].seen \subseteq remote'
      /\ call'[c].op = "done" => call'[c].todo = <<>> /\ call'[c].left = {}
  BY DEF HandlerInv, Grows
<1> QED BY <1>6, <1>7, <1>8, <1>9 DEF HandlerInv, HistoryDue, WellFormed, Tells, PutBefore, Puts

\* The first statement of a handler is done.
Done(c) ==
  /\ call[c].todo # <<>>
  /\ call'[c].todo = Tail(call[c].todo) /\ call'[c].op = call[c].op
  /\ call'[c].seen \subseteq remote' /\ (provider = "slack" => call'[c].seen = call[c].seen)
  /\ \/ /\ call'[c].left = call[c].left /\ call'[c].seen = call[c].seen
        /\ ~(call[c].todo[1].do = "call" /\ call[c].todo[1].what = "history")
     \/ call'[c].seen \subseteq call'[c].left
  /\ call'[c].fresh \subseteq mirror'
  /\ \A k : Puts(call[c].todo, 1, k) => k \in mirror'
  /\ call[c].todo[1].do \in {"seek", "link"} => edges'[call[c].todo[1].page] > 0

LEMMA SyncGoesOn ==
  ASSUME SourcesTyped, Grows, NEW c \in Clients, HandlerInv(call[c]), Done(c)
  PROVE  HandlerInv(call[c])'
<1>1. PICK todo \in Seq(StatementSet) : todo = call[c].todo
  BY DEF SourcesTyped, Calls
<1>2. todo # <<>> /\ WellFormed(todo) /\ call'[c].todo = Tail(todo) /\ call[c].op # "done"
  BY <1>1 DEF Done, HandlerInv
<1>3. WellFormed(Tail(todo))
  BY <1>2, PopShape
<1>4. call[c].seen \subseteq Items
  BY DEF HandlerInv, SourcesTyped
<1>5. ASSUME NEW k, WillMirror(todo, k) PROVE k \in mirror' \/ \E n \in DOMAIN Tail(todo) : Puts(Tail(todo), n, k)
  <2>1. CASE k \in mirror
    BY <2>1 DEF Grows
  <2>2. ASSUME NEW n \in DOMAIN todo, Puts(todo, n, k)
        PROVE  k \in mirror' \/ \E m \in DOMAIN Tail(todo) : Puts(Tail(todo), m, k)
    <3>1. CASE n = 1
      BY <1>1, <2>2, <3>1 DEF Done
    <3>2. CASE n # 1
      <4>1. n - 1 \in DOMAIN Tail(todo) /\ todo[n] = Tail(todo)[n - 1]
        BY <1>2, <3>2, Popped
      <4> QED BY <2>2, <4>1 DEF Puts
    <3> QED BY <3>1, <3>2
  <2> QED BY <1>5, <2>1, <2>2 DEF WillMirror
<1>6. ASSUME NEW i \in Items, WillLink(todo, i)
      PROVE  \/ edges'[i] > 0
             \/ \E n \in DOMAIN Tail(todo) : Tail(todo)[n].do \in {"seek", "link"} /\ Tail(todo)[n].page = i
  <2>1. CASE edges[i] > 0
    BY <2>1 DEF Grows
  <2>2. ASSUME NEW n \in DOMAIN todo, todo[n].do \in {"seek", "link"}, todo[n].page = i
        PROVE  \/ edges'[i] > 0
               \/ \E m \in DOMAIN Tail(todo) : Tail(todo)[m].do \in {"seek", "link"} /\ Tail(todo)[m].page = i
    BY <1>1, <1>2, <2>2, Popped DEF Done
  <2> QED BY <1>6, <2>1, <2>2 DEF WillLink
<1>7. ASSUME ~(todo[1].do = "call" /\ todo[1].what = "history"), HistoryDue(todo)
      PROVE  HistoryDue(Tail(todo))
  <2>1. ASSUME NEW n \in DOMAIN todo, todo[n].do = "call" /\ todo[n].what = "history"
        PROVE  n - 1 \in DOMAIN Tail(todo) /\ todo[n] = Tail(todo)[n - 1]
    <3>1. n # 1
      BY <1>7, <2>1
    <3> QED BY <1>2, <3>1, Popped
  <2> QED BY <1>7, <2>1 DEF HistoryDue
<1>8. ASSUME NEW n \in DOMAIN Tail(todo), Tail(todo)[n].do = "tell"
      PROVE  Tail(todo)[n].key \in mirror' \/ PutBefore(Tail(todo), n, Tail(todo)[n].key)
  <2>1. PICK k : k = Tail(todo)[n].key
    OBVIOUS
  <2>2. n + 1 \in DOMAIN todo /\ todo[n + 1] = Tail(todo)[n] /\ n \in Nat /\ n < Len(todo)
    BY <1>2, Popped
  <2>3. k \in mirror \/ PutBefore(todo, n + 1, k)
    BY <1>1, <1>8, <2>1, <2>2 DEF HandlerInv
  <2>4. ASSUME NEW m \in 1..(n + 1 - 1), Puts(todo, m, k)
        PROVE  k \in mirror' \/ PutBefore(Tail(todo), n, k)
    <3>1. CASE m = 1
      BY <1>1, <2>4, <3>1 DEF Done
    <3>2. CASE m # 1
      <4>1. m \in DOMAIN todo /\ m - 1 \in 1..(n - 1)
        BY <1>2, <2>2, <3>2, Popped
      <4>2. Puts(Tail(todo), m - 1, k)
        BY <1>2, <2>4, <3>2, <4>1, Popped DEF Puts
      <4> QED BY <4>1, <4>2 DEF PutBefore
    <3> QED BY <3>1, <3>2
  <2> QED BY <2>1, <2>2, <2>3, <2>4 DEF PutBefore, Grows
<1>9. Mirrored(One)' = Mirrored(One) /\ \A i : Mirrored(i)' = Mirrored(i)
  BY DEF Mirrored, Grows
<1>10. \A k : WillMirror(todo, k) => WillMirror(call[c].todo, k)'
  BY <1>2, <1>5 DEF WillMirror, Puts
<1>11. \A i \in Items : WillLink(todo, i) => WillLink(call[c].todo, i)'
  BY <1>2, <1>6 DEF WillLink
<1>12. \A i \in Items : Whole(call[c], i) => Whole(call[c], i)'
  BY <1>1, <1>9, <1>10, <1>11 DEF Whole, Grows
<1>13. \A i \in call'[c].seen : i \in call'[c].left \/ HistoryDue(call'[c].todo) \/ Whole(call[c], i)'
  <2>1. CASE call'[c].seen \subseteq call'[c].left
    BY <2>1
  <2>2. CASE /\ call'[c].left = call[c].left /\ call'[c].seen = call[c].seen
             /\ ~(call[c].todo[1].do = "call" /\ call[c].todo[1].what = "history")
    BY <1>1, <1>2, <1>4, <1>7, <1>12, <2>2 DEF HandlerInv
  <2> QED BY <2>1, <2>2 DEF Done
<1>14. provider' = "slack" /\ call'[c].seen # {} => WillMirror(call[c].todo, <<"channel", One>>)'
  BY <1>1, <1>10 DEF HandlerInv, Done, Grows
<1>15. call'[c].fresh \subseteq mirror' /\ call'[c].seen \subseteq remote' /\ call'[c].op # "done"
  BY <1>2 DEF HandlerInv, Done, Grows
<1>16. \A n \in DOMAIN call'[c].todo : call'[c].todo[n].do = "tell" =>
         call'[c].todo[n].key \in mirror' \/ PutBefore(call'[c].todo, n, call'[c].todo[n].key)
  BY <1>2, <1>8
<1>17. WellFormed(call'[c].todo)
  BY <1>2, <1>3
<1> QED BY <1>13, <1>14, <1>15, <1>16, <1>17 DEF HandlerInv, HistoryDue, WellFormed, Tells, PutBefore, Puts
\* The kinds of steps: the outside, a handler that starts, and one that goes on.
FromOutside == Grows /\ UNCHANGED <<mirror, told, edges, call>>
Quiet(todo) == \A n \in DOMAIN todo : todo[n].do \notin {"put", "tell", "seek", "link"}
Starting(c) ==
  \E op \in {"sync", "other"}, todo \in Seq(StatementSet) : Start(c, op, todo) /\ Quiet(todo) /\ UNCHANGED Rest
Serves(c) ==
  /\ InsertRow(c) \/ DeleteConnection(c) \/ MarkRevoked(c) \/ InsertDraft(c)
Syncs(c) ==
  \/ ProxyCall(c) \/ NextItem(c) \/ Upsert(c) \/ Emit(c) \/ SeekEdge(c) \/ InsertEdge(c)
  \/ Reply(c) \/ Stop(c)

LEMMA SequenceOf1 == ASSUME NEW S, NEW a \in S PROVE <<a>> \in Seq(S) /\ DOMAIN <<a>> = {1} /\ <<a>>[1] = a
OBVIOUS

LEMMA PlainOne ==
  ASSUME NEW c, NEW op \in {"sync", "other"}, NEW s \in StatementSet,
         s.do \notin {"put", "tell", "seek", "link"}, Start(c, op, <<s>>), UNCHANGED Rest
  PROVE  Starting(c)
<1>1. <<s>> \in Seq(StatementSet) /\ Quiet(<<s>>)
  BY SequenceOf1 DEF Quiet
<1> QED BY <1>1 DEF Starting

LEMMA SyncStarts ==
  ASSUME SourcesTyped, NEW c \in Clients,
         \/ StartSession(c) \/ CompleteKite(c) \/ CaptureSession(c)
         \/ \E h \in Handles : Complete(c, h)
         \/ \E n \in DOMAIN rows : Disconnect(c, n)
         \/ Send(c) \/ Post(c) \/ CreatePage(c) \/ PushNote(c) \/ Upload(c) \/ Share(c)
         \/ CreateEvent(c) \/ MoveEvent(c) \/ Act(c) \/ Book(c) \/ SendWhatsApp(c)
         \/ Webhook(c) \/ Sync(c)
  PROVE  Starting(c)
<1>1. ASSUME NEW handle \in Handles \union {NoHandle}, NEW status \in {"pending", "active"},
             Start(c, "other", <<[do |-> "insert", handle |-> handle, status |-> status]>>), UNCHANGED Rest
      PROVE  Starting(c)
  <2>1. [do |-> "insert", handle |-> handle, status |-> status] \in StatementSet
    BY <1>1 DEF StatementSet
  <2> QED BY <1>1, <2>1, PlainOne
<1>2. ASSUME Start(c, "other", <<[do |-> "create"]>>), UNCHANGED Rest PROVE Starting(c)
  <2>1. [do |-> "create"] \in StatementSet
    BY DEF StatementSet
  <2> QED BY <1>2, <2>1, PlainOne
<1>3. CASE Sync(c)
  <2>1. Call("list") \in StatementSet /\ Call("list").do = "call"
    BY DEF StatementSet, Call
  <2> QED BY <1>3, <2>1, PlainOne DEF Sync
<1>4. ASSUME NEW n \in DOMAIN rows, Disconnect(c, n) PROVE Starting(c)
  <2>1. n \in Nat
    BY DEF SourcesTyped
  <2>2. [do |-> "revoke", row |-> n] \in StatementSet /\ [do |-> "delete", row |-> n] \in StatementSet
    BY <2>1 DEF StatementSet
  <2>3. CASE rows[n].handle = NoHandle
    BY <1>4, <2>2, <2>3, PlainOne DEF Disconnect
  <2>4. CASE rows[n].handle # NoHandle
    <3>1. PICK todo : todo = <<[do |-> "delete", row |-> n], [do |-> "revoke", row |-> n]>>
      OBVIOUS
    <3>2. todo \in Seq(StatementSet)
      BY <2>2, <3>1, SequenceOf2
    <3>3. Quiet(todo)
      BY <3>1 DEF Quiet
    <3>4. Start(c, "other", todo) /\ UNCHANGED Rest
      BY <1>4, <2>4, <3>1 DEF Disconnect
    <3> QED BY <3>2, <3>3, <3>4 DEF Starting
  <2> QED BY <2>3, <2>4
<1>5. CASE StartSession(c) \/ CompleteKite(c) \/ CaptureSession(c) \/ \E h \in Handles : Complete(c, h)
  BY <1>1, <1>5 DEF StartSession, CompleteKite, CaptureSession, Complete
<1>6. ASSUME NEW p, Draft(c, p) PROVE Starting(c)
  BY <1>2, <1>6 DEF Draft
<1>7. CASE Webhook(c)
  BY <1>2, <1>7 DEF Webhook
<1>8. CASE \/ Send(c) \/ Post(c) \/ CreatePage(c) \/ PushNote(c) \/ Upload(c) \/ Share(c)
           \/ CreateEvent(c) \/ MoveEvent(c) \/ Act(c) \/ Book(c) \/ SendWhatsApp(c)
  BY <1>6, <1>8 DEF Send, Post, CreatePage, PushNote, Upload, Share, CreateEvent, MoveEvent, Act, Book, SendWhatsApp
<1> QED BY <1>3, <1>4, <1>5, <1>7, <1>8

LEMMA SyncSteps ==
  ASSUME SourcesTyped, [SourcesNext]_sourceVars
  PROVE  \/ UNCHANGED sourceVars \/ PollStatus
         \/ \E h \in Handles : Authorize(h)
         \/ \E i \in Items : Arrive(i)
         \/ \E c \in Clients : Starting(c) \/ Serves(c) \/ Syncs(c)
BY SyncStarts DEF SourcesNext, Serves, Syncs

LEMMA SyncMoves ==
  ASSUME SourcesTyped, [SourcesNext]_sourceVars
  PROVE  FromOutside \/ \E c \in Clients : Starting(c) \/ Serves(c) \/ Syncs(c)
<1>1. CASE \E h \in Handles : Authorize(h)
  BY <1>1 DEF Authorize, FromOutside, Grows
<1>2. CASE \E i \in Items : Arrive(i)
  BY <1>2 DEF Arrive, FromOutside, Grows
<1>3. CASE PollStatus \/ UNCHANGED sourceVars
  BY <1>3 DEF PollStatus, FromOutside, Grows, sourceVars
<1> QED BY <1>1, <1>2, <1>3, SyncSteps

LEMMA StartingInv ==
  ASSUME SourcesTyped, NEW c \in Clients, Starting(c)
  PROVE  /\ Grows /\ told' = told /\ HandlerInv(call[c])'
         /\ call'[c].fresh = {} /\ \A d \in Clients \ {c} : call'[d] = call[d]
         /\ call' \in [Clients -> Calls]
<1>1. PICK op \in {"sync", "other"}, todo \in Seq(StatementSet) : Start(c, op, todo) /\ Quiet(todo) /\ UNCHANGED Rest
  BY DEF Starting
<1>2. call' = [call EXCEPT ![c] = [Idle EXCEPT !.op = op, !.todo = todo]]
  BY <1>1 DEF Start
<1>3. call'[c] = [op |-> op, todo |-> todo, left |-> {}, fresh |-> {}, seen |-> {}]
  BY <1>2 DEF SourcesTyped, Idle
<1>4. call'[c] \in Calls
  BY <1>3 DEF Calls
<1>5. HandlerInv(call[c])'
  BY <1>1, <1>3 DEF HandlerInv, WellFormed, Quiet
<1>6. Grows /\ told' = told
  BY <1>1 DEF Grows, Rest
<1> QED BY <1>2, <1>3, <1>4, <1>5, <1>6 DEF SourcesTyped
LEMMA OnOf ==
  ASSUME SourcesTyped, NEW c \in Clients, call[c].todo # <<>>, call' = On(c)
  PROVE  /\ call' \in [Clients -> Calls] /\ \A d \in Clients \ {c} : call'[d] = call[d]
         /\ call'[c].todo = Tail(call[c].todo) /\ call'[c].left = call[c].left
         /\ call'[c].seen = call[c].seen /\ call'[c].op = call[c].op /\ call'[c].fresh = call[c].fresh
<1>1. call[c] \in Calls /\ Tail(call[c].todo) \in Seq(StatementSet)
  BY Popped DEF SourcesTyped, Calls
<1>2. [call[c] EXCEPT !.todo = Tail(call[c].todo)] \in Calls
  BY <1>1 DEF Calls
<1>3. call' = [call EXCEPT ![c] = [call[c] EXCEPT !.todo = Tail(call[c].todo)]]
  BY DEF On
<1> QED BY <1>1, <1>2, <1>3 DEF SourcesTyped, Calls

LEMMA NowIs ==
  ASSUME SourcesTyped, NEW c \in Clients, NEW what, Now(c, what)
  PROVE  call[c].todo # <<>> /\ call[c].todo \in Seq(StatementSet) /\ call[c].todo[1].do = what
         /\ call[c].todo[1] \in StatementSet /\ Head(call[c].todo) = call[c].todo[1]
<1>1. call[c].todo # <<>> /\ call[c].todo \in Seq(StatementSet)
  BY DEF Now, SourcesTyped, Calls
<1>2. Head(call[c].todo) = call[c].todo[1] /\ 1 \in DOMAIN call[c].todo
  BY <1>1, Popped
<1>3. call[c].todo[1] \in StatementSet
  BY <1>1, <1>2
<1> QED BY <1>1, <1>2, <1>3 DEF Now

LEMMA ServesInv ==
  ASSUME SourcesTyped, NEW c \in Clients, HandlerInv(call[c]), Serves(c)
  PROVE  Grows /\ told' = told /\ call' = On(c) /\ HandlerInv(call[c])'
         /\ call[c].todo # <<>> /\ call[c].todo[1].do # "put"
<1>1. PICK what \in {"insert", "delete", "revoke", "create"} : Now(c, what)
  BY DEF Serves, InsertRow, DeleteConnection, MarkRevoked, InsertDraft
<1>2. call' = On(c) /\ Grows /\ told' = told /\ mirror' = mirror
  BY DEF Serves, InsertRow, DeleteConnection, MarkRevoked, InsertDraft, Grows
<1>3. call[c].todo # <<>> /\ call[c].todo[1].do = what
  BY <1>1, NowIs
<1>4. Done(c)
  BY <1>1, <1>2, <1>3, OnOf DEF Done, Puts, HandlerInv, Grows
<1> QED BY <1>1, <1>2, <1>3, <1>4, SyncGoesOn DEF Puts

LEMMA UpsertInv ==
  ASSUME SourcesTyped, NEW c \in Clients, HandlerInv(call[c]), Upsert(c)
  PROVE  /\ Grows /\ told' = told /\ HandlerInv(call[c])' /\ mirror' \subseteq Keys
         /\ \A d \in Clients \ {c} : call'[d] = call[d]
         /\ call' \in [Clients -> Calls]
<1>1. PICK k : k = call[c].todo[1].key
  OBVIOUS
<1>2. call[c].todo # <<>> /\ call[c].todo[1].do = "put" /\ k \in Keys /\ Head(call[c].todo).key = k
  BY <1>1, NowIs DEF Upsert, StatementSet
<1>3. PICK f : f = IF k \in mirror THEN call[c].fresh \ {k} ELSE call[c].fresh \cup {k}
  OBVIOUS
<1>4. /\ mirror' = mirror \cup {k}
      /\ call' = [call EXCEPT ![c] = [call[c] EXCEPT !.todo = Tail(call[c].todo), !.fresh = f]]
  BY <1>2, <1>3 DEF Upsert
<1>5. call[c] \in Calls /\ Tail(call[c].todo) \in Seq(StatementSet) /\ f \in SUBSET Keys
  BY <1>2, <1>3, Popped DEF SourcesTyped, Calls
<1>6. [call[c] EXCEPT !.todo = Tail(call[c].todo), !.fresh = f] \in Calls
  BY <1>5 DEF Calls
<1>7. call'[c].todo = Tail(call[c].todo) /\ call'[c].left = call[c].left
      /\ call'[c].seen = call[c].seen /\ call'[c].op = call[c].op /\ call'[c].fresh = f
  BY <1>4, <1>5 DEF SourcesTyped, Calls
<1>8. Grows /\ told' = told
  BY <1>4 DEF Grows, Upsert
<1>9. Done(c)
  <2>1. f \subseteq mirror'
    BY <1>3, <1>4 DEF HandlerInv
  <2>2. \A j : Puts(call[c].todo, 1, j) => j \in mirror'
    BY <1>1, <1>4 DEF Puts
  <2>3. call'[c].seen \subseteq remote'
    BY <1>7, <1>8 DEF HandlerInv, Grows
  <2> QED BY <1>2, <1>7, <2>1, <2>2, <2>3 DEF Done
<1> QED BY <1>2, <1>4, <1>6, <1>8, <1>9, SyncGoesOn DEF SourcesTyped

LEMMA EmitInv ==
  ASSUME SourcesTyped, NEW c \in Clients, HandlerInv(call[c]), Emit(c)
  PROVE  Grows /\ call' = On(c) /\ call[c].todo # <<>> /\ HandlerInv(call[c])'
<1>1. call[c].todo # <<>> /\ call[c].todo[1].do = "tell"
  BY NowIs DEF Emit
<1>2. call' = On(c) /\ mirror' = mirror /\ Grows
  BY DEF Emit, Grows
<1>3. Done(c)
  BY <1>1, <1>2, OnOf DEF Done, Puts, HandlerInv, Grows
<1> QED BY <1>1, <1>2, <1>3, SyncGoesOn

LEMMA EdgeInv ==
  ASSUME SourcesTyped, NEW c \in Clients, HandlerInv(call[c]), InsertEdge(c)
  PROVE  Grows /\ told' = told /\ call' = On(c) /\ call[c].todo # <<>> /\ call[c].todo[1].do # "put"
         /\ HandlerInv(call[c])' /\ edges' \in [Items -> Nat]
<1>1. call[c].todo # <<>> /\ call[c].todo[1].do = "link" /\ Head(call[c].todo) = call[c].todo[1]
      /\ call[c].todo[1].page \in Items
  BY NowIs DEF InsertEdge, StatementSet
<1>2. edges' = [edges EXCEPT ![call[c].todo[1].page] = edges[call[c].todo[1].page] + 1]
  BY <1>1 DEF InsertEdge
<1>3. edges' \in [Items -> Nat] /\ edges'[call[c].todo[1].page] > 0 /\ \A i \in Items : edges[i] > 0 => edges'[i] > 0
  BY <1>1, <1>2 DEF SourcesTyped
<1>4. call' = On(c) /\ Grows /\ mirror' = mirror /\ told' = told
  BY <1>3 DEF InsertEdge, Grows
<1>5. Done(c)
  BY <1>1, <1>3, <1>4, OnOf DEF Done, Puts, HandlerInv, Grows
<1> QED BY <1>1, <1>3, <1>4, <1>5, SyncGoesOn
LEMMA CallInv ==
  ASSUME SourcesTyped, NEW c \in Clients, HandlerInv(call[c]), ProxyCall(c)
  PROVE  /\ Grows /\ told' = told /\ HandlerInv(call[c])' /\ \A d \in Clients \ {c} : call'[d] = call[d]
         /\ call' \in [Clients -> Calls]
         /\ \A k : WillTell(call'[c].todo, call'[c].fresh, k) => WillTell(call[c].todo, call[c].fresh, k)
<1>1. PICK todo \in Seq(StatementSet), what \in {"list", "detail", "history"} :
        /\ todo = call[c].todo /\ todo # <<>> /\ todo[1].do = "call"
        /\ what = todo[1].what /\ what = Head(call[c].todo).what
  <2>1. /\ call[c].todo \in Seq(StatementSet) /\ call[c].todo # <<>> /\ call[c].todo[1].do = "call"
        /\ call[c].todo[1] \in StatementSet /\ Head(call[c].todo) = call[c].todo[1]
    BY NowIs DEF ProxyCall
  <2>2. call[c].todo[1].what \in {"list", "detail", "history"}
    BY <2>1 DEF StatementSet
  <2> QED BY <2>1, <2>2
<1>2. PICK channel \in BOOLEAN : channel = (what = "list" /\ provider = "slack")
  OBVIOUS
<1>3. PICK todo2, left2, seen2 :
        /\ todo2 = IF channel THEN SlackSync ELSE Tail(todo)
        /\ left2 = IF what = "detail" \/ channel THEN call[c].left ELSE remote
        /\ seen2 = IF what = "list" THEN remote ELSE call[c].seen
  OBVIOUS
<1>4. /\ call' = [call EXCEPT ![c] = [call[c] EXCEPT !.todo = todo2, !.left = left2, !.seen = seen2]]
      /\ Grows /\ told' = told /\ UNCHANGED <<mirror, edges, provider, remote>>
  BY <1>1, <1>2, <1>3 DEF ProxyCall, Rest, Grows
<1>5. call[c] \in Calls /\ todo2 \in Seq(StatementSet) /\ left2 \subseteq Items /\ seen2 \subseteq Items
  <2>1. \E i \in Items : TRUE
    BY SourcesAssumption DEF SourcesAssumption
  <2>2. SlackSync \in Seq(StatementSet) /\ Tail(todo) \in Seq(StatementSet)
    BY <1>1, <2>1, SyncOf, SourcesAssumption, Popped
  <2> QED BY <1>3, <2>2 DEF SourcesTyped, Calls
<1>6. /\ call'[c].todo = todo2 /\ call'[c].left = left2 /\ call'[c].seen = seen2
      /\ call'[c].op = call[c].op /\ call'[c].fresh = call[c].fresh
      /\ call' \in [Clients -> Calls] /\ \A d \in Clients \ {c} : call'[d] = call[d]
  <2>1. [call[c] EXCEPT !.todo = todo2, !.left = left2, !.seen = seen2] \in Calls
    BY <1>5 DEF Calls
  <2> QED BY <1>4, <1>5, <2>1 DEF SourcesTyped, Calls
<1>7. CASE channel
  <2>1. todo2 = SlackSync
    BY <1>3, <1>7
  <2>2. /\ WellFormed(todo2) /\ HistoryDue(todo2) /\ Announced(todo2)
        /\ \E n \in DOMAIN todo2 : Puts(todo2, n, <<"channel", One>>)
    BY <2>1, SlackShape
  <2>3. \A k : ~WillTell(todo2, call'[c].fresh, k)
    BY <2>2, AnnouncedTellsNothing
  <2>4. call[c].op # "done" /\ call[c].fresh \subseteq mirror /\ seen2 = remote
    BY <1>1, <1>2, <1>3, <1>7 DEF HandlerInv
  <2>5. HandlerInv(call[c])'
    <3>1. WillMirror(call[c].todo, <<"channel", One>>)'
      BY <1>6, <2>2 DEF WillMirror, Puts
    <3>2. \A i \in call'[c].seen : i \in call'[c].left \/ HistoryDue(call'[c].todo) \/ Whole(call[c], i)'
      BY <1>6, <2>2
    <3>3. WellFormed(call'[c].todo) /\ Announced(call'[c].todo)
      BY <1>6, <2>2
    <3>4. /\ call'[c].fresh \subseteq mirror' /\ call'[c].seen \subseteq remote' /\ call'[c].op # "done"
          /\ provider' = "slack" /\ call'[c].seen # {} => WillMirror(call[c].todo, <<"channel", One>>)'
      BY <1>4, <1>6, <2>4, <3>1
    <3> QED BY <3>2, <3>3, <3>4 DEF HandlerInv, HistoryDue, WellFormed, Announced, Tells, PutBefore, Puts
  <2> QED BY <1>4, <1>6, <2>3, <2>5
<1>8. CASE ~channel
  <2>1. todo2 = Tail(todo)
    BY <1>3, <1>8
  <2>2. Done(c)
    <3>1. /\ seen2 \subseteq remote /\ (provider = "slack" => seen2 = call[c].seen)
          /\ (left2 = call[c].left /\ seen2 = call[c].seen /\ what # "history") \/ seen2 \subseteq left2
      BY <1>2, <1>3, <1>8 DEF HandlerInv
    <3>2. call[c].fresh \subseteq mirror
      BY DEF HandlerInv
    <3> QED BY <1>1, <1>4, <1>6, <2>1, <3>1, <3>2 DEF Done, Puts
  <2>3. HandlerInv(call[c])'
    BY <1>4, <2>2, SyncGoesOn
  <2>4. \A k : WillTell(Tail(todo), call[c].fresh, k) => WillTell(todo, call[c].fresh, k)
    BY <1>1, PopTells DEF Puts
  <2> QED BY <1>1, <1>4, <1>6, <2>1, <2>3, <2>4
<1> QED BY <1>7, <1>8

LEMMA NextInv ==
  ASSUME SourcesTyped, NEW c \in Clients, HandlerInv(call[c]), NextItem(c)
  PROVE  /\ Grows /\ told' = told /\ HandlerInv(call[c])' /\ \A d \in Clients \ {c} : call'[d] = call[d]
         /\ call' \in [Clients -> Calls]
         /\ \A k : ~WillTell(call'[c].todo, call'[c].fresh, k)
<1>1. PICK i \in call[c].left :
        call' = [call EXCEPT ![c] = [call[c] EXCEPT !.todo = Statements(i), !.left = call[c].left \ {i}]]
  BY DEF NextItem
<1>2. call[c].todo = <<>> /\ call[c].op = "sync" /\ Grows /\ told' = told /\ UNCHANGED <<mirror, edges, provider, remote>>
  BY DEF NextItem, Rest, Grows
<1>3. i \in Items /\ call[c] \in Calls
  BY <1>1 DEF SourcesTyped, Calls
<1>4. PICK todo : todo = Statements(i)
  OBVIOUS
<1>5. /\ todo \in Seq(StatementSet) /\ WellFormed(todo) /\ Announced(todo)
      /\ \A k \in Mirrored(i) :
           (\E n \in DOMAIN todo : Puts(todo, n, k)) \/ (provider = "slack" /\ k = <<"channel", One>>)
      /\ provider = "notion" /\ i % 2 = 1 => \E n \in DOMAIN todo : todo[n].do = "seek" /\ todo[n].page = i
  BY <1>3, <1>4, StatementsShape, SourcesAssumption
<1>6. /\ call'[c].todo = todo /\ call'[c].left = call[c].left \ {i} /\ call'[c].seen = call[c].seen
      /\ call'[c].op = "sync" /\ call'[c].fresh = call[c].fresh
      /\ call' \in [Clients -> Calls] /\ \A d \in Clients \ {c} : call'[d] = call[d]
  <2>1. [call[c] EXCEPT !.todo = todo, !.left = call[c].left \ {i}] \in Calls
    BY <1>3, <1>5 DEF Calls
  <2> QED BY <1>1, <1>2, <1>3, <1>4, <2>1 DEF SourcesTyped, Calls
<1>7. \A k : WillMirror(<<>>, k) => k \in mirror
  BY DEF WillMirror
<1>8. \A j : Mirrored(j)' = Mirrored(j)
  BY <1>2 DEF Mirrored
<1>9. provider = "slack" /\ call[c].seen # {} => <<"channel", One>> \in mirror
  BY <1>2, <1>7 DEF HandlerInv
<1>10. ASSUME NEW j \in call[c].seen
       PROVE  j \in call'[c].left \/ Whole(call[c], j)'
  <2>1. CASE j \in call[c].left /\ j # i
    BY <1>6, <2>1
  <2>2. CASE j = i
    <3>1. \A k \in Mirrored(i) : WillMirror(call[c].todo, k)'
      BY <1>2, <1>5, <1>6, <1>9 DEF WillMirror, Puts
    <3>2. provider = "notion" /\ i % 2 = 1 => WillLink(call[c].todo, i)'
      BY <1>5, <1>6 DEF WillLink
    <3> QED BY <1>2, <1>8, <2>2, <3>1, <3>2 DEF Whole
  <2>3. CASE j \notin call[c].left
    <3>1. Whole(call[c], j)
      BY <1>2, <2>3 DEF HandlerInv, HistoryDue
    <3>2. \A k \in Mirrored(j) : k \in mirror
      BY <1>2, <1>7, <3>1 DEF Whole
    <3>3. provider = "notion" /\ j % 2 = 1 => edges[j] > 0
      BY <1>2, <3>1 DEF Whole, WillLink
    <3>4. \A k \in Mirrored(j) : WillMirror(call[c].todo, k)'
      BY <1>2, <3>2 DEF WillMirror
    <3>5. provider = "notion" /\ j % 2 = 1 => WillLink(call[c].todo, j)'
      BY <1>2, <3>3 DEF WillLink
    <3> QED BY <1>2, <1>8, <3>4, <3>5 DEF Whole
  <2> QED BY <2>1, <2>2, <2>3
<1>11. HandlerInv(call[c])'
  <2>1. provider' = "slack" /\ call'[c].seen # {} => WillMirror(call[c].todo, <<"channel", One>>)'
    BY <1>2, <1>6, <1>9 DEF WillMirror
  <2>2. call[c].fresh \subseteq mirror /\ call[c].seen \subseteq remote
    BY DEF HandlerInv
  <2> QED BY <1>2, <1>5, <1>6, <1>10, <2>1, <2>2 DEF HandlerInv, WellFormed, Announced, Tells, PutBefore, Puts
<1>12. \A k : ~WillTell(todo, call'[c].fresh, k)
  BY <1>5, AnnouncedTellsNothing
<1> QED BY <1>2, <1>6, <1>11, <1>12
\* The statement that asks for the edge becomes the one that inserts it.
LEMMA SeekInv ==
  ASSUME SourcesTyped, NEW c \in Clients, HandlerInv(call[c]), SeekEdge(c)
  PROVE  /\ Grows /\ told' = told /\ HandlerInv(call[c])' /\ \A d \in Clients \ {c} : call'[d] = call[d]
         /\ call' \in [Clients -> Calls]
         /\ \A k : WillTell(call'[c].todo, call'[c].fresh, k) => WillTell(call[c].todo, call[c].fresh, k)
<1>1. PICK todo \in Seq(StatementSet), i \in Items :
        /\ todo = call[c].todo /\ todo # <<>> /\ todo[1].do = "seek"
        /\ i = todo[1].page /\ i = Head(call[c].todo).page
  <2>1. /\ call[c].todo \in Seq(StatementSet) /\ call[c].todo # <<>> /\ call[c].todo[1].do = "seek"
        /\ call[c].todo[1] \in StatementSet /\ Head(call[c].todo) = call[c].todo[1]
    BY NowIs DEF SeekEdge
  <2>2. call[c].todo[1].page \in Items
    BY <2>1 DEF StatementSet
  <2> QED BY <2>1, <2>2
<1>2. Grows /\ told' = told /\ UNCHANGED <<mirror, edges, provider, remote>>
  BY DEF SeekEdge, Rest, Grows
<1>3. CASE edges[i] > 0
  <2>1. call' = On(c)
    BY <1>1, <1>3 DEF SeekEdge
  <2>2. Done(c)
    BY <1>1, <1>2, <1>3, <2>1, OnOf DEF Done, Puts, HandlerInv
  <2>3. \A k : WillTell(Tail(todo), call[c].fresh, k) => WillTell(todo, call[c].fresh, k)
    BY <1>1, PopTells DEF Puts
  <2> QED BY <1>1, <1>2, <2>1, <2>2, <2>3, OnOf, SyncGoesOn
<1>4. CASE ~(edges[i] > 0)
  <2>1. PICK link, todo2 : link = [do |-> "link", page |-> i] /\ todo2 = [todo EXCEPT ![1] = link]
    OBVIOUS
  <2>2. call' = [call EXCEPT ![c] = [call[c] EXCEPT !.todo = todo2]]
    BY <1>1, <1>4, <2>1 DEF SeekEdge
  <2>3. /\ DOMAIN todo2 = DOMAIN todo /\ 1 \in DOMAIN todo /\ todo2[1] = link
        /\ \A n \in DOMAIN todo : n = 1 \/ todo2[n] = todo[n]
    BY <1>1, <2>1, Popped
  <2>4. todo2 \in Seq(StatementSet) /\ todo2 # <<>> /\ link.do = "link" /\ link.page = i
    <3>1. link \in StatementSet
      BY <2>1 DEF StatementSet
    <3> QED BY <1>1, <2>1, <2>3, <3>1
  <2>5. /\ call'[c].todo = todo2 /\ call'[c].left = call[c].left /\ call'[c].seen = call[c].seen
        /\ call'[c].op = call[c].op /\ call'[c].fresh = call[c].fresh
        /\ call' \in [Clients -> Calls] /\ \A d \in Clients \ {c} : call'[d] = call[d]
    <3>1. call[c] \in Calls
      BY DEF SourcesTyped
    <3>2. [call[c] EXCEPT !.todo = todo2] \in Calls
      BY <2>4, <3>1 DEF Calls
    <3> QED BY <2>2, <3>1, <3>2 DEF SourcesTyped, Calls
  <2>6. \A n \in DOMAIN todo : \A k : /\ Puts(todo2, n, k) <=> Puts(todo, n, k)
                                      /\ Tells(todo2, n, k) <=> Tells(todo, n, k)
    BY <1>1, <2>3, <2>4 DEF Puts, Tells
  <2>7. \A n \in DOMAIN todo : \A k : PutBefore(todo2, n, k) <=> PutBefore(todo, n, k)
    <3>1. \A n \in DOMAIN todo : 1..(n - 1) \subseteq DOMAIN todo
      BY <1>1, Popped
    <3> QED BY <2>6, <3>1 DEF PutBefore
  <2>8. \A k : WillTell(todo2, call[c].fresh, k) => WillTell(todo, call[c].fresh, k)
    BY <2>3, <2>6, <2>7 DEF WillTell
  <2>9. \A n \in DOMAIN todo : todo2[n].do = "tell" => todo2[n] = todo[n]
    BY <2>3, <2>4
  <2>10. WellFormed(todo2)
    <3>1. WellFormed(todo)
      BY <1>1 DEF HandlerInv
    <3>2. ASSUME NEW n \in DOMAIN todo2, todo2[n].do = "tell"
          PROVE  /\ todo2[n].of = (IF todo2[n].key[1] = "note" THEN {<<"page", todo2[n].key[2]>>, todo2[n].key}
                                   ELSE {todo2[n].key})
                 /\ \A m \in DOMAIN todo2 : Tells(todo2, m, todo2[n].key) => m = n
      <4>1. n \in DOMAIN todo /\ todo2[n] = todo[n]
        BY <2>3, <2>9, <3>2
      <4>2. \A m \in DOMAIN todo : Tells(todo, m, todo[n].key) => m = n
        BY <3>1, <3>2, <4>1 DEF WellFormed
      <4>3. todo[n].of = (IF todo[n].key[1] = "note" THEN {<<"page", todo[n].key[2]>>, todo[n].key}
                          ELSE {todo[n].key})
        BY <3>1, <3>2, <4>1 DEF WellFormed
      <4> QED BY <2>3, <2>6, <4>1, <4>2, <4>3
    <3> QED BY <3>2 DEF WellFormed
  <2>11. \A k : WillMirror(todo, k) => WillMirror(call[c].todo, k)'
    <3>1. \A k : WillMirror(todo, k) => k \in mirror' \/ \E n \in DOMAIN todo2 : Puts(todo2, n, k)
      BY <1>2, <2>3, <2>6 DEF WillMirror
    <3> QED BY <2>5, <3>1 DEF WillMirror, Puts
  <2>12. \A j \in Items : WillLink(todo, j) => WillLink(call[c].todo, j)'
    <3>1. ASSUME NEW j \in Items, NEW n \in DOMAIN todo, todo[n].do \in {"seek", "link"}, todo[n].page = j
          PROVE  todo2[n].do \in {"seek", "link"} /\ todo2[n].page = j
      BY <1>1, <2>3, <2>4, <3>1
    <3> QED BY <1>2, <2>3, <2>5, <3>1 DEF WillLink
  <2>13. \A j : Mirrored(j)' = Mirrored(j)
    BY <1>2 DEF Mirrored
  <2>14. \A j \in Items : Whole(call[c], j) => Whole(call[c], j)'
    BY <1>1, <1>2, <2>11, <2>12, <2>13 DEF Whole
  <2>15. HistoryDue(todo) => HistoryDue(todo2)
    BY <1>1, <2>3 DEF HistoryDue
  <2>16. HandlerInv(call[c])'
    <3>1. \A j \in call'[c].seen : j \in call'[c].left \/ HistoryDue(call'[c].todo) \/ Whole(call[c], j)'
      BY <1>1, <2>5, <2>14, <2>15 DEF HandlerInv, SourcesTyped, Calls
    <3>2. /\ call'[c].fresh \subseteq mirror' /\ call'[c].seen \subseteq remote' /\ call'[c].op # "done"
          /\ provider' = "slack" /\ call'[c].seen # {} => WillMirror(call[c].todo, <<"channel", One>>)'
      BY <1>1, <1>2, <2>5, <2>11 DEF HandlerInv
    <3>3. \A n \in DOMAIN todo2 : todo2[n].do = "tell" => todo2[n].key \in mirror' \/ PutBefore(todo2, n, todo2[n].key)
      BY <1>1, <1>2, <2>3, <2>7, <2>9 DEF HandlerInv
    <3> QED BY <2>5, <2>10, <3>1, <3>2, <3>3 DEF HandlerInv, HistoryDue, WellFormed, Tells, PutBefore, Puts
  <2> QED BY <1>1, <1>2, <2>5, <2>8, <2>16
<1> QED BY <1>3, <1>4

LEMMA EndsInv ==
  ASSUME SourcesTyped, NEW c \in Clients, HandlerInv(call[c]), Reply(c) \/ Stop(c)
  PROVE  /\ Grows /\ told' = told /\ HandlerInv(call[c])' /\ \A d \in Clients \ {c} : call'[d] = call[d]
         /\ call' \in [Clients -> Calls] /\ call'[c].fresh = {}
<1>1. PICK h \in Calls :
        /\ call' = [call EXCEPT ![c] = h]
        /\ h.todo = <<>> /\ h.left = {} /\ h.fresh = {}
        /\ h.seen = {} \/ (h.seen = call[c].seen /\ call[c].todo = <<>> /\ call[c].left = {})
  <2>1. /\ Idle \in Calls /\ Idle.todo = <<>> /\ Idle.left = {} /\ Idle.fresh = {} /\ Idle.seen = {}
    BY DEF Idle, Calls
  <2>2. CASE Stop(c) \/ (Reply(c) /\ call[c].op # "sync")
    BY <2>1, <2>2 DEF Stop, Reply
  <2>3. CASE Reply(c) /\ call[c].op = "sync"
    <3>1. PICK h : h = [Idle EXCEPT !.op = "done", !.seen = call[c].seen]
      OBVIOUS
    <3>2. call' = [call EXCEPT ![c] = h] /\ call[c].todo = <<>> /\ call[c].left = {}
      BY <2>3, <3>1 DEF Reply
    <3>3. call[c].seen \in SUBSET Items
      BY DEF SourcesTyped, Calls
    <3>4. h \in Calls
      BY <2>1, <3>1, <3>3 DEF Calls
    <3>5. h.todo = <<>> /\ h.left = {} /\ h.fresh = {} /\ h.seen = call[c].seen
      BY <3>1 DEF Idle
    <3> QED BY <3>2, <3>4, <3>5
  <2> QED BY <2>2, <2>3
<1>2. Grows /\ told' = told /\ UNCHANGED <<mirror, edges, provider, remote>>
  BY DEF Reply, Stop, Rest, Grows
<1>3. PICK seen \in SUBSET Items : seen = h.seen
  BY DEF Calls
<1>4. /\ call'[c].todo = <<>> /\ call'[c].left = {} /\ call'[c].seen = seen /\ call'[c].fresh = {}
      /\ call' \in [Clients -> Calls] /\ \A d \in Clients \ {c} : call'[d] = call[d]
  BY <1>1, <1>3 DEF SourcesTyped
<1>5. \A j : Mirrored(j)' = Mirrored(j)
  BY <1>2 DEF Mirrored
<1>6. ASSUME NEW j \in seen PROVE Whole(call[c], j)'
  <2>1. j \in call[c].seen /\ call[c].todo = <<>> /\ call[c].left = {}
    BY <1>1, <1>3, <1>6
  <2>2. Whole(call[c], j)
    BY <2>1 DEF HandlerInv, HistoryDue
  <2>3. \A k \in Mirrored(j) : WillMirror(call[c].todo, k)'
    BY <1>2, <1>4, <2>1, <2>2 DEF Whole, WillMirror
  <2>4. provider = "notion" /\ j % 2 = 1 => WillLink(call[c].todo, j)'
    BY <1>2, <1>4, <2>1, <2>2 DEF Whole, WillLink
  <2> QED BY <1>2, <1>5, <2>3, <2>4 DEF Whole
<1>7. provider' = "slack" /\ call'[c].seen # {} => WillMirror(call[c].todo, <<"channel", One>>)'
  BY <1>1, <1>2, <1>3, <1>4 DEF HandlerInv, WillMirror
<1>8. seen \subseteq remote'
  BY <1>1, <1>2, <1>3 DEF HandlerInv
<1>9. HandlerInv(call[c])'
  BY <1>4, <1>6, <1>7, <1>8 DEF HandlerInv, WellFormed
<1> QED BY <1>2, <1>4, <1>9
RowSet == [handle : Handles \union {NoHandle}, status : {"pending", "active", "revoked"}]

LEMMA RowsType ==
  ASSUME SourcesTyped, [SourcesNext]_sourceVars
  PROVE  rows' \in Seq(RowSet)
<1>1. /\ rows \in Seq(RowSet) /\ DOMAIN rows = 1..Len(rows) /\ Len(rows) \in Nat
      /\ \A n \in DOMAIN rows : rows[n] \in RowSet
  <2>1. rows \in Seq(RowSet)
    BY DEF SourcesTyped, RowSet
  <2> QED BY <2>1
<1>2. ASSUME NEW c \in Clients, InsertRow(c) PROVE rows' \in Seq(RowSet)
  <2>1. call[c].todo[1] \in StatementSet /\ call[c].todo[1].do = "insert" /\ Head(call[c].todo) = call[c].todo[1]
    BY <1>2, NowIs DEF InsertRow
  <2>2. call[c].todo[1].handle \in Handles \union {NoHandle} /\ call[c].todo[1].status \in {"pending", "active"}
    BY <2>1 DEF StatementSet
  <2>3. PICK row \in RowSet : row = [handle |-> call[c].todo[1].handle, status |-> call[c].todo[1].status]
    BY <2>2 DEF RowSet
  <2>4. rows' = Append(rows, row)
    BY <1>2, <2>1, <2>3 DEF InsertRow
  <2> QED BY <1>1, <2>4, AppendProperties
<1>3. CASE PollStatus
  <2>1. rows' = [n \in DOMAIN rows |->
                   IF rows[n].status = "pending" THEN [rows[n] EXCEPT !.status = "active"] ELSE rows[n]]
    BY <1>3 DEF PollStatus
  <2>2. \A n \in DOMAIN rows : [rows[n] EXCEPT !.status = "active"] \in RowSet
    BY <1>1 DEF RowSet
  <2>3. rows' \in [1..Len(rows) -> RowSet]
    BY <1>1, <2>1, <2>2
  <2> QED BY <1>1, <2>3
<1>4. ASSUME NEW c \in Clients, MarkRevoked(c) PROVE rows' \in Seq(RowSet)
  <2>1. PICK n : n = Head(call[c].todo).row
    OBVIOUS
  <2>2. rows' = [rows EXCEPT ![n] = [rows[n] EXCEPT !.status = "revoked"]]
    BY <1>4, <2>1 DEF MarkRevoked
  <2>3. n \in DOMAIN rows => [rows[n] EXCEPT !.status = "revoked"] \in RowSet
    BY <1>1 DEF RowSet
  <2>4. rows' \in [1..Len(rows) -> RowSet]
    BY <1>1, <2>2, <2>3
  <2> QED BY <1>1, <2>4
<1>5. ASSUME NEW c \in Clients, Starting(c) PROVE rows' = rows
  BY <1>5 DEF Starting, Rest
<1>6. ASSUME NEW c \in Clients, Syncs(c) PROVE rows' = rows
  BY <1>6 DEF Syncs, ProxyCall, NextItem, Upsert, Emit, SeekEdge, InsertEdge, Reply, Stop, Rest
<1>7. ASSUME NEW c \in Clients, DeleteConnection(c) \/ InsertDraft(c) PROVE rows' = rows
  BY <1>7 DEF DeleteConnection, InsertDraft
<1>8. CASE UNCHANGED sourceVars \/ (\E h \in Handles : Authorize(h)) \/ (\E i \in Items : Arrive(i))
  BY <1>1, <1>8 DEF sourceVars, Authorize, Arrive
<1>9. CASE \E c \in Clients : Serves(c)
  BY <1>1, <1>2, <1>4, <1>7, <1>9 DEF Serves
<1>10. CASE \E c \in Clients : Starting(c) \/ Syncs(c)
  <2>1. PICK c \in Clients : Starting(c) \/ Syncs(c)
    BY <1>10
  <2>2. rows' = rows
    BY <1>5, <1>6, <2>1
  <2> QED BY <1>1, <2>2
<1> QED BY <1>3, <1>8, <1>9, <1>10, SyncSteps

\* What a step that writes no event leaves true.
LEMMA ToldStays ==
  ASSUME ToldInv, Grows, told' = told, NEW c \in Clients,
         \A d \in Clients \ {c} : call'[d] = call[d],
         \A k : WillTell(call'[c].todo, call'[c].fresh, k) => WillTell(call[c].todo, call[c].fresh, k)
  PROVE  ToldInv'
<1>1. \A d \in Clients, k \in Keys :
        WillTell(call'[d].todo, call'[d].fresh, k) => WillTell(call[d].todo, call[d].fresh, k)
  OBVIOUS
<1>2. \A k \in Keys : told[k] > 0 => k \in mirror'
  BY DEF ToldInv, Grows
<1> HIDE DEF WillTell
<1>3. ASSUME NEW k \in Keys, k[1] # "note"
      PROVE  /\ told[k] <= 1
             /\ \A d \in Clients : WillTell(call'[d].todo, call'[d].fresh, k) => told[k] = 0
             /\ \A d, e \in Clients : WillTell(call'[d].todo, call'[d].fresh, k)
                                      /\ WillTell(call'[e].todo, call'[e].fresh, k) => d = e
  BY <1>1, <1>3 DEF ToldInv
<1>4. \A d, k : WillTell(call[d].todo, call[d].fresh, k)' <=> WillTell(call'[d].todo, call'[d].fresh, k)
  BY DEF WillTell, Tells, PutBefore, Puts
<1> QED BY <1>2, <1>3, <1>4 DEF ToldInv

LEMMA ToldUpsert ==
  ASSUME SourcesTyped, SourcesInv, NEW c \in Clients, Upsert(c)
  PROVE  ToldInv'
<1>1. PICK todo \in Seq(StatementSet), f \in SUBSET Keys :
        todo = call[c].todo /\ f = call[c].fresh
  BY DEF SourcesTyped, Calls
<1>2. PICK k \in Keys : k = todo[1].key /\ todo # <<>> /\ todo[1].do = "put" /\ Head(call[c].todo).key = k
  BY <1>1, NowIs DEF Upsert, StatementSet
<1>3. PICK f2 : f2 = IF k \in mirror THEN f \ {k} ELSE f \cup {k}
  OBVIOUS
<1>4. /\ mirror' = mirror \cup {k} /\ told' = told
      /\ call' = [call EXCEPT ![c] = [call[c] EXCEPT !.todo = Tail(call[c].todo), !.fresh = f2]]
  BY <1>1, <1>2, <1>3 DEF Upsert
<1>5. call'[c].todo = Tail(todo) /\ call'[c].fresh = f2 /\ \A d \in Clients \ {c} : call'[d] = call[d]
  BY <1>1, <1>4 DEF SourcesTyped, Calls
<1>6. ASSUME NEW j, j # k, WillTell(Tail(todo), f2, j) PROVE WillTell(todo, f, j)
  <2>1. WillTell(Tail(todo), f, j)
    BY <1>3, <1>6 DEF WillTell
  <2>2. ~Puts(todo, 1, j)
    BY <1>2, <1>6 DEF Puts
  <2> QED BY <1>2, <2>1, <2>2, PopTells
<1>7. ASSUME WillTell(Tail(todo), f2, k) PROVE k \notin mirror
  BY <1>3, <1>7 DEF WillTell
<1>8. ASSUME k \notin mirror
      PROVE  told[k] = 0 /\ \A d \in Clients : ~WillTell(call[d].todo, call[d].fresh, k)
  <2>1. \A d \in Clients : call[d].fresh \subseteq mirror
    BY DEF SourcesInv, HandlerInv
  <2>2. told[k] = 0
    BY <1>8 DEF SourcesInv, ToldInv, SourcesTyped
  <2> QED BY <1>8, <2>1, <2>2 DEF WillTell
<1>9. \A j \in Keys : told[j] > 0 => j \in mirror'
  BY <1>4 DEF SourcesInv, ToldInv
<1>10. \A d \in Clients : \A j : /\ WillTell(call'[d].todo, call'[d].fresh, j)
                             /\ ~(d = c /\ j = k)
                             => WillTell(call[d].todo, call[d].fresh, j)
  BY <1>1, <1>5, <1>6
<1>11. WillTell(call'[c].todo, call'[c].fresh, k) => k \notin mirror
  BY <1>5, <1>7
<1>12. ASSUME NEW j \in Keys, j[1] # "note"
      PROVE  /\ told[j] <= 1
             /\ \A d \in Clients : WillTell(call'[d].todo, call'[d].fresh, j) => told[j] = 0
             /\ \A d, e \in Clients : WillTell(call'[d].todo, call'[d].fresh, j)
                                      /\ WillTell(call'[e].todo, call'[e].fresh, j) => d = e
  <2>1. /\ told[j] <= 1
        /\ \A d \in Clients : WillTell(call[d].todo, call[d].fresh, j) => told[j] = 0
        /\ \A d, e \in Clients : WillTell(call[d].todo, call[d].fresh, j)
                                 /\ WillTell(call[e].todo, call[e].fresh, j) => d = e
    BY <1>12 DEF SourcesInv, ToldInv
  <2>2. CASE j = k /\ k \notin mirror
    BY <1>8, <1>10, <2>1, <2>2
  <2>3. CASE ~(j = k /\ k \notin mirror)
    BY <1>10, <1>11, <2>1, <2>3
  <2> QED BY <2>2, <2>3
<1>13. \A d, j : WillTell(call[d].todo, call[d].fresh, j)' <=> WillTell(call'[d].todo, call'[d].fresh, j)
  BY DEF WillTell, Tells, PutBefore, Puts
<1> QED BY <1>4, <1>9, <1>12, <1>13 DEF ToldInv

LEMMA ToldEmit ==
  ASSUME SourcesTyped, SourcesInv, NEW c \in Clients, Emit(c)
  PROVE  ToldInv' /\ told' \in [Keys -> Nat]
<1>1. PICK todo \in Seq(StatementSet), f \in SUBSET Keys :
        todo = call[c].todo /\ f = call[c].fresh
  BY DEF SourcesTyped, Calls
<1>2. PICK k \in Keys :
        /\ k = todo[1].key /\ todo # <<>> /\ todo[1].do = "tell"
        /\ Head(call[c].todo).key = k /\ Head(call[c].todo).of = todo[1].of
  BY <1>1, NowIs DEF Emit, StatementSet
<1>3. call' = On(c) /\ mirror' = mirror
  BY DEF Emit
<1>4. call'[c].todo = Tail(todo) /\ call'[c].fresh = f /\ \A d \in Clients \ {c} : call'[d] = call[d]
  BY <1>1, <1>2, <1>3, OnOf
<1>5. WellFormed(todo) /\ 1 \in DOMAIN todo
  BY <1>1, <1>2, Popped DEF SourcesInv, HandlerInv
<1>6. k \in mirror
  BY <1>1, <1>2, <1>5 DEF SourcesInv, HandlerInv, PutBefore
<1>7. ~WillTell(Tail(todo), f, k)
  <2>1. ASSUME NEW n \in DOMAIN Tail(todo), Tells(Tail(todo), n, k) PROVE FALSE
    <3>1. n + 1 \in DOMAIN todo /\ Tells(todo, n + 1, k) /\ n \in Nat /\ n # 0
      BY <1>2, <2>1, Popped DEF Tells
    <3>2. n + 1 = 1
      BY <1>2, <1>5, <3>1 DEF WellFormed
    <3> QED BY <3>1, <3>2
  <2> QED BY <2>1 DEF WillTell
<1>8. \A j : WillTell(Tail(todo), f, j) => WillTell(todo, f, j)
  BY <1>2, PopTells DEF Puts
<1>9. told' = told \/ (told' = [told EXCEPT ![k] = told[k] + 1] /\ todo[1].of \cap f # {})
  BY <1>1, <1>2 DEF Emit
<1>10. told' \in [Keys -> Nat]
  BY <1>9 DEF SourcesTyped
<1>11. told' # told /\ k[1] # "note" => WillTell(todo, f, k)
  <2>1. ASSUME told' # told, k[1] # "note" PROVE WillTell(todo, f, k)
    <3>1. todo[1].of = {k}
      BY <1>2, <1>5, <2>1 DEF WellFormed
    <3>2. k \in f
      BY <1>9, <2>1, <3>1
    <3> QED BY <1>2, <1>5, <3>2 DEF WillTell, Tells, PutBefore
  <2> QED BY <2>1
<1>12. \A d \in Clients : \A j : WillTell(call'[d].todo, call'[d].fresh, j) => WillTell(call[d].todo, call[d].fresh, j)
  BY <1>1, <1>4, <1>8
<1>13. ASSUME NEW j \in Keys, j[1] # "note"
      PROVE  /\ told'[j] <= 1
             /\ \A d \in Clients : WillTell(call'[d].todo, call'[d].fresh, j) => told'[j] = 0
             /\ \A d, e \in Clients : WillTell(call'[d].todo, call'[d].fresh, j)
                                      /\ WillTell(call'[e].todo, call'[e].fresh, j) => d = e
  <2>1. /\ told[j] <= 1
        /\ \A d \in Clients : WillTell(call[d].todo, call[d].fresh, j) => told[j] = 0
        /\ \A d, e \in Clients : WillTell(call[d].todo, call[d].fresh, j)
                                 /\ WillTell(call[e].todo, call[e].fresh, j) => d = e
    BY <1>13 DEF SourcesInv, ToldInv
  <2>2. CASE told'[j] = told[j]
    BY <1>12, <2>1, <2>2
  <2>3. CASE told'[j] # told[j]
    <3>1. j = k /\ told' # told
      BY <1>9, <2>3 DEF SourcesTyped
    <3>2. WillTell(call[c].todo, call[c].fresh, k)
      BY <1>1, <1>11, <1>13, <3>1
    <3>3. told[k] = 0 /\ told'[k] = 1
      BY <1>9, <2>1, <3>1, <3>2 DEF SourcesTyped
    <3>4. \A d \in Clients : ~WillTell(call'[d].todo, call'[d].fresh, k)
      BY <1>4, <1>7, <1>12, <2>1, <3>1, <3>2
    <3> QED BY <3>1, <3>3, <3>4
  <2> QED BY <2>2, <2>3
<1>14. \A j \in Keys : told'[j] > 0 => j \in mirror'
  BY <1>3, <1>6, <1>9 DEF SourcesInv, ToldInv, SourcesTyped
<1>15. \A d, j : WillTell(call[d].todo, call[d].fresh, j)' <=> WillTell(call'[d].todo, call'[d].fresh, j)
  BY DEF WillTell, Tells, PutBefore, Puts
<1> QED BY <1>10, <1>13, <1>14, <1>15 DEF ToldInv
LEMMA SourcesTypes ==
  ASSUME SourcesTyped, SourcesInv, [SourcesNext]_sourceVars
  PROVE  SourcesTyped'
<1>1. rows' \in Seq([handle : Handles \union {NoHandle}, status : {"pending", "active", "revoked"}])
  BY RowsType DEF RowSet
<1>2. \A c \in Clients : HandlerInv(call[c])
  BY DEF SourcesInv
<1>3. call' \in [Clients -> Calls]
  <2>1. ASSUME NEW c \in Clients, Serves(c) PROVE call' \in [Clients -> Calls]
    BY <1>2, <2>1, ServesInv, OnOf
  <2>2. ASSUME NEW c \in Clients, Emit(c) \/ InsertEdge(c) PROVE call' \in [Clients -> Calls]
    BY <1>2, <2>2, EmitInv, EdgeInv, OnOf
  <2>3. ASSUME NEW c \in Clients, ProxyCall(c) \/ NextItem(c) \/ SeekEdge(c) PROVE call' \in [Clients -> Calls]
    BY <1>2, <2>3, CallInv, NextInv, SeekInv
  <2>4. ASSUME NEW c \in Clients, Upsert(c) \/ Reply(c) \/ Stop(c) PROVE call' \in [Clients -> Calls]
    BY <1>2, <2>4, UpsertInv, EndsInv
  <2>5. CASE FromOutside
    BY <2>5 DEF FromOutside, SourcesTyped
  <2> QED BY <2>1, <2>2, <2>3, <2>4, <2>5, StartingInv, SyncMoves DEF Syncs
<1>4. /\ remote' \subseteq Items /\ mirror' \subseteq Keys
      /\ told' \in [Keys -> Nat] /\ edges' \in [Items -> Nat]
  <2> USE DEF SourcesTyped
  <2>1. ASSUME NEW c \in Clients, Starting(c) \/ Serves(c)
        PROVE  remote' = remote /\ mirror' = mirror /\ told' = told /\ edges' = edges
    BY <2>1 DEF Starting, Rest, Serves, InsertRow, DeleteConnection, MarkRevoked, InsertDraft
  <2>2. ASSUME NEW c \in Clients, ProxyCall(c) \/ NextItem(c) \/ SeekEdge(c) \/ Reply(c) \/ Stop(c)
        PROVE  remote' = remote /\ mirror' = mirror /\ told' = told /\ edges' = edges
    BY <2>2 DEF ProxyCall, NextItem, SeekEdge, Reply, Stop, Rest
  <2>3. ASSUME NEW c \in Clients, Upsert(c)
        PROVE  remote' = remote /\ mirror' \subseteq Keys /\ told' = told /\ edges' = edges
    BY <1>2, <2>3, UpsertInv DEF Upsert
  <2>4. ASSUME NEW c \in Clients, Emit(c)
        PROVE  remote' = remote /\ mirror' = mirror /\ told' \in [Keys -> Nat] /\ edges' = edges
    BY <2>4, ToldEmit DEF Emit
  <2>5. ASSUME NEW c \in Clients, InsertEdge(c)
        PROVE  remote' = remote /\ mirror' = mirror /\ told' = told /\ edges' \in [Items -> Nat]
    BY <1>2, <2>5, EdgeInv DEF InsertEdge
  <2>6. ASSUME \/ UNCHANGED sourceVars \/ PollStatus
               \/ \E h \in Handles : Authorize(h)
               \/ \E i \in Items : Arrive(i)
        PROVE  remote' \subseteq Items /\ mirror' = mirror /\ told' = told /\ edges' = edges
    BY <2>6 DEF sourceVars, PollStatus, Authorize, Arrive
  <2> QED BY <2>1, <2>2, <2>3, <2>4, <2>5, <2>6, SyncSteps DEF Syncs
<1> QED BY <1>1, <1>3, <1>4 DEF SourcesTyped

LEMMA SourcesStep ==
  ASSUME SourcesTyped, SourcesInv, [SourcesNext]_sourceVars
  PROVE  SourcesInv'
<1>1. \A c \in Clients : HandlerInv(call[c])
  BY DEF SourcesInv
<1>2. ASSUME NEW c \in Clients, Grows, HandlerInv(call[c])', \A d \in Clients \ {c} : call'[d] = call[d]
      PROVE  \A d \in Clients : HandlerInv(call[d])'
  <2>1. ASSUME NEW d \in Clients, d # c PROVE HandlerInv(call[d])'
    BY <1>1, <1>2, <2>1, SyncRests
  <2> QED BY <1>2, <2>1
<1>3. ASSUME NEW c \in Clients, Grows, told' = told, HandlerInv(call[c])',
             \A d \in Clients \ {c} : call'[d] = call[d],
             \A k : WillTell(call'[c].todo, call'[c].fresh, k) => WillTell(call[c].todo, call[c].fresh, k)
      PROVE  SourcesInv'
  <2>1. ToldInv'
    BY <1>3, ToldStays DEF SourcesInv
  <2> QED BY <1>2, <1>3, <2>1 DEF SourcesInv
<1>4. ASSUME NEW c \in Clients, Grows, told' = told, HandlerInv(call[c])',
             call' = On(c), call[c].todo # <<>>, call[c].todo[1].do # "put"
      PROVE  SourcesInv'
  <2>1. \A d \in Clients \ {c} : call'[d] = call[d]
    BY <1>4, OnOf
  <2>2. call'[c].todo = Tail(call[c].todo) /\ call'[c].fresh = call[c].fresh /\ call[c].todo \in Seq(StatementSet)
    BY <1>4, OnOf DEF SourcesTyped, Calls
  <2>3. \A k : WillTell(Tail(call[c].todo), call[c].fresh, k) => WillTell(call[c].todo, call[c].fresh, k)
    BY <1>4, <2>2, PopTells DEF Puts
  <2> QED BY <1>3, <1>4, <2>1, <2>2, <2>3
<1>5. ASSUME NEW c \in Clients, Starting(c) PROVE SourcesInv'
  <2>1. \A k : ~WillTell(call'[c].todo, call'[c].fresh, k)
    BY <1>5, StartingInv DEF WillTell
  <2> QED BY <1>3, <1>5, <2>1, StartingInv
<1>6. ASSUME NEW c \in Clients, Serves(c) \/ InsertEdge(c) PROVE SourcesInv'
  BY <1>1, <1>4, <1>6, ServesInv, EdgeInv
<1>7. ASSUME NEW c \in Clients, Reply(c) \/ Stop(c) PROVE SourcesInv'
  <2>1. \A k : ~WillTell(call'[c].todo, call'[c].fresh, k)
    BY <1>1, <1>7, EndsInv DEF WillTell
  <2> QED BY <1>1, <1>3, <1>7, <2>1, EndsInv
<1>8. ASSUME NEW c \in Clients, ProxyCall(c) \/ SeekEdge(c) PROVE SourcesInv'
  <2>1. CASE ProxyCall(c)
    BY <1>1, <1>3, <2>1, CallInv
  <2>2. CASE SeekEdge(c)
    BY <1>1, <1>3, <2>2, SeekInv
  <2> QED BY <1>8, <2>1, <2>2
<1>9. ASSUME NEW c \in Clients, NextItem(c) PROVE SourcesInv'
  BY <1>1, <1>3, <1>9, NextInv
<1>10. ASSUME NEW c \in Clients, Upsert(c) PROVE SourcesInv'
  BY <1>1, <1>2, <1>10, UpsertInv, ToldUpsert DEF SourcesInv
<1>11. ASSUME NEW c \in Clients, Emit(c) PROVE SourcesInv'
  <2>1. Grows /\ HandlerInv(call[c])' /\ \A d \in Clients \ {c} : call'[d] = call[d]
    BY <1>1, <1>11, EmitInv, OnOf
  <2> QED BY <1>2, <1>11, <2>1, ToldEmit DEF SourcesInv
<1>12. CASE FromOutside
  <2>1. \A d \in Clients : HandlerInv(call[d])'
    BY <1>1, <1>12, SyncRests DEF FromOutside
  <2>2. ToldInv'
    BY <1>12 DEF FromOutside, SourcesInv, ToldInv, WillTell, Tells, PutBefore, Puts
  <2> QED BY <2>1, <2>2 DEF SourcesInv
<1> QED BY <1>5, <1>6, <1>7, <1>8, <1>9, <1>10, <1>11, <1>12, SyncMoves DEF Syncs

SourcesSpec == SourcesInit /\ [][SourcesNext]_sourceVars

\* The mirror of a provider, with syncs that overlap, stop half way and are repeated.
THEOREM MirrorStaysExact == SourcesSpec => []MirrorIsExact
<1>1. SourcesInit => SourcesTyped /\ SourcesInv
  <2>1. SUFFICES ASSUME SourcesInit PROVE SourcesTyped /\ SourcesInv
    OBVIOUS
  <2>2. /\ Idle \in Calls /\ Idle.todo = <<>> /\ Idle.fresh = {} /\ Idle.seen = {} /\ Idle.op = "idle"
    BY DEF Idle, Calls
  <2>3. mirror \subseteq Keys
    <3>1. \A i \in Items : <<"email", i>> \in Keys
      BY DEF Keys, EntityKinds
    <3>2. mirror \subseteq {<<"email", i>> : i \in Items}
      BY <2>1 DEF SourcesInit
    <3> QED BY <3>1, <3>2
  <2>4. SourcesTyped
    <3>1. remote \subseteq Items /\ told \in [Keys -> Nat] /\ edges \in [Items -> Nat]
      BY <2>1 DEF SourcesInit
    <3>2. rows \in Seq([handle : Handles \union {NoHandle}, status : {"pending", "active", "revoked"}])
      BY <2>1 DEF SourcesInit
    <3>3. call \in [Clients -> Calls]
      BY <2>1, <2>2 DEF SourcesInit
    <3> QED BY <2>3, <3>1, <3>2, <3>3 DEF SourcesTyped
  <2>7. \A c \in Clients : /\ call[c].todo = <<>> /\ call[c].fresh = {} /\ call[c].seen = {}
                            /\ call[c].op = "idle"
    BY <2>1, <2>2 DEF SourcesInit
  <2>5. \A c \in Clients : HandlerInv(call[c])
    BY <2>7 DEF HandlerInv, WellFormed
  <2>6. ToldInv
    <3>1. \A c \in Clients : \A k : ~WillTell(call[c].todo, call[c].fresh, k)
      BY <2>7 DEF WillTell
    <3>2. \A k \in Keys : told[k] = 0
      BY <2>1 DEF SourcesInit
    <3> QED BY <3>1, <3>2 DEF ToldInv
  <2> QED BY <2>4, <2>5, <2>6 DEF SourcesInv
<1>2. SourcesTyped /\ SourcesInv => MirrorIsExact
  <2>1. SUFFICES ASSUME SourcesTyped, SourcesInv PROVE MirrorIsExact
    OBVIOUS
  <2>2. ASSUME NEW c \in Clients, call[c].op = "done", NEW i \in call[c].seen
        PROVE  Mirrored(i) \subseteq mirror /\ (provider = "notion" /\ i % 2 = 1 => edges[i] > 0)
    <3>1. HandlerInv(call[c]) /\ call[c].todo = <<>> /\ call[c].left = {}
      BY <2>1, <2>2 DEF SourcesInv, HandlerInv
    <3>2. Whole(call[c], i)
      BY <2>2, <3>1 DEF HandlerInv, HistoryDue
    <3> QED BY <3>1, <3>2 DEF Whole, WillMirror, WillLink
  <2> QED BY <2>1, <2>2 DEF SourcesInv, ToldInv, MirrorIsExact
<1>3. SourcesTyped /\ SourcesInv /\ [SourcesNext]_sourceVars => (SourcesTyped /\ SourcesInv)'
  BY SourcesTypes, SourcesStep
<1> QED BY <1>1, <1>2, <1>3, PTL DEF SourcesSpec
=============================================================================
