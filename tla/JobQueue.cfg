\* Two drainers, two jobs, two attempts, a TTL of one second; crashes and lost
\* status writes up to the horizon, which leaves the reaper more than a full TTL
\* of clock after the last of them.
SPECIFICATION FairSpec
CONSTANTS
  d1 = d1  d2 = d2  j1 = j1  j2 = j2  w1 = w1  w2 = w2
  Null = Null
  Jobs = {j1, j2}
  Drainers = {d1, d2}
  Workers = {w1, w2}
  WorkerOf <- OwnNames
  Priorities <- OnePriority
  MaxAttempts = 2
  StuckTTL = 1
  Retention = 1
  MaxTime = 4
  FaultHorizon = 2
INVARIANTS
  OverlapOnlyAfterTTL
PROPERTIES
  LeaseSpec
  EveryJobEnds
