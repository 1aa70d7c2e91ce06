SPECIFICATION MCSpec
CONSTANTS
  doc = doc  task = task
  Null = Null
  Handlers = {h1, h2}
  Targets <- TwoTargets
  Props = {p1}
  MaxRequests = 4
  MaxCrashes = 1
  MaxTime = 1
  Servers = {s1, s2}
  Writers = {w1, w2}
  Rows = {1, 2}
  MaxWrites = 2
  MaxKills = 2
  MaxSlips = 1
SYMMETRY Alike
CHECK_DEADLOCK FALSE
INVARIANTS
  MergesAreWhole
  DecisionHolds
  RowFollowsLog
  ServedIsWhole
