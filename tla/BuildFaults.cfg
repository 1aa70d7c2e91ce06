SPECIFICATION FairBuildSpec
CONSTANTS
  r = r
  s = s
  d = d
  Nodes = {r, s, d}
  Plan <- ChainPlan
  Deps <- ChainDeps
  Gated = {r}
  Scaffolded = {s}
  Builders = {b1, b2}
  None = None
  MaxAttempts = 2
  MaxGates = 1
  MaxDeaths = 1
  MaxLost = 1
CHECK_DEADLOCK FALSE
INVARIANTS
  GatedNeedsApproval
  HonestRow
PROPERTIES
  WalksEnd
