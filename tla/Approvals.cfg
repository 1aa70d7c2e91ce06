SPECIFICATION FairSpec
CONSTANTS
  gate = gate
  draft = draft
  storage = storage
  Entities = {gate, draft}
  TypeOf <- MCTypeOf
  TypedConfirm = {gate}
  Apis = {a1}
  Bots = {b1}
  Drainers = {d1, d2, d3}
  Trusted = {d1, d2}
  MaxJobs = 2
  MaxAttempts = 2
  None = None
  MaxAborts = 1
  MaxFaults = 1
CHECK_DEADLOCK FALSE
INVARIANTS
  OneDecision
  OnlyApprovedRuns
  GateRunsAccounted
PROPERTIES
  ApprovedSettles
