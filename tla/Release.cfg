SPECIFICATION MCSpec
CONSTANTS
  Null = Null
  Subs = {phone}
  MaxId = 3
  Stages <- MCStages
  MaxAttempts = 2
  MaxCacheFaults = 1
  Scanners = {mac, node}
  BatchLimit = 2
  MaxSubEvents = 2
  MaxAborts = 1
  Machines = {m1, m2}
  Items = {1, 2}
  Fleets <- MCFleets
  Loads <- MCLoads
  NoMachine = NoMachine
  Unset = Unset
  MaxGrants = 2
  MaxDeaths = 1
  MaxSlips = 1
SYMMETRY Twins
CHECK_DEADLOCK FALSE
INVARIANTS
  WaitingIsAnnounced
  PassedMeansTried
  DoneIsEarned
  StraysAreRivals
