\* Two drainers on one cursor row, batches of two, one aborted scan.
SPECIFICATION FairSpec
CONSTANTS
  Writers = {api, worker}
  Scanners = {mac, node}
  MaxId = 3
  BatchLimit = 2
  MaxAborts = 1
INVARIANTS
  PassedImpliesFired
PROPERTIES
  MatchEventuallyFires
