SPECIFICATION FairBriefSpec
CONSTANTS
  mac = mac  node = node
  Null = Null
  Workers = {mac, node}
  Drainers = {mac, node}
  TzOf <- OneZone
  DaySecs = 2
  HourSecs = 1
  BriefHour = 1
  MaxAttempts = 2
  StuckTTL = 0
  Retention = 9
  Jobs <- MCJobs
  MaxJobs = 5
  MaxTime = 3
  MaxFaults = 1
  FaultHorizon = 2
CHECK_DEADLOCK FALSE
INVARIANTS
  BriefsPerDay
PROPERTIES
  BriefsCatchUp
