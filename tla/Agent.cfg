SPECIFICATION MCSpec
CONSTANTS
  ask = ask  do = do  chain = chain  read = read  write = write  draft = draft  shut = shut
  Turns = {t1}
  Prompts = {ask, do, chain}
  Multi = {chain}
  Actiony = {do}
  Tools = {read, write, draft, shut}
  Writes = {write}
  Gated = {draft}
  Forbidden = {shut}
  Substitutable = {read}
  Lanes = {l1, l2}
  MAX_STEPS = 2
  RECOVERY_BUDGET = 2
  QUERY_BREAKER_THRESHOLD = 2
  DailyBudget = 1
  ApiKey = TRUE
  None = None
  Callers = {c1, c2}
  MaxConfigs = 2
  MaxCalls = 3
  MaxSecond = 1
CHECK_DEADLOCK FALSE
INVARIANTS
  ManualWasPromoted
  RecoveryBounded

PROPERTIES
  TurnsEnd
