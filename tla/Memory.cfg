SPECIFICATION MCSpec
CONSTANTS
  MemoryHandlers = {h1, h2}
  SETTLE_SECS = 1
  EPISODE_GAP_SECS = 0
  DAY_ROLLUP_MIN_EPISODES = 2
  TIER_MIN_AGE_SECS = 0
  MaxDomain = 2
  MaxRequests = 2
  MaxCrashes = 1
  MaxTime = 2
  NoBlob = NoBlob
  Media = {"text", "audio", "image", "pdf", "docx", "video"}
  Versions = {b1, b2}
  IngestJobs = {j1}
  Drainers = {h1, h2}
  Pieces = {1, 2}
  MaxIngests = 2
  MaxCommits = 2
  MaxDeaths = 2
  Askers = {a1}
  Memories = {1, 2}
  Queries = {{}, {1}}
  Shelves = {s1, s2}
  Local = s1
  TOP_K = 2
  SEEDS = 1
  ABSTENTION = 30000000
  MaxAsks = 1
  MaxChanges = 2
  MaxHours = 2
  Cycles = {h1, h2}
  Vertices = {1, 2, 3, 4}
  MAX_ITERATIONS = 10
  MIN_COMMUNITY_SIZE = 2
  ASK_TOP_K = 1
  MaxRuns = 2
  MaxEdits = 2
  Lengths = {2, 7}
  TotalTokens = 10
  RulesShare = 15
  FactsShare = 35
  RecentShare = 50
  RECENT_K = 4
  MaxTexts = 3
SYMMETRY Alike
CHECK_DEADLOCK FALSE
INVARIANTS
  ReadModelIsFold
  ConsolidatedOnce
  DoneIsSearchable
  RecallHolds
  MapIsWhole
  ContextFits
