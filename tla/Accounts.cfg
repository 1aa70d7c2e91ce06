SPECIFICATION MCSpec
CONSTANTS
  Null = Null
  Handlers = {h1, h2}
  Users = {u1, u2}
  Legacy = {u1}
  MaxRequests = 4
  MaxCrashes = 1
  NoHandle = NoHandle
  Clients = {h1, h2}
  Handles = {n1, n2}
  Providers = {"gmail", "slack", "notion", "calendar", "drive", "travel", "whatsapp", "kite", "browser"}
  Items = {1, 2}
  MaxRows = 2
  MaxSyncs = 4
  MaxFaults = 1
SYMMETRY Alike
CHECK_DEADLOCK FALSE
INVARIANTS
  SpentOnce
  AccessHolds
  MirrorIsExact
