SPECIFICATION Spec
CONSTANTS
  b1 = b1  b2 = b2  c = c  d = d  f1 = f1
  Null = Null
  Tasks = {h1, h2}
  Files = {f1}
  Blobs = {b1, b2}
  First <- AtFirst
  ChunksOf <- TwoVersions
  Backends = {r1, r2}
  MaxTasks = 3
  MaxFaults = 1
SYMMETRY Alike
CHECK_DEADLOCK FALSE
INVARIANTS
  LiveObjectsKept
  PrimaryHoldsLive
  OnePrimary
  VersionsChain
