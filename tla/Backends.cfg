SPECIFICATION Spec
CONSTANTS
  s1 = s1
  s2 = s2
  Stores = {s1, s2}
  Local = Local
  Askers = {h1, h2}
  Objects = {1, 2}
  MaxFiles = 4
  MaxAsks = 2
  MaxBreaks = 1
SYMMETRY Symmetry
CHECK_DEADLOCK FALSE
INVARIANTS
  StoredIsReadable
  ReadsFind
