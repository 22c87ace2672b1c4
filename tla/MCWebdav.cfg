SPECIFICATION MCSpec
CONSTANTS
  Requests = {r1, r2}
  Checkers = {k1, k2}
  Hashes = {h1, h2}
  Dirs = {h1, h2}
  DirOf <- MCDirOf
  Walks = {"gc", "check"}
  Unsteady = {"gc"}
  MaxConn = 2
  MaxIdle = 1
  CacheLinks = TRUE
  Interval = 1
  MaxTime = 5
SYMMETRY MCSymmetry
INVARIANTS
  SlotsOwned
  WalkIsComplete
  BusyIsChecked
PROPERTIES
  ChecksSpaced
CHECK_DEADLOCK FALSE
