SPECIFICATION Spec
CONSTANTS
  Hashes = {h1, h2}
  Storages = {s1, s2}
  Slots = 1
  MaxTries = 1
  HeavyInterval = 2
  NoHeavyCheck = FALSE
  SkipFirstSync = {FALSE}
  NoGC = TRUE
  OnlyGcWhenStart = FALSE
  MayFail = FALSE
CHECK_DEADLOCK FALSE
SYMMETRY Symmetry
INVARIANTS
  AllSynchronized
