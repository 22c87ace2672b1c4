SPECIFICATION Spec
CONSTANTS
  Hashes = {h1, h2}
  Storages = {s1, s2}
  Slots = 2
  MaxTries = 1
  HeavyInterval = 1
  NoHeavyCheck = FALSE
  SkipFirstSync = {TRUE, FALSE}
  NoGC = TRUE
  OnlyGcWhenStart = FALSE
  MayFail = TRUE
CHECK_DEADLOCK FALSE
SYMMETRY Symmetry
INVARIANTS
  SyncedIsStored
  TempsRemoved
  ExistingIsIndexed
