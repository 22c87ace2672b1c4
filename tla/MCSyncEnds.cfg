SPECIFICATION FairSpec
CONSTANTS
  Hashes = {h1, h2}
  Storages = {s1}
  Slots = 1
  MaxTries = 2
  HeavyInterval = 1
  NoHeavyCheck = FALSE
  SkipFirstSync = {TRUE}
  NoGC = FALSE
  OnlyGcWhenStart = FALSE
  MayFail = TRUE
CHECK_DEADLOCK FALSE
PROPERTIES
  SyncEnds
