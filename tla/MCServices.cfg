SPECIFICATION MCSpec
CONSTANTS
  Requests = {r1, r2, r3}
  Clients = {c1}
  Limits <- MCLimits
  TicksPerHour = 2
  MinTags = 16
  HourTags = 8
  MaxCleans = 2
  MaxCount = 4
  HijackRequests = {q1, q2}
  Paths = {p1}
  RequireAuth = FALSE
  EnableLocalCache = TRUE
  Sizes = {1}
  Ages = {0, 1}
  MaxWatch = 2
  MaxRestarts = 1
  MaxTimers = 2
  Callers = {k1, k2}
  Refreshers = {g1, g2}
  Lifetimes = {0, 3}
  Soon = 2
  MaxClock = 8
  MaxTokens = 3
  Streams = {s1, s2}
  Dialled = {s1, s2}
  MaxConn = 2
  Copies = {"copy", "pipe"}
  ReadRate = 4
  WriteRate = 4
  MinReadRate = 1
  MinWriteRate = 1
  ReadSizes = {1, 4}
  WriteSizes = {2, 5}
  CopySizes = {3}
  Second = 2
  MaxTime = 4
  Deadlines = {3}
SYMMETRY Symmetry
INVARIANTS
  MinuteLimit
  MinuteExact
  HourExact
  NothingUnsaved
  RateKept
PROPERTIES
  TokensLast
