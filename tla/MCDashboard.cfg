SPECIFICATION MCSpec
CONSTANTS
  Tokens = {t1, t2}
  Paths = {p1}
  Hashes = {h1, h2}
  Clients = {c1}
  Addrs = {a1}
  Hooks = {w1}
  Requests = {r1, r2}
  Auths = {"x"}
  MaxRequests = 3
  MaxRestarts = 1
  MaxUpdates = 1
  MaxFailures = 1
  Schedules <- MCSchedules
  Start <- MCStart
  Times <- MCTimes
SYMMETRY MCSymmetry
PROPERTIES
  ImplementsRecordMap
  LogoutIsFinal
  ReportSpacing
  ScopesAreTheClients
CHECK_DEADLOCK FALSE
