SPECIFICATION FairSpec
CONSTANTS
  MaxReconnectCount = 2
  MaxEpoch = 2
  MaxSocket = 2
  MaxFaults = 1
  Faults <- NoDrops
  NamespaceCallback <- Either
  CloseCallback <- Never
  Watchers = {}
INVARIANTS DisabledIsSignalled SingleKeepalive
PROPERTIES ShutdownCompletes ComesBackOrExits
CHECK_DEADLOCK FALSE
