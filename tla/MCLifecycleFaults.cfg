SPECIFICATION Spec
CONSTANTS
  MaxReconnectCount = 2
  MaxEpoch = 2
  MaxSocket = 2
  MaxFaults = 1
  Faults <- AllFaults
  NamespaceCallback <- Either
  CloseCallback <- Either
  Watchers = {w1}
INVARIANTS
  EnabledKeepsAlive
  DisableIsSafe
  NoLostWakeup
PROPERTIES
  ImplementsPresence
CHECK_DEADLOCK FALSE
