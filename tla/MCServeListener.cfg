SPECIFICATION FairSpec
CONSTANTS
  Conns = {c1, c2, c3}
  MaxConn = 2
  MaxErrors = 1
INVARIANTS
  PermitsConserved
  NobodyHeldUp
PROPERTIES
  EachIsAnswered
CHECK_DEADLOCK FALSE
