SPECIFICATION Spec
CONSTANTS
  Nodes = {boot, n2}
  Foreign = {x}
  Bootstrap = boot
  InitialChain <- MCOneBehind
  FirstSlot = 2
  Sigpipe = TRUE
  MIN_PEERS = 1
  MAX_PEERS = 2
  MaxBatch = 3
  Bad = 99
  MaxSessions = 2
  MaxSlot = 2
  MaxInbox = 1
  MaxForeign = 2
INVARIANTS
  TypeOK
PROPERTIES
  ForksLast
  HandshakesEnd
CHECK_DEADLOCK FALSE
