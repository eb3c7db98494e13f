SPECIFICATION Spec
CONSTANTS
  Nodes = {boot, n2}
  Foreign <- MCNone
  Bootstrap = boot
  InitialChain <- MCOneBehind
  FirstSlot = 2
  Sigpipe = FALSE
  MIN_PEERS = 2
  MAX_PEERS = 4
  MaxBatch = 4
  Bad = 99
  MaxSessions = 3
  MaxSlot = 1
  MaxInbox = 1
  MaxForeign = 0
PROPERTIES
  CatchesUp
CHECK_DEADLOCK FALSE
