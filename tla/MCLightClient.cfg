SPECIFICATION LcSpec
CONSTANTS
  TxNames = {"a", "b", "c", "d", "e"}
  LcBodies <- MCLcBodies
  Publishers = {"node"}
  MaxPublished = 2
INVARIANTS
  PaymentsVerifiable
CHECK_DEADLOCK FALSE
