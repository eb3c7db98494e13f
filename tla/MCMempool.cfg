SPECIFICATION Spec
CONSTANTS
  Txs <- MCTxs
  Outputs <- MCOutputs
  Limits <- MCLimits
  max_capacity = 3
INVARIANTS
  TypeOK
  PendingExact
  NoConflict
  WithinCapacity
  BestPayingFirst
  MedianSplits
PROPERTIES
  EvictionPays
  ImplementsClaims
