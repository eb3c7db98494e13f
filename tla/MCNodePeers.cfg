SPECIFICATION Spec
CONSTANTS
  Peers = {p1}
  Addresses = {1, 2, 3}
  Keyed = {2}
  StakeOf <- MCStakeOf
  min_stake = 2
  InitialValidators = {1, 2}
  Weight <- MCWeight
  Draw <- MCDraw
  FutureSlots = 1
  PeerTxs = {"ok", "malformed", "unspendable"}
  PeerSigned = {TRUE, FALSE}
  Honest = {}
  MaxSlot = 1
  MaxHeight = 2
  MaxCrashes = 1
  MaxRegistrations = 1
INVARIANTS
  TxnExclusive
  DurableBeforeVisible
  OnlySignedBlocks
CHECK_DEADLOCK FALSE
