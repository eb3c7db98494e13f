SPECIFICATION Spec
CONSTANTS
  Peers = {p1}
  Addresses = {1, 2}
  Keyed = {2}
  StakeOf <- MCStakeOf
  min_stake = 2
  InitialValidators = {1, 2}
  Weight <- MCWeight
  Draw <- MCDraw
  FutureSlots = 1
  PeerTxs = {"ok"}
  PeerSigned = {TRUE}
  Honest = {2}
  MaxSlot = 3
  MaxHeight = 2
  MaxCrashes = 0
  MaxRegistrations = 0
PROPERTIES
  OnlyEquivocatorsSlashed
CHECK_DEADLOCK FALSE
