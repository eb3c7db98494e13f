SPECIFICATION Spec
CONSTANTS
  Peers = {p1}
  Addresses = {1, 2}
  Keyed = {2}
  StakeOf <- MCStakeOf
  min_stake = 2
  InitialValidators = {1, 2}
  Weight <- MCWeight
  Draw <- MCDraw
  FutureSlots = 1
  PeerTxs = {"ok"}
  PeerSigned = {FALSE}
  Honest = {}
  MaxSlot = 4
  MaxHeight = 2
  MaxCrashes = 1
  MaxRegistrations = 0
INVARIANTS
  RestartRecovers
CHECK_DEADLOCK FALSE
