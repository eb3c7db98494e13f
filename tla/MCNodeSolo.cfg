SPECIFICATION FairSpec
CONSTANTS
  Peers = {}
  Addresses = {1, 2, 3}
  Keyed = {2}
  StakeOf <- MCStakeOf
  min_stake = 2
  InitialValidators = {1, 2, 3}
  Weight <- MCWeight
  Draw <- MCDraw
  FutureSlots = 1
  PeerTxs = {}
  PeerSigned = {}
  Honest = {}
  MaxSlot = 5
  MaxHeight = 3
  MaxCrashes = 2
  MaxRegistrations = 0
INVARIANTS
  MemoryFollowsDisk
  RestartRecovers
  RewardsBacked
PROPERTIES
  StoredForever
  StoredIsServed
CHECK_DEADLOCK FALSE
