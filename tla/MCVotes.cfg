SPECIFICATION Spec
CONSTANTS
  Validators <- MCValidators
  Blocks = {b1, b2}
  Keys = {"ka", "kb"}
  NoKey = "none"
  KeyOf <- MCKeyOf
  InitialStake <- MCStake
  Removable = {"bob"}
  Threads = {t1, t2}
  Modulus = 64
  Penalty = 100
  MaxEvents = 2
INVARIANTS
  CreditExact
  AccountableSafety
PROPERTIES
  EarnedFinality
  ImplementsFinality
SYMMETRY MCSymmetry
