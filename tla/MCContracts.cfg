SPECIFICATION Spec
CONSTANTS
  ByteBase = 32
  WordBytes = 3
  LowBytes = 2
  OpcodeOf <- MCOpcodeOf
  GAS_PUSH = 1
  GAS_ADD = 1
  GAS_MUL = 2
  GAS_SLOAD = 2
  GAS_SSTORE = 3
  gas_limit = 12
  MemoryBytes = 35
  MaxStack = 12
  Callers <- MCCallers
  Clock = {0, 33}
  Programs <- MCPrograms
  Deployable <- MCListed
  Sources <- MCSources
INVARIANTS
  GasBounded
  CompiledRuns
PROPERTIES
  ArithmeticExact
  ChargedRunsHalt
CHECK_DEADLOCK FALSE
