SPECIFICATION ComponentsSpec
CONSTANTS
  Allocation = {}
  Blocks <- MCLedgerBlocks
  Txs <- MCLedgerTxs
  MaxAmount = 8
  MaxApplied = 3
  Holders = {"a", "b"}
  NoAddress = ""
  TokenAmounts = {1, 3}
  InitialSupply = 6
  TokenModulus = 8
  MaxCalls = 3
  Voters = {"a", "b", "c"}
  GovStakes = {9, 17, 120}
  GovTotals = {0, 66}
  VotingPeriod = 1
  GovMantissa = 4
  GovModulus = 128
  GovExponent = 10
  MaxProposals = 1
  MaxGovBlock = 2
  Keys = {"k1", "k2", "x"}
  SignerLists <- MCSignerLists
  Thresholds = {0, 1, 2}
  BaseTxs = {"t", "u"}
  HashSignTxs = {"u"}
  MaxEntries = 2
  TxNames = {"a", "b", "c", "d", "e"}
  LcBodies <- MCLcBodies
  Publishers = {"node", "tree"}
  MaxPublished = 2
  Topics = {"blocks", "txs"}
  MaxSubs = 2
  MaxEventsSent = 3
  Items <- MCItems
  Units = {0, 1, 2, 3}
  MAX_SERIALIZED_STRING = 20
  MAX_SERIALIZED_BYTES = 3
  MAX_TRANSACTION_INPUTS = 2
  MAX_TRANSACTION_OUTPUTS = 2
  MAX_BLOCK_TRANSACTIONS = 2
  Signers = {"a", "b"}
  NoKey = "none"
  NoSignature = NoSignature
  Contents = {"c", "d"}
  Sensible = {"c"}
  MaxSteps = 4
  Conns = {"c1", "c2", "c3"}
  Backlog = 2
  Descriptors = 2
INVARIANTS
  Conservation
  TablesAreReplay
  HistoryExact
  BooksAgree
  DecisionJustified
  ThresholdMet
  InclusionExact
  InOrderOnce
  CodecExact
  SignedVerifies
PROPERTIES
  PoolDrainsIntoBlocks
  OnlyWithConsent
  RequestsAnswered
CHECK_DEADLOCK FALSE
