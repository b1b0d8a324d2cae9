SPECIFICATION Spec
CONSTANTS
  InitialReward = 100
  HalvingInterval = 2
  TxTarget = 1
  MaxTarget = 255
  Scip2 = 120
  Tx <- MCTx
  TxData <- MCTxData
  Key = {"A", "B", "D"}
  NoSignature = NoSignature
  DevWallet = "D"
  MaxTransactionIO = 3
  MaxTransactionsPerBlock = 2
  TxLists <- MCTxLists
  Timestamps = {100, 150, 460}
  Pows = {0, 250}
  FreshRewards = TRUE
  MaxHeight = 3
INVARIANTS
  TypeOK
  ChainIndexed
  UtxosExact
  AlwaysPoppable
  SupplyConserved
  DifficultyOfChain
PROPERTIES
  RollbackExact
  LedgerKept
