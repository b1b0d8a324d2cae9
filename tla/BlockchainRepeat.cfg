SPECIFICATION Spec
CONSTANTS
  InitialReward = 100
  HalvingInterval = 2
  TxTarget = 1
  MaxTarget = 255
  Scip2 = 120
  Tx <- MCTx
  TxData <- MCTxData
  Key = {"A", "B", "D"}
  NoSignature = NoSignature
  DevWallet = "D"
  MaxTransactionIO = 3
  MaxTransactionsPerBlock = 2
  TxLists <- RepeatLists
  Timestamps = {100, 150}
  Pows = {0}
  FreshRewards = FALSE
  MaxHeight = 4
INVARIANTS
  NeverOverminted
