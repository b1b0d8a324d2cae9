SPECIFICATION FairSpec
CONSTANTS
  x = x
  y = y
  NoTx = NoTx
  Task = {x, y}
  Tx <- MCTx
  Inputs <- MCInputs
  Pow <- MCPow
  TxTarget = 100
  Blocks <- MCBlocks
  RingSize = 1
  PoolLimit = 2
  Lifetime = 1
  MaxChain = 1
INVARIANTS
  PoolBounded
  ClaimsBounded
PROPERTIES
  EntriesLeave
