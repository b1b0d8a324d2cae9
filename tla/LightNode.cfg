SPECIFICATION FairSpec
CONSTANTS
  g = g
  b1 = b1
  b2 = b2
  alice = alice
  bob = bob
  other = other
  r1 = r1
  r2 = r2
  s1 = s1
  App = App
  NoTask = NoTask
  NoBlock = NoBlock
  ZeroHash = ZeroHash
  Peer = {r1, r2}
  Syncer = {s1}
  Addresses = {alice, bob}
  Blocks <- MCBlocks
  Previous <- MCPrevious
  TxsOf <- MCTxsOf
  Chains <- MCChains
  RestoreHeights = {0, 2}
  Rollback = 2
  ChunkSize = 2
  MaxInputs = 3
  UsizeMax = 15
INVARIANTS
  WalletExact
  HistorySound
CHECK_DEADLOCK FALSE
PROPERTIES
  AcceptsEnd
