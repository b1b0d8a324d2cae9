SPECIFICATION Spec
CONSTANTS
  p1 = p1
  p2 = p2
  api = api
  s1 = s1
  s2 = s2
  Free = Free
  NoBlock = NoBlock
  Peer = {p1, p2}
  Api = api
  SyncTask = {s1, s2}
  MaxReorg = 3
  Chains <- MCChains
  Moves <- MCMoves
  ApiBlocks <- MCOneBlock
  StartChain <- MCStart
  PeersFail = TRUE
INVARIANTS
  ExclusiveProcessing
  SyncReachesPeer
PROPERTIES
  RefusedOnlyOnFork
  ReorgBounded
SYMMETRY Symmetry
