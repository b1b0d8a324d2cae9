SPECIFICATION FairSpec
CONSTANTS
  p1 = p1
  p2 = p2
  api = api
  s1 = s1
  s2 = s2
  Free = Free
  NoBlock = NoBlock
  Peer = {p1, p2}
  Api = api
  SyncTask = {s1, s2}
  MaxReorg = 3
  Chains <- MCForkOnly
  Moves <- MCNone
  ApiBlocks <- MCNone
  StartChain <- MCStart
  PeersFail = TRUE
PROPERTIES
  LockReleased
  CatchesUp
CHECK_DEADLOCK FALSE
