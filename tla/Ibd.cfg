SPECIFICATION FairSpec
CONSTANTS
  Peer = {p1, p2}
  HashingThreads = 2
  SafeSkip = 1
  DownloadBatch = 2
  MaxPending = 1
  HashesMax = 3
  FullIbd = FALSE
  StartChain <- MCStartChain
  RemoteChains <- MCRemoteChains
  BadBlocks <- MCBadBlocks
  AcceptedBlocks <- MCAcceptedBlocks
  None = None
INVARIANTS
  StoredLinked
  NoWrongHashOnSuccess
  SuccessMeansApplied
  ApplierUnderFlag
PROPERTY FlagCleared
CHECK_DEADLOCK FALSE
