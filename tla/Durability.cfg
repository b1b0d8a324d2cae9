SPECIFICATION Spec
CONSTANTS
  Label = {"a", "b"}
  TxCount = 2
  MaxHeight = 2
  MaxCrashes = 2
  NoInfo = NoInfo
  NoBlock = NoBlock
INVARIANTS
  StoreReadable
  OutputsExact
PROPERTIES
  ChainSurvives
