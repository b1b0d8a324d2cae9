SPECIFICATION FairSpec
CONSTANTS
  a = a
  b = b
  End = {a, b}
  Tasks = 2
  pinger = pinger
  QueueCap = 1
  PreviousRelease = {b}
  NoMsg = NoMsg
INVARIANTS
  ResponsesExpected
PROPERTIES
  PromiseKept
  CallsEnd
  BothEnd
CHECK_DEADLOCK FALSE
