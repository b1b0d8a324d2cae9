SPECIFICATION Spec
CONSTANTS
  a = a
  b = b
  End = {a, b}
  Tasks = 1
  pinger = pinger
  QueueCap = 1
  PreviousRelease = {}
  NoMsg = NoMsg
INVARIANT HandshakeSucceeds
CHECK_DEADLOCK FALSE
