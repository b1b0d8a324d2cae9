SPECIFICATION FairSpec
CONSTANTS
  Callers = 2
  PAGE_SIZE = 2
  MaxPages <- MCMaxPages
  EventCap = 1
  WireCaps = {0, 1}
  Sizes = {0, 2, 3}
  MaxChanges = 1
  MaxEvents = 3
  None = None
INVARIANTS
  OwnAnswer
  NothingLeftOut
  EventsContiguous
PROPERTIES
  EventsArrive
  CallsReturn
CHECK_DEADLOCK FALSE
