SPECIFICATION FairSpec
CHECK_DEADLOCK FALSE
CONSTANTS
  Protocols = {"IV", "IIS", "SD", "TabletPC", "Fujitsu"}
  Sizes = {3, 4}
  QuerySize = 6
  FujitsuSize = 4
  MaxUnits = 3
  Lossy = FALSE
  Resizable = FALSE
INVARIANTS
  PhraseBounded
PROPERTIES
  FirstInFirstOut
  EventuallyDelivered
