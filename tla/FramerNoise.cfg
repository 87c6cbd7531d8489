SPECIFICATION Spec
CHECK_DEADLOCK FALSE
CONSTANTS
  Protocols = {"IV", "IIS", "SD", "TabletPC"}
  Sizes = {3, 4}
  QuerySize = 6
  FujitsuSize = 4
  MaxUnits = 2
  Lossy = TRUE
  Resizable = TRUE
INVARIANTS
  TypeOK
  PacketsWellFormed
PROPERTIES
  Resynchronises
