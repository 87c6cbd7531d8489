SPECIFICATION Spec
CONSTANTS
  Mappings <- ChordSet
  Reports <- AllReports
  Requests <- Request
  StartOff = TRUE
  TabletAtStart = FALSE
INVARIANTS
  TypeOK
  HeldMovesAreDrags
PROPERTIES
  StuckOnlyByLapse
  ReleaseFrees
