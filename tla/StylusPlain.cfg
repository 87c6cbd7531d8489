SPECIFICATION Spec
CONSTANTS
  Mappings <- PlainSet
  Reports <- AllReports
  Requests <- SteadyRequests
  StartOff = FALSE
  TabletAtStart = TRUE
INVARIANTS
  LeftUpToSpeed
  OtherButtonsUpToSpeed
  ProximityUpToSpeed
  NothingRedundant
