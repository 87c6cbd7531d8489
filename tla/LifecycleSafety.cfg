SPECIFICATION FairSpec
CHECK_DEADLOCK FALSE
CONSTANTS
  Ports = {p1, p2}
  Kinds = {"UD", "TabletPC"}
  Commands = {TRUE, FALSE}
  TestModes = {FALSE}
  Hackintosh = TRUE
  SignalTimes = {"starting", "running"}
  Requests = {"quit", "port", "reinit", "tabletpc", "start", "stop", "ask"}
  Flaky = TRUE
  Tries = 2
  MaxEvents = 2
INVARIANTS
  TypeOK
  StylusReadyWhenActive
  PaneToldTruth
  EndsForAReason
PROPERTIES
  ScanEnds
