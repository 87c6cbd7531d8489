SPECIFICATION FairSpec
CHECK_DEADLOCK FALSE
CONSTANTS
  Ports = {p1, p2}
  Kinds = {"Intuos"}
  Commands = {TRUE, FALSE}
  TestModes = {FALSE}
  Hackintosh = FALSE
  SignalTimes = {"starting", "running"}
  Requests = {}
  Flaky = FALSE
  Tries = 2
  MaxEvents = 0
PROPERTIES
  QuitsWhenAsked
