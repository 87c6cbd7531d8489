SPECIFICATION Spec
CHECK_DEADLOCK FALSE
CONSTANTS
  Ports = {p1, p2}
  Kinds = {"UD"}
  Commands = {TRUE}
  TestModes = {FALSE}
  Hackintosh = FALSE
  SignalTimes = {}
  Requests = {}
  Flaky = FALSE
  Tries = 2
  MaxEvents = 0
INVARIANTS
  InactiveOnlyIfSilent
