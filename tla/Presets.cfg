SPECIFICATION Spec
CONSTANTS
  Tablets <- TwoMachines
  DefaultScale = 4
  IntuosScale = 8
  Tips = {0, 1}
  DefaultTip = 1
  Scalings = {1, 2}
  Junk = {0}
  MaxDue = 2
  Names = {"Untitled"}
  MaxPresets = 2
  MaxChanges = 2
  UserScales = {0, 8}
  MayFail = TRUE
INVARIANTS
  TypeOK
  AreaUsable
  ActiveIsStored
  ChooserShowsActive
  PaneKnowsDaemon
  LoginMatchesSaved
