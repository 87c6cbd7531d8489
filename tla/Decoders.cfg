SPECIFICATION Spec
CONSTANTS
  Tablets <- AllTablets
  Height = 2
  Active <- ActiveRows
  SideOnEntry = FALSE
  Events <- AllEvents
INVARIANTS
  Faithful
  NoGhostButtons
  TipOrEraser
PROPERTIES
  EntryDoesNotJump
