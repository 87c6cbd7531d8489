--------------------------- MODULE MCStylusEvents ---------------------------
(***************************************************************************)
(* Instances of StylusEvents for TLC, for every report a decoder may       *)
(* leave behind: the larger mice reach every combination of buttons.       *)
(***************************************************************************)
EXTENDS StylusEvents

AllReports == Report

\* A mapping given by the system buttons of tip, side switches and eraser.
M(tip, side1, side2, eraser) ==
  [b \in StylusButtons |-> CASE b = "Tip"    -> tip
                             [] b = "Side1"  -> side1
                             [] b = "Side2"  -> side2
                             [] b = "Eraser" -> eraser]

\* Only Button 1 drives the left button, alone or from two stylus buttons.
PlainSet == {
  M("Button1", "Button1", "Button2", "Button3"),
  M("Button1", "DoubleClick", "SingleClick", "Button2"),
  M("DoubleClick", "Button1", "Button4", "Button5"),
  M("None", "ControlClick", "Button1", "SingleClick")}

\* The left button has several drivers: the eraser, drag lock and clicks.
ChordSet == {
  DefaultMapping,
  M("Button1", "ClickOrRelease", "Button2", "SysEraser"),
  M("Button1", "ClickOrRelease", "DoubleClick", "SingleClick"),
  M("Button2", "SingleClick", "ClickOrRelease", "SysEraser")}

SteadyRequests == {"geom", "panic"}
=============================================================================
