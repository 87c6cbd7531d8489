---------------------------- MODULE StylusEvents ----------------------------
(***************************************************************************)
(* How the daemon turns decoded stylus reports into system mouse events.   *)
(*                                                                         *)
(* WacomTablet::PostChangeEvents compares the stylus with its state at the *)
(* previous call and posts presses, releases, drags and proximity changes. *)
(* Nothing ever reads the system's state back: whether a button stays      *)
(* pressed on the user's screen depends on every release being posted.     *)
(* Around that comparison the requests of the preference pane switch the   *)
(* output off and on, change the button mapping, "panic", or reinitialise  *)
(* the tablet, at any moment and with any button held.                     *)
(*                                                                         *)
(* The daemon is one thread on a run loop, so each action is one handler   *)
(* run to completion.  Every handler that writes `stylus` ends by copying  *)
(* it to `oldStylus` (SerialDaemon.cpp:1268, 2253), hence one variable.    *)
(* Coordinates are abstracted to "the point moved", the pressure, tilt and *)
(* pointer type carried by an event are left out.                          *)
(***************************************************************************)
CONSTANTS
  Mappings,       \* the button mappings the pane may send
  Reports,        \* the stylus states a decoder may leave behind
  Requests,       \* the operations the environment may invoke
  StartOff,       \* TRUE if launched with the output off (args.startoff)
  TabletAtStart   \* TRUE if a tablet answers during construction

StylusButtons == {"Tip", "Side1", "Side2", "Eraser"}

SystemButtons == {"None", "Button1", "Button2", "Button3", "Button4", "Button5",
                  "SysEraser", "DoubleClick", "SingleClick", "ControlClick",
                  "ClickOrRelease"}

Mapping == [StylusButtons -> SystemButtons]

\* The mapping the daemon is compiled with.
DefaultMapping ==
  [b \in StylusButtons |-> CASE b \in {"Tip", "Side1"} -> "Button1"
                             [] b = "Side2"            -> "Button2"
                             [] b = "Eraser"           -> "SysEraser"]

Report  == [off : BOOLEAN, button : SUBSET StylusButtons]
Request == {"start", "stop", "geom", "panic", "reinit"}

ASSUME ConstantsAssumption ==
  /\ Mappings \subseteq Mapping
  /\ Reports \subseteq Report
  /\ Requests \subseteq Request
  /\ StartOff \in BOOLEAN
  /\ TabletAtStart \in BOOLEAN

VARIABLES
  tabletOn,        \* tablet_on: events are generated from tablet data
  active,          \* IsActive(): the serial port is open
  stylus,          \* the off_tablet and button fields of stylus/oldStylus
  mapping,         \* button_mapping
  oldButtonState,  \* the system-level buttons set at the last comparison
  dragState,       \* the static of PostChangeEvents: a drag is locked on
  os,              \* what the window system has been told
  motion           \* kind of the plain motion event the last handler posted

vars == <<tabletOn, active, stylus, mapping, oldButtonState, dragState, os, motion>>

(***************************************************************************)
(* The window system: the mouse buttons it believes held, whether it       *)
(* believes the pen near, and whether the last handler told it something   *)
(* it already knew (a press of a held button, a release of a free one, a   *)
(* second enter or exit in a row).                                         *)
(***************************************************************************)
MouseButtons == {"left", "right", "other3", "other4", "other5"}
MotionKinds  == {"none", "moved", "leftDrag", "rightDrag"}

OS == [held : SUBSET MouseButtons, near : BOOLEAN, redundant : BOOLEAN]

\* PostCGEvent drops the event when the output is off.
Press(o, b) ==
  IF tabletOn THEN [o EXCEPT !.held = @ \union {b},
                             !.redundant = @ \/ b \in o.held]
              ELSE o

Release(o, b) ==
  IF tabletOn THEN [o EXCEPT !.held = @ \ {b},
                             !.redundant = @ \/ b \notin o.held]
              ELSE o

Click(o) == Release(Press(o, "left"), "left")

Proximity(o, isNear) ==
  IF tabletOn THEN [o EXCEPT !.near = isNear,
                             !.redundant = @ \/ isNear = o.near]
              ELSE o

(***************************************************************************)
(* The blocks of PostChangeEvents, in the order of the code.  `was` and    *)
(* `now` are the sets of system buttons before and after the report.       *)
(***************************************************************************)
Pressed(k, was, now)  == k \in now /\ k \notin was
Released(k, was, now) == k \in was /\ k \notin now
Changed(k, was, now)  == Pressed(k, was, now) \/ Released(k, was, now)

\* Faulty: the exit is not posted.
MutProximityBlock(o, wasOff, isOff) ==
  IF wasOff /\ ~isOff THEN Proximity(o, TRUE) ELSE o

ProximityBlock(o, wasOff, isOff) ==
  IF wasOff # isOff THEN Proximity(o, ~isOff) ELSE o

\* Faulty: a held Button 1 is neither released before nor pressed after.
MutDoubleClickBlock(o, was, now) ==
  IF Pressed("DoubleClick", was, now) THEN Click(Click(o)) ELSE o

DoubleClickBlock(o, was, now) ==
  IF ~Pressed("DoubleClick", was, now) THEN o
  ELSE IF "Button1" \in was
       THEN Press(Click(Release(o, "left")), "left")
       ELSE Click(Click(o))

\* Faulty: the same, for the single click.
MutSingleClickBlock(o, was, now) ==
  IF Pressed("SingleClick", was, now) THEN Click(o) ELSE o

SingleClickBlock(o, was, now) ==
  IF ~Pressed("SingleClick", was, now) THEN o
  ELSE IF "Button1" \in was
       THEN Press(Click(Release(o, "left")), "left")
       ELSE Click(o)

\* dragState after the grab-or-drop block and after the Button 1 block
DragToggled(was, now) ==
  IF Released("ClickOrRelease", was, now) THEN ~dragState ELSE dragState

\* Faulty: releasing Button 1 leaves the drag locked.
MutDragAfter(was, now) == DragToggled(was, now)

DragAfter(was, now) ==
  DragToggled(was, now) /\ ~Released("Button1", was, now)

\* Faulty: the drop is not posted.
MutGrabOrDropBlock(o, was, now) ==
  IF /\ Released("ClickOrRelease", was, now)
     /\ DragToggled(was, now)
     /\ "Button1" \notin now
  THEN Press(o, "left") ELSE o

GrabOrDropBlock(o, was, now) ==
  IF ~Released("ClickOrRelease", was, now) THEN o
  ELSE IF ~DragToggled(was, now) THEN Release(o, "left")
  ELSE IF "Button1" \notin now   THEN Press(o, "left")
  ELSE o

\* Post the press or release of mouse button b that follows system button k.
ChangeBlock(o, k, b, was, now) ==
  IF Pressed(k, was, now) THEN Press(o, b)
  ELSE IF Released(k, was, now) THEN Release(o, b)
  ELSE o

\* Faulty: the lock is looked at before the release of Button 1 ends it.
MutButton1Block(o, was, now) ==
  IF DragToggled(was, now) THEN o ELSE ChangeBlock(o, "Button1", "left", was, now)

\* Button 1 is not posted while a drag is locked.
Button1Block(o, was, now) ==
  IF DragAfter(was, now) THEN o ELSE ChangeBlock(o, "Button1", "left", was, now)

LeftBlocks(o, was, now) ==
  Button1Block(
    GrabOrDropBlock(
      SingleClickBlock(DoubleClickBlock(o, was, now), was, now), was, now), was, now)

\* Faulty: mouse button 5 is posted for Button 4.
MutOtherBlocks(o, was, now) ==
  LET o3 == ChangeBlock(o,  "Button3", "other3", was, now)
      o4 == ChangeBlock(o3, "Button4", "other4", was, now)
  IN  ChangeBlock(o4, "Button4", "other5", was, now)

OtherBlocks(o, was, now) ==
  LET o3 == ChangeBlock(o,  "Button3", "other3", was, now)
      o4 == ChangeBlock(o3, "Button4", "other4", was, now)
  IN  ChangeBlock(o4, "Button5", "other5", was, now)

PostAll(o, wasOff, isOff, was, now) ==
  LET near   == ProximityBlock(o, wasOff, isOff)
      left   == LeftBlocks(near, was, now)
      right  == ChangeBlock(left, "Button2", "right", was, now)
      eraser == ChangeBlock(right, "SysEraser", "left", was, now)
  IN  OtherBlocks(eraser, was, now)

\* postedPosition: some event of this call already carries the position.
PostedPosition(was, now) ==
  \/ Pressed("DoubleClick", was, now)
  \/ Pressed("SingleClick", was, now)
  \/ /\ Released("ClickOrRelease", was, now)
     /\ ~DragToggled(was, now) \/ "Button1" \notin now
  \/ Changed("Button1", was, now) /\ ~DragAfter(was, now)
  \/ Changed("Button2", was, now)
  \/ Changed("SysEraser", was, now)

\* Faulty: a locked drag is forgotten.
MutMotionKind(now) ==
  IF now \intersect {"ClickOrRelease", "Button1", "SysEraser"} # {} THEN "leftDrag"
  ELSE IF "Button2" \in now THEN "rightDrag" ELSE "moved"

\* buttonEvent, computed from the drag state before this call changes it.
MotionKind(now) ==
  IF dragState \/ now \intersect {"ClickOrRelease", "Button1", "SysEraser"} # {}
  THEN "leftDrag"
  ELSE IF "Button2" \in now THEN "rightDrag" ELSE "moved"

\* Faulty: the mapping is not applied.
MutButtonState(buttons) == buttons

\* buttonState: the system buttons the given stylus buttons stand for.
ButtonState(buttons) == {mapping[b] : b \in buttons}

PostChangeEvents(new, moved) ==
  LET was == oldButtonState
      now == ButtonState(new.button)
  IN  /\ os' = PostAll([os EXCEPT !.redundant = FALSE], stylus.off, new.off, was, now)
      /\ motion' = IF tabletOn /\ moved /\ ~PostedPosition(was, now)
                   THEN MotionKind(now) ELSE "none"
      /\ dragState' = DragAfter(was, now)
      /\ stylus' = new
      /\ oldButtonState' = now

NoPen == [off |-> TRUE, button |-> {}]

-----------------------------------------------------------------------------
(***************************************************************************)
(* A daemon that found no tablet never ran InitStylus: the members that    *)
(* PostChangeEvents compares with are then uninitialised memory.           *)
(***************************************************************************)
Init ==
  /\ tabletOn = ~StartOff
  /\ mapping \in Mappings
  /\ dragState = FALSE
  /\ os = [held |-> {}, near |-> FALSE, redundant |-> FALSE]
  /\ motion = "none"
  /\ \/ active = TRUE /\ stylus = NoPen /\ oldButtonState = {}
     \/ /\ ~TabletAtStart /\ active = FALSE
        /\ stylus \in Report
        /\ oldButtonState \in SUBSET SystemButtons

\* A packet arrives: the decoder leaves report r and the changes are posted.
\* The decoder may also reject it (wrong size, pending command set) and leave
\* the stylus as it was; ProcessPacket posts the changes all the same.
ProcessPacket ==
  /\ active
  /\ \E r \in Reports \union {stylus}, moved \in BOOLEAN : PostChangeEvents(r, moved)
  /\ UNCHANGED <<tabletOn, active, mapping>>

\* "start" and "stop"
SetProcessing(on) ==
  /\ (IF on THEN "start" ELSE "stop") \in Requests
  /\ tabletOn' = on
  /\ motion' = "none"
  /\ UNCHANGED <<active, stylus, mapping, oldButtonState, dragState, os>>

\* "geom": the new mapping applies from the next comparison on.
SetGeometry ==
  /\ "geom" \in Requests
  /\ mapping' \in Mappings
  /\ motion' = "none"
  /\ UNCHANGED <<tabletOn, active, stylus, oldButtonState, dragState, os>>

\* "panic": as if the pen were taken off the tablet.
ResetStylus ==
  /\ "panic" \in Requests
  /\ PostChangeEvents(NoPen, FALSE)
  /\ UNCHANGED <<tabletOn, active, mapping>>

\* "port", "tabletpc" or a wake-up: the search for a tablet fails and leaves
\* the port closed, or succeeds and forgets the stylus.  Nothing is posted.
\* A tablet that does not answer for its settings turns the output off.
InitializeForPort ==
  /\ "reinit" \in Requests
  /\ motion' = "none"
  /\ tabletOn' \in {tabletOn, FALSE}
  /\ \/ active' = FALSE /\ UNCHANGED <<stylus, oldButtonState>>
     \/ active' = TRUE /\ stylus' = NoPen /\ oldButtonState' = {}
  /\ UNCHANGED <<mapping, dragState, os>>

Next ==
  \/ ProcessPacket
  \/ \E on \in BOOLEAN : SetProcessing(on)
  \/ SetGeometry
  \/ ResetStylus
  \/ InitializeForPort

Spec == Init /\ [][Next]_vars

-----------------------------------------------------------------------------
TypeOK ==
  /\ tabletOn \in BOOLEAN
  /\ active \in BOOLEAN
  /\ stylus \in Report
  /\ mapping \in Mapping
  /\ oldButtonState \in SUBSET SystemButtons
  /\ dragState \in BOOLEAN
  /\ os \in OS
  /\ motion \in MotionKinds

(***************************************************************************)
(* The properties.  Some hold only while nothing interrupts the output:    *)
(* the daemon starts on, with a tablet, and is never stopped or            *)
(* reinitialised.  That is a condition on the environment, so it is one on *)
(* the constants.  A mapping is plain if no stylus button is the eraser or *)
(* the drag lock, the two other system buttons that drive the left button. *)
(***************************************************************************)
SteadyOutput ==
  /\ ~StartOff
  /\ TabletAtStart
  /\ Requests \intersect {"stop", "reinit"} = {}

PlainMappings ==
  \A m \in Mappings, b \in StylusButtons : m[b] \notin {"SysEraser", "ClickOrRelease"}

LeftMeant == dragState \/ oldButtonState \intersect {"Button1", "SysEraser"} # {}

\* The left button is never stuck: whenever the system believes it held, the
\* daemon knows of a pressed button or a locked drag that holds it, whatever
\* chords, drag locks, multi-clicks and mapping changes came before
\* (PostChangeEvents, the blocks that post NX_LMOUSEDOWN and NX_LMOUSEUP).
NoStuckLeft == "left" \in os.held => LeftMeant

\* The right button and buttons 3 to 5 follow the pen exactly, through any
\* interleaving of reports, panics and mapping changes made while pressed.
OtherButtonsUpToSpeed ==
  /\ "right"  \in os.held <=> "Button2" \in oldButtonState
  /\ "other3" \in os.held <=> "Button3" \in oldButtonState
  /\ "other4" \in os.held <=> "Button4" \in oldButtonState
  /\ "other5" \in os.held <=> "Button5" \in oldButtonState

\* The same for the left button, once a single system button drives it: the
\* synthesised clicks release and restore a held Button 1.
LeftUpToSpeed == "left" \in os.held <=> "Button1" \in oldButtonState

\* The system is told exactly once of each entry and exit, so it knows
\* whether the pen is near (proximity events of PostChangeEvents).
ProximityUpToSpeed == os.near <=> ~stylus.off

\* No call presses a held button, releases a free one or repeats a proximity
\* change, synthesised double and single clicks included.
NothingRedundant == ~os.redundant

\* A motion event posted while the left button is held and meant to be is a
\* drag, so no application sees a plain move or a right drag in the middle of a
\* left drag (buttonEvent is computed before dragState changes in the same call).
HeldMovesAreDrags ==
  motion # "none" /\ "left" \in os.held /\ LeftMeant => motion = "leftDrag"

LeftStuck == "left" \in os.held /\ ~LeftMeant

\* The left button gets stuck only at a comparison made with the output off
\* or when a reinitialisation forgets the stylus: no chord, click, drag lock
\* or mapping change does it, from any state, uninitialised memory included.
StuckOnlyByLapse ==
  [][~LeftStuck /\ LeftStuck' => ~tabletOn \/ InitializeForPort]_vars

\* Whatever happened before (a stop, a lost release, a locked drag), a release
\* of Button 1 that is compared with the output on frees the left button and
\* ends the drag, unless the eraser is pressed by the same report.
ReleaseFrees ==
  [][/\ tabletOn
     /\ ~InitializeForPort
     /\ Released("Button1", oldButtonState, oldButtonState')
     /\ ~Pressed("SysEraser", oldButtonState, oldButtonState')
     => "left" \notin os'.held /\ ~dragState']_vars

=============================================================================
