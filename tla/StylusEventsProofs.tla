------------------------- MODULE StylusEventsProofs -------------------------
(***************************************************************************)
(* Proofs about StylusEvents, for every set of mappings, reports and       *)
(* requests.  The events of one call are composed from Press and Release;  *)
(* the lemmas say what each block of PostChangeEvents does to the left     *)
(* button and that it leaves the rest of the system's view alone.  The     *)
(* invariants are then inductive together with the type invariant.         *)
(***************************************************************************)
EXTENDS StylusEvents, TLAPS

(***************************************************************************)
(* Single events.                                                          *)
(***************************************************************************)
\* Press adds one button when the output is on and changes nothing else but
\* the note of redundancy (PostCGEvent).
LEMMA PressFacts ==
  ASSUME NEW o \in OS, NEW b \in MouseButtons
  PROVE  /\ Press(o, b) \in OS
         /\ Press(o, b).near = o.near
         /\ Press(o, b).held = IF tabletOn THEN o.held \union {b} ELSE o.held
  BY DEF Press, OS

\* Release takes one button away, likewise.
LEMMA ReleaseFacts ==
  ASSUME NEW o \in OS, NEW b \in MouseButtons
  PROVE  /\ Release(o, b) \in OS
         /\ Release(o, b).near = o.near
         /\ Release(o, b).held = IF tabletOn THEN o.held \ {b} ELSE o.held
  BY DEF Release, OS

\* A click leaves the left button up.
LEMMA ClickFacts ==
  ASSUME NEW o \in OS
  PROVE  /\ Click(o) \in OS
         /\ Click(o).near = o.near
         /\ Click(o).held = IF tabletOn THEN o.held \ {"left"} ELSE o.held
<1> DEFINE p == Press(o, "left")
<1>1. p \in OS /\ p.near = o.near /\ p.held = IF tabletOn THEN o.held \union {"left"} ELSE o.held
  BY PressFacts DEF MouseButtons
<1>2. /\ Release(p, "left") \in OS
      /\ Release(p, "left").near = p.near
      /\ Release(p, "left").held = IF tabletOn THEN p.held \ {"left"} ELSE p.held
  BY <1>1, ReleaseFacts DEF MouseButtons
<1>3. Click(o) = Release(p, "left")
  BY DEF Click
<1> HIDE DEF p
<1> QED
  BY <1>1, <1>2, <1>3

\* What a block that only drives the left button may do: `left` says whether
\* it holds the left button afterwards when the output is on.
DrivesLeft(o, p, left) ==
  /\ p \in OS
  /\ p.near = o.near
  /\ p.held \ {"left"} = o.held \ {"left"}
  /\ tabletOn => ("left" \in p.held <=> left)
  /\ ~tabletOn => p.held = o.held

\* The synthesised double click restores a held Button 1 and drives no other
\* button.
LEMMA DoubleClickFacts ==
  ASSUME NEW o \in OS, NEW was, NEW now
  PROVE  DrivesLeft(o, DoubleClickBlock(o, was, now),
                    IF Pressed("DoubleClick", was, now) THEN "Button1" \in was
                                                        ELSE "left" \in o.held)
<1>1. CASE ~Pressed("DoubleClick", was, now)
  BY <1>1 DEF DrivesLeft, DoubleClickBlock
<1>2. CASE Pressed("DoubleClick", was, now) /\ "Button1" \in was
  <2> DEFINE p == Release(o, "left")
             q == Click(p)
  <2>1. p \in OS /\ p.near = o.near /\ p.held = IF tabletOn THEN o.held \ {"left"} ELSE o.held
    BY ReleaseFacts DEF MouseButtons
  <2>2. q \in OS /\ q.near = p.near /\ q.held = IF tabletOn THEN p.held \ {"left"} ELSE p.held
    BY <2>1, ClickFacts
  <2>3. /\ Press(q, "left") \in OS
        /\ Press(q, "left").near = q.near
        /\ Press(q, "left").held = IF tabletOn THEN q.held \union {"left"} ELSE q.held
    BY <2>2, PressFacts DEF MouseButtons
  <2>4. DoubleClickBlock(o, was, now) = Press(q, "left")
    BY <1>2 DEF DoubleClickBlock
  <2> HIDE DEF p, q
  <2> QED
    BY <1>2, <2>1, <2>2, <2>3, <2>4 DEF DrivesLeft
<1>3. CASE Pressed("DoubleClick", was, now) /\ "Button1" \notin was
  <2> DEFINE p == Click(o)
  <2>1. p \in OS /\ p.near = o.near /\ p.held = IF tabletOn THEN o.held \ {"left"} ELSE o.held
    BY ClickFacts
  <2>2. /\ Click(p) \in OS
        /\ Click(p).near = p.near
        /\ Click(p).held = IF tabletOn THEN p.held \ {"left"} ELSE p.held
    BY <2>1, ClickFacts
  <2>3. DoubleClickBlock(o, was, now) = Click(p)
    BY <1>3 DEF DoubleClickBlock
  <2> HIDE DEF p
  <2> QED
    BY <1>3, <2>1, <2>2, <2>3 DEF DrivesLeft
<1> QED
  BY <1>1, <1>2, <1>3

\* So does the synthesised single click.
LEMMA SingleClickFacts ==
  ASSUME NEW o \in OS, NEW was, NEW now
  PROVE  DrivesLeft(o, SingleClickBlock(o, was, now),
                    IF Pressed("SingleClick", was, now) THEN "Button1" \in was
                                                        ELSE "left" \in o.held)
<1>1. CASE ~Pressed("SingleClick", was, now)
  BY <1>1 DEF DrivesLeft, SingleClickBlock
<1>2. CASE Pressed("SingleClick", was, now) /\ "Button1" \in was
  <2> DEFINE p == Release(o, "left")
             q == Click(p)
  <2>1. p \in OS /\ p.near = o.near /\ p.held = IF tabletOn THEN o.held \ {"left"} ELSE o.held
    BY ReleaseFacts DEF MouseButtons
  <2>2. q \in OS /\ q.near = p.near /\ q.held = IF tabletOn THEN p.held \ {"left"} ELSE p.held
    BY <2>1, ClickFacts
  <2>3. /\ Press(q, "left") \in OS
        /\ Press(q, "left").near = q.near
        /\ Press(q, "left").held = IF tabletOn THEN q.held \union {"left"} ELSE q.held
    BY <2>2, PressFacts DEF MouseButtons
  <2>4. SingleClickBlock(o, was, now) = Press(q, "left")
    BY <1>2 DEF SingleClickBlock
  <2> HIDE DEF p, q
  <2> QED
    BY <1>2, <2>1, <2>2, <2>3, <2>4 DEF DrivesLeft
<1>3. CASE Pressed("SingleClick", was, now) /\ "Button1" \notin was
  <2>1. SingleClickBlock(o, was, now) = Click(o)
    BY <1>3 DEF SingleClickBlock
  <2> QED
    BY <1>3, <2>1, ClickFacts DEF DrivesLeft
<1> QED
  BY <1>1, <1>2, <1>3

\* The grab-or-drop block holds the left button on a grab and frees it on a drop.
LEMMA GrabOrDropFacts ==
  ASSUME NEW o \in OS, NEW was, NEW now
  PROVE  DrivesLeft(o, GrabOrDropBlock(o, was, now),
                    IF ~Released("ClickOrRelease", was, now) THEN "left" \in o.held
                    ELSE DragToggled(was, now) /\ ("Button1" \in now => "left" \in o.held))
<1> "left" \in MouseButtons
  BY DEF MouseButtons
<1>1. CASE ~Released("ClickOrRelease", was, now)
  BY <1>1 DEF DrivesLeft, GrabOrDropBlock
<1>2. CASE Released("ClickOrRelease", was, now) /\ ~DragToggled(was, now)
  <2>1. GrabOrDropBlock(o, was, now) = Release(o, "left")
    BY <1>2 DEF GrabOrDropBlock
  <2> QED
    BY <1>2, <2>1, ReleaseFacts DEF DrivesLeft
<1>3. CASE /\ Released("ClickOrRelease", was, now) /\ DragToggled(was, now)
           /\ "Button1" \notin now
  <2>1. GrabOrDropBlock(o, was, now) = Press(o, "left")
    BY <1>3 DEF GrabOrDropBlock
  <2> QED
    BY <1>3, <2>1, PressFacts DEF DrivesLeft
<1>4. CASE /\ Released("ClickOrRelease", was, now) /\ DragToggled(was, now)
           /\ "Button1" \in now
  BY <1>4 DEF DrivesLeft, GrabOrDropBlock
<1> QED
  BY <1>1, <1>2, <1>3, <1>4

\* What becomes of mouse button b, held or not, under a change of k.
Follows(k, held, was, now) ==
  IF Pressed(k, was, now) THEN TRUE
  ELSE IF Released(k, was, now) THEN FALSE
  ELSE held

\* What a block that only drives mouse button b from system button k may do.
DrivesButton(o, p, k, b, was, now) ==
  /\ p \in OS
  /\ p.near = o.near
  /\ p.held \ {b} = o.held \ {b}
  /\ tabletOn => (b \in p.held <=> Follows(k, b \in o.held, was, now))
  /\ ~tabletOn => p.held = o.held

\* A block that follows one system button posts its press or release alone.
LEMMA ChangeFacts ==
  ASSUME NEW o \in OS, NEW b \in MouseButtons, NEW k, NEW was, NEW now
  PROVE  DrivesButton(o, ChangeBlock(o, k, b, was, now), k, b, was, now)
<1>1. CASE Pressed(k, was, now)
  <2>1. ChangeBlock(o, k, b, was, now) = Press(o, b)
    BY <1>1 DEF ChangeBlock
  <2> QED
    BY <1>1, <2>1, PressFacts DEF DrivesButton, Follows
<1>2. CASE ~Pressed(k, was, now) /\ Released(k, was, now)
  <2>1. ChangeBlock(o, k, b, was, now) = Release(o, b)
    BY <1>2 DEF ChangeBlock
  <2> QED
    BY <1>2, <2>1, ReleaseFacts DEF DrivesButton, Follows
<1>3. CASE ~Pressed(k, was, now) /\ ~Released(k, was, now)
  BY <1>3 DEF ChangeBlock, DrivesButton, Follows
<1> QED
  BY <1>1, <1>2, <1>3

\* The Button 1 block follows Button 1 unless a drag is locked.
LEMMA Button1Facts ==
  ASSUME NEW o \in OS, NEW was, NEW now
  PROVE  DrivesLeft(o, Button1Block(o, was, now),
                    IF DragAfter(was, now) THEN "left" \in o.held
                    ELSE IF Pressed("Button1", was, now) THEN TRUE
                    ELSE IF Released("Button1", was, now) THEN FALSE
                    ELSE "left" \in o.held)
<1> "left" \in MouseButtons
  BY DEF MouseButtons
<1>1. CASE DragAfter(was, now)
  BY <1>1 DEF DrivesLeft, Button1Block
<1>2. CASE ~DragAfter(was, now)
  BY <1>2, ChangeFacts DEF DrivesLeft, DrivesButton, Follows, Button1Block
<1> QED
  BY <1>1, <1>2

(***************************************************************************)
(* A whole call.                                                           *)
(***************************************************************************)
LeftClicked(left, was, now) ==
  IF Pressed("DoubleClick", was, now) \/ Pressed("SingleClick", was, now)
  THEN "Button1" \in was ELSE left

LeftGrabbed(left, was, now) ==
  IF ~Released("ClickOrRelease", was, now) THEN LeftClicked(left, was, now)
  ELSE DragToggled(was, now) /\ ("Button1" \in now => LeftClicked(left, was, now))

LeftAfter(left, was, now) ==
  IF DragAfter(was, now) THEN LeftGrabbed(left, was, now)
  ELSE IF Pressed("Button1", was, now) THEN TRUE
  ELSE IF Released("Button1", was, now) THEN FALSE
  ELSE LeftGrabbed(left, was, now)

\* The four blocks together: LeftAfter says where they leave the left button.
LEMMA LeftBlocksFacts ==
  ASSUME NEW o \in OS, NEW was, NEW now
  PROVE  DrivesLeft(o, LeftBlocks(o, was, now), LeftAfter("left" \in o.held, was, now))
<1> DEFINE o1 == DoubleClickBlock(o, was, now)
           o2 == SingleClickBlock(o1, was, now)
           o3 == GrabOrDropBlock(o2, was, now)
           o4 == Button1Block(o3, was, now)
<1>1. DrivesLeft(o, o1, IF Pressed("DoubleClick", was, now) THEN "Button1" \in was
                                                          ELSE "left" \in o.held)
  BY DoubleClickFacts
<1>2. o1 \in OS
  BY <1>1 DEF DrivesLeft
<1>3. DrivesLeft(o1, o2, IF Pressed("SingleClick", was, now) THEN "Button1" \in was
                                                           ELSE "left" \in o1.held)
  BY <1>2, SingleClickFacts
<1>4. o2 \in OS
  BY <1>3 DEF DrivesLeft
<1>5. DrivesLeft(o2, o3, IF ~Released("ClickOrRelease", was, now) THEN "left" \in o2.held
                         ELSE DragToggled(was, now) /\ ("Button1" \in now => "left" \in o2.held))
  BY <1>4, GrabOrDropFacts
<1>6. o3 \in OS
  BY <1>5 DEF DrivesLeft
<1>7. DrivesLeft(o3, o4, IF DragAfter(was, now) THEN "left" \in o3.held
                         ELSE IF Pressed("Button1", was, now) THEN TRUE
                         ELSE IF Released("Button1", was, now) THEN FALSE
                         ELSE "left" \in o3.held)
  BY <1>6, Button1Facts
<1>8. o4 = LeftBlocks(o, was, now)
  BY DEF LeftBlocks
<1> HIDE DEF o1, o2, o3, o4
<1>9. tabletOn => ("left" \in o4.held <=> LeftAfter("left" \in o.held, was, now))
  BY <1>1, <1>3, <1>5, <1>7 DEF DrivesLeft, LeftAfter, LeftGrabbed, LeftClicked
<1>10. /\ o4 \in OS
       /\ o4.near = o.near
       /\ o4.held \ {"left"} = o.held \ {"left"}
       /\ ~tabletOn => o4.held = o.held
  BY <1>1, <1>3, <1>5, <1>7 DEF DrivesLeft
<1> QED
  BY <1>8, <1>9, <1>10 DEF DrivesLeft

\* All blocks of PostChangeEvents together, for every mouse button and the
\* proximity.
LEMMA PostAllFacts ==
  ASSUME NEW o \in OS, NEW wasOff \in BOOLEAN, NEW isOff \in BOOLEAN, NEW was, NEW now
  PROVE  LET p == PostAll(o, wasOff, isOff, was, now)
         IN  /\ p \in OS
             /\ ~tabletOn => p.held = o.held /\ p.near = o.near
             /\ tabletOn =>
                  /\ p.near = IF wasOff # isOff THEN ~isOff ELSE o.near
                  /\ "left" \in p.held <=>
                       Follows("SysEraser", LeftAfter("left" \in o.held, was, now), was, now)
                  /\ "right"  \in p.held <=> Follows("Button2", "right"  \in o.held, was, now)
                  /\ "other3" \in p.held <=> Follows("Button3", "other3" \in o.held, was, now)
                  /\ "other4" \in p.held <=> Follows("Button4", "other4" \in o.held, was, now)
                  /\ "other5" \in p.held <=> Follows("Button5", "other5" \in o.held, was, now)
<1> DEFINE o1 == ProximityBlock(o, wasOff, isOff)
           o2 == LeftBlocks(o1, was, now)
           o3 == ChangeBlock(o2, "Button2", "right", was, now)
           o4 == ChangeBlock(o3, "SysEraser", "left", was, now)
           o5 == ChangeBlock(o4, "Button3", "other3", was, now)
           o6 == ChangeBlock(o5, "Button4", "other4", was, now)
           o7 == ChangeBlock(o6, "Button5", "other5", was, now)
<1>0. /\ "left" \in MouseButtons /\ "right" \in MouseButtons /\ "other3" \in MouseButtons
      /\ "other4" \in MouseButtons /\ "other5" \in MouseButtons
  BY DEF MouseButtons
<1>1. /\ o1 \in OS
      /\ o1.held = o.held
      /\ o1.near = IF tabletOn /\ wasOff # isOff THEN ~isOff ELSE o.near
  BY DEF ProximityBlock, Proximity, OS
<1>2. DrivesLeft(o1, o2, LeftAfter("left" \in o1.held, was, now))
  BY <1>1, LeftBlocksFacts
<1>3. o2 \in OS
  BY <1>2 DEF DrivesLeft
<1>4. DrivesButton(o2, o3, "Button2", "right", was, now)
  BY <1>0, <1>3, ChangeFacts DEF DrivesButton
<1>5. DrivesButton(o3, o4, "SysEraser", "left", was, now)
  BY <1>0, <1>4, ChangeFacts DEF DrivesButton
<1>6. DrivesButton(o4, o5, "Button3", "other3", was, now)
  BY <1>0, <1>5, ChangeFacts DEF DrivesButton
<1>7. DrivesButton(o5, o6, "Button4", "other4", was, now)
  BY <1>0, <1>6, ChangeFacts DEF DrivesButton
<1>8. DrivesButton(o6, o7, "Button5", "other5", was, now)
  BY <1>0, <1>7, ChangeFacts DEF DrivesButton
<1>9. PostAll(o, wasOff, isOff, was, now) = o7
  BY DEF PostAll, OtherBlocks
<1> HIDE DEF o1, o2, o3, o4, o5, o6, o7
<1>10. /\ o7 \in OS
       /\ o7.near = IF tabletOn /\ wasOff # isOff THEN ~isOff ELSE o.near
       /\ ~tabletOn => o7.held = o.held
  BY <1>1, <1>2, <1>4, <1>5, <1>6, <1>7, <1>8 DEF DrivesLeft, DrivesButton
<1>11. "right" \in o2.held <=> "right" \in o.held
  BY <1>1, <1>2 DEF DrivesLeft, DrivesButton
<1>12. /\ "right" \in o7.held <=> "right" \in o3.held
       /\ "left" \in o7.held <=> "left" \in o4.held
       /\ "left" \in o3.held <=> "left" \in o2.held
  BY <1>4, <1>5, <1>6, <1>7, <1>8 DEF DrivesButton
<1>13. /\ "other3" \in o4.held <=> "other3" \in o.held
       /\ "other3" \in o7.held <=> "other3" \in o5.held
       /\ "other4" \in o5.held <=> "other4" \in o.held
       /\ "other4" \in o7.held <=> "other4" \in o6.held
       /\ "other5" \in o6.held <=> "other5" \in o.held
  BY <1>1, <1>2, <1>4, <1>5, <1>6, <1>7, <1>8 DEF DrivesLeft, DrivesButton
<1>14. tabletOn => ("left" \in o2.held <=> LeftAfter("left" \in o.held, was, now))
  BY <1>1, <1>2 DEF DrivesLeft, DrivesButton
<1>15. tabletOn => ("left" \in o7.held <=>
                     Follows("SysEraser", LeftAfter("left" \in o.held, was, now), was, now))
  BY <1>5, <1>12, <1>14 DEF Follows, DrivesButton
<1>16. tabletOn => /\ "right"  \in o7.held <=> Follows("Button2", "right"  \in o.held, was, now)
                   /\ "other3" \in o7.held <=> Follows("Button3", "other3" \in o.held, was, now)
                   /\ "other4" \in o7.held <=> Follows("Button4", "other4" \in o.held, was, now)
                   /\ "other5" \in o7.held <=> Follows("Button5", "other5" \in o.held, was, now)
  BY <1>4, <1>6, <1>7, <1>8, <1>11, <1>12, <1>13 DEF Follows, DrivesButton
<1> QED
  BY <1>9, <1>10, <1>15, <1>16

\* PostChangeEvents as a step: what it does to the system's view.
LEMMA PostStep ==
  ASSUME TypeOK, NEW new \in Report, NEW moved \in BOOLEAN,
         PostChangeEvents(new, moved)
  PROVE  LET was == oldButtonState
             now == oldButtonState'
         IN  /\ stylus' \in Report
             /\ now = ButtonState(new.button) /\ now \in SUBSET SystemButtons
             /\ dragState' = DragAfter(was, now) /\ dragState' \in BOOLEAN
             /\ os' \in OS
             /\ motion' \in MotionKinds
             /\ stylus' = new
             /\ tabletOn =>
                  /\ os'.near = IF stylus.off # new.off THEN ~new.off ELSE os.near
                  /\ "left" \in os'.held <=>
                       Follows("SysEraser", LeftAfter("left" \in os.held, was, now), was, now)
                  /\ "right"  \in os'.held <=> Follows("Button2", "right"  \in os.held, was, now)
                  /\ "other3" \in os'.held <=> Follows("Button3", "other3" \in os.held, was, now)
                  /\ "other4" \in os'.held <=> Follows("Button4", "other4" \in os.held, was, now)
                  /\ "other5" \in os'.held <=> Follows("Button5", "other5" \in os.held, was, now)
<1> DEFINE was == oldButtonState
           now == ButtonState(new.button)
           o   == [os EXCEPT !.redundant = FALSE]
<1>1. oldButtonState' = now /\ stylus' = new /\ dragState' = DragAfter(was, now)
  BY DEF PostChangeEvents
<1>2. now \in SUBSET SystemButtons
  BY DEF ButtonState, TypeOK, Report, Mapping
<1>3. o \in OS /\ o.held = os.held /\ o.near = os.near
  BY DEF TypeOK, OS
<1>4. os' = PostAll(o, stylus.off, new.off, was, now)
  BY DEF PostChangeEvents
<1>5. stylus.off \in BOOLEAN /\ new.off \in BOOLEAN
  BY DEF TypeOK, Report
<1>6. dragState' \in BOOLEAN
  BY <1>1 DEF DragAfter
<1>7. motion' \in MotionKinds
  BY DEF PostChangeEvents, MotionKind, MotionKinds
<1> HIDE DEF now, o
<1> QED
  BY <1>1, <1>2, <1>3, <1>4, <1>5, <1>6, <1>7, PostAllFacts DEF now

\* The two actions that compare are calls of PostChangeEvents.
LEMMA ComparingActions ==
  ASSUME TypeOK, ProcessPacket \/ ResetStylus
  PROVE  /\ \E new \in Report, moved \in BOOLEAN : PostChangeEvents(new, moved)
         /\ UNCHANGED <<tabletOn, active, mapping>>
  BY ConstantsAssumption DEF TypeOK, ProcessPacket, ResetStylus, NoPen, Report

(***************************************************************************)
(* Type correctness.                                                       *)
(***************************************************************************)
\* The state InitStylus leaves behind is a stylus state.
LEMMA NoPenType == NoPen \in Report
  BY DEF NoPen, Report

\* The type invariant holds at first, of uninitialised members too.
LEMMA InitType == Init => TypeOK
<1> SUFFICES ASSUME Init PROVE TypeOK
  OBVIOUS
<1>1. tabletOn \in BOOLEAN /\ active \in BOOLEAN /\ dragState \in BOOLEAN
  BY Zenon, ConstantsAssumption DEF Init
<1>2. stylus \in Report /\ oldButtonState \in SUBSET SystemButtons /\ mapping \in Mapping
  BY ConstantsAssumption, NoPenType DEF Init
<1>3. os \in OS /\ motion \in MotionKinds
  BY DEF Init, OS, MotionKinds
<1> QED
  BY <1>1, <1>2, <1>3 DEF TypeOK

\* Every action keeps the type invariant.
LEMMA NextType == TypeOK /\ [Next]_vars => TypeOK'
<1> SUFFICES ASSUME TypeOK, [Next]_vars PROVE TypeOK'
  OBVIOUS
<1>1. CASE ProcessPacket \/ ResetStylus
  <2>1. PICK new \in Report, moved \in BOOLEAN : PostChangeEvents(new, moved)
    BY <1>1, ComparingActions
  <2>2. /\ stylus' \in Report /\ oldButtonState' \in SUBSET SystemButtons
        /\ dragState' \in BOOLEAN /\ os' \in OS /\ motion' \in MotionKinds
    BY <2>1, PostStep
  <2> QED
    BY <1>1, <2>2, ComparingActions DEF TypeOK
<1>2. ASSUME NEW on \in BOOLEAN, SetProcessing(on) PROVE TypeOK'
  BY <1>2 DEF TypeOK, SetProcessing, MotionKinds
<1>3. CASE SetGeometry
  BY <1>3, ConstantsAssumption DEF TypeOK, SetGeometry, MotionKinds
<1>4. CASE InitializeForPort
  <2>1. tabletOn' \in BOOLEAN /\ active' \in BOOLEAN
    BY <1>4, Zenon DEF TypeOK, InitializeForPort
  <2>2. stylus' \in Report /\ oldButtonState' \in SUBSET SystemButtons
    BY <1>4, NoPenType DEF TypeOK, InitializeForPort
  <2> QED
    BY <1>4, <2>1, <2>2 DEF TypeOK, InitializeForPort, MotionKinds
<1>5. CASE UNCHANGED vars
  BY <1>5 DEF TypeOK, vars
<1> QED
  BY <1>1, <1>2, <1>3, <1>4, <1>5 DEF Next

\* The type invariant: every variable of the event poster keeps its type
\* through all handlers (PostChangeEvents, InitStylus, HandleMessage).
THEOREM TypeCorrect == Spec => []TypeOK
  BY InitType, NextType, PTL DEF Spec

(***************************************************************************)
(* The left button.                                                        *)
(***************************************************************************)
\* A comparison made with the output on never makes the left button stuck.
LEMMA PostKeepsLeftFree ==
  ASSUME TypeOK, tabletOn, NoStuckLeft,
         NEW new \in Report, NEW moved \in BOOLEAN, PostChangeEvents(new, moved)
  PROVE  NoStuckLeft'
<1> DEFINE was == oldButtonState
           now == oldButtonState'
<1>1. "left" \in os'.held <=>
        Follows("SysEraser", LeftAfter("left" \in os.held, was, now), was, now)
  BY PostStep
<1>2. dragState' = DragAfter(was, now)
  BY PostStep
<1> QED
  BY <1>1, <1>2 DEF NoStuckLeft, LeftMeant, Follows, LeftAfter, LeftGrabbed, LeftClicked,
       DragAfter, DragToggled, Pressed, Released

\* A left button gets stuck only through a comparison with the output off or
\* a reinitialisation, whatever the constants, whatever the initial memory.
THEOREM StuckOnlyByLapseHolds == Spec => StuckOnlyByLapse
<1>1. TypeOK /\ [Next]_vars =>
        [~LeftStuck /\ LeftStuck' => ~tabletOn \/ InitializeForPort]_vars
  <2> SUFFICES ASSUME TypeOK, Next, ~LeftStuck, LeftStuck', tabletOn, ~InitializeForPort
               PROVE  FALSE
    BY DEF vars
  <2>1. NoStuckLeft /\ ~NoStuckLeft'
    BY DEF LeftStuck, NoStuckLeft
  <2>2. CASE ProcessPacket \/ ResetStylus
    BY <2>1, <2>2, ComparingActions, PostKeepsLeftFree
  <2>3. ASSUME NEW on \in BOOLEAN, SetProcessing(on) PROVE FALSE
    BY <2>1, <2>3 DEF SetProcessing, NoStuckLeft, LeftMeant
  <2>4. CASE SetGeometry
    BY <2>1, <2>4 DEF SetGeometry, NoStuckLeft, LeftMeant
  <2> QED
    BY <2>2, <2>3, <2>4 DEF Next
<1> QED
  BY <1>1, TypeCorrect, PTL DEF Spec, StuckOnlyByLapse

\* A release of Button 1 frees the left button and ends the drag, from every
\* reachable state, stuck ones included.
THEOREM ReleaseFreesHolds == Spec => ReleaseFrees
<1> DEFINE A == /\ tabletOn
                /\ ~InitializeForPort
                /\ Released("Button1", oldButtonState, oldButtonState')
                /\ ~Pressed("SysEraser", oldButtonState, oldButtonState')
                => "left" \notin os'.held /\ ~dragState'
<1>1. TypeOK /\ [Next]_vars => [A]_vars
  <2> SUFFICES ASSUME TypeOK, Next, tabletOn, ~InitializeForPort,
                      Released("Button1", oldButtonState, oldButtonState'),
                      ~Pressed("SysEraser", oldButtonState, oldButtonState')
               PROVE  "left" \notin os'.held /\ ~dragState'
    BY DEF vars
  <2>1. CASE ProcessPacket \/ ResetStylus
    <3>1. PICK new \in Report, moved \in BOOLEAN : PostChangeEvents(new, moved)
      BY <2>1, ComparingActions
    <3>2. /\ dragState' = DragAfter(oldButtonState, oldButtonState')
          /\ "left" \in os'.held <=>
               Follows("SysEraser", LeftAfter("left" \in os.held, oldButtonState, oldButtonState'),
                       oldButtonState, oldButtonState')
      BY <3>1, PostStep
    <3> QED
      BY <3>2 DEF Follows, LeftAfter, DragAfter, Pressed, Released
  <2>2. ASSUME NEW on \in BOOLEAN, SetProcessing(on) PROVE FALSE
    BY <2>2 DEF SetProcessing, Released
  <2>3. CASE SetGeometry
    BY <2>3 DEF SetGeometry, Released
  <2> QED
    BY <2>1, <2>2, <2>3 DEF Next
<1> QED
  BY <1>1, TypeCorrect, PTL DEF Spec, ReleaseFrees

\* In every history, stops and reinitialisations included, a move posted while
\* the left button is held and meant to be is a drag.
THEOREM HeldMovesAreDragsHolds == Spec => []HeldMovesAreDrags
<1>1. Init => HeldMovesAreDrags
  BY DEF Init, HeldMovesAreDrags
<1>2. TypeOK /\ HeldMovesAreDrags /\ [Next]_vars => HeldMovesAreDrags'
  <2> SUFFICES ASSUME TypeOK, HeldMovesAreDrags, [Next]_vars PROVE HeldMovesAreDrags'
    OBVIOUS
  <2>1. CASE ProcessPacket \/ ResetStylus
    <3>1. PICK new \in Report, moved \in BOOLEAN : PostChangeEvents(new, moved)
      BY <2>1, ComparingActions
    <3> DEFINE was == oldButtonState
               now == ButtonState(new.button)
    <3>2. /\ motion' # "none" => motion' = MotionKind(now) /\ ~PostedPosition(was, now)
          /\ oldButtonState' = now
          /\ dragState' = DragAfter(was, now)
      BY <3>1 DEF PostChangeEvents
    <3>3. ~PostedPosition(was, now) /\ DragAfter(was, now) => dragState \/ "Button1" \in now
      BY DEF PostedPosition, DragAfter, DragToggled
    <3> QED
      BY <3>2, <3>3 DEF HeldMovesAreDrags, LeftMeant, MotionKind
  <2>2. CASE motion' = "none"
    BY <2>2 DEF HeldMovesAreDrags
  <2>3. CASE UNCHANGED vars
    BY <2>3 DEF vars, HeldMovesAreDrags, LeftMeant
  <2> QED
    BY <2>1, <2>2, <2>3 DEF Next, SetProcessing, SetGeometry, InitializeForPort
<1> QED
  BY <1>1, <1>2, TypeCorrect, PTL DEF Spec

(***************************************************************************)
(* The invariant of a daemon whose output is never interrupted: besides    *)
(* the three properties it only has to say that the output stays on.       *)
(***************************************************************************)
SteadyInv ==
  /\ tabletOn
  /\ NoStuckLeft
  /\ OtherButtonsUpToSpeed
  /\ ProximityUpToSpeed

\* The actions left in a steady daemon.
LEMMA SteadyActions ==
  ASSUME SteadyOutput, [Next]_vars
  PROVE  \/ ProcessPacket \/ ResetStylus
         \/ SetProcessing(TRUE) \/ SetGeometry \/ UNCHANGED vars
  BY DEF SteadyOutput, Next, SetProcessing, InitializeForPort

\* The steady invariant holds when a tablet was found and the output is on.
LEMMA InitSteady == SteadyOutput /\ Init => SteadyInv
<1> SUFFICES ASSUME SteadyOutput, Init PROVE SteadyInv
  OBVIOUS
<1>1. tabletOn = TRUE
  BY DEF SteadyOutput, Init
<1>2. os.held = {} /\ os.near = FALSE
  BY DEF Init
<1>3. stylus.off = TRUE /\ oldButtonState = {}
  BY DEF SteadyOutput, Init, NoPen
<1> QED
  BY <1>1, <1>2, <1>3 DEF SteadyInv, NoStuckLeft, OtherButtonsUpToSpeed,
       ProximityUpToSpeed

\* A comparison with the output on keeps the steady invariant.
LEMMA PostSteady ==
  ASSUME TypeOK, SteadyInv,
         NEW new \in Report, NEW moved \in BOOLEAN, PostChangeEvents(new, moved)
  PROVE  NoStuckLeft' /\ OtherButtonsUpToSpeed' /\ ProximityUpToSpeed'
<1> DEFINE was == oldButtonState
           now == oldButtonState'
<1>1. NoStuckLeft'
  BY PostKeepsLeftFree DEF SteadyInv
<1>2. OtherButtonsUpToSpeed'
  BY PostStep DEF SteadyInv, OtherButtonsUpToSpeed, Follows, Pressed, Released
<1>3. ProximityUpToSpeed'
  <2>1. /\ os'.near = IF stylus.off # new.off THEN ~new.off ELSE os.near
        /\ stylus' = new
    BY PostStep DEF SteadyInv
  <2>2. stylus.off \in BOOLEAN /\ new.off \in BOOLEAN /\ os.near \in BOOLEAN
    BY DEF TypeOK, Report, OS
  <2> QED
    BY <2>1, <2>2 DEF SteadyInv, ProximityUpToSpeed
<1> QED
  BY <1>1, <1>2, <1>3

\* Every action of a steady daemon keeps the steady invariant.
LEMMA NextSteady == SteadyOutput /\ TypeOK /\ SteadyInv /\ [Next]_vars => SteadyInv'
<1> SUFFICES ASSUME SteadyOutput, TypeOK, SteadyInv, [Next]_vars PROVE SteadyInv'
  OBVIOUS
<1>1. CASE ProcessPacket \/ ResetStylus
  <2>1. tabletOn'
    BY <1>1, ComparingActions DEF SteadyInv
  <2>2. PICK new \in Report, moved \in BOOLEAN : PostChangeEvents(new, moved)
    BY <1>1, ComparingActions
  <2> QED
    BY <2>1, <2>2, PostSteady DEF SteadyInv
<1>2. CASE SetProcessing(TRUE)
  BY <1>2 DEF SteadyInv, SetProcessing, NoStuckLeft, LeftMeant, OtherButtonsUpToSpeed,
       ProximityUpToSpeed
<1>3. CASE SetGeometry
  BY <1>3 DEF SteadyInv, SetGeometry, NoStuckLeft, LeftMeant, OtherButtonsUpToSpeed,
       ProximityUpToSpeed
<1>4. CASE UNCHANGED vars
  BY <1>4 DEF SteadyInv, vars, NoStuckLeft, LeftMeant, OtherButtonsUpToSpeed,
       ProximityUpToSpeed
<1> QED
  BY <1>1, <1>2, <1>3, <1>4, SteadyActions

\* Without interruptions the left button is never stuck, and the other buttons
\* and the proximity follow the pen exactly, for all mappings, reports and
\* orders of requests.
THEOREM SteadyCorrect ==
  ASSUME SteadyOutput
  PROVE  Spec => [](NoStuckLeft /\ OtherButtonsUpToSpeed /\ ProximityUpToSpeed)
<1>1. Init => SteadyInv
  BY InitSteady
<1>2. TypeOK /\ SteadyInv /\ [Next]_vars => SteadyInv'
  BY NextSteady
<1>3. SteadyInv => NoStuckLeft /\ OtherButtonsUpToSpeed /\ ProximityUpToSpeed
  BY DEF SteadyInv
<1> QED
  BY <1>1, <1>2, <1>3, TypeCorrect, PTL DEF Spec

\* The pen's proximity alone: the system is told exactly once of each entry and
\* exit, for all mappings, whatever is panicked and remapped.
THEOREM ProximityUpToSpeedHolds ==
  ASSUME SteadyOutput
  PROVE  Spec => []ProximityUpToSpeed
  BY SteadyCorrect, PTL

(***************************************************************************)
(* With plain mappings no drag is ever locked and no system button but     *)
(* Button 1 drives the left button; clicks then restore what they release. *)
(***************************************************************************)
PlainInv ==
  /\ tabletOn
  /\ mapping \in Mappings
  /\ ~dragState
  /\ oldButtonState \intersect {"SysEraser", "ClickOrRelease"} = {}
  /\ LeftUpToSpeed

LEMMA InitPlain == SteadyOutput /\ Init => PlainInv
<1> SUFFICES ASSUME SteadyOutput, Init PROVE PlainInv
  OBVIOUS
<1>1. tabletOn = TRUE
  BY DEF SteadyOutput, Init
<1>2. /\ mapping \in Mappings /\ dragState = FALSE
      /\ oldButtonState = {} /\ os.held = {}
  BY DEF SteadyOutput, Init
<1> QED
  BY <1>1, <1>2 DEF PlainInv, LeftUpToSpeed

\* With plain mappings every action keeps the left button up to speed.
LEMMA NextPlain ==
  SteadyOutput /\ PlainMappings /\ TypeOK /\ PlainInv /\ [Next]_vars => PlainInv'
<1> SUFFICES ASSUME SteadyOutput, PlainMappings, TypeOK, PlainInv, [Next]_vars
             PROVE  PlainInv'
  OBVIOUS
<1>1. CASE ProcessPacket \/ ResetStylus
  <2> DEFINE was == oldButtonState
             now == oldButtonState'
  <2>1. tabletOn' /\ mapping' \in Mappings
    BY <1>1, ComparingActions DEF PlainInv
  <2>2. PICK new \in Report, moved \in BOOLEAN : PostChangeEvents(new, moved)
    BY <1>1, ComparingActions
  <2>3. now \intersect {"SysEraser", "ClickOrRelease"} = {}
    <3>1. now = ButtonState(new.button) /\ new.button \subseteq StylusButtons
      BY <2>2, PostStep DEF Report
    <3> QED
      BY <3>1 DEF PlainInv, PlainMappings, ButtonState
  <2>4. ~dragState'
    BY <2>2, PostStep DEF PlainInv, DragAfter, DragToggled, Released
  <2>5. "left" \in os'.held <=>
          Follows("SysEraser", LeftAfter("left" \in os.held, was, now), was, now)
    BY <2>2, PostStep DEF PlainInv
  <2>6. LeftUpToSpeed'
    BY <2>3, <2>5 DEF PlainInv, LeftUpToSpeed, Follows, LeftAfter, LeftGrabbed, LeftClicked,
         DragAfter, DragToggled, Pressed, Released
  <2> QED
    BY <2>1, <2>3, <2>4, <2>6 DEF PlainInv
<1>2. CASE SetProcessing(TRUE)
  BY <1>2 DEF PlainInv, SetProcessing, LeftUpToSpeed
<1>3. CASE SetGeometry
  BY <1>3 DEF PlainInv, SetGeometry, LeftUpToSpeed
<1>4. CASE UNCHANGED vars
  BY <1>4 DEF PlainInv, vars, LeftUpToSpeed
<1> QED
  BY <1>1, <1>2, <1>3, <1>4, SteadyActions

\* The left button follows Button 1 exactly, synthesised clicks and mapping
\* changes made while pressed included, when nothing else drives it.
THEOREM PlainCorrect ==
  ASSUME SteadyOutput, PlainMappings
  PROVE  Spec => []LeftUpToSpeed
<1>1. Init => PlainInv
  BY InitPlain
<1>2. TypeOK /\ PlainInv /\ [Next]_vars => PlainInv'
  BY NextPlain
<1>3. PlainInv => LeftUpToSpeed
  BY DEF PlainInv
<1> QED
  BY <1>1, <1>2, <1>3, TypeCorrect, PTL DEF Spec

(***************************************************************************)
(* Redundant events.  One is posted only where the system's view of a      *)
(* button and the daemon's differ at the moment of the event, so each      *)
(* block is followed with what it is given and what it leaves.             *)
(***************************************************************************)
\* Nothing redundant so far, and button b is as system button k was.
Clean(o, b, held) == o \in OS /\ ~o.redundant /\ (b \in o.held <=> held)

\* A press of a free button, a release of a held one and a click of a free
\* left button are news to the system.
LEMMA CleanEvents ==
  ASSUME tabletOn, NEW o \in OS, ~o.redundant, NEW b \in MouseButtons
  PROVE  /\ b \notin o.held => Clean(Press(o, b), b, TRUE)
         /\ b \in o.held => Clean(Release(o, b), b, FALSE)
         /\ "left" \notin o.held => Clean(Click(o), "left", FALSE)
<1>1. ASSUME NEW q \in OS, ~q.redundant, NEW c \in MouseButtons, c \notin q.held
      PROVE  Clean(Press(q, c), c, TRUE)
  BY <1>1 DEF Press, OS, Clean
<1>2. ASSUME NEW q \in OS, ~q.redundant, NEW c \in MouseButtons, c \in q.held
      PROVE  Clean(Release(q, c), c, FALSE)
  BY <1>2 DEF Release, OS, Clean
<1>3. ASSUME "left" \notin o.held PROVE Clean(Click(o), "left", FALSE)
  <2> DEFINE p == Press(o, "left")
  <2>1. "left" \in MouseButtons
    BY DEF MouseButtons
  <2>2. Clean(p, "left", TRUE)
    BY <1>1, <1>3, <2>1
  <2> HIDE DEF p
  <2>3. Clean(Release(p, "left"), "left", FALSE)
    BY <1>2, <2>1, <2>2 DEF Clean
  <2> QED
    BY <2>3 DEF Click, p
<1> QED
  BY <1>1, <1>2, <1>3

\* The synthesised clicks release a held Button 1 first and press it again.
LEMMA CleanClicks ==
  ASSUME tabletOn, NEW was, NEW now, NEW o, Clean(o, "left", "Button1" \in was)
  PROVE  /\ Clean(DoubleClickBlock(o, was, now), "left", "Button1" \in was)
         /\ Clean(SingleClickBlock(o, was, now), "left", "Button1" \in was)
<1> DEFINE free == Release(o, "left")
           once == Click(o)
           clicked == Click(free)
<1>1. "left" \in MouseButtons
  BY DEF MouseButtons
<1>2. CASE "Button1" \in was
  <2>1. Clean(free, "left", FALSE)
    BY <1>1, <1>2, CleanEvents DEF Clean
  <2> HIDE DEF free
  <2>2. Clean(clicked, "left", FALSE)
    BY <1>1, <2>1, CleanEvents DEF Clean
  <2> HIDE DEF clicked
  <2>3. Clean(Press(clicked, "left"), "left", TRUE)
    BY <1>1, <2>2, CleanEvents DEF Clean
  <2>4. /\ DoubleClickBlock(o, was, now) \in {o, Press(clicked, "left")}
        /\ SingleClickBlock(o, was, now) \in {o, Press(clicked, "left")}
    BY <1>2 DEF DoubleClickBlock, SingleClickBlock, clicked, free
  <2> QED
    BY <1>2, <2>3, <2>4 DEF Clean
<1>3. CASE "Button1" \notin was
  <2>1. Clean(once, "left", FALSE)
    BY <1>1, <1>3, CleanEvents DEF Clean
  <2>2. /\ DoubleClickBlock(o, was, now) \in {o, Click(once)}
        /\ SingleClickBlock(o, was, now) \in {o, once}
    BY <1>3 DEF DoubleClickBlock, SingleClickBlock
  <2> HIDE DEF once
  <2>3. Clean(Click(once), "left", FALSE)
    BY <1>1, <2>1, CleanEvents DEF Clean
  <2> QED
    BY <1>3, <2>1, <2>2, <2>3 DEF Clean
<1> QED
  BY <1>2, <1>3

\* A block that follows k is clean if its button was as k was.
LEMMA CleanChange ==
  ASSUME tabletOn, NEW was, NEW now, NEW k, NEW b \in MouseButtons, NEW o,
         Clean(o, b, k \in was)
  PROVE  ~ChangeBlock(o, k, b, was, now).redundant
<1>1. CASE Pressed(k, was, now)
  BY <1>1, CleanEvents DEF Clean, ChangeBlock, Pressed
<1>2. CASE Released(k, was, now)
  BY <1>2, CleanEvents DEF Clean, ChangeBlock, Pressed, Released
<1>3. CASE ~Pressed(k, was, now) /\ ~Released(k, was, now)
  BY <1>3 DEF Clean, ChangeBlock
<1> QED
  BY <1>1, <1>2, <1>3

\* All blocks, between reports without the eraser and the drag lock, from a
\* system that has every button and the proximity right.
LEMMA CleanPostAll ==
  ASSUME tabletOn, ~dragState, NEW o \in OS, ~o.redundant,
         NEW wasOff \in BOOLEAN, NEW isOff \in BOOLEAN, o.near = ~wasOff,
         NEW was, NEW now,
         (was \union now) \intersect {"SysEraser", "ClickOrRelease"} = {},
         "left"   \in o.held <=> "Button1" \in was,
         "right"  \in o.held <=> "Button2" \in was,
         "other3" \in o.held <=> "Button3" \in was,
         "other4" \in o.held <=> "Button4" \in was,
         "other5" \in o.held <=> "Button5" \in was
  PROVE  ~PostAll(o, wasOff, isOff, was, now).redundant
<1> DEFINE o1 == ProximityBlock(o, wasOff, isOff)
           d1 == DoubleClickBlock(o1, was, now)
           d2 == SingleClickBlock(d1, was, now)
           o2 == LeftBlocks(o1, was, now)
           o3 == ChangeBlock(o2, "Button2", "right", was, now)
           o5 == ChangeBlock(o3, "Button3", "other3", was, now)
           o6 == ChangeBlock(o5, "Button4", "other4", was, now)
           o7 == ChangeBlock(o6, "Button5", "other5", was, now)
<1>0. /\ "left" \in MouseButtons /\ "right" \in MouseButtons /\ "other3" \in MouseButtons
      /\ "other4" \in MouseButtons /\ "other5" \in MouseButtons
  BY DEF MouseButtons
<1>1. o1 \in OS /\ o1.held = o.held /\ ~o1.redundant
  BY DEF ProximityBlock, Proximity, OS
<1>2. o2 = ChangeBlock(d2, "Button1", "left", was, now)
  <2>1. ~DragToggled(was, now) /\ ~DragAfter(was, now)
    BY DEF DragToggled, DragAfter, Released
  <2>2. GrabOrDropBlock(d2, was, now) = d2
    BY DEF GrabOrDropBlock, Released
  <2> QED
    BY <2>1, <2>2 DEF LeftBlocks, Button1Block
<1>3. DrivesLeft(o1, o2, LeftAfter("left" \in o1.held, was, now))
  BY <1>1, LeftBlocksFacts
<1>4. o3 = ChangeBlock(o3, "SysEraser", "left", was, now)
  BY DEF ChangeBlock, Pressed, Released
<1>5. PostAll(o, wasOff, isOff, was, now) = o7
  BY <1>4 DEF PostAll, OtherBlocks
<1> HIDE DEF o1
<1>6. Clean(o1, "left", "Button1" \in was)
  BY <1>1 DEF Clean
<1>7. Clean(d1, "left", "Button1" \in was)
  BY <1>6, CleanClicks
<1> HIDE DEF d1
<1>8. Clean(d2, "left", "Button1" \in was)
  BY <1>7, CleanClicks
<1> HIDE DEF d2, o2
<1>9. o2 \in OS /\ ~o2.redundant
  BY <1>0, <1>2, <1>3, <1>8, CleanChange DEF DrivesLeft
<1>10. DrivesButton(o2, o3, "Button2", "right", was, now)
  BY <1>0, <1>9, ChangeFacts
<1>11. ~o3.redundant
  <2>1. Clean(o2, "right", "Button2" \in was)
    BY <1>1, <1>3, <1>9 DEF Clean, DrivesLeft
  <2> QED
    BY <1>0, <2>1, CleanChange
<1> HIDE DEF o3
<1>12. DrivesButton(o3, o5, "Button3", "other3", was, now)
  BY <1>0, <1>10, ChangeFacts DEF DrivesButton
<1>13. ~o5.redundant
  <2>1. "other3" \in o3.held <=> "other3" \in o.held
    BY <1>1, <1>3, <1>10 DEF DrivesLeft, DrivesButton
  <2>2. Clean(o3, "other3", "Button3" \in was)
    BY <1>10, <1>11, <2>1 DEF Clean, DrivesButton
  <2> QED
    BY <1>0, <2>2, CleanChange
<1> HIDE DEF o5
<1>14. DrivesButton(o5, o6, "Button4", "other4", was, now)
  BY <1>0, <1>12, ChangeFacts DEF DrivesButton
<1>15. ~o6.redundant
  <2>1. "other4" \in o5.held <=> "other4" \in o.held
    BY <1>1, <1>3, <1>10, <1>12 DEF DrivesLeft, DrivesButton
  <2>2. Clean(o5, "other4", "Button4" \in was)
    BY <1>12, <1>13, <2>1 DEF Clean, DrivesButton
  <2> QED
    BY <1>0, <2>2, CleanChange
<1> HIDE DEF o6
<1>16. ~o7.redundant
  <2>1. "other5" \in o6.held <=> "other5" \in o.held
    BY <1>1, <1>3, <1>10, <1>12, <1>14 DEF DrivesLeft, DrivesButton
  <2>2. Clean(o6, "other5", "Button5" \in was)
    BY <1>14, <1>15, <2>1 DEF Clean, DrivesButton
  <2> QED
    BY <1>0, <2>2, CleanChange
<1> QED
  BY <1>5, <1>16

LEMMA NextClean ==
  SteadyOutput /\ PlainMappings /\ TypeOK /\ SteadyInv /\ PlainInv /\ PlainInv'
    /\ NothingRedundant /\ [Next]_vars => NothingRedundant'
<1> SUFFICES ASSUME SteadyOutput, PlainMappings, TypeOK, SteadyInv, PlainInv, PlainInv',
                    NothingRedundant, [Next]_vars
             PROVE  NothingRedundant'
  OBVIOUS
<1>1. CASE ProcessPacket \/ ResetStylus
  <2>1. PICK new \in Report, moved \in BOOLEAN : PostChangeEvents(new, moved)
    BY <1>1, ComparingActions
  <2> DEFINE was == oldButtonState
             now == ButtonState(new.button)
             o   == [os EXCEPT !.redundant = FALSE]
  <2>2. os' = PostAll(o, stylus.off, new.off, was, now) /\ oldButtonState' = now
    BY <2>1 DEF PostChangeEvents
  <2>3. o \in OS /\ o.held = os.held /\ o.near = os.near /\ ~o.redundant
    BY DEF TypeOK, OS
  <2>4. stylus.off \in BOOLEAN /\ new.off \in BOOLEAN /\ os.near \in BOOLEAN
    BY DEF TypeOK, Report, OS
  <2>5. tabletOn /\ ~dragState
    BY DEF PlainInv
  <2>6. (was \union now) \intersect {"SysEraser", "ClickOrRelease"} = {}
    BY <2>2 DEF PlainInv
  <2> HIDE DEF o, now
  <2>7. o.near = ~stylus.off
    BY <2>3, <2>4 DEF SteadyInv, ProximityUpToSpeed
  <2>8. /\ "left"   \in o.held <=> "Button1" \in was
        /\ "right"  \in o.held <=> "Button2" \in was
        /\ "other3" \in o.held <=> "Button3" \in was
        /\ "other4" \in o.held <=> "Button4" \in was
        /\ "other5" \in o.held <=> "Button5" \in was
    BY <2>3 DEF PlainInv, LeftUpToSpeed, SteadyInv, OtherButtonsUpToSpeed
  <2>9. ~PostAll(o, stylus.off, new.off, was, now).redundant
    BY <2>3, <2>4, <2>5, <2>6, <2>7, <2>8, CleanPostAll
  <2> QED
    BY <2>2, <2>9 DEF NothingRedundant
<1>2. CASE SetProcessing(TRUE) \/ SetGeometry \/ UNCHANGED vars
  BY <1>2 DEF SetProcessing, SetGeometry, vars, NothingRedundant
<1> QED
  BY <1>1, <1>2, SteadyActions

\* With plain mappings and a steady output, no report, panic or change of the
\* mapping makes the daemon press what is held, release what is free or repeat
\* a proximity change: the synthesised clicks included.
THEOREM NothingRedundantHolds ==
  ASSUME SteadyOutput, PlainMappings
  PROVE  Spec => []NothingRedundant
<1>1. Init => SteadyInv /\ PlainInv /\ NothingRedundant
  BY InitSteady, InitPlain DEF Init, NothingRedundant
<1>2. TypeOK /\ SteadyInv /\ [Next]_vars => SteadyInv'
  BY NextSteady
<1>3. TypeOK /\ PlainInv /\ [Next]_vars => PlainInv'
  BY NextPlain
<1>4. TypeOK /\ SteadyInv /\ PlainInv /\ PlainInv' /\ NothingRedundant /\ [Next]_vars
        => NothingRedundant'
  BY NextClean
<1> QED
  BY <1>1, <1>2, <1>3, <1>4, TypeCorrect, PTL DEF Spec
=============================================================================
