------------------------------- MODULE Presets -------------------------------
(***************************************************************************)
(* The preference pane's presets, with the daemon they are sent to.        *)
(*                                                                         *)
(* One geometry is kept in up to six places: the daemon's, the preset that *)
(* is active, its entry in the list, the area chooser that shows it, the   *)
(* preferences and the job that starts the daemon at login.  Each has a    *)
(* scale of its own, and each handler updates some of them.                *)
(*                                                                         *)
(* The chooser's lock of proportions and the screen chooser are left out.  *)
(***************************************************************************)
EXTENDS Geometry, FiniteSetsExt

CONSTANTS
  Names,       \* the names a user gives; "Custom" is the pane's own
  MaxPresets,  \* bound on the list
  MaxChanges,  \* bound on the user's changes
  UserScales,  \* the scales a user enters, 0 among them
  MayFail      \* TRUE: the launch helper and System Preferences may fail

ASSUME PresetsAssumption ==
  /\ "Untitled" \in Names
  /\ MaxPresets \in Nat \ {0}
  /\ MaxChanges \in Nat
  /\ UserScales \subseteq Nat
  /\ MayFail \in BOOLEAN

VARIABLES
  pane,      \* "out", "loaded" or "shown"
  isLoaded,  \* the pane's last answer to whether a daemon is running
  book,      \* presetsArray, activePresetIndex and activePreset
  chooser,   \* maxWidth of chooserTablet and the area it shows
  armed,     \* the auto start timer is set to fire
  autoStart, \* checkAutoStart
  saved,     \* the preferences: list and index
  startup,   \* the arguments of the login job: one record, or none
  stray,     \* since the pane last knew the daemon's geometry, one of them
             \* was changed without the other
  orderly,   \* the pane was last closed with all that belongs to it
  changes    \* the user's changes so far

paneVars == <<pane, isLoaded, book, chooser, armed, autoStart, saved, startup,
              stray, orderly, changes>>
vars == <<daemonVars, paneVars>>

Preset == [name : Names \union {"Custom"}, range : Nat, area : Nat,
           tip : Tips, scaling : Scalings]

\* initProperties
DefaultPreset == [name |-> "Untitled", range |-> DefaultScale, area |-> DefaultScale,
                  tip |-> DefaultTip, scaling |-> 1]

\* What a pane holds that is not loaded, and the chooser as initControls sets it.
NoBook == [presets |-> <<DefaultPreset>>, index |-> 1, active |-> DefaultPreset]
NoChooser == [max |-> DefaultScale, area |-> DefaultScale]

-----------------------------------------------------------------------------
(* The choosers: setFromPresetWidth and updateMaxWidth keep proportions, *)
(* sanityCheckArea keeps the area within the control.  A range of 0 has  *)
(* none: the edges are not numbers until a preset is set again.          *)

Scaled(x, old, new) == IF x = NaN \/ old = 0 THEN NaN ELSE (x * new) \div old

SanityCheckArea(area, max) == IF area > max THEN max ELSE area

SetFromPreset(c, p) ==
  [c EXCEPT !.area = SanityCheckArea(Scaled(p.area, p.range, c.max), c.max)]

\* Faulty: the control's range is changed and its area stays.
MutUpdateMaxWidth(c, w) == [max |-> w, area |-> SanityCheckArea(c.area, w)]

UpdateMaxWidth(c, w) ==
  [max |-> w, area |-> SanityCheckArea(Scaled(c.area, c.max, w), w)]

ShowsWhole(c, p) == Exact(p.area, p.range, c.max)

-----------------------------------------------------------------------------
(* The list and the active preset. *)

ActivatePresetIndex(b, i) ==
  IF i <= Len(b.presets) THEN [b EXCEPT !.active = b.presets[i]] ELSE b

\* Faulty: forgets the entry that the preset came from.
MutSynchronizePresetInArray(b) == [b EXCEPT !.presets[1] = b.active]

SynchronizePresetInArray(b) == [b EXCEPT !.presets[b.index] = b.active]

AddPresetNamed(b, n) ==
  LET new == [b.active EXCEPT !.name = n]
  IN  [presets |-> Append(b.presets, new), index |-> Len(b.presets) + 1, active |-> new]

\* The comparison of the tip's button is an assignment: any but 0 is equal.
Matches(p, g) == p.area = g.area /\ g.tip # 0 /\ p.scaling = g.scaling

\* The first that matches, else the Custom one, else a new Custom one.  A preset
\* found is made active; only a new one is selected as well.
ActivatePresetMatching(b, g) ==
  LET matching == {i \in DOMAIN b.presets : Matches(b.presets[i], g)}
      custom   == {i \in DOMAIN b.presets : b.presets[i].name = "Custom"}
  IN  IF matching # {} THEN ActivatePresetIndex(b, Min(matching))
      ELSE IF custom # {} THEN ActivatePresetIndex(b, Min(custom))
      ELSE AddPresetNamed(b, "Custom")

\* An area that cannot be read as integers makes sscanf fail.
Readable(g) == g.area >= 0

GeometryReceived(b, g) ==
  IF ~Readable(g) THEN b
  ELSE LET found == ActivatePresetMatching(b, g)
           area  == IF g.area > 1 THEN g.area ELSE found.active.area
       IN  SynchronizePresetInArray(
             [found EXCEPT !.active.area = area, !.active.tip = g.tip,
                           !.active.scaling = g.scaling])

UpdatePresetFromControls(b, c, tip) ==
  SynchronizePresetInArray(
    [b EXCEPT !.active.range = c.max, !.active.area = c.area, !.active.tip = tip])

-----------------------------------------------------------------------------
(* What the pane sends and what it learns. *)

SendPresetToDaemon(p) ==
  IF running THEN /\ geo' = SetGeometry(geo, p.area, p.tip)
                  /\ zeroed' = (zeroed /\ geo.scale = 0)
  ELSE UNCHANGED <<geo, zeroed>>

\* "mmode"
SendMouseModeToDaemon(p) ==
  /\ geo' = IF running THEN SetMouseScaling(geo, p.scaling) ELSE geo
  /\ UNCHANGED zeroed

\* [geom] and then [scale], the requests of a pane that finds a tablet ready.  An
\* area the daemon has not got is sent to it.
LearnGeometry(b, c) ==
  LET learned == GeometryReceived(b, geo)
      shown   == IF Readable(geo) THEN SetFromPreset(c, learned.active) ELSE c
  IN  /\ Readable(geo) => ShowsWhole(c, learned.active)
      /\ Exact(shown.area, shown.max, geo.scale)
      /\ Len(learned.presets) <= MaxPresets
      /\ book' = learned
      /\ chooser' = UpdateMaxWidth(shown, geo.scale)
      /\ stray' = ~Readable(geo)
      /\ IF Readable(geo) /\ geo.area <= 1 THEN SendPresetToDaemon(book'.active)
         ELSE UNCHANGED <<geo, zeroed>>

\* Faulty: the area is taken from the control that shows it.
MutStartupArgs(p) == [area |-> chooser.area, tip |-> p.tip]

StartupArgs(p) == [area |-> p.area, tip |-> p.tip]

\* The helper removes the job's file and then puts the new one in its place.  It may
\* not run, or fail after the first of the two; it is not asked which.
LaunchHelperFails == MayFail /\ startup' \in {startup, << >>}

InstallsJob(state) == startup' = IF state THEN <<StartupArgs(book.active)>> ELSE << >>

UpdateAutoStart ==
  \/ InstallsJob(autoStart) /\ orderly' = (pane' = "loaded")
  \/ LaunchHelperFails /\ orderly' = FALSE

\* The checkbox shows whether there is a job.
UpdateAutoStartCheckbox == autoStart' = (startup # << >>)

SavePreferences == saved' = [presets |-> book.presets, index |-> book.index]

\* The presets of the preferences.  A list that is empty gets the default one.
LoadPresets ==
  LET list == IF saved.presets = << >> THEN <<DefaultPreset>> ELSE saved.presets
  IN  ActivatePresetIndex([NoBook EXCEPT !.presets = list, !.index = saved.index], saved.index)

-----------------------------------------------------------------------------
(* The pane comes and goes. *)

\* mainViewDidLoad.  The chooser starts with the default range.
Load ==
  /\ pane = "out"
  /\ pane' = "loaded"
  /\ isLoaded' = running
  /\ UpdateAutoStartCheckbox
  /\ armed' = FALSE
  /\ LET loaded == LoadPresets
         shown  == SetFromPreset(NoChooser, loaded.active)
     IN  /\ ShowsWhole(NoChooser, loaded.active)
         /\ IF running THEN LearnGeometry(loaded, shown)
            ELSE book' = loaded /\ chooser' = shown /\ UNCHANGED <<geo, zeroed, stray>>
  /\ UNCHANGED <<tablet, running, stream, due, saved, startup, orderly, changes>>

\* paneDidSelect: "hello" flushes what was queued, if the pane believes that there
\* is a daemon; the tab that watches the stylus starts the stream.
Show ==
  /\ pane = "loaded"
  /\ pane' = "shown"
  /\ IF isLoaded THEN /\ due' = << >>
                      /\ stray' = (stray \/ due # << >>)
                      /\ stream' \in {stream, running}
     ELSE UNCHANGED <<due, stray, stream>>
  /\ UNCHANGED <<tablet, running, geo, zeroed, isLoaded, book, chooser, armed,
                 autoStart, saved, startup, orderly, changes>>

\* paneWillUnselect: "bye" is sent to whoever listens, and flushes, too.
Hide ==
  /\ pane = "shown"
  /\ pane' = "loaded"
  /\ due' = << >>
  /\ stray' = (stray \/ due # << >>)
  /\ SavePreferences
  /\ armed' = FALSE
  /\ stream' = FALSE
  /\ UpdateAutoStart
  /\ UNCHANGED <<tablet, running, geo, zeroed, isLoaded, book, chooser, autoStart,
                 changes>>

\* System Preferences ends, after paneWillUnselect or without.
PaneEnds ==
  /\ pane = "loaded" \/ (pane = "shown" /\ MayFail)
  /\ pane' = "out"
  /\ isLoaded' = FALSE
  /\ orderly' = (orderly /\ pane = "loaded")
  /\ book' = NoBook
  /\ chooser' = NoChooser
  /\ armed' = FALSE
  /\ autoStart' = FALSE
  /\ stray' = FALSE
  /\ UNCHANGED <<daemonVars, saved, startup, changes>>

\* doPingTimer's "next".  The [info] that a [ready] makes it ask for makes it look
\* for the daemon as well, if it is not the one that a Testing reply must ignore.
Poll ==
  /\ pane = "shown"
  /\ running
  /\ due # << >>
  /\ due' = Tail(due)
  /\ IF Head(due) = Ready THEN /\ LearnGeometry(book, chooser)
                              /\ isLoaded' \in {isLoaded, TRUE}
     ELSE /\ Exact(chooser.area, chooser.max, Head(due))
          /\ chooser' = UpdateMaxWidth(chooser, Head(due))
          /\ UNCHANGED <<geo, zeroed, isLoaded, book, stray>>
  /\ UNCHANGED <<tablet, running, stream, pane, armed, autoStart, saved, startup,
                 orderly, changes>>

\* The pane looks for the daemon: on [bye] and [none], and when its Enabled box is
\* clicked while there is one.
IsDaemonLoaded ==
  /\ pane # "out"
  /\ isLoaded' = running
  /\ UNCHANGED <<daemonVars, pane, book, chooser, armed, autoStart, saved, startup,
                 stray, orderly, changes>>

\* selectedSerialPort looks as well, and sends "port" to the daemon it finds.
SelectedSerialPort ==
  /\ pane = "shown"
  /\ isLoaded' = running
  /\ Reinit
  /\ UNCHANGED <<pane, book, chooser, armed, autoStart, saved, startup, stray,
                 orderly, changes>>

-----------------------------------------------------------------------------
(* The user, with the pane in view. *)

Changes == pane = "shown" /\ changes < MaxChanges /\ changes' = changes + 1

KeepsDaemon == UNCHANGED <<tablet, running, stream, due>>
KeepsRecords == UNCHANGED <<pane, isLoaded, autoStart, saved, startup, orderly>>

\* selectedPreset and doDeletePreset end alike: activate, show and send.
Activated(b) ==
  /\ ShowsWhole(chooser, b.active)
  /\ book' = b
  /\ chooser' = SetFromPreset(chooser, b.active)
  /\ SendPresetToDaemon(b.active)
  /\ stray' = FALSE
  /\ UNCHANGED armed
  /\ KeepsDaemon /\ KeepsRecords

SelectedPreset ==
  /\ Changes
  /\ \E i \in DOMAIN book.presets :
       Activated(ActivatePresetIndex([book EXCEPT !.index = i], i))

\* Faulty: the last entry is deleted and its index kept.
MutWithoutSelected(b) ==
  [b EXCEPT !.presets = [i \in 1 .. Len(@) - 1 |-> IF i < b.index THEN @[i] ELSE @[i + 1]]]

WithoutSelected(b) ==
  LET rest == [i \in 1 .. Len(b.presets) - 1 |-> b.presets[IF i < b.index THEN i ELSE i + 1]]
  IN  [b EXCEPT !.presets = rest,
                !.index = IF b.index > Len(rest) THEN b.index - 1 ELSE b.index]

\* The button is enabled while there are two.
DoDeletePreset ==
  /\ Changes
  /\ Len(book.presets) > 1
  /\ LET b == WithoutSelected(book) IN Activated(ActivatePresetIndex(b, b.index))

DoAddPreset ==
  /\ Changes
  /\ Len(book.presets) < MaxPresets
  /\ \E n \in Names : book' = AddPresetNamed(book, n)
  /\ UNCHANGED <<geo, zeroed, chooser, stray, armed>>
  /\ KeepsDaemon /\ KeepsRecords

DoRenamePreset ==
  /\ Changes
  /\ \E n \in Names :
       book' = SynchronizePresetInArray([book EXCEPT !.active.name = n])
  /\ UNCHANGED <<geo, zeroed, chooser, stray, armed>>
  /\ KeepsDaemon /\ KeepsRecords

\* One control changed: the area is dragged to all or half of the chooser, or
\* another button chosen for the tip.  It is sent if the pane believes that there is
\* a daemon.  What edges that are not numbers make of a preset is left out.
PresetChanged ==
  /\ Changes
  /\ chooser.area # NaN
  /\ \E area \in 0..chooser.max, tip \in Tips :
       /\ \/ tip = book.active.tip /\ area > 0 /\ area \in {chooser.max, chooser.max \div 2}
          \/ tip # book.active.tip /\ area = chooser.area
       /\ chooser' = [chooser EXCEPT !.area = area]
       /\ book' = UpdatePresetFromControls(book, chooser', tip)
  /\ IF isLoaded THEN SendPresetToDaemon(book'.active) ELSE UNCHANGED <<geo, zeroed>>
  /\ stray' = (running /\ ~isLoaded)
  /\ armed' = TRUE
  /\ KeepsDaemon /\ KeepsRecords

MouseScalingChanged ==
  /\ Changes
  /\ \E s \in Scalings :
       book' = SynchronizePresetInArray([book EXCEPT !.active.scaling = s])
  /\ SendMouseModeToDaemon(book'.active)
  /\ armed' = TRUE
  /\ UNCHANGED <<chooser, stray>>
  /\ KeepsDaemon /\ KeepsRecords

\* doScaleTimer.  The preset keeps its range and its area.
ScaleChanged ==
  /\ Changes
  /\ \E h \in UserScales : /\ Exact(chooser.area, chooser.max, h)
                           /\ SetScale(h)
                           /\ chooser' = UpdateMaxWidth(chooser, h)
  /\ stray' = (stray \/ (geo' # geo))
  /\ UNCHANGED <<book, armed>>
  /\ KeepsDaemon /\ KeepsRecords

ToggleAutoStart ==
  /\ Changes
  /\ autoStart' = ~autoStart
  /\ InstallsJob(autoStart') \/ LaunchHelperFails
  /\ UNCHANGED <<daemonVars, pane, isLoaded, book, chooser, armed, saved, stray, orderly>>

\* doAutoStartTimer, 1.5 s after the last change
TimerFires ==
  /\ pane = "shown"
  /\ armed
  /\ armed' = FALSE
  /\ pane' = pane
  /\ UpdateAutoStart
  /\ UNCHANGED <<daemonVars, isLoaded, book, chooser, autoStart, saved, stray, changes>>

\* startDaemon of the pane, which has looked for the daemon before it starts it and
\* does not look again.
StartDaemon ==
  /\ pane = "shown"
  /\ Launch(StartupArgs(book.active))
  /\ isLoaded' = FALSE
  /\ UNCHANGED <<pane, book, chooser, armed, autoStart, saved, startup, stray,
                 orderly, changes>>

\* The job at login, or a launch by hand.
StartedOutside ==
  /\ \/ pane = "out" /\ startup # << >> /\ Launch(startup[1])
     \/ Launch(NoArgs)
  /\ UNCHANGED paneVars

DaemonAlone == (Reinit \/ Quit \/ (pane = "shown" /\ SetStream)) /\ UNCHANGED paneVars

Init ==
  /\ DaemonInit
  /\ pane = "out"
  /\ isLoaded = FALSE
  /\ book = NoBook
  /\ chooser = NoChooser
  /\ changes = 0
  /\ armed = FALSE
  /\ autoStart = FALSE
  /\ saved = [presets |-> << >>, index |-> 1]
  /\ startup = << >>
  /\ stray = FALSE
  /\ orderly = TRUE

Next ==
  \/ Load \/ Show \/ Hide \/ PaneEnds \/ Poll \/ IsDaemonLoaded \/ SelectedSerialPort
  \/ SelectedPreset \/ DoDeletePreset \/ DoAddPreset \/ DoRenamePreset
  \/ PresetChanged \/ MouseScalingChanged \/ ScaleChanged
  \/ ToggleAutoStart \/ TimerFires
  \/ StartDaemon \/ StartedOutside \/ DaemonAlone

Spec == Init /\ [][Next]_vars

-----------------------------------------------------------------------------
\* Types.  The index is always one of the list's, here and in the preferences.
Stored == [presets : Seq(Preset), index : Nat]
IsBook(b) == b.presets # << >> /\ b.index \in DOMAIN b.presets

TypeOK ==
  /\ DaemonTypeOK
  /\ pane \in {"out", "loaded", "shown"} /\ isLoaded \in BOOLEAN
  /\ book \in [presets : Seq(Preset), index : Nat, active : Preset] /\ IsBook(book)
  /\ Len(book.presets) <= MaxPresets
  /\ chooser \in [max : Nat, area : Nat \union {NaN}]
  /\ armed \in BOOLEAN /\ autoStart \in BOOLEAN
  /\ saved \in Stored /\ (IsBook(saved) \/ (saved.presets = << >> /\ saved.index = 1))
  /\ startup \in Seq(Args) /\ Len(startup) <= 1
  /\ stray \in BOOLEAN /\ orderly \in BOOLEAN
  /\ changes \in 0..MaxChanges

\* "When a preset changes automatically save it": whatever the handler, the entry
\* of the list that is selected is the preset that the handlers worked on.
ActiveIsStored == pane # "out" => book.presets[book.index] = book.active

\* TMAreaChooser.m, setFromPresetWidth: the values are "properly translated from the
\* original coordinate system to the current one".  Through all changes of scale,
\* the chooser shows the active preset's share of its own range, or, after a range
\* of 0, no area at all.
ChooserShowsActive ==
  pane # "out" /\ book.active.area <= book.active.range /\ chooser.area # NaN =>
    chooser.area * book.active.range = book.active.area * chooser.max

\* A pane that has polled all messages has the area and the button of the daemon,
\* unless a scale was entered, messages were flushed by "hello" and "bye", a preset
\* was changed while the pane believed that there is no daemon, or the daemon's
\* area is none that can be read.  A preset's -1 stands for the whole tablet.
PaneKnowsDaemon ==
  pane = "shown" /\ running /\ due = << >> /\ ~stray =>
    /\ book.active.area \in {Unset, geo.area}
    /\ book.active.tip = geo.tip

\* The job that starts the daemon at login has the arguments of the preset that
\* the pane will select, when the pane was closed and its helper has not failed.
LoginMatchesSaved ==
  pane = "out" /\ orderly /\ startup # << >> =>
    startup[1] = StartupArgs(saved.presets[saved.index])

\* "When [geom] arrives, either select the corresponding preset or create/update
\* the Custom preset": what comes from the daemon renames no other preset.
NamesKept ==
  [][Poll => \A i \in DOMAIN book.presets :
       book'.presets[i].name = book.presets[i].name]_vars
=============================================================================
