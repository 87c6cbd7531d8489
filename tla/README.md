# TLA+ models of TabletMagic

TabletMagic drives serial Wacom tablets on the Mac. A daemon
(`daemon/SerialDaemon.cpp`) finds the tablet on a serial port, decodes its
packets and posts mouse events; a preference pane (`prefpane/TMController.m`)
configures it. This directory holds TLA+ modules that model the parts of both
whose correctness depends on order, loss, timing and stale state, the TLC
configurations that check them, and TLAPS proofs about each of the seven modules
with behaviour.

## The system

| Part | State | Operations | Talks to |
|---|---|---|---|
| Serial port (`TMSerialPort`) | open descriptor, path, speed, I/O registry iterator | Open, Close, ReInit, Read, ReadLine, scan | tablet; daemon |
| Framing (`ProcessSerialStream`) | `phrase`, `in_packet`, `comma_count`, `packet_size` | one byte at a time, on a 250 Hz timer | decoders, reply parser |
| Decoders (`ProcessWacom*`, `ProcessTabletPC`, ...) | `stylus`, `raw_pressure`, `eraser_flag`, `tool` | packet to stylus state | event generator |
| Event generator (`PostChangeEvents`) | `oldStylus`, `oldButtonState`, static `dragState` | compare with the last call, post events | window system |
| Geometry | tablet and screen bounds, scale | arguments, `geom`, `scale`, each initialisation, screen changes | event generator, presets |
| Settings (`TabletSettings`, `settings[3]`) | settings of the active state and two memory banks | Import, InitFor*, `SendUDSetupString`, `GetUDSettingsOrFail` | tablet, framing (packet size), pane |
| Lifecycle (`main`, constructor, `InitializeForPort`, run loop) | `quitProcessor`, `tablet_on`, `series_index`, arguments | scan, signals, wake-up, messages | all of the daemon |
| Message queue (`outgoing_message_queue`) | queued texts, enabled flag | Add, Pop, Flush | pane, by "next" |
| Pane (`TMController`) | checkbox, selected bank, controls, `ignore_next_info`, ping state | clicks, ping timer, `handleDaemonMessage` | daemon, by CFMessagePort calls with a time limit |
| Stream monitor | `send_stream`, counters | `stron`, `stroff`, `stream` | pane |
| Presets, area choosers | `presetsArray`, active preset and index, the chooser's area and scale | select, add, delete, rename, change; `[geom]`, `[scale]` | daemon (`geom`, `scale`), preferences |
| Auto start, launch helper | the job that starts the daemon at login | update after 1.5 s, on closing, at once | launchd, as root |

The daemon is one thread on a CFRunLoop: timers, messages and notifications
run one after the other, each to its end. What makes it hard is around that:

* bytes arrive cut anywhere, are lost, and belong to packets of a size that
  the settings change (framing);
* the system's idea of each mouse button is never read back, so it is right
  only if every release is posted (event generator);
* replies to settings requests carry no request, and are read by a timer or by
  a modal loop that retries (memory banks);
* signals are asynchronous, and `quitProcessor` is written from five places
  (lifecycle);
* the pane's calls time out while the daemon scans, the daemon cannot call
  back, and either side may come and go (pane link);
* one packet says little: the eraser shares a bit with a side switch, one code
  stands for the lightest and the hardest pressure, a tool is named once, so the
  decoders read a packet with what they kept of those before (decoders);
* an area means nothing without the scale it was made for, and the daemon, the
  active preset, its entry in the list, the chooser, the preferences and the
  login job each keep a copy (presets).

## Modules

| Module | Models | Variables and actions |
|---|---|---|
| `StylusEvents` | `PostChangeEvents` and the handlers around it | one action per handler: `ProcessPacket`, `SetProcessing`, `SetGeometry`, `ResetStylus`, `InitializeForPort`; each block of `PostChangeEvents` is an operator on `os`, the window system's view |
| `MCStylusEvents` | instances for TLC | sets of mappings and reports |
| `StylusEventsProofs` | TLAPS proofs about `StylusEvents` | |
| `Channel` | abstract first-in first-out channel, which may drop items if told so | `Put`, `Take` |
| `SerialFramer` | `ProcessSerialStream` for Wacom IV, II-S, SD, TabletPC and Fujitsu streams | one action per byte (`ReadByte`, with the branch it takes), the tablet (`Send`, `TabletObeys`), the line (`LoseByte`), `Import` |
| `SerialFramerProofs` | TLAPS proofs about `SerialFramer` on any line | |
| `SerialFramerRefinement` | TLAPS proof that `SerialFramer` implements `Channel` on a line that loses nothing | |
| `Decoders` | `ProcessPacket` and the decoders of all series, with a pen over the tablet | the pen's moves, each one packet that is processed (`Report`) or lost (`LosePacket`); `ResetStylus`, `Import`, `SetMouseMode`; one operator per decoder |
| `MCDecoders` | instances for TLC | tablets of every series with the settings their decoders look at |
| `DecodersProofs` | TLAPS proofs about `Decoders` | |
| `TabletSettings` | the settings word, `Import`, and the pane's conversions between it and its controls | pure operators |
| `MemoryBanks` | the settings in the tablet, the daemon and the pane | extends `TabletSettings`; one action per daemon handler, reader and retry; one per click; `Ping` and `Raw` for what the pane is told |
| `MCMemoryBanks` | instance for TLC | two settings words |
| `MemoryBanksProofs` | TLAPS proofs about `MemoryBanks` | |
| `DaemonLifecycle` | constructor, port scan, run loop, quit, wake-up, signals | `OpenNext`, `InitializeTablet`, `Exhausted`, `IteratorDies`, `Report` for the scan; one action per message |
| `DaemonLifecycleProofs` | TLAPS proofs about `DaemonLifecycle` | |
| `Geometry` | the daemon's area and scale through arguments, initialisations and messages | operators and partial actions for the daemon's side of `Presets` |
| `Presets` | presets, choosers, preferences, auto start and launch helper | extends `Geometry`; one action per handler of the pane, `Poll` for `[ready]` and `[scale]`, `IsDaemonLoaded` and `SelectedSerialPort` for the looks at the daemon that it remembers, `StartDaemon`, `StartedOutside`, `DaemonAlone` |
| `MCPresets` | instances for TLC | tablets |
| `PresetsProofs` | TLAPS proofs about `Geometry` and `Presets` | |
| `PaneLink` | message queue, ping timer, calls with a time limit, Enabled checkbox | the daemon's starts, scans, wakes and end; the pane's calls one by one, those of the Enabled box, the banks and the Testing tab |
| `PaneLinkProofs` | TLAPS proofs about `PaneLink` | |

The definitions named `Mut...` are faulty variants of the definition that
follows them. No specification uses them; each documents a mistake that one of
the properties excludes, and TLC finds the property violated when the variant
takes its place.

Abstractions, by module.
`StylusEvents`: coordinates are "moved or not"; pressure, tilt and pointer
type are left out. `stylus` and `oldStylus` are one variable because every
handler ends by copying the one to the other. A daemon that started without a
tablet has never run `InitStylus`, so those members start with any value.
`SerialFramer`: a byte is its class (high bit, mark, comma, newline, ...), with
the number of the unit it belongs to, so that properties can say where it came
from. A read's end is a choice at every byte. The packet sizes 3 and 4 stand
for 7 and 9, 6 for the 11 of a TabletPC reply, 4 for the 5 of a Fujitsu packet:
the code compares lengths only for equality and order. The modal reader
(`ReadLine`) is not in this module.
`Decoders`: the fields that the masks of `Constants.h` cut out of a packet, on
the vertical axis, where the origin matters. What is only passed on (tilt,
wheel, rotation, the pressure's scale, the puck's `*` packets, the output
format) is left out. A mouse with more buttons has the numbers 0, 3 and 4. A pen
that comes near does so with switch 2 up (`SideOnEntry`).
`TabletSettings`, `MemoryBanks`: one field of the settings word stands for
several that travel alike. `Import` and `SettingsString` are inverses on all
bits but the unused bit 9, so the word stands for the members it is imported
into. The pane has no controls for bits 0 to 3, and its popup of command sets
lists two of four. Damage on the line is to the digits of a reply, never to its
label; the label of a memory bank is read as a ninth hexadecimal digit, which the
32 bits of the word drop again. A Testing command changes the active settings or asks for a bank.
Of the fields, `set` and `format` are those whose popups a [raw] sets, too; a
[raw] is shown at any moment (`Raw`), the user may go to the Testing tab and
come back between any two steps.
`DaemonLifecycle`: tablets are of three kinds, those that answer for their
settings (UD), those that do not (Intuos) and TabletPCs; SD fallback is
compiled out (`FALLBACK_TO_SD 0`). 15 tries are 2. `-3` is left out: it only
exchanges speeds. A request is answered or not: the bytes of the reply, and a
tablet that streams while it is asked, are left out (see Fairness).
`PaneLink`: of the calls the pane makes, `?port`, `?geom`, `?scale`, `stron`
and the preset are left out, since the properties cannot tell them apart. A
scan is one interval in which calls wait or time out. A Testing command reads
the settings, and the pane is to ignore the reply, or it does not.
`Geometry`, `Presets`: one axis, and an area that starts at its edge, so its
size stands for its bounds; `Exact` keeps out the stretches of which the code
would keep a fraction. The tip's button stands for the other buttons, the screen
area and the mouse mode, which are set, sent and compared like the area. A
division by a width or scale of 0 gives what floats give (`NaN`, `Infinity`).
`zeroed` and `stray` are history: that the daemon was given a scale of 0, and
that the pane's or the daemon's geometry was changed without the other.
`isLoaded` is what the pane's `isDaemonLoaded:` last found. Left out: the
chooser's lock of proportions, the screen chooser, the presets of version 2b8,
the digitizer's arguments in the login job, what a change makes of a preset
while the chooser's edges are not numbers, and tablets that are not found.

## Runs

| Run | Shows | Bounds |
|---|---|---|
| `StylusPlain` | left, right and other buttons and the proximity follow the pen; nothing is posted twice | four mappings, every report; no bound on the length of the history |
| `StylusLapses` | moves of a held button are drags; only a comparison with the output off, or a reinitialisation, sticks the left button; a compared release frees it | mappings with drag lock, eraser and clicks, all requests, uninitialised start |
| `FramerReliable` | the framing implements `Channel` for all five protocols (Fujitsu packets that a read cuts are dropped, never joined with another), everything else is delivered, `phrase` stays short | three units: one being read, one after it, and one more for what a TabletPC packet waits for |
| `FramerNoise` | well-formed packets, resynchronisation | two units, any bytes lost, sizes changing at any moment |
| `BanksPatient` | agreement of tablet, daemon and pane with the next readable answer, but for the popups that a [raw] has set; an edit changes one setting, with the same exception; Testing replies are not shown; the modal request ends | module `MCMemoryBanks`; two user actions and any [raw], two tries, two words that differ in every field, one with a command set that the popup does not list; answers lost or unreadable |
| `LifecycleSafety` | initialised stylus, truthful pane, ends for a reason; scans end | two ports, two kinds of tablet, two events after the start and any number of signals |
| `PaneComesAndGoes` | the checkbox agrees with `tablet_on`, the queue drains, calls end, a daemon that has gone is noticed | two scans, one click or Testing command, one call that times out per scan |
| `Decoders` | the decoded stylus is the pen again from the next leaving that is processed; no buttons off the tablet; no tip with the eraser; no jump on entry | some twenty tablets, two rows of which one is active, every event at any moment, histories of any length |
| `Presets` | the copies of the geometry agree as far as the code promises | an Intuos of scale 2 (imposed 8, default 4), and a UD of scale 2 on a machine that looks for digitizers first; two presets, two changes, scales of 0 and 8 entered by the user and 0 left by a digitizer, two queued messages, a helper and a System Preferences that may fail |

Two ports are enough for a scan that fails on one and succeeds on the next, or
is broken off between them. The kinds of `LifecycleSafety` are UD and TabletPC:
an Intuos differs from a UD only in never answering for its settings, which a
`Flaky` UD may do as well. `-X` is left to the proofs: it starts the tablet off
and counts as having been asked to quit. Two user actions are enough for a
request and an edit based on what it showed, with [raw]s before, between and
after. Two scans let the daemon start, die or wake, and scan again; one click can cross the [info] that either scan causes. Two rows are what
it takes for a pen to cross the edge of the active area, and the fewest that
tell one origin from the other. Three scales that divide each other let an area
be stretched up and down without remainder, and two changes let one follow what
another left in the list or the login job.

Runs that find the code at variance with what it says of itself:

| Run | Finding |
|---|---|
| `LifecycleQuits` | a signal that comes while the constructor scans the ports is forgotten when `RunEventLoop` clears `quitProcessor`, and the daemon runs on |
| `LifecycleLastTry` | a reply to the last request (the fifteenth in the code) counts as none |
| `PresetsCustom` | `[geom]` that matches another preset than the selected one is stored over the selected one, name and all |

Their configurations allow no more than the behaviour needs, so that the
counterexample is the shortest account of it.

Other behaviour met while modelling. The passing properties are stated around
it, and each condition below is there because TLC violates the property without
it:

* With two stylus buttons on one mouse button, or a button and a drag lock,
  releasing one releases the mouse button early. `LeftUpToSpeed` is checked
  with one driver of the left button (`PlainMappings`).
* Events are dropped while the output is off but the old state moves on, so a
  button can stay down. `StuckOnlyByLapse` says that this and a
  reinitialisation are the only ways; the steady properties assume an output
  that is never off (`SteadyOutput`).
* After the packet size changes, bytes of a packet may become a reply (the TODO
  above `ProcessSerialStream`). `PacketsWellFormed` is about packets only.
* A reply without a label is filed under the bank asked for last, not the one
  it answers. `BanksPatient` has a user who waits for each action.
* A second Testing command cancels `ignore_next_info` of the first, so the
  first one's reply is shown; the patient user waits for it. If the reply is
  lost, the next [info] is ignored for it, whatever it says: after a wake that
  made the tablet inactive, the checkbox stays on (`slips`, "unanswered"). A
  TabletPC's "Get Tablet Info" always does this, since its reply is no [info].
* A [raw] of the Testing tab sets the popups of command set and output format
  to the active settings, whatever bank is selected, when they differ from
  those of the last [raw]; the next edit of that bank writes them to it.
  `ControlsShowSelected` and `EditsOneSetting` except these two fields from such
  a [raw] until a bank is shown again (`strayed`).
* A popup that has no item for the command set of a reply keeps the item it
  had, and the next edit of any setting writes that one to the tablet.
  `EditsOneSetting` and `ControlsShowSelected` speak of command sets that the
  popup lists.
* `quitProcessor` is also overwritten by each settings reply, so that a signal
  or a "quit" shortly before one is lost like one during the constructor
  (`LifecycleQuits`). `-X`, "Exit after initializing the tablet", is forgotten
  in the same way until a settings reply comes in the run loop.
* A scan that is broken off, because the iterator has become invalid or the
  registry gave none, leaves the path of the port tried last, of this scan or an
  earlier one. A "reinit" opens it, although the pane was told [none] and, if no
  tablet was ever found, before `InitStylus` has run.
  `StylusReadyWhenActive` and `PaneToldTruth` except it (`brokenOff`).
* A daemon that dies before the first ping is not noticed (`GoneIsNoticed`
  excludes it), a queue that is disabled still takes messages, and the checkbox
  may differ after a flush, a late answer or a click made while an [info] was
  on its way (`slips`). A "next" that times out loses the message it pops.
* An Intuos whose announcement was lost, or that was panicked, gives buttons
  while it is off, until its next leaving is processed (`synced`). A Graphire,
  and a Wacom IV tablet that is not suppressed, never report that the pen left.
  An old Wacom IV with tilt rejects every packet. A Graphire mouse's clicks are
  never posted.
* In the mouse mode a pen that comes back to the active area with switch 2 held
  is taken for the eraser. `Faithful` waits for the next leaving after a pen
  was held to have left (`synced`).
* Bounds given as arguments are for a scale of 15240 and are stretched from it
  on every start. An Intuos has scale 30480 imposed without a stretch on every
  initialisation, which multiplies its area; `AreaUsable` only says that the
  area stays one. A scale of 0, which the pane's field takes and a digitizer that
  does not answer leaves, makes the area 0 and then, under the next scale, not a
  number. It stays so until an area is sent under another scale; `AreaUsable`
  says that nothing else loses the area (`zeroed`).
* After the width of the chooser was 0 its edges are not numbers until a preset
  is set again. `ChooserShowsActive` excepts this.
* The pane sends a changed preset only if it believes that a daemon is running
  (`isDaemonLoaded:NO`). It looked before it started one and does not look
  again, so it takes its own daemon for absent until an [info], a [none], a
  [bye] or a click on the port's menu. "hello" waits for the same. The next
  [ready] makes it take the daemon's geometry, and with it drop the change. Its
  [info] ends the belief as a rule; but if it is ignored as a Testing command's
  reply, or was flushed, later changes are not sent either (`stray`).
* The messages of the daemon are flushed by "hello" and "bye", and a scale that
  the user enters reaches the preset only with the next change, so that the
  pane may know another geometry than the daemon (`stray`).
* "geom" carries the mouse's scaling but does not set it.

## Fairness

`SerialFramer`: the 250 Hz timer keeps calling `ProcessSerialStream`, which
reads while `BytesOnPort` says so: weak fairness of reading a byte.
`MemoryBanks`: weak fairness of the daemon's steps, since its modal loop counts
its tries down and its run loop goes on, and of the pane's ping timer.
`DaemonLifecycle`: weak fairness of the daemon's own steps. A request to a
tablet returns 0.1 seconds after the last byte that arrives for it: `ReadLine`
starts its time limit again after each byte, so this, and `ScanEnds` and
`ModalEnds` with it, is about tablets that are silent between answers. One that
streams packets at a wrong speed, with no newline among them, may keep a request
waiting. Messages, wake-ups and signals are not fair.
`PaneLink`: the daemon's scans end and its run loop handles calls; the pane
makes the calls it has begun and its ping timer fires while selected. Nothing
makes the daemon start again.

## Proofs

The proofs hold for every value of the constants that the named assumptions
allow. Each goes from lemmas about helpers to one lemma per handler, to the
step, to the temporal theorem.

`StylusEventsProofs`, for every set of mappings, reports and requests:

* `TypeCorrect`: the type invariant, from `InitType` and `NextType`.
* `StuckOnlyByLapseHolds`, `ReleaseFreesHolds`: the two action properties, from
  the type invariant alone. The left button's part is `LeftBlocksFacts`, which
  computes where the four blocks that drive it leave it (`LeftAfter`).
* `HeldMovesAreDragsHolds`: in every history a move of a held button is a drag.
* `SteadyCorrect` (assuming `SteadyOutput`): `NoStuckLeft`,
  `OtherButtonsUpToSpeed`, `ProximityUpToSpeed`. None of them is inductive
  alone, since a press is only posted with the output on: the invariant
  `SteadyInv` adds `tabletOn` and `active`.
* `ProximityUpToSpeedHolds`: the proximity's part of it alone.
* `PlainCorrect` (assuming also `PlainMappings`): `LeftUpToSpeed`. The
  strengthening `PlainInv` says that neither the eraser nor a drag lock is ever
  among the old buttons and that no drag is locked.
* `NothingRedundantHolds`, under the same assumptions: each of the eight blocks
  of `PostChangeEvents` keeps an output that has repeated nothing clean, if the
  mouse button it drives is held exactly when its stylus button was pressed,
  which is what `SteadyInv` and `PlainInv` say before the first block and
  `LeftUpToSpeed` and its likes between two of them. `CleanClicks` covers the
  release, press and clicks that a double click synthesises.

`SerialFramerProofs`, for every set of tablets and packet sizes, any number of
units, losses and imports:

* `TypeCorrect` and `PacketsWellFormedHolds` (for tablets other than Fujitsu),
  from one inductive invariant. What is handed on as a packet is the phrase, so
  the invariant needs `PhraseOK`: inside a packet the phrase starts with its
  only head, outside it has none. An import changes the size under a phrase
  that is already too long; such a phrase is never handed on as a packet, which
  is why the invariant says nothing of its length.
* `ResynchronisesHolds`, from `RawIsPhrase`: while fewer bytes than a packet
  have come since the last head, those bytes are the phrase.

`SerialFramerRefinement`, for every set of tablets and packet sizes and any
number of units, assuming `Reliable` (nothing is lost and no settings are
imported, without which the daemon does drop and join units, as
`FramerNoise` lets it):

* `FirstInFirstOutHolds`: the framing implements `Channel`, with `Output`, the
  numbers of the units that were handed on whole and as what they are, for its
  output. A step of `Send` is a `Put`, a byte is a `Take` of the next unit or a
  stutter. The invariant `Following` says that the line is the unread rest of
  the stream of units (`LineIn`), so that its first byte tells `unit` and
  `place`, and then, for each place of each kind of unit, what `phrase`,
  `in_packet` and `comma_count` are and how many units have come out
  (`Position`): nothing between two units, the bytes read so far inside one,
  the whole unit while a TabletPC waits for the next head, nothing again before
  the second newline of a line. For a Fujitsu `phrase` is the end of what was
  read of its packet (`Kept`), which is all of it only if no read ended inside,
  and what has come out is of units before the one being read (`AllWhole`).
* `PhraseBoundedHolds`, from the same invariant and `LongestFacts`.

`DaemonLifecycleProofs`, for any ports, kinds of tablet, number of tries and
messages: `TypeCorrect`, `StylusReadyWhenActiveHolds`, `PaneToldTruthHolds` and
`EndsForAReasonHolds`, from `Inv`:

* `Trying` and `Scanned`: during a scan the open port is the one the scan
  reached, and after it the port that stays open is the one reported. Without
  them nothing links what the pane is told, which is read off the path, with
  the descriptor that the timer reads.
* `Settled`: from the end of the constructor on, a path stands for a port
  whose tablet has a stylus and of which the pane has been told [ready], or was
  left behind by a scan that was broken off (`brokenOff`, which `Scanned` says
  of a path that is no open port's); a [ready] without an open port belongs to a
  reinitialisation that failed (`cut`).
* `Reasons`: the flags that end the daemon are only set by what may end it.

`DecodersProofs`, for every set of tablets, height, active rows and events:

* `TypeCorrect`, `NoGhostButtonsHolds`, `TipOrEraserHolds`, from one inductive
  invariant. Per series it needs different things. For all but an Intuos,
  `Sound`: off the tablet no button of the stylus is pressed, and tip and
  eraser never together. For an Intuos that has been announced, `Announced`: it
  is off exactly while the pen is not near, off it has no buttons, and only a
  tool that is not a pen has masks with tip and eraser in one. `Truthful` says
  what the fields of a packet may be for a pose of the pen, and there is one
  `Decodes` lemma for each decoder.
* `EntryDoesNotJumpHolds`, from `Still`: a packet that turns off into near
  leaves no motion, whichever decoder but the Graphire's reads it.
* `FaithfulHolds`, assuming `Ordinary`: a pen comes near with switch 2 up (the
  decoders take one that does not for the eraser, so without this it is false)
  and every tablet is `Usual`, one that its `InitFor*` and a settings reply can
  set up (TLC evaluates this of the run's tablets). `Faithful` is not inductive:
  where a packet was lost it says nothing, and the packet after that must be
  read all the same. The invariant `Followed` therefore adds what the stylus
  `Carries` of the pen whether or not its last packet was read: proximity, the
  end that was announced or inferred, an Intuos' tool, the button of a Fujitsu's
  stroke, the degree in `raw_pressure`. `HintFacts` turns this into what a
  decoder needs to read the next packet, and one `...Told` lemma per decoder
  shows that it then makes of the packet what is expected of the pen; a leaving
  needs no hint, which is why it puts right whatever went before. For an Intuos,
  `IntuosFollows` goes through its six kinds of packet.

`PresetsProofs`, for any tablets, machines, scales, 0 among them, names, numbers
of presets, changes and queued messages:

* `AreaUsableHolds`: `Whole`, a positive scale and a positive area, is kept by
  each way of learning a scale but 0. That a stretch does not make it 0 is
  `ExactFacts`, which needs the division to be exact. `Sound` says that the
  daemon is `Whole` unless it was given a scale of 0 (`zeroed`), and that an area
  sent under a scale that is not 0 makes it `Whole` again.
* `ActiveIsStoredHolds`: `Filed`, a proper list whose selected entry is the
  active preset, is kept by each operator that yields a list.
* `TypeCorrect`, from both; `ScaledFacts` covers the chooser that has no area.
* `LoginMatchesSavedHolds`: `Login`, the job's arguments are those of the saved
  presets while the pane is not in view, is inductive by itself: closing the
  pane saves and updates, and nothing else touches either until it is back.
* `PaneKnowsDaemonHolds`: that the pane agrees with the daemon when it has no
  message to take says nothing of the steps before. `Known` adds that a queue
  that is not empty ends with [ready], upon which the pane asks for the
  geometry anew, so the last message taken is always one that brings it up to
  date. Whether the pane sends what it changes depends on `isLoaded`, of which
  nothing is known: a change that is not sent sets `stray`.
* `ChooserShowsActiveHolds`: `Shown`, the chooser's area is to its width as the
  preset's is to its range, a product, so that the stretch of either side is a
  multiplication of the equation by a scale (`DivideExactly`, `Cancel`).

`MemoryBanksProofs`, for any set of settings words, number of tries and actions
and either labelling of the answers:

* `TypeCorrect`, whatever the user does.
* `ActiveSettingsRightHolds`, `ControlsShowSelectedHolds`,
  `AnswersToTheirBankHolds`, `EditsOneSettingHolds` and `TestsNotShownHolds`,
  assuming `Patient`: the user acts only when nothing is under way. That is an
  assumption about a person and nothing in the code enforces it; a hurried
  user violates each of them, as told above. All five come from one invariant.
  Nothing about a reply says which request it answers, so the invariant names
  what can be under way at all, in three phases: the click that is not yet
  handled (`Clicked`); answers that all carry the value of the bank asked for
  last (`Answering`); one answer that the pane will ignore (`Testing`). `Active`
  and `Shown` add that where daemon or controls are not right, an answer that
  will put them right is coming or will be asked for. A [raw] may come in any
  phase; `StreamedFacts` says that it changes two popups, and `Unstrayed` names
  the fields of which the phases speak meanwhile.

`PaneLinkProofs`, for any numbers of scans, clicks, pings and calls that time out:

* `TypeCorrect`.
* `CheckboxAgreesHolds`. An [info] may be on its way while a click is, so the
  invariant, as long as the daemon is up and nothing slipped, says what order
  they come in: no settings reply is due before a click is handled
  (`NoReplyAhead`), the last message of the queue makes the pane ask again or
  says what is so (`LastIsTrue`), what a scan delayed is handled before its
  message (`LateComesFirst`). Then the checkbox agrees or will be put right
  (`Promised`). While the pane is to ignore an [info], `Ignoring` says that
  there is one to ignore, queued or owed by the tablet, and that the checkbox is
  right without it or a [ready] or [none] is still to come; a Testing command
  whose reply was lost leaves this, which is why `slips` counts it.

Only model-checked: the liveness properties (`EventuallyDelivered`,
`ModalEnds`, `ScanEnds`, `QueueDrains`, `CallsEnd`, `GoneIsNoticed`; fairness and ENABLED are beyond the prover). Every invariant
and action property of the passing runs is proved. The type invariants of
`Decoders`, `MemoryBanks` and `PaneLink` are listed by no run and are proved.

## Not modelled, and the plan

* The modal reader's bytes: `ReadLine` and `SendRequestToTablet` on a line on
  which the framing stopped in the middle of a packet. What the framing is left
  with is covered by `FramerNoise`, which may lose any bytes; what the reader
  takes for a reply is an answer or none in `MemoryBanks` and `DaemonLifecycle`.
  A module `ModalReader` over `SerialFramer`'s bytes would close this.
* `InitFor*` and the settings imposed on tablets that send none. The pane shows
  them as other settings than they are (a resolution of 4 or a rate that its
  bits cannot hold), which its disabled controls keep from mattering.
* The arithmetic from tablet to screen coordinates, the screen's bounds and
  `ScreenChanged`: floating point, which TLA+ integers do not stand for. Of its
  hazards the division by the area's width is covered (`AreaUsable`).
* The stream monitor's counters and display, and the ping and stream timers that
  call the daemon from within each other. What they share with the rest is
  modelled: `send_stream` in `Geometry`, the two popups of the settings that a
  [raw] sets in `MemoryBanks`.
* The startup items of old systems and Ink: files and commands without answers.

Not planned: the user interface's drawing and localisation, the area choosers'
mouse tracking, the process and digitizer look-ups (no state), CalComp
and Finepoint tablets (empty or unreachable code).
