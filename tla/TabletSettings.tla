--------------------------- MODULE TabletSettings ---------------------------
(***************************************************************************)
(* The settings word of a tablet, 32 bits and four numbers, and what the   *)
(* daemon and the preference pane make of it.                              *)
(*                                                                         *)
(* Import and SettingsString of the daemon are inverses on all bits but    *)
(* one that is unused, so a word stands for the daemon's members, too. The *)
(* pane's controls are coarser: its command set popup lists two of four    *)
(* command sets, and it has no controls for the four lowest bits.          *)
(*                                                                         *)
(* Of the settings that travel alike one stands for all: `serial` for      *)
(* those of the serial port, `mdm` and `tilt` for the others but `set` and *)
(* `format`, whose popups the stream of packets sets, too.                 *)
(***************************************************************************)
EXTENDS Naturals

Fields == {"set", "format", "serial", "tilt", "mdm", "low"}

Word == [set : 0..3, format : 0..1, serial : 0..1, tilt : 0..1, mdm : 0..1, low : 0..1]

\* The items of popupCommandSet: WACOM II-S and WACOM IV.
ListedSets == {2, 3}
Controls == [set : ListedSets, format : 0..1, serial : 0..1, tilt : 0..1, mdm : 0..1]

\* The controls as they come with the pane.
InitialControls == [set |-> 3, format |-> 0, serial |-> 0, tilt |-> 1, mdm |-> 0]

\* Import.  If the digits cannot be read the mask is what was in memory.
Import(digits, readable, memory) == IF readable THEN digits ELSE memory

\* setControlsForSettings.  A tag that the popup has not got leaves it alone.
SetControlsForSettings(c, w) ==
  [set |-> IF w.set \in ListedSets THEN w.set ELSE c.set, format |-> w.format,
   serial |-> w.serial, tilt |-> w.tilt, mdm |-> w.mdm]

\* Faulty: the multi-device mode gets the wrong bit.
MutSettingsStringFromControls(c) ==
  [set |-> c.set, format |-> c.format, serial |-> c.serial,
   tilt |-> c.tilt, mdm |-> c.tilt, low |-> 0]

\* settingsStringFromControls: "bits 0123 unused here".
SettingsStringFromControls(c) ==
  [set |-> c.set, format |-> c.format, serial |-> c.serial,
   tilt |-> c.tilt, mdm |-> c.mdm, low |-> 0]

\* A setting with a control, in the controls or in a word.  toggledTiltOrMM: tilt
\* switches the multi-device mode off, and the other way round.
Edit(x, field, value) ==
  CASE field = "tilt" /\ value = 1 -> [x EXCEPT !.tilt = 1, !.mdm = 0]
    [] field = "mdm" /\ value = 1  -> [x EXCEPT !.mdm = 1, !.tilt = 0]
    [] OTHER -> [x EXCEPT ![field] = value]

\* The settings whose popups handleDaemonMessage sets for a [raw], too.
Streamed == {"set", "format"}

\* Faulty: the streamed settings are shown like those of an [info].
MutSelectStreamed(c, w) == SetControlsForSettings(c, w)

\* popupCommandSet and popupOutputFormat select what a packet was read with.
SelectStreamed(c, w) ==
  [c EXCEPT !.set = IF w.set \in ListedSets THEN w.set ELSE c.set, !.format = w.format]

\* Whether the controls of some fields show the word, as far as they can.
Shows(c, w, fields) ==
  \A field \in fields \ {"low"} :
    (field = "set" => w.set \in ListedSets) => c[field] = w[field]
=============================================================================
