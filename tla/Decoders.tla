------------------------------ MODULE Decoders ------------------------------
(***************************************************************************)
(* From packets to the stylus: ProcessPacket and the ProcessWacom* family. *)
(*                                                                         *)
(* A packet says little by itself.  The eraser shares a bit with the side  *)
(* switch and is told from it by the order of packets, the SD series uses  *)
(* one code for its lightest and its hardest pressure, an Intuos names the *)
(* tool once, when it comes near.  So `stylus` carries from one packet to  *)
(* the next what the decoder needs to read it, and a lost packet, a panic, *)
(* an imported setting or the mouse mode can leave it with the wrong past. *)
(*                                                                         *)
(* The tablet is external: a pen moves over it and every move is one       *)
(* packet, processed or lost on the line (SerialFramer hands on no damaged *)
(* ones).  A packet is the fields that the masks of Constants.h cut out of *)
(* it.  Positions are on the vertical axis, where the origin matters.      *)
(***************************************************************************)
EXTENDS Integers, FiniteSets

CONSTANTS
  Tablets,      \* the tablets and settings to consider, see Tablet
  Height,       \* settings[0].yscale
  Active,       \* the rows of the tablet inside tabletMapping
  SideOnEntry,  \* TRUE if a pen may come near with side switch 2 held
  Events        \* what may happen besides moves, see Event

\* Button numbers of Constants.h.  A mouse also has numbers above the eraser's.
Tip == 0
Side1 == 1
Side2 == 2
Eraser == 3
StylusButtons == 0..3

Series == {"Graphire", "Intuos", "FujitsuP", "SD", "TabletPC", "Other"}
CommandSets == {"BitpadII", "WacomIIS", "WacomIV", "TabletPC", "WacomV"}
Event == {"lose", "panic", "import", "mouse"}

Tablet == [series : Series, set : CommandSets,
           old : BOOLEAN,         \* base_version < 1.4
           tilt : BOOLEAN,        \* with Wacom IV: packets of 9 bytes
           ascii : BOOLEAN,       \* the high bit of a packet is clear
           suppressed : BOOLEAN,  \* transfer_mode
           relative : BOOLEAN,    \* coordsys
           lowerLeft : BOOLEAN,   \* origin
           pressure : BOOLEAN]    \* II-S packets carry pressure, not buttons

ASSUME DecodersAssumption ==
  /\ Tablets \subseteq Tablet
  /\ Height \in Nat \ {0}
  /\ Active \subseteq 0 .. (Height - 1)
  /\ SideOnEntry \in BOOLEAN
  /\ Events \subseteq Event

\* A tablet as it can be set up: a series comes with the command set of its InitFor*
\* (TabletSettings.cpp:155, 182, 221), and a settings reply, of two bits for it
\* (:112), names neither Wacom V nor the TabletPC's.
Usual(t) ==
  /\ t.series = "Intuos"   => t.set = "WacomV"
  /\ t.series = "SD"       => t.set = "WacomIIS"
  /\ t.series = "TabletPC" => t.set = "TabletPC"
  /\ t.series = "Other"    => t.set \notin {"WacomV", "TabletPC"}
  /\ t.pressure => t.set = "WacomIIS" /\ t.series \in {"SD", "Other"}

VARIABLES
  cfg,        \* the tablet: series_index, base_version and settings[0]
  mouseMode,  \* mouse_mode
  stylus,     \* the decoded state
  pen,        \* what is really on the tablet
  synced,     \* since it last left, no packet of its coming or going was
              \* lost and nothing took the pen away but itself
  current     \* the last move's packet was processed

vars == <<cfg, mouseMode, stylus, pen, synced, current>>

-----------------------------------------------------------------------------
\* The tools on the tablet and the packets it sends about them (external).
Tools  == {"pen", "eraser", "airbrush", "mouse", "mouse4D", "lens"}
Codes  == {"none", "low", "mid", "high"}
Forces == 0..4                                \* 0: not touching, 4: hardest

Away == [tool |-> "pen", near |-> FALSE, bits |-> {}, force |-> 0]

\* Of the five buttons of the larger mice, one beside each edge of the bit fields.
ButtonsOf == [tool \in Tools |-> CASE tool = "pen"    -> {Tip, Side1, Side2}
                                   [] tool \in {"eraser", "airbrush"} -> {Tip}
                                   [] tool = "mouse"  -> 0..2
                                   [] OTHER           -> {0, 3, 4}]

ToolsOf(series) == CASE series = "Intuos"   -> Tools
                     [] series = "Graphire" -> {"pen", "eraser", "mouse"}
                     [] series \in {"SD", "FujitsuP"} -> {"pen"}
                     [] OTHER -> {"pen", "eraser"}

\* A pen that touches does so with some force, of five degrees on SD tablets.
ForcesOf(series, bits) == IF Tip \notin bits THEN {0}
                          ELSE IF series = "SD" THEN 1..4 ELSE {4}

\* What a tool may do there.
Poses(t) == [tool : {t}, near : {TRUE}, bits : SUBSET ButtonsOf[t], force : Forces]

Near == [series \in Series |->
  {q \in UNION {Poses(t) : t \in ToolsOf(series)} : q.force \in ForcesOf(series, q.bits)}]

\* A tool leaves before another comes; a hand does not skip degrees of force.
\* An Intuos announces the tool before it reports buttons.
Moves(was) ==
  LET entering == {q \in Near[cfg.series] :
                     /\ SideOnEntry \/ Side2 \notin q.bits \/ q.tool # "pen"
                     /\ cfg.series = "Intuos" => q.bits = {}
                     /\ q.force < 2 \/ cfg.series # "SD"}
      staying  == {q \in Near[cfg.series] :
                     /\ q.tool = was.tool
                     /\ cfg.series = "SD" => q.force - was.force \in {-1, 0, 1}}
  IN  IF was.near THEN staying \union {Away} ELSE entering

\* The bits of a packet: the eraser end sets the bit of side switch 2, and an
\* Intuos packs the buttons of each kind of mouse its own way.
Wire(q) == CASE cfg.series = "Intuos" /\ q.tool = "mouse"   -> {b + 2 : b \in q.bits}
             [] cfg.series = "Intuos" /\ q.tool = "mouse4D" ->
                  {IF b < 3 THEN b ELSE b + 1 : b \in q.bits}
             [] q.tool = "eraser" /\ cfg.set \in {"WacomIIS", "WacomIV", "TabletPC"} ->
                  q.bits \union {Side2}
             [] OTHER -> q.bits

Code(force) == CASE force = 0 -> "none" [] force \in {1, 4} -> "low"
                 [] force = 2 -> "mid"  [] force = 3 -> "high"

\* The kinds of packet by which a move may be told.  A 4D mouse and an airbrush
\* send a second kind in between, for the rotation and the wheel.
IntuosKinds(was, is) ==
  IF ~is.near THEN {"out"} ELSE IF ~was.near THEN {"id"}
  ELSE CASE is.tool \in {"pen", "eraser"} -> {"pen"}
         [] is.tool = "airbrush" -> {"pen", "wheel"}
         [] is.tool = "mouse4D" /\ is = was -> {"mouse", "turn"}
         [] OTHER -> {"mouse"}

Kinds(was, is) ==
  CASE cfg.series = "Intuos" -> IntuosKinds(was, is)
    [] cfg.series = "FujitsuP" ->
         IF Tip \notin is.bits THEN {"up"} ELSE IF is = was THEN {"down", "move"} ELSE {"down"}
    [] OTHER -> IF cfg.pressure THEN {"pressure"} ELSE {"buttons"}

\* Out of proximity a II-S tablet says so, and says disengaged in suppressed
\* mode only.  `alias` is what Wacom IV's masks cut out of a Graphire packet.
Packet(was, is, kind, v, alias) ==
  [kind |-> kind, tool |-> is.tool, prox |-> is.near,
   engaged |-> is.near \/ (cfg.set = "WacomIIS" /\ ~cfg.suppressed),
   bits |-> Wire(is), force |-> is.force, code |-> Code(is.force),
   v |-> v, alias |-> alias, size |-> IF cfg.set = "WacomIV" /\ cfg.tilt THEN 9 ELSE 7]

-----------------------------------------------------------------------------
\* Helpers of the decoders.  In each, s is the stylus and p the packet.
SetButtons(s, bm) == [s EXCEPT !.mask = bm]
Row(v)    == IF cfg.lowerLeft THEN Height - v ELSE v
Clamp(y)  == IF y < 0 THEN 0 ELSE IF y >= Height THEN Height - 1 ELSE y

\* Faulty: the motion into proximity is reported.
MutSettled(s, y, off) == y - s.y

\* A change of proximity is no motion.
Settled(s, y, off) == IF s.off # off THEN 0 ELSE y - s.y

\* A decoder's results: buttons, pressure, proximity, end, row.
Apply(s, r) ==
  [s EXCEPT !.mask = r.mask, !.force = r.force, !.off = r.off, !.near = r.near,
            !.eraser = r.eraser, !.y = r.y, !.motion = Settled(s, r.y, r.off)]

\* Mouse mode treats the tablet outside the active area as no tablet.
Outside(y) == mouseMode /\ ~cfg.relative /\ y \notin Active

\* Side switch 2 or the eraser?  "If the change is abrupt it's the eraser."
EraserSeen(s, bits) == s.eraser \/ (Side2 \in bits /\ s.off)

\* The SD series' lightest and hardest pressure have one code: what came
\* before tells them apart, and is kept in raw_pressure.
SDForce(code, raw) == CASE code = "low"  -> IF raw = "high" THEN 4 ELSE 1
                        [] code = "mid"  -> 2
                        [] code = "high" -> 3
                        [] code = "none" -> 0

\* Faulty: a further low code after the first one is taken for a light touch.
MutSDRaw(code, raw) == code

SDRaw(code, raw) == IF code = "low" /\ raw = "high" THEN raw ELSE code

TipIf(pressed) == IF pressed THEN {Tip} ELSE {}

-----------------------------------------------------------------------------
\* The buttons of a II-S packet.  With side switch 2 down the tip is not read.
IISButtons(s, bits) ==
  IF Side2 \notin bits THEN bits
  ELSE (bits \intersect {Side1}) \union
       (IF ~EraserSeen(s, bits) THEN {Side2} ELSE IF Tip \in bits THEN {Eraser} ELSE {})

\* The three kinds of II-S packets, before proximity is looked at.
IISContents(s, p, y) ==
  LET sd    == cfg.series = "SD"
      force == IF p.kind = "pressure" THEN IF p.prox THEN p.force ELSE 0
               ELSE SDForce(p.code, s.raw)
      mask  == IISButtons(s, p.bits)
  IN  IF sd \/ p.kind = "pressure"
      THEN [mask |-> TipIf(force > 0), force |-> force, near |-> p.prox, y |-> y,
            off |-> IF sd THEN force = 0 ELSE ~p.prox, eraser |-> s.eraser]
      ELSE [mask |-> mask, force |-> IF mask # {} THEN 4 ELSE 0, near |-> p.prox, y |-> y,
            off |-> FALSE, eraser |-> EraserSeen(s, p.bits)]

ProcessWacomIIS_Binary(s, p) ==
  LET y    == IF cfg.relative THEN Clamp(s.y + (IF cfg.lowerLeft THEN -p.v ELSE p.v))
              ELSE Row(p.v)
      read == IISContents(s, p, y)
      gone == IF p.engaged THEN read
              ELSE [read EXCEPT !.near = FALSE, !.eraser = FALSE, !.force = 0, !.off = TRUE]
      out  == [gone EXCEPT !.y = s.y, !.near = FALSE, !.force = 0, !.off = TRUE, !.mask = {}]
      raw  == IF cfg.series = "SD" /\ p.kind = "buttons" THEN SDRaw(p.code, s.raw) ELSE s.raw
  IN  IF p.size # 7 THEN s
      ELSE [Apply(s, IF Outside(y) THEN out ELSE gone) EXCEPT !.raw = raw]

\* The same in text.  In relative mode the row is not clamped: both clamps are
\* applied to the column.
ProcessWacomIIS_ASCII(s, p) ==
  LET y    == IF cfg.relative THEN s.y + (IF cfg.lowerLeft THEN -p.v ELSE p.v) ELSE Row(p.v)
      here == [y |-> y, near |-> p.prox, eraser |-> FALSE, off |-> ~p.prox, force |-> 0, mask |-> {}]
      out  == [here EXCEPT !.y = s.y, !.near = FALSE, !.eraser = s.eraser, !.off = TRUE]
      sd   == LET f == IF p.kind = "buttons" THEN SDForce(p.code, s.raw) ELSE p.force
              IN  [here EXCEPT !.near = p.prox /\ f > 0, !.off = ~p.prox \/ f = 0,
                               !.force = IF p.prox THEN f ELSE 0,
                               !.mask = TipIf(p.prox /\ f > 0)]
      press == [here EXCEPT !.force = IF p.prox THEN p.force ELSE 0,
                            !.mask = TipIf(p.prox /\ p.force > 0)]
      bits  == IF p.prox THEN p.bits ELSE {}
      end   == EraserSeen(s, bits)
      mask  == IF Side2 \notin bits \/ ~end THEN bits
               ELSE IF Tip \in bits THEN {Eraser} ELSE {}
      click == [here EXCEPT !.eraser = Side2 \in bits /\ end, !.mask = mask,
                            !.force = IF mask \intersect {Tip, Eraser} # {} THEN 4 ELSE 0]
      raw   == IF cfg.series = "SD" /\ p.kind = "buttons" THEN SDRaw(p.code, s.raw) ELSE s.raw
  IN  IF Outside(y) THEN Apply(s, out)
      ELSE [Apply(s, IF cfg.series = "SD" THEN sd
                     ELSE IF p.kind = "pressure" THEN press ELSE click) EXCEPT !.raw = raw]
-----------------------------------------------------------------------------
\* Wacom IV, common part.  Only in suppressed mode is a pen known to leave.
ProcessWacomIV_Base(s, p) ==
  LET left     == ~p.engaged /\ cfg.suppressed
      y        == IF p.engaged THEN Row(p.v) ELSE s.y
      outbound == mouseMode /\ y \notin Active
      off      == left \/ outbound
  IN  [s EXCEPT !.near   = ~off,
                !.eraser = s.eraser /\ ~left,
                !.force  = IF p.engaged /\ ~outbound THEN p.force ELSE 0,
                !.y      = y,
                !.motion = IF outbound THEN 0 ELSE Settled(s, y, off),
                !.off    = off]

\* Faulty: the eraser's touch is still the tip's as well.
MutIVButtons(bits, end) ==
  IF Side2 \notin bits \/ ~end THEN bits
  ELSE (bits \ {Side2}) \union (IF Tip \in bits THEN {Eraser} ELSE {})

IVButtons(bits, end) ==
  IF Side2 \notin bits \/ ~end THEN bits
  ELSE (bits \intersect {Side1}) \union (IF Tip \in bits THEN {Eraser} ELSE {})

\* The buttons are read before the common part, so against the old proximity.
ProcessWacomIV_13(s, p, size) ==
  LET end  == EraserSeen(s, p.bits)
      base == ProcessWacomIV_Base([s EXCEPT !.eraser = end], p)
  IN  IF size # 7 THEN s ELSE SetButtons(base, IF base.off THEN {} ELSE IVButtons(p.bits, end))

ProcessWacomIV_14(s, p) == IF p.size \in {7, 9} THEN ProcessWacomIV_13(s, p, 7) ELSE s

\* The buttons of a mouse packet, cut out as the tool last announced requires.
MouseButtons(toolid, bits) ==
  CASE toolid = "mouse4D" -> (bits \intersect 0..2) \union {b - 1 : b \in bits \intersect 4..6}
    [] toolid = "lens"    -> bits \intersect 0..4
    [] OTHER              -> {b - 2 : b \in bits \intersect 2..4}

\* Faulty: leaving forgets to release.
MutProcessWacomVOut(s) ==
  [s EXCEPT !.off = TRUE, !.near = FALSE, !.eraser = FALSE, !.force = 0, !.motion = 0]

ProcessWacomVOut(s) ==
  [s EXCEPT !.off = TRUE, !.near = FALSE, !.eraser = FALSE, !.force = 0, !.motion = 0,
            !.mask = {}]

\* Proximity comes from the tool's announcement alone.
ProcessWacomV(s, p) ==
  LET moved == [s EXCEPT !.y = p.v, !.motion = p.v - s.y]
  IN  CASE p.kind = "id"  -> [s EXCEPT !.toolid = p.tool, !.off = FALSE, !.near = TRUE,
                                       !.eraser = p.tool = "eraser", !.motion = 0]
        [] p.kind = "out" -> ProcessWacomVOut(s)
        [] p.kind = "pen" -> [moved EXCEPT !.force = p.force,
                                !.mask = TipIf(p.force > 0) \union (p.bits \ {Tip})]
        [] p.kind = "wheel" -> [moved EXCEPT !.force = 0, !.mask = {}]
        [] p.kind = "mouse" -> [moved EXCEPT !.mask = MouseButtons(s.toolid, p.bits)]
        [] p.kind = "turn"  -> moved

\* What Wacom IV finds in the packet is written over, except the point the
\* motion starts from; a mouse has buttons that are not the stylus', and
\* nothing takes the pen off the tablet.
ProcessGraphire(s, p) ==
  LET base == ProcessWacomIV_Base(s, [p EXCEPT !.v = p.alias, !.engaged = TRUE])
      y    == IF p.prox THEN p.v ELSE base.y
  IN  [base EXCEPT !.near = TRUE, !.off = FALSE, !.y = y, !.motion = y - base.y,
                   !.eraser = p.tool = "eraser", !.force = p.force,
                   !.mask = IF p.tool = "mouse" THEN {b + 5 : b \in p.bits} ELSE p.bits]

\* The eraser's bit is that of side switch 2, which is therefore never reported.
ProcessTabletPC(s, p) ==
  LET end == p.prox /\ Side2 \in p.bits
  IN  Apply(s, [near |-> p.prox, off |-> ~p.prox, eraser |-> end, y |-> p.v,
                force |-> IF p.prox THEN p.force ELSE 0,
                mask |-> IF ~p.prox THEN {}
                         ELSE TipIf(p.force > 0 /\ Tip \in p.bits) \union
                              (IF end THEN {} ELSE p.bits \intersect {Side1, Side2})])

ProcessFujitsuPSeries(s, p) ==
  Apply(s, [near |-> TRUE, off |-> p.kind = "up", eraser |-> s.eraser, y |-> p.v,
            force |-> CASE p.kind = "down" -> 4 [] p.kind = "up" -> 0 [] OTHER -> s.force,
            mask |-> CASE p.kind = "down" -> {Tip} [] p.kind = "up" -> {} [] OTHER -> s.mask])

Decode(s, p) ==
  CASE cfg.series = "Graphire" -> ProcessGraphire(s, p)
    [] cfg.series = "Intuos"   -> ProcessWacomV(s, p)
    [] cfg.series = "FujitsuP" -> ProcessFujitsuPSeries(s, p)
    [] OTHER ->
       CASE cfg.set = "WacomIIS" -> IF cfg.ascii THEN ProcessWacomIIS_ASCII(s, p)
                                    ELSE ProcessWacomIIS_Binary(s, p)
         [] cfg.set = "WacomIV"  -> IF cfg.old THEN ProcessWacomIV_13(s, p, p.size)
                                    ELSE ProcessWacomIV_14(s, p)
         [] cfg.set = "TabletPC" /\ ~cfg.ascii -> ProcessTabletPC(s, p)
         [] OTHER -> s

\* Without tip or eraser there is no pressure.
ProcessPacket(p) ==
  LET s == Decode(stylus, p)
  IN  stylus' = IF s.mask \intersect {Tip, Eraser} = {} THEN [s EXCEPT !.force = 0] ELSE s

-----------------------------------------------------------------------------
\* InitStylus
NewStylus == [off |-> TRUE, near |-> FALSE, eraser |-> FALSE, mask |-> {}, force |-> 0,
              y |-> 0, motion |-> 0, raw |-> "none", toolid |-> "pen"]

\* ResetStylus: "as if the pen were taken off the tablet".
Lifted(s) == [s EXCEPT !.off = TRUE, !.near = FALSE, !.eraser = FALSE, !.mask = {}, !.force = 0]

\* The daemon may start with a pen on the tablet.
Init ==
  /\ cfg \in Tablets
  /\ mouseMode = FALSE
  /\ stylus = NewStylus
  /\ pen \in {Away} \union Near[cfg.series]
  /\ synced = ~pen.near
  /\ current = ~pen.near

Rows == IF cfg.relative THEN {-1, 0, 1} ELSE 0..(Height - 1)

\* Bounds the row where the code does not (see ProcessWacomIIS_ASCII).
RowBounded == stylus'.y \in -2..(Height + 1)

\* Tablets that say when a pen leaves, with packets that the daemon reads.
Readable == /\ cfg.suppressed
            /\ cfg.series # "Graphire"
            /\ cfg.set # "BitpadII"
            /\ ~(cfg.set = "WacomIV" /\ cfg.old /\ cfg.tilt)
            /\ ~(cfg.set = "TabletPC" /\ cfg.ascii)

\* In mouse mode a pen outside the active area is held to have left, and an ASCII
\* tablet's packet of its real leaving is not looked at there.
TakenAway(q, v) == mouseMode /\ IF q.near THEN stylus'.off ELSE cfg.ascii /\ Outside(Row(v))

\* A leaving undoes what the decoders carry, but a pressure packet leaves an SD
\* tablet's raw_pressure as it was.
Forgets(q) == ~q.near /\ ~(cfg.series = "SD" /\ cfg.pressure)

\* The pen moves, the tablet reports it and the daemon processes the packet.
\* The mouse mode may then hold the pen to have left.
Report ==
  \E is \in Moves(pen), v \in Rows, alias \in Active : \E kind \in Kinds(pen, is) :
    /\ cfg.series # "Graphire" => alias = CHOOSE a \in Active : TRUE
    /\ ProcessPacket(Packet(pen, is, kind, v, alias))
    /\ RowBounded
    /\ pen' = is
    /\ synced' = (Readable /\ (synced \/ Forgets(is)) /\ ~TakenAway(is, v))
    /\ current' = (kind # "turn" \/ current)
    /\ UNCHANGED <<cfg, mouseMode>>

\* The same, but the line loses the packet.
LosePacket ==
  /\ "lose" \in Events
  /\ pen' \in Moves(pen)
  /\ synced' = (synced /\ pen.near /\ pen'.near /\ cfg.series \notin {"SD", "FujitsuP"})
  /\ current' = FALSE
  /\ UNCHANGED <<cfg, mouseMode, stylus>>

\* "panic"
ResetStylus ==
  /\ "panic" \in Events
  /\ stylus' = Lifted(stylus)
  /\ synced' = (synced /\ ~pen.near)
  /\ UNCHANGED <<cfg, mouseMode, pen, current>>

\* A settings reply: the tablet has new settings and the daemon reads them.
Import ==
  /\ "import" \in Events
  /\ cfg' \in {t \in Tablets : t.series = cfg.series /\ t.old = cfg.old}
  /\ synced' = (synced /\ ~pen.near /\ cfg.series # "SD")
  /\ UNCHANGED <<mouseMode, stylus, pen, current>>

\* "mmode", or the mode in "geom"
SetMouseMode ==
  /\ "mouse" \in Events
  /\ mouseMode' = ~mouseMode
  /\ UNCHANGED <<cfg, stylus, pen, synced, current>>

Next == Report \/ LosePacket \/ ResetStylus \/ Import \/ SetMouseMode

Spec == Init /\ [][Next]_vars

-----------------------------------------------------------------------------
Stylus == [off : BOOLEAN, near : BOOLEAN, eraser : BOOLEAN, mask : SUBSET (0..9),
           force : Forces, y : Int, motion : Int, raw : Codes, toolid : Tools]

TypeOK ==
  /\ cfg \in Tablets
  /\ mouseMode \in BOOLEAN
  /\ stylus \in Stylus
  /\ pen \in {Away} \union Near[cfg.series]
  /\ synced \in BOOLEAN
  /\ current \in BOOLEAN

\* What a user expects to be reported of the pen, as far as the tablet's packets
\* tell.  An SD tablet and a Fujitsu notice a pen that touches, no other.  The
\* eraser is a button of its own where the tip's bit is read with the eraser's;
\* pressure packets tell no buttons, a II-S tip is not read beside switch 2, and
\* a TabletPC's switch 2 is taken for the eraser, which has no switches.
Noticed(q)  == IF cfg.series \in {"SD", "FujitsuP"} THEN q.force > 0 ELSE q.near
TellsEnd    == cfg.series \in {"Intuos", "TabletPC"} \/ (cfg.series = "Other" /\ ~cfg.pressure)
ExpectedEraser(q) ==
  /\ TellsEnd
  /\ q.near
  /\ q.tool = "eraser" \/ (cfg.set = "TabletPC" /\ Side2 \in q.bits)

ExpectedButtons(q) ==
  IF cfg.series \in {"SD", "FujitsuP"} \/ cfg.pressure THEN TipIf(q.force > 0)
  ELSE IF cfg.set = "TabletPC" /\ Side2 \in q.bits THEN q.bits \intersect {Tip}
  ELSE IF cfg.series = "Other" /\ q.tool = "eraser" THEN {b + 3 : b \in q.bits}
  ELSE IF cfg.set = "WacomIIS" /\ ~cfg.ascii /\ Side2 \in q.bits THEN q.bits \ {Tip}
  ELSE q.bits

\* For every readable tablet the report is the pen: near or not, the right end,
\* the right buttons, the right one of the SD degrees.  What the decoders carry
\* from packet to packet is put right by each leaving that is processed,
\* whatever was lost, panicked, imported or taken for outside before it.
Faithful ==
  Readable /\ synced /\ current =>
    /\ stylus.off = ~Noticed(pen)
    /\ stylus.eraser = ExpectedEraser(pen)
    /\ pen.tool # "airbrush" => stylus.mask = ExpectedButtons(pen)
    /\ cfg.series = "SD" => stylus.force = pen.force

\* A stylus off the tablet holds no button, so PostChangeEvents posts its
\* releases with its leaving, on every tablet in every mode.  The exception is
\* an Intuos whose announcement was lost or undone by a panic.
NoGhostButtons ==
  stylus.off /\ stylus.mask \intersect StylusButtons # {} => cfg.series = "Intuos" /\ ~synced

\* Tip and eraser, which both drive the left button, are never pressed together
\* by a pen; only mice with more than three buttons reach both numbers.
TipOrEraser ==
  {Tip, Eraser} \subseteq stylus.mask =>
    cfg.series = "Intuos" /\ (stylus.toolid \in {"mouse4D", "lens"} \/ ~synced)

\* In mouse mode a pen that comes back elsewhere does not make the pointer jump
\* (the motion of every decoder but the Graphire's, whose pen never leaves, and
\* the Intuos', whose announcement has no position).
EntryDoesNotJump ==
  [][stylus.off /\ ~stylus.off' /\ cfg.series # "Graphire" => stylus'.motion = 0]_vars
=============================================================================
