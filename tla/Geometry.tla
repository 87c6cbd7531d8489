------------------------------ MODULE Geometry ------------------------------
(***************************************************************************)
(* The daemon's geometry: which part of the tablet is active.              *)
(*                                                                         *)
(* tabletMapping is given in units of the tablet and says nothing unless   *)
(* one knows the scale it was meant for.  The daemon starts with the scale *)
(* of the TabletSettings constructor, takes bounds from the command line,  *)
(* then learns the tablet's own scale and stretches the bounds to it.      *)
(* Every initialisation may impose a scale of its own first.               *)
(*                                                                         *)
(* One axis of the tablet, and an area that starts at its edge, so that    *)
(* its size stands for it.  Sizes are whole: Exact keeps out the stretches *)
(* that the code would keep a fraction of.  Of the rest of what "geom"     *)
(* sets, `tip` is the button of the stylus tip; the screen area, the other *)
(* buttons and the mouse mode are set, sent and compared like the area.    *)
(***************************************************************************)
EXTENDS Integers, Sequences

CONSTANTS
  Tablets,       \* the tablets, with machines, to consider
  DefaultScale,  \* k12inches1270ppi, 15240: what a TabletSettings starts with
  IntuosScale,   \* 30480, imposed by InitForIntuos
  Tips,          \* the buttons a stylus tip can be; 0 is none
  DefaultTip,    \* the button without arguments
  Scalings,      \* values of mouse_scaling; 1 is the default
  Junk,          \* the scales that a missing answer of a digitizer leaves
  MaxDue         \* bound on the messages waiting for the pane

Series == {"UD", "SD", "Intuos", "PenPartner"}

\* The code's -1 for a right edge, and what its floats hold when divided by zero.
Unset    == 0
NaN      == -1
Infinity == -2
Sizes    == Nat \union {NaN, Infinity}

ASSUME GeometryAssumption ==
  /\ Tablets \subseteq [series : Series, actual : Nat \ {0}, hackintosh : BOOLEAN]
  /\ DefaultScale \in Nat \ {0}
  /\ IntuosScale \in Nat \ {0}
  /\ Tips \subseteq Nat
  /\ DefaultTip \in Tips
  /\ Scalings \subseteq Nat
  /\ 1 \in Scalings
  /\ Junk \subseteq Nat
  /\ MaxDue \in Nat

\* Command-line arguments: the tablet's bounds and the rest.
Args == [area : Nat, tip : Tips]
NoArgs == [area |-> Unset, tip |-> DefaultTip]

VARIABLES
  tablet,   \* its series and scale; on a hackintosh, digitizers are tried before it
  running,  \* there is a daemon, past its scan
  geo,      \* settings[0].xscale, tabletMapping, button_mapping[tip], mouse_scaling
  stream,   \* send_stream: a pane watches the packets
  due,      \* messages queued for the pane
  zeroed    \* history: it was given a scale of 0, and no area since under another

daemonVars == <<tablet, running, geo, stream, due, zeroed>>

Geo == [scale : Nat, area : Sizes, tip : Tips, scaling : Scalings]

\* A queued message is a [ready], or a [scale] with the scale it was sent with.
Ready == 0

-----------------------------------------------------------------------------
\* x times the quotient of the scales, in floating point.
Stretch(x, old, new) ==
  IF x = NaN THEN NaN
  ELSE IF x = Infinity THEN IF new = 0 THEN NaN ELSE Infinity
  ELSE IF old # 0 THEN (x * new) \div old
  ELSE IF x = 0 THEN NaN ELSE Infinity

Exact(x, old, new) == old # 0 /\ x >= 0 => (x * new) % old = 0

\* Faulty: no edge is taken to stand for the tablet's.
MutInitTabletBounds(g, size) == [g EXCEPT !.area = size]

\* The right edge -1 stands for the whole tablet.
InitTabletBounds(g, size) == [g EXCEPT !.area = IF size = Unset THEN g.scale ELSE size]

UpdateTabletScale(g, h) ==
  IF g.scale = h THEN g ELSE [g EXCEPT !.scale = h, !.area = Stretch(@, g.scale, h)]

\* The answer to a TabletPC query is used before it is known to be one.
ProcessTabletPCCommandReply(g, h) ==
  IF stream THEN g ELSE InitTabletBounds([g EXCEPT !.scale = h], h)

\* The scale that InitializeTablet imposes before it asks.
Imposed(g) == IF tablet.series = "Intuos" THEN [g EXCEPT !.scale = IntuosScale] ELSE g

\* The reply to the request for the maximal coordinates: a PenPartner's resets the
\* bounds, others are not looked at while a pane streams.
ProcessCommandReply(g) ==
  CASE tablet.series = "PenPartner" ->
         InitTabletBounds([g EXCEPT !.scale = tablet.actual], tablet.actual)
    [] tablet.series # "PenPartner" /\ stream -> g
    [] OTHER -> UpdateTabletScale(g, tablet.actual)

\* An SD tablet, which answers nothing, is told its maximal coordinates.
Learned(g) == IF tablet.series = "SD" THEN UpdateTabletScale(g, DefaultScale)
              ELSE ProcessCommandReply(g)

Learnable(g) ==
  IF tablet.series = "SD" THEN Exact(g.area, g.scale, DefaultScale)
  ELSE tablet.series = "PenPartner" \/ stream \/ Exact(g.area, g.scale, tablet.actual)

\* InitializeForPort that finds the tablet.  The pane is told a scale that a
\* 'C' reply has changed, and that the tablet is ready.
Initialize(g) ==
  \E junk \in IF tablet.hackintosh THEN Junk ELSE {0} :
    LET probed  == IF tablet.hackintosh THEN ProcessTabletPCCommandReply(g, junk) ELSE g
        imposed == Imposed(probed)
        learned == Learned(imposed)
        tells   == tablet.series \in {"UD", "Intuos"} /\ imposed.scale # learned.scale
    IN  /\ Learnable(imposed)
        /\ geo' = learned
        /\ zeroed' = (zeroed \/ probed.scale = 0)
        /\ due' = due \o (IF tells THEN <<learned.scale>> ELSE << >>) \o <<Ready>>
        /\ Len(due') <= MaxDue

\* The settings and the mapping of a daemon that has not read its arguments.
NoGeo == [scale |-> DefaultScale, area |-> DefaultScale, tip |-> DefaultTip, scaling |-> 1]

\* The constructor, with the given arguments.  -s is read but not used.
Launch(args) ==
  /\ ~running
  /\ running' = TRUE
  /\ Initialize(InitTabletBounds([NoGeo EXCEPT !.tip = args.tip], args.area))
  /\ UNCHANGED <<tablet, stream>>

\* A wake-up, or a "port" of the pane, makes it scan again.
Reinit ==
  /\ running
  /\ Initialize(geo)
  /\ UNCHANGED <<tablet, running, stream>>

\* The daemon ends, and with it what it knew and what it had queued for the pane.
Quit ==
  /\ running
  /\ running' = FALSE
  /\ geo' = NoGeo
  /\ stream' = FALSE
  /\ due' = << >>
  /\ zeroed' = FALSE
  /\ UNCHANGED tablet

\* The messages of the pane, in the order of ProcessMessage's cases.
SetScale(h) ==
  IF running THEN /\ Exact(geo.area, geo.scale, h)
                  /\ geo' = UpdateTabletScale(geo, h)
                  /\ zeroed' = (zeroed \/ h = 0)
  ELSE UNCHANGED <<geo, zeroed>>

\* Faulty: the buttons keep what they were.
MutSetGeometry(g, area, tip) == InitTabletBounds(g, area)

\* "geom" ends with the scaling, which is read and dropped.
SetGeometry(g, area, tip) == [InitTabletBounds(g, area) EXCEPT !.tip = tip]

SetMouseScaling(g, s) == [g EXCEPT !.scaling = s]

SetStream == /\ running
             /\ stream' = ~stream
             /\ UNCHANGED <<tablet, running, geo, due, zeroed>>

DaemonInit ==
  /\ tablet \in Tablets
  /\ running = FALSE
  /\ geo = NoGeo
  /\ stream = FALSE
  /\ due = << >>
  /\ zeroed = FALSE

DaemonTypeOK ==
  /\ tablet \in Tablets
  /\ running \in BOOLEAN
  /\ geo \in Geo
  /\ stream \in BOOLEAN
  /\ due \in Seq(Nat) /\ Len(due) <= MaxDue
  /\ zeroed \in BOOLEAN

\* PostChangeEvents divides by the width of the active area, which must be a
\* positive number.  A scale of 0, which a user may enter and a digitizer that does
\* not answer leaves, loses it; until then, and again after the next area that is
\* sent under another scale, no order of scans and messages does.
AreaUsable == running /\ ~zeroed => geo.area > 0
=============================================================================
