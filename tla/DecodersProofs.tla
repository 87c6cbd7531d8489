--------------------------- MODULE DecodersProofs ---------------------------
(***************************************************************************)
(* Proofs about Decoders, for every tablet, height, active area and set of *)
(* events.  A packet of a tablet that is not an Intuos never carries the   *)
(* eraser's number, and one that does not tell of a pen carries no button: *)
(* from this each decoder leaves the stylus Sound.  An Intuos' buttons are *)
(* right only while its announcements are, which Announced follows.  Last, *)
(* that the report is the pen, decoder by decoder, from what the stylus    *)
(* carries from each packet to the next.                                   *)
(***************************************************************************)
EXTENDS Decoders, TLAPS

(***************************************************************************)
(* The packets.                                                            *)
(***************************************************************************)
KindNames == {"out", "id", "pen", "wheel", "mouse", "turn", "up", "down", "move", "pressure",
              "buttons"}

Packets == [kind : KindNames, tool : Tools, prox : BOOLEAN, engaged : BOOLEAN,
            bits : SUBSET (0..6), force : Forces, code : Codes, v : Int, alias : Int,
            size : {7, 9}]

\* What the tablet's packets are besides their type.
Truthful(p) ==
  /\ ~p.engaged => ~p.prox
  /\ ~p.prox => p.bits = {} /\ p.force = 0 /\ p.code = "none"
  /\ cfg.series # "Intuos" => p.bits \subseteq 0..2

\* Every tool has at most the buttons 0 to 4, those outside Intuos tablets 0 to 2.
LEMMA ButtonsFacts ==
  ASSUME NEW series \in Series, NEW t \in ToolsOf(series)
  PROVE  /\ t \in Tools
         /\ ButtonsOf[t] \subseteq 0..4
         /\ series # "Intuos" => ButtonsOf[t] \subseteq 0..2
         /\ t \in {"pen", "eraser", "airbrush"} => ButtonsOf[t] \subseteq 0..2
<1>1. t \in Tools
  BY DEF ToolsOf, Tools, Series
<1>2. series # "Intuos" => t \in {"pen", "eraser", "mouse"}
  BY DEF ToolsOf, Series
<1>3. t \in {"pen", "eraser", "airbrush", "mouse"} => ButtonsOf[t] \subseteq 0..2
  BY <1>1 DEF ButtonsOf, Tip, Side1, Side2, Tools
<1>4. ButtonsOf[t] \subseteq 0..4
  BY <1>1 DEF ButtonsOf, Tip, Side1, Side2, Tools
<1> QED
  BY <1>1, <1>2, <1>3, <1>4

\* A pen near a tablet is one of its tools with its own buttons.
LEMMA PenFacts ==
  ASSUME cfg \in Tablet, NEW q \in {Away} \union Near[cfg.series]
  PROVE  /\ q \in [tool : Tools, near : BOOLEAN, bits : SUBSET (0..4), force : Forces]
         /\ cfg.series # "Intuos" \/ q.tool \in {"pen", "eraser", "airbrush"} => q.bits \subseteq 0..2
         /\ ~q.near => q = Away
<1>1. cfg.series \in Series
  BY DEF Tablet
<1>2. CASE q = Away
  BY <1>2 DEF Away, Tools, Forces
<1>3. CASE q \in Near[cfg.series]
  <2>1. PICK t \in ToolsOf(cfg.series) : q \in Poses(t)
    BY <1>1, <1>3 DEF Near
  <2>2. q \in [tool : {t}, near : {TRUE}, bits : SUBSET ButtonsOf[t], force : Forces]
    BY <2>1 DEF Poses
  <2>3. q.tool = t /\ q.near /\ q.bits \subseteq ButtonsOf[t]
    BY <2>2
  <2>4. /\ t \in Tools
        /\ ButtonsOf[t] \subseteq 0..4
        /\ cfg.series # "Intuos" => ButtonsOf[t] \subseteq 0..2
        /\ t \in {"pen", "eraser", "airbrush"} => ButtonsOf[t] \subseteq 0..2
    BY <1>1, ButtonsFacts
  <2>5. q \in [tool : Tools, near : BOOLEAN, bits : SUBSET (0..4), force : Forces]
    BY <2>2, <2>4
  <2> QED
    BY <2>3, <2>4, <2>5
<1> QED
  BY <1>2, <1>3

\* A move leaves the pen near the tablet or away from it.
LEMMA MovesFacts ==
  ASSUME NEW was, NEW is \in Moves(was)
  PROVE  is \in {Away} \union Near[cfg.series]
  BY DEF Moves

\* The bits that a tablet sends of a pen.
LEMMA WireFacts ==
  ASSUME cfg \in Tablet, NEW q \in {Away} \union Near[cfg.series]
  PROVE  /\ Wire(q) \in SUBSET (0..6)
         /\ cfg.series # "Intuos" => Wire(q) \subseteq 0..2
         /\ q.tool \in {"pen", "eraser", "airbrush"} => Wire(q) \subseteq 0..2
         /\ ~q.near => Wire(q) = {}
<1>1. /\ q \in [tool : Tools, near : BOOLEAN, bits : SUBSET (0..4), force : Forces]
      /\ cfg.series # "Intuos" \/ q.tool \in {"pen", "eraser", "airbrush"} => q.bits \subseteq 0..2
      /\ ~q.near => q = Away
  BY PenFacts
<1>2. CASE cfg.series = "Intuos" /\ q.tool = "mouse"
  <2>1. Wire(q) = {b + 2 : b \in q.bits}
    BY <1>2 DEF Wire
  <2>2. Wire(q) \subseteq 0..6
    BY <1>1, <2>1
  <2> QED
    BY <1>1, <1>2, <2>2 DEF Away
<1>3. CASE cfg.series = "Intuos" /\ q.tool = "mouse4D"
  <2>1. Wire(q) = {IF b < 3 THEN b ELSE b + 1 : b \in q.bits}
    BY <1>3 DEF Wire
  <2>2. Wire(q) \subseteq 0..6
    BY <1>1, <2>1
  <2> QED
    BY <1>1, <1>3, <2>2 DEF Away
<1>4. CASE ~(cfg.series = "Intuos" /\ q.tool \in {"mouse", "mouse4D"})
  <2>1. Wire(q) \in {q.bits, q.bits \union {2}}
    BY <1>4 DEF Wire, Side2
  <2>2. q.tool = "pen" => Wire(q) = q.bits
    BY <1>4 DEF Wire
  <2> QED
    BY <1>1, <2>1, <2>2 DEF Away
<1> QED
  BY <1>2, <1>3, <1>4

\* Which kinds of packet an Intuos sends.
LEMMA KindsFacts ==
  ASSUME NEW was, NEW is, NEW kind \in Kinds(was, is)
  PROVE  /\ kind \in KindNames
         /\ cfg.series = "Intuos" =>
              /\ kind \in {"id", "out", "pen", "wheel", "mouse", "turn"}
              /\ kind = "out" <=> ~is.near
              /\ kind = "id" => ~was.near
              /\ kind \notin {"out", "id"} => was.near
              /\ kind = "pen" => is.tool \in {"pen", "eraser", "airbrush"}
<1>1. CASE cfg.series = "Intuos"
  <2>1. Kinds(was, is) = IntuosKinds(was, is)
    BY <1>1 DEF Kinds
  <2>2. CASE ~is.near
    BY <1>1, <2>1, <2>2 DEF IntuosKinds, KindNames
  <2>3. CASE is.near /\ ~was.near
    BY <1>1, <2>1, <2>3 DEF IntuosKinds, KindNames
  <2>4. CASE is.near /\ was.near
    <3>1. IntuosKinds(was, is) =
            CASE is.tool \in {"pen", "eraser"} -> {"pen"}
              [] is.tool = "airbrush" -> {"pen", "wheel"}
              [] is.tool = "mouse4D" /\ is = was -> {"mouse", "turn"}
              [] OTHER -> {"mouse"}
      BY <2>4 DEF IntuosKinds
    <3>2. CASE is.tool \in {"pen", "eraser"}
      BY <1>1, <2>1, <2>4, <3>1, <3>2 DEF KindNames
    <3>3. CASE is.tool = "airbrush"
      BY <1>1, <2>1, <2>4, <3>1, <3>3 DEF KindNames
    <3>4. CASE is.tool \notin {"pen", "eraser", "airbrush"}
      BY <1>1, <2>1, <2>4, <3>1, <3>4 DEF KindNames
    <3> QED
      BY <3>2, <3>3, <3>4
  <2> QED
    BY <2>2, <2>3, <2>4
<1>2. CASE cfg.series = "FujitsuP"
  BY <1>2 DEF Kinds, KindNames
<1>3. CASE cfg.series \notin {"Intuos", "FujitsuP"}
  BY <1>3 DEF Kinds, KindNames
<1> QED
  BY <1>1, <1>2, <1>3

\* What a tablet sends of a pen is a packet and truthful.
LEMMA PacketFacts ==
  ASSUME cfg \in Tablet, NEW was, NEW is \in {Away} \union Near[cfg.series],
         NEW kind \in Kinds(was, is), NEW v \in Int, NEW alias \in Int
  PROVE  /\ Packet(was, is, kind, v, alias) \in Packets
         /\ Truthful(Packet(was, is, kind, v, alias))
<1> DEFINE p == Packet(was, is, kind, v, alias)
<1>1. /\ is \in [tool : Tools, near : BOOLEAN, bits : SUBSET (0..4), force : Forces]
      /\ ~is.near => is = Away
  BY PenFacts
<1>2. /\ Wire(is) \in SUBSET (0..6)
      /\ cfg.series # "Intuos" => Wire(is) \subseteq 0..2
      /\ ~is.near => Wire(is) = {}
  BY WireFacts
<1>3. kind \in KindNames
  BY KindsFacts
<1>4. Code(is.force) \in Codes /\ (is.force = 0 => Code(is.force) = "none")
  BY <1>1 DEF Code, Codes, Forces
<1>5. /\ p.kind = kind /\ p.tool = is.tool /\ p.prox = is.near /\ p.bits = Wire(is)
      /\ p.force = is.force /\ p.code = Code(is.force) /\ p.v = v /\ p.alias = alias
      /\ p.engaged = (is.near \/ (cfg.set = "WacomIIS" /\ ~cfg.suppressed))
  BY DEF Packet
<1>6. p \in Packets
  BY <1>1, <1>2, <1>3, <1>4 DEF Packet, Packets, Tablet
<1>7. Truthful(p)
  BY <1>1, <1>2, <1>4, <1>5, <1>6 DEF Truthful, Packets, Away
<1> QED
  BY <1>6, <1>7

(***************************************************************************)
(* The decoders of the tablets that are no Intuos.                         *)
(***************************************************************************)
\* Off the tablet no button of a stylus is pressed, and tip and eraser never
\* are together.
Sound(s) ==
  /\ s.off => s.mask \intersect StylusButtons = {}
  /\ ~({Tip, Eraser} \subseteq s.mask)

\* Coming near is no motion.
Still(s, t) == s.off /\ ~t.off => t.motion = 0

Results == [mask : SUBSET (0..9), force : Forces, off : BOOLEAN, near : BOOLEAN,
            eraser : BOOLEAN, y : Int]

LEMMA ForcesFacts == 0 \in Forces /\ 4 \in Forces
  BY DEF Forces

LEMMA ApplyFacts ==
  ASSUME NEW s \in Stylus, NEW r \in Results
  PROVE  /\ Apply(s, r) \in Stylus
         /\ Sound(r) => Sound(Apply(s, r))
         /\ Still(s, Apply(s, r))
<1> DEFINE t == Apply(s, r)
<1>1. Settled(s, r.y, r.off) \in Int /\ (s.off # r.off => Settled(s, r.y, r.off) = 0)
  BY DEF Settled, Results, Stylus
<1>2. /\ t \in Stylus
      /\ t.mask = r.mask /\ t.off = r.off
      /\ t.motion = Settled(s, r.y, r.off)
  BY <1>1 DEF Apply, Results, Stylus
<1> QED
  BY <1>1, <1>2 DEF Sound, Still, Results, Stylus

\* The SD series' degrees and what is remembered of them.
LEMMA SDFacts ==
  ASSUME NEW code \in Codes, NEW raw \in Codes
  PROVE  /\ SDForce(code, raw) \in Forces
         /\ code = "none" => SDForce(code, raw) = 0
         /\ SDRaw(code, raw) \in Codes
  BY DEF SDForce, SDRaw, Codes, Forces

\* With the eraser pressed a II-S packet has no tip.
LEMMA IISButtonsFacts ==
  ASSUME NEW s \in Stylus, NEW bits \in SUBSET (0..2)
  PROVE  /\ IISButtons(s, bits) \in SUBSET (0..9)
         /\ ~({Tip, Eraser} \subseteq IISButtons(s, bits))
  BY DEF IISButtons, Tip, Side1, Side2, Eraser

\* The contents of a II-S packet, whatever the row.
LEMMA IISContentsFacts ==
  ASSUME NEW s \in Stylus, NEW p \in Packets, Truthful(p), cfg.series # "Intuos", NEW y \in Int
  PROVE  /\ IISContents(s, p, y) \in Results
         /\ Sound(IISContents(s, p, y))
         /\ ~p.prox /\ (cfg.series = "SD" \/ p.kind = "pressure") => IISContents(s, p, y).mask = {}
         /\ ~p.prox => IISContents(s, p, y).mask \intersect StylusButtons = {}
<1> DEFINE r == IISContents(s, p, y)
           force == IF p.kind = "pressure" THEN IF p.prox THEN p.force ELSE 0
                    ELSE SDForce(p.code, s.raw)
           mask == IISButtons(s, p.bits)
           end == EraserSeen(s, p.bits)
           off == IF cfg.series = "SD" THEN force = 0 ELSE ~p.prox
<1>1. /\ p.prox \in BOOLEAN /\ p.force \in Forces /\ p.code \in Codes
      /\ p.bits \in SUBSET (0..2)
      /\ s.raw \in Codes /\ s.eraser \in BOOLEAN /\ s.off \in BOOLEAN
  BY DEF Packets, Truthful, Stylus
<1>2. force \in Forces /\ (~p.prox => force = 0)
  BY <1>1, SDFacts DEF Truthful, Forces
<1>3. /\ mask \in SUBSET (0..9) /\ ~({Tip, Eraser} \subseteq mask)
      /\ ~p.prox => mask = {}
  BY <1>1, IISButtonsFacts DEF Truthful, IISButtons
<1>4. end \in BOOLEAN
  BY <1>1 DEF EraserSeen
<1>5. CASE cfg.series = "SD" \/ p.kind = "pressure"
  <2> DEFINE tip == TipIf(force > 0)
  <2>1. r = [mask |-> tip, force |-> force, near |-> p.prox, y |-> y,
             off |-> off, eraser |-> s.eraser]
    BY <1>5 DEF IISContents
  <2>2. tip \in SUBSET (0..9) /\ Eraser \notin tip /\ (force = 0 => tip = {})
    BY <1>2 DEF TipIf, Forces, Tip, Eraser
  <2>3. off \in BOOLEAN /\ (off => force = 0)
    BY <1>2
  <2> HIDE DEF force, tip, off
  <2>4. r \in Results
    BY <1>1, <1>2, <2>1, <2>2, <2>3 DEF Results
  <2>5. r.mask = tip /\ (r.off => tip = {}) /\ (~p.prox => tip = {})
    BY <1>2, <2>1, <2>2, <2>3
  <2> QED
    BY <2>2, <2>4, <2>5 DEF Sound
<1>6. CASE ~(cfg.series = "SD" \/ p.kind = "pressure")
  <2> DEFINE f == IF mask # {} THEN 4 ELSE 0
  <2>1. r = [mask |-> mask, force |-> f, near |-> p.prox, y |-> y, off |-> FALSE, eraser |-> end]
    BY <1>6 DEF IISContents
  <2>2. f \in Forces
    BY DEF Forces
  <2> HIDE DEF mask, end, f
  <2>3. r \in Results
    BY <1>1, <1>3, <1>4, <2>1, <2>2 DEF Results
  <2>4. r.mask = mask /\ ~r.off
    BY <2>1
  <2> QED
    BY <1>3, <1>6, <2>3, <2>4 DEF Sound
<1> QED
  BY <1>5, <1>6

\* Rows of a packet, absolute or relative, are numbers.
LEMMA RowFacts ==
  ASSUME NEW y \in Int, NEW v \in Int
  PROVE  /\ Row(v) \in Int
         /\ y + (IF cfg.lowerLeft THEN -v ELSE v) \in Int
         /\ Clamp(y + (IF cfg.lowerLeft THEN -v ELSE v)) \in Int
<1>1. Height \in Int
  BY DecodersAssumption
<1>2. /\ Row(v) \in Int
      /\ y + (IF cfg.lowerLeft THEN -v ELSE v) \in Int
  BY <1>1 DEF Row
<1>3. \A z \in Int : Clamp(z) \in Int
  BY <1>1 DEF Clamp
<1> QED
  BY <1>2, <1>3

\* What a decoder of a tablet other than an Intuos has to leave behind it.
Decodes(s, t) ==
  /\ t \in Stylus
  /\ Sound(s) => Sound(t)
  /\ Still(s, t)

LEMMA Unchanged ==
  ASSUME NEW s \in Stylus
  PROVE  Decodes(s, s)
  BY DEF Decodes, Still

LEMMA RawFacts ==
  ASSUME NEW s \in Stylus, NEW t \in Stylus, NEW raw \in Codes, Decodes(s, t)
  PROVE  Decodes(s, [t EXCEPT !.raw = raw])
  BY DEF Decodes, Stylus, Sound, Still

LEMMA IISBinaryDecodes ==
  ASSUME NEW s \in Stylus, NEW p \in Packets, Truthful(p), cfg.series # "Intuos"
  PROVE  Decodes(s, ProcessWacomIIS_Binary(s, p))
<1> DEFINE y == IF cfg.relative THEN Clamp(s.y + (IF cfg.lowerLeft THEN -p.v ELSE p.v))
                ELSE Row(p.v)
           read == IISContents(s, p, y)
           gone == IF p.engaged THEN read
                   ELSE [read EXCEPT !.near = FALSE, !.eraser = FALSE, !.force = 0, !.off = TRUE]
           out == [gone EXCEPT !.y = s.y, !.near = FALSE, !.force = 0, !.off = TRUE, !.mask = {}]
           raw == IF cfg.series = "SD" /\ p.kind = "buttons" THEN SDRaw(p.code, s.raw) ELSE s.raw
           r == IF Outside(y) THEN out ELSE gone
<1>1. CASE p.size # 7
  BY <1>1, Unchanged DEF ProcessWacomIIS_Binary
<1>2. CASE p.size = 7
  <2>1. /\ p.v \in Int /\ p.code \in Codes /\ p.engaged \in BOOLEAN
        /\ s.y \in Int /\ s.raw \in Codes
    BY DEF Packets, Stylus
  <2>2. y \in Int
    BY <2>1, RowFacts
  <2>3. raw \in Codes
    BY <2>1, SDFacts
  <2> HIDE DEF y, raw
  <2>4. /\ read \in Results
        /\ Sound(read)
        /\ ~p.prox => read.mask \intersect StylusButtons = {}
    BY <2>2, IISContentsFacts
  <2> HIDE DEF read
  <2>5. gone \in Results /\ Sound(gone)
    <3>1. CASE p.engaged
      BY <2>4, <3>1
    <3>2. CASE ~p.engaged
      <4>1. gone = [read EXCEPT !.near = FALSE, !.eraser = FALSE, !.force = 0, !.off = TRUE]
        BY <3>2
      <4>2. gone \in Results
        BY <2>4, <4>1, ForcesFacts DEF Results
      <4>3. gone.mask = read.mask
        BY <2>4, <4>1 DEF Results
      <4> QED
        BY <2>4, <3>2, <4>2, <4>3 DEF Sound, Truthful
    <3> QED
      BY <3>1, <3>2
  <2> HIDE DEF gone
  <2>6. out \in Results /\ Sound(out)
    <3>1. out \in Results
      BY <2>1, <2>5, ForcesFacts DEF Results
    <3>2. out.mask = {}
      BY <2>5 DEF Results
    <3> QED
      BY <3>1, <3>2 DEF Sound
  <2> HIDE DEF out
  <2>7. r \in Results /\ Sound(r)
    BY <2>5, <2>6
  <2>8. ProcessWacomIIS_Binary(s, p) = [Apply(s, r) EXCEPT !.raw = raw]
    BY <1>2 DEF ProcessWacomIIS_Binary, y, raw, read, gone, out
  <2> HIDE DEF r
  <2>9. Apply(s, r) \in Stylus /\ Decodes(s, Apply(s, r))
    BY <2>7, ApplyFacts DEF Decodes
  <2> QED
    BY <2>3, <2>8, <2>9, RawFacts
<1> QED
  BY <1>1, <1>2

LEMMA IISAsciiDecodes ==
  ASSUME NEW s \in Stylus, NEW p \in Packets, Truthful(p), cfg.series # "Intuos"
  PROVE  Decodes(s, ProcessWacomIIS_ASCII(s, p))
<1> DEFINE y == IF cfg.relative THEN s.y + (IF cfg.lowerLeft THEN -p.v ELSE p.v) ELSE Row(p.v)
           here == [y |-> y, near |-> p.prox, eraser |-> FALSE, off |-> ~p.prox, force |-> 0,
                    mask |-> {}]
           out == [here EXCEPT !.y = s.y, !.near = FALSE, !.eraser = s.eraser, !.off = TRUE]
           f == IF p.kind = "buttons" THEN SDForce(p.code, s.raw) ELSE p.force
           sd == [here EXCEPT !.near = p.prox /\ f > 0, !.off = ~p.prox \/ f = 0,
                              !.force = IF p.prox THEN f ELSE 0,
                              !.mask = TipIf(p.prox /\ f > 0)]
           press == [here EXCEPT !.force = IF p.prox THEN p.force ELSE 0,
                                 !.mask = TipIf(p.prox /\ p.force > 0)]
           bits == IF p.prox THEN p.bits ELSE {}
           end == EraserSeen(s, bits)
           mask == IF Side2 \notin bits \/ ~end THEN bits
                   ELSE IF Tip \in bits THEN {Eraser} ELSE {}
           click == [here EXCEPT !.eraser = Side2 \in bits /\ end, !.mask = mask,
                                 !.force = IF mask \intersect {Tip, Eraser} # {} THEN 4 ELSE 0]
           raw == IF cfg.series = "SD" /\ p.kind = "buttons" THEN SDRaw(p.code, s.raw) ELSE s.raw
           r == IF cfg.series = "SD" THEN sd ELSE IF p.kind = "pressure" THEN press ELSE click
<1>1. /\ p.v \in Int /\ p.code \in Codes /\ p.prox \in BOOLEAN /\ p.force \in Forces
      /\ p.bits \in SUBSET (0..2)
      /\ s.y \in Int /\ s.raw \in Codes /\ s.eraser \in BOOLEAN
  BY DEF Packets, Stylus, Truthful
<1>2. y \in Int
  BY <1>1, RowFacts
<1>3. raw \in Codes
  BY <1>1, SDFacts
<1>4. f \in Forces
  BY <1>1, SDFacts
<1>5. bits \in SUBSET (0..2) /\ (~p.prox => bits = {})
  BY <1>1
<1>6. /\ mask \in SUBSET (0..9)
      /\ ~({Tip, Eraser} \subseteq mask)
      /\ ~p.prox => mask = {}
  BY <1>5 DEF Side2, Tip, Eraser
<1>7. \A b \in BOOLEAN : TipIf(b) \in SUBSET (0..9) /\ Eraser \notin TipIf(b) /\ (~b => TipIf(b) = {})
  BY DEF TipIf, Tip, Eraser
<1>8. ProcessWacomIIS_ASCII(s, p) =
        IF Outside(y) THEN Apply(s, out) ELSE [Apply(s, r) EXCEPT !.raw = raw]
  BY DEF ProcessWacomIIS_ASCII
<1> HIDE DEF y, f, bits, raw
<1>9. here \in Results /\ here.mask = {}
  BY <1>1, <1>2, ForcesFacts DEF Results
<1> HIDE DEF here
<1>10. out \in Results /\ out.mask = {}
  BY <1>1, <1>9 DEF Results
<1>11. sd \in Results /\ Sound(sd)
  <2> DEFINE near == p.prox /\ f > 0
             off == ~p.prox \/ f = 0
             force == IF p.prox THEN f ELSE 0
             tip == TipIf(p.prox /\ f > 0)
  <2>1. near \in BOOLEAN /\ off \in BOOLEAN
    OBVIOUS
  <2>2. force \in Forces
    BY <1>4, ForcesFacts
  <2>3. tip \in SUBSET (0..9) /\ Eraser \notin tip /\ (~near => tip = {})
    BY <1>7
  <2>4. off => ~near
    BY <1>1, <1>4 DEF Forces
  <2>5. sd = [here EXCEPT !.near = near, !.off = off, !.force = force, !.mask = tip]
    OBVIOUS
  <2> HIDE DEF near, off, force, tip, sd
  <2>6. sd \in Results
    BY <1>9, <2>1, <2>2, <2>3, <2>5 DEF Results
  <2>7. sd.mask = tip /\ sd.off = off
    BY <1>9, <2>5 DEF Results
  <2> QED
    BY <2>3, <2>4, <2>6, <2>7 DEF Sound
<1>12. press \in Results /\ Sound(press)
  <2> DEFINE touch == p.prox /\ p.force > 0
             force == IF p.prox THEN p.force ELSE 0
             tip == TipIf(touch)
  <2>1. touch \in BOOLEAN
    OBVIOUS
  <2>2. force \in Forces
    BY <1>1, ForcesFacts
  <2>3. tip \in SUBSET (0..9) /\ Eraser \notin tip /\ (~p.prox => tip = {})
    BY <1>7, <2>1
  <2>4. press = [here EXCEPT !.force = force, !.mask = tip]
    OBVIOUS
  <2> HIDE DEF touch, force, tip, press
  <2>5. press \in Results
    BY <1>9, <2>2, <2>3, <2>4 DEF Results
  <2>6. press.mask = tip /\ press.off = here.off
    BY <1>9, <2>4 DEF Results
  <2>7. here.off = ~p.prox
    BY DEF here
  <2> QED
    BY <2>3, <2>5, <2>6, <2>7 DEF Sound
<1>13. click \in Results /\ Sound(click)
  <2> DEFINE eraser == Side2 \in bits /\ end
             force == IF mask \intersect {Tip, Eraser} # {} THEN 4 ELSE 0
  <2>1. eraser \in BOOLEAN
    BY <1>1 DEF EraserSeen, Stylus
  <2>2. force \in Forces
    BY ForcesFacts
  <2>3. click = [here EXCEPT !.eraser = eraser, !.mask = mask, !.force = force]
    OBVIOUS
  <2> HIDE DEF eraser, force, mask, click
  <2>4. click \in Results
    BY <1>6, <1>9, <2>1, <2>2, <2>3 DEF Results
  <2>5. click.mask = mask /\ click.off = here.off
    BY <1>9, <2>3 DEF Results
  <2>6. here.off = ~p.prox
    BY DEF here
  <2> QED
    BY <1>6, <2>4, <2>5, <2>6 DEF Sound
<1> HIDE DEF out, sd, press, click
<1>14. r \in Results /\ Sound(r)
  BY <1>11, <1>12, <1>13
<1> HIDE DEF r
<1>15. CASE Outside(y)
  <2>1. Sound(out)
    BY <1>10 DEF Sound
  <2> QED
    BY <1>8, <1>10, <1>15, <2>1, ApplyFacts DEF Decodes
<1>16. CASE ~Outside(y)
  <2>1. Apply(s, r) \in Stylus /\ Decodes(s, Apply(s, r))
    BY <1>14, ApplyFacts DEF Decodes
  <2> QED
    BY <1>3, <1>8, <1>16, <2>1, RawFacts
<1> QED
  BY <1>15, <1>16

\* The common part of Wacom IV keeps the buttons and settles the proximity.
LEMMA IVBaseFacts ==
  ASSUME NEW s \in Stylus, NEW p \in Packets
  PROVE  /\ ProcessWacomIV_Base(s, p) \in Stylus
         /\ Still(s, ProcessWacomIV_Base(s, p))
         /\ ProcessWacomIV_Base(s, p).mask = s.mask
<1> DEFINE left == ~p.engaged /\ cfg.suppressed
           y == IF p.engaged THEN Row(p.v) ELSE s.y
           outbound == mouseMode /\ y \notin Active
           off == left \/ outbound
           near == ~off
           eraser == s.eraser /\ ~left
           force == IF p.engaged /\ ~outbound THEN p.force ELSE 0
           motion == IF outbound THEN 0 ELSE Settled(s, y, off)
           t == ProcessWacomIV_Base(s, p)
<1>1. p.v \in Int /\ p.force \in Forces /\ s.y \in Int /\ s.off \in BOOLEAN /\ s.eraser \in BOOLEAN
  BY DEF Packets, Stylus
<1>2. y \in Int
  BY <1>1, RowFacts
<1>3. off \in BOOLEAN /\ near \in BOOLEAN /\ eraser \in BOOLEAN
  OBVIOUS
<1>4. force \in Forces
  BY <1>1, ForcesFacts
<1>5. motion \in Int /\ (s.off /\ ~off => motion = 0)
  BY <1>1, <1>2 DEF Settled
<1>6. t = [s EXCEPT !.near = near, !.eraser = eraser, !.force = force, !.y = y,
                    !.motion = motion, !.off = off]
  BY DEF ProcessWacomIV_Base
<1> HIDE DEF off, near, eraser, force, y, motion, t
<1>7. t \in Stylus
  BY <1>2, <1>3, <1>4, <1>5, <1>6 DEF Stylus
<1>8. t.mask = s.mask /\ t.motion = motion /\ t.off = off
  BY <1>6 DEF Stylus
<1> QED
  BY <1>5, <1>7, <1>8 DEF Still, t

LEMMA IV13Decodes ==
  ASSUME NEW s \in Stylus, NEW p \in Packets, Truthful(p), cfg.series # "Intuos", NEW size
  PROVE  Decodes(s, ProcessWacomIV_13(s, p, size))
<1> DEFINE end == EraserSeen(s, p.bits)
           read == [s EXCEPT !.eraser = end]
           base == ProcessWacomIV_Base(read, p)
           mask == IF base.off THEN {} ELSE IVButtons(p.bits, end)
<1>1. CASE size # 7
  BY <1>1, Unchanged DEF ProcessWacomIV_13
<1>2. CASE size = 7
  <2>1. p.bits \in SUBSET (0..2)
    BY DEF Packets, Truthful
  <2>2. end \in BOOLEAN
    BY DEF EraserSeen, Stylus
  <2>3. IVButtons(p.bits, end) \in SUBSET (0..9) /\ ~({Tip, Eraser} \subseteq IVButtons(p.bits, end))
    BY <2>1 DEF IVButtons, Tip, Side1, Side2, Eraser
  <2>4. ProcessWacomIV_13(s, p, size) = [base EXCEPT !.mask = mask]
    BY <1>2 DEF ProcessWacomIV_13, SetButtons
  <2> HIDE DEF end
  <2>5. read \in Stylus /\ read.off = s.off
    BY <2>2 DEF Stylus
  <2> HIDE DEF read
  <2>6. base \in Stylus /\ Still(read, base)
    BY <2>5, IVBaseFacts
  <2> HIDE DEF base
  <2>7. /\ mask \in SUBSET (0..9) /\ ~({Tip, Eraser} \subseteq mask)
        /\ base.off => mask = {}
    BY <2>3 DEF Tip
  <2> HIDE DEF mask
  <2> DEFINE t == [base EXCEPT !.mask = mask]
  <2>8. t \in Stylus /\ t.mask = mask /\ t.off = base.off /\ t.motion = base.motion
    BY <2>6, <2>7 DEF Stylus
  <2> HIDE DEF t
  <2>9. Sound(t) /\ Still(s, t)
    BY <2>5, <2>6, <2>7, <2>8 DEF Sound, Still
  <2> QED
    BY <2>4, <2>8, <2>9 DEF Decodes, t
<1> QED
  BY <1>1, <1>2

LEMMA IV14Decodes ==
  ASSUME NEW s \in Stylus, NEW p \in Packets, Truthful(p), cfg.series # "Intuos"
  PROVE  Decodes(s, ProcessWacomIV_14(s, p))
  BY IV13Decodes, Unchanged DEF ProcessWacomIV_14

\* A Graphire's pen is always near; its coming has a motion.
LEMMA GraphireFacts ==
  ASSUME NEW s \in Stylus, NEW p \in Packets, Truthful(p), cfg.series # "Intuos"
  PROVE  ProcessGraphire(s, p) \in Stylus /\ Sound(ProcessGraphire(s, p))
<1> DEFINE q == [p EXCEPT !.v = p.alias, !.engaged = TRUE]
           base == ProcessWacomIV_Base(s, q)
           y == IF p.prox THEN p.v ELSE base.y
           motion == y - base.y
           eraser == p.tool = "eraser"
           mask == IF p.tool = "mouse" THEN {b + 5 : b \in p.bits} ELSE p.bits
           t == ProcessGraphire(s, p)
<1>1. p.bits \in SUBSET (0..2) /\ p.v \in Int /\ p.force \in Forces
  BY DEF Packets, Truthful
<1>2. q \in Packets
  BY DEF Packets
<1>3. t = [base EXCEPT !.near = TRUE, !.off = FALSE, !.y = y, !.motion = motion,
                       !.eraser = eraser, !.force = p.force, !.mask = mask]
  BY DEF ProcessGraphire
<1> HIDE DEF q
<1>4. base \in Stylus
  BY <1>2, IVBaseFacts
<1> HIDE DEF base
<1>5. y \in Int /\ motion \in Int /\ eraser \in BOOLEAN
  BY <1>1, <1>4 DEF Stylus
<1>6. mask \in SUBSET (0..9) /\ ~({Tip, Eraser} \subseteq mask)
  <2>1. CASE p.tool = "mouse"
    <3>1. mask = {b + 5 : b \in p.bits}
      BY <2>1
    <3>2. mask \subseteq 5..7
      BY <1>1, <3>1
    <3> QED
      BY <3>2 DEF Tip
  <2>2. CASE p.tool # "mouse"
    BY <1>1, <2>2 DEF Eraser
  <2> QED
    BY <2>1, <2>2
<1> HIDE DEF y, motion, eraser, mask, t
<1>7. t \in Stylus /\ t.mask = mask /\ ~t.off
  BY <1>1, <1>3, <1>4, <1>5, <1>6 DEF Stylus
<1> QED
  BY <1>6, <1>7 DEF Sound, t

LEMMA TabletPCDecodes ==
  ASSUME NEW s \in Stylus, NEW p \in Packets, Truthful(p), cfg.series # "Intuos"
  PROVE  Decodes(s, ProcessTabletPC(s, p))
<1> DEFINE end == p.prox /\ Side2 \in p.bits
           off == ~p.prox
           force == IF p.prox THEN p.force ELSE 0
           mask == IF ~p.prox THEN {}
                   ELSE TipIf(p.force > 0 /\ Tip \in p.bits) \union
                        (IF end THEN {} ELSE p.bits \intersect {Side1, Side2})
           r == [near |-> p.prox, off |-> off, eraser |-> end, y |-> p.v, force |-> force,
                 mask |-> mask]
<1>1. p.bits \in SUBSET (0..2) /\ p.v \in Int /\ p.force \in Forces /\ p.prox \in BOOLEAN
  BY DEF Packets, Truthful
<1>2. end \in BOOLEAN /\ off \in BOOLEAN
  OBVIOUS
<1>3. force \in Forces
  BY <1>1, ForcesFacts
<1>4. mask \in SUBSET (0..2) /\ (off => mask = {})
  BY <1>1 DEF TipIf, Tip, Side1, Side2
<1>5. ProcessTabletPC(s, p) = Apply(s, r)
  BY DEF ProcessTabletPC
<1> HIDE DEF end, off, force, mask
<1>6. mask \in SUBSET (0..9) /\ Eraser \notin mask
  BY <1>4 DEF Eraser
<1>7. r \in Results /\ r.mask = mask /\ r.off = off
  BY <1>1, <1>2, <1>3, <1>6 DEF Results
<1> HIDE DEF r
<1>8. Sound(r)
  BY <1>4, <1>6, <1>7 DEF Sound
<1> QED
  BY <1>5, <1>7, <1>8, ApplyFacts DEF Decodes

\* The moves of a Fujitsu keep the button of the packet that began them.
LEMMA FujitsuDecodes ==
  ASSUME NEW s \in Stylus, NEW p \in Packets
  PROVE  Decodes(s, ProcessFujitsuPSeries(s, p))
<1> DEFINE off == p.kind = "up"
           force == CASE p.kind = "down" -> 4 [] p.kind = "up" -> 0 [] OTHER -> s.force
           mask == CASE p.kind = "down" -> {Tip} [] p.kind = "up" -> {} [] OTHER -> s.mask
           r == [near |-> TRUE, off |-> off, eraser |-> s.eraser, y |-> p.v, force |-> force,
                 mask |-> mask]
<1>1. /\ p.v \in Int /\ s.force \in Forces /\ s.mask \in SUBSET (0..9)
      /\ s.eraser \in BOOLEAN /\ s.off \in BOOLEAN
  BY DEF Packets, Stylus
<1>2. off \in BOOLEAN
  OBVIOUS
<1>3. force \in Forces
  BY <1>1, ForcesFacts
<1>4. mask \in {{Tip}, {}, s.mask} /\ (off => mask = {})
  OBVIOUS
<1>5. ProcessFujitsuPSeries(s, p) = Apply(s, r)
  BY DEF ProcessFujitsuPSeries
<1> HIDE DEF off, force, mask
<1>6. mask \in SUBSET (0..9)
  BY <1>1, <1>4 DEF Tip
<1>7. r \in Results /\ r.mask = mask /\ r.off = off
  BY <1>1, <1>2, <1>3, <1>6 DEF Results
<1> HIDE DEF r
<1>8. ASSUME Sound(s) PROVE Sound(r)
  <2>1. ~({Tip, Eraser} \subseteq {Tip}) /\ ~({Tip, Eraser} \subseteq {})
    BY DEF Tip, Eraser
  <2>2. ~({Tip, Eraser} \subseteq mask)
    BY <1>4, <1>8, <2>1 DEF Sound
  <2>3. r.off => r.mask \intersect StylusButtons = {}
    BY <1>4, <1>7
  <2> QED
    BY <1>7, <2>2, <2>3 DEF Sound
<1> QED
  BY <1>5, <1>7, <1>8, ApplyFacts DEF Decodes

\* Every decoder of the tablets that are no Intuos.
LEMMA DecodeFacts ==
  ASSUME cfg \in Tablet, NEW s \in Stylus, NEW p \in Packets, Truthful(p), cfg.series # "Intuos"
  PROVE  /\ Decode(s, p) \in Stylus
         /\ Sound(s) => Sound(Decode(s, p))
         /\ cfg.series # "Graphire" => Still(s, Decode(s, p))
<1>1. CASE cfg.series = "Graphire"
  <2>1. Decode(s, p) = ProcessGraphire(s, p)
    BY <1>1 DEF Decode
  <2> QED
    BY <1>1, <2>1, GraphireFacts
<1>2. CASE cfg.series = "FujitsuP"
  <2>1. Decode(s, p) = ProcessFujitsuPSeries(s, p)
    BY <1>2 DEF Decode
  <2> QED
    BY <2>1, FujitsuDecodes DEF Decodes
<1>3. CASE cfg.series \notin {"Graphire", "FujitsuP"}
  <2>1. Decode(s, p) =
          CASE cfg.set = "WacomIIS" -> IF cfg.ascii THEN ProcessWacomIIS_ASCII(s, p)
                                       ELSE ProcessWacomIIS_Binary(s, p)
            [] cfg.set = "WacomIV"  -> IF cfg.old THEN ProcessWacomIV_13(s, p, p.size)
                                       ELSE ProcessWacomIV_14(s, p)
            [] cfg.set = "TabletPC" /\ ~cfg.ascii -> ProcessTabletPC(s, p)
            [] OTHER -> s
    BY <1>3 DEF Decode
  <2>2. CASE cfg.set = "WacomIIS"
    <3>1. Decode(s, p) \in {ProcessWacomIIS_ASCII(s, p), ProcessWacomIIS_Binary(s, p)}
      BY <2>1, <2>2
    <3> QED
      BY <3>1, IISAsciiDecodes, IISBinaryDecodes DEF Decodes
  <2>3. CASE cfg.set = "WacomIV"
    <3>1. Decode(s, p) \in {ProcessWacomIV_13(s, p, p.size), ProcessWacomIV_14(s, p)}
      BY <2>1, <2>3
    <3> QED
      BY <3>1, IV13Decodes, IV14Decodes DEF Decodes
  <2>4. CASE cfg.set = "TabletPC" /\ ~cfg.ascii
    <3>1. Decode(s, p) = ProcessTabletPC(s, p)
      BY <2>1, <2>4
    <3> QED
      BY <3>1, TabletPCDecodes DEF Decodes
  <2>5. CASE cfg.set \notin {"WacomIIS", "WacomIV"} /\ ~(cfg.set = "TabletPC" /\ ~cfg.ascii)
    <3>1. Decode(s, p) = s
      BY <2>1, <2>5
    <3> QED
      BY <3>1, Unchanged DEF Decodes
  <2> QED
    BY <2>2, <2>3, <2>4, <2>5
<1> QED
  BY <1>1, <1>2, <1>3

(***************************************************************************)
(* The Intuos.                                                             *)
(***************************************************************************)
\* Only the mice with five buttons have one with the eraser's number.
LEMMA MouseButtonsFacts ==
  ASSUME NEW toolid, NEW bits \in SUBSET (0..6)
  PROVE  /\ MouseButtons(toolid, bits) \in SUBSET (0..9)
         /\ toolid \notin {"mouse4D", "lens"} => Eraser \notin MouseButtons(toolid, bits)
<1>1. CASE toolid = "mouse4D"
  <2>1. MouseButtons(toolid, bits) =
          (bits \intersect 0..2) \union {b - 1 : b \in bits \intersect 4..6}
    BY <1>1 DEF MouseButtons
  <2>2. (bits \intersect 0..2) \subseteq 0..9
    OBVIOUS
  <2>3. {b - 1 : b \in bits \intersect 4..6} \subseteq 0..9
    OBVIOUS
  <2> QED
    BY <1>1, <2>1, <2>2, <2>3
<1>2. CASE toolid = "lens"
  <2>1. MouseButtons(toolid, bits) = bits \intersect 0..4
    BY <1>2 DEF MouseButtons
  <2> QED
    BY <1>2, <2>1
<1>3. CASE toolid \notin {"mouse4D", "lens"}
  <2>1. MouseButtons(toolid, bits) = {b - 2 : b \in bits \intersect 2..4}
    BY <1>3 DEF MouseButtons
  <2>2. {b - 2 : b \in bits \intersect 2..4} \subseteq 0..2
    OBVIOUS
  <2>3. Eraser \notin 0..2 /\ 0..2 \subseteq 0..9
    BY DEF Eraser
  <2> QED
    BY <2>1, <2>2, <2>3
<1> QED
  BY <1>1, <1>2, <1>3

\* What each kind of packet does to the proximity, the tool and the buttons.
VEffect(s, p, t) ==
  /\ p.kind = "id"  => ~t.off /\ t.mask = s.mask /\ t.motion = 0
  /\ p.kind = "out" => t.off /\ t.mask = {}
  /\ p.kind \notin {"id", "out"} => t.off = s.off /\ t.toolid = s.toolid
  /\ p.kind = "pen" => Eraser \notin t.mask
  /\ p.kind = "wheel" => t.mask = {}
  /\ p.kind = "turn" => t.mask = s.mask
  /\ p.kind = "mouse" /\ s.toolid \notin {"mouse4D", "lens"} => Eraser \notin t.mask

LEMMA WacomVFacts ==
  ASSUME NEW s \in Stylus, NEW p \in Packets,
         p.kind \in {"id", "out", "pen", "wheel", "mouse", "turn"},
         p.kind = "pen" => p.bits \subseteq 0..2
  PROVE  /\ ProcessWacomV(s, p) \in Stylus
         /\ VEffect(s, p, ProcessWacomV(s, p))
<1> DEFINE t == ProcessWacomV(s, p)
           moved == [s EXCEPT !.y = p.v, !.motion = p.v - s.y]
<1>1. /\ p.v \in Int /\ p.force \in Forces /\ p.tool \in Tools /\ p.bits \in SUBSET (0..6)
      /\ s.y \in Int /\ s.mask \in SUBSET (0..9)
  BY DEF Packets, Stylus
<1>2. p.v - s.y \in Int
  BY <1>1
<1>3. /\ moved \in Stylus /\ moved.mask = s.mask /\ moved.off = s.off
      /\ moved.toolid = s.toolid
  BY <1>1, <1>2 DEF Stylus
<1> HIDE DEF moved
<1>4. CASE p.kind = "id"
  <2> DEFINE eraser == p.tool = "eraser"
             still == 0
  <2>1. t = [s EXCEPT !.toolid = p.tool, !.off = FALSE, !.near = TRUE, !.eraser = eraser,
                      !.motion = still]
    BY <1>4 DEF ProcessWacomV
  <2>2. eraser \in BOOLEAN /\ still \in Int /\ still = 0
    OBVIOUS
  <2> HIDE DEF eraser, still, t
  <2>3. t \in Stylus
    BY <1>1, <2>1, <2>2 DEF Stylus
  <2>4. ~t.off /\ t.mask = s.mask /\ t.motion = 0
    BY <2>1, <2>2 DEF Stylus
  <2> QED
    BY <1>4, <2>3, <2>4 DEF VEffect, t
<1>5. CASE p.kind = "out"
  <2> DEFINE still == 0
  <2>1. t = [s EXCEPT !.off = TRUE, !.near = FALSE, !.eraser = FALSE, !.force = 0,
                      !.motion = still, !.mask = {}]
    BY <1>5 DEF ProcessWacomV, ProcessWacomVOut
  <2>2. still \in Int
    OBVIOUS
  <2> HIDE DEF still, t
  <2>3. t \in Stylus
    BY <2>1, <2>2, ForcesFacts DEF Stylus
  <2>4. t.off /\ t.mask = {}
    BY <2>1 DEF Stylus
  <2> QED
    BY <1>5, <2>3, <2>4 DEF VEffect, t
<1>6. CASE p.kind = "pen"
  <2> DEFINE mask == TipIf(p.force > 0) \union (p.bits \ {Tip})
  <2>1. t = [moved EXCEPT !.force = p.force, !.mask = mask]
    BY <1>6 DEF ProcessWacomV, moved
  <2>2. mask \in SUBSET (0..2)
    BY <1>6 DEF TipIf, Tip
  <2>3. mask \in SUBSET (0..9) /\ Eraser \notin mask
    BY <2>2 DEF Eraser
  <2> HIDE DEF mask, t
  <2>4. t \in Stylus /\ t.off = s.off /\ t.toolid = s.toolid /\ t.mask = mask
    BY <1>1, <1>3, <2>1, <2>3 DEF Stylus
  <2> QED
    BY <1>6, <2>3, <2>4 DEF VEffect, t
<1>7. CASE p.kind = "wheel"
  <2>1. t = [moved EXCEPT !.force = 0, !.mask = {}]
    BY <1>7 DEF ProcessWacomV, moved
  <2> HIDE DEF t
  <2>2. t \in Stylus /\ t.off = s.off /\ t.toolid = s.toolid /\ t.mask = {}
    BY <1>3, <2>1, ForcesFacts DEF Stylus
  <2> QED
    BY <1>7, <2>2 DEF VEffect, t
<1>8. CASE p.kind = "mouse"
  <2> DEFINE mask == MouseButtons(s.toolid, p.bits)
  <2>1. t = [moved EXCEPT !.mask = mask]
    BY <1>8 DEF ProcessWacomV, moved
  <2>2. mask \in SUBSET (0..9) /\ (s.toolid \notin {"mouse4D", "lens"} => Eraser \notin mask)
    BY <1>1, MouseButtonsFacts
  <2> HIDE DEF mask, t
  <2>3. t \in Stylus /\ t.off = s.off /\ t.toolid = s.toolid /\ t.mask = mask
    BY <1>3, <2>1, <2>2 DEF Stylus
  <2> QED
    BY <1>8, <2>2, <2>3 DEF VEffect, t
<1>9. CASE p.kind = "turn"
  <2>1. t = moved
    BY <1>9 DEF ProcessWacomV, moved
  <2> QED
    BY <1>3, <1>9, <2>1 DEF VEffect
<1> QED
  BY <1>4, <1>5, <1>6, <1>7, <1>8, <1>9

(***************************************************************************)
(* The specification.                                                      *)
(***************************************************************************)
\* While an Intuos' announcements are heard, its pen is near when the stylus is,
\* nothing is pressed before the announcement, and the tool is the one named.
Announced ==
  /\ stylus.off <=> ~pen.near
  /\ stylus.off => stylus.mask = {}
  /\ {Tip, Eraser} \subseteq stylus.mask => stylus.toolid \in {"mouse4D", "lens"}

Inv ==
  /\ TypeOK
  /\ cfg.series # "Intuos" => Sound(stylus)
  /\ cfg.series = "Intuos" /\ synced => Announced

LEMMA TabletFacts ==
  ASSUME cfg \in Tablets
  PROVE  cfg \in Tablet /\ cfg.series \in Series
  BY DecodersAssumption DEF Tablet

LEMMA InitInv == Init => Inv
<1> SUFFICES ASSUME Init PROVE Inv
  OBVIOUS
<1>1. cfg \in Tablet
  BY TabletFacts DEF Init
<1>2. stylus \in Stylus
  BY ForcesFacts DEF Init, NewStylus, Stylus, Codes, Tools
<1>3. stylus.off /\ stylus.mask = {}
  BY DEF Init, NewStylus
<1>4. /\ pen \in [tool : Tools, near : BOOLEAN, bits : SUBSET (0..4), force : Forces]
      /\ pen \in {Away} \union Near[cfg.series]
  BY <1>1, PenFacts DEF Init
<1>5. synced \in BOOLEAN /\ current \in BOOLEAN /\ (synced => ~pen.near)
  BY DEF Init
<1>6. TypeOK
  BY <1>2, <1>4, <1>5 DEF Init, TypeOK
<1> QED
  BY <1>3, <1>5, <1>6 DEF Inv, Sound, Announced

\* What remains of a packet after ProcessPacket's last look at the pressure.
LEMMA ProcessPacketFacts ==
  ASSUME NEW p, Decode(stylus, p) \in Stylus, ProcessPacket(p)
  PROVE  /\ stylus' \in Stylus
         /\ stylus'.mask = Decode(stylus, p).mask
         /\ stylus'.off = Decode(stylus, p).off
         /\ stylus'.motion = Decode(stylus, p).motion
         /\ stylus'.toolid = Decode(stylus, p).toolid
<1> DEFINE t == Decode(stylus, p)
<1>1. stylus' = t \/ stylus' = [t EXCEPT !.force = 0]
  BY DEF ProcessPacket
<1> HIDE DEF t
<1>2. t \in Stylus
  BY DEF t
<1>3. [t EXCEPT !.force = 0] \in Stylus
  BY <1>2, ForcesFacts DEF Stylus
<1>4. LET u == [t EXCEPT !.force = 0]
      IN  u.mask = t.mask /\ u.off = t.off /\ u.motion = t.motion /\ u.toolid = t.toolid
  BY <1>2 DEF Stylus
<1>5. /\ stylus' \in Stylus
      /\ stylus'.mask = t.mask /\ stylus'.off = t.off /\ stylus'.motion = t.motion
      /\ stylus'.toolid = t.toolid
  BY <1>1, <1>2, <1>3, <1>4
<1> QED
  BY <1>5 DEF t

\* The synchronisation with an Intuos survives a report only if it held, or the
\* pen left.
LEMMA IntuosReport ==
  ASSUME Inv, cfg.series = "Intuos", NEW p \in Packets, ProcessPacket(p),
         NEW is \in {Away} \union Near[cfg.series], pen' = is,
         p.kind = "pen" => p.bits \subseteq 0..2,
         synced' => synced \/ ~is.near,
         p.kind \in {"id", "out", "pen", "wheel", "mouse", "turn"},
         p.kind = "out" <=> ~is.near,
         p.kind = "id" => ~pen.near,
         p.kind \notin {"out", "id"} => pen.near
  PROVE  /\ stylus' \in Stylus
         /\ synced' => Announced'
         /\ Still(stylus, stylus')
<1> DEFINE t == ProcessWacomV(stylus, p)
<1>1. stylus \in Stylus
  BY DEF Inv, TypeOK
<1>2. t \in Stylus /\ VEffect(stylus, p, t)
  BY <1>1, WacomVFacts
<1>3. Decode(stylus, p) = t
  BY DEF Decode
<1> HIDE DEF t
<1>4. /\ stylus' \in Stylus
      /\ stylus'.mask = t.mask /\ stylus'.off = t.off /\ stylus'.motion = t.motion
      /\ stylus'.toolid = t.toolid
  BY <1>2, <1>3, ProcessPacketFacts
<1>5. Still(stylus, stylus')
  BY <1>2, <1>4 DEF Still, VEffect
<1>6. ASSUME synced' PROVE Announced'
  <2>1. is.near => synced /\ Announced
    BY <1>6 DEF Inv
  <2>2. stylus'.off <=> ~is.near
    BY <1>2, <1>4, <2>1 DEF VEffect, Announced
  <2>3. stylus'.off => stylus'.mask = {}
    BY <1>2, <1>4, <2>2 DEF VEffect
  <2>4. ASSUME {Tip, Eraser} \subseteq stylus'.mask
        PROVE  stylus'.toolid \in {"mouse4D", "lens"}
    <3>1. CASE p.kind = "id"
      BY <1>2, <1>4, <2>1, <2>4, <3>1 DEF VEffect, Announced
    <3>2. CASE p.kind = "turn"
      BY <1>2, <1>4, <2>1, <2>4, <3>2 DEF VEffect, Announced
    <3>3. CASE p.kind = "mouse"
      BY <1>2, <1>4, <2>4, <3>3 DEF VEffect
    <3>4. CASE p.kind \in {"out", "pen", "wheel"}
      BY <1>2, <1>4, <2>4, <3>4 DEF VEffect
    <3> QED
      BY <3>1, <3>2, <3>3, <3>4
  <2> QED
    BY <2>2, <2>3, <2>4 DEF Announced
<1> QED
  BY <1>4, <1>5, <1>6

\* A report keeps the invariant, and is no motion when it brings the pen near.
LEMMA ReportStep ==
  ASSUME Inv, Report
  PROVE  Inv' /\ (cfg.series # "Graphire" => Still(stylus, stylus'))
<1>0. PICK is \in Moves(pen), v \in Rows, alias \in Active : \E kind \in Kinds(pen, is) :
        /\ ProcessPacket(Packet(pen, is, kind, v, alias))
        /\ pen' = is
        /\ synced' = (Readable /\ (synced \/ Forgets(is)) /\ ~TakenAway(is, v))
        /\ current' = (kind # "turn" \/ current)
        /\ UNCHANGED <<cfg, mouseMode>>
  BY DEF Report
<1>1. PICK kind \in Kinds(pen, is) :
        /\ ProcessPacket(Packet(pen, is, kind, v, alias))
        /\ pen' = is
        /\ synced' = (Readable /\ (synced \/ Forgets(is)) /\ ~TakenAway(is, v))
        /\ current' = (kind # "turn" \/ current)
        /\ UNCHANGED <<cfg, mouseMode>>
  BY <1>0
<1> DEFINE p == Packet(pen, is, kind, v, alias)
           t == Decode(stylus, p)
<1>2. /\ cfg \in Tablet /\ cfg \in Tablets /\ mouseMode \in BOOLEAN /\ stylus \in Stylus
  BY TabletFacts DEF Inv, TypeOK
<1>3. v \in Int /\ alias \in Int
  BY DecodersAssumption DEF Rows
<1>4. is \in {Away} \union Near[cfg.series]
  BY MovesFacts
<1>5. p \in Packets /\ Truthful(p)
  BY <1>2, <1>3, <1>4, PacketFacts
<1>6. /\ p.kind = kind /\ p.bits = Wire(is)
  BY DEF Packet
<1> HIDE DEF p
<1>7. synced' \in BOOLEAN /\ current' \in BOOLEAN
  BY <1>1
<1>8. CASE cfg.series = "Intuos"
  <2>1. /\ p.kind \in {"id", "out", "pen", "wheel", "mouse", "turn"}
        /\ p.kind = "out" <=> ~is.near
        /\ p.kind = "id" => ~pen.near
        /\ p.kind \notin {"out", "id"} => pen.near
        /\ p.kind = "pen" => p.bits \subseteq 0..2
    BY <1>2, <1>4, <1>6, <1>8, KindsFacts, WireFacts
  <2>2. synced' => synced \/ ~is.near
    BY <1>1 DEF Forgets
  <2>3. ProcessPacket(p) /\ pen' = is
    BY <1>1 DEF p
  <2>4. stylus' \in Stylus /\ (synced' => Announced') /\ Still(stylus, stylus')
    BY <1>4, <1>5, <1>8, <2>1, <2>2, <2>3, IntuosReport
  <2>5. TypeOK'
    BY <1>1, <1>2, <1>4, <1>7, <2>4 DEF TypeOK
  <2> QED
    BY <1>1, <1>8, <2>4, <2>5 DEF Inv
<1>9. CASE cfg.series # "Intuos"
  <2>1. /\ t \in Stylus
        /\ Sound(t)
        /\ cfg.series # "Graphire" => Still(stylus, t)
    BY <1>2, <1>5, <1>9, DecodeFacts DEF Inv
  <2>2. ProcessPacket(p)
    BY <1>1 DEF p
  <2>3. /\ stylus' \in Stylus
        /\ stylus'.mask = t.mask /\ stylus'.off = t.off /\ stylus'.motion = t.motion
    BY <2>1, <2>2, ProcessPacketFacts
  <2> HIDE DEF t
  <2>4. Sound(stylus') /\ (cfg.series # "Graphire" => Still(stylus, stylus'))
    BY <2>1, <2>3 DEF Sound, Still
  <2>5. TypeOK'
    BY <1>1, <1>2, <1>4, <1>7, <2>3 DEF TypeOK
  <2>6. Sound(stylus)'
    BY <2>4 DEF Sound
  <2> QED
    BY <1>1, <1>9, <2>4, <2>5, <2>6 DEF Inv
<1> QED
  BY <1>8, <1>9

LEMMA LosePacketStep ==
  ASSUME Inv, LosePacket
  PROVE  Inv'
<1>1. pen' \in Moves(pen) /\ UNCHANGED <<cfg, mouseMode, stylus>>
  BY DEF LosePacket
<1>2. pen' \in {Away} \union Near[cfg.series]
  BY <1>1, MovesFacts
<1>3. /\ synced' \in BOOLEAN /\ current' \in BOOLEAN
      /\ synced' => synced /\ pen.near /\ pen'.near
  BY DEF LosePacket
<1>4. TypeOK'
  BY <1>1, <1>2, <1>3 DEF Inv, TypeOK
<1> QED
  BY <1>1, <1>3, <1>4 DEF Inv, Sound, Announced

LEMMA ResetStylusStep ==
  ASSUME Inv, ResetStylus
  PROVE  Inv' /\ Still(stylus, stylus')
<1>1. stylus \in Stylus
  BY DEF Inv, TypeOK
<1>2. /\ stylus' = Lifted(stylus)
      /\ synced' = (synced /\ ~pen.near)
      /\ UNCHANGED <<cfg, mouseMode, pen, current>>
  BY DEF ResetStylus
<1>3. stylus' \in Stylus
  BY <1>1, <1>2, ForcesFacts DEF Lifted, Stylus
<1>4. stylus'.off /\ stylus'.mask = {}
  BY <1>1, <1>2 DEF Lifted, Stylus
<1>5. TypeOK'
  BY <1>2, <1>3 DEF Inv, TypeOK
<1> QED
  BY <1>2, <1>4, <1>5 DEF Inv, Sound, Announced, Still

LEMMA ImportStep ==
  ASSUME Inv, Import
  PROVE  Inv'
<1>1. /\ cfg' \in Tablets /\ cfg'.series = cfg.series
      /\ synced' \in BOOLEAN /\ (synced' => synced)
      /\ UNCHANGED <<mouseMode, stylus, pen, current>>
  BY DEF Import
<1>2. TypeOK'
  BY <1>1 DEF Inv, TypeOK, Stylus
<1> QED
  BY <1>1, <1>2 DEF Inv, Sound, Announced

LEMMA NextInv == Inv /\ [Next]_vars => Inv'
<1> SUFFICES ASSUME Inv, [Next]_vars PROVE Inv'
  OBVIOUS
<1>1. CASE Report
  BY <1>1, ReportStep
<1>2. CASE LosePacket
  BY <1>2, LosePacketStep
<1>3. CASE ResetStylus
  BY <1>3, ResetStylusStep
<1>4. CASE Import
  BY <1>4, ImportStep
<1>5. CASE SetMouseMode
  BY <1>5 DEF SetMouseMode, Inv, TypeOK, Sound, Announced
<1>6. CASE UNCHANGED vars
  BY <1>6 DEF vars, Inv, TypeOK, Sound, Announced
<1> QED
  BY <1>1, <1>2, <1>3, <1>4, <1>5, <1>6 DEF Next

\* Whatever packets ProcessPacket is handed, the stylus keeps its type.
THEOREM TypeCorrect == Spec => []TypeOK
<1>1. Inv => TypeOK
  BY DEF Inv
<1> QED
  BY InitInv, NextInv, <1>1, PTL DEF Spec

\* A stylus that a decoder, ResetStylus or a setting leaves off the tablet holds no
\* button, so PostChangeEvents releases them all.
THEOREM NoGhostButtonsHolds == Spec => []NoGhostButtons
<1>1. Inv => NoGhostButtons
  BY DEF Inv, NoGhostButtons, Sound, Announced
<1> QED
  BY InitInv, NextInv, <1>1, PTL DEF Spec

\* No decoder presses tip and eraser, which both drive the left button, together.
THEOREM TipOrEraserHolds == Spec => []TipOrEraser
<1>1. Inv => TipOrEraser
  BY DEF Inv, TipOrEraser, Sound, Announced
<1> QED
  BY InitInv, NextInv, <1>1, PTL DEF Spec

\* The packet that brings a pen near has no motion, so that in mouse mode the
\* pointer stays where it is.
THEOREM EntryDoesNotJumpHolds == Spec => EntryDoesNotJump
<1> DEFINE A == stylus.off /\ ~stylus.off' /\ cfg.series # "Graphire" => stylus'.motion = 0
<1>1. Inv /\ [Next]_vars => [A]_vars
  <2> SUFFICES ASSUME Inv, Next PROVE A
    OBVIOUS
  <2>1. CASE Report
    BY <2>1, ReportStep DEF Still
  <2>2. CASE ResetStylus
    BY <2>2, ResetStylusStep DEF Still
  <2>3. CASE LosePacket \/ Import \/ SetMouseMode
    BY <2>3 DEF LosePacket, Import, SetMouseMode
  <2> QED
    BY <2>1, <2>2, <2>3 DEF Next
<1> QED
  BY InitInv, NextInv, <1>1, PTL DEF Spec, EntryDoesNotJump

(***************************************************************************)
(* The report is the pen.                                                  *)
(***************************************************************************)
\* Tablets as they are sold and set up, on which a pen comes near with switch 2 up.
Ordinary == ~SideOnEntry /\ \A t \in Tablets : Usual(t)

\* What is remembered of an SD tablet's pressure when all of its packets are read.
Degree(force) == IF force = 0 THEN "none" ELSE IF force = 1 THEN "low"
                 ELSE IF force = 2 THEN "mid" ELSE "high"

\* What the fields of a packet are about a pen.
Tells(p, q) ==
  /\ p.prox = q.near /\ p.tool = q.tool /\ p.bits = Wire(q)
  /\ p.force = q.force /\ p.code = Code(q.force)
  /\ p.size = IF cfg.set = "WacomIV" /\ cfg.tilt THEN 9 ELSE 7
  /\ cfg.suppressed => p.engaged = q.near
  /\ cfg.series \in {"SD", "Other"} => p.kind = IF cfg.pressure THEN "pressure" ELSE "buttons"

\* What a decoder needs of the stylus to read such a packet: to tell the eraser from
\* switch 2 and the hardest pressure from the lightest, where they are alike.
Hint(s, q) ==
  /\ cfg.series = "Other" /\ ~cfg.pressure => EraserSeen(s, Wire(q)) = (q.tool = "eraser")
  /\ cfg.series = "SD" \/ cfg.pressure => ~s.eraser
  /\ cfg.series = "SD" /\ ~cfg.pressure =>
       SDForce(Code(q.force), s.raw) = q.force /\ SDRaw(Code(q.force), s.raw) = Degree(q.force)

\* What a decoder makes of it.
Told(t, q) ==
  /\ t.off = ~Noticed(q)
  /\ t.eraser = ExpectedEraser(q)
  /\ t.mask = ExpectedButtons(q)
  /\ cfg.series = "SD" => t.force = q.force /\ (~cfg.pressure => t.raw = Degree(q.force))

\* In mouse mode neither is the pen held to have left nor its leaving overlooked.
Kept(t, q, p) ==
  mouseMode => IF q.near THEN ~t.off ELSE ~(cfg.ascii /\ Outside(Row(p.v)))

\* A pen that touches the tablet does so with force.
LEMMA NearFacts ==
  ASSUME cfg \in Tablet, NEW q \in Near[cfg.series]
  PROVE  /\ q.near /\ q.tool \in ToolsOf(cfg.series) /\ q.bits \subseteq ButtonsOf[q.tool]
         /\ q.force \in Forces
         /\ q.force > 0 <=> Tip \in q.bits
<1>1. cfg.series \in Series
  BY DEF Tablet
<1>2. PICK t \in ToolsOf(cfg.series) : q \in Poses(t)
  BY <1>1 DEF Near
<1>3. q.force \in ForcesOf(cfg.series, q.bits)
  BY <1>1 DEF Near
<1>4. q.tool = t /\ q.near /\ q.bits \subseteq ButtonsOf[t] /\ q.force \in Forces
  BY <1>2 DEF Poses
<1>5. q.force > 0 <=> Tip \in q.bits
  BY <1>3, <1>4 DEF ForcesOf, Forces
<1> QED
  BY <1>2, <1>4, <1>5

\* The pens and erasers of all tablets but the Intuos.
LEMMA PlainFacts ==
  ASSUME cfg \in Tablet, cfg.series \in {"SD", "TabletPC", "Other"}, NEW q \in Near[cfg.series]
  PROVE  /\ q.tool \in {"pen", "eraser"} /\ q.bits \in SUBSET (0..2)
         /\ q.tool = "eraser" => q.bits \subseteq {Tip} /\ cfg.series # "SD"
         /\ Wire(q) = IF q.tool = "eraser" /\ cfg.set \in {"WacomIIS", "WacomIV", "TabletPC"}
                      THEN q.bits \union {Side2} ELSE q.bits
<1>1. q.tool \in ToolsOf(cfg.series) /\ q.bits \subseteq ButtonsOf[q.tool]
  BY NearFacts
<1>2. q.tool \in {"pen", "eraser"} /\ (q.tool = "eraser" => cfg.series # "SD")
  BY <1>1 DEF ToolsOf
<1>3. ButtonsOf["pen"] = {Tip, Side1, Side2} /\ ButtonsOf["eraser"] = {Tip}
  BY DEF ButtonsOf, Tools
<1>4. q.bits \in SUBSET (0..2) /\ (q.tool = "eraser" => q.bits \subseteq {Tip})
  BY <1>1, <1>2, <1>3 DEF Tip, Side1, Side2
<1>5. Wire(q) = IF q.tool = "eraser" /\ cfg.set \in {"WacomIIS", "WacomIV", "TabletPC"}
                THEN q.bits \union {Side2} ELSE q.bits
  BY <1>2 DEF Wire
<1> QED
  BY <1>2, <1>4, <1>5

\* A pen away is told by a packet of nothing, and nothing is expected of it.
LEMMA AwayFacts ==
  ASSUME cfg \in Tablet
  PROVE  /\ Away.near = FALSE /\ Away.force = 0 /\ Away.bits = {} /\ Away.tool = "pen"
         /\ Wire(Away) = {} /\ Code(Away.force) = "none"
         /\ ~Noticed(Away) /\ ~ExpectedEraser(Away) /\ ExpectedButtons(Away) = {}
         /\ Degree(Away.force) = "none"
<1>1. Away.near = FALSE /\ Away.force = 0 /\ Away.bits = {} /\ Away.tool = "pen"
  BY DEF Away
<1>2. Wire(Away) = {}
  BY <1>1 DEF Wire
<1>3. Code(Away.force) = "none" /\ Degree(Away.force) = "none"
  BY <1>1 DEF Code, Degree
<1>4. ~Noticed(Away) /\ ~ExpectedEraser(Away)
  BY <1>1 DEF Noticed, ExpectedEraser
<1>5. TipIf(Away.force > 0) = {} /\ {b + 3 : b \in Away.bits} = {}
  BY <1>1 DEF TipIf
<1>6. ExpectedButtons(Away) = {}
  BY <1>1, <1>5 DEF ExpectedButtons
<1> QED
  BY <1>1, <1>2, <1>3, <1>4, <1>6

\* Where a pen may go.
LEMMA MovesInto ==
  ASSUME Ordinary, NEW was, NEW is \in Moves(was), is.near
  PROVE  /\ is \in Near[cfg.series]
         /\ was.near => is.tool = was.tool /\ (cfg.series = "SD" => is.force - was.force \in {-1, 0, 1})
         /\ ~was.near => /\ Side2 \notin is.bits \/ is.tool # "pen"
                         /\ cfg.series = "Intuos" => is.bits = {}
                         /\ cfg.series = "SD" => is.force < 2
<1>1. is # Away
  BY DEF Away
<1> QED
  BY <1>1 DEF Moves, Ordinary

\* One pressure after another, a degree apart at most.
LEMMA DegreesFollow ==
  ASSUME NEW was \in Forces, NEW is \in Forces, is - was \in {-1, 0, 1}
  PROVE  /\ SDForce(Code(is), Degree(was)) = is
         /\ SDRaw(Code(is), Degree(was)) = Degree(is)
  BY DEF SDForce, SDRaw, Code, Degree, Forces

\* What the stylus holds of a pen, whether or not its last packet was read.
Carries(s, q) ==
  /\ s.off = ~Noticed(q)
  /\ cfg.set # "TabletPC" => s.eraser = ExpectedEraser(q)
  /\ cfg.series = "Intuos" => IF q.near THEN s.toolid = q.tool ELSE s.mask = {}
  /\ cfg.series = "FujitsuP" => s.mask = ExpectedButtons(q)
  /\ cfg.series = "SD" /\ ~cfg.pressure => s.raw = Degree(q.force)

\* The command sets that a readable tablet of these series may have.
LEMMA ReadableFacts ==
  ASSUME Ordinary, cfg \in Tablet, cfg \in Tablets, Readable
  PROVE  /\ cfg.suppressed /\ cfg.series # "Graphire"
         /\ cfg.series = "Intuos" => cfg.set = "WacomV"
         /\ cfg.series = "SD" => cfg.set = "WacomIIS"
         /\ cfg.series = "TabletPC" => cfg.set = "TabletPC" /\ ~cfg.ascii /\ ~cfg.pressure
         /\ cfg.series = "Other" => cfg.set \in {"WacomIIS", "WacomIV"}
         /\ cfg.series \in {"Intuos", "FujitsuP"} => ~cfg.pressure
         /\ cfg.set = "WacomIV" => ~cfg.pressure /\ ~(cfg.old /\ cfg.tilt)
  BY DEF Ordinary, Usual, Readable, Tablet, CommandSets

\* What the stylus holds of a pen is enough to read the packet of its next move.
LEMMA HintFacts ==
  ASSUME Ordinary, cfg \in Tablet, cfg \in Tablets, Readable, NEW s \in Stylus,
         NEW was \in {Away} \union Near[cfg.series], NEW is \in Moves(was), is.near,
         Carries(s, was)
  PROVE  Hint(s, is)
<1>1. /\ is \in Near[cfg.series]
      /\ was.near => is.tool = was.tool /\ (cfg.series = "SD" => is.force - was.force \in {-1, 0, 1})
      /\ ~was.near => /\ Side2 \notin is.bits \/ is.tool # "pen"
                      /\ cfg.series = "SD" => is.force < 2
  BY MovesInto
<1>2. ~was.near => was = Away
  BY PenFacts
<1>3. ASSUME cfg.series = "Other", ~cfg.pressure
      PROVE  EraserSeen(s, Wire(is)) = (is.tool = "eraser")
  <2>1. cfg.set \in {"WacomIIS", "WacomIV"}
    BY <1>3, ReadableFacts
  <2>2. /\ is.tool \in {"pen", "eraser"}
        /\ Wire(is) = IF is.tool = "eraser" THEN is.bits \union {Side2} ELSE is.bits
    BY <1>1, <1>3, <2>1, PlainFacts
  <2>3. s.off \in BOOLEAN /\ s.eraser \in BOOLEAN /\ was.near \in BOOLEAN
    BY PenFacts DEF Stylus
  <2>4. s.off = ~was.near /\ (s.eraser <=> was.near /\ was.tool = "eraser")
    BY <1>3, <2>1, <2>3 DEF Carries, Noticed, ExpectedEraser, TellsEnd
  <2>5. CASE was.near
    BY <1>1, <2>2, <2>3, <2>4, <2>5 DEF EraserSeen
  <2>6. CASE ~was.near
    <3>1. Side2 \in Wire(is) <=> is.tool = "eraser"
      BY <1>1, <2>2, <2>6
    <3> QED
      BY <2>3, <2>4, <2>6, <3>1 DEF EraserSeen
  <2> QED
    BY <2>5, <2>6
<1>4. ASSUME cfg.series = "SD" \/ cfg.pressure
      PROVE  ~s.eraser
  <2>1. cfg.series \in {"SD", "Other"} /\ cfg.set # "TabletPC"
    BY <1>4 DEF Ordinary, Usual
  <2> QED
    BY <1>4, <2>1 DEF Carries, ExpectedEraser, TellsEnd
<1>5. ASSUME cfg.series = "SD", ~cfg.pressure
      PROVE  /\ SDForce(Code(is.force), s.raw) = is.force
             /\ SDRaw(Code(is.force), s.raw) = Degree(is.force)
  <2>1. was.force \in Forces /\ is.force \in Forces
    BY <1>1, PenFacts, NearFacts
  <2>2. is.force - was.force \in {-1, 0, 1}
    <3>1. CASE was.near
      BY <1>1, <1>5, <3>1
    <3>2. CASE ~was.near
      BY <1>1, <1>2, <1>5, <2>1, <3>2 DEF Away, Forces
    <3> QED
      BY <3>1, <3>2
  <2>3. s.raw = Degree(was.force)
    BY <1>5 DEF Carries
  <2> QED
    BY <2>1, <2>2, <2>3, DegreesFollow
<1> QED
  BY <1>3, <1>4, <1>5 DEF Hint

\* The buttons of II-S and Wacom IV packets, where the end of the pen is known.
LEMMA EndButtons ==
  ASSUME NEW bits \in SUBSET {Tip}
  PROVE  {b + 3 : b \in bits} = IF Tip \in bits THEN {Eraser} ELSE {}
<1>1. bits = {} \/ bits = {Tip}
  OBVIOUS
<1>2. CASE bits = {}
  BY <1>2
<1>3. CASE bits = {Tip}
  BY <1>3 DEF Tip, Eraser
<1> QED
  BY <1>1, <1>2, <1>3

LEMMA IISButtonsTold ==
  ASSUME cfg \in Tablet, cfg.series = "Other", cfg.set = "WacomIIS", ~cfg.pressure, ~cfg.ascii,
         NEW s, NEW q \in Near[cfg.series], Hint(s, q)
  PROVE  IISButtons(s, Wire(q)) = ExpectedButtons(q)
<1>1. /\ q.tool \in {"pen", "eraser"} /\ q.bits \in SUBSET (0..2)
      /\ q.tool = "eraser" => q.bits \subseteq {Tip}
      /\ Wire(q) = IF q.tool = "eraser" THEN q.bits \union {Side2} ELSE q.bits
  BY PlainFacts
<1>2. EraserSeen(s, Wire(q)) = (q.tool = "eraser")
  BY DEF Hint
<1>3. CASE q.tool = "eraser"
  <2>1. Wire(q) = q.bits \union {Side2} /\ q.bits \in SUBSET {Tip}
    BY <1>1, <1>3
  <2>2. IISButtons(s, Wire(q)) = IF Tip \in q.bits THEN {Eraser} ELSE {}
    <3>1. /\ Side2 \in Wire(q) /\ Wire(q) \intersect {Side1} = {}
          /\ Tip \in Wire(q) <=> Tip \in q.bits
      BY <2>1 DEF Tip, Side1, Side2
    <3>2. IISButtons(s, Wire(q)) =
            IF Side2 \notin Wire(q) THEN Wire(q)
            ELSE (Wire(q) \intersect {Side1}) \union (IF Tip \in Wire(q) THEN {Eraser} ELSE {})
      BY <1>2, <1>3 DEF IISButtons
    <3> QED
      BY <3>1, <3>2
  <2>3. ExpectedButtons(q) = {b + 3 : b \in q.bits}
    BY <1>3 DEF ExpectedButtons
  <2> QED
    BY <2>1, <2>2, <2>3, EndButtons
<1>4. CASE q.tool # "eraser"
  <2>1. Wire(q) = q.bits
    BY <1>1, <1>4
  <2>2. IISButtons(s, q.bits) =
          IF Side2 \notin q.bits THEN q.bits ELSE (q.bits \intersect {Side1}) \union {Side2}
    BY <1>2, <1>4, <2>1 DEF IISButtons
  <2>3. ExpectedButtons(q) = IF Side2 \in q.bits THEN q.bits \ {Tip} ELSE q.bits
    BY <1>4 DEF ExpectedButtons
  <2>4. Side2 \in q.bits => (q.bits \intersect {Side1}) \union {Side2} = q.bits \ {Tip}
    BY <1>1 DEF Tip, Side1, Side2
  <2> QED
    BY <2>1, <2>2, <2>3, <2>4
<1> QED
  BY <1>3, <1>4

\* What Apply takes from a decoder's results.
LEMMA ApplyFields ==
  ASSUME NEW s \in Stylus, NEW r, NEW raw
  PROVE  LET t == [Apply(s, r) EXCEPT !.raw = raw]
         IN  /\ t.off = r.off /\ t.eraser = r.eraser /\ t.mask = r.mask /\ t.force = r.force
             /\ t.raw = raw
             /\ Apply(s, r).off = r.off /\ Apply(s, r).eraser = r.eraser
             /\ Apply(s, r).mask = r.mask /\ Apply(s, r).force = r.force
             /\ Apply(s, r).raw = s.raw
  BY DEF Apply, Stylus

\* The contents of a binary II-S packet of a pen that is near.
LEMMA IISContentsTold ==
  ASSUME cfg \in Tablet, Usual(cfg), cfg.series \in {"SD", "Other"}, cfg.set = "WacomIIS", ~cfg.ascii,
         NEW s \in Stylus, NEW q \in Near[cfg.series], Hint(s, q),
         NEW p, Tells(p, q), NEW y
  PROVE  /\ IISContents(s, p, y).off = ~Noticed(q)
         /\ IISContents(s, p, y).eraser = ExpectedEraser(q)
         /\ IISContents(s, p, y).mask = ExpectedButtons(q)
         /\ cfg.series = "SD" => IISContents(s, p, y).force = q.force
<1> DEFINE r == IISContents(s, p, y)
           force == IF p.kind = "pressure" THEN IF p.prox THEN p.force ELSE 0
                    ELSE SDForce(p.code, s.raw)
           off == IF cfg.series = "SD" THEN force = 0 ELSE ~p.prox
<1>1. q.near /\ q.force \in Forces /\ q.tool \in {"pen", "eraser"}
  BY NearFacts, PlainFacts
<1>2. /\ p.prox = q.near /\ p.bits = Wire(q) /\ p.force = q.force /\ p.code = Code(q.force)
      /\ p.kind = IF cfg.pressure THEN "pressure" ELSE "buttons"
  BY DEF Tells
<1>3. CASE cfg.series = "SD" \/ cfg.pressure
  <2>1. r = [mask |-> TipIf(force > 0), force |-> force, near |-> p.prox, y |-> y,
             off |-> off, eraser |-> s.eraser]
    BY <1>2, <1>3 DEF IISContents
  <2>2. force = q.force
    BY <1>1, <1>2, <1>3 DEF Hint
  <2>3. s.eraser = FALSE
    BY <1>3 DEF Hint, Stylus
  <2>4. ExpectedEraser(q) = FALSE /\ ExpectedButtons(q) = TipIf(q.force > 0)
    BY <1>3 DEF ExpectedEraser, TellsEnd, ExpectedButtons
  <2>5. off = ~Noticed(q)
    BY <1>1, <1>2, <2>2 DEF Noticed, Forces
  <2> HIDE DEF force, off, r
  <2>6. r.mask = TipIf(force > 0) /\ r.force = force /\ r.off = off /\ r.eraser = s.eraser
    BY <2>1
  <2> QED
    BY <2>2, <2>3, <2>4, <2>5, <2>6 DEF r
<1>4. CASE cfg.series = "Other" /\ ~cfg.pressure
  <2> DEFINE mask == IISButtons(s, p.bits)
             end == EraserSeen(s, p.bits)
             touch == IF mask # {} THEN 4 ELSE 0
  <2>1. r = [mask |-> mask, force |-> touch, near |-> p.prox, y |-> y, off |-> FALSE,
             eraser |-> end]
    BY <1>2, <1>4 DEF IISContents
  <2>2. mask = ExpectedButtons(q)
    BY <1>2, <1>4, IISButtonsTold
  <2>3. end = ExpectedEraser(q)
    BY <1>1, <1>2, <1>4 DEF Hint, ExpectedEraser, TellsEnd
  <2>4. Noticed(q) = TRUE
    BY <1>1, <1>4, PenFacts DEF Noticed
  <2> HIDE DEF mask, end, touch, r
  <2>5. r.mask = mask /\ r.off = FALSE /\ r.eraser = end
    BY <2>1
  <2> QED
    BY <1>4, <2>2, <2>3, <2>4, <2>5 DEF r
<1> QED
  BY <1>3, <1>4

LEMMA IISBinaryTold ==
  ASSUME cfg \in Tablet, Usual(cfg), Readable,
         cfg.series \in {"SD", "Other"}, cfg.set = "WacomIIS", ~cfg.ascii,
         NEW s \in Stylus, NEW q \in {Away} \union Near[cfg.series], q.near => Hint(s, q),
         NEW p \in Packets, Tells(p, q), Kept(ProcessWacomIIS_Binary(s, p), q, p)
  PROVE  Told(ProcessWacomIIS_Binary(s, p), q)
<1> DEFINE y == IF cfg.relative THEN Clamp(s.y + (IF cfg.lowerLeft THEN -p.v ELSE p.v))
                ELSE Row(p.v)
           read == IISContents(s, p, y)
           gone == IF p.engaged THEN read
                   ELSE [read EXCEPT !.near = FALSE, !.eraser = FALSE, !.force = 0, !.off = TRUE]
           out == [gone EXCEPT !.y = s.y, !.near = FALSE, !.force = 0, !.off = TRUE, !.mask = {}]
           raw == IF cfg.series = "SD" /\ p.kind = "buttons" THEN SDRaw(p.code, s.raw) ELSE s.raw
           r == IF Outside(y) THEN out ELSE gone
           t == ProcessWacomIIS_Binary(s, p)
<1>1. /\ p.prox = q.near /\ p.engaged = q.near /\ p.bits = Wire(q) /\ p.code = Code(q.force)
      /\ p.kind = IF cfg.pressure THEN "pressure" ELSE "buttons"
      /\ p.size = 7
  BY DEF Tells, Readable
<1>2. t = [Apply(s, r) EXCEPT !.raw = raw]
  BY <1>1 DEF ProcessWacomIIS_Binary
<1> HIDE DEF y, raw, r
<1>3. /\ t.off = r.off /\ t.eraser = r.eraser /\ t.mask = r.mask /\ t.force = r.force
      /\ t.raw = raw
  BY <1>2, ApplyFields
<1>4. \E b1, b2, b3, b4, b5, b6 : read = [mask |-> b1, force |-> b2, near |-> b3, y |-> b4,
                                          off |-> b5, eraser |-> b6]
  BY DEF IISContents
<1> HIDE DEF read
<1>5. CASE q.near
  <2>1. q \in Near[cfg.series]
    BY <1>5, AwayFacts
  <2>2. gone = read
    BY <1>1, <1>5
  <2>3. out.off = TRUE
    BY <1>4, <2>2
  <2>4. Outside(y) => mouseMode
    BY DEF Outside
  <2>5. r = read
    BY <1>3, <1>5, <2>2, <2>3, <2>4 DEF Kept, r
  <2>6. /\ read.off = ~Noticed(q) /\ read.eraser = ExpectedEraser(q)
        /\ read.mask = ExpectedButtons(q)
        /\ cfg.series = "SD" => read.force = q.force
    BY <1>5, <2>1, IISContentsTold DEF read
  <2>7. cfg.series = "SD" /\ ~cfg.pressure => raw = Degree(q.force)
    BY <1>1, <1>5 DEF Hint, raw
  <2> QED
    BY <1>3, <2>5, <2>6, <2>7 DEF Told
<1>6. CASE ~q.near
  <2>1. q = Away
    BY <1>6, PenFacts
  <2>2. p.bits = {} /\ p.code = "none" /\ p.prox = FALSE /\ p.engaged = FALSE
    BY <1>1, <1>6, <2>1, AwayFacts DEF Packets
  <2>3. IISButtons(s, {}) = {} /\ TipIf(0 > 0) = {} /\ SDForce("none", s.raw) = 0
    BY DEF IISButtons, TipIf, SDForce
  <2>4. read.mask = {}
    BY <2>2, <2>3 DEF read, IISContents
  <2>5. /\ gone.mask = {} /\ gone.off = TRUE /\ gone.eraser = FALSE /\ gone.force = 0
        /\ out.mask = {} /\ out.off = TRUE /\ out.eraser = FALSE /\ out.force = 0
    BY <1>4, <2>2, <2>4
  <2> HIDE DEF gone, out
  <2>6. r.mask = {} /\ r.off = TRUE /\ r.eraser = FALSE /\ r.force = 0
    BY <2>5 DEF r
  <2>7. cfg.series = "SD" /\ ~cfg.pressure => raw = "none"
    BY <1>1, <2>2 DEF raw, SDRaw
  <2> QED
    BY <1>3, <2>1, <2>6, <2>7, AwayFacts DEF Told
<1> QED
  BY <1>5, <1>6

LEMMA IISAsciiTold ==
  ASSUME cfg \in Tablet, Usual(cfg), Readable,
         cfg.series \in {"SD", "Other"}, cfg.set = "WacomIIS", cfg.ascii,
         NEW s \in Stylus, NEW q \in {Away} \union Near[cfg.series], q.near => Hint(s, q),
         NEW p \in Packets, Tells(p, q), Kept(ProcessWacomIIS_ASCII(s, p), q, p)
  PROVE  Told(ProcessWacomIIS_ASCII(s, p), q)
<1> DEFINE y == IF cfg.relative THEN s.y + (IF cfg.lowerLeft THEN -p.v ELSE p.v) ELSE Row(p.v)
           here == [y |-> y, near |-> p.prox, eraser |-> FALSE, off |-> ~p.prox, force |-> 0,
                    mask |-> {}]
           out == [here EXCEPT !.y = s.y, !.near = FALSE, !.eraser = s.eraser, !.off = TRUE]
           f == IF p.kind = "buttons" THEN SDForce(p.code, s.raw) ELSE p.force
           sd == [here EXCEPT !.near = p.prox /\ f > 0, !.off = ~p.prox \/ f = 0,
                              !.force = IF p.prox THEN f ELSE 0,
                              !.mask = TipIf(p.prox /\ f > 0)]
           press == [here EXCEPT !.force = IF p.prox THEN p.force ELSE 0,
                                 !.mask = TipIf(p.prox /\ p.force > 0)]
           bits == IF p.prox THEN p.bits ELSE {}
           end == EraserSeen(s, bits)
           mask == IF Side2 \notin bits \/ ~end THEN bits
                   ELSE IF Tip \in bits THEN {Eraser} ELSE {}
           click == [here EXCEPT !.eraser = Side2 \in bits /\ end, !.mask = mask,
                                 !.force = IF mask \intersect {Tip, Eraser} # {} THEN 4 ELSE 0]
           raw == IF cfg.series = "SD" /\ p.kind = "buttons" THEN SDRaw(p.code, s.raw) ELSE s.raw
           r == IF cfg.series = "SD" THEN sd ELSE IF p.kind = "pressure" THEN press ELSE click
           t == ProcessWacomIIS_ASCII(s, p)
<1>1. /\ p.prox = q.near /\ p.bits = Wire(q) /\ p.code = Code(q.force) /\ p.force = q.force
      /\ p.kind = IF cfg.pressure THEN "pressure" ELSE "buttons"
  BY DEF Tells
<1>2. t = IF Outside(y) THEN Apply(s, out) ELSE [Apply(s, r) EXCEPT !.raw = raw]
  BY DEF ProcessWacomIIS_ASCII
<1>3. Outside(y) => mouseMode /\ Outside(Row(p.v))
  BY DEF Outside
<1> HIDE DEF y, raw, r
<1>4. ~Outside(y)
  <2>1. out.off = TRUE
    OBVIOUS
  <2> HIDE DEF out
  <2>2. Outside(y) => t.off = TRUE
    BY <1>2, <2>1, ApplyFields
  <2> QED
    BY <1>3, <2>2 DEF Kept
<1>5. /\ t.off = r.off /\ t.eraser = r.eraser /\ t.mask = r.mask /\ t.force = r.force
      /\ t.raw = raw
  BY <1>2, <1>4, ApplyFields
<1>6. here.eraser = FALSE /\ here.off = ~q.near
  BY <1>1
<1>7. q.force \in Forces /\ q.near \in BOOLEAN /\ (~q.near => q = Away)
  BY PenFacts
<1>8. CASE cfg.series = "SD"
  <2> DEFINE off == ~p.prox \/ f = 0
             force == IF p.prox THEN f ELSE 0
             tip == TipIf(p.prox /\ f > 0)
  <2>1. r.off = off /\ r.eraser = FALSE /\ r.mask = tip /\ r.force = force
    BY <1>8 DEF r
  <2>2. q.near => f = q.force /\ (~cfg.pressure => raw = Degree(q.force))
    BY <1>1, <1>8 DEF Hint, raw
  <2>3. ~q.near => f = 0 /\ q.force = 0 /\ (~cfg.pressure => raw = Degree(q.force))
    BY <1>1, <1>7, <1>8, AwayFacts DEF raw, SDRaw, SDForce
  <2> HIDE DEF f
  <2>4. off = ~Noticed(q) /\ force = q.force
    BY <1>1, <1>7, <1>8, <2>2, <2>3 DEF Noticed, Forces
  <2>5. tip = TipIf(q.force > 0)
    <3>1. (p.prox /\ f > 0) = (q.force > 0)
      BY <1>1, <1>7, <2>2, <2>3 DEF Forces
    <3> QED
      BY <3>1
  <2>6. ExpectedEraser(q) = FALSE /\ ExpectedButtons(q) = TipIf(q.force > 0)
    BY <1>8 DEF ExpectedEraser, TellsEnd, ExpectedButtons
  <2> HIDE DEF off, force, tip, t
  <2>7. cfg.series = "SD" => t.force = q.force /\ (~cfg.pressure => t.raw = Degree(q.force))
    BY <1>5, <1>7, <2>1, <2>2, <2>3, <2>4
  <2> QED
    BY <1>5, <2>1, <2>4, <2>5, <2>6, <2>7 DEF Told, t
<1>9. CASE cfg.series = "Other" /\ cfg.pressure
  <2> DEFINE tip == TipIf(p.prox /\ p.force > 0)
  <2>1. r.off = here.off /\ r.eraser = here.eraser /\ r.mask = tip
    BY <1>1, <1>9 DEF r
  <2>2. tip = TipIf(q.force > 0)
    <3>1. (p.prox /\ p.force > 0) = (q.force > 0)
      BY <1>1, <1>7, AwayFacts DEF Forces
    <3> QED
      BY <3>1
  <2>3. ExpectedEraser(q) = FALSE /\ ExpectedButtons(q) = TipIf(q.force > 0)
    BY <1>9 DEF ExpectedEraser, TellsEnd, ExpectedButtons
  <2>4. Noticed(q) = q.near
    BY <1>9 DEF Noticed
  <2> HIDE DEF tip, here, t
  <2> QED
    BY <1>5, <1>6, <1>9, <2>1, <2>2, <2>3, <2>4 DEF Told, t
<1>10. CASE cfg.series = "Other" /\ ~cfg.pressure
  <2> DEFINE eraser == Side2 \in bits /\ end
  <2>1. r.off = here.off /\ r.eraser = eraser /\ r.mask = mask
    BY <1>1, <1>10 DEF r
  <2>2. Noticed(q) = q.near
    BY <1>10 DEF Noticed
  <2>3. eraser = ExpectedEraser(q) /\ mask = ExpectedButtons(q)
    <3>1. CASE ~q.near
      <4>1. q = Away /\ bits = {}
        BY <1>1, <1>7, <3>1
      <4> HIDE DEF bits
      <4>2. eraser = FALSE /\ mask = {}
        BY <4>1
      <4>3. ExpectedButtons(q) = {} /\ ExpectedEraser(q) = FALSE
        BY <3>1, <4>1, AwayFacts DEF ExpectedEraser
      <4> HIDE DEF eraser, mask
      <4> QED
        BY <4>2, <4>3
    <3>2. CASE q.near
      <4>1. q \in Near[cfg.series] /\ bits = Wire(q)
        BY <1>1, <3>2, AwayFacts
      <4>2. /\ q.tool \in {"pen", "eraser"} /\ q.bits \in SUBSET (0..2)
            /\ q.tool = "eraser" => q.bits \subseteq {Tip}
            /\ bits = IF q.tool = "eraser" THEN q.bits \union {Side2} ELSE q.bits
        BY <1>10, <4>1, PlainFacts
      <4>3. end = (q.tool = "eraser")
        BY <1>10, <3>2, <4>1 DEF Hint
      <4>4. ExpectedEraser(q) = (q.tool = "eraser")
        BY <1>10, <3>2 DEF ExpectedEraser, TellsEnd
      <4>5. ExpectedButtons(q) = IF q.tool = "eraser" THEN {b + 3 : b \in q.bits} ELSE q.bits
        BY <1>10 DEF ExpectedButtons
      <4> HIDE DEF bits, end
      <4>6. CASE q.tool = "eraser"
        <5>1. Side2 \in bits /\ (Tip \in bits <=> Tip \in q.bits)
          BY <4>2, <4>6 DEF Tip, Side2
        <5>2. mask = IF Tip \in q.bits THEN {Eraser} ELSE {}
          BY <4>3, <4>6, <5>1
        <5>3. ExpectedButtons(q) = IF Tip \in q.bits THEN {Eraser} ELSE {}
          BY <4>2, <4>5, <4>6, EndButtons
        <5> QED
          BY <4>3, <4>4, <4>6, <5>1, <5>2, <5>3
      <4>7. CASE q.tool # "eraser"
        BY <4>2, <4>3, <4>4, <4>5, <4>7
      <4> QED
        BY <4>6, <4>7
    <3> QED
      BY <3>1, <3>2
  <2> HIDE DEF eraser, mask, here, t
  <2> QED
    BY <1>5, <1>6, <1>10, <2>1, <2>2, <2>3 DEF Told, t
<1> QED
  BY <1>8, <1>9, <1>10

\* The common part of Wacom IV, on a tablet that says when a pen leaves.
LEMMA IVBaseTold ==
  ASSUME Readable, NEW s \in Stylus, NEW p \in Packets
  PROVE  LET t == ProcessWacomIV_Base(s, p)
         IN  /\ ~p.engaged => t.off = TRUE /\ t.eraser = FALSE
             /\ p.engaged => t.eraser = s.eraser /\ ((t.off = TRUE /\ mouseMode) \/ t.off = FALSE)
<1> DEFINE left == ~p.engaged /\ cfg.suppressed
           y == IF p.engaged THEN Row(p.v) ELSE s.y
           outbound == mouseMode /\ y \notin Active
           off == left \/ outbound
           near == ~off
           eraser == s.eraser /\ ~left
           force == IF p.engaged /\ ~outbound THEN p.force ELSE 0
           motion == IF outbound THEN 0 ELSE Settled(s, y, off)
           t == ProcessWacomIV_Base(s, p)
<1>1. t = [s EXCEPT !.near = near, !.eraser = eraser, !.force = force, !.y = y,
                    !.motion = motion, !.off = off]
  BY DEF ProcessWacomIV_Base
<1>2. s.eraser \in BOOLEAN /\ p.engaged \in BOOLEAN
  BY DEF Stylus, Packets
<1>3. /\ ~p.engaged => off = TRUE /\ eraser = FALSE
      /\ p.engaged => eraser = s.eraser /\ ((off = TRUE /\ mouseMode) \/ off = FALSE)
  BY <1>2 DEF Readable
<1> HIDE DEF off, near, eraser, force, y, motion, t
<1>4. t.off = off /\ t.eraser = eraser
  BY <1>1 DEF Stylus
<1> QED
  BY <1>3, <1>4 DEF t

LEMMA IVButtonsTold ==
  ASSUME cfg \in Tablet, cfg.series = "Other", cfg.set = "WacomIV", ~cfg.pressure,
         NEW q \in Near[cfg.series]
  PROVE  IVButtons(Wire(q), q.tool = "eraser") = ExpectedButtons(q)
<1>1. /\ q.tool \in {"pen", "eraser"} /\ q.bits \in SUBSET (0..2)
      /\ q.tool = "eraser" => q.bits \subseteq {Tip}
      /\ Wire(q) = IF q.tool = "eraser" THEN q.bits \union {Side2} ELSE q.bits
  BY PlainFacts
<1>2. CASE q.tool = "eraser"
  <2>1. Wire(q) = q.bits \union {Side2} /\ q.bits \in SUBSET {Tip}
    BY <1>1, <1>2
  <2>2. IVButtons(Wire(q), TRUE) = IF Tip \in q.bits THEN {Eraser} ELSE {}
    <3>1. /\ Side2 \in Wire(q) /\ Wire(q) \intersect {Side1} = {}
          /\ Tip \in Wire(q) <=> Tip \in q.bits
      BY <2>1 DEF Tip, Side1, Side2
    <3>2. IVButtons(Wire(q), TRUE) =
            (Wire(q) \intersect {Side1}) \union (IF Tip \in Wire(q) THEN {Eraser} ELSE {})
      BY <3>1 DEF IVButtons
    <3> QED
      BY <3>1, <3>2
  <2>3. ExpectedButtons(q) = {b + 3 : b \in q.bits}
    BY <1>2 DEF ExpectedButtons
  <2>4. IVButtons(Wire(q), q.tool = "eraser") = IVButtons(Wire(q), TRUE)
    BY <1>2 DEF IVButtons
  <2> QED
    BY <2>1, <2>2, <2>3, <2>4, EndButtons
<1>3. CASE q.tool # "eraser"
  <2>1. IVButtons(Wire(q), q.tool = "eraser") = q.bits
    BY <1>1, <1>3 DEF IVButtons
  <2>2. ExpectedButtons(q) = q.bits
    BY <1>3 DEF ExpectedButtons
  <2> QED
    BY <2>1, <2>2
<1> QED
  BY <1>2, <1>3

LEMMA IV13Told ==
  ASSUME cfg \in Tablet, Usual(cfg), Readable, cfg.series = "Other", cfg.set = "WacomIV",
         NEW s \in Stylus, NEW q \in {Away} \union Near[cfg.series], q.near => Hint(s, q),
         NEW p \in Packets, Tells(p, q), Kept(ProcessWacomIV_13(s, p, 7), q, p)
  PROVE  Told(ProcessWacomIV_13(s, p, 7), q)
<1> DEFINE end == EraserSeen(s, p.bits)
           read == [s EXCEPT !.eraser = end]
           base == ProcessWacomIV_Base(read, p)
           mask == IF base.off THEN {} ELSE IVButtons(p.bits, end)
           t == ProcessWacomIV_13(s, p, 7)
<1>1. p.prox = q.near /\ p.engaged = q.near /\ p.bits = Wire(q)
  BY DEF Tells, Readable
<1>2. ~cfg.pressure
  BY DEF Usual
<1>3. t = [base EXCEPT !.mask = mask]
  BY DEF ProcessWacomIV_13, SetButtons
<1>4. end \in BOOLEAN
  BY DEF EraserSeen, Stylus
<1> HIDE DEF end
<1>5. read \in Stylus /\ read.eraser = end
  BY <1>4 DEF Stylus
<1> HIDE DEF read
<1>6. /\ base \in Stylus
      /\ ~p.engaged => base.off = TRUE /\ base.eraser = FALSE
      /\ p.engaged => base.eraser = end /\ ((base.off = TRUE /\ mouseMode) \/ base.off = FALSE)
  BY <1>5, IVBaseFacts, IVBaseTold
<1> HIDE DEF base, mask, t
<1>7. t.off = base.off /\ t.eraser = base.eraser /\ t.mask = mask
  BY <1>3, <1>6 DEF Stylus
<1>8. CASE q.near
  <2>1. q \in Near[cfg.series]
    BY <1>8, AwayFacts
  <2>2. end = (q.tool = "eraser")
    BY <1>1, <1>2, <1>8 DEF Hint, end
  <2>3. base.off = FALSE
    BY <1>1, <1>6, <1>7, <1>8 DEF Kept, t
  <2>4. mask = IVButtons(Wire(q), q.tool = "eraser")
    BY <1>1, <2>2, <2>3 DEF mask
  <2>5. mask = ExpectedButtons(q)
    BY <1>2, <2>1, <2>4, IVButtonsTold
  <2>6. ExpectedEraser(q) = (q.tool = "eraser")
    BY <1>2, <1>8 DEF ExpectedEraser, TellsEnd
  <2>7. Noticed(q) = TRUE
    BY <1>8, <2>1, PenFacts DEF Noticed
  <2>8. t.eraser = ExpectedEraser(q)
    BY <1>1, <1>6, <1>7, <1>8, <2>2, <2>6
  <2> QED
    BY <1>7, <2>3, <2>5, <2>7, <2>8 DEF Told, t
<1>9. CASE ~q.near
  <2>1. q = Away
    BY <1>9, PenFacts
  <2>2. base.off = TRUE /\ base.eraser = FALSE
    BY <1>1, <1>6, <1>9
  <2>3. mask = {}
    BY <2>2 DEF mask
  <2>4. ExpectedButtons(q) = {} /\ ExpectedEraser(q) = FALSE /\ Noticed(q) = FALSE
    BY <1>9, <2>1, AwayFacts DEF ExpectedEraser, Noticed
  <2> QED
    BY <1>7, <2>2, <2>3, <2>4 DEF Told, t
<1> QED
  BY <1>8, <1>9

LEMMA TabletPCTold ==
  ASSUME cfg \in Tablet, Usual(cfg), cfg.series = "TabletPC",
         NEW s \in Stylus, NEW q \in {Away} \union Near[cfg.series], NEW p, Tells(p, q)
  PROVE  Told(ProcessTabletPC(s, p), q)
<1> DEFINE end == p.prox /\ Side2 \in p.bits
           off == ~p.prox
           force == IF p.prox THEN p.force ELSE 0
           mask == IF ~p.prox THEN {}
                   ELSE TipIf(p.force > 0 /\ Tip \in p.bits) \union
                        (IF end THEN {} ELSE p.bits \intersect {Side1, Side2})
           r == [near |-> p.prox, off |-> off, eraser |-> end, y |-> p.v, force |-> force,
                 mask |-> mask]
           t == ProcessTabletPC(s, p)
<1>1. p.prox = q.near /\ p.bits = Wire(q) /\ p.force = q.force
  BY DEF Tells
<1>2. cfg.set = "TabletPC" /\ ~cfg.pressure
  BY DEF Usual
<1>3. t = Apply(s, r)
  BY DEF ProcessTabletPC
<1>4. Noticed(q) = q.near
  BY DEF Noticed
<1>5. end = ExpectedEraser(q) /\ mask = ExpectedButtons(q)
  <2>1. CASE ~q.near
    <3>1. q = Away
      BY <2>1, PenFacts
    <3>2. end = FALSE /\ mask = {}
      BY <1>1, <2>1
    <3>3. ExpectedButtons(q) = {} /\ ExpectedEraser(q) = FALSE
      BY <2>1, <3>1, AwayFacts DEF ExpectedEraser
    <3> HIDE DEF end, mask
    <3> QED
      BY <3>2, <3>3
  <2>2. CASE q.near
    <3>1. q \in Near[cfg.series]
      BY <2>2, AwayFacts
    <3>2. /\ q.tool \in {"pen", "eraser"} /\ q.bits \in SUBSET (0..2)
          /\ q.tool = "eraser" => q.bits \subseteq {Tip}
          /\ p.bits = IF q.tool = "eraser" THEN q.bits \union {Side2} ELSE q.bits
      BY <1>1, <1>2, <3>1, PlainFacts
    <3>3. q.force > 0 <=> Tip \in q.bits
      BY <3>1, NearFacts
    <3>4. /\ Side2 \in p.bits <=> q.tool = "eraser" \/ Side2 \in q.bits
          /\ Tip \in p.bits <=> Tip \in q.bits
      BY <3>2 DEF Tip, Side2
    <3>5. end = ExpectedEraser(q)
      BY <1>1, <1>2, <2>2, <3>4 DEF ExpectedEraser, TellsEnd
    <3>6. mask = TipIf(Tip \in q.bits) \union (IF end THEN {} ELSE p.bits \intersect {Side1, Side2})
      <4>1. (p.force > 0 /\ Tip \in p.bits) = (Tip \in q.bits)
        BY <1>1, <3>3, <3>4
      <4> HIDE DEF end
      <4> QED
        BY <1>1, <2>2, <4>1
    <3>7. ExpectedButtons(q) = IF Side2 \in q.bits THEN q.bits \intersect {Tip} ELSE q.bits
      BY <1>2 DEF ExpectedButtons
    <3>8. end <=> q.tool = "eraser" \/ Side2 \in q.bits
      BY <1>1, <2>2, <3>4
    <3> HIDE DEF end, mask
    <3>9. CASE Side2 \in q.bits
      BY <3>5, <3>6, <3>7, <3>8, <3>9 DEF TipIf
    <3>10. CASE Side2 \notin q.bits /\ q.tool = "eraser"
      BY <3>2, <3>5, <3>6, <3>7, <3>8, <3>10 DEF TipIf
    <3>11. CASE Side2 \notin q.bits /\ q.tool # "eraser"
      BY <3>2, <3>5, <3>6, <3>7, <3>8, <3>11 DEF TipIf, Tip, Side1, Side2
    <3> QED
      BY <3>9, <3>10, <3>11
  <2> QED
    BY <2>1, <2>2
<1> HIDE DEF end, off, force, mask
<1>6. r.off = off /\ r.eraser = end /\ r.mask = mask
  OBVIOUS
<1> HIDE DEF r, t
<1>7. t.off = r.off /\ t.eraser = r.eraser /\ t.mask = r.mask
  BY <1>3, ApplyFields
<1> QED
  BY <1>1, <1>4, <1>5, <1>6, <1>7 DEF Told, t, off

\* A Fujitsu says of a pen that touches and does not move only that it moves.
LEMMA FujitsuTold ==
  ASSUME cfg \in Tablet, Usual(cfg), cfg.series = "FujitsuP",
         NEW s \in Stylus, NEW q \in {Away} \union Near[cfg.series], NEW p,
         p.kind \in {"up", "down", "move"}, p.kind = "up" <=> Tip \notin q.bits,
         p.kind = "move" => s.mask = {Tip},
         ~s.eraser
  PROVE  Told(ProcessFujitsuPSeries(s, p), q)
<1> DEFINE off == p.kind = "up"
           force == CASE p.kind = "down" -> 4 [] p.kind = "up" -> 0 [] OTHER -> s.force
           mask == CASE p.kind = "down" -> {Tip} [] p.kind = "up" -> {} [] OTHER -> s.mask
           r == [near |-> TRUE, off |-> off, eraser |-> s.eraser, y |-> p.v, force |-> force,
                 mask |-> mask]
           t == ProcessFujitsuPSeries(s, p)
<1>1. t = Apply(s, r)
  BY DEF ProcessFujitsuPSeries
<1>2. q.force > 0 <=> Tip \in q.bits
  <2>1. CASE q \in Near[cfg.series]
    BY <2>1, NearFacts
  <2>2. CASE q = Away
    BY <2>2, AwayFacts
  <2> QED
    BY <2>1, <2>2
<1>3. off = ~Noticed(q)
  BY <1>2 DEF Noticed
<1>4. mask = ExpectedButtons(q)
  <2>1. ExpectedButtons(q) = TipIf(q.force > 0)
    BY DEF ExpectedButtons
  <2>2. mask = IF off THEN {} ELSE {Tip}
    OBVIOUS
  <2> HIDE DEF mask
  <2> QED
    BY <1>2, <2>1, <2>2 DEF TipIf
<1>5. ExpectedEraser(q) = FALSE /\ s.eraser = FALSE
  BY DEF ExpectedEraser, TellsEnd, Stylus
<1> HIDE DEF off, force, mask
<1>6. r.off = off /\ r.eraser = s.eraser /\ r.mask = mask
  OBVIOUS
<1> HIDE DEF r, t
<1>7. t.off = r.off /\ t.eraser = r.eraser /\ t.mask = r.mask
  BY <1>1, ApplyFields
<1> QED
  BY <1>3, <1>4, <1>5, <1>6, <1>7 DEF Told, t

\* What the decoder of a Fujitsu needs, and its packets are.
Strokes(s, q, p) ==
  /\ p.kind \in {"up", "down", "move"} /\ (p.kind = "up" <=> Tip \notin q.bits)
  /\ p.kind = "move" => s.mask = {Tip}
  /\ ~s.eraser

\* Every decoder of the tablets that are no Intuos reads the pen from its packet.
LEMMA DecodeTold ==
  ASSUME Ordinary, cfg \in Tablet, cfg \in Tablets, Readable, cfg.series # "Intuos",
         NEW s \in Stylus, NEW q \in {Away} \union Near[cfg.series], q.near => Hint(s, q),
         NEW p \in Packets, Tells(p, q), Kept(Decode(s, p), q, p),
         cfg.series = "FujitsuP" => Strokes(s, q, p)
  PROVE  Told(Decode(s, p), q)
<1>1. /\ Usual(cfg)
      /\ cfg.series \in {"FujitsuP", "SD", "TabletPC", "Other"}
      /\ cfg.series = "SD" => cfg.set = "WacomIIS"
      /\ cfg.series = "TabletPC" => cfg.set = "TabletPC" /\ ~cfg.ascii
      /\ cfg.series = "Other" => cfg.set \in {"WacomIIS", "WacomIV"}
      /\ cfg.set = "WacomIV" => ~(cfg.old /\ cfg.tilt)
  BY ReadableFacts DEF Ordinary, Tablet, Series
<1>2. CASE cfg.series = "FujitsuP"
  <2>1. Decode(s, p) = ProcessFujitsuPSeries(s, p)
    BY <1>2 DEF Decode
  <2> QED
    BY <1>1, <1>2, <2>1, FujitsuTold DEF Strokes
<1>3. CASE cfg.series = "TabletPC"
  <2>1. Decode(s, p) = ProcessTabletPC(s, p)
    BY <1>1, <1>3 DEF Decode
  <2> QED
    BY <1>1, <1>3, <2>1, TabletPCTold
<1>4. CASE cfg.series \in {"SD", "Other"} /\ cfg.set = "WacomIIS"
  <2>1. Decode(s, p) = IF cfg.ascii THEN ProcessWacomIIS_ASCII(s, p)
                       ELSE ProcessWacomIIS_Binary(s, p)
    BY <1>4 DEF Decode
  <2>2. CASE cfg.ascii
    <3>1. Decode(s, p) = ProcessWacomIIS_ASCII(s, p)
      BY <2>1, <2>2
    <3> QED
      BY <1>1, <1>4, <2>2, <3>1, IISAsciiTold
  <2>3. CASE ~cfg.ascii
    <3>1. Decode(s, p) = ProcessWacomIIS_Binary(s, p)
      BY <2>1, <2>3
    <3> QED
      BY <1>1, <1>4, <2>3, <3>1, IISBinaryTold
  <2> QED
    BY <2>2, <2>3
<1>5. CASE cfg.series = "Other" /\ cfg.set = "WacomIV"
  <2>1. Decode(s, p) = IF cfg.old THEN ProcessWacomIV_13(s, p, p.size)
                       ELSE ProcessWacomIV_14(s, p)
    BY <1>5 DEF Decode
  <2>2. p.size = IF cfg.tilt THEN 9 ELSE 7
    BY <1>5 DEF Tells
  <2>3. CASE cfg.old
    <3>1. p.size = 7
      BY <1>1, <1>5, <2>2, <2>3
    <3> QED
      BY <1>1, <1>5, <2>1, <2>3, <3>1, IV13Told
  <2>4. CASE ~cfg.old
    <3>1. ProcessWacomIV_14(s, p) = ProcessWacomIV_13(s, p, 7)
      BY <2>2 DEF ProcessWacomIV_14
    <3> QED
      BY <1>1, <1>5, <2>1, <2>4, <3>1, IV13Told
  <2> QED
    BY <2>3, <2>4
<1> QED
  BY <1>1, <1>2, <1>3, <1>4, <1>5

\* The buttons of each mouse are cut out of its packet as its tool requires.
LEMMA MouseButtonsTold ==
  ASSUME cfg \in Tablet, cfg.series = "Intuos", NEW q \in Near[cfg.series],
         q.tool \in {"mouse", "mouse4D", "lens"}
  PROVE  MouseButtons(q.tool, Wire(q)) = q.bits
<1>1. q.bits \subseteq ButtonsOf[q.tool]
  BY NearFacts
<1>2. CASE q.tool = "mouse"
  <2>1. q.bits \subseteq 0..2
    BY <1>1, <1>2 DEF ButtonsOf, Tools
  <2>2. Wire(q) = {b + 2 : b \in q.bits}
    BY <1>2 DEF Wire
  <2>3. MouseButtons(q.tool, Wire(q)) = {b - 2 : b \in Wire(q) \intersect 2..4}
    BY <1>2 DEF MouseButtons
  <2>4. \A b \in q.bits : b + 2 \in 2..4 /\ (b + 2) - 2 = b
    BY <2>1
  <2>5. q.bits \subseteq {b - 2 : b \in Wire(q) \intersect 2..4}
    BY <2>2, <2>4
  <2>6. {b - 2 : b \in Wire(q) \intersect 2..4} \subseteq q.bits
    BY <2>2, <2>4
  <2> QED
    BY <2>3, <2>5, <2>6
<1>3. CASE q.tool = "mouse4D"
  <2>1. q.bits \subseteq {0, 3, 4}
    BY <1>1, <1>3 DEF ButtonsOf, Tools
  <2>2. Wire(q) = {IF b < 3 THEN b ELSE b + 1 : b \in q.bits}
    BY <1>3 DEF Wire
  <2>3. MouseButtons(q.tool, Wire(q)) =
          (Wire(q) \intersect 0..2) \union {b - 1 : b \in Wire(q) \intersect 4..6}
    BY <1>3 DEF MouseButtons
  <2>4. /\ 0 \in Wire(q) <=> 0 \in q.bits
        /\ 4 \in Wire(q) <=> 3 \in q.bits
        /\ 5 \in Wire(q) <=> 4 \in q.bits
        /\ Wire(q) \subseteq {0, 4, 5}
    BY <2>1, <2>2
  <2>5. \A n : n \in MouseButtons(q.tool, Wire(q)) => n \in q.bits
    BY <2>3, <2>4
  <2>6. 5 - 1 = 4 /\ 4 - 1 = 3 /\ 4 \in 4..6 /\ 5 \in 4..6 /\ 0 \in 0..2
    OBVIOUS
  <2>7. \A n : n \in q.bits => n \in MouseButtons(q.tool, Wire(q))
    BY <2>1, <2>3, <2>4, <2>6
  <2> QED
    BY <2>5, <2>7
<1>4. CASE q.tool = "lens"
  <2>1. q.bits \subseteq 0..4
    BY <1>1, <1>4 DEF ButtonsOf, Tools
  <2>2. Wire(q) = q.bits
    BY <1>4 DEF Wire
  <2> QED
    BY <1>4, <2>1, <2>2 DEF MouseButtons
<1> QED
  BY <1>2, <1>3, <1>4

\* What an Intuos' packet of a pen does: the stylus has the announced tool and its
\* end, and the buttons of all packets that tell of buttons.
Follows(s, t, q, p) ==
  /\ t.off = ~q.near
  /\ t.eraser = (q.near /\ q.tool = "eraser")
  /\ IF q.near THEN t.toolid = q.tool ELSE t.mask = {}
  /\ q.tool # "airbrush" => t.mask = IF p.kind = "turn" THEN s.mask ELSE q.bits

\* By which packets an Intuos tells of which tools.
LEMMA IntuosKindsFacts ==
  ASSUME cfg \in Tablet, cfg.series = "Intuos", NEW was,
         NEW is \in {Away} \union Near[cfg.series], NEW kind \in Kinds(was, is)
  PROVE  /\ kind \in {"id", "out", "pen", "wheel", "mouse", "turn"}
         /\ kind = "out" <=> ~is.near
         /\ kind = "id" <=> is.near /\ ~was.near
         /\ kind = "pen" => is.tool \in {"pen", "eraser", "airbrush"}
         /\ kind = "wheel" => is.tool = "airbrush"
         /\ kind \in {"mouse", "turn"} => is.tool \in {"mouse", "mouse4D", "lens"}
         /\ kind = "turn" => is = was
<1>1. is.tool \in Tools
  BY PenFacts
<1>2. Kinds(was, is) = IntuosKinds(was, is)
  BY DEF Kinds
<1>3. CASE ~is.near
  BY <1>2, <1>3 DEF IntuosKinds
<1>4. CASE is.near /\ ~was.near
  BY <1>2, <1>4 DEF IntuosKinds
<1>5. CASE is.near /\ was.near
  <2>1. IntuosKinds(was, is) =
          CASE is.tool \in {"pen", "eraser"} -> {"pen"}
            [] is.tool = "airbrush" -> {"pen", "wheel"}
            [] is.tool = "mouse4D" /\ is = was -> {"mouse", "turn"}
            [] OTHER -> {"mouse"}
    BY <1>5 DEF IntuosKinds
  <2>2. CASE is.tool \in {"pen", "eraser"}
    BY <1>2, <1>5, <2>1, <2>2
  <2>3. CASE is.tool = "airbrush"
    BY <1>2, <1>5, <2>1, <2>3
  <2>4. CASE is.tool \in {"mouse", "mouse4D", "lens"}
    <3>1. CASE is.tool = "mouse4D" /\ is = was
      BY <1>2, <1>5, <2>1, <3>1
    <3>2. CASE ~(is.tool = "mouse4D" /\ is = was)
      BY <1>2, <1>5, <2>1, <2>4, <3>2
    <3> QED
      BY <3>1, <3>2
  <2> QED
    BY <1>1, <2>2, <2>3, <2>4 DEF Tools
<1> QED
  BY <1>3, <1>4, <1>5

\* A stylus that has an Intuos' tool follows it through the next packet.
LEMMA IntuosFollows ==
  ASSUME cfg \in Tablet, Usual(cfg), cfg.series = "Intuos", NEW s \in Stylus, NEW was,
         NEW is \in {Away} \union Near[cfg.series], NEW p \in Packets, Tells(p, is),
         p.kind \in Kinds(was, is),
         is.near => Carries(s, was),
         is.near /\ was.near => is.tool = was.tool,
         is.near /\ ~was.near => is.bits = {}
  PROVE  Follows(s, ProcessWacomV(s, p), is, p)
<1> DEFINE t == ProcessWacomV(s, p)
           moved == [s EXCEPT !.y = p.v, !.motion = p.v - s.y]
<1>1. /\ p.kind \in {"id", "out", "pen", "wheel", "mouse", "turn"}
      /\ p.kind = "out" <=> ~is.near
      /\ p.kind = "id" <=> is.near /\ ~was.near
      /\ p.kind = "pen" => is.tool \in {"pen", "eraser", "airbrush"}
      /\ p.kind = "wheel" => is.tool = "airbrush"
      /\ p.kind \in {"mouse", "turn"} => is.tool \in {"mouse", "mouse4D", "lens"}
  BY IntuosKindsFacts
<1>2. p.tool = is.tool /\ p.bits = Wire(is) /\ p.force = is.force
  BY DEF Tells
<1>3. is.near => /\ s.off = ~was.near
                 /\ s.eraser = (was.near /\ was.tool = "eraser")
                 /\ IF was.near THEN s.toolid = was.tool ELSE s.mask = {}
  BY DEF Carries, Noticed, ExpectedEraser, TellsEnd, Usual
<1>4. /\ moved.off = s.off /\ moved.eraser = s.eraser /\ moved.toolid = s.toolid
      /\ moved.mask = s.mask
      /\ moved = [moved EXCEPT !.force = moved.force]
      /\ \A f, m : LET u == [moved EXCEPT !.force = f, !.mask = m]
                   IN  u.off = s.off /\ u.eraser = s.eraser /\ u.toolid = s.toolid /\ u.mask = m
      /\ \A m : LET u == [moved EXCEPT !.mask = m]
                IN  u.off = s.off /\ u.eraser = s.eraser /\ u.toolid = s.toolid /\ u.mask = m
  BY DEF Stylus
<1> HIDE DEF moved
<1>5. CASE p.kind = "out"
  <2> DEFINE still == 0
  <2>1. t = [s EXCEPT !.off = TRUE, !.near = FALSE, !.eraser = FALSE, !.force = 0,
                      !.motion = still, !.mask = {}]
    BY <1>5 DEF ProcessWacomV, ProcessWacomVOut
  <2> HIDE DEF t, still
  <2>2. t.off = TRUE /\ t.eraser = FALSE /\ t.mask = {}
    BY <2>1 DEF Stylus
  <2>3. is.near = FALSE /\ is.bits = {}
    BY <1>1, <1>5, PenFacts, AwayFacts
  <2> QED
    BY <1>5, <2>2, <2>3 DEF Follows, t
<1>6. CASE p.kind = "id"
  <2> DEFINE still == 0
             eraser == is.tool = "eraser"
  <2>1. t = [s EXCEPT !.toolid = is.tool, !.off = FALSE, !.near = TRUE, !.eraser = eraser,
                      !.motion = still]
    BY <1>2, <1>6 DEF ProcessWacomV
  <2> HIDE DEF t, still, eraser
  <2>2. t.off = FALSE /\ t.eraser = eraser /\ t.toolid = is.tool /\ t.mask = s.mask
    BY <2>1 DEF Stylus
  <2>3. is.near /\ is.bits = {} /\ s.mask = {}
    BY <1>1, <1>3, <1>6
  <2> QED
    BY <1>6, <2>2, <2>3 DEF Follows, t, eraser
<1>7. ASSUME is.near, was.near, NEW m, t.off = s.off, t.eraser = s.eraser, t.toolid = s.toolid,
             t.mask = m,
             is.tool # "airbrush" => m = IF p.kind = "turn" THEN s.mask ELSE is.bits
      PROVE  Follows(s, t, is, p)
  <2> HIDE DEF t
  <2>1. t.off = FALSE /\ t.eraser = (is.tool = "eraser") /\ t.toolid = is.tool
    BY <1>3, <1>7
  <2> QED
    BY <1>7, <2>1 DEF Follows
<1>8. p.kind \notin {"id", "out"} => is.near /\ was.near /\ is \in Near[cfg.series]
  BY <1>1, AwayFacts
<1>9. CASE p.kind = "pen"
  <2> DEFINE m == TipIf(is.force > 0) \union (Wire(is) \ {Tip})
  <2>1. t = [moved EXCEPT !.force = p.force, !.mask = m]
    BY <1>2, <1>9 DEF ProcessWacomV, moved
  <2>2. Wire(is) = is.bits
    BY <1>1, <1>9 DEF Wire, Usual
  <2>3. is.force > 0 <=> Tip \in is.bits
    BY <1>8, <1>9, NearFacts
  <2>4. m = is.bits
    BY <2>2, <2>3 DEF TipIf
  <2> HIDE DEF t, m
  <2>5. t.off = s.off /\ t.eraser = s.eraser /\ t.toolid = s.toolid /\ t.mask = m
    BY <1>4, <2>1
  <2> QED
    BY <1>7, <1>8, <1>9, <2>4, <2>5 DEF t
<1>10. CASE p.kind = "wheel"
  <2>1. t = [moved EXCEPT !.force = 0, !.mask = {}]
    BY <1>10 DEF ProcessWacomV, moved
  <2> HIDE DEF t
  <2>2. t.off = s.off /\ t.eraser = s.eraser /\ t.toolid = s.toolid /\ t.mask = {}
    BY <1>4, <2>1
  <2> QED
    BY <1>1, <1>7, <1>8, <1>10, <2>2 DEF t
<1>11. CASE p.kind = "mouse"
  <2> DEFINE m == MouseButtons(s.toolid, Wire(is))
  <2>1. t = [moved EXCEPT !.mask = m]
    BY <1>2, <1>11 DEF ProcessWacomV, moved
  <2>2. s.toolid = is.tool
    BY <1>3, <1>8, <1>11
  <2>3. m = is.bits
    BY <1>1, <1>8, <1>11, <2>2, MouseButtonsTold
  <2> HIDE DEF t, m
  <2>4. t.off = s.off /\ t.eraser = s.eraser /\ t.toolid = s.toolid /\ t.mask = m
    BY <1>4, <2>1
  <2> QED
    BY <1>7, <1>8, <1>11, <2>3, <2>4 DEF t
<1>12. CASE p.kind = "turn"
  <2>1. t = moved
    BY <1>12 DEF ProcessWacomV, moved
  <2> HIDE DEF t
  <2> QED
    BY <1>4, <1>7, <1>8, <1>12, <2>1 DEF t
<1> QED
  BY <1>1, <1>5, <1>6, <1>9, <1>10, <1>11, <1>12

\* What a user is told is the pen.
Reported(s, q) ==
  /\ s.off = ~Noticed(q)
  /\ s.eraser = ExpectedEraser(q)
  /\ q.tool # "airbrush" => s.mask = ExpectedButtons(q)
  /\ cfg.series = "SD" => s.force = q.force

\* While synced the stylus carries what the next packet needs, and with the last
\* packet read it is the pen.  A Fujitsu has no eraser, synced or not.
Followed ==
  /\ synced => /\ pen.near => Readable
               /\ ~pen.near \/ cfg.series \in {"SD", "FujitsuP"} => current
               /\ Carries(stylus, pen)
               /\ current => Reported(stylus, pen)
  /\ cfg.series = "FujitsuP" => ~stylus.eraser

LEMMA CarriesNext ==
  ASSUME cfg' = cfg, Carries(stylus', pen')
  PROVE  Carries(stylus, pen)'
  BY DEF Carries, Noticed, ExpectedEraser, TellsEnd, ExpectedButtons

LEMMA ReportedNext ==
  ASSUME cfg' = cfg, Reported(stylus', pen')
  PROVE  Reported(stylus, pen)'
  BY DEF Reported, Noticed, ExpectedEraser, TellsEnd, ExpectedButtons

\* What was told of the pen is reported and carried.
LEMMA ToldIsReported ==
  ASSUME cfg.series # "Intuos", NEW t, NEW q, Told(t, q)
  PROVE  Reported(t, q) /\ Carries(t, q)
  BY DEF Told, Reported, Carries

\* ProcessPacket changes no more than the pressure of a stylus without buttons.
LEMMA ProcessPacketKeeps ==
  ASSUME NEW p, Decode(stylus, p) \in Stylus, ProcessPacket(p)
  PROVE  LET t == Decode(stylus, p)
         IN  /\ stylus'.off = t.off /\ stylus'.eraser = t.eraser /\ stylus'.mask = t.mask
             /\ stylus'.raw = t.raw /\ stylus'.toolid = t.toolid
             /\ stylus'.force = IF t.mask \intersect {Tip, Eraser} = {} THEN 0 ELSE t.force
<1> DEFINE t == Decode(stylus, p)
<1>1. stylus' = IF t.mask \intersect {Tip, Eraser} = {} THEN [t EXCEPT !.force = 0] ELSE t
  BY DEF ProcessPacket
<1> HIDE DEF t
<1>2. t \in Stylus
  BY DEF t
<1>3. CASE t.mask \intersect {Tip, Eraser} = {}
  <2>1. stylus' = [t EXCEPT !.force = 0]
    BY <1>1, <1>3
  <2> QED
    BY <1>2, <1>3, <2>1 DEF Stylus, t
<1>4. CASE ~(t.mask \intersect {Tip, Eraser} = {})
  <2>1. stylus' = t
    BY <1>1, <1>4
  <2> QED
    BY <1>4, <2>1 DEF t
<1> QED
  BY <1>3, <1>4

LEMMA ToldKept ==
  ASSUME cfg \in Tablet, cfg.series # "Intuos", NEW q \in {Away} \union Near[cfg.series],
         NEW p, Decode(stylus, p) \in Stylus, ProcessPacket(p), Told(Decode(stylus, p), q)
  PROVE  Told(stylus', q)
<1> DEFINE t == Decode(stylus, p)
<1>1. /\ stylus'.off = t.off /\ stylus'.eraser = t.eraser /\ stylus'.mask = t.mask
      /\ stylus'.raw = t.raw
      /\ stylus'.force = IF t.mask \intersect {Tip, Eraser} = {} THEN 0 ELSE t.force
  BY ProcessPacketKeeps
<1> HIDE DEF t
<1>2. Told(t, q)
  BY DEF t
<1>3. ASSUME cfg.series = "SD"
      PROVE  stylus'.force = q.force
  <2>1. t.mask = TipIf(q.force > 0) /\ t.force = q.force
    BY <1>2, <1>3 DEF Told, ExpectedButtons
  <2>2. q.force \in Forces
    BY PenFacts
  <2> QED
    BY <1>1, <2>1, <2>2 DEF TipIf, Forces
<1> QED
  BY <1>1, <1>2, <1>3 DEF Told

\* The step of the tablets that are no Intuos.
LEMMA PlainReport ==
  ASSUME Ordinary, cfg \in Tablet, cfg \in Tablets, cfg.series # "Intuos", Readable,
         stylus \in Stylus, pen \in {Away} \union Near[cfg.series],
         NEW is \in Moves(pen), NEW v \in Int, NEW alias \in Int, NEW kind \in Kinds(pen, is),
         ProcessPacket(Packet(pen, is, kind, v, alias)),
         is.near => Carries(stylus, pen),
         ~TakenAway(is, v),
         cfg.series = "FujitsuP" => ~stylus.eraser
  PROVE  Reported(stylus', is) /\ Carries(stylus', is) /\ kind # "turn"
<1> DEFINE p == Packet(pen, is, kind, v, alias)
           t == Decode(stylus, p)
<1>1. is \in {Away} \union Near[cfg.series]
  BY MovesFacts
<1>2. p \in Packets /\ Truthful(p)
  BY <1>1, PacketFacts
<1>3. /\ p.prox = is.near /\ p.tool = is.tool /\ p.bits = Wire(is)
      /\ p.force = is.force /\ p.code = Code(is.force) /\ p.kind = kind /\ p.v = v
      /\ p.size = IF cfg.set = "WacomIV" /\ cfg.tilt THEN 9 ELSE 7
      /\ p.engaged = (is.near \/ (cfg.set = "WacomIIS" /\ ~cfg.suppressed))
  BY DEF Packet
<1>4. ProcessPacket(p)
  OBVIOUS
<1> HIDE DEF p
<1>5. t \in Stylus
  BY <1>2, DecodeFacts
<1>6. cfg.series # "FujitsuP" => kind = IF cfg.pressure THEN "pressure" ELSE "buttons"
  BY DEF Kinds
<1>7. cfg.series = "FujitsuP" =>
        /\ kind \in {"up", "down", "move"} /\ (kind = "up" <=> Tip \notin is.bits)
        /\ kind = "move" => is = pen
  BY DEF Kinds
<1>8. Tells(p, is)
  <2>1. is.near \in BOOLEAN
    BY <1>1, PenFacts
  <2>2. cfg.suppressed => p.engaged = is.near
    BY <1>3, <2>1
  <2> QED
    BY <1>3, <1>6, <2>2 DEF Tells
<1>9. is.near => Hint(stylus, is)
  BY HintFacts
<1>10. stylus'.off = t.off
  BY <1>4, <1>5, ProcessPacketKeeps
<1>11. Kept(t, is, p)
  BY <1>3, <1>10 DEF Kept, TakenAway
<1>12. cfg.series = "FujitsuP" => Strokes(stylus, is, p)
  <2> SUFFICES ASSUME cfg.series = "FujitsuP" PROVE Strokes(stylus, is, p)
    OBVIOUS
  <2>1. ASSUME kind = "move" PROVE stylus.mask = {Tip}
    <3>1. is = pen /\ Tip \in is.bits
      BY <1>7, <2>1
    <3>2. is \in Near[cfg.series]
      BY <1>1, <3>1, AwayFacts
    <3>3. is.near /\ is.force > 0
      BY <3>1, <3>2, NearFacts
    <3>4. stylus.mask = ExpectedButtons(is)
      BY <3>1, <3>3 DEF Carries
    <3> QED
      BY <3>3, <3>4 DEF ExpectedButtons, TipIf
  <2> QED
    BY <1>3, <1>7, <2>1 DEF Strokes
<1>13. Told(t, is)
  BY <1>1, <1>2, <1>8, <1>9, <1>11, <1>12, DecodeTold
<1>14. Told(stylus', is)
  BY <1>1, <1>4, <1>5, <1>13, ToldKept
<1>15. kind # "turn"
  BY <1>6, <1>7
<1> QED
  BY <1>14, <1>15, ToldIsReported

\* The step of an Intuos.
LEMMA AnnouncedReport ==
  ASSUME Ordinary, cfg \in Tablet, cfg \in Tablets, cfg.series = "Intuos", Readable,
         stylus \in Stylus, pen \in {Away} \union Near[cfg.series],
         NEW is \in Moves(pen), NEW v \in Int, NEW alias \in Int, NEW kind \in Kinds(pen, is),
         ProcessPacket(Packet(pen, is, kind, v, alias)),
         is.near => Carries(stylus, pen) /\ (current => Reported(stylus, pen))
  PROVE  Carries(stylus', is) /\ (kind # "turn" \/ current => Reported(stylus', is))
<1> DEFINE p == Packet(pen, is, kind, v, alias)
           t == ProcessWacomV(stylus, p)
<1>1. is \in {Away} \union Near[cfg.series]
  BY MovesFacts
<1>2. p \in Packets
  BY <1>1, PacketFacts
<1>3. /\ p.prox = is.near /\ p.tool = is.tool /\ p.bits = Wire(is)
      /\ p.force = is.force /\ p.code = Code(is.force) /\ p.kind = kind
      /\ p.size = IF cfg.set = "WacomIV" /\ cfg.tilt THEN 9 ELSE 7
      /\ p.engaged = (is.near \/ (cfg.set = "WacomIIS" /\ ~cfg.suppressed))
  BY DEF Packet
<1>4. ProcessPacket(p)
  OBVIOUS
<1> HIDE DEF p
<1>5. /\ kind \in {"id", "out", "pen", "wheel", "mouse", "turn"}
      /\ kind = "out" <=> ~is.near
      /\ kind = "pen" => is.tool \in {"pen", "eraser", "airbrush"}
      /\ kind = "turn" => is = pen
  BY <1>1, IntuosKindsFacts
<1>6. kind = "pen" => Wire(is) \subseteq 0..2
  BY <1>1, <1>5, WireFacts
<1>7. Decode(stylus, p) = t
  BY DEF Decode
<1>8. t \in Stylus
  BY <1>2, <1>3, <1>5, <1>6, WacomVFacts
<1>9. Tells(p, is)
  <2>1. is.near \in BOOLEAN
    BY <1>1, PenFacts
  <2>2. cfg.suppressed => p.engaged = is.near
    BY <1>3, <2>1
  <2> QED
    BY <1>3, <2>2 DEF Tells
<1>10. /\ is.near /\ pen.near => is.tool = pen.tool
       /\ is.near /\ ~pen.near => is.bits = {}
  BY MovesInto
<1>11. Usual(cfg)
  BY DEF Ordinary
<1>12. Follows(stylus, t, is, p)
  BY <1>1, <1>2, <1>3, <1>9, <1>10, <1>11, IntuosFollows
<1> HIDE DEF t
<1>13. /\ stylus'.off = t.off /\ stylus'.eraser = t.eraser /\ stylus'.mask = t.mask
       /\ stylus'.toolid = t.toolid
  BY <1>4, <1>7, <1>8, ProcessPacketKeeps
<1>14. cfg.set = "WacomV" /\ ~cfg.pressure
  BY ReadableFacts
<1>15. /\ Noticed(is) = is.near
       /\ ExpectedEraser(is) = (is.near /\ is.tool = "eraser")
       /\ ExpectedButtons(is) = is.bits
  BY <1>14 DEF Noticed, ExpectedEraser, TellsEnd, ExpectedButtons
<1>16. Carries(stylus', is)
  BY <1>12, <1>13, <1>15 DEF Follows, Carries
<1>17. ASSUME kind # "turn" \/ current
       PROVE  Reported(stylus', is)
  <2>1. ASSUME is.tool # "airbrush" PROVE stylus'.mask = is.bits
    <3>1. CASE kind # "turn"
      BY <1>3, <1>12, <1>13, <2>1, <3>1 DEF Follows
    <3>2. CASE kind = "turn"
      <4>1. is = pen /\ is.near
        BY <1>1, <1>5, <3>2
      <4>2. stylus.mask = is.bits
        BY <1>15, <1>17, <2>1, <3>2, <4>1 DEF Reported
      <4> QED
        BY <1>3, <1>12, <1>13, <2>1, <3>2, <4>2 DEF Follows
    <3> QED
      BY <3>1, <3>2
  <2> QED
    BY <1>12, <1>13, <1>15, <2>1 DEF Follows, Reported
<1> QED
  BY <1>16, <1>17

\* A Fujitsu's packets never name an eraser.
LEMMA NoFujitsuEraser ==
  ASSUME cfg.series = "FujitsuP", stylus \in Stylus, ~stylus.eraser, NEW p \in Packets,
         ProcessPacket(p)
  PROVE  ~stylus'.eraser
<1>1. Decode(stylus, p) = ProcessFujitsuPSeries(stylus, p)
  BY DEF Decode
<1>2. ProcessFujitsuPSeries(stylus, p) \in Stylus
  BY FujitsuDecodes DEF Decodes
<1>3. ProcessFujitsuPSeries(stylus, p).eraser = stylus.eraser
  <2> DEFINE r == [near |-> TRUE, off |-> p.kind = "up", eraser |-> stylus.eraser, y |-> p.v,
                   force |-> CASE p.kind = "down" -> 4 [] p.kind = "up" -> 0 [] OTHER -> stylus.force,
                   mask |-> CASE p.kind = "down" -> {Tip} [] p.kind = "up" -> {}
                              [] OTHER -> stylus.mask]
  <2>1. ProcessFujitsuPSeries(stylus, p) = Apply(stylus, r)
    BY DEF ProcessFujitsuPSeries
  <2>2. r.eraser = stylus.eraser
    OBVIOUS
  <2> HIDE DEF r
  <2> QED
    BY <2>1, <2>2, ApplyFields
<1>4. stylus'.eraser = Decode(stylus, p).eraser
  BY <1>1, <1>2, ProcessPacketKeeps
<1> QED
  BY <1>1, <1>3, <1>4

LEMMA InitFollowed == Ordinary /\ Init => Followed
<1> SUFFICES ASSUME Ordinary, Init PROVE Followed
  OBVIOUS
<1>1. cfg \in Tablet /\ cfg \in Tablets
  BY TabletFacts DEF Init
<1>2. /\ stylus.off = TRUE /\ stylus.eraser = FALSE /\ stylus.mask = {} /\ stylus.force = 0
      /\ stylus.raw = "none"
  BY DEF Init, NewStylus
<1>3. synced => ~pen.near /\ current
  BY DEF Init
<1>4. ~pen.near => pen = Away
  BY <1>1, PenFacts DEF Init
<1>5. Carries(stylus, Away) /\ Reported(stylus, Away)
  BY <1>1, <1>2, AwayFacts DEF Carries, Reported, ExpectedEraser
<1> QED
  BY <1>2, <1>3, <1>4, <1>5 DEF Followed

LEMMA ReportFollowed ==
  ASSUME Ordinary, Inv, Followed, Report
  PROVE  Followed'
<1>0. PICK is \in Moves(pen), v \in Rows, alias \in Active : \E kind \in Kinds(pen, is) :
        /\ ProcessPacket(Packet(pen, is, kind, v, alias))
        /\ pen' = is
        /\ synced' = (Readable /\ (synced \/ Forgets(is)) /\ ~TakenAway(is, v))
        /\ current' = (kind # "turn" \/ current)
        /\ UNCHANGED <<cfg, mouseMode>>
  BY DEF Report
<1>1. PICK kind \in Kinds(pen, is) :
        /\ ProcessPacket(Packet(pen, is, kind, v, alias))
        /\ pen' = is
        /\ synced' = (Readable /\ (synced \/ Forgets(is)) /\ ~TakenAway(is, v))
        /\ current' = (kind # "turn" \/ current)
        /\ UNCHANGED <<cfg, mouseMode>>
  BY <1>0
<1>2. /\ cfg \in Tablet /\ cfg \in Tablets /\ stylus \in Stylus
      /\ pen \in {Away} \union Near[cfg.series]
  BY TabletFacts DEF Inv, TypeOK
<1>3. v \in Int /\ alias \in Int
  BY DecodersAssumption DEF Rows
<1>4. is \in {Away} \union Near[cfg.series]
  BY MovesFacts
<1>5. cfg.series = "FujitsuP" => ~stylus'.eraser
  <2>1. Packet(pen, is, kind, v, alias) \in Packets
    BY <1>2, <1>3, <1>4, PacketFacts
  <2> QED
    BY <1>1, <1>2, <2>1, NoFujitsuEraser DEF Followed
<1>6. ASSUME synced'
      PROVE  /\ Readable
             /\ ~is.near \/ cfg.series \in {"SD", "FujitsuP"} => current'
             /\ Carries(stylus', is)
             /\ current' => Reported(stylus', is)
  <2>1. Readable /\ ~TakenAway(is, v) /\ (is.near => synced)
    BY <1>1, <1>6 DEF Forgets
  <2>2. is.near => Carries(stylus, pen) /\ (current => Reported(stylus, pen))
    BY <2>1 DEF Followed
  <2>3. CASE cfg.series = "Intuos"
    <3>1. Carries(stylus', is) /\ (kind # "turn" \/ current => Reported(stylus', is))
      BY <1>1, <1>2, <1>3, <2>1, <2>2, <2>3, AnnouncedReport
    <3>2. ~is.near => kind # "turn"
      BY <1>2, <1>4, <2>3, IntuosKindsFacts
    <3> QED
      BY <1>1, <2>1, <2>3, <3>1, <3>2
  <2>4. CASE cfg.series # "Intuos"
    <3>1. Reported(stylus', is) /\ Carries(stylus', is) /\ kind # "turn"
      BY <1>1, <1>2, <1>3, <2>1, <2>2, <2>4, PlainReport DEF Followed
    <3> QED
      BY <1>1, <2>1, <3>1
  <2> QED
    BY <2>3, <2>4
<1>7. cfg' = cfg /\ pen' = is
  BY <1>1
<1>8. ASSUME synced'
      PROVE  Carries(stylus, pen)' /\ (current' => Reported(stylus, pen)')
  BY <1>6, <1>7, <1>8, CarriesNext, ReportedNext
<1>9. Readable => Readable'
  BY <1>7 DEF Readable
<1> QED
  BY <1>5, <1>6, <1>7, <1>8, <1>9 DEF Followed

\* Without a move nothing is carried of a pen but of one that is away.
LEMMA StillFollowed ==
  ASSUME Ordinary, Inv, Followed, ResetStylus \/ Import
  PROVE  Followed'
<1>1. /\ cfg \in Tablet /\ cfg \in Tablets /\ stylus \in Stylus
      /\ pen \in {Away} \union Near[cfg.series]
  BY TabletFacts DEF Inv, TypeOK
<1>2. /\ cfg' \in Tablets /\ cfg'.series = cfg.series /\ pen' = pen /\ current' = current
      /\ synced' => synced /\ ~pen.near
      /\ synced' /\ cfg.series = "SD" => cfg' = cfg /\ stylus'.raw = stylus.raw
      /\ stylus' = Lifted(stylus) \/ stylus' = stylus
  BY <1>1 DEF ResetStylus, Import, Lifted, Stylus
<1>3. cfg' \in Tablet
  BY <1>2, DecodersAssumption
<1>4. cfg.series = "FujitsuP" => ~stylus'.eraser
  BY <1>1, <1>2 DEF Followed, Lifted, Stylus
<1>5. ASSUME synced'
      PROVE  pen = Away /\ current' /\ Carries(stylus, pen)' /\ Reported(stylus, pen)'
  <2>1. pen = Away /\ current /\ Carries(stylus, Away) /\ Reported(stylus, Away)
    BY <1>1, <1>2, <1>5, PenFacts DEF Followed
  <2>2. /\ stylus.off = TRUE /\ stylus.eraser = FALSE /\ stylus.mask = {}
        /\ cfg.series = "SD" => stylus.force = 0
        /\ cfg.series = "SD" /\ ~cfg.pressure => stylus.raw = "none"
    BY <1>1, <2>1, AwayFacts DEF Carries, Reported, Noticed, ExpectedEraser
  <2>3. /\ stylus'.off = TRUE /\ stylus'.eraser = FALSE /\ stylus'.mask = {}
        /\ cfg.series = "SD" => stylus'.force = 0
        /\ cfg.series = "SD" /\ ~cfg.pressure => stylus'.raw = "none"
    BY <1>1, <1>2, <1>5, <2>2 DEF Lifted, Stylus
  <2>4. /\ ~Noticed(Away)' /\ ~ExpectedEraser(Away)' /\ ExpectedButtons(Away)' = {}
        /\ Degree(Away.force) = "none" /\ Away.force = 0 /\ Away.near = FALSE
    <3>1. Away.near = FALSE /\ Away.force = 0 /\ Away.bits = {} /\ Away.tool = "pen"
      BY DEF Away
    <3>2. ~Noticed(Away)' /\ ~ExpectedEraser(Away)'
      BY <3>1 DEF Noticed, ExpectedEraser
    <3>3. TipIf(Away.force > 0) = {} /\ {b + 3 : b \in Away.bits} = {}
      BY <3>1 DEF TipIf
    <3>4. ExpectedButtons(Away)' = {}
      BY <3>1, <3>3 DEF ExpectedButtons
    <3> QED
      BY <3>1, <3>2, <3>4 DEF Degree
  <2>5. pen' = Away
    BY <1>2, <2>1
  <2>6. ExpectedEraser(Away)' = FALSE /\ Noticed(Away)' = FALSE
    BY <2>4 DEF ExpectedEraser, Noticed
  <2>7. Carries(stylus, pen)'
    BY <1>2, <1>5, <2>3, <2>4, <2>5, <2>6 DEF Carries
  <2>8. Reported(stylus, pen)'
    BY <1>2, <2>3, <2>4, <2>5, <2>6 DEF Reported
  <2> QED
    BY <1>2, <2>1, <2>7, <2>8
<1>6. pen = Away => ~pen'.near
  BY <1>2 DEF Away
<1> QED
  BY <1>2, <1>4, <1>5, <1>6 DEF Followed

\* A packet lost between two that are near leaves the tool and its end.
LEMMA LoseFollowed ==
  ASSUME Ordinary, Inv, Followed, LosePacket
  PROVE  Followed'
<1>1. /\ pen' \in Moves(pen) /\ ~current'
      /\ synced' => synced /\ pen.near /\ pen'.near /\ cfg.series \notin {"SD", "FujitsuP"}
      /\ cfg' = cfg /\ stylus' = stylus
  BY DEF LosePacket
<1>2. ASSUME synced'
      PROVE  Readable' /\ Carries(stylus, pen)'
  <2>1. pen'.tool = pen.tool
    BY <1>1, <1>2, MovesInto
  <2>2. Carries(stylus, pen) /\ Readable
    BY <1>1, <1>2 DEF Followed
  <2>3. Noticed(pen') = TRUE /\ Noticed(pen) = TRUE
    <3>1. pen' \in {Away} \union Near[cfg.series] /\ pen \in {Away} \union Near[cfg.series]
      BY <1>1, MovesFacts DEF Inv, TypeOK
    <3>2. cfg \in Tablet
      BY TabletFacts DEF Inv, TypeOK
    <3> QED
      BY <1>1, <1>2, <3>1, <3>2, PenFacts DEF Noticed
  <2>4. cfg.set # "TabletPC" => ExpectedEraser(pen') = ExpectedEraser(pen)
    BY <1>1, <1>2, <2>1 DEF ExpectedEraser
  <2>5. Carries(stylus', pen')
    BY <1>1, <1>2, <2>1, <2>2, <2>3, <2>4 DEF Carries
  <2>6. Readable'
    BY <1>1, <2>2 DEF Readable
  <2> QED
    BY <1>1, <2>5, <2>6, CarriesNext
<1> QED
  BY <1>1, <1>2 DEF Followed

LEMMA NextFollowed == Ordinary /\ Inv /\ Followed /\ [Next]_vars => Followed'
<1> SUFFICES ASSUME Ordinary, Inv, Followed, [Next]_vars PROVE Followed'
  OBVIOUS
<1>1. CASE Report
  BY <1>1, ReportFollowed
<1>2. CASE LosePacket
  BY <1>2, LoseFollowed
<1>3. CASE ResetStylus \/ Import
  BY <1>3, StillFollowed
<1>4. CASE SetMouseMode \/ UNCHANGED vars
  <2>1. UNCHANGED <<cfg, stylus, pen, synced, current>>
    BY <1>4 DEF SetMouseMode, vars
  <2>2. /\ Carries(stylus, pen) => Carries(stylus, pen)'
        /\ Reported(stylus, pen) => Reported(stylus, pen)'
    BY <2>1, CarriesNext, ReportedNext
  <2>3. Readable => Readable'
    BY <2>1 DEF Readable
  <2> QED
    BY <2>1, <2>2, <2>3 DEF Followed
<1> QED
  BY <1>1, <1>2, <1>3, <1>4 DEF Next

\* On every tablet as it is sold, set up so that its packets can be read, and for a
\* pen that comes near with switch 2 up, the decoders' report is the pen whenever
\* the last packet was read and a leaving was read since something went wrong.
THEOREM FaithfulHolds ==
  ASSUME Ordinary
  PROVE  Spec => []Faithful
<1>1. Followed => Faithful
  BY DEF Followed, Reported, Faithful
<1>2. Init => Followed
  BY InitFollowed
<1>3. Inv /\ Followed /\ [Next]_vars => Followed'
  BY NextFollowed
<1> QED
  BY InitInv, NextInv, <1>1, <1>2, <1>3, PTL DEF Spec
=============================================================================
