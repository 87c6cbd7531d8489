--------------------------- MODULE PresetsProofs ---------------------------
(***************************************************************************)
(* Proofs about Geometry and Presets, for any tablets, machines, scales,   *)
(* names and bounds.  Every handler that works on the active preset ends   *)
(* by storing it.  Unless a scale of 0 is entered, or left by a digitizer, *)
(* no order of scans, messages and changes of scale loses the area of the  *)
(* tablet: it is stretched from one positive scale to another or set to    *)
(* the whole; and a scale of 0 is made good by the next area that is sent  *)
(* under another.                                                          *)
(***************************************************************************)
EXTENDS Presets, WellFoundedInduction, TLAPS

(***************************************************************************)
(* Numbers.                                                                *)
(***************************************************************************)
\* The least of some numbers is one of them.
LEMMA MinFacts ==
  ASSUME NEW S \in SUBSET Nat, S # {}
  PROVE  Min(S) \in S
<1> DEFINE R == OpToRel(<, Nat)
<1>1. PICK x \in S : \A y \in S : <<y, x>> \notin R
  BY NatLessThanWellFounded, WFMin
<1>2. \A y \in S : ~(y < x)
  BY <1>1 DEF OpToRel
<1>3. \A y \in S : x =< y
  BY <1>2
<1> QED
  BY <1>3 DEF Min

\* Products and quotients of sizes are sizes.
LEMMA SizeFacts ==
  ASSUME NEW a \in Nat, NEW b \in Nat, NEW c \in Nat \ {0}
  PROVE  (a * b) \div c \in Nat
<1>1. a * b \in Nat
  OBVIOUS
<1> QED
  BY <1>1

\* A positive size that is stretched without remainder stays positive.
LEMMA ExactFacts ==
  ASSUME NEW a \in Nat \ {0}, NEW b \in Nat \ {0}, NEW c \in Nat \ {0}, (a * b) % c = 0
  PROVE  (a * b) \div c \in Nat \ {0}
<1> DEFINE z == a * b
           q == z \div c
<1>1. z \in Nat \ {0}
  OBVIOUS
<1> HIDE DEF z
<1>2. q \in Nat
  BY <1>1
<1>3. q = 0 => z % c = z
  BY <1>1
<1>4. z % c = 0
  BY DEF z
<1> HIDE DEF q
<1>5. q # 0
  BY <1>1, <1>3, <1>4
<1> QED
  BY <1>2, <1>5 DEF q, z

(***************************************************************************)
(* The daemon's geometry.                                                  *)
(***************************************************************************)
\* A geometry with positive scale and area, and what is left of it after a 0.
Whole(g) == g \in Geo /\ g.scale # 0 /\ g.area \in Nat \ {0}
Sound(g, z) == g \in Geo /\ (z \/ Whole(g))

LEMMA BoundsFacts ==
  ASSUME NEW g \in Geo, NEW size \in Nat
  PROVE  /\ InitTabletBounds(g, size) \in Geo
         /\ g.scale # 0 => Whole(InitTabletBounds(g, size))
<1>1. InitTabletBounds(g, size) = [g EXCEPT !.area = IF size = 0 THEN g.scale ELSE size]
  BY DEF InitTabletBounds, Unset
<1> DEFINE area == IF size = 0 THEN g.scale ELSE size
           h == [g EXCEPT !.area = area]
<1>2. area \in Nat /\ (g.scale # 0 => area # 0)
  BY DEF Geo
<1>3. area \in Sizes
  BY <1>2 DEF Sizes
<1> HIDE DEF area
<1>4. h \in Geo /\ h.area = area /\ h.scale = g.scale
  BY <1>3 DEF Geo
<1> QED
  BY <1>1, <1>2, <1>4 DEF Whole, area

\* Stretching gives a size, whatever it starts from.
LEMMA StretchFacts ==
  ASSUME NEW x \in Sizes, NEW old \in Nat, NEW new \in Nat
  PROVE  Stretch(x, old, new) \in Sizes
<1>1. CASE x = NaN \/ x = Infinity \/ old = 0
  BY <1>1 DEF Stretch, Sizes, NaN, Infinity
<1>2. CASE x # NaN /\ x # Infinity /\ old # 0
  <2>1. x \in Nat /\ old \in Nat \ {0}
    BY <1>2 DEF Sizes
  <2>2. (x * new) \div old \in Nat
    BY <2>1, SizeFacts
  <2>3. Stretch(x, old, new) = (x * new) \div old
    BY <1>2 DEF Stretch
  <2> QED
    BY <2>2, <2>3 DEF Sizes
<1> QED
  BY <1>1, <1>2

\* A whole geometry that is stretched to another scale without remainder is whole.
LEMMA UpdateTabletScaleFacts ==
  ASSUME NEW g \in Geo, NEW h \in Nat
  PROVE  /\ UpdateTabletScale(g, h) \in Geo
         /\ Whole(g) /\ h # 0 /\ Exact(g.area, g.scale, h) => Whole(UpdateTabletScale(g, h))
<1>1. CASE g.scale = h
  BY <1>1 DEF UpdateTabletScale
<1>2. CASE g.scale # h
  <2> DEFINE area == Stretch(g.area, g.scale, h)
             u == [g EXCEPT !.scale = h, !.area = area]
  <2>1. g.area \in Sizes /\ g.scale \in Nat
    BY DEF Geo
  <2>2. area \in Sizes
    BY <2>1, StretchFacts
  <2>3. ASSUME Whole(g), h # 0, Exact(g.area, g.scale, h) PROVE area \in Nat \ {0}
    <3>1. g.area \in Nat \ {0} /\ g.scale \in Nat \ {0} /\ h \in Nat \ {0}
      BY <2>1, <2>3 DEF Whole
    <3>2. (g.area * h) % g.scale = 0
      BY <2>3, <3>1 DEF Exact
    <3>3. area = (g.area * h) \div g.scale
      BY <3>1 DEF Stretch, NaN, Infinity
    <3> QED
      BY <3>1, <3>2, <3>3, ExactFacts
  <2> HIDE DEF area
  <2>4. u \in Geo /\ u.scale = h /\ u.area = area
    BY <2>1, <2>2 DEF Geo
  <2>5. UpdateTabletScale(g, h) = u
    BY <1>2 DEF UpdateTabletScale, area
  <2> HIDE DEF u
  <2> QED
    BY <2>3, <2>4, <2>5 DEF Whole
<1> QED
  BY <1>1, <1>2

\* Writing a scale without stretching the area.
LEMMA ScaleFacts ==
  ASSUME NEW g \in Geo, NEW h \in Nat
  PROVE  /\ [g EXCEPT !.scale = h] \in Geo
         /\ [g EXCEPT !.scale = h].scale = h
         /\ Whole(g) /\ h # 0 => Whole([g EXCEPT !.scale = h])
  BY DEF Whole, Geo

\* The daemon between two handlers.
DaemonInv == DaemonTypeOK /\ Sound(geo, zeroed)

\* A probe that leaves a scale other than 0 leaves the geometry whole.
LEMMA ProbeFacts ==
  ASSUME NEW g \in Geo, NEW junk \in Nat
  PROVE  /\ ProcessTabletPCCommandReply(g, junk) \in Geo
         /\ Whole(g) /\ ProcessTabletPCCommandReply(g, junk).scale # 0
              => Whole(ProcessTabletPCCommandReply(g, junk))
<1>1. CASE stream
  BY <1>1 DEF ProcessTabletPCCommandReply
<1>2. CASE ~stream
  <2> DEFINE u == [g EXCEPT !.scale = junk]
  <2>1. u \in Geo /\ u.scale = junk
    BY ScaleFacts
  <2>2. ProcessTabletPCCommandReply(g, junk) = InitTabletBounds(u, junk)
    BY <1>2 DEF ProcessTabletPCCommandReply
  <2> HIDE DEF u
  <2>3. InitTabletBounds(u, junk).scale = u.scale
    BY <2>1 DEF InitTabletBounds, Geo
  <2> QED
    BY <2>1, <2>2, <2>3, BoundsFacts
<1> QED
  BY <1>1, <1>2

\* What the tablet says of itself leaves a whole geometry whole.
LEMMA LearnedFacts ==
  ASSUME tablet \in Tablets, NEW g \in Geo, Learnable(g)
  PROVE  Learned(g) \in Geo /\ (Whole(g) => Whole(Learned(g)))
<1>1. tablet.actual \in Nat /\ tablet.actual # 0 /\ DefaultScale \in Nat /\ DefaultScale # 0
  BY GeometryAssumption
<1>2. CASE tablet.series = "SD"
  <2>1. Learned(g) = UpdateTabletScale(g, DefaultScale)
    BY <1>2 DEF Learned
  <2>2. Exact(g.area, g.scale, DefaultScale)
    BY <1>2 DEF Learnable
  <2> QED
    BY <1>1, <2>1, <2>2, UpdateTabletScaleFacts
<1>3. CASE tablet.series = "PenPartner"
  <2> DEFINE u == [g EXCEPT !.scale = tablet.actual]
  <2>1. Learned(g) = InitTabletBounds(u, tablet.actual)
    BY <1>3 DEF Learned, ProcessCommandReply
  <2>2. u \in Geo /\ u.scale # 0
    BY <1>1, ScaleFacts
  <2> HIDE DEF u
  <2> QED
    BY <1>1, <2>1, <2>2, BoundsFacts
<1>4. CASE tablet.series \notin {"SD", "PenPartner"} /\ stream
  BY <1>4 DEF Learned, ProcessCommandReply
<1>5. CASE tablet.series \notin {"SD", "PenPartner"} /\ ~stream
  <2>1. Learned(g) = UpdateTabletScale(g, tablet.actual)
    BY <1>5 DEF Learned, ProcessCommandReply
  <2>2. Exact(g.area, g.scale, tablet.actual)
    BY <1>5 DEF Learnable
  <2> QED
    BY <1>1, <2>1, <2>2, UpdateTabletScaleFacts
<1> QED
  BY <1>2, <1>3, <1>4, <1>5

\* An initialisation that finds the tablet leaves a geometry whole, unless it was
\* given a scale of 0.
LEMMA InitializeFacts ==
  ASSUME tablet \in Tablets, stream \in BOOLEAN, zeroed \in BOOLEAN, due \in Seq(Nat),
         NEW g, Sound(g, zeroed), Initialize(g)
  PROVE  /\ Sound(geo', zeroed') /\ zeroed' \in BOOLEAN
         /\ due' \in Seq(Nat) /\ Len(due') <= MaxDue
<1>1. PICK junk \in IF tablet.hackintosh THEN Junk ELSE {0} :
        LET probed  == IF tablet.hackintosh THEN ProcessTabletPCCommandReply(g, junk) ELSE g
            imposed == Imposed(probed)
            learned == Learned(imposed)
            tells   == tablet.series \in {"UD", "Intuos"} /\ imposed.scale # learned.scale
        IN  /\ Learnable(imposed)
            /\ geo' = learned
            /\ zeroed' = (zeroed \/ probed.scale = 0)
            /\ due' = due \o (IF tells THEN <<learned.scale>> ELSE << >>) \o <<Ready>>
            /\ Len(due') <= MaxDue
  BY DEF Initialize
<1> DEFINE probed == IF tablet.hackintosh THEN ProcessTabletPCCommandReply(g, junk) ELSE g
           imposed == Imposed(probed)
           learned == Learned(imposed)
           tells == tablet.series \in {"UD", "Intuos"} /\ imposed.scale # learned.scale
<1>2. g \in Geo /\ (zeroed \/ Whole(g)) /\ junk \in Nat
  BY GeometryAssumption DEF Sound
<1>3. probed \in Geo /\ (Whole(g) /\ probed.scale # 0 => Whole(probed))
  BY <1>2, ProbeFacts
<1>4. zeroed' = (zeroed \/ probed.scale = 0) /\ Learnable(imposed)
  BY <1>1
<1>5. imposed \in Geo /\ (Whole(probed) => Whole(imposed))
  <2> HIDE DEF probed
  <2> QED
    BY <1>3, ScaleFacts, GeometryAssumption DEF Imposed
<1>6. learned \in Geo /\ (Whole(imposed) => Whole(learned))
  <2> HIDE DEF imposed
  <2> QED
    BY <1>4, <1>5, LearnedFacts
<1>7. zeroed' \/ Whole(learned)
  <2> HIDE DEF probed, imposed, learned
  <2> QED
    BY <1>2, <1>3, <1>4, <1>5, <1>6
<1>8. /\ geo' = learned
      /\ due' = due \o (IF tells THEN <<learned.scale>> ELSE << >>) \o <<Ready>>
      /\ Len(due') <= MaxDue
  BY <1>1
<1>9. zeroed' \in BOOLEAN
  <2> HIDE DEF probed
  <2> QED
    BY <1>4
<1> HIDE DEF learned, tells, imposed, probed
<1>10. learned.scale \in Nat
  BY <1>6 DEF Geo
<1>11. (IF tells THEN <<learned.scale>> ELSE << >>) \in Seq(Nat) /\ <<Ready>> \in Seq(Nat)
  BY <1>10 DEF Ready
<1>12. due' \in Seq(Nat)
  BY <1>8, <1>11
<1> QED
  BY <1>6, <1>7, <1>8, <1>9, <1>12 DEF Sound

\* The constructor's geometry, before it scans.
LEMMA ArgsFacts ==
  ASSUME NEW args \in Args
  PROVE  Whole(InitTabletBounds([NoGeo EXCEPT !.tip = args.tip], args.area))
<1> DEFINE u == [NoGeo EXCEPT !.tip = args.tip]
<1>1. args.area \in Nat /\ args.tip \in Tips
  BY DEF Args
<1>2. u \in Geo /\ u.scale # 0
  BY <1>1, GeometryAssumption DEF NoGeo, Geo, Sizes
<1> HIDE DEF u
<1>3. Whole(InitTabletBounds(u, args.area))
  BY <1>1, <1>2, BoundsFacts
<1> QED
  BY <1>3 DEF u

LEMMA LaunchFacts ==
  ASSUME DaemonInv, NEW args \in Args, Launch(args)
  PROVE  DaemonInv'
<1> DEFINE g == InitTabletBounds([NoGeo EXCEPT !.tip = args.tip], args.area)
<1>1. Whole(g)
  BY ArgsFacts
<1>2. Initialize(g) /\ running' = TRUE /\ UNCHANGED <<tablet, stream>>
  BY DEF Launch
<1> HIDE DEF g
<1>3. Sound(g, zeroed)
  BY <1>1 DEF Sound, Whole
<1>4. tablet \in Tablets /\ stream \in BOOLEAN /\ zeroed \in BOOLEAN /\ due \in Seq(Nat)
  BY DEF DaemonInv, DaemonTypeOK
<1>5. /\ Sound(geo', zeroed') /\ zeroed' \in BOOLEAN
      /\ due' \in Seq(Nat) /\ Len(due') <= MaxDue
  BY <1>2, <1>3, <1>4, InitializeFacts
<1> QED
  BY <1>2, <1>4, <1>5 DEF DaemonInv, DaemonTypeOK, Sound, Whole

LEMMA ReinitFacts ==
  ASSUME DaemonInv, Reinit
  PROVE  DaemonInv'
<1>1. /\ tablet \in Tablets /\ stream \in BOOLEAN /\ zeroed \in BOOLEAN /\ due \in Seq(Nat)
      /\ Sound(geo, zeroed) /\ running \in BOOLEAN
  BY DEF DaemonInv, DaemonTypeOK
<1>2. Initialize(geo) /\ UNCHANGED <<tablet, running, stream>>
  BY DEF Reinit
<1>3. /\ Sound(geo', zeroed') /\ zeroed' \in BOOLEAN
      /\ due' \in Seq(Nat) /\ Len(due') <= MaxDue
  BY <1>1, <1>2, InitializeFacts
<1> QED
  BY <1>1, <1>2, <1>3 DEF DaemonInv, DaemonTypeOK, Sound, Whole

LEMMA NoGeoFacts == Whole(NoGeo)
  BY GeometryAssumption DEF Whole, NoGeo, Geo, Sizes

LEMMA QuitFacts ==
  ASSUME DaemonInv, Quit
  PROVE  DaemonInv'
<1>1. /\ geo' = NoGeo /\ due' = << >> /\ running' = FALSE /\ stream' = FALSE
      /\ tablet' = tablet /\ zeroed' = FALSE
  BY DEF Quit
<1>2. Whole(geo')
  BY <1>1, NoGeoFacts
<1>3. due' \in Seq(Nat) /\ Len(due') <= MaxDue
  BY <1>1, GeometryAssumption
<1> QED
  BY <1>1, <1>2, <1>3 DEF DaemonInv, DaemonTypeOK, Sound, Whole

LEMMA SetScaleFacts ==
  ASSUME Sound(geo, zeroed), zeroed \in BOOLEAN, NEW h \in Nat, SetScale(h)
  PROVE  Sound(geo', zeroed') /\ zeroed' \in BOOLEAN
<1>1. geo \in Geo /\ (zeroed \/ Whole(geo))
  BY DEF Sound
<1>2. CASE running
  <2>1. /\ Exact(geo.area, geo.scale, h)
        /\ geo' = UpdateTabletScale(geo, h)
        /\ zeroed' = (zeroed \/ h = 0)
    BY <1>2 DEF SetScale
  <2>2. geo' \in Geo /\ (Whole(geo) /\ h # 0 => Whole(geo'))
    BY <1>1, <2>1, UpdateTabletScaleFacts
  <2> QED
    BY <1>1, <2>1, <2>2 DEF Sound
<1>3. CASE ~running
  BY <1>3 DEF SetScale, Sound, Whole
<1> QED
  BY <1>2, <1>3

(***************************************************************************)
(* The chooser and the presets.                                            *)
(***************************************************************************)
Choosers == [max : Nat, area : Nat \union {NaN}]
Books == [presets : Seq(Preset), index : Nat, active : Preset]

\* A book whose index is in its list, and one that has its active preset there.
Proper(b) == b \in Books /\ IsBook(b)
Filed(b) == Proper(b) /\ b.presets[b.index] = b.active

LEMMA ScaledFacts ==
  ASSUME NEW x \in Nat \union {NaN}, NEW old \in Nat, NEW new \in Nat
  PROVE  SanityCheckArea(Scaled(x, old, new), new) \in Nat \union {NaN}
<1>1. CASE x = NaN \/ old = 0
  BY <1>1 DEF Scaled, SanityCheckArea, NaN
<1>2. CASE x # NaN /\ old # 0
  <2>1. (x * new) \div old \in Nat
    BY <1>2, SizeFacts
  <2> DEFINE y == (x * new) \div old
  <2>2. Scaled(x, old, new) = y
    BY <1>2 DEF Scaled
  <2> HIDE DEF y
  <2> QED
    BY <2>1, <2>2 DEF SanityCheckArea, y
<1> QED
  BY <1>1, <1>2

LEMMA ChooserFacts ==
  ASSUME NEW c \in Choosers
  PROVE  /\ \A p \in Preset : SetFromPreset(c, p) \in Choosers
         /\ \A w \in Nat : UpdateMaxWidth(c, w) \in Choosers
<1>1. c.area \in Nat \union {NaN} /\ c.max \in Nat
  BY DEF Choosers
<1>2. ASSUME NEW p \in Preset PROVE SetFromPreset(c, p) \in Choosers
  <2>1. p.area \in Nat \union {NaN} /\ p.range \in Nat
    BY DEF Preset
  <2>2. SanityCheckArea(Scaled(p.area, p.range, c.max), c.max) \in Nat \union {NaN}
    BY <1>1, <2>1, ScaledFacts
  <2> QED
    BY <2>2 DEF SetFromPreset, Choosers
<1>3. ASSUME NEW w \in Nat PROVE UpdateMaxWidth(c, w) \in Choosers
  <2>1. SanityCheckArea(Scaled(c.area, c.max, w), w) \in Nat \union {NaN}
    BY <1>1, ScaledFacts
  <2> QED
    BY <2>1 DEF UpdateMaxWidth, Choosers
<1> QED
  BY <1>2, <1>3

LEMMA DefaultFacts == DefaultPreset \in Preset /\ Filed(NoBook) /\ NoChooser \in Choosers
<1>1. DefaultPreset \in Preset
  BY GeometryAssumption, PresetsAssumption DEF DefaultPreset, Preset
<1>2. NoBook \in Books /\ IsBook(NoBook) /\ NoBook.presets[NoBook.index] = NoBook.active
  BY <1>1 DEF NoBook, Books, IsBook
<1>3. NoChooser \in Choosers
  BY GeometryAssumption DEF NoChooser, Choosers
<1> QED
  BY <1>1, <1>2, <1>3 DEF Filed, Proper

LEMMA ActivateFacts ==
  ASSUME NEW b, Proper(b), NEW i \in Nat \ {0}
  PROVE  /\ Proper(ActivatePresetIndex(b, i))
         /\ i = b.index => Filed(ActivatePresetIndex(b, i))
         /\ ActivatePresetIndex(b, i).presets = b.presets
         /\ ActivatePresetIndex(b, i).index = b.index
<1>1. CASE i <= Len(b.presets)
  <2>1. b \in Books /\ b.presets # << >> /\ b.index \in DOMAIN b.presets
    BY DEF Proper, IsBook
  <2>2. i \in DOMAIN b.presets /\ b.presets[i] \in Preset
    BY <1>1, <2>1 DEF Books
  <2> DEFINE u == [b EXCEPT !.active = b.presets[i]]
  <2>3. u \in Books /\ u.presets = b.presets /\ u.index = b.index /\ u.active = b.presets[i]
    BY <2>1, <2>2 DEF Books
  <2>4. ActivatePresetIndex(b, i) = u
    BY <1>1 DEF ActivatePresetIndex
  <2> HIDE DEF u
  <2> QED
    BY <2>1, <2>3, <2>4 DEF Filed, Proper, IsBook
<1>2. CASE ~(i <= Len(b.presets))
  <2>1. i # b.index
    BY <1>2 DEF Proper, IsBook, Books
  <2>2. ActivatePresetIndex(b, i) = b
    BY <1>2 DEF ActivatePresetIndex
  <2> QED
    BY <2>1, <2>2
<1> QED
  BY <1>1, <1>2

\* SynchronizePresetInArray files the active preset.
LEMMA SynchronizeFacts ==
  ASSUME NEW b, Proper(b)
  PROVE  /\ Filed(SynchronizePresetInArray(b))
         /\ Len(SynchronizePresetInArray(b).presets) = Len(b.presets)
         /\ SynchronizePresetInArray(b).active = b.active
<1> DEFINE list == [b.presets EXCEPT ![b.index] = b.active]
           u == [b EXCEPT !.presets = list]
<1>1. /\ b \in Books /\ b.presets \in Seq(Preset) /\ b.active \in Preset
      /\ b.index \in DOMAIN b.presets
  BY DEF Proper, IsBook, Books
<1>2. /\ list \in Seq(Preset) /\ DOMAIN list = DOMAIN b.presets /\ Len(list) = Len(b.presets)
      /\ list[b.index] = b.active
  BY <1>1
<1>3. SynchronizePresetInArray(b) = u
  BY <1>1 DEF SynchronizePresetInArray, Books
<1> HIDE DEF list
<1>4. u \in Books /\ u.presets = list /\ u.index = b.index /\ u.active = b.active
  BY <1>1, <1>2 DEF Books
<1> HIDE DEF u
<1>5. list # << >>
  BY <1>1, <1>2
<1> QED
  BY <1>1, <1>2, <1>3, <1>4, <1>5 DEF Filed, Proper, IsBook

LEMMA AddFacts ==
  ASSUME NEW b, Proper(b), NEW n \in Names \union {"Custom"}
  PROVE  /\ Filed(AddPresetNamed(b, n))
         /\ Len(AddPresetNamed(b, n).presets) = Len(b.presets) + 1
<1> DEFINE new == [b.active EXCEPT !.name = n]
           list == Append(b.presets, new)
           u == [presets |-> list, index |-> Len(b.presets) + 1, active |-> new]
<1>1. b.presets \in Seq(Preset) /\ b.active \in Preset
  BY DEF Proper, Books
<1>2. new \in Preset
  BY <1>1 DEF Preset
<1>3. AddPresetNamed(b, n) = u
  BY DEF AddPresetNamed
<1> HIDE DEF new
<1>4. /\ list \in Seq(Preset) /\ Len(list) = Len(b.presets) + 1
      /\ list[Len(b.presets) + 1] = new /\ Len(b.presets) + 1 \in DOMAIN list
      /\ list # << >> /\ Len(b.presets) + 1 \in Nat
  BY <1>1, <1>2
<1> HIDE DEF list
<1>5. u \in Books /\ u.presets = list /\ u.index = Len(b.presets) + 1 /\ u.active = new
  BY <1>2, <1>4 DEF Books
<1> HIDE DEF u
<1> QED
  BY <1>3, <1>4, <1>5 DEF Filed, Proper, IsBook

LEMMA MatchingFacts ==
  ASSUME NEW b, Proper(b), NEW g
  PROVE  Proper(ActivatePresetMatching(b, g))
<1> DEFINE matching == {i \in DOMAIN b.presets : Matches(b.presets[i], g)}
           custom == {i \in DOMAIN b.presets : b.presets[i].name = "Custom"}
<1>1. DOMAIN b.presets \subseteq Nat \ {0}
  BY DEF Proper, Books
<1>2. matching \in SUBSET Nat /\ custom \in SUBSET Nat
  BY <1>1
<1>3. /\ matching # {} => Min(matching) \in Nat \ {0}
      /\ custom # {} => Min(custom) \in Nat \ {0}
  <2>1. matching # {} => Min(matching) \in matching
    BY <1>2, MinFacts
  <2>2. custom # {} => Min(custom) \in custom
    BY <1>2, MinFacts
  <2> QED
    BY <1>1, <2>1, <2>2
<1>4. ActivatePresetMatching(b, g) =
        IF matching # {} THEN ActivatePresetIndex(b, Min(matching))
        ELSE IF custom # {} THEN ActivatePresetIndex(b, Min(custom))
        ELSE AddPresetNamed(b, "Custom")
  BY DEF ActivatePresetMatching
<1> HIDE DEF matching, custom
<1>5. CASE matching # {}
  BY <1>3, <1>4, <1>5, ActivateFacts
<1>6. CASE matching = {} /\ custom # {}
  BY <1>3, <1>4, <1>6, ActivateFacts
<1>7. CASE matching = {} /\ custom = {}
  BY <1>4, <1>7, AddFacts DEF Filed
<1> QED
  BY <1>5, <1>6, <1>7

\* New values of the active preset leave a proper book.
LEMMA ActiveFacts ==
  ASSUME NEW b, Proper(b), NEW p \in Preset
  PROVE  Proper([b EXCEPT !.active = p])
  BY DEF Proper, IsBook, Books

\* Whatever [geom] says and finds, the selected entry is the active preset after it.
LEMMA GeometryReceivedFacts ==
  ASSUME NEW b, Filed(b), NEW g \in Geo
  PROVE  Filed(GeometryReceived(b, g))
<1> DEFINE found == ActivatePresetMatching(b, g)
           area == IF g.area > 1 THEN g.area ELSE found.active.area
           p == [found.active EXCEPT !.area = area, !.tip = g.tip, !.scaling = g.scaling]
           u == [found EXCEPT !.active.area = area, !.active.tip = g.tip, !.active.scaling = g.scaling]
<1>1. CASE ~Readable(g)
  BY <1>1 DEF GeometryReceived
<1>2. CASE Readable(g)
  <2>1. g.area \in Nat /\ g.tip \in Tips /\ g.scaling \in Scalings
    BY <1>2 DEF Geo, Sizes, NaN, Infinity, Readable
  <2>2. Proper(found)
    BY MatchingFacts DEF Filed
  <2>3. GeometryReceived(b, g) = SynchronizePresetInArray(u)
    BY <1>2 DEF GeometryReceived
  <2> HIDE DEF found
  <2>4. found.active \in Preset /\ found \in Books
    BY <2>2 DEF Proper, Books
  <2>5. area \in Nat
    BY <2>1, <2>4 DEF Preset
  <2> HIDE DEF area
  <2>6. p \in Preset
    BY <2>1, <2>4, <2>5 DEF Preset
  <2>7. u = [found EXCEPT !.active = p]
    BY <2>4 DEF Books, Preset
  <2> HIDE DEF p, u
  <2>8. Proper(u)
    BY <2>2, <2>6, <2>7, ActiveFacts
  <2> QED
    BY <2>3, <2>8, SynchronizeFacts
<1> QED
  BY <1>1, <1>2

LEMMA FromControlsFacts ==
  ASSUME NEW b, Proper(b), NEW c \in Choosers, c.area \in Nat, NEW tip \in Tips
  PROVE  /\ Filed(UpdatePresetFromControls(b, c, tip))
         /\ Len(UpdatePresetFromControls(b, c, tip).presets) = Len(b.presets)
<1> DEFINE p == [b.active EXCEPT !.range = c.max, !.area = c.area, !.tip = tip]
           u == [b EXCEPT !.active.range = c.max, !.active.area = c.area, !.active.tip = tip]
<1>1. b.active \in Preset /\ b \in Books /\ c.max \in Nat /\ c.area \in Nat
  BY DEF Proper, Books, Choosers
<1>2. p \in Preset
  BY <1>1 DEF Preset
<1>3. u = [b EXCEPT !.active = p]
  BY <1>1 DEF Books, Preset
<1>4. UpdatePresetFromControls(b, c, tip) = SynchronizePresetInArray(u)
  BY DEF UpdatePresetFromControls
<1> HIDE DEF p, u
<1>5. Proper(u) /\ u.presets = b.presets
  BY <1>1, <1>2, <1>3, ActiveFacts DEF Books
<1> QED
  BY <1>4, <1>5, SynchronizeFacts

\* Deleting the selected entry moves the index only off the end.
LEMMA WithoutSelectedFacts ==
  ASSUME NEW b, Proper(b), Len(b.presets) > 1
  PROVE  /\ Proper(WithoutSelected(b))
         /\ Len(WithoutSelected(b).presets) = Len(b.presets) - 1
<1> DEFINE n == Len(b.presets) - 1
           rest == [i \in 1..n |-> b.presets[IF i < b.index THEN i ELSE i + 1]]
           index == IF b.index > Len(rest) THEN b.index - 1 ELSE b.index
           u == [b EXCEPT !.presets = rest, !.index = index]
<1>1. WithoutSelected(b) = u
  BY DEF WithoutSelected
<1>2. b \in Books /\ b.presets \in Seq(Preset) /\ b.index \in DOMAIN b.presets
  BY DEF Proper, Books, IsBook
<1>3. b.index \in 1 .. Len(b.presets) /\ n \in Nat \ {0} /\ Len(b.presets) = n + 1
  <2>1. DOMAIN b.presets = 1 .. Len(b.presets)
    BY <1>2
  <2>2. Len(b.presets) \in Nat
    BY <1>2
  <2> DEFINE len == Len(b.presets)
  <2>3. len > 1 /\ n = len - 1 /\ len \in Nat
    BY <2>2
  <2> HIDE DEF len, n
  <2>4. n \in Nat \ {0} /\ len = n + 1
    BY <2>3
  <2> QED
    BY <1>2, <2>1, <2>4 DEF len
<1>4. \A i \in 1..n : b.presets[IF i < b.index THEN i ELSE i + 1] \in Preset
  BY <1>2, <1>3
<1>5. rest \in Seq(Preset) /\ Len(rest) = n /\ DOMAIN rest = 1..n
  BY <1>3, <1>4
<1>6. index \in 1..n
  BY <1>3, <1>5
<1> HIDE DEF rest, index, n
<1>7. index \in Nat
  BY <1>3, <1>6
<1>8. u \in Books /\ u.presets = rest /\ u.index = index
  BY <1>2, <1>5, <1>7 DEF Books
<1> HIDE DEF u
<1>9. rest # << >>
  BY <1>3, <1>5
<1> QED
  BY <1>3, <1>5, <1>6, <1>1, <1>8, <1>9 DEF Proper, IsBook

\* The preferences hold an empty list or a proper one.
SavedOK == saved \in Stored /\ (IsBook(saved) \/ (saved.presets = << >> /\ saved.index = 1))

LEMMA LoadFacts ==
  ASSUME SavedOK
  PROVE  /\ Filed(LoadPresets)
         /\ Len(LoadPresets.presets) = IF saved.presets = << >> THEN 1 ELSE Len(saved.presets)
<1> DEFINE list == IF saved.presets = << >> THEN <<DefaultPreset>> ELSE saved.presets
           b == [NoBook EXCEPT !.presets = list, !.index = saved.index]
<1>1. saved.presets \in Seq(Preset) /\ saved.index \in Nat
  BY DEF SavedOK, Stored
<1>2. list \in Seq(Preset) /\ list # << >>
  BY <1>1, DefaultFacts
<1>3. saved.index \in DOMAIN list
  BY DEF SavedOK, IsBook
<1>4. Len(list) = IF saved.presets = << >> THEN 1 ELSE Len(saved.presets)
  OBVIOUS
<1>5. LoadPresets = ActivatePresetIndex(b, saved.index)
  BY DEF LoadPresets
<1>6. saved.index \in Nat \ {0}
  BY <1>1, <1>2, <1>3
<1> HIDE DEF list
<1>7. NoBook \in Books
  BY DefaultFacts DEF Filed, Proper
<1>8. b \in Books /\ b.presets = list /\ b.index = saved.index
  BY <1>1, <1>2, <1>7 DEF Books
<1> HIDE DEF b
<1>9. Proper(b)
  BY <1>2, <1>3, <1>8 DEF Proper, IsBook
<1> QED
  BY <1>4, <1>5, <1>6, <1>8, <1>9, ActivateFacts

(***************************************************************************)
(* The handlers of the pane.                                               *)
(***************************************************************************)
PaneInv ==
  /\ pane \in {"out", "loaded", "shown"} /\ isLoaded \in BOOLEAN
  /\ Filed(book) /\ Len(book.presets) <= MaxPresets
  /\ chooser \in Choosers
  /\ armed \in BOOLEAN /\ autoStart \in BOOLEAN
  /\ SavedOK /\ Len(saved.presets) <= MaxPresets
  /\ startup \in Seq(Args) /\ Len(startup) <= 1
  /\ stray \in BOOLEAN /\ orderly \in BOOLEAN
  /\ changes \in 0..MaxChanges

\* The parts of it that a handler of the presets changes.
BookInv == Filed(book) /\ Len(book.presets) <= MaxPresets /\ chooser \in Choosers

GeoInv == Sound(geo, zeroed) /\ zeroed \in BOOLEAN

Inv == DaemonInv /\ PaneInv

LEMMA SendFacts ==
  ASSUME Sound(geo, zeroed), zeroed \in BOOLEAN, NEW p \in Preset
  PROVE  /\ SendPresetToDaemon(p) => Sound(geo', zeroed') /\ zeroed' \in BOOLEAN
         /\ SendMouseModeToDaemon(p) => Sound(geo', zeroed') /\ zeroed' \in BOOLEAN
<1>1. /\ p.area \in Nat /\ p.tip \in Tips /\ p.scaling \in Scalings
      /\ geo \in Geo /\ (zeroed \/ Whole(geo))
  BY DEF Preset, Sound
<1>2. CASE ~running
  BY <1>2 DEF SendPresetToDaemon, SendMouseModeToDaemon, Sound, Whole
<1>3. ASSUME running, SendPresetToDaemon(p) PROVE Sound(geo', zeroed') /\ zeroed' \in BOOLEAN
  <2> DEFINE g == InitTabletBounds(geo, p.area)
  <2>1. g \in Geo /\ (geo.scale # 0 => Whole(g))
    BY <1>1, BoundsFacts
  <2>2. geo' = [g EXCEPT !.tip = p.tip] /\ zeroed' = (zeroed /\ geo.scale = 0)
    BY <1>3 DEF SendPresetToDaemon, SetGeometry
  <2> HIDE DEF g
  <2>3. geo' \in Geo /\ (Whole(g) => Whole(geo'))
    BY <1>1, <2>1, <2>2 DEF Whole, Geo
  <2>4. ~zeroed => geo.scale # 0
    BY <1>1 DEF Whole
  <2> QED
    BY <2>1, <2>2, <2>3, <2>4 DEF Sound
<1>4. ASSUME running, SendMouseModeToDaemon(p) PROVE Sound(geo', zeroed') /\ zeroed' \in BOOLEAN
  <2>1. geo' = [geo EXCEPT !.scaling = p.scaling] /\ zeroed' = zeroed
    BY <1>4 DEF SendMouseModeToDaemon, SetMouseScaling
  <2>2. geo' \in Geo /\ (Whole(geo) => Whole(geo'))
    BY <1>1, <2>1 DEF Whole, Geo
  <2> QED
    BY <1>1, <2>1, <2>2 DEF Sound
<1> QED
  BY <1>2, <1>3, <1>4

LEMMA LearnFacts ==
  ASSUME Sound(geo, zeroed), zeroed \in BOOLEAN, NEW b, Filed(b), NEW c \in Choosers,
         LearnGeometry(b, c)
  PROVE  /\ Sound(geo', zeroed') /\ zeroed' \in BOOLEAN
         /\ BookInv' /\ stray' \in BOOLEAN
<1> DEFINE learned == GeometryReceived(b, geo)
           shown == IF Readable(geo) THEN SetFromPreset(c, learned.active) ELSE c
<1>1. geo.scale \in Nat /\ geo \in Geo
  BY DEF Sound, Geo
<1>2. /\ Len(learned.presets) <= MaxPresets
      /\ book' = learned
      /\ chooser' = UpdateMaxWidth(shown, geo.scale)
      /\ stray' = ~Readable(geo)
      /\ SendPresetToDaemon(book'.active) \/ UNCHANGED <<geo, zeroed>>
  BY DEF LearnGeometry
<1>3. Filed(learned)
  BY <1>1, GeometryReceivedFacts
<1> HIDE DEF learned
<1>4. learned.active \in Preset
  BY <1>3 DEF Filed, Proper, Books
<1>5. shown \in Choosers
  BY <1>4, ChooserFacts
<1> HIDE DEF shown
<1>6. chooser' \in Choosers
  BY <1>1, <1>2, <1>5, ChooserFacts
<1>7. Sound(geo', zeroed') /\ zeroed' \in BOOLEAN
  BY <1>2, <1>4, SendFacts DEF Sound, Whole
<1>8. stray' \in BOOLEAN
  BY <1>2
<1> QED
  BY <1>2, <1>3, <1>6, <1>7, <1>8 DEF BookInv, Filed, Proper, IsBook

LEMMA InitInv == Init => Inv
<1> SUFFICES ASSUME Init PROVE Inv
  OBVIOUS
<1>1. DaemonInv
  <2>1. /\ geo = NoGeo /\ tablet \in Tablets /\ running = FALSE /\ stream = FALSE /\ due = << >>
        /\ zeroed = FALSE
    BY DEF Init, DaemonInit
  <2>2. Whole(geo)
    BY <2>1, NoGeoFacts
  <2>3. due \in Seq(Nat) /\ Len(due) <= MaxDue
    BY <2>1, GeometryAssumption
  <2> QED
    BY <2>1, <2>2, <2>3 DEF DaemonInv, DaemonTypeOK, Sound, Whole
<1>2. Filed(book) /\ Len(book.presets) <= MaxPresets /\ chooser \in Choosers
  BY DefaultFacts, PresetsAssumption DEF Init, NoBook
<1>3. SavedOK /\ Len(saved.presets) <= MaxPresets
  BY PresetsAssumption DEF Init, SavedOK, Stored
<1>4. startup \in Seq(Args) /\ Len(startup) <= 1
  BY DEF Init
<1>5. changes \in 0..MaxChanges
  BY PresetsAssumption DEF Init
<1>6. /\ pane = "out" /\ isLoaded = FALSE /\ armed = FALSE /\ autoStart = FALSE /\ stray = FALSE /\ orderly = TRUE
  BY DEF Init
<1> QED
  BY <1>1, <1>2, <1>3, <1>4, <1>5, <1>6 DEF Inv, PaneInv

\* A preset's arguments, and what UpdateAutoStart makes of the login job.
LEMMA AutoStartFacts ==
  ASSUME Inv, pane' \in {"out", "loaded", "shown"}, UpdateAutoStart
  PROVE  startup' \in Seq(Args) /\ Len(startup') <= 1 /\ orderly' \in BOOLEAN
<1>1. StartupArgs(book.active) \in Args
  <2>1. book.active \in Preset
    BY DEF Inv, PaneInv, Filed, Proper, Books
  <2> QED
    BY <2>1 DEF StartupArgs, Args, Preset
<1>2. startup \in Seq(Args) /\ Len(startup) <= 1
  BY DEF Inv, PaneInv
<1> DEFINE args == StartupArgs(book.active)
<1>3. /\ startup' = startup \/ startup' = << >> \/ startup' = <<args>>
      /\ orderly' \in BOOLEAN
  BY DEF UpdateAutoStart, InstallsJob, LaunchHelperFails
<1> HIDE DEF args
<1>4. args \in Args
  BY <1>1 DEF args
<1>5. << >> \in Seq(Args) /\ Len(<< >>) <= 1
  OBVIOUS
<1>6. <<args>> \in Seq(Args) /\ Len(<<args>>) <= 1
  BY <1>4
<1> QED
  BY <1>2, <1>3, <1>5, <1>6

LEMMA LoadStep ==
  ASSUME Inv, Load
  PROVE  Inv'
<1> DEFINE loaded == LoadPresets
           shown == SetFromPreset(NoChooser, loaded.active)
<1>1. Filed(loaded) /\ Len(loaded.presets) <= MaxPresets
  BY LoadFacts, PresetsAssumption DEF Inv, PaneInv
<1>2. /\ pane' = "loaded" /\ isLoaded' = running /\ autoStart' \in BOOLEAN /\ armed' = FALSE
      /\ UNCHANGED <<tablet, running, stream, due, saved, startup, orderly, changes>>
      /\ IF running THEN LearnGeometry(loaded, shown)
         ELSE book' = loaded /\ chooser' = shown /\ UNCHANGED <<geo, zeroed, stray>>
  BY DEF Load, UpdateAutoStartCheckbox
<1> HIDE DEF loaded
<1>3. loaded.active \in Preset
  BY <1>1 DEF Filed, Proper, Books
<1>4. shown \in Choosers
  BY <1>3, DefaultFacts, ChooserFacts
<1> HIDE DEF shown
<1>5. Sound(geo, zeroed) /\ zeroed \in BOOLEAN /\ stray \in BOOLEAN /\ running \in BOOLEAN
  BY DEF Inv, DaemonInv, DaemonTypeOK, PaneInv
<1>6. Sound(geo', zeroed') /\ zeroed' \in BOOLEAN /\ BookInv' /\ stray' \in BOOLEAN
  <2>1. CASE running
    BY <1>1, <1>2, <1>4, <1>5, <2>1, LearnFacts
  <2>2. CASE ~running
    BY <1>1, <1>2, <1>4, <1>5, <2>2 DEF BookInv, Sound, Whole, Filed, Proper, IsBook
  <2> QED
    BY <2>1, <2>2
<1>7. DaemonInv'
  BY <1>2, <1>6 DEF Inv, DaemonInv, DaemonTypeOK, Sound
<1>8. PaneInv'
  BY <1>2, <1>5, <1>6 DEF Inv, PaneInv, BookInv, SavedOK, IsBook
<1> QED
  BY <1>7, <1>8 DEF Inv

LEMMA ShowStep ==
  ASSUME Inv, Show
  PROVE  Inv'
<1>1. /\ pane' = "shown"
      /\ UNCHANGED <<tablet, running, geo, zeroed, isLoaded, book, chooser, armed,
                     autoStart, saved, startup, orderly, changes>>
  BY DEF Show
<1>2. due' = << >> \/ due' = due
  BY DEF Show
<1>3. due' \in Seq(Nat) /\ Len(due') <= MaxDue
  <2>1. CASE due' = << >>
    BY <2>1, GeometryAssumption
  <2>2. CASE due' = due
    BY <2>2 DEF Inv, DaemonInv, DaemonTypeOK
  <2> QED
    BY <1>2, <2>1, <2>2
<1>4. stray' \in BOOLEAN /\ stream' \in BOOLEAN
  BY DEF Show, Inv, DaemonInv, DaemonTypeOK, PaneInv
<1>5. DaemonInv'
  BY <1>1, <1>3, <1>4 DEF Inv, DaemonInv, DaemonTypeOK, Sound, Whole
<1>6. PaneInv'
  BY <1>1, <1>4 DEF Inv, PaneInv, SavedOK, IsBook, Filed, Proper
<1> QED
  BY <1>5, <1>6 DEF Inv

LEMMA HideStep ==
  ASSUME Inv, Hide
  PROVE  Inv'
<1>1. /\ pane' = "loaded" /\ due' = << >> /\ stray' \in BOOLEAN /\ armed' = FALSE
      /\ stream' = FALSE /\ saved' = [presets |-> book.presets, index |-> book.index]
      /\ UpdateAutoStart
      /\ UNCHANGED <<tablet, running, geo, zeroed, isLoaded, book, chooser, autoStart,
                     changes>>
  BY DEF Hide, SavePreferences
<1>2. due' \in Seq(Nat) /\ Len(due') <= MaxDue
  BY <1>1, GeometryAssumption
<1>3. startup' \in Seq(Args) /\ Len(startup') <= 1 /\ orderly' \in BOOLEAN
  BY <1>1, AutoStartFacts
<1>4. /\ book.presets \in Seq(Preset) /\ book.index \in Nat /\ IsBook(book)
      /\ Len(book.presets) <= MaxPresets
  BY DEF Inv, PaneInv, Filed, Proper, Books
<1>5. saved' \in Stored /\ IsBook(saved') /\ Len(saved'.presets) <= MaxPresets
  BY <1>1, <1>4 DEF Stored, IsBook
<1>6. DaemonInv'
  BY <1>1, <1>2 DEF Inv, DaemonInv, DaemonTypeOK, Sound, Whole
<1>7. PaneInv'
  BY <1>1, <1>3, <1>5 DEF Inv, PaneInv, SavedOK, IsBook, Filed, Proper
<1> QED
  BY <1>6, <1>7 DEF Inv

LEMMA PaneEndsStep ==
  ASSUME Inv, PaneEnds
  PROVE  Inv'
<1>1. /\ pane' = "out" /\ isLoaded' = FALSE /\ orderly' \in BOOLEAN /\ book' = NoBook /\ chooser' = NoChooser
      /\ armed' = FALSE /\ autoStart' = FALSE /\ stray' = FALSE
      /\ UNCHANGED <<daemonVars, saved, startup, changes>>
  BY DEF PaneEnds
<1>2. Filed(book') /\ Len(book'.presets) <= MaxPresets /\ chooser' \in Choosers
  BY <1>1, DefaultFacts, PresetsAssumption DEF NoBook
<1>3. DaemonInv'
  BY <1>1 DEF Inv, DaemonInv, DaemonTypeOK, Sound, Whole, daemonVars
<1>4. PaneInv'
  BY <1>1, <1>2 DEF Inv, PaneInv, SavedOK, IsBook, Filed, Proper
<1> QED
  BY <1>3, <1>4 DEF Inv

LEMMA PollStep ==
  ASSUME Inv, Poll
  PROVE  Inv'
<1>1. /\ due # << >> /\ due' = Tail(due)
      /\ IF Head(due) = Ready THEN LearnGeometry(book, chooser)
         ELSE /\ chooser' = UpdateMaxWidth(chooser, Head(due))
              /\ UNCHANGED <<geo, zeroed, book, stray>>
      /\ UNCHANGED <<tablet, running, stream, pane, armed, autoStart, saved, startup,
                     orderly, changes>>
  BY DEF Poll
<1>2. /\ due \in Seq(Nat) /\ Len(due) <= MaxDue /\ Sound(geo, zeroed) /\ zeroed \in BOOLEAN
      /\ stray \in BOOLEAN /\ BookInv
  BY DEF Inv, DaemonInv, DaemonTypeOK, PaneInv, BookInv
<1>3. due' \in Seq(Nat) /\ Len(due') <= MaxDue /\ Head(due) \in Nat
  <2>1. Len(Tail(due)) = Len(due) - 1 /\ Len(due) \in Nat /\ MaxDue \in Nat
    BY <1>1, <1>2, GeometryAssumption
  <2>2. Tail(due) \in Seq(Nat) /\ Head(due) \in Nat
    BY <1>1, <1>2
  <2> QED
    BY <1>1, <1>2, <2>1, <2>2
<1>4. Sound(geo', zeroed') /\ zeroed' \in BOOLEAN /\ BookInv' /\ stray' \in BOOLEAN
  <2>1. CASE Head(due) = Ready
    BY <1>1, <1>2, <2>1, LearnFacts DEF BookInv
  <2>2. CASE Head(due) # Ready
    <3>1. chooser' \in Choosers
      BY <1>1, <1>2, <1>3, <2>2, ChooserFacts DEF BookInv
    <3> QED
      BY <1>1, <1>2, <2>2, <3>1 DEF BookInv, Sound, Whole, Filed, Proper, IsBook
  <2> QED
    BY <2>1, <2>2
<1>5. isLoaded' \in BOOLEAN
  BY DEF Poll, Inv, PaneInv
<1>6. DaemonInv'
  BY <1>1, <1>3, <1>4 DEF Inv, DaemonInv, DaemonTypeOK, Sound
<1>7. PaneInv'
  BY <1>1, <1>4, <1>5 DEF Inv, PaneInv, SavedOK, IsBook, BookInv
<1> QED
  BY <1>6, <1>7 DEF Inv

\* The pane looks for the daemon, and tells it to scan or not.
LEMMA LooksStep ==
  ASSUME Inv, IsDaemonLoaded \/ SelectedSerialPort
  PROVE  Inv'
<1>1. /\ isLoaded' = running
      /\ UNCHANGED <<pane, book, chooser, armed, autoStart, saved, startup, stray,
                     orderly, changes>>
  BY DEF IsDaemonLoaded, SelectedSerialPort
<1>2. DaemonInv'
  <2>1. CASE IsDaemonLoaded
    BY <2>1 DEF IsDaemonLoaded, Inv, DaemonInv, DaemonTypeOK, Sound, Whole, daemonVars
  <2>2. CASE SelectedSerialPort
    BY <2>2, ReinitFacts DEF SelectedSerialPort, Inv
  <2> QED
    BY <2>1, <2>2
<1>3. isLoaded' \in BOOLEAN
  BY <1>1 DEF Inv, DaemonInv, DaemonTypeOK
<1>4. PaneInv'
  BY <1>1, <1>3 DEF Inv, PaneInv, SavedOK, IsBook, Filed, Proper
<1> QED
  BY <1>2, <1>4 DEF Inv

(***************************************************************************)
(* The user's changes: each leaves the book and the daemon in order and    *)
(* the records alone.                                                      *)
(***************************************************************************)
LEMMA ChangesFacts ==
  ASSUME Inv, Changes
  PROVE  changes' \in 0..MaxChanges
<1>1. changes \in 0..MaxChanges /\ changes < MaxChanges /\ changes' = changes + 1
  BY DEF Inv, PaneInv, Changes
<1> QED
  BY <1>1, PresetsAssumption

LEMMA UserStep ==
  ASSUME Inv, Changes, KeepsDaemon, KeepsRecords, BookInv', GeoInv',
         armed' \in BOOLEAN, stray' \in BOOLEAN
  PROVE  Inv'
<1>1. changes' \in 0..MaxChanges
  BY ChangesFacts
<1>2. DaemonInv'
  BY DEF KeepsDaemon, Inv, DaemonInv, DaemonTypeOK, GeoInv, Sound
<1>3. PaneInv'
  BY <1>1 DEF KeepsRecords, Inv, PaneInv, SavedOK, IsBook, BookInv
<1> QED
  BY <1>2, <1>3 DEF Inv

LEMMA ActivatedStep ==
  ASSUME Inv, Changes, NEW b, Filed(b), Len(b.presets) <= MaxPresets, Activated(b)
  PROVE  Inv'
<1>1. /\ book' = b /\ chooser' = SetFromPreset(chooser, b.active) /\ stray' = FALSE
      /\ SendPresetToDaemon(b.active) /\ armed' = armed /\ KeepsDaemon /\ KeepsRecords
  BY DEF Activated
<1>2. b.active \in Preset
  BY DEF Filed, Proper, Books
<1>3. GeoInv /\ chooser \in Choosers /\ armed \in BOOLEAN
  BY DEF Inv, DaemonInv, DaemonTypeOK, PaneInv, GeoInv
<1>4. GeoInv' /\ chooser' \in Choosers
  BY <1>1, <1>2, <1>3, SendFacts, ChooserFacts DEF GeoInv
<1>5. BookInv'
  BY <1>1, <1>4 DEF BookInv, Filed, Proper, IsBook
<1> QED
  BY <1>1, <1>3, <1>4, <1>5, UserStep

\* Selecting and deleting both activate a book with its active preset filed.
LEMMA ActivatesFiled ==
  ASSUME Inv, SelectedPreset \/ DoDeletePreset
  PROVE  /\ Changes
         /\ \E b : Filed(b) /\ Len(b.presets) <= MaxPresets /\ Activated(b)
<1>1. /\ Proper(book) /\ book \in Books /\ IsBook(book) /\ book.presets \in Seq(Preset)
      /\ Len(book.presets) <= MaxPresets /\ Len(book.presets) \in Nat
  BY DEF Inv, PaneInv, Filed, Proper, Books
<1>2. CASE SelectedPreset
  <2>1. PICK i \in DOMAIN book.presets :
          Activated(ActivatePresetIndex([book EXCEPT !.index = i], i))
    BY <1>2 DEF SelectedPreset
  <2> DEFINE u == [book EXCEPT !.index = i]
             b == ActivatePresetIndex(u, i)
  <2>2. i \in Nat \ {0}
    BY <1>1
  <2>3. Proper(u) /\ u.index = i /\ u.presets = book.presets
    BY <1>1, <2>2 DEF Books, Proper, IsBook
  <2>4. Activated(b)
    BY <2>1
  <2> HIDE DEF u
  <2>5. Filed(b) /\ b.presets = book.presets
    BY <2>2, <2>3, ActivateFacts
  <2> HIDE DEF b
  <2> QED
    BY <1>1, <1>2, <2>4, <2>5 DEF SelectedPreset
<1>3. CASE DoDeletePreset
  <2> DEFINE u == WithoutSelected(book)
             b == ActivatePresetIndex(u, u.index)
  <2>1. Len(book.presets) > 1 /\ Activated(b) /\ Changes
    BY <1>3 DEF DoDeletePreset
  <2>2. Proper(u) /\ Len(u.presets) = Len(book.presets) - 1
    BY <1>1, <2>1, WithoutSelectedFacts
  <2> HIDE DEF u
  <2>3. u.index \in Nat \ {0}
    BY <2>2 DEF Proper, IsBook, Books
  <2>4. Filed(b) /\ b.presets = u.presets
    BY <2>2, <2>3, ActivateFacts
  <2>5. Len(b.presets) <= MaxPresets
    BY <1>1, <2>2, <2>4, PresetsAssumption
  <2> HIDE DEF b
  <2> QED
    BY <2>1, <2>4, <2>5
<1> QED
  BY <1>2, <1>3

LEMMA DoAddPresetStep ==
  ASSUME Inv, DoAddPreset
  PROVE  Inv'
<1>1. PICK n \in Names : book' = AddPresetNamed(book, n)
  BY DEF DoAddPreset
<1>2. /\ Changes /\ Len(book.presets) < MaxPresets /\ UNCHANGED <<geo, zeroed, chooser, stray, armed>>
      /\ KeepsDaemon /\ KeepsRecords
  BY DEF DoAddPreset
<1>3. /\ Proper(book) /\ chooser \in Choosers /\ armed \in BOOLEAN /\ stray \in BOOLEAN
      /\ GeoInv /\ Len(book.presets) \in Nat
  BY DEF Inv, DaemonInv, DaemonTypeOK, GeoInv, PaneInv, Filed, Proper, Books
<1>4. Filed(AddPresetNamed(book, n)) /\ Len(AddPresetNamed(book, n).presets) = Len(book.presets) + 1
  BY <1>3, AddFacts
<1>5. Filed(book') /\ Len(book'.presets) <= MaxPresets
  BY <1>1, <1>2, <1>3, <1>4, PresetsAssumption
<1>6. BookInv' /\ GeoInv'
  BY <1>2, <1>3, <1>5 DEF BookInv, GeoInv, Sound, Whole, Filed, Proper, IsBook
<1> QED
  BY <1>2, <1>3, <1>6, UserStep

\* A change to the active preset that is filed at once.
LEMMA EditedFacts ==
  ASSUME Inv, NEW p \in Preset, book' = SynchronizePresetInArray([book EXCEPT !.active = p])
  PROVE  Filed(book') /\ Len(book'.presets) <= MaxPresets /\ book'.active = p
<1> DEFINE u == [book EXCEPT !.active = p]
<1>1. Proper(book) /\ book \in Books /\ Len(book.presets) <= MaxPresets
  BY DEF Inv, PaneInv, Filed, Proper
<1>2. Proper(u) /\ u.presets = book.presets /\ u.active = p
  BY <1>1, ActiveFacts DEF Books
<1>3. book' = SynchronizePresetInArray(u)
  OBVIOUS
<1> HIDE DEF u
<1>4. Filed(book') /\ Len(book'.presets) = Len(book.presets) /\ book'.active = p
  BY <1>2, <1>3, SynchronizeFacts
<1> QED
  BY <1>1, <1>4

LEMMA DoRenamePresetStep ==
  ASSUME Inv, DoRenamePreset
  PROVE  Inv'
<1>1. PICK n \in Names : book' = SynchronizePresetInArray([book EXCEPT !.active.name = n])
  BY DEF DoRenamePreset
<1>2. Changes /\ UNCHANGED <<geo, zeroed, chooser, stray, armed>> /\ KeepsDaemon /\ KeepsRecords
  BY DEF DoRenamePreset
<1>3. /\ book \in Books /\ book.active \in Preset /\ chooser \in Choosers
      /\ armed \in BOOLEAN /\ stray \in BOOLEAN /\ GeoInv
  BY DEF Inv, DaemonInv, DaemonTypeOK, GeoInv, PaneInv, Filed, Proper, Books
<1> DEFINE p == [book.active EXCEPT !.name = n]
<1>4. p \in Preset
  BY <1>3 DEF Preset
<1>5. [book EXCEPT !.active.name = n] = [book EXCEPT !.active = p]
  BY <1>3 DEF Books, Preset
<1> HIDE DEF p
<1>6. Filed(book') /\ Len(book'.presets) <= MaxPresets
  BY <1>1, <1>4, <1>5, EditedFacts
<1>7. BookInv' /\ GeoInv'
  BY <1>2, <1>3, <1>6 DEF BookInv, GeoInv, Sound, Whole, Filed, Proper, IsBook
<1> QED
  BY <1>2, <1>3, <1>7, UserStep

LEMMA PresetChangedStep ==
  ASSUME Inv, PresetChanged
  PROVE  Inv'
<1>1. PICK area \in 0..chooser.max, tip \in Tips :
        /\ chooser' = [chooser EXCEPT !.area = area]
        /\ book' = UpdatePresetFromControls(book, chooser', tip)
  BY DEF PresetChanged
<1>2. /\ Changes /\ armed' = TRUE /\ stray' = (running /\ ~isLoaded)
      /\ KeepsDaemon /\ KeepsRecords
      /\ SendPresetToDaemon(book'.active) \/ UNCHANGED <<geo, zeroed>>
  BY DEF PresetChanged
<1>3. Proper(book) /\ Len(book.presets) <= MaxPresets /\ chooser \in Choosers /\ GeoInv
  BY DEF Inv, DaemonInv, DaemonTypeOK, GeoInv, PaneInv, Filed
<1>4. chooser' \in Choosers /\ chooser'.area \in Nat
  BY <1>1, <1>3 DEF Choosers
<1>5. Filed(book') /\ Len(book'.presets) <= MaxPresets
  BY <1>1, <1>3, <1>4, FromControlsFacts
<1>6. book'.active \in Preset
  BY <1>5 DEF Filed, Proper, Books
<1>7. GeoInv'
  BY <1>2, <1>3, <1>6, SendFacts DEF GeoInv, Sound, Whole
<1>8. BookInv'
  BY <1>4, <1>5 DEF BookInv, Filed, Proper, IsBook
<1>9. stray' \in BOOLEAN
  BY <1>2 DEF Inv, DaemonInv, DaemonTypeOK, PaneInv
<1> QED
  BY <1>2, <1>7, <1>8, <1>9, UserStep

LEMMA MouseScalingChangedStep ==
  ASSUME Inv, MouseScalingChanged
  PROVE  Inv'
<1>1. PICK s \in Scalings : book' = SynchronizePresetInArray([book EXCEPT !.active.scaling = s])
  BY DEF MouseScalingChanged
<1>2. /\ Changes /\ armed' = TRUE /\ UNCHANGED <<chooser, stray>> /\ KeepsDaemon /\ KeepsRecords
      /\ SendMouseModeToDaemon(book'.active)
  BY DEF MouseScalingChanged
<1>3. /\ book \in Books /\ book.active \in Preset /\ chooser \in Choosers
      /\ stray \in BOOLEAN /\ GeoInv
  BY DEF Inv, DaemonInv, DaemonTypeOK, GeoInv, PaneInv, Filed, Proper, Books
<1> DEFINE p == [book.active EXCEPT !.scaling = s]
<1>4. p \in Preset
  BY <1>3 DEF Preset
<1>5. [book EXCEPT !.active.scaling = s] = [book EXCEPT !.active = p]
  BY <1>3 DEF Books, Preset
<1> HIDE DEF p
<1>6. Filed(book') /\ Len(book'.presets) <= MaxPresets /\ book'.active = p
  BY <1>1, <1>4, <1>5, EditedFacts
<1>7. GeoInv'
  BY <1>2, <1>3, <1>4, <1>6, SendFacts DEF GeoInv
<1>8. BookInv'
  BY <1>2, <1>3, <1>6 DEF BookInv, Filed, Proper, IsBook
<1> QED
  BY <1>2, <1>3, <1>7, <1>8, UserStep

LEMMA ScaleChangedStep ==
  ASSUME Inv, ScaleChanged
  PROVE  Inv'
<1>1. PICK h \in UserScales : SetScale(h) /\ chooser' = UpdateMaxWidth(chooser, h)
  BY DEF ScaleChanged
<1>2. /\ Changes /\ stray' \in BOOLEAN /\ UNCHANGED <<book, armed>> /\ KeepsDaemon /\ KeepsRecords
  BY DEF ScaleChanged, Inv, PaneInv
<1>3. h \in Nat
  BY PresetsAssumption
<1>4. BookInv /\ armed \in BOOLEAN /\ GeoInv
  BY DEF Inv, DaemonInv, DaemonTypeOK, GeoInv, PaneInv, BookInv
<1>5. GeoInv' /\ chooser' \in Choosers
  BY <1>1, <1>3, <1>4, SetScaleFacts, ChooserFacts DEF BookInv, GeoInv
<1>6. BookInv'
  BY <1>2, <1>4, <1>5 DEF BookInv, Filed, Proper, IsBook
<1> QED
  BY <1>2, <1>4, <1>5, <1>6, UserStep

LEMMA ToggleAutoStartStep ==
  ASSUME Inv, ToggleAutoStart
  PROVE  Inv'
<1>1. /\ Changes /\ autoStart' \in BOOLEAN
      /\ UNCHANGED <<daemonVars, pane, isLoaded, book, chooser, armed, saved, stray, orderly>>
  BY DEF ToggleAutoStart
<1>2. changes' \in 0..MaxChanges
  BY <1>1, ChangesFacts
<1> DEFINE args == StartupArgs(book.active)
<1>3. startup' = startup \/ startup' = << >> \/ startup' = <<args>>
  BY DEF ToggleAutoStart, InstallsJob, LaunchHelperFails
<1>4. args \in Args
  <2>1. book.active \in Preset
    BY DEF Inv, PaneInv, Filed, Proper, Books
  <2> QED
    BY <2>1 DEF StartupArgs, Args, Preset
<1> HIDE DEF args
<1>5. startup' \in Seq(Args) /\ Len(startup') <= 1
  <2>1. startup \in Seq(Args) /\ Len(startup) <= 1
    BY DEF Inv, PaneInv
  <2>2. << >> \in Seq(Args) /\ Len(<< >>) <= 1
    OBVIOUS
  <2>3. <<args>> \in Seq(Args) /\ Len(<<args>>) <= 1
    BY <1>4
  <2> QED
    BY <1>3, <2>1, <2>2, <2>3
<1>6. DaemonInv'
  BY <1>1 DEF Inv, DaemonInv, DaemonTypeOK, Sound, Whole, daemonVars
<1>7. PaneInv'
  BY <1>1, <1>2, <1>5 DEF Inv, PaneInv, SavedOK, IsBook, Filed, Proper
<1> QED
  BY <1>6, <1>7 DEF Inv

LEMMA TimerFiresStep ==
  ASSUME Inv, TimerFires
  PROVE  Inv'
<1>1. /\ pane' = pane /\ armed' = FALSE /\ UpdateAutoStart
      /\ UNCHANGED <<daemonVars, isLoaded, book, chooser, autoStart, saved, stray, changes>>
  BY DEF TimerFires
<1>2. startup' \in Seq(Args) /\ Len(startup') <= 1 /\ orderly' \in BOOLEAN
  BY <1>1, AutoStartFacts DEF Inv, PaneInv
<1>3. DaemonInv'
  BY <1>1 DEF Inv, DaemonInv, DaemonTypeOK, Sound, Whole, daemonVars
<1>4. PaneInv'
  BY <1>1, <1>2 DEF Inv, PaneInv, SavedOK, IsBook, Filed, Proper
<1> QED
  BY <1>3, <1>4 DEF Inv

\* The pane's variables are left alone by what the daemon does of itself.
LEMMA DaemonStep ==
  ASSUME Inv, UNCHANGED paneVars, DaemonInv'
  PROVE  Inv'
  BY DEF Inv, PaneInv, SavedOK, IsBook, Filed, Proper, paneVars

LEMMA StartDaemonStep ==
  ASSUME Inv, StartDaemon \/ StartedOutside
  PROVE  Inv'
<1>1. DaemonInv /\ book.active \in Preset /\ startup \in Seq(Args)
  BY DEF Inv, PaneInv, Filed, Proper, Books
<1>2. CASE StartDaemon
  <2>1. StartupArgs(book.active) \in Args
    BY <1>1 DEF StartupArgs, Args, Preset
  <2>2. DaemonInv'
    BY <1>1, <1>2, <2>1, LaunchFacts DEF StartDaemon
  <2>3. PaneInv'
    BY <1>2 DEF StartDaemon, Inv, PaneInv, SavedOK, IsBook, Filed, Proper
  <2> QED
    BY <2>2, <2>3 DEF Inv
<1>3. CASE StartedOutside
  <2>1. startup # << >> => startup[1] \in Args
    BY <1>1
  <2>2. NoArgs \in Args
    BY GeometryAssumption DEF NoArgs, Args, Unset
  <2>3. DaemonInv'
    BY <1>1, <1>3, <2>1, <2>2, LaunchFacts DEF StartedOutside
  <2> QED
    BY <1>3, <2>3, DaemonStep DEF StartedOutside
<1> QED
  BY <1>2, <1>3

LEMMA DaemonAloneStep ==
  ASSUME Inv, DaemonAlone
  PROVE  Inv'
<1>1. UNCHANGED paneVars /\ DaemonInv
  BY DEF DaemonAlone, Inv
<1>2. CASE Reinit
  BY <1>1, <1>2, ReinitFacts, DaemonStep
<1>3. CASE Quit
  BY <1>1, <1>3, QuitFacts, DaemonStep
<1>4. CASE SetStream
  <2>1. DaemonInv'
    BY <1>1, <1>4 DEF SetStream, DaemonInv, DaemonTypeOK, Sound, Whole
  <2> QED
    BY <1>1, <2>1, DaemonStep
<1> QED
  BY <1>2, <1>3, <1>4 DEF DaemonAlone

LEMMA NextInv == Inv /\ [Next]_vars => Inv'
<1> SUFFICES ASSUME Inv, [Next]_vars PROVE Inv'
  OBVIOUS
<1>1. CASE Load \/ Show \/ Hide \/ PaneEnds \/ Poll \/ IsDaemonLoaded \/ SelectedSerialPort
  BY <1>1, LoadStep, ShowStep, HideStep, PaneEndsStep, PollStep, LooksStep
<1>2. CASE SelectedPreset \/ DoDeletePreset \/ DoAddPreset \/ DoRenamePreset
  BY <1>2, ActivatesFiled, ActivatedStep, DoAddPresetStep, DoRenamePresetStep
<1>3. CASE PresetChanged \/ MouseScalingChanged \/ ScaleChanged
  BY <1>3, PresetChangedStep, MouseScalingChangedStep, ScaleChangedStep
<1>4. CASE ToggleAutoStart \/ TimerFires
  BY <1>4, ToggleAutoStartStep, TimerFiresStep
<1>5. CASE StartDaemon \/ StartedOutside \/ DaemonAlone
  BY <1>5, StartDaemonStep, DaemonAloneStep
<1>6. CASE UNCHANGED vars
  <2>1. UNCHANGED paneVars /\ UNCHANGED daemonVars
    BY <1>6 DEF vars
  <2>2. DaemonInv'
    BY <2>1 DEF Inv, DaemonInv, DaemonTypeOK, Sound, Whole, daemonVars
  <2> QED
    BY <2>1, <2>2, DaemonStep
<1> QED
  BY <1>1, <1>2, <1>3, <1>4, <1>5, <1>6 DEF Next

\* Whatever the pane, the daemon and the launch helper do, their variables keep
\* their types; above all, the selected index stays in the list of presets, in
\* the pane and in the preferences.
THEOREM TypeCorrect == Spec => []TypeOK
<1>1. Inv => TypeOK
  <2> SUFFICES ASSUME Inv PROVE TypeOK
    OBVIOUS
  <2>1. DaemonTypeOK
    BY DEF Inv, DaemonInv
  <2>2. book \in Books /\ IsBook(book) /\ Len(book.presets) <= MaxPresets
    BY DEF Inv, PaneInv, Filed, Proper
  <2>3. chooser \in Choosers /\ SavedOK
    BY DEF Inv, PaneInv
  <2> QED
    BY <2>1, <2>2, <2>3 DEF TypeOK, Inv, PaneInv, Books, Choosers, SavedOK
<1>2. Init => Inv
  BY InitInv
<1>3. Inv /\ [Next]_vars => Inv'
  BY NextInv
<1> QED
  BY <1>1, <1>2, <1>3, PTL DEF Spec

\* After every handler of the pane the selected entry of the list is the preset
\* that the handlers work on, so that saving the list loses no change.
THEOREM ActiveIsStoredHolds == Spec => []ActiveIsStored
<1>1. Inv => ActiveIsStored
  BY DEF Inv, PaneInv, Filed, ActiveIsStored
<1>2. Init => Inv
  BY InitInv
<1>3. Inv /\ [Next]_vars => Inv'
  BY NextInv
<1> QED
  BY <1>1, <1>2, <1>3, PTL DEF Spec

\* No order of scans, geometry and scale messages leaves PostChangeEvents an area
\* to divide by that is not a positive number, but a scale of 0; and the first area
\* that is sent after it, under another scale, makes that good.
THEOREM AreaUsableHolds == Spec => []AreaUsable
<1>1. Inv => AreaUsable
  BY DEF Inv, DaemonInv, Sound, Whole, AreaUsable
<1>2. Init => Inv
  BY InitInv
<1>3. Inv /\ [Next]_vars => Inv'
  BY NextInv
<1> QED
  BY <1>1, <1>2, <1>3, PTL DEF Spec

(***************************************************************************)
(* Three agreements between the places where a geometry is kept.  Each     *)
(* rests on Inv and on a clause of its own, which the next lemmas carry    *)
(* from step to step.                                                      *)
(***************************************************************************)
\* Between a flush, a change that was not sent and a scale entered by hand, a pane
\* with an empty queue has the daemon's area and button; and a queue that is not
\* empty ends with a [ready], upon which the pane asks for them.
Agrees == book.active.area \in {Unset, geo.area} /\ book.active.tip = geo.tip

Known ==
  /\ pane # "out" /\ running /\ ~stray /\ due = << >> => Agrees
  /\ due # << >> => due[Len(due)] = Ready

\* What UpdateMaxWidth needs from one change of scale to the next.
Shows(c, p) == p.area <= p.range /\ c.area # NaN => c.area * p.range = p.area * c.max

Shown == pane # "out" => Shows(chooser, book.active)

\* From paneWillUnselect until the pane is next selected nothing but the end of
\* System Preferences comes between the job and the preferences.
Login == pane # "shown" /\ orderly /\ startup # << >> =>
           startup[1] = StartupArgs(saved.presets[saved.index])

(***************************************************************************)
(* The login job.                                                          *)
(***************************************************************************)
LEMMA LoginStep ==
  ASSUME Inv, Login, [Next]_vars
  PROVE  Login'
<1> USE DEF Login
<1>1. ASSUME UNCHANGED <<orderly, startup, saved>>, pane' # "shown" => pane # "shown"
      PROVE  Login'
  BY <1>1 DEF StartupArgs
<1>2. CASE Load \/ Show
  BY <1>1, <1>2 DEF Load, Show
<1>3. CASE Hide
  <2>1. Filed(book)
    BY DEF Inv, PaneInv
  <2>2. /\ saved'.presets[saved'.index] = book.active
        /\ UNCHANGED book /\ pane' = "loaded" /\ UpdateAutoStart
    BY <1>3, <2>1 DEF Hide, SavePreferences, Filed
  <2>3. orderly' /\ startup' # << >> => startup'[1] = StartupArgs(book.active)
    BY <2>2 DEF UpdateAutoStart, InstallsJob
  <2> QED
    BY <2>2, <2>3 DEF StartupArgs
<1>4. CASE PaneEnds
  <2>1. /\ UNCHANGED <<startup, saved>>
        /\ orderly' = (orderly /\ pane = "loaded")
    BY <1>4 DEF PaneEnds
  <2>2. orderly' => orderly /\ pane # "shown"
    BY <2>1
  <2> QED
    BY <2>1, <2>2 DEF StartupArgs
<1>5. CASE Poll \/ IsDaemonLoaded \/ SelectedSerialPort
  BY <1>1, <1>5 DEF Poll, IsDaemonLoaded, SelectedSerialPort
<1>6. CASE SelectedPreset \/ DoDeletePreset \/ DoAddPreset \/ DoRenamePreset
  BY <1>1, <1>6 DEF SelectedPreset, DoDeletePreset, DoAddPreset, DoRenamePreset,
                    Activated, KeepsRecords
<1>7. CASE PresetChanged \/ MouseScalingChanged \/ ScaleChanged
  BY <1>1, <1>7 DEF PresetChanged, MouseScalingChanged, ScaleChanged, KeepsRecords
<1>8. CASE ToggleAutoStart \/ TimerFires
  BY <1>8 DEF ToggleAutoStart, TimerFires, Changes
<1>9. CASE StartDaemon \/ StartedOutside \/ DaemonAlone
  BY <1>1, <1>9 DEF StartDaemon, StartedOutside, DaemonAlone, paneVars
<1>10. CASE UNCHANGED vars
  BY <1>1, <1>10 DEF vars, paneVars
<1> QED
  BY <1>2, <1>3, <1>4, <1>5, <1>6, <1>7, <1>8, <1>9, <1>10 DEF Next

\* The arguments of the job at login are those of the preset that the pane will
\* select, whatever the order in which presets were changed, timers fired, the
\* checkbox was toggled and the pane came and went: unless its helper failed or
\* System Preferences ended without paneWillUnselect.
THEOREM LoginMatchesSavedHolds == Spec => []LoginMatchesSaved
<1>1. Login => LoginMatchesSaved
  BY DEF Login, LoginMatchesSaved
<1>2. Init => Inv /\ Login
  BY InitInv DEF Init, Login
<1>3. Inv /\ Login /\ [Next]_vars => Inv' /\ Login'
  BY NextInv, LoginStep
<1> QED
  BY <1>1, <1>2, <1>3, PTL DEF Spec

(***************************************************************************)
(* What the pane knows of the daemon.                                      *)
(***************************************************************************)
\* Each initialisation queues a [ready] last.
LEMMA InitializeLast ==
  ASSUME due \in Seq(Nat), NEW g, Initialize(g)
  PROVE  due' # << >> /\ due'[Len(due')] = Ready
<1>1. PICK junk \in IF tablet.hackintosh THEN Junk ELSE {0} :
        LET probed  == IF tablet.hackintosh THEN ProcessTabletPCCommandReply(g, junk) ELSE g
            imposed == Imposed(probed)
            learned == Learned(imposed)
            tells   == tablet.series \in {"UD", "Intuos"} /\ imposed.scale # learned.scale
        IN  due' = due \o (IF tells THEN <<learned.scale>> ELSE << >>) \o <<Ready>>
  BY DEF Initialize
<1> DEFINE probed == IF tablet.hackintosh THEN ProcessTabletPCCommandReply(g, junk) ELSE g
           imposed == Imposed(probed)
           learned == Learned(imposed)
           tells == tablet.series \in {"UD", "Intuos"} /\ imposed.scale # learned.scale
           scale == learned.scale
           told == IF tells THEN <<scale>> ELSE << >>
           front == due \o told
           S == Nat \union {scale}
<1>2. due' = front \o <<Ready>>
  BY <1>1
<1> HIDE DEF scale, tells
<1>3. << >> \in Seq(S) /\ <<scale>> \in Seq(S) /\ <<Ready>> \in Seq(S) /\ due \in Seq(S)
  BY DEF Ready
<1>4. told \in Seq(S)
  BY <1>3
<1> HIDE DEF told, S
<1>5. front \in Seq(S)
  BY <1>3, <1>4
<1> HIDE DEF front
<1>6. /\ Len(front \o <<Ready>>) = Len(front) + 1
      /\ (front \o <<Ready>>)[Len(front) + 1] = Ready
      /\ Len(front) \in Nat
  BY <1>3, <1>5
<1> QED
  BY <1>2, <1>6

\* A preset that is sent to a daemon is what the daemon then has.
LEMMA SendAgrees ==
  ASSUME geo \in Geo, NEW p \in Preset, running, SendPresetToDaemon(p)
  PROVE  p.area \in {Unset, geo'.area} /\ geo'.tip = p.tip
<1>1. geo' = [InitTabletBounds(geo, p.area) EXCEPT !.tip = p.tip]
  BY DEF SendPresetToDaemon, SetGeometry
<1>2. CASE p.area = Unset
  BY <1>1, <1>2 DEF InitTabletBounds, Geo
<1>3. CASE p.area # Unset
  <2>1. geo' = [[geo EXCEPT !.area = p.area] EXCEPT !.tip = p.tip]
    BY <1>1, <1>3 DEF InitTabletBounds
  <2> QED
    BY <2>1 DEF Geo
<1> QED
  BY <1>2, <1>3

\* A pane that asks for the geometry and can read it has it, or has sent its own.
LEMMA LearnAgrees ==
  ASSUME geo \in Geo, running, NEW b, Filed(b), NEW c \in Choosers, LearnGeometry(b, c)
  PROVE  Agrees' \/ stray'
<1> SUFFICES ASSUME Readable(geo) PROVE Agrees'
  BY DEF LearnGeometry
<1> DEFINE found == ActivatePresetMatching(b, geo)
           area == IF geo.area > 1 THEN geo.area ELSE found.active.area
           u == [found EXCEPT !.active.area = area, !.active.tip = geo.tip,
                              !.active.scaling = geo.scaling]
           learned == GeometryReceived(b, geo)
<1>1. geo.area \in Nat
  BY DEF Readable, Geo, Sizes, NaN, Infinity
<1>2. /\ book' = learned
      /\ IF geo.area <= 1 THEN SendPresetToDaemon(learned.active) ELSE geo' = geo
  BY DEF LearnGeometry
<1>3. Filed(learned)
  BY GeometryReceivedFacts
<1>4. learned = SynchronizePresetInArray(u)
  BY DEF GeometryReceived
<1>5. found \in Books /\ Proper(found)
  BY MatchingFacts DEF Filed, Proper
<1> HIDE DEF found, learned
<1>6. found.active \in Preset
  BY <1>5 DEF Books
<1>7. u.active.area = area /\ u.active.tip = geo.tip
  BY <1>5, <1>6 DEF Books, Preset
<1>8. learned.active = u.active
  <2>1. u \in [presets : Seq(Preset), index : Nat, active : {u.active}]
    BY <1>5 DEF Books
  <2> HIDE DEF u
  <2> QED
    BY <1>4, <2>1 DEF SynchronizePresetInArray
<1> HIDE DEF u
<1>9. CASE geo.area > 1
  BY <1>1, <1>2, <1>7, <1>8, <1>9 DEF Agrees
<1>10. CASE ~(geo.area > 1)
  <2>1. SendPresetToDaemon(learned.active) /\ learned.active \in Preset
    BY <1>1, <1>2, <1>3, <1>10 DEF Filed, Proper, Books
  <2>2. learned.active.area \in {Unset, geo'.area} /\ geo'.tip = learned.active.tip
    BY <2>1, SendAgrees
  <2> QED
    BY <1>2, <2>2 DEF Agrees
<1> QED
  BY <1>9, <1>10

\* The queue is left alone and what is known stays known, or is learned.
LEMMA KnownKept ==
  ASSUME Known, due' = due, running' = running, pane # "out",
         Agrees' \/ stray' \/ (stray' = stray /\ (Agrees => Agrees'))
  PROVE  Known'
<1>1. due # << >> => due[Len(due)] = Ready
  BY DEF Known
<1>2. due' # << >> => due'[Len(due')] = Ready
  BY <1>1
<1> QED
  BY <1>2 DEF Known

\* The queue grows by an initialisation: nothing is claimed until it is polled.
LEMMA KnownInitialize ==
  ASSUME Inv, NEW g, Initialize(g)
  PROVE  Known'
<1>1. due' # << >> /\ due'[Len(due')] = Ready
  BY InitializeLast DEF Inv, DaemonInv, DaemonTypeOK
<1> QED
  BY <1>1 DEF Known

LEMMA KnownPoll ==
  ASSUME Inv, Known, Poll
  PROVE  Known'
<1>1. /\ pane = "shown" /\ running /\ due # << >> /\ due' = Tail(due)
      /\ IF Head(due) = Ready THEN LearnGeometry(book, chooser)
         ELSE UNCHANGED <<geo, zeroed, book, stray>>
      /\ UNCHANGED <<pane, running>>
  BY DEF Poll
<1>2. due \in Seq(Nat) /\ geo \in Geo /\ Filed(book) /\ chooser \in Choosers
  BY DEF Inv, DaemonInv, DaemonTypeOK, PaneInv
<1>3. due[Len(due)] = Ready
  BY <1>1 DEF Known
<1>4. due' # << >> => due'[Len(due')] = Ready
  <2> SUFFICES ASSUME Tail(due) # << >> PROVE Tail(due)[Len(Tail(due))] = Ready
    BY <1>1
  <2>1. Len(Tail(due)) = Len(due) - 1 /\ Len(due) - 1 \in 1 .. Len(Tail(due))
    BY <1>1, <1>2
  <2>2. Tail(due)[Len(due) - 1] = due[Len(due)]
    BY <1>1, <1>2, <2>1
  <2> QED
    BY <1>3, <2>1, <2>2
<1>5. CASE Head(due) = Ready
  <2>1. Agrees' \/ stray'
    BY <1>1, <1>2, <1>5, LearnAgrees
  <2> QED
    BY <1>4, <2>1 DEF Known
<1>6. CASE Head(due) # Ready
  <2>1. due' # << >>
    <3>1. Len(due) # 1
      BY <1>2, <1>3, <1>6
    <3> DEFINE rest == Tail(due)
    <3>2. rest \in Seq(Nat) /\ Len(rest) # 0
      BY <1>1, <1>2, <3>1
    <3> HIDE DEF rest
    <3>3. rest # << >>
      BY <3>2
    <3> QED
      BY <1>1, <3>3 DEF rest
  <2> QED
    BY <1>4, <2>1 DEF Known
<1> QED
  BY <1>5, <1>6

LEMMA KnownActivated ==
  ASSUME Inv, Known, Changes, NEW b, Filed(b), Activated(b)
  PROVE  Known'
<1>1. book' = b /\ SendPresetToDaemon(b.active) /\ KeepsDaemon /\ stray' = FALSE
  BY DEF Activated
<1>2. b.active \in Preset /\ geo \in Geo
  BY DEF Filed, Proper, Books, Inv, DaemonInv, DaemonTypeOK
<1>3. running => Agrees'
  BY <1>1, <1>2, SendAgrees DEF Agrees
<1>4. due # << >> => due[Len(due)] = Ready
  BY DEF Known
<1>5. due' = due /\ running' = running
  BY <1>1 DEF KeepsDaemon
<1> QED
  BY <1>3, <1>4, <1>5 DEF Known

LEMMA KnownUser ==
  ASSUME Inv, Known,
         \/ DoAddPreset \/ DoRenamePreset \/ PresetChanged
         \/ MouseScalingChanged \/ ScaleChanged
  PROVE  Known'
<1>1. pane # "out" /\ due' = due /\ running' = running
  BY DEF DoAddPreset, DoRenamePreset, PresetChanged, MouseScalingChanged, ScaleChanged,
         Changes, KeepsDaemon
<1>2. /\ Proper(book) /\ book \in Books /\ book.active \in Preset
      /\ geo \in Geo /\ chooser \in Choosers /\ stray \in BOOLEAN
  BY DEF Inv, DaemonInv, DaemonTypeOK, PaneInv, Filed, Proper, Books
<1>3. CASE DoAddPreset
  <2>1. PICK n \in Names : book' = AddPresetNamed(book, n)
    BY <1>3 DEF DoAddPreset
  <2>2. book'.active = [book.active EXCEPT !.name = n]
    BY <2>1 DEF AddPresetNamed
  <2>3. stray' = stray /\ geo' = geo /\ (Agrees => Agrees')
    BY <1>2, <1>3, <2>2 DEF DoAddPreset, Agrees, Preset
  <2> QED
    BY <1>1, <2>3, KnownKept
<1>4. CASE DoRenamePreset
  <2>1. PICK n \in Names : book' = SynchronizePresetInArray([book EXCEPT !.active.name = n])
    BY <1>4 DEF DoRenamePreset
  <2> DEFINE p == [book.active EXCEPT !.name = n]
  <2>2. p \in Preset /\ p.area = book.active.area /\ p.tip = book.active.tip
    BY <1>2 DEF Preset
  <2>3. [book EXCEPT !.active.name = n] = [book EXCEPT !.active = p]
    BY <1>2 DEF Books, Preset
  <2> HIDE DEF p
  <2>4. book'.active = p
    BY <2>1, <2>2, <2>3, EditedFacts
  <2>5. stray' = stray /\ geo' = geo /\ (Agrees => Agrees')
    BY <1>4, <2>2, <2>4 DEF DoRenamePreset, Agrees
  <2> QED
    BY <1>1, <2>5, KnownKept
<1>5. CASE PresetChanged
  <2>1. PICK area \in 0..chooser.max, tip \in Tips :
          /\ chooser' = [chooser EXCEPT !.area = area]
          /\ book' = UpdatePresetFromControls(book, chooser', tip)
    BY <1>5 DEF PresetChanged
  <2>2. chooser' \in Choosers /\ chooser'.area \in Nat
    BY <1>2, <2>1 DEF Choosers
  <2>3. book'.active \in Preset
    BY <1>2, <2>1, <2>2, FromControlsFacts DEF Filed, Proper, Books
  <2>4. running => Agrees' \/ stray'
    <3>1. CASE isLoaded
      BY <1>2, <1>5, <2>3, <3>1, SendAgrees DEF PresetChanged, Agrees
    <3>2. CASE ~isLoaded
      BY <1>5, <3>2 DEF PresetChanged
    <3> QED
      BY <3>1, <3>2
  <2>5. due # << >> => due[Len(due)] = Ready
    BY DEF Known
  <2> QED
    BY <1>1, <2>4, <2>5 DEF Known
<1>6. CASE MouseScalingChanged
  <2>1. PICK s \in Scalings : book' = SynchronizePresetInArray([book EXCEPT !.active.scaling = s])
    BY <1>6 DEF MouseScalingChanged
  <2> DEFINE p == [book.active EXCEPT !.scaling = s]
  <2>2. p \in Preset /\ p.area = book.active.area /\ p.tip = book.active.tip
    BY <1>2 DEF Preset
  <2>3. [book EXCEPT !.active.scaling = s] = [book EXCEPT !.active = p]
    BY <1>2 DEF Books, Preset
  <2> HIDE DEF p
  <2>4. book'.active = p
    BY <2>1, <2>2, <2>3, EditedFacts
  <2>5. geo'.area = geo.area /\ geo'.tip = geo.tip
    BY <1>2, <1>6 DEF MouseScalingChanged, SendMouseModeToDaemon, SetMouseScaling, Geo
  <2>6. stray' = stray /\ (Agrees => Agrees')
    BY <1>6, <2>2, <2>4, <2>5 DEF MouseScalingChanged, Agrees
  <2> QED
    BY <1>1, <2>6, KnownKept
<1>7. CASE ScaleChanged
  <2>1. stray' = (stray \/ (geo' # geo)) /\ book' = book
    BY <1>7 DEF ScaleChanged
  <2>2. stray' \/ (stray' = stray /\ (Agrees => Agrees'))
    <3>1. CASE geo' = geo
      <4>1. stray' = stray
        BY <2>1, <3>1 DEF Inv, PaneInv
      <4> QED
        BY <2>1, <3>1, <4>1 DEF Agrees
    <3>2. CASE geo' # geo
      BY <2>1, <3>2
    <3> QED
      BY <3>1, <3>2
  <2> QED
    BY <1>1, <2>2, KnownKept
<1> QED
  BY <1>3, <1>4, <1>5, <1>6, <1>7

LEMMA KnownStep ==
  ASSUME Inv, Known, [Next]_vars
  PROVE  Known'
<1>1. geo \in Geo /\ due \in Seq(Nat) /\ (due # << >> => due[Len(due)] = Ready)
  BY DEF Inv, DaemonInv, DaemonTypeOK, Known
<1>2. CASE Load
  <2>1. due' = due /\ running' = running
    BY <1>2 DEF Load
  <2>2. ASSUME running PROVE Agrees' \/ stray'
    <3> DEFINE loaded == LoadPresets
               shown == SetFromPreset(NoChooser, loaded.active)
    <3>1. Filed(loaded)
      BY LoadFacts DEF Inv, PaneInv
    <3>2. LearnGeometry(loaded, shown)
      BY <1>2, <2>2 DEF Load
    <3> HIDE DEF loaded
    <3>3. shown \in Choosers
      BY <3>1, DefaultFacts, ChooserFacts DEF Filed, Proper, Books
    <3> HIDE DEF shown
    <3> QED
      BY <1>1, <2>2, <3>1, <3>2, <3>3, LearnAgrees
  <2> QED
    BY <1>1, <2>1, <2>2 DEF Known
<1>3. CASE Show \/ Hide
  <2>1. /\ pane # "out" /\ running' = running /\ UNCHANGED <<geo, book>>
        /\ \/ UNCHANGED <<due, stray>>
           \/ due' = << >> /\ stray' = (stray \/ due # << >>)
    BY <1>3 DEF Show, Hide
  <2>2. due' = << >> /\ ~stray' => ~stray /\ due = << >>
    BY <2>1
  <2>3. Agrees => Agrees'
    BY <2>1 DEF Agrees
  <2>4. due' # << >> => due'[Len(due')] = Ready
    BY <1>1, <2>1
  <2> QED
    BY <2>1, <2>2, <2>3, <2>4 DEF Known
<1>4. CASE PaneEnds
  BY <1>1, <1>4 DEF PaneEnds, Known, daemonVars
<1>5. CASE Poll
  BY <1>5, KnownPoll
<1>6. CASE SelectedPreset \/ DoDeletePreset
  BY <1>6, ActivatesFiled, KnownActivated
<1>7. CASE DoAddPreset \/ DoRenamePreset \/ PresetChanged \/ MouseScalingChanged \/ ScaleChanged
  BY <1>7, KnownUser
<1>8. ASSUME UNCHANGED <<pane, running, due, stray, book, geo>> PROVE Known'
  BY <1>1, <1>8 DEF Known, Agrees
<1>9. CASE ToggleAutoStart \/ TimerFires \/ IsDaemonLoaded
  BY <1>8, <1>9 DEF ToggleAutoStart, TimerFires, IsDaemonLoaded, daemonVars
<1>10. CASE StartDaemon \/ StartedOutside \/ SelectedSerialPort
  <2>1. ASSUME NEW args, Launch(args) PROVE Known'
    BY <2>1, KnownInitialize DEF Launch
  <2>2. Reinit => Known'
    BY KnownInitialize DEF Reinit
  <2> QED
    BY <1>10, <2>1, <2>2 DEF StartDaemon, StartedOutside, SelectedSerialPort
<1>11. CASE DaemonAlone
  <2>1. CASE Reinit
    BY <2>1, KnownInitialize DEF Reinit
  <2>2. CASE Quit
    BY <2>2 DEF Quit, Known
  <2>3. CASE SetStream /\ UNCHANGED paneVars
    BY <1>8, <2>3 DEF SetStream, paneVars
  <2> QED
    BY <1>11, <2>1, <2>2, <2>3 DEF DaemonAlone
<1>12. CASE UNCHANGED vars
  BY <1>8, <1>12 DEF vars, daemonVars, paneVars
<1> QED
  BY <1>2, <1>3, <1>4, <1>5, <1>6, <1>7, <1>9, <1>10, <1>11, <1>12 DEF Next

\* Scans, restarts, changes of presets and messages in any order: a pane that is in
\* view and has taken all its messages has the area and the tip's button of its
\* daemon, but for a scale entered by hand, an area that cannot be read, messages
\* that a flush has lost, and a change that the pane did not send because it took
\* the daemon for not running.
THEOREM PaneKnowsDaemonHolds == Spec => []PaneKnowsDaemon
<1>1. Known => PaneKnowsDaemon
  BY DEF Known, Agrees, PaneKnowsDaemon
<1>2. Init => Inv /\ Known
  BY InitInv DEF Init, DaemonInit, Known
<1>3. Inv /\ Known /\ [Next]_vars => Inv' /\ Known'
  BY NextInv, KnownStep
<1> QED
  BY <1>1, <1>2, <1>3, PTL DEF Spec

(***************************************************************************)
(* What the chooser shows.                                                 *)
(***************************************************************************)
LEMMA DivideExactly ==
  ASSUME NEW a \in Nat, NEW m \in Nat \ {0}, a % m = 0
  PROVE  a \div m \in Nat /\ (a \div m) * m = a
  OBVIOUS

LEMMA Cancel ==
  ASSUME NEW a \in Nat, NEW b \in Nat, NEW m \in Nat \ {0}
  PROVE  /\ a * m = b * m => a = b
         /\ a * m <= b * m => a <= b
  OBVIOUS

LEMMA Grows ==
  ASSUME NEW a \in Nat, NEW b \in Nat, NEW m \in Nat, a <= b
  PROVE  a * m <= b * m
  OBVIOUS

\* A preset that is set shows its share of the control, or nothing.
LEMMA SetShows ==
  ASSUME NEW c \in Choosers, NEW p \in Preset, ShowsWhole(c, p)
  PROVE  Shows(SetFromPreset(c, p), p)
<1> DEFINE area == (p.area * c.max) \div p.range
<1>1. p.area \in Nat /\ p.range \in Nat /\ c.max \in Nat
  BY DEF Preset, Choosers
<1>2. /\ SetFromPreset(c, p).max = c.max
      /\ SetFromPreset(c, p).area = SanityCheckArea(Scaled(p.area, p.range, c.max), c.max)
  BY DEF SetFromPreset, Choosers
<1>3. CASE p.range = 0
  BY <1>1, <1>2, <1>3 DEF Shows, Scaled, SanityCheckArea, NaN
<1>4. CASE p.range # 0
  <2>1. p.range \in Nat \ {0} /\ p.area # NaN
    BY <1>1, <1>4 DEF NaN
  <2>2. (p.area * c.max) % p.range = 0
    BY <1>1, <1>4 DEF ShowsWhole, Exact
  <2>3. p.area * c.max \in Nat
    BY <1>1
  <2>4. area \in Nat /\ area * p.range = p.area * c.max
    BY <2>1, <2>2, <2>3, DivideExactly
  <2>5. SetFromPreset(c, p).area = SanityCheckArea(area, c.max)
    BY <1>2, <1>4, <2>1 DEF Scaled
  <2> HIDE DEF area
  <2>6. ASSUME p.area <= p.range PROVE SanityCheckArea(area, c.max) = area
    <3>1. p.area * c.max <= p.range * c.max
      BY <1>1, <2>6, Grows
    <3>2. area * p.range <= c.max * p.range
      BY <1>1, <2>1, <2>4, <3>1
    <3>3. area <= c.max
      BY <1>1, <2>1, <2>4, <3>2, Cancel
    <3> QED
      BY <1>1, <2>4, <3>3 DEF SanityCheckArea
  <2> QED
    BY <1>1, <1>2, <2>4, <2>5, <2>6 DEF Shows
<1> QED
  BY <1>3, <1>4

\* It keeps the share when the control gets another range.
LEMMA UpdateShows ==
  ASSUME NEW c \in Choosers, NEW p \in Preset, NEW w \in Nat,
         Exact(c.area, c.max, w), Shows(c, p)
  PROVE  Shows(UpdateMaxWidth(c, w), p)
<1> DEFINE a == c.area
           m == c.max
           r == p.range
           s == p.area
           q == (a * w) \div m
<1>1. a \in Nat \union {NaN} /\ m \in Nat /\ s \in Nat /\ r \in Nat
  BY DEF Preset, Choosers
<1>2. /\ UpdateMaxWidth(c, w).max = w
      /\ UpdateMaxWidth(c, w).area = SanityCheckArea(Scaled(a, m, w), w)
  BY DEF UpdateMaxWidth
<1>3. CASE a = NaN \/ m = 0
  BY <1>2, <1>3 DEF Shows, Scaled, SanityCheckArea, NaN
<1>4. CASE r = 0
  <2> SUFFICES ASSUME s <= r
               PROVE  UpdateMaxWidth(c, w).area * r = s * UpdateMaxWidth(c, w).max
    BY DEF Shows
  <2>1. UpdateMaxWidth(c, w).area \in Nat \union {NaN}
    BY <1>1, <1>2, ScaledFacts
  <2>2. s = 0
    BY <1>1, <1>4
  <2> QED
    BY <1>2, <1>4, <2>1, <2>2 DEF NaN
<1>5. CASE a # NaN /\ m # 0 /\ r # 0
  <2> SUFFICES ASSUME s <= r
               PROVE  UpdateMaxWidth(c, w).area * r = s * UpdateMaxWidth(c, w).max
    BY DEF Shows
  <2>1. a \in Nat /\ m \in Nat \ {0} /\ r \in Nat \ {0}
    BY <1>1, <1>5
  <2>2. (a * w) % m = 0
    BY <2>1 DEF Exact
  <2>3. a * r = s * m /\ s <= r
    BY <1>5 DEF Shows
  <2>4. UpdateMaxWidth(c, w).area = SanityCheckArea(q, w)
    BY <1>2, <1>5 DEF Scaled
  <2> HIDE DEF a, m, r, s
  <2>5. a * w \in Nat
    BY <2>1
  <2>6. q \in Nat /\ q * m = a * w
    BY <2>1, <2>2, <2>5, DivideExactly
  <2> HIDE DEF q
  <2>7. a <= m
    <3>1. s * m <= r * m
      BY <1>1, <2>1, <2>3, Grows
    <3>2. a * r <= m * r
      BY <1>1, <2>1, <2>3, <3>1
    <3> QED
      BY <2>1, <3>2, Cancel
  <2>8. q <= w
    <3>1. a * w <= m * w
      BY <2>1, <2>7, Grows
    <3>2. q * m <= w * m
      BY <2>1, <2>6, <3>1
    <3> QED
      BY <2>1, <2>6, <3>2, Cancel
  <2>9. q * r = s * w
    <3>1. (q * r) * m = (a * r) * w
      BY <2>1, <2>6
    <3>2. (s * w) * m = (a * r) * w
      BY <1>1, <2>1, <2>3
    <3>3. q * r \in Nat /\ s * w \in Nat
      BY <1>1, <2>1, <2>6
    <3> QED
      BY <2>1, <3>1, <3>2, <3>3, Cancel
  <2>10. SanityCheckArea(q, w) = q
    BY <2>6, <2>8 DEF SanityCheckArea
  <2> QED
    BY <1>2, <2>4, <2>9, <2>10 DEF r, s
<1> QED
  BY <1>3, <1>4, <1>5

LEMMA LearnShows ==
  ASSUME geo \in Geo, NEW b, Filed(b), NEW c \in Choosers, Shows(c, b.active),
         LearnGeometry(b, c)
  PROVE  Shows(chooser', book'.active)
<1> DEFINE learned == GeometryReceived(b, geo)
           shown == IF Readable(geo) THEN SetFromPreset(c, learned.active) ELSE c
<1>1. geo.scale \in Nat
  BY DEF Geo
<1>2. /\ Readable(geo) => ShowsWhole(c, learned.active)
      /\ Exact(shown.area, shown.max, geo.scale)
      /\ book' = learned
      /\ chooser' = UpdateMaxWidth(shown, geo.scale)
  BY DEF LearnGeometry
<1>3. Filed(learned)
  BY GeometryReceivedFacts
<1>4. ~Readable(geo) => learned = b
  BY DEF GeometryReceived
<1> HIDE DEF learned
<1>5. learned.active \in Preset
  BY <1>3 DEF Filed, Proper, Books
<1>6. shown \in Choosers /\ Shows(shown, learned.active)
  BY <1>2, <1>4, <1>5, SetShows, ChooserFacts
<1> HIDE DEF shown
<1> QED
  BY <1>1, <1>2, <1>5, <1>6, UpdateShows

\* An area and a range that stay are shown as they were.
LEMMA ShownKept ==
  ASSUME Shown, pane # "out", chooser' = chooser,
         book'.active.area = book.active.area, book'.active.range = book.active.range
  PROVE  Shown'
  BY DEF Shown, Shows

LEMMA ShownActivated ==
  ASSUME Inv, NEW b, Filed(b), Activated(b)
  PROVE  Shown'
<1>1. /\ book' = b /\ chooser' = SetFromPreset(chooser, b.active)
      /\ ShowsWhole(chooser, b.active)
  BY DEF Activated
<1>2. b.active \in Preset /\ chooser \in Choosers
  BY DEF Filed, Proper, Books, Inv, PaneInv
<1>3. Shows(SetFromPreset(chooser, b.active), b.active)
  BY <1>1, <1>2, SetShows
<1> QED
  BY <1>1, <1>3 DEF Shown, Shows

LEMMA ShownUser ==
  ASSUME Inv, Shown,
         \/ DoAddPreset \/ DoRenamePreset \/ PresetChanged
         \/ MouseScalingChanged \/ ScaleChanged
  PROVE  Shown'
<1>1. pane # "out"
  BY DEF DoAddPreset, DoRenamePreset, PresetChanged, MouseScalingChanged, ScaleChanged, Changes
<1>2. /\ Proper(book) /\ book \in Books /\ book.active \in Preset /\ chooser \in Choosers
  BY DEF Inv, PaneInv, Filed, Proper, Books
<1>3. CASE DoAddPreset
  <2>1. PICK n \in Names : book' = AddPresetNamed(book, n)
    BY <1>3 DEF DoAddPreset
  <2>2. book'.active = [book.active EXCEPT !.name = n]
    BY <2>1 DEF AddPresetNamed
  <2>3. book'.active.area = book.active.area /\ book'.active.range = book.active.range
    BY <1>2, <2>2 DEF Preset
  <2> QED
    BY <1>1, <1>3, <2>3, ShownKept DEF DoAddPreset
<1>4. CASE DoRenamePreset
  <2>1. PICK n \in Names : book' = SynchronizePresetInArray([book EXCEPT !.active.name = n])
    BY <1>4 DEF DoRenamePreset
  <2> DEFINE p == [book.active EXCEPT !.name = n]
  <2>2. p \in Preset /\ p.area = book.active.area /\ p.range = book.active.range
    BY <1>2 DEF Preset
  <2>3. [book EXCEPT !.active.name = n] = [book EXCEPT !.active = p]
    BY <1>2 DEF Books, Preset
  <2> HIDE DEF p
  <2>4. book'.active = p
    BY <2>1, <2>2, <2>3, EditedFacts
  <2> QED
    BY <1>1, <1>4, <2>2, <2>4, ShownKept DEF DoRenamePreset
<1>5. CASE PresetChanged
  <2>1. PICK area \in 0..chooser.max, tip \in Tips :
          /\ chooser' = [chooser EXCEPT !.area = area]
          /\ book' = UpdatePresetFromControls(book, chooser', tip)
    BY <1>5 DEF PresetChanged
  <2> DEFINE c == [chooser EXCEPT !.area = area]
             u == [book EXCEPT !.active.range = c.max, !.active.area = c.area, !.active.tip = tip]
  <2>2. c \in Choosers
    BY <1>2 DEF Choosers
  <2>3. book' = SynchronizePresetInArray(u)
    BY <2>1 DEF UpdatePresetFromControls
  <2> HIDE DEF c
  <2>4. u.active.range = c.max /\ u.active.area = c.area
    BY <1>2 DEF Books, Preset
  <2>5. book'.active = u.active
    <3>1. u \in [presets : Seq(Preset), index : Nat, active : {u.active}]
      BY <1>2 DEF Books
    <3> HIDE DEF u
    <3> QED
      BY <2>3, <3>1 DEF SynchronizePresetInArray
  <2> HIDE DEF u
  <2>6. chooser' = c
    BY <2>1 DEF c
  <2> QED
    BY <2>4, <2>5, <2>6 DEF Shown, Shows
<1>6. CASE MouseScalingChanged
  <2>1. PICK s \in Scalings : book' = SynchronizePresetInArray([book EXCEPT !.active.scaling = s])
    BY <1>6 DEF MouseScalingChanged
  <2> DEFINE p == [book.active EXCEPT !.scaling = s]
  <2>2. p \in Preset /\ p.area = book.active.area /\ p.range = book.active.range
    BY <1>2 DEF Preset
  <2>3. [book EXCEPT !.active.scaling = s] = [book EXCEPT !.active = p]
    BY <1>2 DEF Books, Preset
  <2> HIDE DEF p
  <2>4. book'.active = p
    BY <2>1, <2>2, <2>3, EditedFacts
  <2> QED
    BY <1>1, <1>6, <2>2, <2>4, ShownKept DEF MouseScalingChanged
<1>7. CASE ScaleChanged
  <2>1. PICK h \in UserScales :
          Exact(chooser.area, chooser.max, h) /\ chooser' = UpdateMaxWidth(chooser, h)
    BY <1>7 DEF ScaleChanged
  <2>2. h \in Nat /\ book' = book
    BY <1>7, PresetsAssumption DEF ScaleChanged
  <2>3. Shows(UpdateMaxWidth(chooser, h), book.active)
    BY <1>1, <1>2, <2>1, <2>2, UpdateShows DEF Shown
  <2> QED
    BY <2>1, <2>2, <2>3 DEF Shown
<1> QED
  BY <1>3, <1>4, <1>5, <1>6, <1>7

LEMMA ShownStep ==
  ASSUME Inv, Shown, [Next]_vars
  PROVE  Shown'
<1>1. geo \in Geo /\ Filed(book) /\ chooser \in Choosers /\ due \in Seq(Nat)
  BY DEF Inv, DaemonInv, DaemonTypeOK, PaneInv
<1>2. CASE Load
  <2> DEFINE loaded == LoadPresets
             shown == SetFromPreset(NoChooser, loaded.active)
  <2>1. Filed(loaded)
    BY LoadFacts DEF Inv, PaneInv
  <2>2. /\ ShowsWhole(NoChooser, loaded.active)
        /\ IF running THEN LearnGeometry(loaded, shown)
           ELSE book' = loaded /\ chooser' = shown
    BY <1>2 DEF Load
  <2> HIDE DEF loaded
  <2>3. loaded.active \in Preset /\ NoChooser \in Choosers
    BY <2>1, DefaultFacts DEF Filed, Proper, Books
  <2>4. shown \in Choosers /\ Shows(shown, loaded.active)
    BY <2>2, <2>3, SetShows, ChooserFacts
  <2> HIDE DEF shown
  <2>5. CASE running
    BY <1>1, <2>1, <2>2, <2>4, <2>5, LearnShows DEF Shown
  <2>6. CASE ~running
    BY <2>2, <2>4, <2>6 DEF Shown
  <2> QED
    BY <2>5, <2>6
<1>3. ASSUME UNCHANGED <<chooser, book>>, pane' # "out" => pane # "out" PROVE Shown'
  BY <1>3 DEF Shown
<1>4. CASE Show \/ Hide \/ IsDaemonLoaded \/ SelectedSerialPort
  BY <1>3, <1>4 DEF Show, Hide, IsDaemonLoaded, SelectedSerialPort
<1>5. CASE PaneEnds
  BY <1>5 DEF PaneEnds, Shown
<1>6. CASE Poll
  <2>1. CASE Head(due) = Ready
    BY <1>1, <1>6, <2>1, LearnShows DEF Poll, Shown
  <2>2. CASE Head(due) # Ready
    <3>1. /\ Exact(chooser.area, chooser.max, Head(due))
          /\ chooser' = UpdateMaxWidth(chooser, Head(due))
          /\ book' = book /\ pane = "shown" /\ due # << >>
      BY <1>6, <2>2 DEF Poll
    <3>2. Head(due) \in Nat
      BY <1>1, <3>1
    <3>3. book.active \in Preset /\ Shows(chooser, book.active)
      BY <1>1, <3>1 DEF Filed, Proper, Books, Shown
    <3>4. Shows(UpdateMaxWidth(chooser, Head(due)), book.active)
      BY <1>1, <3>1, <3>2, <3>3, UpdateShows
    <3> QED
      BY <3>1, <3>4 DEF Shown
  <2> QED
    BY <2>1, <2>2
<1>7. CASE SelectedPreset \/ DoDeletePreset
  BY <1>7, ActivatesFiled, ShownActivated
<1>8. CASE DoAddPreset \/ DoRenamePreset \/ PresetChanged \/ MouseScalingChanged \/ ScaleChanged
  BY <1>8, ShownUser
<1>9. CASE ToggleAutoStart \/ TimerFires
  BY <1>3, <1>9 DEF ToggleAutoStart, TimerFires
<1>10. CASE StartDaemon \/ StartedOutside \/ DaemonAlone \/ UNCHANGED vars
  BY <1>3, <1>10 DEF StartDaemon, StartedOutside, DaemonAlone, vars, paneVars
<1> QED
  BY <1>2, <1>4, <1>5, <1>6, <1>7, <1>8, <1>9, <1>10 DEF Next

\* Through presets that are loaded, selected, changed and deleted, geometries
\* that are learned and scales that are told or entered, the chooser shows the
\* share of the tablet that the active preset has of its own range.
THEOREM ChooserShowsActiveHolds == Spec => []ChooserShowsActive
<1>1. Shown => ChooserShowsActive
  BY DEF Shown, Shows, ChooserShowsActive
<1>2. Init => Inv /\ Shown
  BY InitInv DEF Init, Shown
<1>3. Inv /\ Shown /\ [Next]_vars => Inv' /\ Shown'
  BY NextInv, ShownStep
<1> QED
  BY <1>1, <1>2, <1>3, PTL DEF Spec
=============================================================================
