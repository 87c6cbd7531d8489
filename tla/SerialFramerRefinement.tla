----------------------- MODULE SerialFramerRefinement -----------------------
(***************************************************************************)
(* Proofs that the framing of a line that loses nothing, with settings     *)
(* that stay, implements a first-in first-out channel, and that its phrase *)
(* is bounded: for all protocols, packet sizes and numbers of units.       *)
(*                                                                         *)
(* The bytes on the line are the unread rest of the units sent, so the     *)
(* first of them says how far the daemon has read; the invariant says what *)
(* the phrase must be at each place of each kind of unit.                  *)
(***************************************************************************)
EXTENDS SerialFramerProofs

\* No byte is lost and no settings are imported.
Reliable == ~Lossy /\ ~Resizable

(***************************************************************************)
(* The units and their bytes.                                              *)
(***************************************************************************)
BinaryKinds == {"packet", "newlinePacket", "query"}

\* Where s are the units sent, and z is the size of the binary ones.
LengthIn(s, z, n) == Len(Classes(s[n], z))
ByteIn(s, z, n, i) == [class |-> Classes(s[n], z)[i], unit |-> n, place |-> i]

\* The first k bytes of unit n.
PrefixIn(s, z, n, k) == [i \in 1..k |-> ByteIn(s, z, n, i)]

\* The binary units start with their only head.
LEMMA BinaryClasses ==
  ASSUME NEW kind \in BinaryKinds, NEW n \in Nat \ {0, 1}
  PROVE  /\ Len(Classes(kind, n)) = IF kind = "query" THEN QuerySize ELSE n
         /\ Classes(kind, n)[1] = "head"
         /\ \A i \in 2 .. Len(Classes(kind, n)) : Classes(kind, n)[i] # "head"
<1>1. ASSUME NEW class \in {"data", "cr"}, NEW m \in Nat \ {0, 1}
      PROVE  LET c == <<"head">> \o Filled(class, m - 1)
             IN  Len(c) = m /\ c[1] = "head" /\ \A i \in 2..m : c[i] # "head"
  <2> DEFINE f == Filled(class, m - 1)
  <2>1. class \in ByteClass /\ m - 1 \in Nat
    BY DEF ByteClass
  <2>2. f \in Seq(ByteClass) /\ Len(f) = m - 1
    BY <2>1, FilledType
  <2>3. \A i \in 1 .. m - 1 : f[i] # "head"
    BY DEF Filled
  <2> HIDE DEF f
  <2>4. <<"head">> \in Seq(ByteClass) /\ Len(<<"head">>) = 1 /\ <<"head">>[1] = "head"
    BY DEF ByteClass
  <2> DEFINE c == <<"head">> \o f
  <2>5. /\ Len(c) = 1 + (m - 1)
        /\ \A i \in 1 .. Len(c) : c[i] = IF i <= 1 THEN <<"head">>[i] ELSE f[i - 1]
    BY <2>2, <2>4, ConcatProperties
  <2> HIDE DEF c
  <2> QED
    BY <2>3, <2>4, <2>5 DEF c, f
<1>2. QuerySize \in Nat \ {0, 1}
  BY FramerAssumption
<1>3. CASE kind = "packet"
  BY <1>1, <1>3 DEF Classes
<1>4. CASE kind = "newlinePacket"
  BY <1>1, <1>4 DEF Classes
<1>5. CASE kind = "query"
  BY <1>1, <1>2, <1>5 DEF Classes
<1> QED
  BY <1>3, <1>4, <1>5 DEF BinaryKinds

\* The lines.
LEMMA LineClasses ==
  ASSUME NEW n
  PROVE  /\ Classes("asciiPacket", n) = <<"mark", "comma", "data", "cr", "lf">>
         /\ Classes("reply", n) = <<"tilde", "data", "comma", "cr", "lf">>
         /\ Classes("sdReply", n) = <<"tilde", "data", "data", "data", "comma", "comma", "comma">>
  BY DEF Classes

\* The settings agree with the tablet, which sends what a tablet of its kind does.
Steady ==
  /\ tabletSize = packetSize
  /\ \A n \in 1..Len(sent) : sent[n] \in UnitKinds(protocol)

Binary(n) == sent[n] \in BinaryKinds
Length(n) == LengthIn(sent, BinarySize, n)
ByteOf(n, i) == ByteIn(sent, BinarySize, n, i)
Prefix(n, k) == PrefixIn(sent, BinarySize, n, k)

\* Which tablet sends which unit, and how long it is.
LEMMA UnitFacts ==
  ASSUME TypeOK, Steady, NEW n \in 1..Len(sent)
  PROVE  /\ BinarySize \in Nat \ {0, 1} /\ QuerySize \in Nat \ {0, 1}
         /\ sent[n] \in Kinds
         /\ protocol = "TabletPC" => Binary(n) /\ BinarySize < QuerySize
         /\ protocol = "Fujitsu" => sent[n] = "packet"
         /\ sent[n] = "query" => protocol = "TabletPC" /\ Length(n) = QuerySize
         /\ sent[n] = "asciiPacket" => protocol = "IIS" /\ Length(n) = 5
         /\ sent[n] = "reply" => protocol \in {"IV", "IIS"} /\ Length(n) = 5
         /\ sent[n] = "sdReply" => protocol = "SD" /\ Length(n) = 7
         /\ sent[n] \in {"packet", "newlinePacket"} => Length(n) = BinarySize
         /\ Length(n) \in Nat \ {0, 1}
         /\ protocol # "Fujitsu" => BinarySize = packetSize
<1>1. /\ sent[n] \in UnitKinds(protocol) /\ protocol \in Protocol
      /\ tabletSize \in Sizes /\ packetSize = tabletSize
  BY FramerAssumption DEF Steady, TypeOK
<1>2. /\ BinarySize \in Nat \ {0, 1} /\ QuerySize \in Nat \ {0, 1} /\ tabletSize < QuerySize
      /\ protocol # "Fujitsu" => BinarySize = tabletSize
  BY <1>1, FramerAssumption DEF BinarySize
<1>3. /\ sent[n] \in Kinds
      /\ protocol = "TabletPC" => Binary(n)
      /\ protocol = "Fujitsu" => sent[n] = "packet"
      /\ sent[n] = "query" => protocol = "TabletPC"
      /\ sent[n] = "asciiPacket" => protocol = "IIS"
      /\ sent[n] = "reply" => protocol \in {"IV", "IIS"}
      /\ sent[n] = "sdReply" => protocol = "SD"
  BY <1>1 DEF UnitKinds, Kinds, Protocol, Binary, BinaryKinds
<1>4. /\ sent[n] = "query" => Length(n) = QuerySize
      /\ sent[n] \in {"packet", "newlinePacket"} => Length(n) = BinarySize
  BY <1>2, BinaryClasses DEF Length, LengthIn, BinaryKinds
<1>5. /\ sent[n] \in {"asciiPacket", "reply"} => Length(n) = 5
      /\ sent[n] = "sdReply" => Length(n) = 7
  BY LineClasses DEF Length, LengthIn
<1>6. Length(n) \in Nat \ {0, 1}
  BY <1>2, <1>3, <1>4, <1>5 DEF Kinds
<1> QED
  BY <1>1, <1>2, <1>3, <1>4, <1>5, <1>6

(***************************************************************************)
(* The line.                                                               *)
(***************************************************************************)
\* A byte of a unit sent, and the next byte of the stream.
SentIn(s, z, b) ==
  /\ b.unit \in 1..Len(s) /\ b.place \in 1..LengthIn(s, z, b.unit)
  /\ b = ByteIn(s, z, b.unit, b.place)

StepsIn(s, z, b, c) ==
  \/ b.place = LengthIn(s, z, b.unit) /\ c.unit = b.unit + 1 /\ c.place = 1
  \/ b.place < LengthIn(s, z, b.unit) /\ c.unit = b.unit /\ c.place = b.place + 1

\* The bytes of the stream from some place on.
LineIn(s, z, l) ==
  /\ \A i \in 1..Len(l) : SentIn(s, z, l[i])
  /\ \A i \in 1 .. Len(l) - 1 : StepsIn(s, z, l[i], l[i + 1])
  /\ l # << >> => l[Len(l)].unit = Len(s) /\ l[Len(l)].place = LengthIn(s, z, Len(s))

UnitAt(s, l) == IF l = << >> THEN Len(s) + 1 ELSE l[1].unit
PlaceAt(l) == IF l = << >> THEN 1 ELSE l[1].place

\* What is left of the line after one byte, and where that is.
LEMMA TailLine ==
  ASSUME NEW s \in Seq(Kinds), NEW z, NEW l \in Seq(Byte), l # << >>, LineIn(s, z, l)
  PROVE  /\ Tail(l) \in Seq(Byte) /\ LineIn(s, z, Tail(l)) /\ SentIn(s, z, l[1])
         /\ IF l[1].place = LengthIn(s, z, l[1].unit)
            THEN UnitAt(s, Tail(l)) = l[1].unit + 1 /\ PlaceAt(Tail(l)) = 1
            ELSE UnitAt(s, Tail(l)) = l[1].unit /\ PlaceAt(Tail(l)) = l[1].place + 1
         /\ Tail(l) # << >> <=> Len(l) > 1
         /\ Tail(l) # << >> =>
              Tail(l)[1] = l[2] /\ StepsIn(s, z, l[1], l[2]) /\ SentIn(s, z, l[2])
<1> DEFINE t == Tail(l)
<1>1. /\ t \in Seq(Byte) /\ Len(t) = Len(l) - 1 /\ Len(l) \in Nat \ {0}
      /\ \A i \in 1..Len(t) : t[i] = l[i + 1]
  BY HeadTailProperties, EmptySeq, LenProperties
<1> HIDE DEF t
<1>2. /\ t = << >> <=> Len(l) = 1
      /\ t # << >> <=> Len(l) > 1
  <2>1. t = << >> <=> Len(t) = 0
    BY <1>1, EmptySeq
  <2> QED
    BY <1>1, <2>1
<1>3. \A i \in 1..Len(t) : SentIn(s, z, t[i])
  BY <1>1 DEF LineIn
<1>4. \A i \in 1 .. Len(t) - 1 : StepsIn(s, z, t[i], t[i + 1])
  <2> TAKE i \in 1 .. Len(t) - 1
  <2>1. i + 1 \in 1 .. Len(l) - 1 /\ t[i] = l[i + 1] /\ t[i + 1] = l[(i + 1) + 1]
    BY <1>1
  <2> QED
    BY <2>1 DEF LineIn
<1>5. t # << >> => Len(t) \in Nat \ {0} /\ t[Len(t)] = l[Len(l)]
  BY <1>1, <1>2
<1>6. LineIn(s, z, t)
  BY <1>3, <1>4, <1>5 DEF LineIn
<1>7. t # << >> => t[1] = l[2] /\ StepsIn(s, z, l[1], l[2]) /\ SentIn(s, z, l[2])
  <2>1. t # << >> => 1 \in 1 .. Len(l) - 1 /\ 2 \in 1..Len(l) /\ t[1] = l[2] /\ l[1 + 1] = l[2]
    BY <1>1, <1>2
  <2> QED
    BY <2>1 DEF LineIn
<1>8. SentIn(s, z, l[1])
  BY <1>1 DEF LineIn
<1>9. IF l[1].place = LengthIn(s, z, l[1].unit)
      THEN UnitAt(s, t) = l[1].unit + 1 /\ PlaceAt(t) = 1
      ELSE UnitAt(s, t) = l[1].unit /\ PlaceAt(t) = l[1].place + 1
  <2>1. CASE t = << >>
    BY <1>2, <1>8, <2>1 DEF LineIn, UnitAt, PlaceAt
  <2>2. CASE t # << >>
    BY <1>7, <1>8, <2>2 DEF StepsIn, SentIn, UnitAt, PlaceAt
  <2> QED
    BY <2>1, <2>2
<1> QED
  BY <1>1, <1>2, <1>6, <1>7, <1>8, <1>9 DEF t

\* The bytes of unit n, all of them.
AreBytesOf(s, z, n, e) ==
  /\ Len(e) = LengthIn(s, z, n) /\ Len(e) # 0
  /\ \A i \in 1..Len(e) : e[i].unit = n /\ e[i].place = i /\ e[i] = ByteIn(s, z, n, i)

\* A unit that is sent goes to the end of the stream: what comes next stays.
LEMMA LongerLine ==
  ASSUME NEW s \in Seq(Kinds), NEW z, NEW l \in Seq(Byte), LineIn(s, z, l),
         NEW kind \in Kinds, NEW e \in Seq(Byte),
         AreBytesOf(Append(s, kind), z, Len(s) + 1, e)
  PROVE  /\ LineIn(Append(s, kind), z, l \o e)
         /\ UnitAt(Append(s, kind), l \o e) = UnitAt(s, l) /\ PlaceAt(l \o e) = PlaceAt(l)
<1>1. PICK r : r = Append(s, kind)
  OBVIOUS
<1>2. PICK m : m = Len(s) + 1
  OBVIOUS
<1>3. AreBytesOf(r, z, m, e)
  BY <1>1, <1>2
<1>4. PICK w : w = l \o e
  OBVIOUS
<1>5. /\ Len(s) \in Nat /\ m \in Nat /\ Len(r) = m /\ r[m] = kind
      /\ \A n \in 1..Len(s) : r[n] = s[n]
  BY <1>1, <1>2, AppendProperties, LenProperties
<1>6. Len(e) \in Nat \ {0}
  BY <1>3, LenProperties DEF AreBytesOf
<1>7. /\ Len(l) \in Nat /\ Len(w) = Len(l) + Len(e)
      /\ \A i \in 1..Len(w) : w[i] = IF i <= Len(l) THEN l[i] ELSE e[i - Len(l)]
  BY <1>4, ConcatProperties, LenProperties
<1>8. \A n \in 1..Len(s) : /\ LengthIn(r, z, n) = LengthIn(s, z, n)
                           /\ \A i : ByteIn(r, z, n, i) = ByteIn(s, z, n, i)
  BY <1>5 DEF LengthIn, ByteIn
<1>9. LengthIn(r, z, m) = Len(e)
  BY <1>3 DEF AreBytesOf
<1>10. \A i \in 1..Len(e) : ByteIn(r, z, m, i) = e[i]
  BY <1>3 DEF AreBytesOf
<1>11. \A i \in 1..Len(l) : w[i] = l[i] /\ SentIn(s, z, l[i])
  BY <1>6, <1>7 DEF LineIn
<1>12. \A i \in 1..Len(e) : w[Len(l) + i] = e[i]
  BY <1>6, <1>7
<1>13. \A i \in 1..Len(e) : e[i].unit = m /\ e[i].place = i
  BY <1>3 DEF AreBytesOf
<1>14. ASSUME NEW i \in 1..Len(w) PROVE SentIn(r, z, w[i])
  <2>1. CASE i \in 1..Len(l)
    <3>1. PICK b : b = l[i]
      OBVIOUS
    <3>2. w[i] = b /\ SentIn(s, z, b)
      BY <1>11, <2>1, <3>1
    <3>3. /\ b.unit \in 1..Len(s) /\ b.place \in 1..LengthIn(s, z, b.unit)
          /\ b = ByteIn(s, z, b.unit, b.place)
      BY <3>2 DEF SentIn
    <3>4. LengthIn(r, z, b.unit) = LengthIn(s, z, b.unit) /\ b = ByteIn(r, z, b.unit, b.place)
      BY <1>8, <3>3
    <3>5. b.unit \in 1..Len(r)
      BY <1>2, <1>5, <3>3
    <3> QED
      BY <3>2, <3>3, <3>4, <3>5 DEF SentIn
  <2>2. CASE i \notin 1..Len(l)
    <3>1. PICK j \in 1..Len(e) : i = Len(l) + j
      <4>1. i - Len(l) \in 1..Len(e) /\ i = Len(l) + (i - Len(l))
        BY <1>6, <1>7, <2>2
      <4> QED
        BY <4>1
    <3>2. w[i] = e[j] /\ e[j].unit = m /\ e[j].place = j /\ e[j] = ByteIn(r, z, m, j)
      BY <1>10, <1>12, <1>13, <3>1
    <3>3. m \in 1..Len(r) /\ j \in 1..LengthIn(r, z, m)
      BY <1>2, <1>5, <1>6, <1>9
    <3> QED
      BY <3>2, <3>3 DEF SentIn
  <2> QED
    BY <2>1, <2>2
<1>15. ASSUME NEW i \in 1 .. Len(w) - 1 PROVE StepsIn(r, z, w[i], w[i + 1])
  <2>1. CASE i \in 1 .. Len(l) - 1
    <3>1. /\ i \in 1..Len(l) /\ i + 1 \in 1..Len(l)
          /\ StepsIn(s, z, l[i], l[i + 1])
      BY <1>7, <2>1 DEF LineIn
    <3>2. w[i] = l[i] /\ w[i + 1] = l[i + 1] /\ l[i].unit \in 1..Len(s)
      BY <1>11, <3>1 DEF SentIn
    <3>3. LengthIn(r, z, l[i].unit) = LengthIn(s, z, l[i].unit)
      BY <1>8, <3>2
    <3> QED
      BY <3>1, <3>2, <3>3 DEF StepsIn
  <2>2. CASE i = Len(l)
    <3>1. l # << >>
      BY <1>7, <2>2, EmptySeq
    <3>2. i \in 1..Len(l) /\ w[i] = l[i] /\ l[i].unit = Len(s) /\ l[i].place = LengthIn(s, z, Len(s))
      BY <1>7, <1>11, <2>2, <3>1 DEF LineIn
    <3>3. l[i].unit \in 1..Len(s)
      BY <1>11, <3>2 DEF SentIn
    <3>4. LengthIn(r, z, l[i].unit) = LengthIn(s, z, Len(s))
      BY <1>8, <3>2, <3>3
    <3>5. w[i + 1] = e[1] /\ e[1].unit = m /\ e[1].place = 1
      <4>1. 1 \in 1..Len(e) /\ i + 1 = Len(l) + 1
        BY <1>6, <2>2
      <4> QED
        BY <1>12, <1>13, <4>1
    <3> QED
      BY <1>2, <3>2, <3>4, <3>5 DEF StepsIn
  <2>3. CASE i > Len(l)
    <3>1. PICK j \in 1..Len(e) : i = Len(l) + j /\ j + 1 \in 1..Len(e) /\ i + 1 = Len(l) + (j + 1)
      <4>1. /\ i - Len(l) \in 1..Len(e) /\ i = Len(l) + (i - Len(l))
            /\ (i - Len(l)) + 1 \in 1..Len(e) /\ i + 1 = Len(l) + ((i - Len(l)) + 1)
        BY <1>6, <1>7, <2>3
      <4> QED
        BY <4>1
    <3>2. /\ w[i].unit = m /\ w[i].place = j
          /\ w[i + 1].unit = m /\ w[i + 1].place = j + 1
      BY <1>2, <1>12, <1>13, <3>1
    <3>3. j < LengthIn(r, z, m)
      BY <1>6, <1>9, <3>1
    <3> QED
      BY <3>2, <3>3 DEF StepsIn
  <2> QED
    BY <1>6, <1>7, <2>1, <2>2, <2>3
<1>16. w # << >> /\ w[Len(w)].unit = Len(r) /\ w[Len(w)].place = LengthIn(r, z, Len(r))
  <2>1. Len(e) \in 1..Len(e) /\ Len(w) = Len(l) + Len(e) /\ Len(w) # 0
    BY <1>6, <1>7
  <2>2. w[Len(w)].unit = m /\ w[Len(w)].place = Len(e)
    BY <1>12, <1>13, <2>1
  <2>3. w # << >>
    BY <2>1
  <2> QED
    BY <1>5, <1>6, <1>9, <2>2, <2>3
<1>17. LineIn(r, z, w)
  BY <1>14, <1>15, <1>16 DEF LineIn
<1>18. UnitAt(r, w) = UnitAt(s, l) /\ PlaceAt(w) = PlaceAt(l)
  <2>1. CASE l = << >>
    <3>1. w[1] = e[1] /\ e[1].unit = m /\ e[1].place = 1
      <4>1. Len(l) = 0
        BY <2>1
      <4> QED
        BY <1>6, <1>12, <1>13, <4>1
    <3> QED
      BY <1>2, <1>16, <2>1, <3>1 DEF UnitAt, PlaceAt
  <2>2. CASE l # << >>
    <3>1. 1 \in 1..Len(l)
      BY <1>7, <2>2, EmptySeq
    <3> QED
      BY <1>11, <1>16, <2>2, <3>1 DEF UnitAt, PlaceAt
  <2> QED
    BY <2>1, <2>2
<1> QED
  BY <1>1, <1>4, <1>17, <1>18

(***************************************************************************)
(* Where the daemon is.                                                    *)
(***************************************************************************)
unit == UnitAt(sent, line)
place == PlaceAt(line)

Readable ==
  /\ TypeOK /\ Steady /\ LineIn(sent, BinarySize, line)
  /\ line # << >>

\* The class of a byte.
LEMMA ByteFacts ==
  ASSUME TypeOK, Steady, NEW n \in 1..Len(sent), NEW i \in 1..Length(n)
  PROVE  LET class == ByteOf(n, i).class
         IN  /\ Binary(n) => (class = "head" <=> i = 1)
             /\ sent[n] \in {"asciiPacket", "reply"} =>
                  /\ class # "head" /\ (class \in {"cr", "lf"} <=> i >= 4)
                  /\ i = 1 => class = IF sent[n] = "reply" THEN "tilde" ELSE "mark"
                  /\ i = 2 /\ sent[n] = "asciiPacket" => class = "comma"
             /\ sent[n] = "sdReply" =>
                  /\ class \notin {"head", "cr", "lf"}
                  /\ i = 1 => class = "tilde"
                  /\ i > 4 => class = "comma"
             /\ i = 1 => class \in {"head", "mark", "tilde"}
<1>1. ByteOf(n, i).class = Classes(sent[n], BinarySize)[i]
  BY DEF ByteOf, ByteIn
<1>2. /\ sent[n] \in Kinds /\ BinarySize \in Nat \ {0, 1} /\ Length(n) \in Nat \ {0, 1}
      /\ sent[n] \in {"asciiPacket", "reply"} => Length(n) = 5
      /\ sent[n] = "sdReply" => Length(n) = 7
  BY UnitFacts
<1>3. CASE Binary(n)
  <2>1. i = 1 \/ i \in 2 .. Length(n)
    BY <1>2
  <2>2. Length(n) = Len(Classes(sent[n], BinarySize))
    BY DEF Length, LengthIn
  <2>3. sent[n] \notin {"asciiPacket", "reply", "sdReply"}
    BY <1>3 DEF Binary, BinaryKinds
  <2>4. /\ Classes(sent[n], BinarySize)[1] = "head"
        /\ i \in 2 .. Length(n) => Classes(sent[n], BinarySize)[i] # "head"
    BY <1>2, <1>3, <2>2, BinaryClasses DEF Binary
  <2>5. 1 \notin 2 .. Length(n)
    OBVIOUS
  <2> QED
    BY <1>1, <2>1, <2>3, <2>4, <2>5
<1>4. CASE sent[n] = "asciiPacket"
  <2>1. i \in {1, 2, 3, 4, 5} /\ ~Binary(n)
    BY <1>2, <1>4 DEF Binary, BinaryKinds
  <2>2. Classes(sent[n], BinarySize) = <<"mark", "comma", "data", "cr", "lf">>
    BY <1>4, LineClasses
  <2> QED
    BY <1>1, <1>4, <2>1, <2>2
<1>5. CASE sent[n] = "reply"
  <2>1. i \in {1, 2, 3, 4, 5} /\ ~Binary(n)
    BY <1>2, <1>5 DEF Binary, BinaryKinds
  <2>2. Classes(sent[n], BinarySize) = <<"tilde", "data", "comma", "cr", "lf">>
    BY <1>5, LineClasses
  <2> QED
    BY <1>1, <1>5, <2>1, <2>2
<1>6. CASE sent[n] = "sdReply"
  <2>1. i \in {1, 2, 3, 4, 5, 6, 7} /\ ~Binary(n)
    BY <1>2, <1>6 DEF Binary, BinaryKinds
  <2>2. Classes(sent[n], BinarySize)
          = <<"tilde", "data", "data", "data", "comma", "comma", "comma">>
    BY <1>6, LineClasses
  <2> QED
    BY <1>1, <1>6, <2>1, <2>2
<1> QED
  BY <1>2, <1>3, <1>4, <1>5, <1>6 DEF Kinds, Binary, BinaryKinds

\* The byte that is read next.
LEMMA HeadByte ==
  ASSUME Readable
  PROVE  /\ unit \in 1..Len(sent) /\ place \in 1..Length(unit)
         /\ Head(line) = ByteOf(unit, place) /\ Head(line) \in Byte
         /\ line[1] = Head(line)
<1>1. line \in Seq(Byte) /\ sent \in Seq(Kinds) /\ line # << >>
  BY DEF Readable, TypeOK
<1>2. Head(line) = line[1] /\ Head(line) \in Byte
  BY <1>1
<1>3. SentIn(sent, BinarySize, line[1])
  BY <1>1, TailLine DEF Readable
<1>4. unit = line[1].unit /\ place = line[1].place
  BY <1>1 DEF unit, place, UnitAt, PlaceAt
<1> QED
  BY <1>2, <1>3, <1>4 DEF SentIn, Length, ByteOf

\* The first bytes of a unit, and one more.
LEMMA PrefixFacts ==
  ASSUME NEW n, NEW k \in Nat
  PROVE  /\ Len(Prefix(n, k)) = k
         /\ \A i \in 1..k : Prefix(n, k)[i] = ByteOf(n, i)
         /\ (Prefix(n, k) = << >>) <=> (k = 0)
<1>1. /\ Len(Prefix(n, k)) = k
      /\ \A i \in 1..k : Prefix(n, k)[i] = ByteOf(n, i)
  BY DEF Prefix, PrefixIn, ByteOf
<1>2. (Prefix(n, k) = << >>) => (k = 0)
  BY <1>1
<1>3. (k = 0) => (Prefix(n, k) = << >>)
  BY DEF Prefix, PrefixIn
<1> QED
  BY <1>1, <1>2, <1>3

LEMMA PrefixGrows ==
  ASSUME NEW n, NEW k \in Nat, Prefix(n, k) \in Seq(Byte), ByteOf(n, k + 1) \in Byte
  PROVE  Append(Prefix(n, k), ByteOf(n, k + 1)) = Prefix(n, k + 1)
<1>1. PICK text : text = Prefix(n, k)
  OBVIOUS
<1>2. PICK b : b = ByteOf(n, k + 1)
  OBVIOUS
<1>3. PICK longer : longer = Append(text, b)
  OBVIOUS
<1>4. /\ longer \in Seq(Byte) /\ Len(longer) = k + 1
      /\ \A i \in 1..k : longer[i] = ByteOf(n, i)
      /\ longer[k + 1] = b
  BY <1>1, <1>2, <1>3, PrefixFacts, AppendProperties
<1>5. \A i \in 1 .. k + 1 : longer[i] = ByteOf(n, i)
  <2>1. \A i \in 1 .. k + 1 : i \in 1..k \/ i = k + 1
    OBVIOUS
  <2> QED
    BY <1>2, <1>4, <2>1
<1>6. longer = [i \in 1 .. k + 1 |-> longer[i]]
  <2>1. longer \in [1 .. k + 1 -> Byte]
    BY <1>4, LenProperties
  <2> QED
    BY <2>1
<1> QED
  BY <1>1, <1>2, <1>3, <1>5, <1>6 DEF Prefix, PrefixIn, ByteOf

\* A whole unit that is handed on as what it is.
LEMMA WholeUnit ==
  ASSUME NEW n, NEW k \in Nat \ {0}, k = Content(n),
         NEW h, h.how = HowFor(sent[n]), h.bytes = Prefix(n, k)
  PROVE  UnitOf(h) = n
<1>1. Len(h.bytes) = k /\ \A i \in 1..k : h.bytes[i] = ByteOf(n, i)
  BY PrefixFacts
<1>2. \A i \in 1..k : h.bytes[i].unit = n /\ h.bytes[i].place = i
  BY <1>1 DEF ByteOf, ByteIn
<1>3. h.bytes[1].unit = n
  BY <1>2
<1> QED
  BY <1>1, <1>2, <1>3 DEF UnitOf

\* What is whole.
LEMMA ContentFacts ==
  ASSUME TypeOK, Steady, NEW n \in 1..Len(sent)
  PROVE  /\ Content(n) \in Nat \ {0} /\ Content(n) <= Length(n)
         /\ Binary(n) => Content(n) = Length(n)
         /\ sent[n] = "sdReply" => Content(n) = 7
         /\ sent[n] = "asciiPacket" => Content(n) = 3
         /\ sent[n] = "reply" => Content(n) = 4
<1>1. /\ Length(n) \in Nat \ {0, 1} /\ sent[n] \in Kinds
      /\ sent[n] \in {"asciiPacket", "reply"} => Length(n) = 5
      /\ sent[n] = "sdReply" => Length(n) = 7
  BY UnitFacts
<1>2. Content(n) = IF sent[n] = "asciiPacket" THEN 3
                   ELSE IF sent[n] = "reply" THEN 4 ELSE Length(n)
  BY <1>1 DEF Content, Length, LengthIn, Kinds
<1>3. Binary(n) => sent[n] \notin {"asciiPacket", "reply"}
  BY DEF Binary, BinaryKinds
<1> QED
  BY <1>1, <1>2, <1>3

(***************************************************************************)
(* What the phrase is there, but for a Fujitsu.                            *)
(***************************************************************************)
\* Nothing is kept from the units before.
Between ==
  /\ place = 1 /\ phrase = << >> /\ ~inPacket /\ commaCount = 0
  /\ Len(delivered) = unit - 1

\* A TabletPC's packet waits for what follows it.
Pending ==
  /\ place = 1 /\ unit > 1 /\ IsTabletPC /\ sent[unit - 1] \in {"packet", "newlinePacket"}
  /\ phrase = Prefix(unit - 1, Length(unit - 1)) /\ inPacket /\ commaCount = 0
  /\ Len(delivered) = unit - 2

\* The phrase is what has been read of the unit.
Inside ==
  /\ place > 1 /\ phrase = Prefix(unit, place - 1) /\ inPacket = Binary(unit)
  /\ commaCount = IF sent[unit] = "sdReply" /\ place > 5 THEN place - 5 ELSE 0
  /\ sent[unit] \in {"asciiPacket", "reply"} => place <= 4
  /\ Len(delivered) = unit - 1

\* The second newline of a line that was handed on with its first.
LineFeed ==
  /\ sent[unit] \in {"asciiPacket", "reply"} /\ place = 5
  /\ phrase = << >> /\ ~inPacket /\ commaCount = 0
  /\ Len(delivered) = unit

Position == Between \/ Pending \/ Inside \/ LineFeed

InOrder == \A i \in 1..Len(delivered) : UnitOf(delivered[i]) = i

\* What is handed on is the next unit.
NextOne ==
  \/ delivered' = delivered
  \/ \E h \in Handovers : delivered' = Append(delivered, h) /\ UnitOf(h) = Len(delivered) + 1

\* A second newline is swallowed only at the end of a line.
LEMMA SwallowFacts ==
  ASSUME Readable, Position, protocol # "Fujitsu", NEW last \in BOOLEAN, Swallows(last)
  PROVE  /\ sent[unit] \in {"asciiPacket", "reply"} /\ place = 4
         /\ Tail(line) # << >> /\ LineIn(sent, BinarySize, Tail(line))
         /\ UnitAt(sent, Tail(line)) = unit /\ PlaceAt(Tail(line)) = 5
<1>1. /\ line \in Seq(Byte) /\ sent \in Seq(Kinds) /\ line # << >>
      /\ TypeOK /\ Steady /\ LineIn(sent, BinarySize, line)
  BY DEF Readable, TypeOK
<1>2. /\ unit \in 1..Len(sent) /\ place \in 1..Length(unit) /\ line[1] = ByteOf(unit, place)
      /\ Len(sent) \in Nat
  BY <1>1, HeadByte, LenProperties
<1>3. /\ ~inPacket /\ Len(line) > 1
      /\ line[1].class \in {"cr", "lf"} /\ line[2].class \in {"cr", "lf"}
  BY DEF Swallows, IsNewline
<1>4. /\ sent[unit] \in Kinds /\ Length(unit) \in Nat \ {0, 1}
      /\ sent[unit] \in {"asciiPacket", "reply"} => Length(unit) = 5
  BY <1>1, <1>2, UnitFacts
<1>5. line[1].unit = unit /\ line[1].place = place
  BY <1>2 DEF ByteOf, ByteIn
<1>6. ~Binary(unit)
  <2>1. SUFFICES ASSUME Binary(unit) PROVE FALSE
    OBVIOUS
  <2>2. place # 1
    BY <1>1, <1>2, <1>3, <2>1, ByteFacts
  <2>3. sent[unit] \notin {"asciiPacket", "reply"}
    BY <2>1 DEF Binary, BinaryKinds
  <2> QED
    BY <1>3, <2>1, <2>2, <2>3 DEF Position, Between, Pending, Inside, LineFeed
<1>7. sent[unit] \in {"asciiPacket", "reply"} /\ place \in {4, 5}
  <2>1. sent[unit] # "sdReply"
    BY <1>1, <1>2, <1>3, ByteFacts
  <2>2. sent[unit] \in {"asciiPacket", "reply"}
    BY <1>4, <1>6, <2>1 DEF Binary, BinaryKinds, Kinds
  <2>3. place >= 4
    BY <1>1, <1>2, <1>3, <2>2, ByteFacts
  <2> QED
    BY <1>2, <1>4, <2>2, <2>3
<1>8. /\ Tail(line) # << >> /\ LineIn(sent, BinarySize, Tail(line))
      /\ IF place = Length(unit)
         THEN UnitAt(sent, Tail(line)) = unit + 1 /\ PlaceAt(Tail(line)) = 1
         ELSE UnitAt(sent, Tail(line)) = unit /\ PlaceAt(Tail(line)) = place + 1
      /\ Tail(line)[1] = line[2] /\ SentIn(sent, BinarySize, line[2])
  BY <1>1, <1>3, <1>5, TailLine DEF Length
<1>9. place # 5
  <2>1. SUFFICES ASSUME place = 5 PROVE FALSE
    OBVIOUS
  <2>2. line[2].place = 1
    BY <1>4, <1>7, <1>8, <2>1 DEF PlaceAt
  <2>3. PICK n : n = line[2].unit
    OBVIOUS
  <2>4. n \in 1..Len(sent) /\ 1 \in 1..Length(n) /\ line[2] = ByteOf(n, 1)
    BY <1>8, <2>2, <2>3 DEF SentIn, Length, ByteOf
  <2> QED
    BY <1>1, <1>3, <2>4, ByteFacts
<1> QED
  BY <1>4, <1>7, <1>8, <1>9

\* Where a byte takes the daemon.
LEMMA ReadMoves ==
  ASSUME Readable, Position, protocol # "Fujitsu", NEW last \in BOOLEAN, ReadByte(last)
  PROVE  /\ LineIn(sent, BinarySize, line)' /\ Steady'
         /\ \/ place < Length(unit) /\ unit' = unit /\ place' = place + 1
            \/ /\ place = Length(unit) \/ (sent[unit] \in {"asciiPacket", "reply"} /\ place = 4)
               /\ unit' = unit + 1 /\ place' = 1
<1>1. /\ line \in Seq(Byte) /\ sent \in Seq(Kinds) /\ line # << >>
      /\ TypeOK /\ Steady /\ LineIn(sent, BinarySize, line)
  BY DEF Readable, TypeOK
<1>2. /\ unit \in 1..Len(sent) /\ place \in 1..Length(unit) /\ line[1] = ByteOf(unit, place)
  BY <1>1, HeadByte
<1>3. /\ UNCHANGED <<protocol, tabletSize, packetSize, sent>>
      /\ line' = IF Swallows(last) THEN Tail(Tail(line)) ELSE Tail(line)
  BY DEF ReadByte
<1>4. BinarySize' = BinarySize /\ Steady'
  BY <1>1, <1>3 DEF BinarySize, Steady
<1>5. line[1].unit = unit /\ line[1].place = place
  BY <1>2 DEF ByteOf, ByteIn
<1>6. PICK t : t = Tail(line)
  OBVIOUS
<1>7. /\ t \in Seq(Byte) /\ LineIn(sent, BinarySize, t)
      /\ IF place = Length(unit)
         THEN UnitAt(sent, t) = unit + 1 /\ PlaceAt(t) = 1
         ELSE UnitAt(sent, t) = unit /\ PlaceAt(t) = place + 1
  BY <1>1, <1>5, <1>6, TailLine DEF Length
<1>8. CASE ~Swallows(last)
  <2>1. line' = t
    BY <1>3, <1>6, <1>8
  <2>2. unit' = UnitAt(sent, t) /\ place' = PlaceAt(t) /\ LineIn(sent, BinarySize, line)'
    BY <1>3, <1>4, <1>7, <2>1 DEF unit, place
  <2>3. place \in Nat /\ Length(unit) \in Nat /\ (place # Length(unit) => place < Length(unit))
    BY <1>1, <1>2, UnitFacts
  <2> QED
    BY <1>4, <1>7, <2>2, <2>3
<1>9. CASE Swallows(last)
  <2>1. /\ sent[unit] \in {"asciiPacket", "reply"} /\ place = 4
        /\ t # << >> /\ UnitAt(sent, t) = unit /\ PlaceAt(t) = 5
    BY <1>6, <1>9, SwallowFacts
  <2>2. t[1].unit = unit /\ t[1].place = 5
    BY <2>1 DEF UnitAt, PlaceAt
  <2>3. Length(unit) = 5
    BY <1>1, <1>2, <2>1, UnitFacts
  <2>4. LineIn(sent, BinarySize, Tail(t)) /\ UnitAt(sent, Tail(t)) = unit + 1 /\ PlaceAt(Tail(t)) = 1
    <3>1. t[1].place = LengthIn(sent, BinarySize, t[1].unit)
      BY <2>2, <2>3 DEF Length
    <3>2. sent \in Seq(Kinds) /\ t \in Seq(Byte) /\ t # << >> /\ LineIn(sent, BinarySize, t)
      BY <1>1, <1>7, <2>1
    <3>3. /\ LineIn(sent, BinarySize, Tail(t))
          /\ UnitAt(sent, Tail(t)) = t[1].unit + 1 /\ PlaceAt(Tail(t)) = 1
      BY <3>1, <3>2, TailLine
    <3> QED
      BY <2>2, <3>3
  <2>5. line' = Tail(t)
    BY <1>3, <1>6, <1>9
  <2>6. unit' = unit + 1 /\ place' = 1 /\ LineIn(sent, BinarySize, line)'
    BY <1>3, <1>4, <2>4, <2>5 DEF unit, place
  <2> QED
    BY <1>4, <2>1, <2>6
<1> QED
  BY <1>8, <1>9

\* After a byte that only moves on.
LEMMA StillInside ==
  ASSUME Readable, protocol # "Fujitsu", NEW last \in BOOLEAN, ReadByte(last),
         place < Length(unit), unit' = unit, place' = place + 1,
         sent[unit] \in {"asciiPacket", "reply"} => place < 4,
         phrase' = Prefix(unit, place), inPacket' = Binary(unit),
         commaCount' = (IF sent[unit] = "sdReply" /\ place > 4 THEN place - 4 ELSE 0),
         Len(delivered) = unit - 1, delivered' = delivered
  PROVE  Position' /\ NextOne
<1>1. UNCHANGED <<protocol, tabletSize, packetSize, sent>> /\ BinarySize' = BinarySize
  BY DEF ReadByte, BinarySize
<1>2. place \in Nat \ {0}
  BY HeadByte, UnitFacts DEF Readable
<1>3. place' > 1 /\ place' - 1 = place
  BY <1>2
<1>4. Prefix(unit, place - 1)' = Prefix(unit, place) /\ Binary(unit)' = Binary(unit)
  BY <1>1, <1>3 DEF Prefix, Binary
<1>5. commaCount' = IF sent[unit] = "sdReply" /\ place' > 5 THEN place' - 5 ELSE 0
  BY <1>2
<1>6. sent[unit] \in {"asciiPacket", "reply"} => place' <= 4
  BY <1>2
<1> QED
  BY <1>1, <1>3, <1>4, <1>5, <1>6 DEF Position, Inside, NextOne

\* After a byte that hands a unit on, or follows one that was.
LEMMA NowBetween ==
  ASSUME unit' = unit + 1, place' = 1, unit \in Nat,
         phrase' = << >>, ~inPacket', commaCount' = 0, Len(delivered') = unit
  PROVE  Position'
  BY DEF Position, Between

\* A unit is handed on.
LEMMA OneMore ==
  ASSUME TypeOK, Steady, NEW n \in 1..Len(sent), Len(delivered) = n - 1,
         NEW h \in Handovers, HandOn(<<h>>),
         h.how = HowFor(sent[n]), h.bytes = Prefix(n, Content(n))
  PROVE  NextOne /\ Len(delivered') = n
<1>1. delivered \in Seq(Handovers) /\ Len(sent) \in Nat
  BY LenProperties DEF TypeOK
<1>2. delivered' = Append(delivered, h)
  BY <1>1, HandOnOne
<1>3. Len(delivered') = n /\ Len(delivered) + 1 = n
  BY <1>1, <1>2, AppendProperties, LenProperties
<1>4. UnitOf(h) = n
  BY ContentFacts, WholeUnit
<1> QED
  BY <1>2, <1>3, <1>4 DEF NextOne

\* The first byte of a binary unit.
LEMMA ReadHead ==
  ASSUME Readable, Position, protocol # "Fujitsu", NEW last \in BOOLEAN, ReadByte(last),
         Binary(unit), place = 1
  PROVE  Position' /\ NextOne
<1>1. TypeOK /\ Steady
  BY DEF Readable
<1>2. PICK b : b = Head(line)
  OBVIOUS
<1>3. /\ unit \in 1..Len(sent) /\ b = ByteOf(unit, 1) /\ b \in Byte /\ b.class = "head"
      /\ Length(unit) \in Nat \ {0, 1} /\ Len(sent) \in Nat
  BY <1>1, <1>2, HeadByte, ByteFacts, UnitFacts, LenProperties DEF TypeOK
<1>4. sent[unit] \notin {"asciiPacket", "reply", "sdReply"}
  BY DEF Binary, BinaryKinds
<1>5. unit' = unit /\ place' = place + 1
  BY <1>3, <1>4, ReadMoves
<1>6. StartPacket(b)
  BY <1>2, <1>3 DEF ReadByte, InPacket, EndOfLine, InLine, IsNewline
<1>7. /\ HandOn(EndedByHead) /\ phrase' = <<b>> /\ inPacket' = TRUE
      /\ commaCount' = IF EndedByHead # << >> /\ EndedByHead[1].how # "query" THEN 0 ELSE commaCount
  BY <1>6 DEF StartPacket
<1>8. <<b>> = Prefix(unit, 1)
  <2>1. Prefix(unit, 1) = [i \in 1..1 |-> ByteOf(unit, i)]
    BY DEF Prefix, PrefixIn, ByteOf
  <2> QED
    BY <1>3, <2>1
<1>9. CASE Between
  <2>1. EndedByHead = << >>
    BY <1>9 DEF EndedByHead, Between
  <2>2. delivered' = delivered /\ commaCount' = 0
    BY <1>1, <1>7, <1>9, <2>1, HandOnNone DEF TypeOK, Between
  <2> QED
    BY <1>3, <1>4, <1>5, <1>7, <1>8, <1>9, <2>2, StillInside DEF Between
<1>10. CASE Pending
  <2>1. PICK n : n = unit - 1
    OBVIOUS
  <2>2. /\ n \in 1..Len(sent) /\ sent[n] \in {"packet", "newlinePacket"}
        /\ phrase = Prefix(n, Length(n)) /\ inPacket /\ commaCount = 0
        /\ Len(delivered) = n - 1 /\ protocol = "TabletPC"
    BY <1>3, <1>10, <2>1 DEF Pending, IsTabletPC
  <2>3. /\ Length(n) = packetSize /\ Length(n) # QuerySize /\ Length(n) \in Nat
        /\ Content(n) = Length(n) /\ Binary(n)
    <3>1. Binary(n)
      BY <2>2 DEF Binary, BinaryKinds
    <3>2. Content(n) = Length(n)
      BY <1>1, <2>2, <3>1, ContentFacts
    <3>3. /\ Length(n) = BinarySize /\ BinarySize < QuerySize /\ BinarySize = packetSize
          /\ BinarySize \in Nat /\ QuerySize \in Nat
      BY <1>1, <2>2, UnitFacts
    <3> QED
      BY <3>1, <3>2, <3>3
  <2>4. Len(phrase) = packetSize /\ Len(phrase) # QuerySize
    BY <2>2, <2>3, PrefixFacts
  <2>5. PICK h : h = Handover("packet", phrase)
    OBVIOUS
  <2>6. EndedByHead = <<h>>
    BY <2>2, <2>4, <2>5 DEF EndedByHead
  <2>7. h \in Handovers /\ h.how = "packet" /\ h.bytes = Prefix(n, Content(n))
    BY <1>1, <2>2, <2>3, <2>5 DEF Handover, Handovers, TypeOK
  <2>8. h.how = HowFor(sent[n])
    BY <2>2, <2>7 DEF HowFor, ReplyKinds
  <2>9. NextOne /\ Len(delivered') = n
    BY <1>1, <1>7, <2>2, <2>6, <2>7, <2>8, OneMore
  <2>10. commaCount' = 0
    BY <1>7, <2>2, <2>6
  <2>11. /\ Prefix(unit, place - 1)' = Prefix(unit, 1) /\ Binary(unit)' /\ sent' = sent
         /\ place' = 2 /\ unit' = unit
    <3>1. sent' = sent /\ BinarySize' = BinarySize
      BY DEF ReadByte, BinarySize
    <3>2. place' = 2
      BY <1>5
    <3>3. place' - 1 = 1
      BY <3>2
    <3> QED
      BY <1>5, <3>1, <3>2, <3>3 DEF Prefix, Binary
  <2>12. Inside'
    <3>1. place' > 1 /\ place' <= 4 /\ ~(place' > 5)
      BY <2>11
    <3>2. Len(delivered') = unit' - 1
      BY <2>1, <2>9, <2>11
    <3> QED
      BY <1>7, <1>8, <2>10, <2>11, <3>1, <3>2 DEF Inside
  <2> QED
    BY <2>9, <2>12 DEF Position
<1>11. ~Inside /\ ~LineFeed
  BY DEF Inside, LineFeed
<1> QED
  BY <1>9, <1>10, <1>11 DEF Position

\* Any other byte of a binary unit.
LEMMA ReadInPacket ==
  ASSUME Readable, Position, protocol # "Fujitsu", NEW last \in BOOLEAN, ReadByte(last),
         Binary(unit), place # 1
  PROVE  Position' /\ NextOne
<1>1. TypeOK /\ Steady
  BY DEF Readable
<1>2. PICK b : b = Head(line)
  OBVIOUS
<1>3. /\ unit \in 1..Len(sent) /\ place \in 1..Length(unit) /\ b = ByteOf(unit, place)
      /\ b \in Byte /\ b.class # "head"
      /\ Length(unit) \in Nat \ {0, 1} /\ Len(sent) \in Nat
  BY <1>1, <1>2, HeadByte, ByteFacts, UnitFacts, LenProperties DEF TypeOK
<1>4. sent[unit] \notin {"asciiPacket", "reply", "sdReply"}
  BY DEF Binary, BinaryKinds
<1>5. /\ phrase = Prefix(unit, place - 1) /\ inPacket /\ commaCount = 0
      /\ Len(delivered) = unit - 1
  BY <1>4 DEF Position, Between, Pending, Inside, LineFeed
<1>6. PICK longer : longer = Append(phrase, b)
  OBVIOUS
<1>7. longer = Prefix(unit, place) /\ Len(longer) = place /\ longer \in Seq(Byte)
  <2>1. PICK k \in Nat : k = place - 1 /\ k + 1 = place
    BY <1>3
  <2>2. longer = Prefix(unit, k + 1)
    <3>1. Prefix(unit, k) \in Seq(Byte) /\ ByteOf(unit, k + 1) \in Byte
      BY <1>1, <1>3, <1>5, <2>1 DEF TypeOK
    <3> QED
      BY <1>3, <1>5, <1>6, <2>1, <3>1, PrefixGrows
  <2>3. longer \in Seq(Byte)
    BY <1>1, <1>3, <1>6 DEF TypeOK
  <2> QED
    BY <1>3, <2>1, <2>2, <2>3, PrefixFacts
<1>8. InPacket(b)
  BY <1>2, <1>3, <1>5 DEF ReadByte, StartPacket, EndOfLine, InLine
<1>9. sent' = sent /\ BinarySize' = BinarySize /\ protocol' = protocol
  BY DEF ReadByte, BinarySize
<1>10. CASE Len(longer) = FullLength
  <2>1. PICK h : h = Handover(IF IsTabletPC THEN "query" ELSE "packet", longer)
    OBVIOUS
  <2>2. HandOn(<<h>>) /\ phrase' = << >> /\ inPacket' = FALSE /\ commaCount' = 0
    BY <1>5, <1>6, <1>8, <1>10, <2>1 DEF InPacket
  <2>3. /\ place = Length(unit)
        /\ h.how = HowFor(sent[unit])
    <3>1. /\ sent[unit] = "query" => IsTabletPC /\ Length(unit) = QuerySize
          /\ IsTabletPC => BinarySize < QuerySize
          /\ sent[unit] # "query" => Length(unit) = BinarySize
          /\ BinarySize = packetSize /\ BinarySize \in Nat /\ QuerySize \in Nat
      BY <1>1, <1>3, UnitFacts DEF IsTabletPC, Binary, BinaryKinds
    <3>2. place = IF IsTabletPC THEN QuerySize ELSE packetSize
      BY <1>7, <1>10 DEF FullLength
    <3>3. place = Length(unit) /\ (IsTabletPC <=> sent[unit] = "query")
      BY <1>3, <3>1, <3>2
    <3>4. h.how = IF sent[unit] = "query" THEN "query" ELSE "packet"
      BY <2>1, <3>3 DEF Handover
    <3> QED
      BY <1>4, <3>3, <3>4 DEF HowFor, ReplyKinds
  <2>4. h \in Handovers /\ h.bytes = Prefix(unit, Content(unit))
    <3>1. Content(unit) = place
      BY <1>1, <1>3, <2>3, ContentFacts
    <3> QED
      BY <1>7, <2>1, <3>1 DEF Handover, Handovers
  <2>5. NextOne /\ Len(delivered') = unit
    BY <1>1, <1>3, <1>5, <2>2, <2>3, <2>4, OneMore
  <2>6. unit' = unit + 1 /\ place' = 1
    BY <1>3, <2>3, ReadMoves
  <2> QED
    BY <1>3, <2>2, <2>5, <2>6, NowBetween
<1>11. CASE Len(longer) # FullLength
  <2>1. phrase' = longer /\ delivered' = delivered /\ inPacket' = inPacket /\ commaCount' = 0
    BY <1>5, <1>6, <1>8, <1>11 DEF InPacket
  <2>2. CASE place < Length(unit)
    <3>1. unit' = unit /\ place' = place + 1
      BY <1>3, <1>4, <2>2, ReadMoves
    <3>2. inPacket' = Binary(unit)
      BY <1>5, <2>1 DEF Binary, TypeOK
    <3> QED
      BY <1>4, <1>5, <1>7, <2>1, <2>2, <3>1, <3>2, StillInside
  <2>3. CASE place = Length(unit)
    <3>1. unit' = unit + 1 /\ place' = 1
      BY <1>3, <2>3, ReadMoves
    <3>2. IsTabletPC /\ sent[unit] \in {"packet", "newlinePacket"}
      <4>1. /\ sent[unit] = "query" => IsTabletPC /\ Length(unit) = QuerySize
            /\ sent[unit] # "query" => Length(unit) = BinarySize
            /\ BinarySize = packetSize
        BY <1>1, <1>3, UnitFacts DEF IsTabletPC, Binary, BinaryKinds
      <4> QED
        BY <1>7, <1>11, <2>3, <4>1 DEF FullLength, Binary, BinaryKinds
    <3>3. PICK n : n = unit
      OBVIOUS
    <3>4. unit' - 1 = n /\ unit' > 1 /\ Len(delivered') = unit' - 2
      BY <1>3, <1>5, <2>1, <3>1, <3>3
    <3>5. Prefix(unit - 1, Length(unit - 1))' = Prefix(n, Length(n))
      BY <1>9, <3>4 DEF Prefix, Length
    <3>6. IsTabletPC' /\ sent'[unit' - 1] \in {"packet", "newlinePacket"}
      BY <1>9, <3>2, <3>3, <3>4 DEF IsTabletPC
    <3>7. Pending'
      BY <1>5, <1>7, <2>1, <2>3, <3>1, <3>3, <3>4, <3>5, <3>6 DEF Pending
    <3> QED
      BY <2>1, <3>7 DEF Position, NextOne
  <2> QED
    BY <1>3, <2>2, <2>3
<1> QED
  BY <1>10, <1>11

\* A character of a line, before its first newline.
LEMMA ReadCharacter ==
  ASSUME Readable, Position, protocol # "Fujitsu", NEW last \in BOOLEAN, ReadByte(last),
         ~Binary(unit), sent[unit] \in {"asciiPacket", "reply"} => place < 4
  PROVE  Position' /\ NextOne
<1>1. TypeOK /\ Steady
  BY DEF Readable
<1>2. PICK b : b = Head(line)
  OBVIOUS
<1>3. /\ unit \in 1..Len(sent) /\ place \in 1..Length(unit) /\ b = ByteOf(unit, place)
      /\ b \in Byte /\ Length(unit) \in Nat \ {0, 1} /\ Len(sent) \in Nat
      /\ sent[unit] \in {"asciiPacket", "reply", "sdReply"}
  BY <1>1, <1>2, HeadByte, UnitFacts, LenProperties DEF TypeOK, Binary, BinaryKinds, Kinds
<1>4. /\ b.class \notin {"head", "cr", "lf"}
      /\ sent[unit] = "sdReply" /\ place > 4 => b.class = "comma"
      /\ sent[unit] \in {"asciiPacket", "reply"} => place < Length(unit)
      /\ sent[unit] = "sdReply" => Length(unit) = 7 /\ protocol = "SD"
  BY <1>1, <1>3, ByteFacts, UnitFacts
<1>5. /\ phrase = Prefix(unit, place - 1) /\ ~inPacket
      /\ commaCount = IF sent[unit] = "sdReply" /\ place > 5 THEN place - 5 ELSE 0
      /\ Len(delivered) = unit - 1
  <2>1. ~Pending
    <3>1. protocol # "TabletPC"
      BY <1>1, <1>3, UnitFacts
    <3> QED
      BY <3>1 DEF Pending, IsTabletPC
  <2>2. CASE Between
    <3>1. phrase = << >> /\ place - 1 = 0
      BY <2>2 DEF Between
    <3>2. Prefix(unit, place - 1) = << >>
      BY <3>1, PrefixFacts
    <3> QED
      BY <2>2, <3>1, <3>2 DEF Between
  <2>3. ~LineFeed
    BY DEF LineFeed
  <2> QED
    BY <1>1, <2>1, <2>2, <2>3 DEF Position, Inside
<1>6. PICK longer : longer = Append(phrase, b)
  OBVIOUS
<1>7. longer = Prefix(unit, place) /\ Len(longer) = place /\ longer \in Seq(Byte)
  <2>1. PICK k \in Nat : k = place - 1 /\ k + 1 = place
    BY <1>3
  <2>2. longer = Prefix(unit, k + 1)
    <3>1. Prefix(unit, k) \in Seq(Byte) /\ ByteOf(unit, k + 1) \in Byte
      BY <1>1, <1>3, <1>5, <2>1 DEF TypeOK
    <3> QED
      BY <1>3, <1>5, <1>6, <2>1, <3>1, PrefixGrows
  <2>3. longer \in Seq(Byte)
    BY <1>1, <1>3, <1>6 DEF TypeOK
  <2> QED
    BY <1>3, <2>1, <2>2, <2>3, PrefixFacts
<1>8. InLine(b)
  BY <1>2, <1>4, <1>5 DEF ReadByte, StartPacket, EndOfLine, InPacket, IsNewline
<1>9. PICK counted : counted = (/\ ~CanParseUDSetup /\ Len(longer) > 4
                                /\ longer[1].class = "tilde" /\ b.class = "comma")
  OBVIOUS
<1>10. /\ IF counted /\ commaCount + 1 = CommasOfReply
          THEN HandOn(<<Handover("reply", longer)>>) /\ phrase' = << >> /\ commaCount' = 0
          ELSE /\ phrase' = longer /\ delivered' = delivered
               /\ commaCount' = IF counted THEN commaCount + 1 ELSE commaCount
       /\ inPacket' = inPacket
  BY <1>6, <1>8, <1>9 DEF InLine
<1>11. counted <=> sent[unit] = "sdReply" /\ place > 4
  <2>1. CASE sent[unit] = "sdReply"
    <3>1. longer[1] = ByteOf(unit, 1) /\ 1 \in 1..Length(unit)
      BY <1>3, <1>7, PrefixFacts
    <3>2. longer[1].class = "tilde"
      BY <1>1, <1>3, <2>1, <3>1, ByteFacts
    <3>3. ~CanParseUDSetup
      BY <1>4, <2>1 DEF CanParseUDSetup
    <3> QED
      BY <1>4, <1>7, <1>9, <2>1, <3>2, <3>3
  <2>2. CASE sent[unit] # "sdReply"
    BY <1>3, <1>7, <1>9, <2>2
  <2> QED
    BY <2>1, <2>2
<1>12. CASE sent[unit] = "sdReply" /\ place = 7
  <2>1. counted /\ commaCount + 1 = CommasOfReply
    BY <1>5, <1>11, <1>12 DEF CommasOfReply
  <2>2. PICK h : h = Handover("reply", longer)
    OBVIOUS
  <2>3. HandOn(<<h>>) /\ phrase' = << >> /\ commaCount' = 0 /\ ~inPacket'
    BY <1>5, <1>10, <2>1, <2>2
  <2>4. /\ h \in Handovers /\ h.bytes = Prefix(unit, Content(unit))
        /\ h.how = HowFor(sent[unit])
    <3>1. Content(unit) = place
      BY <1>1, <1>3, <1>12, ContentFacts
    <3> QED
      BY <1>7, <1>12, <2>2, <3>1 DEF Handover, Handovers, HowFor, ReplyKinds
  <2>5. NextOne /\ Len(delivered') = unit
    BY <1>1, <1>3, <1>5, <2>3, <2>4, OneMore
  <2>6. unit' = unit + 1 /\ place' = 1
    BY <1>3, <1>4, <1>12, ReadMoves
  <2> QED
    BY <1>3, <2>3, <2>5, <2>6, NowBetween
<1>13. CASE ~(sent[unit] = "sdReply" /\ place = 7)
  <2>1. place < Length(unit)
    BY <1>3, <1>4, <1>13
  <2>2. ~(counted /\ commaCount + 1 = CommasOfReply)
    BY <1>3, <1>4, <1>5, <1>11, <1>13 DEF CommasOfReply
  <2>3. phrase' = longer /\ delivered' = delivered /\ inPacket' = Binary(unit)
    BY <1>1, <1>5, <1>10, <2>2 DEF TypeOK, Binary
  <2>4. commaCount' = IF sent[unit] = "sdReply" /\ place > 4 THEN place - 4 ELSE 0
    BY <1>3, <1>5, <1>10, <1>11, <2>2
  <2>5. unit' = unit /\ place' = place + 1
    BY <1>3, <2>1, ReadMoves
  <2> QED
    BY <1>5, <1>7, <2>1, <2>3, <2>4, <2>5, StillInside
<1> QED
  BY <1>12, <1>13

\* The two newlines of a line.
LEMMA ReadNewline ==
  ASSUME Readable, Position, protocol # "Fujitsu", NEW last \in BOOLEAN, ReadByte(last),
         sent[unit] \in {"asciiPacket", "reply"}, place >= 4
  PROVE  Position' /\ NextOne
<1>1. TypeOK /\ Steady
  BY DEF Readable
<1>2. PICK b : b = Head(line)
  OBVIOUS
<1>3. /\ unit \in 1..Len(sent) /\ place \in {4, 5} /\ b = ByteOf(unit, place)
      /\ b \in Byte /\ Length(unit) = 5 /\ Len(sent) \in Nat
      /\ b.class \in {"cr", "lf"} /\ b.class # "head"
      /\ sent[unit] = "asciiPacket" => protocol = "IIS"
  <2>1. /\ unit \in 1..Len(sent) /\ place \in 1..Length(unit) /\ b = ByteOf(unit, place)
        /\ b \in Byte
    BY <1>1, <1>2, HeadByte
  <2>2. Length(unit) = 5 /\ (sent[unit] = "asciiPacket" => protocol = "IIS")
    BY <1>1, <2>1, UnitFacts
  <2>3. b.class \in {"cr", "lf"} /\ b.class # "head"
    BY <1>1, <2>1, ByteFacts
  <2> QED
    BY <1>1, <2>1, <2>2, <2>3, LenProperties DEF TypeOK
<1>4. ~Between /\ ~Pending
  BY DEF Between, Pending
<1>5. ~Binary(unit)
  BY DEF Binary, BinaryKinds
<1>6. ~inPacket
  BY <1>4, <1>5 DEF Position, Inside, LineFeed
<1>7. EndOfLine(b)
  BY <1>2, <1>3, <1>6 DEF ReadByte, StartPacket, InLine, InPacket, IsNewline
<1>8. /\ IF phrase = << >> THEN delivered' = delivered /\ commaCount' = commaCount
         ELSE /\ HandOn(<<IF IsAsciiPacket(phrase) THEN Handover("packet", phrase)
                          ELSE Handover("reply", Append(phrase, b))>>)
              /\ commaCount' = 0
      /\ phrase' = << >> /\ ~inPacket'
  BY <1>6, <1>7 DEF EndOfLine
<1>9. CASE place = 4
  <2>1. phrase = Prefix(unit, 3) /\ Len(delivered) = unit - 1
    <3>1. Inside
      BY <1>4, <1>9 DEF Position, LineFeed
    <3>2. place - 1 = 3
      BY <1>9
    <3> QED
      BY <3>1, <3>2 DEF Inside
  <2>2. /\ phrase # << >> /\ Len(phrase) = 3
        /\ phrase[1] = ByteOf(unit, 1) /\ phrase[2] = ByteOf(unit, 2)
    <3>1. Len(phrase) = 3 /\ \A i \in 1..3 : phrase[i] = ByteOf(unit, i)
      BY <2>1, PrefixFacts
    <3>2. phrase # << >>
      BY <3>1
    <3> QED
      BY <3>1, <3>2
  <2>3. Append(phrase, b) = Prefix(unit, 4)
    <3>1. Prefix(unit, 3) \in Seq(Byte) /\ ByteOf(unit, 3 + 1) \in Byte
      BY <1>1, <1>3, <1>9, <2>1 DEF TypeOK
    <3> QED
      BY <1>3, <1>9, <2>1, <3>1, PrefixGrows
  <2>4. IsAsciiPacket(phrase) <=> sent[unit] = "asciiPacket"
    <3>1. 1 \in 1..Length(unit) /\ 2 \in 1..Length(unit)
      BY <1>3
    <3>2. CASE sent[unit] = "asciiPacket"
      <4>1. phrase[1].class = "mark" /\ phrase[2].class = "comma"
        BY <1>1, <1>3, <2>2, <3>1, <3>2, ByteFacts
      <4>2. CommandSetIIS
        BY <1>3, <3>2 DEF CommandSetIIS
      <4> QED
        BY <2>2, <3>2, <4>1, <4>2 DEF IsAsciiPacket
    <3>3. CASE sent[unit] = "reply"
      <4>1. phrase[1].class = "tilde"
        BY <1>1, <1>3, <2>2, <3>1, <3>3, ByteFacts
      <4> QED
        BY <3>3, <4>1 DEF IsAsciiPacket
    <3> QED
      BY <3>2, <3>3
  <2>5. PICK h : h = IF IsAsciiPacket(phrase) THEN Handover("packet", phrase)
                     ELSE Handover("reply", Append(phrase, b))
    OBVIOUS
  <2>6. HandOn(<<h>>) /\ commaCount' = 0
    BY <1>8, <2>2, <2>5
  <2>7. h \in Handovers
    <3>1. phrase \in Seq(Byte) /\ Append(phrase, b) \in Seq(Byte)
      BY <1>1, <1>3 DEF TypeOK
    <3> QED
      BY <2>5, <3>1 DEF Handover, Handovers
  <2>8. h.how = HowFor(sent[unit]) /\ h.bytes = Prefix(unit, Content(unit))
    <3>1. CASE sent[unit] = "asciiPacket"
      <4>1. Content(unit) = 3
        BY <1>1, <1>3, <3>1, ContentFacts
      <4> QED
        BY <2>1, <2>4, <2>5, <3>1, <4>1 DEF Handover, HowFor, ReplyKinds
    <3>2. CASE sent[unit] = "reply"
      <4>1. Content(unit) = 4
        BY <1>1, <1>3, <3>2, ContentFacts
      <4> QED
        BY <2>3, <2>4, <2>5, <3>2, <4>1 DEF Handover, HowFor, ReplyKinds
    <3> QED
      BY <3>1, <3>2
  <2>9. NextOne /\ Len(delivered') = unit
    BY <1>1, <1>3, <2>1, <2>6, <2>7, <2>8, OneMore
  <2>10. \/ unit' = unit + 1 /\ place' = 1
         \/ unit' = unit /\ place' = 5
    <3>1. place + 1 = 5
      BY <1>9
    <3> QED
      BY <3>1, ReadMoves
  <2>11. CASE unit' = unit + 1 /\ place' = 1
    BY <1>3, <1>8, <2>6, <2>9, <2>11, NowBetween
  <2>12. CASE unit' = unit /\ place' = 5
    <3>1. sent' = sent
      BY DEF ReadByte
    <3> QED
      BY <1>8, <2>6, <2>9, <2>12, <3>1 DEF Position, LineFeed
  <2> QED
    BY <2>9, <2>10, <2>11, <2>12
<1>10. CASE place = 5
  <2>1. LineFeed
    BY <1>4, <1>10 DEF Position, Inside
  <2>2. phrase = << >> /\ commaCount = 0 /\ Len(delivered) = unit
    BY <2>1 DEF LineFeed
  <2>3. delivered' = delivered /\ commaCount' = 0
    BY <1>8, <2>2
  <2>4. unit' = unit + 1 /\ place' = 1
    BY <1>3, <1>10, ReadMoves
  <2> QED
    BY <1>3, <1>8, <2>2, <2>3, <2>4, NowBetween DEF NextOne
<1> QED
  BY <1>3, <1>9, <1>10

\* Any byte of any unit.
LEMMA ReadPosition ==
  ASSUME Readable, Position, protocol # "Fujitsu", NEW last \in BOOLEAN, ReadByte(last)
  PROVE  Position' /\ NextOne
<1>1. place \in Nat \ {0}
  BY HeadByte, UnitFacts DEF Readable
<1>2. CASE sent[unit] \in {"asciiPacket", "reply"} /\ place >= 4
  BY <1>2, ReadNewline
<1>3. CASE ~Binary(unit) /\ ~(sent[unit] \in {"asciiPacket", "reply"} /\ place >= 4)
  <2>1. sent[unit] \in {"asciiPacket", "reply"} => place < 4
    BY <1>1, <1>3
  <2> QED
    BY <1>3, <2>1, ReadCharacter
<1> QED
  BY <1>2, <1>3, ReadHead, ReadInPacket

(***************************************************************************)
(* A Fujitsu's packets: what is handed on is whole and has been read, and  *)
(* what is kept is the end of what has been read of its packet.            *)
(***************************************************************************)
\* The k bytes before place p of unit n.
Before(n, p, k) == [i \in 1..k |-> ByteOf(n, p - 1 - k + i)]

Kept == place > 1 => \E k \in 0 .. place - 1 : phrase = Before(unit, place, k)

Whole(h) == UnitOf(h) \in 1 .. unit - 1

AllWhole == \A i \in 1..Len(delivered) : Whole(delivered[i])

\* One more byte of what is kept.
LEMMA BeforeFacts ==
  ASSUME NEW n, NEW p \in Nat \ {0}, NEW k \in Nat, ByteOf(n, p) \in Byte,
         Before(n, p, k) \in Seq(Byte)
  PROVE  /\ Len(Before(n, p, k)) = k
         /\ Append(Before(n, p, k), ByteOf(n, p)) = Before(n, p + 1, k + 1)
<1>1. PICK text : text = Before(n, p, k)
  OBVIOUS
<1>2. PICK longer : longer = Append(text, ByteOf(n, p))
  OBVIOUS
<1>3. Len(text) = k /\ \A i \in 1..k : text[i] = ByteOf(n, p - 1 - k + i)
  BY <1>1 DEF Before
<1>4. /\ longer \in Seq(Byte) /\ Len(longer) = k + 1
      /\ \A i \in 1..k : longer[i] = text[i]
      /\ longer[k + 1] = ByteOf(n, p)
  BY <1>1, <1>2, <1>3, AppendProperties
<1>5. ASSUME NEW i \in 1 .. k + 1
      PROVE  longer[i] = ByteOf(n, (p + 1) - 1 - (k + 1) + i)
  <2>1. (p + 1) - 1 - (k + 1) + i = p - 1 - k + i
    OBVIOUS
  <2>2. CASE i \in 1..k
    BY <1>3, <1>4, <2>1, <2>2
  <2>3. CASE i = k + 1
    <3>1. (p + 1) - 1 - (k + 1) + i = p
      BY <2>3
    <3> QED
      BY <1>4, <2>3, <3>1
  <2> QED
    BY <2>2, <2>3
<1>6. longer = [i \in 1 .. k + 1 |-> longer[i]]
  <2>1. longer \in [1 .. k + 1 -> Byte]
    BY <1>4, LenProperties
  <2> QED
    BY <2>1
<1> QED
  BY <1>1, <1>2, <1>3, <1>5, <1>6 DEF Before

LEMMA BeforeNone ==
  ASSUME NEW n, NEW p
  PROVE  Before(n, p, 0) = << >>
  BY DEF Before

\* Where a byte takes the daemon, and what it hands on.
LEMMA ReadFujitsu ==
  ASSUME Readable, Kept, protocol = "Fujitsu", NEW last \in BOOLEAN, ReadByte(last)
  PROVE  /\ LineIn(sent, BinarySize, line)' /\ Steady' /\ Kept'
         /\ unit' \in {unit, unit + 1} /\ unit \in 1..Len(sent)
         /\ \/ delivered' = delivered
            \/ /\ unit' = unit + 1
               /\ \E h \in Handovers : delivered' = Append(delivered, h) /\ UnitOf(h) = unit
<1>1. /\ line \in Seq(Byte) /\ sent \in Seq(Kinds) /\ line # << >>
      /\ TypeOK /\ Steady /\ LineIn(sent, BinarySize, line)
  BY DEF Readable, TypeOK
<1>2. PICK b : b = Head(line)
  OBVIOUS
<1>3. /\ unit \in 1..Len(sent) /\ place \in 1..Length(unit) /\ b = ByteOf(unit, place)
      /\ b \in Byte /\ line[1] = b
  BY <1>1, <1>2, HeadByte
<1>4. /\ sent[unit] = "packet" /\ Length(unit) = FujitsuSize /\ Length(unit) \in Nat \ {0, 1}
      /\ Len(sent) \in Nat /\ place \in Nat \ {0}
  <2>1. sent[unit] = "packet"
    BY <1>1, <1>3, UnitFacts
  <2>2. Length(unit) = FujitsuSize /\ Length(unit) \in Nat \ {0, 1}
    BY <1>1, <1>3, <2>1, UnitFacts DEF BinarySize
  <2> QED
    BY <1>1, <1>3, <2>1, <2>2, LenProperties
<1>5. Binary(unit) /\ (b.class = "head" <=> place = 1)
  <2>1. Binary(unit)
    BY <1>4 DEF Binary, BinaryKinds
  <2> QED
    BY <1>1, <1>3, <2>1, ByteFacts
<1>6. /\ UNCHANGED <<protocol, tabletSize, packetSize, sent>>
      /\ line' = Tail(line) /\ Fujitsu(b, last)
  BY <1>2 DEF ReadByte, Swallows
<1>7. BinarySize' = BinarySize /\ Steady'
  BY <1>1, <1>6 DEF BinarySize, Steady
<1>8. /\ LineIn(sent, BinarySize, line)'
      /\ IF place = Length(unit) THEN unit' = unit + 1 /\ place' = 1
         ELSE unit' = unit /\ place' = place + 1
  <2>1. PICK t : t = Tail(line)
    OBVIOUS
  <2>2. line[1].unit = unit /\ line[1].place = place
    BY <1>3 DEF ByteOf, ByteIn
  <2>3. /\ LineIn(sent, BinarySize, t)
        /\ IF place = Length(unit)
           THEN UnitAt(sent, t) = unit + 1 /\ PlaceAt(t) = 1
           ELSE UnitAt(sent, t) = unit /\ PlaceAt(t) = place + 1
    BY <1>1, <2>1, <2>2, TailLine DEF Length
  <2>4. LineIn(sent, BinarySize, line)' /\ unit' = UnitAt(sent, t) /\ place' = PlaceAt(t)
    BY <1>6, <1>7, <2>1, <2>3 DEF unit, place
  <2> QED
    BY <2>3, <2>4
<1>9. PICK longer : longer = FujitsuPhrase(b)
  OBVIOUS
<1>10. /\ IF b.class # "head" /\ Len(longer) = FujitsuSize
          THEN HandOn(<<Handover("packet", longer)>>) ELSE delivered' = delivered
       /\ phrase' = IF last THEN << >> ELSE longer
  BY <1>6, <1>9 DEF Fujitsu
<1>11. PICK k \in 1..place : longer = Before(unit, place + 1, k) /\ Len(longer) = k
  <2>1. CASE place = 1
    <3>1. longer = <<b>>
      BY <1>5, <1>9, <2>1 DEF FujitsuPhrase
    <3>2. Before(unit, place + 1, 1) = [i \in 1..1 |-> ByteOf(unit, i)]
      <4>1. \A i \in 1..1 : (place + 1) - 1 - 1 + i = i
        BY <2>1
      <4> QED
        BY <4>1 DEF Before
    <3>3. longer = [i \in 1..1 |-> ByteOf(unit, i)] /\ Len(longer) = 1
      BY <1>3, <2>1, <3>1
    <3> QED
      BY <2>1, <3>2, <3>3
  <2>2. CASE place # 1
    <3>1. PICK j \in 0 .. place - 1 : phrase = Before(unit, place, j)
      <4>1. place > 1
        BY <1>4, <2>2
      <4> QED
        BY <4>1 DEF Kept
    <3>2. longer = Append(phrase, b)
      BY <1>5, <1>9, <2>2 DEF FujitsuPhrase
    <3>3. phrase \in Seq(Byte) /\ j \in Nat
      BY <1>1, <1>4 DEF TypeOK
    <3>4. longer = Before(unit, place + 1, j + 1) /\ Len(phrase) = j
      BY <1>3, <1>4, <3>1, <3>2, <3>3, BeforeFacts
    <3>5. Len(longer) = j + 1
      BY <1>3, <3>2, <3>3, <3>4, AppendProperties
    <3>6. j + 1 \in 1..place
      BY <1>4
    <3> QED
      BY <3>4, <3>5, <3>6
  <2> QED
    BY <2>1, <2>2
<1>12. Kept'
  <2>1. SUFFICES ASSUME place' > 1
                 PROVE  \E j \in 0 .. place' - 1 : phrase' = Before(unit, place, j)'
    BY DEF Kept
  <2>2. place # Length(unit) /\ unit' = unit /\ place' = place + 1
    BY <1>8, <2>1
  <2>3. \A j : Before(unit, place, j)' = Before(unit, place + 1, j)
    BY <1>6, <1>7, <2>2 DEF Before, ByteOf
  <2>4. k \in 0 .. place' - 1 /\ 0 \in 0 .. place' - 1
    BY <1>4, <2>2
  <2>5. phrase' = longer \/ phrase' = << >>
    BY <1>10
  <2> QED
    BY <1>11, <2>3, <2>4, <2>5, BeforeNone
<1>13. CASE b.class # "head" /\ Len(longer) = FujitsuSize
  <2>1. k = place /\ place = Length(unit)
    BY <1>3, <1>4, <1>11, <1>13
  <2>2. longer = Prefix(unit, place)
    <3>1. \A i \in 1..place : (place + 1) - 1 - place + i = i
      BY <1>4
    <3> QED
      BY <1>11, <2>1, <3>1 DEF Before, Prefix, PrefixIn, ByteOf
  <2>3. longer \in Seq(Byte)
    <3>1. phrase \in Seq(Byte)
      BY <1>1 DEF TypeOK
    <3> QED
      BY <1>3, <1>9, <1>13, <3>1 DEF FujitsuPhrase
  <2>4. PICK h : h = Handover("packet", longer)
    OBVIOUS
  <2>5. h \in Handovers /\ h.how = "packet" /\ h.bytes = longer
    BY <2>3, <2>4 DEF Handover, Handovers
  <2>6. Content(unit) = place /\ Content(unit) \in Nat \ {0}
    BY <1>1, <1>3, <1>5, <2>1, ContentFacts
  <2>7. h.how = HowFor(sent[unit])
    BY <1>4, <2>5 DEF HowFor, ReplyKinds
  <2>8. UnitOf(h) = unit
    BY <2>2, <2>5, <2>6, <2>7, WholeUnit
  <2>9. delivered' = Append(delivered, h)
    BY <1>1, <1>10, <1>13, <2>4, <2>5, HandOnOne DEF TypeOK
  <2> QED
    BY <1>3, <1>7, <1>8, <1>12, <2>1, <2>5, <2>8, <2>9
<1>14. CASE ~(b.class # "head" /\ Len(longer) = FujitsuSize)
  BY <1>3, <1>7, <1>8, <1>10, <1>12, <1>14
<1> QED
  BY <1>13, <1>14

(***************************************************************************)
(* The invariant.                                                          *)
(***************************************************************************)
Following ==
  /\ TypeOK /\ Steady /\ LineIn(sent, BinarySize, line)
  /\ protocol # "Fujitsu" => Position /\ InOrder
  /\ protocol = "Fujitsu" => Kept /\ AllWhole

\* The next byte is of a unit that was sent, or the first of one that was not.
LEMMA AtFacts ==
  ASSUME TypeOK, Steady, LineIn(sent, BinarySize, line)
  PROVE  /\ Len(sent) \in Nat /\ unit \in 1 .. Len(sent) + 1
         /\ place > 1 => unit \in 1..Len(sent) /\ place \in 1..Length(unit)
         /\ place \in Nat
<1>1. Len(sent) \in Nat
  BY LenProperties DEF TypeOK
<1>2. CASE line = << >>
  BY <1>1, <1>2 DEF unit, place, UnitAt, PlaceAt
<1>3. CASE line # << >>
  <2>1. unit \in 1..Len(sent) /\ place \in 1..Length(unit)
    BY <1>3, HeadByte DEF Readable
  <2> QED
    BY <1>1, <2>1
<1> QED
  BY <1>2, <1>3

\* A handover of a unit stays one while that unit does.
LEMMA SameUnit ==
  ASSUME NEW h, NEW n, UnitOf(h) = n, n # 0, sent'[n] = sent[n], BinarySize' = BinarySize
  PROVE  UnitOf(h)' = n
<1>1. Content(n)' = Content(n) /\ HowFor(sent[n])' = HowFor(sent[n])
  BY DEF Content, HowFor
<1>2. /\ h.bytes[1].unit = n /\ h.how = HowFor(sent[n]) /\ Len(h.bytes) = Content(n)
      /\ \A i \in 1..Len(h.bytes) : h.bytes[i].unit = n /\ h.bytes[i].place = i
  BY DEF UnitOf
<1> QED
  BY <1>1, <1>2 DEF UnitOf

\* No more is handed on than was sent.
LEMMA Behind ==
  ASSUME Following
  PROVE  /\ protocol # "Fujitsu" => Len(delivered) \in 0..Len(sent)
         /\ \A i \in 1..Len(delivered) : UnitOf(delivered[i]) \in 1..Len(sent)
<1>1. /\ Len(sent) \in Nat /\ unit \in 1 .. Len(sent) + 1 /\ Len(delivered) \in Nat
      /\ place > 1 => unit \in 1..Len(sent)
  BY AtFacts, LenProperties DEF Following, TypeOK
<1>2. protocol # "Fujitsu" => Len(delivered) \in 0..Len(sent)
  BY <1>1 DEF Following, Position, Between, Pending, Inside, LineFeed
<1>3. ASSUME NEW i \in 1..Len(delivered)
      PROVE  UnitOf(delivered[i]) \in 1..Len(sent)
  BY <1>1, <1>2 DEF Following, InOrder, AllWhole, Whole
<1> QED
  BY <1>2, <1>3

LEMMA InitFollowing == Init => Following
<1> SUFFICES ASSUME Init PROVE Following
  OBVIOUS
<1>1. TypeOK
  BY InitInv DEF Inv
<1>2. Len(sent) = 0 /\ Len(line) = 0 /\ Len(delivered) = 0 /\ line = << >>
  BY DEF Init
<1>3. Steady
  BY <1>2 DEF Init, Steady
<1>4. LineIn(sent, BinarySize, line)
  BY <1>2 DEF LineIn
<1>5. unit = 1 /\ place = 1
  BY <1>2 DEF unit, place, UnitAt, PlaceAt
<1>6. Position
  BY <1>2, <1>5 DEF Init, Position, Between
<1>7. InOrder /\ AllWhole /\ Kept
  BY <1>2, <1>5 DEF InOrder, AllWhole, Kept
<1> QED
  BY <1>1, <1>3, <1>4, <1>6, <1>7 DEF Following

\* A unit is sent: what the daemon has read stays.
LEMMA SendFollowing ==
  ASSUME Following, NEW kind, Send(kind), TypeOK'
  PROVE  /\ Following' /\ Len(sent') = Len(sent) + 1
         /\ \A i \in 1..Len(delivered) : UnitOf(delivered[i])' = UnitOf(delivered[i])
<1>1. TypeOK /\ Steady /\ LineIn(sent, BinarySize, line)
  BY DEF Following
<1>2. /\ kind \in UnitKinds(protocol) /\ kind \in Kinds /\ sent' = Append(sent, kind)
      /\ line' = line \o Encoded(kind, Len(sent) + 1)
      /\ UNCHANGED <<protocol, tabletSize, packetSize, phrase, inPacket, commaCount, delivered>>
  BY <1>1, FramerAssumption DEF Send, framing, UnitKinds, Kinds, TypeOK, Protocol
<1>3. /\ Len(sent') = Len(sent) + 1 /\ Len(sent) \in Nat
      /\ \A n \in 1..Len(sent) : sent'[n] = sent[n]
      /\ sent'[Len(sent) + 1] = kind
  BY <1>1, <1>2, AppendProperties, LenProperties DEF TypeOK
<1>4. BinarySize' = BinarySize
  BY <1>2 DEF BinarySize
<1>5. Steady'
  <2>1. \A n \in 1..Len(sent') : n \in 1..Len(sent) \/ n = Len(sent) + 1
    BY <1>3
  <2> QED
    BY <1>1, <1>2, <1>3, <2>1 DEF Steady
<1>6. LineIn(sent, BinarySize, line)' /\ unit' = unit /\ place' = place
  <2>1. PICK classes : classes = Classes(kind, BinarySize)
    OBVIOUS
  <2>2. PICK e : e = Encoded(kind, Len(sent) + 1)
    OBVIOUS
  <2>3. Len(classes) \in Nat \ {0}
    <3>1. BinarySize \in Nat \ {0, 1} /\ QuerySize \in Nat \ {0, 1}
      BY <1>1, FramerAssumption DEF BinarySize, TypeOK
    <3>2. CASE kind \in BinaryKinds
      BY <2>1, <3>1, <3>2, BinaryClasses
    <3>3. CASE kind \notin BinaryKinds
      <4>1. kind \in {"asciiPacket", "reply", "sdReply"}
        BY <1>2, <3>3 DEF Kinds, BinaryKinds
      <4> QED
        BY <2>1, <4>1, LineClasses
    <3> QED
      BY <3>2, <3>3
  <2>4. e \in Seq(Byte)
    BY <1>1, <1>2, <1>3, <2>2, EncodedType
  <2>5. PICK m : m = Len(sent) + 1
    OBVIOUS
  <2>6. e = [i \in 1..Len(classes) |-> [class |-> classes[i], unit |-> m, place |-> i]]
    BY <2>1, <2>2, <2>5 DEF Encoded
  <2>7. PICK r : r = Append(sent, kind)
    OBVIOUS
  <2>8. r[m] = kind
    BY <1>2, <1>3, <2>5, <2>7
  <2>9. Len(e) = Len(classes) /\ LengthIn(r, BinarySize, m) = Len(classes)
    BY <2>1, <2>3, <2>6, <2>8 DEF LengthIn
  <2>10. AreBytesOf(r, BinarySize, m, e)
    <3>1. \A i \in 1..Len(e) : /\ e[i].unit = m /\ e[i].place = i
                              /\ e[i] = ByteIn(r, BinarySize, m, i)
      BY <2>1, <2>6, <2>8, <2>9 DEF ByteIn
    <3>2. Len(e) # 0
      BY <2>3, <2>9
    <3> QED
      BY <2>9, <3>1, <3>2 DEF AreBytesOf
  <2>11. sent \in Seq(Kinds) /\ line \in Seq(Byte)
    BY <1>1 DEF TypeOK
  <2>12. /\ LineIn(r, BinarySize, line \o e)
         /\ UnitAt(r, line \o e) = UnitAt(sent, line)
         /\ PlaceAt(line \o e) = PlaceAt(line)
    <3>1. AreBytesOf(Append(sent, kind), BinarySize, Len(sent) + 1, e)
      BY <2>5, <2>7, <2>10
    <3>2. /\ LineIn(Append(sent, kind), BinarySize, line \o e)
          /\ UnitAt(Append(sent, kind), line \o e) = UnitAt(sent, line)
          /\ PlaceAt(line \o e) = PlaceAt(line)
      BY <1>1, <1>2, <2>4, <2>11, <3>1, LongerLine
    <3> QED
      BY <2>7, <3>2
  <2> QED
    BY <1>2, <1>4, <2>2, <2>7, <2>12 DEF unit, place
<1>7. /\ unit \in 1 .. Len(sent) + 1 /\ place \in Nat
      /\ place > 1 => unit \in 1..Len(sent)
  BY <1>1, AtFacts
<1>8. ASSUME NEW i \in 1..Len(delivered)
      PROVE  UnitOf(delivered[i])' = UnitOf(delivered[i])
  <2>1. PICK h : h = delivered[i]
    OBVIOUS
  <2>2. PICK n \in 1..Len(sent) : n = UnitOf(h)
    BY <2>1, Behind
  <2>3. n # 0 /\ sent'[n] = sent[n]
    BY <1>3
  <2>4. UnitOf(h)' = n
    BY <1>4, <2>2, <2>3, SameUnit
  <2> QED
    BY <1>2, <2>1, <2>2, <2>4
<1>9. CASE protocol # "Fujitsu"
  <2>1. Position /\ InOrder
    BY <1>9 DEF Following
  <2>2. ASSUME Between PROVE Position'
    BY <1>2, <1>6, <2>2 DEF Position, Between
  <2>3. ASSUME Pending PROVE Position'
    <3>1. PICK n : n = unit - 1
      OBVIOUS
    <3>2. n \in 1..Len(sent) /\ unit' - 1 = n
      BY <1>3, <1>6, <1>7, <2>3, <3>1 DEF Pending
    <3>3. sent'[n] = sent[n]
      BY <1>3, <3>2
    <3>4. /\ LengthIn(sent', BinarySize, n) = LengthIn(sent, BinarySize, n)
          /\ \A k : PrefixIn(sent', BinarySize, n, k) = PrefixIn(sent, BinarySize, n, k)
      BY <3>3 DEF LengthIn, PrefixIn, ByteIn
    <3>5. Prefix(unit - 1, Length(unit - 1))' = Prefix(n, Length(n))
      BY <1>4, <3>2, <3>4 DEF Prefix, Length
    <3>6. sent'[unit' - 1] = sent[n]
      BY <3>2, <3>3
    <3> QED
      BY <1>2, <1>6, <2>3, <3>1, <3>5, <3>6 DEF Position, Pending, IsTabletPC
  <2>4. ASSUME Inside PROVE Position'
    <3>1. PICK n : n = unit
      OBVIOUS
    <3>2. n \in 1..Len(sent) /\ sent'[n] = sent[n]
      BY <1>3, <1>7, <2>4, <3>1 DEF Inside
    <3>3. \A k : PrefixIn(sent', BinarySize, n, k) = PrefixIn(sent, BinarySize, n, k)
      BY <3>2 DEF PrefixIn, ByteIn
    <3>4. Prefix(unit, place - 1)' = Prefix(unit, place - 1) /\ Binary(unit)' = Binary(unit)
      BY <1>4, <1>6, <3>1, <3>2, <3>3 DEF Prefix, Binary
    <3> QED
      BY <1>2, <1>6, <2>4, <3>1, <3>2, <3>4 DEF Position, Inside
  <2>5. ASSUME LineFeed PROVE Position'
    <3>1. unit \in 1..Len(sent)
      BY <1>7, <2>5 DEF LineFeed
    <3>2. sent'[unit] = sent[unit]
      BY <1>3, <3>1
    <3> QED
      BY <1>2, <1>6, <2>5, <3>2 DEF Position, LineFeed
  <2>6. Position'
    BY <2>1, <2>2, <2>3, <2>4, <2>5 DEF Position
  <2>7. InOrder'
    BY <1>2, <1>8, <2>1 DEF InOrder
  <2> QED
    BY <1>2, <1>3, <1>5, <1>6, <1>8, <1>9, <2>6, <2>7 DEF Following
<1>10. CASE protocol = "Fujitsu"
  <2>1. Kept /\ AllWhole
    BY <1>10 DEF Following
  <2>2. Kept'
    <3>1. SUFFICES ASSUME place > 1
                   PROVE  \E k \in 0 .. place - 1 : phrase' = Before(unit, place, k)'
      BY <1>6 DEF Kept
    <3>2. PICK n : n = unit
      OBVIOUS
    <3>3. n \in 1..Len(sent) /\ sent'[n] = sent[n]
      BY <1>3, <1>7, <3>1, <3>2
    <3>4. \A i : ByteIn(sent', BinarySize, n, i) = ByteIn(sent, BinarySize, n, i)
      BY <3>3 DEF ByteIn
    <3>5. \A k : Before(unit, place, k)' = Before(unit, place, k)
      BY <1>4, <1>6, <3>2, <3>4 DEF Before, ByteOf
    <3> QED
      BY <1>2, <2>1, <3>1, <3>5 DEF Kept
  <2>3. AllWhole'
    BY <1>2, <1>6, <1>8, <2>1 DEF AllWhole, Whole
  <2> QED
    BY <1>2, <1>3, <1>5, <1>6, <1>8, <1>10, <2>2, <2>3 DEF Following
<1> QED
  BY <1>9, <1>10

\* What is handed on goes to the end of what was.
LEMMA OneMoreDelivered ==
  ASSUME TypeOK, NEW h \in Handovers, delivered' = Append(delivered, h)
  PROVE  /\ Len(delivered) \in Nat /\ Len(delivered') = Len(delivered) + 1
         /\ \A i \in 1..Len(delivered) : delivered'[i] = delivered[i]
         /\ delivered'[Len(delivered) + 1] = h
         /\ \A i \in 1..Len(delivered') : i \in 1..Len(delivered) \/ i = Len(delivered) + 1
<1>1. /\ Len(delivered) \in Nat /\ Len(delivered') = Len(delivered) + 1
      /\ \A i \in 1..Len(delivered) : delivered'[i] = delivered[i]
      /\ delivered'[Len(delivered) + 1] = h
  BY AppendProperties, LenProperties DEF TypeOK
<1> QED
  BY <1>1

\* A byte hands on nothing, or the next unit; a Fujitsu's, one that comes later.
Advance ==
  \/ delivered' = delivered
  \/ \E h \in Handovers :
       /\ delivered' = Append(delivered, h) /\ UnitOf(h) \in 1..Len(sent)
       /\ protocol # "Fujitsu" => UnitOf(h) = Len(delivered) + 1
       /\ \A i \in 1..Len(delivered) : UnitOf(delivered[i]) < UnitOf(h)

LEMMA ReadFollowing ==
  ASSUME Following, NEW last \in BOOLEAN, ReadByte(last), TypeOK'
  PROVE  Following' /\ Advance
<1>1. /\ TypeOK /\ Steady /\ LineIn(sent, BinarySize, line) /\ Readable
      /\ UNCHANGED <<protocol, tabletSize, packetSize, sent>> /\ Len(sent) \in Nat
  BY LenProperties DEF Following, Readable, ReadByte, TypeOK
<1>2. BinarySize' = BinarySize /\ \A h : UnitOf(h)' = UnitOf(h)
  <2>1. BinarySize' = BinarySize
    BY <1>1 DEF BinarySize
  <2>2. \A n : Content(n)' = Content(n) /\ HowFor(sent[n])' = HowFor(sent[n])
    BY <1>1, <2>1 DEF Content, HowFor
  <2> QED
    BY <1>1, <2>1, <2>2 DEF UnitOf
<1>3. CASE protocol # "Fujitsu"
  <2>1. Position /\ InOrder
    BY <1>3 DEF Following
  <2>2. /\ LineIn(sent, BinarySize, line)' /\ Steady'
        /\ Position' /\ NextOne
    BY <1>1, <1>3, <2>1, ReadMoves, ReadPosition
  <2>3. InOrder'
    <3>1. CASE delivered' = delivered
      BY <1>2, <2>1, <3>1 DEF InOrder
    <3>2. ASSUME NEW h \in Handovers, delivered' = Append(delivered, h),
                 UnitOf(h) = Len(delivered) + 1
          PROVE  InOrder'
      <4>1. /\ \A i \in 1..Len(delivered) : delivered'[i] = delivered[i]
            /\ delivered'[Len(delivered) + 1] = h
            /\ \A i \in 1..Len(delivered') : i \in 1..Len(delivered) \/ i = Len(delivered) + 1
        BY <1>1, <3>2, OneMoreDelivered
      <4>2. ASSUME NEW i \in 1..Len(delivered') PROVE UnitOf(delivered[i])' = i
        BY <1>2, <2>1, <3>2, <4>1 DEF InOrder
      <4> QED
        BY <4>2 DEF InOrder
    <3> QED
      BY <2>2, <3>1, <3>2 DEF NextOne
  <2>4. Following'
    BY <1>1, <1>3, <2>2, <2>3 DEF Following
  <2>5. Advance
    <3>1. CASE delivered' = delivered
      BY <3>1 DEF Advance
    <3>2. ASSUME NEW h \in Handovers, delivered' = Append(delivered, h),
                 UnitOf(h) = Len(delivered) + 1
          PROVE  Advance
      <4>1. Len(delivered) \in Nat /\ Len(delivered') = Len(delivered) + 1
        BY <1>1, <3>2, OneMoreDelivered
      <4>2. Len(delivered') \in 0..Len(sent')
        <5>1. unit \in 1..Len(sent)
          BY <1>1, HeadByte
        <5>2. unit' = unit \/ (unit' = unit + 1 /\ place' = 1)
          BY <1>1, <1>3, <2>1, ReadMoves
        <5>3. \/ Len(delivered') \in {unit' - 1, unit' - 2}
              \/ Len(delivered') = unit' /\ place' = 5
          BY <2>2 DEF Position, Between, Pending, Inside, LineFeed
        <5> QED
          BY <1>1, <4>1, <5>1, <5>2, <5>3
      <4>3. UnitOf(h) \in 1..Len(sent)
        BY <1>1, <3>2, <4>1, <4>2
      <4>4. \A i \in 1..Len(delivered) : UnitOf(delivered[i]) < UnitOf(h)
        BY <2>1, <3>2, <4>1 DEF InOrder
      <4> QED
        BY <3>2, <4>3, <4>4 DEF Advance
    <3> QED
      BY <2>2, <3>1, <3>2 DEF NextOne
  <2> QED
    BY <2>4, <2>5
<1>4. CASE protocol = "Fujitsu"
  <2>1. Kept /\ AllWhole
    BY <1>4 DEF Following
  <2>2. /\ LineIn(sent, BinarySize, line)' /\ Steady' /\ Kept'
        /\ unit' \in {unit, unit + 1} /\ unit \in 1..Len(sent)
        /\ \/ delivered' = delivered
           \/ /\ unit' = unit + 1
              /\ \E h \in Handovers : delivered' = Append(delivered, h) /\ UnitOf(h) = unit
    BY <1>1, <1>4, <2>1, ReadFujitsu
  <2>3. \A h : Whole(h) => UnitOf(h)' \in 1 .. unit' - 1
    BY <1>1, <1>2, <2>2 DEF Whole
  <2>4. CASE delivered' = delivered
    <3>1. AllWhole'
      BY <2>1, <2>3, <2>4 DEF AllWhole, Whole
    <3> QED
      BY <1>1, <1>4, <2>2, <2>4, <3>1 DEF Following, Advance
  <2>5. ASSUME unit' = unit + 1, NEW h \in Handovers, delivered' = Append(delivered, h),
               UnitOf(h) = unit
        PROVE  AllWhole' /\ Advance
    <3>1. /\ \A i \in 1..Len(delivered) : delivered'[i] = delivered[i]
          /\ delivered'[Len(delivered) + 1] = h
          /\ \A i \in 1..Len(delivered') : i \in 1..Len(delivered) \/ i = Len(delivered) + 1
      BY <1>1, <2>5, OneMoreDelivered
    <3>2. UnitOf(h)' \in 1 .. unit' - 1
      BY <1>1, <1>2, <2>2, <2>5
    <3>3. ASSUME NEW i \in 1..Len(delivered') PROVE UnitOf(delivered[i])' \in 1 .. unit' - 1
      <4>1. CASE i \in 1..Len(delivered)
        <5>1. PICK g : g = delivered[i]
          OBVIOUS
        <5>2. Whole(g) /\ delivered'[i] = g
          BY <2>1, <3>1, <4>1, <5>1 DEF AllWhole
        <5>3. UnitOf(g)' \in 1 .. unit' - 1
          BY <2>3, <5>2
        <5> QED
          BY <5>2, <5>3
      <4>2. CASE i = Len(delivered) + 1
        BY <3>1, <3>2, <4>2
      <4> QED
        BY <3>1, <4>1, <4>2
    <3>4. AllWhole'
      BY <3>3 DEF AllWhole, Whole
    <3>5. \A i \in 1..Len(delivered) : UnitOf(delivered[i]) < UnitOf(h)
      BY <1>1, <2>1, <2>2, <2>5 DEF AllWhole, Whole
    <3> QED
      BY <1>4, <2>2, <2>5, <3>4, <3>5 DEF Advance
  <2> QED
    BY <1>1, <1>4, <2>2, <2>4, <2>5 DEF Following
<1> QED
  BY <1>3, <1>4

\* Nothing else happens on a reliable line.
LEMMA ReliableNext ==
  ASSUME Reliable, Following, [Next]_vars
  PROVE  \/ \E kind : Send(kind)
         \/ \E last \in BOOLEAN : ReadByte(last)
         \/ UNCHANGED vars
<1>1. tabletSize = packetSize
  BY DEF Following, Steady
<1> QED
  BY <1>1 DEF Next, Reliable, LoseByte, Import, TabletObeys

LEMMA NextFollowing ==
  ASSUME Reliable, Following, Inv, Inv', [Next]_vars
  PROVE  Following'
<1>1. TypeOK'
  BY DEF Inv
<1>2. ASSUME UNCHANGED vars PROVE Following'
  <2>1. BinarySize' = BinarySize /\ unit' = unit /\ place' = place /\ TypeOK'
    BY <1>1, <1>2 DEF vars, BinarySize, unit, place
  <2>2. Steady' /\ LineIn(sent, BinarySize, line)'
    BY <1>2, <2>1 DEF Following, Steady, vars
  <2>3. \A n : Length(n)' = Length(n)
    BY <1>2, <2>1 DEF Length, vars
  <2>4. \A n, k : Prefix(n, k)' = Prefix(n, k)
    BY <1>2, <2>1 DEF Prefix, vars
  <2>5. \A n, p, k : Before(n, p, k)' = Before(n, p, k)
    BY <1>2, <2>1 DEF Before, ByteOf, vars
  <2>6. \A h : UnitOf(h)' = UnitOf(h)
    <3>1. \A n : Content(n)' = Content(n) /\ HowFor(sent[n])' = HowFor(sent[n])
      BY <1>2, <2>1 DEF Content, HowFor, vars
    <3> QED
      BY <1>2, <2>1, <3>1 DEF UnitOf, vars
  <2>7. Position => Position'
    BY <1>2, <2>1, <2>3, <2>4
    DEF Position, Between, Pending, Inside, LineFeed, IsTabletPC, Binary, vars
  <2>8. (InOrder => InOrder') /\ (Kept => Kept') /\ (AllWhole => AllWhole')
    BY <1>2, <2>1, <2>5, <2>6 DEF InOrder, Kept, AllWhole, Whole, vars
  <2> QED
    BY <1>2, <2>1, <2>2, <2>7, <2>8 DEF Following, vars
<1> QED
  BY <1>1, <1>2, ReliableNext, SendFollowing, ReadFollowing

(***************************************************************************)
(* The channel.                                                            *)
(***************************************************************************)
Input == [i \in 1..Len(sent) |-> i]

\* What comes out next has not been passed.
LEMMA PassedFacts ==
  ASSUME Following
  PROVE  /\ protocol # "Fujitsu" => Stream!Passed = Len(delivered)
         /\ delivered = << >> => Stream!Passed = 0
         /\ delivered # << >> => Stream!Passed = UnitOf(delivered[Len(delivered)])
<1>1. Len(delivered) \in Nat /\ (delivered = << >> <=> Len(delivered) = 0)
  <2>1. delivered \in Seq(Handovers)
    BY DEF Following, TypeOK
  <2> QED
    BY <2>1, EmptySeq, LenProperties
<1>2. /\ Output = << >> <=> delivered = << >>
      /\ Len(Output) = Len(delivered)
      /\ \A i \in 1..Len(delivered) : Output[i] = UnitOf(delivered[i])
  <2>1. Len(Output) = Len(delivered) /\ \A i \in 1..Len(delivered) : Output[i] = UnitOf(delivered[i])
    BY <1>1 DEF Output
  <2>2. delivered = << >> => Output = << >>
    BY <1>1 DEF Output
  <2>3. Output = << >> => Len(Output) = 0
    OBVIOUS
  <2> QED
    BY <1>1, <2>1, <2>2, <2>3
<1>3. /\ Len(Input) = Len(sent) /\ \A i \in 1..Len(sent) : Input[i] = i
  BY LenProperties DEF Input, Following, TypeOK
<1>4. Stream!Passed = IF Output = << >> THEN 0
                      ELSE CHOOSE n \in 1..Len(Input) : Input[n] = Output[Len(Output)]
  BY DEF Stream!Passed, Input
<1>5. CASE delivered = << >>
  BY <1>1, <1>2, <1>4, <1>5
<1>6. CASE delivered # << >>
  <2>1. PICK u : u = UnitOf(delivered[Len(delivered)])
    OBVIOUS
  <2>2. Len(delivered) \in 1..Len(delivered)
    BY <1>1, <1>6
  <2>3. u \in 1..Len(sent) /\ Output[Len(Output)] = u
    BY <1>2, <2>1, <2>2, Behind
  <2>4. Stream!Passed = CHOOSE n \in 1..Len(Input) : Input[n] = u
    BY <1>2, <1>4, <1>6, <2>3
  <2>5. \A n \in 1..Len(Input) : Input[n] = u <=> n = u
    BY <1>3
  <2>6. Stream!Passed = u
    BY <1>3, <2>3, <2>4, <2>5
  <2>7. protocol # "Fujitsu" => u = Len(delivered)
    BY <2>1, <2>2 DEF Following, InOrder
  <2> QED
    BY <1>6, <2>1, <2>6, <2>7
<1> QED
  BY <1>5, <1>6

\* Sending is putting in, and a byte takes out at most one item.
LEMMA StreamNext ==
  ASSUME Reliable, Following, Inv, Inv', [Next]_vars
  PROVE  [Stream!Next]_(Stream!vars)
<1>1. TypeOK'
  BY DEF Inv
<1>2. TypeOK /\ Len(sent) \in Nat /\ Len(delivered) \in Nat
  BY LenProperties DEF Inv, TypeOK
<1>3. ASSUME NEW kind, Send(kind) PROVE Stream!Next
  <2>1. PICK m : m = Len(sent) + 1
    OBVIOUS
  <2>2. /\ Len(sent') = m /\ delivered' = delivered /\ protocol' = protocol /\ Len(sent) < MaxUnits
        /\ \A i \in 1..Len(delivered) : UnitOf(delivered[i])' = UnitOf(delivered[i])
    BY <1>1, <1>3, <2>1, SendFollowing DEF Send
  <2>3. m \in 1..MaxUnits
    BY <1>2, <2>1, <2>2, FramerAssumption
  <2>4. Input' = Append(Input, m)
    BY <1>2, <2>1, <2>2 DEF Input
  <2>5. Output' = Output
    BY <2>2 DEF Output
  <2>6. (protocol = "Fujitsu")' = (protocol = "Fujitsu")
    BY <2>2
  <2>7. Stream!Put(m)
    BY <2>4, <2>5, <2>6 DEF Stream!Put, Input
  <2> QED
    BY <2>3, <2>7 DEF Stream!Next
<1>4. ASSUME NEW last \in BOOLEAN, ReadByte(last) PROVE [Stream!Next]_(Stream!vars)
  <2>1. sent' = sent /\ protocol' = protocol /\ BinarySize' = BinarySize
    BY <1>4 DEF ReadByte, BinarySize
  <2>2. \A h : UnitOf(h)' = UnitOf(h)
    <3>1. \A n : Content(n)' = Content(n) /\ HowFor(sent[n])' = HowFor(sent[n])
      BY <2>1 DEF Content, HowFor
    <3> QED
      BY <2>1, <3>1 DEF UnitOf
  <2>3. Input' = Input /\ (protocol = "Fujitsu")' = (protocol = "Fujitsu")
    BY <2>1 DEF Input
  <2>4. CASE delivered' = delivered
    <3>1. Output' = Output
      BY <2>2, <2>4 DEF Output
    <3> QED
      BY <2>3, <3>1 DEF Stream!vars, Input
  <2>5. ASSUME NEW h \in Handovers, delivered' = Append(delivered, h), UnitOf(h) \in 1..Len(sent),
               protocol # "Fujitsu" => UnitOf(h) = Len(delivered) + 1,
               \A i \in 1..Len(delivered) : UnitOf(delivered[i]) < UnitOf(h)
        PROVE  Stream!Next
    <3>1. PICK n \in 1..Len(sent) : n = UnitOf(h)
      BY <2>5
    <3>2. Stream!Passed < n
      <4>1. CASE delivered = << >>
        BY <1>2, <4>1, PassedFacts
      <4>2. CASE delivered # << >>
        <5>1. Len(delivered) \in 1..Len(delivered)
          BY <1>2, <4>2, EmptySeq DEF TypeOK
        <5> QED
          BY <2>5, <3>1, <4>2, <5>1, PassedFacts
      <4> QED
        BY <4>1, <4>2
    <3>3. ~(protocol = "Fujitsu") => n = Stream!Passed + 1
      BY <2>5, <3>1, PassedFacts
    <3>4. Output' = Append(Output, n)
      <4>1. /\ Len(delivered') = Len(delivered) + 1
            /\ \A i \in 1..Len(delivered) : delivered'[i] = delivered[i]
            /\ delivered'[Len(delivered) + 1] = h
            /\ \A i \in 1..Len(delivered') : i \in 1..Len(delivered) \/ i = Len(delivered) + 1
        BY <1>2, <2>5, OneMoreDelivered
      <4>2. \A i \in 1..Len(delivered') :
              UnitOf(delivered[i])' = IF i <= Len(delivered) THEN UnitOf(delivered[i]) ELSE n
        BY <1>2, <2>2, <3>1, <4>1
      <4> QED
        BY <1>2, <4>1, <4>2 DEF Output
    <3>5. Len(Input) = Len(sent) /\ Input[n] = n
      BY <1>2, <3>1 DEF Input
    <3>6. Stream!Take(n)
      BY <2>3, <3>2, <3>3, <3>4, <3>5 DEF Stream!Take, Input
    <3> QED
      BY <3>1, <3>5, <3>6 DEF Stream!Next, Input
  <2>6. Advance
    BY <1>1, <1>4, ReadFollowing
  <2> QED
    BY <2>4, <2>5, <2>6 DEF Advance
<1>5. ASSUME UNCHANGED vars PROVE UNCHANGED Stream!vars
  <2>1. BinarySize' = BinarySize
    BY <1>5 DEF vars, BinarySize
  <2>2. \A n : Content(n)' = Content(n) /\ HowFor(sent[n])' = HowFor(sent[n])
    BY <1>5, <2>1 DEF Content, HowFor, vars
  <2>3. \A h : UnitOf(h)' = UnitOf(h)
    BY <1>5, <2>1, <2>2 DEF UnitOf, vars
  <2>4. Output' = Output /\ Input' = Input /\ (protocol = "Fujitsu")' = (protocol = "Fujitsu")
    BY <1>5, <2>3 DEF Output, Input, vars
  <2> QED
    BY <2>4 DEF Stream!vars, Input
<1> QED
  BY <1>3, <1>4, <1>5, ReliableNext

LEMMA StreamInit == Init => Stream!Init
  BY DEF Init, Stream!Init, Output

\* For all tablets, packet sizes and numbers of units: every packet and reply of
\* a line that loses nothing comes out once, whole, as what it is and in order,
\* wherever the reads end; a Fujitsu's packet at most once.
THEOREM FirstInFirstOutHolds ==
  ASSUME Reliable
  PROVE  Spec => FirstInFirstOut
<1>1. Following /\ Inv /\ Inv' /\ [Next]_vars => Following'
  BY NextFollowing
<1>2. Following /\ Inv /\ Inv' /\ [Next]_vars => [Stream!Next]_(Stream!vars)
  BY StreamNext
<1> QED
  BY <1>1, <1>2, InitFollowing, StreamInit, Invariant, PTL
  DEF Spec, FirstInFirstOut, Stream!Spec

(***************************************************************************)
(* The phrase.                                                             *)
(***************************************************************************)
\* A tablet has a longest unit, and a TabletPC's is the query reply.
LEMMA LongestFacts ==
  ASSUME TypeOK, Steady, protocol # "Fujitsu"
  PROVE  /\ LongestUnit \in Nat \ {0}
         /\ \A kind \in UnitKinds(protocol) : Len(Classes(kind, tabletSize)) <= LongestUnit
         /\ IsTabletPC => QuerySize <= LongestUnit
<1>1. PICK kinds : kinds = UnitKinds(protocol)
  OBVIOUS
<1>2. PICK L : L = [k \in kinds |-> Len(Classes(k, tabletSize))]
  OBVIOUS
<1>3. tabletSize \in Nat \ {0, 1} /\ QuerySize \in Nat \ {0, 1} /\ tabletSize < QuerySize
  BY FramerAssumption DEF TypeOK
<1>4. /\ Len(Classes("packet", tabletSize)) = tabletSize
      /\ Len(Classes("newlinePacket", tabletSize)) = tabletSize
      /\ Len(Classes("query", tabletSize)) = QuerySize
      /\ Len(Classes("asciiPacket", tabletSize)) = 5
      /\ Len(Classes("reply", tabletSize)) = 5
      /\ Len(Classes("sdReply", tabletSize)) = 7
  <2>1. \A kind \in BinaryKinds :
          Len(Classes(kind, tabletSize)) = IF kind = "query" THEN QuerySize ELSE tabletSize
    BY <1>3, BinaryClasses
  <2> QED
    BY <2>1, LineClasses DEF BinaryKinds
<1>5. /\ \A k \in kinds : L[k] = IF k \in {"packet", "newlinePacket"} THEN tabletSize
                                 ELSE IF k = "query" THEN QuerySize
                                 ELSE IF k = "sdReply" THEN 7 ELSE 5
      /\ \/ kinds = {"packet", "newlinePacket", "reply"}
         \/ kinds = {"packet", "asciiPacket", "reply"}
         \/ kinds = {"packet", "sdReply"}
         \/ kinds = {"packet", "newlinePacket", "query"}
      /\ IsTabletPC => "query" \in kinds
  <2>1. protocol \in {"IV", "IIS", "SD", "TabletPC"}
    BY FramerAssumption DEF TypeOK, Protocol
  <2>2. CASE protocol = "IV"
    BY <1>1, <1>2, <1>4, <2>2 DEF UnitKinds, IsTabletPC
  <2>3. CASE protocol = "IIS"
    BY <1>1, <1>2, <1>4, <2>3 DEF UnitKinds, IsTabletPC
  <2>4. CASE protocol = "SD"
    BY <1>1, <1>2, <1>4, <2>4 DEF UnitKinds, IsTabletPC
  <2>5. CASE protocol = "TabletPC"
    BY <1>1, <1>2, <1>4, <2>5 DEF UnitKinds, IsTabletPC
  <2> QED
    BY <2>1, <2>2, <2>3, <2>4, <2>5
<1>6. PICK top \in kinds : \A k \in kinds : L[k] <= L[top]
  <2>1. CASE kinds = {"packet", "newlinePacket", "reply"}
    <3>1. CASE tabletSize >= 5
      BY <1>3, <1>5, <2>1, <3>1
    <3>2. CASE ~(tabletSize >= 5)
      BY <1>3, <1>5, <2>1, <3>2
    <3> QED
      BY <3>1, <3>2
  <2>2. CASE kinds = {"packet", "asciiPacket", "reply"}
    <3>1. CASE tabletSize >= 5
      BY <1>3, <1>5, <2>2, <3>1
    <3>2. CASE ~(tabletSize >= 5)
      BY <1>3, <1>5, <2>2, <3>2
    <3> QED
      BY <3>1, <3>2
  <2>3. CASE kinds = {"packet", "sdReply"}
    <3>1. CASE tabletSize >= 7
      BY <1>3, <1>5, <2>3, <3>1
    <3>2. CASE ~(tabletSize >= 7)
      BY <1>3, <1>5, <2>3, <3>2
    <3> QED
      BY <3>1, <3>2
  <2>4. CASE kinds = {"packet", "newlinePacket", "query"}
    BY <1>3, <1>5, <2>4
  <2> QED
    BY <1>5, <2>1, <2>2, <2>3, <2>4
<1>7. PICK lengths : lengths = {Len(Classes(k, tabletSize)) : k \in kinds}
  OBVIOUS
<1>8. LongestUnit = CHOOSE n \in lengths : \A k \in kinds : Len(Classes(k, tabletSize)) <= n
  BY <1>1, <1>7 DEF LongestUnit
<1>9. \E n \in lengths : \A k \in kinds : Len(Classes(k, tabletSize)) <= n
  BY <1>2, <1>6, <1>7
<1>10. LongestUnit \in lengths /\ \A k \in kinds : Len(Classes(k, tabletSize)) <= LongestUnit
  BY <1>8, <1>9
<1>11. \A n \in lengths : n \in Nat \ {0}
  <2>1. \A k \in kinds : L[k] \in Nat \ {0}
    BY <1>3, <1>5
  <2>2. \A n \in lengths : \E k \in kinds : n = L[k]
    BY <1>2, <1>7
  <2> QED
    BY <2>1, <2>2
<1>12. IsTabletPC => QuerySize <= LongestUnit
  BY <1>4, <1>5, <1>10
<1> QED
  BY <1>1, <1>10, <1>11, <1>12

\* For all tablets and packet sizes, on a line that loses nothing, phrase is
\* always shorter than the longest unit: phrase[100] has room to spare.
THEOREM PhraseBoundedHolds ==
  ASSUME Reliable
  PROVE  Spec => []PhraseBounded
<1>1. Following => PhraseBounded
  <2> SUFFICES ASSUME Following, protocol # "Fujitsu" PROVE Len(phrase) < LongestUnit
    BY DEF PhraseBounded
  <2>1. TypeOK /\ Steady /\ LineIn(sent, BinarySize, line) /\ Position
    BY DEF Following
  <2>2. /\ LongestUnit \in Nat \ {0} /\ (IsTabletPC => QuerySize <= LongestUnit)
        /\ \A kind \in UnitKinds(protocol) : Len(Classes(kind, tabletSize)) <= LongestUnit
    BY <2>1, LongestFacts
  <2>3. /\ Len(sent) \in Nat /\ unit \in 1 .. Len(sent) + 1
        /\ place > 1 => unit \in 1..Len(sent) /\ place \in 1..Length(unit)
    BY <2>1, AtFacts
  <2>4. CASE phrase = << >>
    <3>1. Len(phrase) = 0
      BY <2>4
    <3> QED
      BY <2>2, <3>1
  <2>5. CASE Pending
    <3>1. PICK n : n = unit - 1
      OBVIOUS
    <3>2. n \in 1..Len(sent) /\ sent[n] \in {"packet", "newlinePacket"} /\ protocol = "TabletPC"
      BY <2>3, <2>5, <3>1 DEF Pending, IsTabletPC
    <3>3. Length(n) \in Nat /\ Length(n) < QuerySize /\ QuerySize \in Nat
      BY <2>1, <3>2, UnitFacts
    <3>4. phrase = Prefix(n, Length(n))
      BY <2>5, <3>1 DEF Pending
    <3>5. Len(phrase) = Length(n)
      BY <3>3, <3>4, PrefixFacts
    <3> QED
      BY <2>2, <3>2, <3>3, <3>5 DEF IsTabletPC
  <2>6. CASE Inside
    <3>1. unit \in 1..Len(sent) /\ place \in 1..Length(unit) /\ phrase = Prefix(unit, place - 1)
      BY <2>3, <2>6 DEF Inside
    <3>2. Length(unit) \in Nat /\ sent[unit] \in UnitKinds(protocol) /\ BinarySize = tabletSize
      BY <2>1, <3>1, UnitFacts DEF Steady
    <3>3. Length(unit) <= LongestUnit
      BY <2>2, <3>2 DEF Length, LengthIn
    <3>4. Len(phrase) = place - 1
      BY <3>1, <3>2, PrefixFacts
    <3> QED
      BY <2>2, <3>1, <3>2, <3>3, <3>4
  <2> QED
    BY <2>1, <2>4, <2>5, <2>6 DEF Position, Between, LineFeed
<1>2. Following /\ Inv /\ Inv' /\ [Next]_vars => Following'
  BY NextFollowing
<1> QED
  BY <1>1, <1>2, InitFollowing, Invariant, PTL DEF Spec

=============================================================================
