------------------------- MODULE SerialFramerProofs -------------------------
(***************************************************************************)
(* Proofs about SerialFramer, for every set of protocols and of packet     *)
(* sizes, any number of units, lines that lose bytes and settings that     *)
(* change: the types, the shape of what is handed on as a packet, and the  *)
(* resynchronisation with the first packet that arrives whole.             *)
(***************************************************************************)
EXTENDS SerialFramer, SequenceTheorems, TLAPS

(***************************************************************************)
(* What the tablets send.                                                  *)
(***************************************************************************)
\* A run of equal bytes.
LEMMA FilledType ==
  ASSUME NEW class \in ByteClass, NEW n \in Nat
  PROVE  Filled(class, n) \in Seq(ByteClass) /\ Len(Filled(class, n)) = n
  BY DEF Filled

\* Every unit is a sequence of byte classes.
LEMMA ClassesType ==
  ASSUME NEW kind \in Kinds, NEW n \in Nat \ {0}
  PROVE  Classes(kind, n) \in Seq(ByteClass)
<1>1. ASSUME NEW class \in ByteClass, NEW m \in Nat \ {0}
      PROVE  <<"head">> \o Filled(class, m - 1) \in Seq(ByteClass)
  <2>1. <<"head">> \in Seq(ByteClass)
    BY DEF ByteClass
  <2> QED
    BY <2>1, FilledType, ConcatProperties
<1>2. CASE kind \in {"packet", "newlinePacket", "query"}
  BY <1>1, <1>2, FramerAssumption DEF Classes, ByteClass
<1>3. Classes("asciiPacket", n) \in Seq(ByteClass)
  BY DEF Classes, ByteClass
<1>4. Classes("reply", n) \in Seq(ByteClass)
  BY DEF Classes, ByteClass
<1>5. Classes("sdReply", n) \in Seq(ByteClass)
  BY DEF Classes, ByteClass
<1> QED
  BY <1>2, <1>3, <1>4, <1>5 DEF Kinds

\* The bytes of a unit.
LEMMA EncodedType ==
  ASSUME TypeOK, NEW kind \in Kinds, NEW n \in Nat
  PROVE  Encoded(kind, n) \in Seq(Byte)
<1> DEFINE classes == Classes(kind, BinarySize)
<1>1. BinarySize \in Nat \ {0}
  BY FramerAssumption DEF BinarySize, TypeOK
<1>2. classes \in Seq(ByteClass)
  BY <1>1, ClassesType
<1>3. \A i \in 1..Len(classes) : [class |-> classes[i], unit |-> n, place |-> i] \in Byte
  BY <1>2, ElementOfSeq DEF Byte
<1> QED
  BY <1>2, <1>3 DEF Encoded

\* A line that lost a byte.
LEMMA LossType ==
  ASSUME NEW S, NEW s \in Seq(S), NEW i \in 1..Len(s)
  PROVE  SubSeq(s, 1, i - 1) \o SubSeq(s, i + 1, Len(s)) \in Seq(S)
<1>1. SubSeq(s, 1, i - 1) \in Seq(S)
  BY SubSeqProperties, ElementOfSeq
<1>2. SubSeq(s, i + 1, Len(s)) \in Seq(S)
  BY SubSeqProperties, ElementOfSeq
<1> QED
  BY <1>1, <1>2, ConcatProperties

(***************************************************************************)
(* Handing on.                                                             *)
(***************************************************************************)
\* Handing one sequence of bytes on appends it.
LEMMA HandOnOne ==
  ASSUME delivered \in Seq(Handovers), NEW h \in Handovers, HandOn(<<h>>)
  PROVE  delivered' = Append(delivered, h) /\ delivered' \in Seq(Handovers)
  BY AppendIsConcat, AppendProperties DEF HandOn

\* Handing nothing on.
LEMMA HandOnNone ==
  ASSUME delivered \in Seq(Handovers), HandOn(<<>>)
  PROVE  delivered' = delivered
  BY ConcatEmptySeq DEF HandOn

\* What a head ends is one handover of the whole phrase, or none.
LEMMA EndedByHeadFacts ==
  ASSUME TypeOK
  PROVE  \/ EndedByHead = <<>>
         \/ \E h \in Handovers :
              /\ EndedByHead = <<h>> /\ h.bytes = phrase
              /\ h.how = "packet" => inPacket /\ Len(phrase) = packetSize
<1>1. \A how \in {"packet", "query", "reply"} :
        Handover(how, phrase) \in Handovers
  BY DEF Handover, Handovers, TypeOK
<1> QED
  BY <1>1 DEF EndedByHead, Handover

(***************************************************************************)
(* The phrase.  Inside a packet it starts with its only head; outside it   *)
(* holds none.  The Fujitsu branch keeps no such order: its phrase is a    *)
(* local variable of one read, which may begin in the middle of a packet.  *)
(***************************************************************************)
HeadFirst(bytes) ==
  bytes # <<>> /\ \A j \in 1..Len(bytes) : bytes[j].class = "head" <=> j = 1

NoHead(bytes) == \A j \in 1..Len(bytes) : bytes[j].class # "head"

PhraseOK ==
  protocol # "Fujitsu" => IF inPacket THEN HeadFirst(phrase) ELSE NoHead(phrase)

\* What any byte leaves behind.
GoodByte ==
  /\ phrase' \in Seq(Byte) /\ inPacket' \in BOOLEAN /\ commaCount' \in 0..2
  /\ \/ delivered' = delivered
     \/ \E h \in Handovers :
          /\ delivered' = Append(delivered, h)
          /\ protocol # "Fujitsu" => WellFormed(h)
  /\ protocol # "Fujitsu" => IF inPacket' THEN HeadFirst(phrase') ELSE NoHead(phrase')

\* One more byte of a packet or of a line.
LEMMA Longer ==
  ASSUME NEW bytes \in Seq(Byte), NEW b \in Byte, b.class # "head"
  PROVE  /\ Append(bytes, b) \in Seq(Byte)
         /\ HeadFirst(bytes) => HeadFirst(Append(bytes, b))
         /\ NoHead(bytes) => NoHead(Append(bytes, b))
<1> DEFINE longer == Append(bytes, b)
<1>1. /\ longer \in Seq(Byte) /\ longer # <<>>
      /\ Len(bytes) \in Nat /\ Len(longer) = Len(bytes) + 1
      /\ \A j \in 1..Len(bytes) : longer[j] = bytes[j]
      /\ longer[Len(bytes) + 1] = b
  BY AppendProperties, LenProperties
<1>2. ASSUME NEW j \in 1..Len(longer)
      PROVE  j \in 1..Len(bytes) \/ j = Len(bytes) + 1
  BY <1>1
<1>3. HeadFirst(bytes) => Len(bytes) # 0
  BY EmptySeq DEF HeadFirst
<1> QED
  BY <1>1, <1>2, <1>3 DEF HeadFirst, NoHead

\* A high-bit byte ends the phrase and starts a packet.
LEMMA StartPacketGood ==
  ASSUME TypeOK, PhraseOK, NEW b \in Byte, StartPacket(b)
  PROVE  GoodByte
<1>1. phrase' \in Seq(Byte) /\ HeadFirst(phrase') /\ inPacket' = TRUE
  BY DEF StartPacket, HeadFirst
<1>2. commaCount' \in 0..2
  BY DEF StartPacket, TypeOK
<1>3. CASE EndedByHead = <<>>
  BY <1>1, <1>2, <1>3, HandOnNone DEF GoodByte, StartPacket, TypeOK
<1>4. CASE EndedByHead # <<>>
  <2>1. PICK h \in Handovers :
          /\ EndedByHead = <<h>> /\ h.bytes = phrase
          /\ h.how = "packet" => inPacket /\ Len(phrase) = packetSize
    BY <1>4, EndedByHeadFacts
  <2>2. delivered' = Append(delivered, h)
    BY <2>1, HandOnOne DEF StartPacket, TypeOK
  <2>3. protocol # "Fujitsu" => WellFormed(h)
    BY <2>1 DEF WellFormed, PhraseOK, HeadFirst, TypeOK
  <2> QED
    BY <1>1, <1>2, <2>2, <2>3 DEF GoodByte
<1> QED
  BY <1>3, <1>4

\* A byte of a packet.
LEMMA InPacketGood ==
  ASSUME TypeOK, PhraseOK, NEW b \in Byte, InPacket(b), protocol # "Fujitsu"
  PROVE  GoodByte
<1> DEFINE longer == Append(phrase, b)
           how    == IF IsTabletPC THEN "query" ELSE "packet"
           h      == Handover(how, longer)
<1>1. longer \in Seq(Byte) /\ HeadFirst(longer)
  BY Longer DEF InPacket, PhraseOK, TypeOK
<1>2. CASE Len(longer) = FullLength
  <2>1. HandOn(<<h>>) /\ phrase' = <<>> /\ inPacket' = FALSE /\ commaCount' \in 0..2
    BY <1>2 DEF InPacket, TypeOK
  <2>2. h \in Handovers
    BY <1>1 DEF Handover, Handovers
  <2>3. delivered' = Append(delivered, h)
    BY <2>1, <2>2, HandOnOne DEF TypeOK
  <2>4. h.how = how /\ h.bytes = longer
    BY DEF Handover
  <2>5. h.how = "packet" => Len(longer) \in Sizes
    BY <1>2, <2>4 DEF FullLength, TypeOK
  <2>6. WellFormed(h)
    BY <1>1, <2>4, <2>5 DEF WellFormed, HeadFirst
  <2>7. phrase' \in Seq(Byte) /\ NoHead(phrase')
    BY <2>1 DEF NoHead
  <2> QED
    BY <2>1, <2>2, <2>3, <2>6, <2>7 DEF GoodByte
<1>3. CASE Len(longer) # FullLength
  BY <1>1, <1>3 DEF InPacket, GoodByte, TypeOK
<1> QED
  BY <1>2, <1>3

\* The end of a line.
LEMMA EndOfLineGood ==
  ASSUME TypeOK, PhraseOK, NEW b \in Byte, EndOfLine(b)
  PROVE  GoodByte
<1>1. /\ phrase' = <<>> /\ inPacket' = FALSE /\ inPacket = FALSE
      /\ commaCount' \in 0..2
  BY DEF EndOfLine, TypeOK
<1>2. phrase' \in Seq(Byte) /\ NoHead(phrase')
  BY <1>1 DEF NoHead
<1>3. CASE phrase = <<>>
  BY <1>1, <1>2, <1>3 DEF EndOfLine, GoodByte
<1>4. CASE phrase # <<>>
  <2> DEFINE h == IF IsAsciiPacket(phrase) THEN Handover("packet", phrase)
                  ELSE Handover("reply", Append(phrase, b))
  <2>1. HandOn(<<h>>)
    BY <1>4 DEF EndOfLine
  <2>2. h \in Handovers
    BY AppendProperties DEF Handover, Handovers, TypeOK
  <2>3. delivered' = Append(delivered, h)
    BY <2>1, <2>2, HandOnOne DEF TypeOK
  <2>4. WellFormed(h)
    BY DEF WellFormed, Handover, IsAsciiPacket
  <2> QED
    BY <1>1, <1>2, <2>2, <2>3, <2>4 DEF GoodByte
<1> QED
  BY <1>3, <1>4

\* A character of a line.
LEMMA InLineGood ==
  ASSUME TypeOK, PhraseOK, NEW b \in Byte, InLine(b), protocol # "Fujitsu"
  PROVE  GoodByte
<1> DEFINE longer  == Append(phrase, b)
           counted == /\ ~CanParseUDSetup /\ Len(longer) > 4
                      /\ longer[1].class = "tilde" /\ b.class = "comma"
           h       == Handover("reply", longer)
<1>1. longer \in Seq(Byte) /\ NoHead(longer) /\ inPacket' = FALSE
  BY Longer DEF InLine, PhraseOK, TypeOK
<1>2. CASE counted /\ commaCount + 1 = CommasOfReply
  <2>1. HandOn(<<h>>) /\ phrase' = <<>> /\ commaCount' = 0
    BY <1>2 DEF InLine
  <2>2. h \in Handovers
    BY <1>1 DEF Handover, Handovers
  <2>3. delivered' = Append(delivered, h)
    BY <2>1, <2>2, HandOnOne DEF TypeOK
  <2>4. WellFormed(h)
    BY DEF WellFormed, Handover
  <2>5. phrase' \in Seq(Byte) /\ NoHead(phrase')
    BY <2>1 DEF NoHead
  <2>6. commaCount' \in 0..2
    BY <2>1
  <2> HIDE DEF h, longer, counted
  <2> QED
    BY <1>1, <2>2, <2>3, <2>4, <2>5, <2>6 DEF GoodByte
<1>3. CASE ~(counted /\ commaCount + 1 = CommasOfReply)
  <2>1. phrase' = longer /\ delivered' = delivered
    BY <1>3 DEF InLine
  <2>2. commaCount' = IF counted THEN commaCount + 1 ELSE commaCount
    BY <1>3 DEF InLine
  <2>3. commaCount' \in 0..2
    BY <1>3, <2>2 DEF TypeOK, CommasOfReply
  <2> QED
    BY <1>1, <2>1, <2>3 DEF GoodByte
<1> QED
  BY <1>2, <1>3

\* A byte of a Fujitsu packet.
LEMMA FujitsuGood ==
  ASSUME TypeOK, NEW b \in Byte, NEW lastOfRead \in BOOLEAN, Fujitsu(b, lastOfRead),
         protocol = "Fujitsu"
  PROVE  GoodByte
<1> DEFINE longer == FujitsuPhrase(b)
           h      == Handover("packet", longer)
<1>1. longer \in Seq(Byte)
  BY AppendProperties DEF FujitsuPhrase, TypeOK
<1>2. phrase' \in Seq(Byte) /\ inPacket' \in BOOLEAN /\ commaCount' \in 0..2
  BY <1>1 DEF Fujitsu, TypeOK
<1>3. h \in Handovers
  BY <1>1 DEF Handover, Handovers
<1>4. delivered' = delivered \/ delivered' = Append(delivered, h)
  BY <1>3, HandOnOne DEF Fujitsu, TypeOK
<1> QED
  BY <1>2, <1>3, <1>4 DEF GoodByte

\* A byte of any tablet, in whatever state it finds the daemon.
LEMMA ReadByteGood ==
  ASSUME TypeOK, PhraseOK, NEW lastOfRead \in BOOLEAN, ReadByte(lastOfRead)
  PROVE  GoodByte /\ line' \in Seq(Byte) /\ raw' \in Seq(Byte)
<1> DEFINE b == Head(line)
<1>1. b \in Byte /\ Tail(line) \in Seq(Byte)
  BY HeadTailProperties DEF ReadByte, TypeOK
<1>2. GoodByte
  <2>1. CASE protocol = "Fujitsu"
    BY <1>1, <2>1, FujitsuGood DEF ReadByte
  <2>2. CASE protocol # "Fujitsu"
    BY <1>1, <2>2, StartPacketGood, InPacketGood, EndOfLineGood, InLineGood DEF ReadByte
  <2> QED
    BY <2>1, <2>2
<1>3. line' \in Seq(Byte)
  <2>1. CASE Swallows(lastOfRead)
    <3>1. Len(line) > 1 /\ line # <<>>
      BY <2>1 DEF Swallows, ReadByte
    <3>2. Len(Tail(line)) = Len(line) - 1
      BY <3>1, HeadTailProperties DEF TypeOK
    <3>3. Len(line) \in Nat
      BY LenProperties DEF TypeOK
    <3>4. Len(Tail(line)) > 0
      BY <3>1, <3>2, <3>3
    <3>5. Tail(line) # <<>>
      BY <1>1, <3>4, EmptySeq
    <3>6. Tail(Tail(line)) \in Seq(Byte)
      BY <1>1, <3>5, HeadTailProperties
    <3> QED
      BY <2>1, <3>6 DEF ReadByte
  <2>2. CASE ~Swallows(lastOfRead)
    BY <1>1, <2>2 DEF ReadByte
  <2> QED
    BY <2>1, <2>2
<1>4. raw' \in Seq(Byte)
  <2>1. /\ raw' = IF b.class = "head" THEN <<b>>
                   ELSE IF raw = <<>> THEN raw ELSE Append(raw, b)
    BY DEF ReadByte
  <2>2. <<b>> \in Seq(Byte) /\ Append(raw, b) \in Seq(Byte) /\ raw \in Seq(Byte)
    BY <1>1, AppendProperties DEF TypeOK
  <2> QED
    BY <2>1, <2>2
<1> QED
  BY <1>2, <1>3, <1>4

(***************************************************************************)
(* Types, and the shape of packets.                                        *)
(***************************************************************************)
\* What a tablet sends is one of the kinds.
LEMMA SendType ==
  ASSUME TypeOK, NEW p \in Protocols, NEW kind \in UnitKinds(p), Send(kind)
  PROVE  sent' \in Seq(Kinds) /\ line' \in Seq(Byte)
<1>1. kind \in Kinds
  BY FramerAssumption DEF UnitKinds, Kinds, Protocol
<1>2. sent' \in Seq(Kinds)
  BY <1>1, AppendProperties DEF Send, TypeOK
<1>3. Len(sent) + 1 \in Nat
  BY LenProperties DEF TypeOK
<1>4. Encoded(kind, Len(sent) + 1) \in Seq(Byte)
  BY <1>1, <1>3, EncodedType
<1>5. line' \in Seq(Byte)
  BY <1>4, ConcatProperties DEF Send, TypeOK
<1> QED
  BY <1>2, <1>5

\* The shape of the phrase, the shape of what was handed on and the types
\* support one another: a packet is well formed because the phrase was.
Inv ==
  /\ TypeOK
  /\ PhraseOK
  /\ protocol # "Fujitsu" => PacketsWellFormed

LEMMA InitInv == Init => Inv
<1> SUFFICES ASSUME Init PROVE Inv
  OBVIOUS
<1>1. /\ sent \in Seq(Kinds) /\ delivered \in Seq(Handovers)
      /\ line \in Seq(Byte) /\ phrase \in Seq(Byte) /\ raw \in Seq(Byte)
  BY EmptySeq DEF Init
<1>2. TypeOK
  <2>1. protocol \in Protocols /\ tabletSize \in Sizes /\ packetSize \in Sizes
    BY DEF Init
  <2>2. inPacket \in BOOLEAN
    BY DEF Init
  <2>3. commaCount \in 0..2
    BY DEF Init
  <2> QED
    BY <1>1, <2>1, <2>2, <2>3 DEF TypeOK
<1>3. PhraseOK
  BY DEF Init, PhraseOK, NoHead
<1>4. PacketsWellFormed
  BY DEF Init, PacketsWellFormed
<1> QED
  BY <1>2, <1>3, <1>4 DEF Inv

\* One more handover that is well formed.
LEMMA OneMoreWellFormed ==
  ASSUME TypeOK, PacketsWellFormed, NEW h \in Handovers, WellFormed(h),
         delivered' = Append(delivered, h)
  PROVE  PacketsWellFormed'
<1>1. /\ Len(delivered) \in Nat /\ Len(delivered') = Len(delivered) + 1
      /\ \A i \in 1..Len(delivered) : delivered'[i] = delivered[i]
      /\ delivered'[Len(delivered) + 1] = h
  BY AppendProperties, LenProperties DEF TypeOK
<1>2. ASSUME NEW i \in 1..Len(delivered')
      PROVE  WellFormed(delivered'[i])
  <2>1. CASE i \in 1..Len(delivered)
    BY <1>1, <2>1 DEF PacketsWellFormed
  <2>2. CASE i = Len(delivered) + 1
    BY <1>1, <2>2
  <2> QED
    BY <1>1, <2>1, <2>2
<1> QED
  BY <1>2 DEF PacketsWellFormed

\* One step.
LEMMA NextInv ==
  ASSUME Inv, [Next]_vars
  PROVE  Inv'
<1> USE DEF Inv
<1>1. ASSUME NEW p \in Protocols, NEW kind \in UnitKinds(p), Send(kind)
      PROVE  Inv'
  BY <1>1, SendType DEF Send, framing, TypeOK, PhraseOK, PacketsWellFormed, WellFormed,
     HeadFirst, NoHead
<1>2. ASSUME NEW lastOfRead \in BOOLEAN, ReadByte(lastOfRead)
      PROVE  Inv'
  <2>1. GoodByte /\ line' \in Seq(Byte) /\ raw' \in Seq(Byte)
    BY <1>2, ReadByteGood
  <2>2. UNCHANGED <<protocol, tabletSize, packetSize, sent>>
    BY <1>2 DEF ReadByte
  <2>3. delivered' \in Seq(Handovers)
    <3>1. ASSUME NEW h \in Handovers
          PROVE  Append(delivered, h) \in Seq(Handovers)
      BY AppendProperties DEF TypeOK
    <3>2. delivered \in Seq(Handovers)
      BY DEF TypeOK
    <3> QED
      BY <2>1, <3>1, <3>2 DEF GoodByte
  <2>4. TypeOK'
    BY <2>1, <2>2, <2>3 DEF GoodByte, TypeOK
  <2>5. PhraseOK'
    BY <2>1, <2>2 DEF GoodByte, PhraseOK, HeadFirst, NoHead
  <2>6. ASSUME protocol # "Fujitsu"
        PROVE  PacketsWellFormed'
    <3>1. CASE delivered' = delivered
      BY <2>6, <3>1 DEF PacketsWellFormed, WellFormed
    <3>2. ASSUME NEW h \in Handovers, delivered' = Append(delivered, h), WellFormed(h)
          PROVE  PacketsWellFormed'
      BY <2>6, <3>2, OneMoreWellFormed
    <3> QED
      BY <2>1, <2>6, <3>1, <3>2 DEF GoodByte
  <2> QED
    BY <2>2, <2>4, <2>5, <2>6
<1>3. CASE LoseByte
  <2>1. line' \in Seq(Byte)
    BY <1>3, LossType DEF LoseByte, TypeOK
  <2> QED
    BY <1>3, <2>1 DEF LoseByte, framing, TypeOK, PhraseOK, PacketsWellFormed, WellFormed,
       HeadFirst, NoHead
<1>4. ASSUME NEW n \in Sizes, Import(n)
      PROVE  Inv'
  BY <1>4 DEF Import, framing, TypeOK, PhraseOK, PacketsWellFormed, WellFormed,
     HeadFirst, NoHead
<1>5. CASE TabletObeys
  BY <1>5 DEF TabletObeys, framing, TypeOK, PhraseOK, PacketsWellFormed, WellFormed,
     HeadFirst, NoHead
<1>6. CASE UNCHANGED vars
  BY <1>6 DEF vars, TypeOK, PhraseOK, PacketsWellFormed, WellFormed, HeadFirst, NoHead
<1> QED
  BY <1>1, <1>2, <1>3, <1>4, <1>5, <1>6 DEF Next

\* The inductive invariant.
THEOREM Invariant == Spec => []Inv
<1>1. Init => Inv
  BY InitInv
<1>2. Inv /\ [Next]_vars => Inv'
  BY NextInv
<1> QED
  BY <1>1, <1>2, PTL DEF Spec

\* Whatever the line loses and whatever settings arrive, the framing state
\* keeps its types: ProcessSerialStream counts at most two commas before it
\* hands a reply on.
THEOREM TypeCorrect == Spec => []TypeOK
<1>1. Inv => TypeOK
  BY DEF Inv
<1> QED
  BY <1>1, Invariant, PTL

\* For every tablet but a Fujitsu, whatever was lost, resized or left over,
\* what ProcessSerialStream hands on as a binary packet has one head, its
\* first byte, and the size of some settings.
THEOREM PacketsWellFormedHolds ==
  ASSUME "Fujitsu" \notin Protocols
  PROVE  Spec => []PacketsWellFormed
<1>1. Inv => PacketsWellFormed
  BY DEF Inv, TypeOK
<1> QED
  BY <1>1, Invariant, PTL

(***************************************************************************)
(* Resynchronisation.                                                      *)
(***************************************************************************)
\* While fewer bytes than a packet have been read since the last head, they
\* are the phrase.
RawIsPhrase ==
  protocol \in {"IV", "IIS", "SD"} /\ raw # <<>> /\ Len(raw) < packetSize
    => inPacket /\ phrase = raw

LEMMA ReadByteRaw ==
  ASSUME TypeOK, RawIsPhrase, NEW lastOfRead \in BOOLEAN, ReadByte(lastOfRead),
         protocol \in {"IV", "IIS", "SD"}
  PROVE  /\ RawIsPhrase'
         /\ raw' # raw /\ Len(raw') = packetSize
              => delivered' = Append(delivered, Handover("packet", raw'))
<1> DEFINE b == Head(line)
<1>1. b \in Byte
  BY HeadTailProperties DEF ReadByte, TypeOK
<1>2. /\ packetSize \in Nat /\ packetSize > 1
      /\ UNCHANGED <<protocol, packetSize>>
  BY FramerAssumption DEF ReadByte, TypeOK
<1>3. StartPacket(b) \/ InPacket(b) \/ EndOfLine(b) \/ InLine(b)
  BY DEF ReadByte
<1>4. raw' = IF b.class = "head" THEN <<b>>
             ELSE IF raw = <<>> THEN raw ELSE Append(raw, b)
  BY DEF ReadByte
<1>5. CASE b.class = "head"
  <2>1. StartPacket(b)
    BY <1>3, <1>5 DEF InPacket, EndOfLine, InLine, IsNewline
  <2>2. raw' = <<b>> /\ phrase' = <<b>> /\ inPacket' = TRUE
    BY <1>4, <1>5, <2>1 DEF StartPacket
  <2>3. Len(raw') = 1
    BY <2>2
  <2> QED
    BY <1>2, <2>2, <2>3 DEF RawIsPhrase
<1>6. CASE b.class # "head" /\ raw = <<>>
  BY <1>4, <1>6 DEF RawIsPhrase
<1>7. CASE b.class # "head" /\ raw # <<>>
  <2>1. raw' = Append(raw, b) /\ Len(raw') = Len(raw) + 1 /\ Len(raw) \in Nat
    BY <1>1, <1>4, <1>7, AppendProperties, LenProperties DEF TypeOK
  <2>2. CASE Len(raw') > packetSize
    BY <1>2, <2>1, <2>2 DEF RawIsPhrase
  <2>3. CASE Len(raw') <= packetSize
    <3>1. inPacket /\ phrase = raw
      BY <1>2, <1>7, <2>1, <2>3 DEF RawIsPhrase
    <3>2. InPacket(b)
      BY <1>3, <1>7, <3>1 DEF StartPacket, EndOfLine, InLine
    <3>3. ~IsTabletPC /\ FullLength = packetSize
      BY DEF IsTabletPC, FullLength
    <3>4. CASE Len(raw') = packetSize
      <4>1. HandOn(<<Handover("packet", raw')>>)
        BY <2>1, <3>1, <3>2, <3>3, <3>4 DEF InPacket
      <4>2. raw' \in Seq(Byte)
        BY <1>1, <2>1, AppendProperties DEF TypeOK
      <4>3. Handover("packet", raw') \in Handovers
        BY <4>2 DEF Handover, Handovers
      <4>4. delivered' = Append(delivered, Handover("packet", raw'))
        BY <4>1, <4>3, HandOnOne DEF TypeOK
      <4> QED
        BY <1>2, <3>4, <4>4 DEF RawIsPhrase
    <3>5. CASE Len(raw') # packetSize
      <4>1. phrase' = raw' /\ inPacket'
        BY <2>1, <3>1, <3>2, <3>3, <3>5 DEF InPacket
      <4> QED
        BY <3>5, <4>1 DEF RawIsPhrase
    <3> QED
      BY <3>4, <3>5
  <2>4. packetSize \in Nat /\ Len(raw') \in Nat
    BY <1>2, <2>1
  <2> QED
    BY <2>2, <2>3, <2>4
<1> QED
  BY <1>5, <1>6, <1>7

\* Only reading a byte makes raw longer.
LEMMA NextRaw ==
  ASSUME TypeOK, RawIsPhrase, [Next]_vars
  PROVE  /\ RawIsPhrase'
         /\ raw' # raw /\ protocol \in {"IV", "IIS", "SD"} /\ Len(raw') = packetSize
              => delivered' = Append(delivered, Handover("packet", raw'))
<1>1. ASSUME NEW p \in Protocols, NEW kind \in UnitKinds(p), Send(kind)
      PROVE  RawIsPhrase' /\ raw' = raw
  BY <1>1 DEF Send, framing, RawIsPhrase
<1>2. ASSUME NEW lastOfRead \in BOOLEAN, ReadByte(lastOfRead),
             protocol \notin {"IV", "IIS", "SD"}
      PROVE  RawIsPhrase'
  BY <1>2 DEF ReadByte, RawIsPhrase
<1>3. CASE LoseByte
  BY <1>3 DEF LoseByte, framing, RawIsPhrase
<1>4. ASSUME NEW n \in Sizes, Import(n)
      PROVE  RawIsPhrase' /\ Len(raw') # packetSize
  BY <1>4, FramerAssumption DEF Import, RawIsPhrase, TypeOK
<1>5. CASE TabletObeys
  BY <1>5 DEF TabletObeys, framing, RawIsPhrase
<1>6. CASE UNCHANGED vars
  BY <1>6 DEF vars, RawIsPhrase
<1>7. (LoseByte \/ TabletObeys \/ UNCHANGED vars) => raw' = raw
  BY DEF LoseByte, TabletObeys, vars
<1> QED
  BY <1>1, <1>2, <1>3, <1>4, <1>5, <1>6, <1>7, ReadByteRaw DEF Next

\* For every tablet whose packets have a fixed size and whatever the line
\* lost before: the byte that completes a packet since the last high-bit byte
\* hands that packet on, because ProcessSerialStream starts afresh at every
\* high-bit byte.
THEOREM ResynchronisesHolds == Spec => Resynchronises
<1>1. Init => RawIsPhrase
  BY DEF Init, RawIsPhrase
<1>2. TypeOK /\ RawIsPhrase /\ [Next]_vars => RawIsPhrase'
  BY NextRaw
<1>3. TypeOK /\ RawIsPhrase /\ [Next]_vars
        => [/\ raw' # raw
            /\ protocol \in {"IV", "IIS", "SD"}
            /\ ArrivedWhole(raw', packetSize)
            => delivered' = Append(delivered, Handover("packet", raw'))]_vars
  BY NextRaw DEF ArrivedWhole
<1> QED
  BY <1>1, <1>2, <1>3, TypeCorrect, PTL DEF Spec, Resynchronises
=============================================================================
