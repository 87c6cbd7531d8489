---------------------------- MODULE SerialFramer ----------------------------
(***************************************************************************)
(* How the daemon cuts the tablet's byte stream into packets and replies.  *)
(*                                                                         *)
(* ProcessSerialStream runs on a timer and reads whatever bytes are        *)
(* waiting, so a read may end anywhere inside a packet or a line.  Its     *)
(* state between bytes is the member `phrase` with in_packet, comma_count  *)
(* and the packet size of the settings in force.  The tablet interleaves   *)
(* binary packets (a byte with the high bit, then bytes without it) with   *)
(* reply lines, the line may lose bytes, and the packet size changes when  *)
(* new settings are imported while old packets are still on their way.     *)
(*                                                                         *)
(* A byte is its class together with the unit the tablet sent it in and    *)
(* its place there, so that the properties can tell where it came from.    *)
(***************************************************************************)
EXTENDS Naturals, Sequences

CONSTANTS
  Protocols,   \* the kinds of tablet considered
  Sizes,       \* the packet sizes of the settings considered
  QuerySize,   \* TPC_QUERY_REPLY_SIZE
  FujitsuSize, \* the 5 of ProcessSerialStream
  MaxUnits,    \* bound: the number of units the tablet sends
  Lossy,       \* TRUE if the line may lose bytes
  Resizable    \* TRUE if settings that change the packet size are imported

Protocol  == {"IV", "IIS", "SD", "TabletPC", "Fujitsu"}
ByteClass == {"head", "data", "tilde", "mark", "comma", "cr", "lf"}

ASSUME FramerAssumption ==
  /\ Protocols \subseteq Protocol
  /\ Sizes \subseteq Nat \ {0, 1}
  /\ QuerySize \in Nat \ {0, 1}
  /\ \A n \in Sizes : n < QuerySize
  /\ FujitsuSize \in Nat \ {0, 1}
  /\ MaxUnits \in Nat
  /\ Lossy \in BOOLEAN
  /\ Resizable \in BOOLEAN

VARIABLES
  protocol,    \* which tablet is connected (series_index, command set)
  tabletSize,  \* the packet size the tablet sends with
  packetSize,  \* settings[0].packet_size
  sent,        \* the kinds of the units sent so far
  line,        \* the bytes between the tablet and the daemon
  phrase,      \* phrase and phrase_count; for a Fujitsu, p and plen
  inPacket,    \* in_packet
  commaCount,  \* comma_count
  delivered,   \* the byte sequences handed on, in order, with how
  raw          \* history: the bytes read since the last high-bit byte, as
               \* long as the packet size has stayed the same

vars == <<protocol, tabletSize, packetSize, sent, line, phrase, inPacket,
          commaCount, delivered, raw>>

framing == <<phrase, inPacket, commaCount>>

IsTabletPC == protocol = "TabletPC"
CommandSetIIS == protocol \in {"IIS", "SD"}
\* Faulty: SD tablets are forgotten.
MutCanParseUDSetup == protocol # "TabletPC"

CanParseUDSetup == protocol \notin {"SD", "TabletPC"}

Byte == [class : ByteClass, unit : Nat, place : Nat]

\* What each tablet sends.  A binary packet may hold bytes that look like
\* newlines; the information string of an SD tablet ends with no newline.
UnitKinds(p) ==
  CASE p = "IV"       -> {"packet", "newlinePacket", "reply"}
    [] p = "IIS"      -> {"packet", "asciiPacket", "reply"}
    [] p = "SD"       -> {"packet", "sdReply"}
    [] p = "TabletPC" -> {"packet", "newlinePacket", "query"}
    [] p = "Fujitsu"  -> {"packet"}

Kinds == {"packet", "newlinePacket", "query", "asciiPacket", "reply", "sdReply"}

ReplyKinds == {"reply", "sdReply"}

Filled(class, n) == [i \in 1..n |-> class]

\* The byte classes of a unit; a binary packet has n bytes.
Classes(kind, n) ==
  CASE kind = "packet"        -> <<"head">> \o Filled("data", n - 1)
    [] kind = "newlinePacket" -> <<"head">> \o Filled("cr", n - 1)
    [] kind = "query"         -> <<"head">> \o Filled("data", QuerySize - 1)
    [] kind = "asciiPacket"   -> <<"mark", "comma", "data", "cr", "lf">>
    [] kind = "reply"         -> <<"tilde", "data", "comma", "cr", "lf">>
    [] kind = "sdReply"       -> <<"tilde", "data", "data", "data", "comma", "comma", "comma">>

\* The length of the longest unit a tablet sends.
LongestUnit == LET kinds == UnitKinds(protocol)
               IN  CHOOSE n \in {Len(Classes(k, tabletSize)) : k \in kinds} :
                     \A k \in kinds : Len(Classes(k, tabletSize)) <= n

BinarySize == IF protocol = "Fujitsu" THEN FujitsuSize ELSE tabletSize

\* The bytes of the n-th unit sent, of the given kind.
Encoded(kind, n) ==
  LET classes == Classes(kind, BinarySize)
  IN  [i \in 1..Len(classes) |-> [class |-> classes[i], unit |-> n, place |-> i]]

Handover(how, bytes) == [how |-> how, bytes |-> bytes]

\* Hand each of a sequence of handovers on, in order.
HandOn(handovers) == delivered' = delivered \o handovers

-----------------------------------------------------------------------------
(***************************************************************************)
(* One byte through ProcessSerialStream.                                   *)
(***************************************************************************)

\* Faulty: a TabletPC's packet is not handed on.
MutEndedByHead ==
  IF ~inPacket /\ phrase # <<>> THEN <<Handover("reply", phrase)>> ELSE <<>>

\* Faulty: what the head ends is a packet whatever its length.
MutEndedByHeadUnchecked ==
  IF phrase = <<>> THEN <<>>
  ELSE IF ~inPacket THEN <<Handover("reply", phrase)>>
  ELSE IF IsTabletPC /\ Len(phrase) = QuerySize THEN <<Handover("query", phrase)>>
  ELSE <<Handover("packet", phrase)>>

\* What a high-bit byte finds in the phrase it ends.  Outside a packet the
\* leftovers are passed on as a reply (the "hack").
EndedByHead ==
  IF ~inPacket
  THEN IF phrase = <<>> THEN <<>> ELSE <<Handover("reply", phrase)>>
  ELSE IF IsTabletPC /\ Len(phrase) = QuerySize THEN <<Handover("query", phrase)>>
  ELSE IF Len(phrase) = packetSize THEN <<Handover("packet", phrase)>>
  ELSE <<>>

StartPacket(b) ==
  /\ b.class = "head"
  /\ HandOn(EndedByHead)
  /\ phrase' = <<b>>
  /\ inPacket' = TRUE
  /\ commaCount' = IF EndedByHead # <<>> /\ EndedByHead[1].how # "query" THEN 0 ELSE commaCount

\* Faulty: off by one.
MutFullLength == IF IsTabletPC THEN QuerySize ELSE packetSize + 1

\* The length at which a packet is handed on without waiting for the next.
FullLength == IF IsTabletPC THEN QuerySize ELSE packetSize

\* A byte of a packet; the last one completes it, except that a TabletPC's
\* packet waits for the next head since a longer query reply starts alike.
InPacket(b) ==
  LET longer == Append(phrase, b)
      how    == IF IsTabletPC THEN "query" ELSE "packet"
  IN  /\ b.class # "head"
      /\ inPacket
      /\ IF Len(longer) = FullLength
         THEN /\ HandOn(<<Handover(how, longer)>>)
              /\ phrase' = <<>>
              /\ inPacket' = FALSE
              /\ commaCount' = IF IsTabletPC THEN commaCount ELSE 0
         ELSE /\ phrase' = longer
              /\ UNCHANGED <<delivered, inPacket, commaCount>>

IsNewline(b) == b.class \in {"cr", "lf"}

\* A line of a tablet in II-S ASCII mode that is a packet, not a reply.
IsAsciiPacket(text) ==
  CommandSetIIS /\ Len(text) > 1 /\ text[1].class = "mark" /\ text[2].class = "comma"

\* The end of a line; a newline with nothing before it is ignored.
EndOfLine(b) ==
  /\ IsNewline(b)
  /\ ~inPacket
  /\ IF phrase = <<>>
     THEN UNCHANGED <<delivered, commaCount>>
     ELSE /\ HandOn(<<IF IsAsciiPacket(phrase) THEN Handover("packet", phrase)
                      ELSE Handover("reply", Append(phrase, b))>>)
          /\ commaCount' = 0
  /\ phrase' = <<>>
  /\ UNCHANGED inPacket

\* Faulty: off by one.
MutCommasOfReply == 4

\* The commas of a reply that no newline ends.
CommasOfReply == 3

\* A character of a line.  The last comma ends the reply of a tablet that
\* cannot parse UD settings.
InLine(b) ==
  LET longer == Append(phrase, b)
      counted == /\ ~CanParseUDSetup /\ Len(longer) > 4
                 /\ longer[1].class = "tilde" /\ b.class = "comma"
  IN  /\ b.class # "head"
      /\ ~IsNewline(b)
      /\ ~inPacket
      /\ IF counted /\ commaCount + 1 = CommasOfReply
         THEN /\ HandOn(<<Handover("reply", longer)>>)
              /\ phrase' = <<>>
              /\ commaCount' = 0
         ELSE /\ phrase' = longer
              /\ commaCount' = IF counted THEN commaCount + 1 ELSE commaCount
              /\ UNCHANGED delivered
      /\ UNCHANGED inPacket

\* Faulty: a head does not start afresh.
MutFujitsuPhrase(b) == Append(phrase, b)

\* A head starts a Fujitsu packet afresh.
FujitsuPhrase(b) == IF b.class = "head" THEN <<b>> ELSE Append(phrase, b)

\* The Fujitsu branch: p and plen are locals of one read and lost at its end.
Fujitsu(b, lastOfRead) ==
  LET longer == FujitsuPhrase(b)
  IN  /\ IF b.class # "head" /\ Len(longer) = FujitsuSize
         THEN HandOn(<<Handover("packet", longer)>>)
         ELSE UNCHANGED delivered
      /\ phrase' = IF lastOfRead THEN <<>> ELSE longer
      /\ UNCHANGED <<inPacket, commaCount>>

\* Outside a packet a newline swallows a second one of the same read.
Swallows(lastOfRead) ==
  /\ protocol # "Fujitsu" /\ ~inPacket /\ ~lastOfRead /\ Len(line) > 1
  /\ IsNewline(line[1]) /\ IsNewline(line[2])

ReadByte(lastOfRead) ==
  /\ line # <<>>
  /\ LET b == Head(line)
     IN  /\ IF protocol = "Fujitsu" THEN Fujitsu(b, lastOfRead)
            ELSE StartPacket(b) \/ InPacket(b) \/ EndOfLine(b) \/ InLine(b)
         /\ raw' = IF b.class = "head" THEN <<b>>
                   ELSE IF raw = <<>> THEN raw ELSE Append(raw, b)
  /\ line' = IF Swallows(lastOfRead) THEN Tail(Tail(line)) ELSE Tail(line)
  /\ UNCHANGED <<protocol, tabletSize, packetSize, sent>>

-----------------------------------------------------------------------------
Init ==
  /\ protocol \in Protocols
  /\ packetSize \in Sizes
  /\ tabletSize = packetSize
  /\ sent = <<>>
  /\ line = <<>>
  /\ phrase = <<>>
  /\ inPacket = FALSE
  /\ commaCount = 0
  /\ delivered = <<>>
  /\ raw = <<>>

\* The tablet sends a packet or a reply.
Send(kind) ==
  /\ Len(sent) < MaxUnits
  /\ kind \in UnitKinds(protocol)
  /\ sent' = Append(sent, kind)
  /\ line' = line \o Encoded(kind, Len(sent) + 1)
  /\ UNCHANGED <<protocol, tabletSize, packetSize, framing, delivered, raw>>

\* The serial line loses a byte.
LoseByte ==
  /\ Lossy
  /\ \E i \in 1..Len(line) :
       line' = SubSeq(line, 1, i - 1) \o SubSeq(line, i + 1, Len(line))
  /\ UNCHANGED <<protocol, tabletSize, packetSize, sent, framing, delivered, raw>>

\* Settings are imported: the daemon expects the new size at once.
Import(n) ==
  /\ Resizable
  /\ n # packetSize
  /\ packetSize' = n
  /\ raw' = <<>>
  /\ UNCHANGED <<protocol, tabletSize, sent, line, framing, delivered>>

\* The tablet obeys the settings command that was sent after the import.
TabletObeys ==
  /\ tabletSize # packetSize
  /\ tabletSize' = packetSize
  /\ UNCHANGED <<protocol, packetSize, sent, line, framing, delivered, raw>>

Next ==
  \/ \E p \in Protocols : \E kind \in UnitKinds(p) : Send(kind)
  \/ \E lastOfRead \in BOOLEAN : ReadByte(lastOfRead)
  \/ LoseByte
  \/ \E n \in Sizes : Import(n)
  \/ TabletObeys

Spec == Init /\ [][Next]_vars

\* The 250 Hz timer keeps reading while bytes are waiting.
FairSpec == Spec /\ WF_vars(\E lastOfRead \in BOOLEAN : ReadByte(lastOfRead))

-----------------------------------------------------------------------------
Handovers == [how : {"packet", "query", "reply"}, bytes : Seq(Byte)]

TypeOK ==
  /\ protocol \in Protocols
  /\ tabletSize \in Sizes /\ packetSize \in Sizes
  /\ sent \in Seq(Kinds)
  /\ line \in Seq(Byte) /\ phrase \in Seq(Byte) /\ raw \in Seq(Byte)
  /\ inPacket \in BOOLEAN
  /\ commaCount \in 0..2
  /\ delivered \in Seq(Handovers)

\* How a unit must be handed on.
HowFor(kind) ==
  IF kind \in ReplyKinds THEN "reply" ELSE IF kind = "query" THEN "query" ELSE "packet"

\* The bytes of unit n that count: a line ends at its first newline, which a
\* reply keeps and an ASCII packet does not.
Content(n) ==
  CASE sent[n] = "asciiPacket" -> 3
    [] sent[n] = "reply"       -> 4
    [] OTHER                   -> Len(Classes(sent[n], BinarySize))

\* The number of the unit a handover is, whole and handed on as what it is;
\* 0 if it is none.
UnitOf(h) ==
  LET n == h.bytes[1].unit
  IN  IF /\ h.how = HowFor(sent[n])
         /\ Len(h.bytes) = Content(n)
         /\ \A i \in 1..Len(h.bytes) : h.bytes[i].unit = n /\ h.bytes[i].place = i
      THEN n ELSE 0

Output == [i \in 1..Len(delivered) |-> UnitOf(delivered[i])]

Stream == INSTANCE Channel WITH
  Items   <- 1..MaxUnits,
  mayDrop <- protocol = "Fujitsu",
  input   <- [i \in 1..Len(sent) |-> i],
  output  <- Output

\* On a line that loses nothing, with settings that stay, the framing is a
\* channel: every packet and reply comes out once, whole, as what it is and in
\* order, wherever the reads end and whatever follows it on the line.  Fujitsu
\* packets cut by the end of a read are dropped, never joined with another.
FirstInFirstOut == Stream!Spec

\* Each unit but Fujitsu packets comes out in the end; a TabletPC's packet only once another unit
\* follows, since a longer query reply would start the same way.
EventuallyDelivered ==
  \A k \in 1..MaxUnits :
    (protocol # "Fujitsu" /\ Len(sent) >= k /\ (IsTabletPC => Len(sent) > k)) ~> Len(delivered) >= k

\* The phrase never outgrows what one unit needs, so phrase[100] has "room to
\* spare" as its declaration says, on a line that loses nothing.
PhraseBounded ==
  protocol # "Fujitsu" => Len(phrase) < LongestUnit

WellFormed(h) ==
  h.how = "packet" /\ h.bytes[1].class # "mark" =>
    /\ Len(h.bytes) \in Sizes
    /\ \A j \in 1..Len(h.bytes) : h.bytes[j].class = "head" <=> j = 1

\* Whatever was lost, resized or left over: what is handed on as a binary
\* packet starts with its only head and has the size of some settings.
PacketsWellFormed == \A i \in 1..Len(delivered) : WellFormed(delivered[i])

\* Resynchronisation: whatever came before it, a packet of the size in force
\* that arrives whole is handed on, whole, with its last byte (the point of
\* starting afresh at every high-bit byte).
ArrivedWhole(bytes, n) ==
  /\ Len(bytes) = n
  /\ \A i \in 1..n : bytes[i].unit = bytes[1].unit /\ bytes[i].place = i

Resynchronises ==
  [][/\ raw' # raw
     /\ protocol \in {"IV", "IIS", "SD"}
     /\ ArrivedWhole(raw', packetSize)
     => delivered' = Append(delivered, Handover("packet", raw'))]_vars

=============================================================================
